------------------------- MODULE MCSessionLifecycle -------------------------
(* Small instances of SessionLifecycle for TLC.  Two scenarios share a run:*)
(* one runner that may crash, be slow to answer, be killed or dismissed,   *)
(* and two that compete for the path after a kill, a restart or a resume.  *)
EXTENDS SessionLifecycle, TLC

CONSTANTS r1, r2, r3, e1, e2, e3

VARIABLE scenario

MCCallers == Registrars \cup {User}

(* "crash": one runner, that may crash or be slow to answer; "kill": it is *)
(* killed or dismissed; "restart": a second one takes its place and stays; *)
(* "race": a resume or a restart comes with a restart, then a scan.        *)
Steady ==
  /\ \A r \in Runners : run[r] # run'[r] /\ run'[r] = "gone" =>
       run[r] = "deregistered" /\ removed[r] = None
  /\ \A x \in Registrars : reg[x] = "posting" /\ reg'[x] = "done" => ~Listening(path)

(* Nobody is on the way: every runner is settled or gone.                  *)
Calm ==
  /\ \A r \in Runners : run[r] \in {"idle", "elsewhere", "running", "gone"} /\ reg[r] \in {"none", "done"}
  /\ \A e \in Entries : phase[e] \in {"unused", "streaming"}

Within ==
  /\ scenario # "race" => requests' <= 1 /\ run'[r3] = "idle"
  /\ scenario # "crash" => Steady
  /\ CASE scenario = "crash" -> requests' = 0
       [] scenario = "kill" -> req'[1] \in {"none", "kill", "dismiss"} /\ run'[r2] = "idle"
       [] scenario = "restart" -> /\ req'[1] \in {"none", "restart"}
                                  /\ child \ {First} \subseteq child'
       [] scenario = "race" -> /\ req'[1] \in {"none", "restart"}
                               /\ req' = NoRequest => child \subseteq child'
                               /\ scan = "idle" /\ scan' # "idle" =>
                                    requests = MaxRequests /\ req = NoRequest /\ Calm

MCInit == LifeInit /\ scenario \in {"crash", "kill", "restart", "race"}

MCNext ==
  /\ LifeNext
  /\ Within
  /\ UNCHANGED scenario

MCSpec == MCInit /\ [][MCNext]_<<sessionVars, scenario>> /\ Fairness

(* LiveIsFollowed, of runners that answer in time: a query that is too slow*)
(* each time leaves a runner without a follower.                           *)
LiveIsFollowedWhenCalm == scenario = "restart" => LiveIsFollowed
=============================================================================
