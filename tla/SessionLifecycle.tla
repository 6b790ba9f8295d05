--------------------------- MODULE SessionLifecycle ---------------------------
(***************************************************************************)
(* The life of one session: the runner processes that successively serve   *)
(* it (cli/jump: run.go, ptyserver.go, state.go, daemon.go), its socket    *)
(* path, and the parts of jumpd that follow it - registration, the socket  *)
(* scanner, the event subscriptions (module Subscriptions) and the kill,   *)
(* dismiss, resume and restart handlers of main.go.                        *)
(*                                                                         *)
(* All runners of the session bind one path, <id>.sock.  The daemon's      *)
(* handlers act on what they read some steps earlier: that is in meta,     *)
(* known, scan and req.                                                    *)
(***************************************************************************)
EXTENDS Subscriptions, FiniteSets

CONSTANTS
  Sid,          \* the session
  Runners,      \* runner processes, each started once
  First,        \* the runner the user starts
  Scan, User,   \* the scanner and the user's request handler
  Ops,          \* requests the user makes
  MaxRequests,  \* bound on the number of requests
  MayCrash,     \* runners may be killed outright
  SlowMeta      \* GET /meta may exceed its 3 s timeout

Registrars == Runners \cup {Scan}

ASSUME LifecycleAssumption ==
  /\ Ids = {Sid}
  /\ Callers = Registrars \cup {User}
  /\ First \in Runners
  /\ None \notin Runners
  /\ Ops \subseteq {"kill", "dismiss", "resume", "restart"}
  /\ MaxRequests \in Nat
  /\ MayCrash \in BOOLEAN
  /\ SlowMeta \in BOOLEAN

VARIABLES
  run,        \* run[r]: where runner r is
  child,      \* the runners whose child process lives
  via,        \* via[r]: what started r
  crowded,    \* a runner was on its way to the path when a restart's kill was
              \* answered, or when another one was launched since (history)
  path,       \* the runner that bound the socket file, or None: no file
  rec,        \* the session in the store: "absent", "alive" or "dead"
  woken,      \* a restart handler has seen a dead upsert
  reg,        \* reg[x]: where registrar x is in discovery.Register
  meta,       \* meta[x]: what /meta told x (a rec value), or "absent"
  conn,       \* conn[e]: the runner at the other end of e's stream, or None
  unreadExits,   \* the entries with an unread exit event on their stream
  known,      \* known[e]: the exit handler of e has found the session
  scan,       \* where the scanner is
  req,        \* the user's request: the operation and its progress
  target,     \* the runner that POST /kill reached, or None
  requests    \* requests made so far

launchVars  == <<via, crowded>>
processVars == <<run, child, launchVars>>
storeVars   == <<rec, woken>>
regVars     == <<reg, meta>>
streamVars  == <<conn, unreadExits, known>>
userVars    == <<req, target, requests>>
lifeVars    == <<processVars, path, storeVars, regVars, streamVars, scan, userVars>>
sessionVars == <<lifeVars, subsVars>>

(* A dial of the path succeeds: the process that bound it still listens.   *)
Listening(r) == r # None /\ run[r] \in {"bound", "running", "exited", "deregistered"}

(* Every write of the record broadcasts it; a dead one wakes a restart.    *)
Upsert(r) ==
  /\ rec' = r
  /\ woken' = (woken \/ (req[1] = "restart" /\ r = "dead"))

-----------------------------------------------------------------------------
(* Runners                                                                 *)

RunnerStep(r, from, to) == run[r] = from /\ run' = [run EXCEPT ![r] = to]

(* BindSocket, its probe: a live owner sends the runner to a fresh id.     *)
Probe(r) ==
  /\ RunnerStep(r, "starting", IF Listening(path) THEN "elsewhere" ELSE "clear")
  /\ UNCHANGED <<child, launchVars, path, storeVars, regVars, streamVars, scan, userVars, subsVars>>

(* BindSocket, the rest: remove what is at the path and listen.  The child *)
(* starts, and /meta is served with alive=false until SetRunning.          *)
Bind(r) ==
  /\ RunnerStep(r, "clear", "bound")
  /\ path' = r
  /\ child' = child \cup {r}
  /\ UNCHANGED <<launchVars, storeVars, regVars, streamVars, scan, userVars, subsVars>>

(* state.SetRunning; the registration goroutine starts.                    *)
SetRunning(r) ==
  /\ RunnerStep(r, "bound", "running")
  /\ reg' = [reg EXCEPT ![r] = "posting"]
  /\ UNCHANGED <<child, launchVars, path, storeVars, meta, streamVars, scan, userVars, subsVars>>

ChildExits(r) ==
  /\ r \in child
  /\ child' = child \ {r}
  /\ UNCHANGED <<run, launchVars, path, storeVars, regVars, streamVars, scan, userVars, subsVars>>

(* state.SetExited: the exit event goes to the streams open at the moment. *)
SetExited(r) ==
  /\ r \notin child
  /\ RunnerStep(r, "running", "exited")
  /\ unreadExits' = unreadExits \cup {e \in Entries : conn[e] = r}
  /\ UNCHANGED <<child, launchVars, path, storeVars, regVars, conn, known, scan, userVars, subsVars>>

(* POST /v1/deregister, after the registration call has returned.          *)
Deregister(r) ==
  /\ reg[r] = "done"
  /\ RunnerStep(r, "exited", "deregistered")
  /\ Unsubscribe(r, Sid)
  /\ UNCHANGED <<child, launchVars, path, storeVars, regVars, streamVars, scan, userVars>>

(* The process is gone, and of the exit events it had queued on a stream   *)
(* those that handleEvents had not written yet.                            *)
Die(r) ==
  /\ run' = [run EXCEPT ![r] = "gone"]
  /\ \E lost \in SUBSET {e \in unreadExits : conn[e] = r} : unreadExits' = unreadExits \ lost

(* os.Exit, once the deregister call has been answered.                    *)
RunnerExits(r) ==
  /\ run[r] = "deregistered"
  /\ removed[r] = None
  /\ Die(r)
  /\ UNCHANGED <<child, launchVars, path, storeVars, regVars, conn, known, scan, userVars, subsVars>>

(* The process is killed outright, at any point of its life.               *)
Crash(r) ==
  /\ MayCrash
  /\ Listening(r)
  /\ Die(r)
  /\ child' = child \ {r}
  /\ UNCHANGED <<launchVars, path, storeVars, regVars, conn, known, scan, userVars, subsVars>>

-----------------------------------------------------------------------------
(* discovery.Register, called by a runner's POST /v1/register and by Scan  *)

Reg(x, from, to) == reg[x] = from /\ reg' = [reg EXCEPT ![x] = to]

(* What GET /meta reports.                                                 *)
QueryMeta(x) ==
  /\ Listening(path)
  /\ Reg(x, "posting", "upserting")
  /\ meta' = [meta EXCEPT ![x] = IF run[path] = "running" THEN "alive" ELSE "dead"]
  /\ UNCHANGED <<processVars, path, storeVars, streamVars, scan, userVars, subsVars>>

(* The merge with an existing record overwrites every runtime field.       *)
RegisterUpsert(x) ==
  /\ Reg(x, "upserting", "subscribing")
  /\ Upsert(meta[x])
  /\ meta' = [meta EXCEPT ![x] = "absent"]
  /\ UNCHANGED <<processVars, path, streamVars, scan, userVars, subsVars>>

RegisterSubscribe(x) ==
  /\ Reg(x, "subscribing", "done")
  /\ \E e \in Entries : Subscribe(Sid, e)
  /\ UNCHANGED <<processVars, path, storeVars, meta, streamVars, scan, userVars>>

(* queryMeta's error: a runner retries until it gives up.                  *)
RegisterFails(r) ==
  /\ SlowMeta \/ ~Listening(path)
  /\ Reg(r, "posting", "done")
  /\ UNCHANGED <<processVars, path, storeVars, meta, streamVars, scan, userVars, subsVars>>

-----------------------------------------------------------------------------
(* The goroutine that follows a runner's /events                           *)

Dial(e) ==
  /\ Listening(path)
  /\ Connect(e)
  /\ conn' = [conn EXCEPT ![e] = path]
  /\ UNCHANGED <<processVars, path, storeVars, regVars, unreadExits, known, scan, userVars>>

DialFails(e) ==
  /\ e \in cancelled \/ ~Listening(path)
  /\ ConnectFails(e)
  /\ UNCHANGED lifeVars

(* The exit event is read, the context not cancelled; handleEvent, case    *)
(* "exit": Get...                                                          *)
TakeExit(e) ==
  /\ e \in unreadExits
  /\ TakeEvent(e)
  /\ unreadExits' = unreadExits \ {e}
  /\ known' = [known EXCEPT ![e] = rec # "absent"]
  /\ UNCHANGED <<processVars, path, storeVars, regVars, conn, scan, userVars>>

(* ...and Upsert of the copy, or nothing when the session was unknown.     *)
ExitUpsert(e) ==
  /\ EventDone(e)
  /\ IF known[e] THEN Upsert("dead") ELSE UNCHANGED storeVars
  /\ known' = [known EXCEPT ![e] = FALSE]
  /\ UNCHANGED <<processVars, path, regVars, conn, unreadExits, scan, userVars>>

(* End of stream, after everything written has been read; or cancelled.    *)
Hangup(e) ==
  /\ StreamEnds(e)
  /\ e \in cancelled \/ (run[conn[e]] = "gone" /\ e \notin unreadExits)
  /\ unreadExits' = unreadExits \ {e}
  /\ conn' = [conn EXCEPT ![e] = None]
  /\ UNCHANGED <<processVars, path, storeVars, regVars, known, scan, userVars>>

(* Mutant: the goroutine ends without clearing its entry.                  *)
LeaveEntry(e) ==
  /\ phase[e] = "leaving"
  /\ \A c \in Callers : removed[c] # e
  /\ phase' = [phase EXCEPT ![e] = "unused"]
  /\ cancelled' = cancelled \ {e}
  /\ UNCHANGED <<active, follows, removed, lifeVars>>

(* The deferred cleanup of Subscriptions, after which the entry is garbage *)
(* and its name serves again.  An entry that a caller has yet to cancel is *)
(* out of the table: its cleanup, which changes nothing, waits for that.   *)
Leave(e) ==
  /\ phase[e] = "leaving"
  /\ \A c \in Callers : removed[c] # e
  /\ phase' = [phase EXCEPT ![e] = "unused"]
  /\ active' = [active EXCEPT ![Sid] = IF @ = e THEN None ELSE @]
  /\ cancelled' = cancelled \ {e}
  /\ UNCHANGED <<follows, removed, lifeVars>>

CancelTaken(c) == CancelRemoved(c) /\ UNCHANGED lifeVars

-----------------------------------------------------------------------------
(* discovery.Scan                                                          *)

ScanStep(from, to) == scan = from /\ scan' = to

(* Mutant: phase 1 skips a session that is alive in the store, subscribed  *)
(* or not.                                                                 *)
ScanFirstAlive ==
  /\ removed[Scan] = None
  /\ ScanStep("idle", "first")
  /\ reg' = [reg EXCEPT ![Scan] = IF path = None \/ rec = "alive" THEN "done" ELSE "posting"]
  /\ UNCHANGED <<processVars, path, storeVars, meta, streamVars, userVars, subsVars>>

(* Phase 1: ReadDir and List; skip a session tracked as live, register any *)
(* other whose socket file was listed.                                     *)
ScanFirst ==
  /\ removed[Scan] = None
  /\ ScanStep("idle", "first")
  /\ LET skip == path = None \/ (rec = "alive" /\ IsActive(Sid))
     IN  reg' = [reg EXCEPT ![Scan] = IF skip THEN "done" ELSE "posting"]
  /\ UNCHANGED <<processVars, path, storeVars, meta, streamVars, userVars, subsVars>>

(* Register failed: a socket file older than 10 s is removed.  Its age is  *)
(* left open: nothing else here depends on time.                           *)
ScanUnlink ==
  /\ SlowMeta \/ ~Listening(path)
  /\ Reg(Scan, "posting", "done")
  /\ path' \in {path, None}
  /\ UNCHANGED <<processVars, storeVars, meta, streamVars, scan, userVars, subsVars>>

(* Phase 2: sessions.List, then a look at each session alive in it.        *)
ScanSecond ==
  /\ ScanStep("first", IF rec = "alive" THEN "check" ELSE "idle")
  /\ Reg(Scan, "done", "none")
  /\ UNCHANGED <<processVars, path, storeVars, meta, streamVars, userVars, subsVars>>

ScanCheck ==
  /\ ScanStep("check", IF IsActive(Sid) \/ Listening(path) THEN "idle" ELSE "mark")
  /\ UNCHANGED <<processVars, path, storeVars, regVars, streamVars, userVars, subsVars>>

(* The copy from the List is written back dead.                            *)
ScanMark ==
  /\ ScanStep("mark", "unsubscribe")
  /\ Upsert("dead")
  /\ UNCHANGED <<processVars, path, regVars, streamVars, userVars, subsVars>>

ScanUnsubscribe ==
  /\ ScanStep("unsubscribe", "idle")
  /\ Unsubscribe(Scan, Sid)
  /\ UNCHANGED <<processVars, path, storeVars, regVars, streamVars, userVars>>

-----------------------------------------------------------------------------
(* The user's requests                                                     *)

NoRequest == <<"none", "idle">>

ReqStep(from, to) == req = from /\ req' = to

(* A request about a session the store knows.                              *)
Counted(op) ==
  /\ op \in Ops
  /\ rec # "absent"
  /\ removed[User] = None
  /\ requests < MaxRequests
  /\ requests' = requests + 1

OnTheirWay == {r \in Runners : run[r] \in {"starting", "clear"}}

(* launchJump: a process with JUMP_RESUME_ID in its environment.           *)
Launched(r, why) ==
  /\ run[r] = "idle"
  /\ crowded' = (crowded \/ OnTheirWay # {})
  /\ run' = [run EXCEPT ![r] = "starting"]
  /\ via' = [via EXCEPT ![r] = why]

(* sessions.Get, then KillSession: the child is sent SIGHUP, SIGKILL after *)
(* 2 s; an unreachable runner is an error.  A restart subscribes to the    *)
(* store first.                                                            *)
KillRequest(op) ==
  /\ ReqStep(NoRequest, <<op, IF Listening(path) THEN "killing" ELSE "failed">>)
  /\ target' = IF Listening(path) THEN path ELSE None
  /\ child' = child \ {path}
  /\ UNCHANGED <<run, launchVars, path, storeVars, regVars, streamVars, scan, subsVars>>

Kill == Counted("kill") /\ KillRequest("kill")

Restart == Counted("restart") /\ rec = "alive" /\ KillRequest("restart")

Dismiss == Counted("dismiss") /\ rec = "alive" /\ KillRequest("dismiss")

DismissDead ==
  /\ Counted("dismiss")
  /\ rec = "dead"
  /\ ReqStep(NoRequest, <<"dismiss", "killed">>)
  /\ UNCHANGED <<processVars, path, storeVars, regVars, streamVars, scan, target, subsVars>>

(* Resume, and restart of a dead session: launch under the session's id.   *)
Relaunch(op) ==
  /\ Counted(op)
  /\ rec = "dead"
  /\ req = NoRequest
  /\ \E r \in Runners : Launched(r, "dead")
  /\ UNCHANGED <<child, path, storeVars, regVars, streamVars, scan, req, target, subsVars>>

Answered(to) ==
  /\ \E op \in Ops : ReqStep(<<op, "killing">>, <<op, to>>)
  /\ target' = None
  /\ crowded' = IF to = "killed" /\ req[1] = "restart" THEN OnTheirWay # {} ELSE crowded
  /\ UNCHANGED <<run, child, via, storeVars, regVars, streamVars, scan, requests, subsVars>>

(* Mutant: the runner answers without releasing the path.                  *)
KillAnswerKeepsPath ==
  /\ Listening(target)
  /\ target \notin child
  /\ Answered("killed")
  /\ UNCHANGED path

(* handleKill, after the child's death: release the path, answer 204.      *)
KillAnswer ==
  /\ Listening(target)
  /\ target \notin child
  /\ Answered("killed")
  /\ path' = None

(* The process exits before it has answered.                               *)
KillBroken ==
  /\ target # None
  /\ run[target] = "gone"
  /\ Answered("failed")
  /\ UNCHANGED path

UserStep(from, to) ==
  /\ ReqStep(from, to)
  /\ UNCHANGED <<regVars, streamVars, scan, target, requests>>

KillDone ==
  /\ UserStep(<<"kill", "killed">>, NoRequest)
  /\ UNCHANGED <<processVars, path, storeVars, subsVars>>

(* "runner unreachable, forcing dead": the copy is written back dead, then *)
(* the subscription and the socket file go.                                *)
ForceDead ==
  /\ UserStep(<<"kill", "failed">>, <<"kill", "unsubscribe">>)
  /\ Upsert("dead")
  /\ UNCHANGED <<processVars, path, subsVars>>

ForceUnsubscribe ==
  /\ UserStep(<<"kill", "unsubscribe">>, <<"kill", "unlink">>)
  /\ Unsubscribe(User, Sid)
  /\ UNCHANGED <<processVars, path, storeVars>>

ForceUnlink ==
  /\ UserStep(<<"kill", "unlink">>, NoRequest)
  /\ removed[User] = None
  /\ path' = None
  /\ UNCHANGED <<processVars, storeVars, subsVars>>

(* Dismiss: remove the record whatever the kill gave, then unsubscribe.    *)
DismissRemove ==
  /\ \E outcome \in {"killed", "failed"} :
       UserStep(<<"dismiss", outcome>>, <<"dismiss", "unsubscribe">>)
  /\ rec' = "absent"
  /\ UNCHANGED <<processVars, path, woken, subsVars>>

DismissUnsubscribe ==
  /\ UserStep(<<"dismiss", "unsubscribe">>, NoRequest)
  /\ Unsubscribe(User, Sid)
  /\ UNCHANGED <<processVars, path, storeVars>>

(* Restart: wait for a dead upsert, then launch; or give up after 5 s, or  *)
(* at once when the kill failed.                                           *)
RestartLaunch ==
  /\ UserStep(<<"restart", "killed">>, NoRequest)
  /\ woken
  /\ woken' = FALSE
  /\ \E r \in Runners : Launched(r, "killed")
  /\ UNCHANGED <<child, path, rec, subsVars>>

RestartGivesUp ==
  /\ \E outcome \in {"killed", "failed"} : UserStep(<<"restart", outcome>>, NoRequest)
  /\ woken' = FALSE
  /\ UNCHANGED <<processVars, path, rec, subsVars>>

-----------------------------------------------------------------------------
LifeInit ==
  /\ SubsInit
  /\ run = [r \in Runners |-> IF r = First THEN "starting" ELSE "idle"]
  /\ child = {}
  /\ via = [r \in Runners |-> "user"]
  /\ crowded = FALSE
  /\ path = None
  /\ rec = "absent"
  /\ woken = FALSE
  /\ reg = [x \in Registrars |-> "none"]
  /\ meta = [x \in Registrars |-> "absent"]
  /\ conn = [e \in Entries |-> None]
  /\ unreadExits = {}
  /\ known = [e \in Entries |-> FALSE]
  /\ scan = "idle"
  /\ req = NoRequest
  /\ target = None
  /\ requests = 0

(* What a runner does by itself once started, short of its child's exit.   *)
Runner(r) ==
  \/ Probe(r) \/ Bind(r) \/ SetRunning(r) \/ SetExited(r) \/ Deregister(r)
  \/ RunnerExits(r)

Register(x) == QueryMeta(x) \/ RegisterUpsert(x) \/ RegisterSubscribe(x)

Follow(e) ==
  \/ Dial(e) \/ DialFails(e) \/ TakeExit(e) \/ ExitUpsert(e)
  \/ Hangup(e) \/ Leave(e)

Scanning ==
  \/ ScanFirst \/ Register(Scan) \/ ScanUnlink
  \/ ScanSecond \/ ScanCheck \/ ScanMark \/ ScanUnsubscribe

Request == Kill \/ Restart \/ Dismiss \/ DismissDead \/ \E op \in {"resume", "restart"} : Relaunch(op)

Handle ==
  \/ KillAnswer \/ KillBroken \/ KillDone
  \/ ForceDead \/ ForceUnsubscribe \/ ForceUnlink
  \/ DismissRemove \/ DismissUnsubscribe
  \/ RestartLaunch \/ RestartGivesUp

LifeNext ==
  \/ \E r \in Runners : Runner(r) \/ ChildExits(r) \/ Crash(r) \/ Register(r) \/ RegisterFails(r)
  \/ \E e \in Entries : Follow(e)
  \/ \E c \in Callers : CancelTaken(c)
  \/ Scanning \/ Request \/ Handle

(* Processes and goroutines run, a handler that started finishes, the      *)
(* ticker fires.  A child need not exit, no one need make a request.  Each *)
(* conjunct is weaker than fairness of every process in it.                *)
Fairness ==
  /\ WF_sessionVars(\E r \in Runners : Runner(r) \/ Register(r) \/ RegisterFails(r) \/ CancelTaken(r))
  /\ WF_sessionVars(\E e \in Entries : Follow(e))
  /\ WF_sessionVars(Scanning \/ CancelTaken(Scan))
  /\ WF_sessionVars(Handle \/ CancelTaken(User))

LifeSpec == LifeInit /\ [][LifeNext]_sessionVars
FairLifeSpec == LifeSpec /\ Fairness

-----------------------------------------------------------------------------
(* Properties                                                              *)

LifeTypeOK ==
  /\ SubsTypeOK
  /\ run \in [Runners -> {"idle", "starting", "clear", "elsewhere", "bound", "running",
                          "exited", "deregistered", "gone"}]
  /\ child \subseteq Runners
  /\ via \in [Runners -> {"user", "dead", "killed"}]
  /\ crowded \in BOOLEAN /\ path \in Runners \cup {None}
  /\ rec \in {"absent", "alive", "dead"}
  /\ woken \in BOOLEAN
  /\ reg \in [Registrars -> {"none", "posting", "upserting", "subscribing", "done"}]
  /\ meta \in [Registrars -> {"absent", "alive", "dead"}]
  /\ conn \in [Entries -> Runners \cup {None}]
  /\ unreadExits \subseteq Entries
  /\ known \in [Entries -> BOOLEAN]
  /\ scan \in {"idle", "first", "check", "mark", "unsubscribe"}
  /\ req \in (Ops \cup {"none"}) \X {"idle", "killing", "killed", "failed", "unsubscribe", "unlink"}
  /\ target \in Runners \cup {None}
  /\ requests \in 0..MaxRequests

(* A restart keeps the session's id: the runner it launches after the kill *)
(* was answered finds the path free, although its predecessor may still    *)
(* listen on the inode while it winds down (main.go 1335-1339).  Excepted  *)
(* is a race with another launch of the session, which OneResumeAtATime is *)
(* about.                                                                  *)
RestartKeepsId ==
  \A r \in Runners : run[r] = "starting" /\ via[r] = "killed" /\ ~crowded => ~Listening(path)

(* A live runner that keeps its socket is in the end followed for good,    *)
(* whatever registrations, scans, late deregistrations and requests raced  *)
(* before.                                                                 *)
LiveIsFollowed ==
  \A r \in Runners :
    <>[](run[r] = "running" /\ r \in child /\ path = r) => <>[](rec = "alive" /\ IsActive(Sid))

(* Once no runner serves the session, the store stops saying it is alive.  *)
Served == \E r \in Runners : run[r] \notin {"idle", "elsewhere", "gone"}
DeadIsNoticed == <>[]~Served => <>[](rec # "alive")

(* Three sentences that the code does not keep: TLC refutes each with two  *)
(* or three runners and one or two requests.                               *)

(* Replace semantics close the restart race in which a fresh runner ends   *)
(* up "with no subscription at all" (subscribe.go 63-66): the deregister   *)
(* of a dying runner does not take a registered successor's subscription.  *)
Settled(r) == run[r] = "running" /\ reg[r] = "done" /\ path = r

LateDeregisterIsHarmless ==
  [][\A q, r \in Runners :
       run[q] = "exited" /\ run'[q] = "deregistered" /\ Settled(r) => active' = active]_sessionVars

(* Resume attempts are serialized "to prevent double-click races"          *)
(* (main.go 1244): one dead session gets one new runner.                   *)
OneResumeAtATime ==
  \A q, r \in {x \in Runners : via[x] = "dead"} :
    run[q] = "starting" /\ run[r] = "starting" => q = r

(* "Dismissed sessions stay dismissed across scanner cycles": once the     *)
(* child is dead and the record removed, nothing brings the record back.   *)
DismissedStayDismissed ==
  [][rec = "absent" /\ requests > 0 /\ child = {} => rec' = "absent"]_sessionVars
=============================================================================
