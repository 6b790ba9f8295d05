---------------------------- MODULE MCSessionStore ----------------------------
(* Small instances of SessionStore for TLC. *)
EXTENDS SessionStore, TLC

CONSTANTS a, b, c, shell, codex, local, hub, fix, w1, s1

Rec(kind, peer, slug, alive, size) ==
  [kind |-> kind, peer |-> peer, slug |-> slug, alive |-> alive,
   command |-> TRUE, resumable |-> FALSE, size |-> size]

(* Three local sessions and two kinds: enough for "-2" and "-3".            *)
MCSlugInputs ==
  {[id |-> i, session |-> Rec(codex, local, slug, alive, 0)] :
     i \in {a, b, c}, slug \in {<<fix>>, <<fix, 2>>}, alive \in BOOLEAN}
  \cup {[id |-> i, session |-> Rec(shell, p, <<fix>>, TRUE, 0)] :
     i \in {a, b}, p \in {local, hub}}

(* Two scenarios share a run: writers that compete for slugs with no one   *)
(* listening, and two codex sessions, one alive and one dead, whose writer *)
(* is followed by a subscriber that applies the payloads, slugs included.  *)
VARIABLE scenario

Followed ==
  \A id \in Ids :
    sessions'[id] # Absent =>
      /\ id # c
      /\ sessions'[id].kind = codex
      /\ sessions'[id].peer = local
      /\ sessions'[id].alive = (id = a)
      /\ id = a => sessions'[id].slug = <<fix>>

MCInit == Init /\ scenario \in {"slugs", "mirror"}

MCNext ==
  /\ Next
  /\ scenario = "slugs" => UNCHANGED pc
  /\ scenario = "mirror" => Followed
  /\ UNCHANGED scenario

MCSpec == MCInit /\ [][MCNext]_<<vars, scenario>>
=============================================================================
