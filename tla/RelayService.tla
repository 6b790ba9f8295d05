----------------------------- MODULE RelayService -----------------------------
(* What jump-relayd promises a browser: every request is answered exactly  *)
(* once, the local jumpd sees it at most once, and a success is never      *)
(* reported for a request jumpd has not seen.                              *)
EXTENDS Naturals

CONSTANT Browsers

VARIABLES
  asked,   \* the browsers that have asked
  served,  \* served[b]: how often jumpd has seen the request of b
  answer   \* answer[b]: "none", "ok" or "fail"

svars == <<asked, served, answer>>

Init ==
  /\ asked = {}
  /\ served = [b \in Browsers |-> 0]
  /\ answer = [b \in Browsers |-> "none"]

Ask(b) ==
  /\ b \notin asked
  /\ asked' = asked \cup {b}
  /\ UNCHANGED <<served, answer>>

(* A request may still reach jumpd after its browser has been turned away. *)
Serve(b) ==
  /\ b \in asked /\ served[b] = 0
  /\ served' = [served EXCEPT ![b] = 1]
  /\ UNCHANGED <<asked, answer>>

Answer(b) ==
  /\ b \in asked /\ answer[b] = "none"
  /\ \E v \in {"ok", "fail"} :
       /\ v = "ok" => served[b] = 1
       /\ answer' = [answer EXCEPT ![b] = v]
  /\ UNCHANGED <<asked, served>>

Next == \E b \in Browsers : Ask(b) \/ Serve(b) \/ Answer(b)

Spec == Init /\ [][Next]_svars /\ \A b \in Browsers : WF_svars(Answer(b))
=============================================================================
