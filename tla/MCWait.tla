------------------------------- MODULE MCWait -------------------------------
(* A small instance of Wait for TLC, in three scenarios: an agent that     *)
(* works and may crash; a daemon that is slow to accept the registration;  *)
(* and a user's dismiss that races with the scanner.                       *)
EXTENDS Wait, TLC

CONSTANTS e1, e2

VARIABLE scenario

MCCallers == {Runner, Scan, User}

InTime == jumpd = "up" /\ tries' = 0 /\ (pipe = "open" => script' # "failed")
Alone == dismissed' = "no" /\ (run # "gone" => scan' = "idle")
Quiet == turns' = 0 /\ via = "hook" /\ script' # "sending"

Within ==
  CASE scenario = "agent" -> Alone /\ InTime
    [] scenario = "slow" -> Alone /\ Quiet
    [] scenario = "dismiss" -> /\ InTime
                               /\ Quiet
                               /\ run = "running" => run' # "gone"
                               /\ script' # "timeout"

MCInit == Init /\ scenario \in {"agent", "slow", "dismiss"}

MCNext == Next /\ Within /\ UNCHANGED scenario

(* Fairness of what the scenario allows; it never stops all of Running.    *)
MCSpec ==
  /\ MCInit /\ [][MCNext]_<<vars, scenario>>
  /\ WF_vars(Running)
  /\ WF_vars(Scanning /\ Within)
=============================================================================
