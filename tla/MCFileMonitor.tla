---------------------------- MODULE MCFileMonitor ---------------------------
(* Instances of FileMonitor for TLC.                                       *)
EXTENDS FileMonitor, TLC
MCOwner == ("f1" :> "s1") @@ ("f2" :> "s2")
MCDelta == ("f1" :> (("s1" :> 1) @@ ("s2" :> 2))) @@ ("f2" :> (("s1" :> 3) @@ ("s2" :> 9)))
=============================================================================
