------------------------------ MODULE MCNotify ------------------------------
(* Instances of Notify for TLC: all sessions share one workspace.          *)
EXTENDS Notify, TLC

OneWorkspace == [s \in Sessions |-> "w"]
SomeReports == {<<"idle", TRUE>>, <<"working", FALSE>>, <<"none", TRUE>>}
Symmetry == Permutations(Sessions)
=============================================================================
