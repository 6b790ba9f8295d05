---------------------------- MODULE MCSessionMeta ----------------------------
(* Small instances of SessionMeta for TLC. *)
EXTENDS SessionMeta, TLC

CONSTANTS h1, h2

(* Handlers are alike.                                                     *)
Alike == Permutations(Handlers)
=============================================================================
