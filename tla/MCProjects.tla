----------------------------- MODULE MCProjects -----------------------------
(* Instances of Projects for TLC.                                          *)
EXTENDS Projects, TLC

CONSTANTS a, b, p, f1, f2, d1, d2

AnyRule == [path |-> NoPath, exact |-> FALSE, remote |-> "", hosts |-> {}]

MCAt ==
  [s \in {a, b, p} |->
     [kind |-> "pi", host |-> IF s = p THEN "spoke" ELSE Local,
      cwd |-> IF s = a THEN <<"home", "dev">> ELSE <<"home">>,
      workspace |-> NoPath,
      remotes |-> IF s = b THEN {} ELSE {"repo"}]]
MCAtOf == [s \in Sids |-> MCAt[s]]
MCConvOf == [s \in Sids |-> IF s = b THEN f2 ELSE f1]
MCKindOf == [c \in Convs |-> "pi"]
MCBaseOf == [c \in Convs |-> "fix"]
MCDirOf == [c \in Convs |-> IF c = f1 THEN d1 ELSE d2]
MCListing == <<f2, f1>>
MCSeed == [name |-> <<"home">>, match |-> {[AnyRule EXCEPT !.path = <<"home">>, !.exact = TRUE]},
           sessions |-> <<>>]
MCRequests ==
  {[name |-> "dev", match |-> {[AnyRule EXCEPT !.path = <<"home", "dev">>]}],
   [name |-> "dev", match |-> {[AnyRule EXCEPT !.remote = "repo"],
                                [AnyRule EXCEPT !.path = <<"work">>]}]}
=============================================================================
