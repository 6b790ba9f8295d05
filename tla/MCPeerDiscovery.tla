---------------------------- MODULE MCPeerDiscovery ----------------------------
(* Two instances of PeerDiscovery for TLC: with Docker running from the    *)
(* start, and one where it is started later, with nothing but containers.  *)
EXTENDS PeerDiscovery, TLC

VARIABLE late

MCInit == Init /\ late = (docker = "absent")

MCNext ==
  /\ Next
  /\ late => ~started' /\ net' = net /\ rows' = rows
  /\ UNCHANGED late

MCSpec ==
  /\ MCInit /\ [][MCNext]_<<vars, late>>
  /\ WF_vars(TailnetStep /\ ~late)
  /\ WF_vars(DockerStep)
=============================================================================
