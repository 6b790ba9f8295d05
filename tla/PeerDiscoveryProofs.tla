-------------------------- MODULE PeerDiscoveryProofs --------------------------
(***************************************************************************)
(* Proofs about PeerDiscovery, for any number of devices, containers, rows *)
(* and names and any bounds.                                               *)
(***************************************************************************)
EXTENDS PeerDiscovery, TLAPS

-----------------------------------------------------------------------------
(* The inductive invariant                                                 *)

(* A netmap is handled only after the start; when none is, or while it has *)
(* changed nothing, the file has the entries.                              *)
ProbeInv ==
  /\ ~Idle => started /\ \A d \in todo : Known(curr[d])
  /\ Idle \/ ~changed => disk = entries

(* A device's peer has the name of its entry.                              *)
EntryInv ==
  \A d \in Devices \ demoted : \A n \in PeersOf(d) : Known(entries[d]) /\ entries[d].name = n

(* The phases of a scan, and who is on its lists.                          *)
ScanInv ==
  /\ gone # {} => scan = "remove"
  /\ chosen # None => scan = "register"
  /\ \A g \in gone : ~Known(tracked[g[1]])

(* A name that was not used for two things belongs to the one that claims  *)
(* it: the device of an entry, a row, a container that is registered or is *)
(* to be removed.  A container's name is free until it is registered.      *)
Owned(n) ==
  /\ \A d \in Devices : started /\ Jump(d) /\ entries[d].name = n => table[n] = d
  /\ \A r \in Rows : rows[r] = n => table[n] = r
  /\ \A c \in Containers : tracked[c] = n \/ <<c, n>> \in gone => table[n] = c
  /\ chosen # None /\ chosen.name = n => table[n] = None
OwnerInv == \A n \in Names \ confused : Owned(n)

DiscoveryInv == TypeOK /\ ProbeInv /\ EntryInv /\ ScanInv /\ OwnerInv

-----------------------------------------------------------------------------
(* The table                                                               *)

ManagerTypes ==
  /\ table \in [Names -> {None} \cup Devices \cup Containers \cup Rows] /\ confused \subseteq Names

(* AddPeer: a free name gets its peer, and a name that is taken, or is     *)
(* chosen for another container, counts as used twice.                     *)
LEMMA AddPeerAdds ==
  ASSUME ManagerTypes, NEW n \in Names, NEW who \in Devices \cup Containers \cup Rows, AddPeer(n, who)
  PROVE  /\ ManagerTypes'
         /\ confused \subseteq confused'
         /\ \A m \in Names \ {n} : table'[m] = table[m]
         /\ table'[n] = IF table[n] = None THEN who ELSE table[n]
         /\ n \notin confused' =>
              /\ who \in Containers \/ table'[n] = who
              /\ chosen = None \/ chosen.name # n \/ chosen.container = who
BY DEF AddPeer, ManagerTypes

LEMMA RemovePeersRemoves ==
  ASSUME ManagerTypes, NEW ns, RemovePeers(ns), UNCHANGED confused
  PROVE  /\ ManagerTypes'
         /\ \A m \in Names : table'[m] = IF m \in ns THEN None ELSE table[m]
BY DEF RemovePeers, ManagerTypes

-----------------------------------------------------------------------------
(* Types                                                                   *)

LEMMA TypesInit == Init => TypeOK
<1> SUFFICES ASSUME Init PROVE TypeOK
  OBVIOUS
<1>1. TailTypes
  BY DEF Init, TailTypes
<1>2. DockerTypes
  BY DEF Init, DockerTypes
<1>3. changes \in 0..MaxChanges /\ faults \in 0..MaxFaults
  BY DiscoveryAssumption DEF Init
<1>4. net \in [Devices -> [there : BOOLEAN, online : BOOLEAN, fqdn : {0, 1}, name : Names]]
  <2>1. \A d \in Devices : net[d] \in [there : BOOLEAN, online : BOOLEAN, fqdn : {0, 1}, name : Names]
    BY DEF Init
  <2> QED BY <2>1 DEF Init
<1>5. up \subseteq Containers /\ docker \in {"absent", "created", "there"}
  BY DEF Init
<1> QED BY <1>1, <1>2, <1>3, <1>4, <1>5 DEF Init, TypeOK, WorldTypes

LEMMA TailnetTyped ==
  ASSUME TypeOK, ProbeInv, TailnetStep
  PROVE  TypeOK'
<1>1. ManagerTypes
  BY DEF TypeOK, ManagerTypes
<1>2. CASE StartDiscovery
  <2>1. PICK t \in [Names -> {None} \cup Devices] :
               table' = [n \in Names |-> IF t[n] = None THEN table[n] ELSE t[n]]
    BY <1>2 DEF StartDiscovery
  <2>2. confused' \subseteq Names
    BY <1>1, <1>2 DEF StartDiscovery, ManagerTypes
  <2>3. table' \in [Names -> {None} \cup Devices \cup Containers \cup Rows]
    BY <1>1, <2>1 DEF ManagerTypes
  <2>4. TailTypes'
    BY <1>2 DEF StartDiscovery, TypeOK, TailTypes, Known
  <2> QED BY <1>2, <2>2, <2>3, <2>4
          DEF StartDiscovery, TypeOK, DockerTypes, WorldTypes, dockerVars, worldVars, boundVars
<1>3. CASE NetMapArrives
  <2>1. \A d \in Devices : Snap(d) \in Snapshots
    BY DEF TypeOK, WorldTypes, Snap, Snapshots
  <2>2. curr' \in [Devices -> {None} \cup Snapshots]
    BY <1>3, <2>1 DEF NetMapArrives
  <2>3. TailTypes'
    BY <1>3, <2>2 DEF NetMapArrives, TypeOK, TailTypes, Known
  <2> QED BY <1>3, <2>3
          DEF NetMapArrives, TypeOK, DockerTypes, WorldTypes, managerVars, dockerVars, worldVars,
              boundVars
<1>4. CASE FinishNetMap
  <2>1. ManagerTypes'
    BY <1>1, <1>4, RemovePeersRemoves DEF FinishNetMap
  <2>2. entries' \in [Devices -> {None} \cup Entries]
    BY <1>4 DEF FinishNetMap, TypeOK, TailTypes
  <2>3. disk' \in [Devices -> {None} \cup Entries]
    BY <1>4, <2>2 DEF FinishNetMap, Saves, TypeOK, TailTypes
  <2>5. TailTypes'
    BY <1>4, <2>2, <2>3 DEF FinishNetMap, TypeOK, TailTypes, Known
  <2> QED BY <1>4, <2>1, <2>5
          DEF FinishNetMap, TypeOK, ManagerTypes, DockerTypes, WorldTypes, dockerVars, worldVars,
              boundVars
<1>5. ASSUME NEW d \in Devices, Skip(d) PROVE TypeOK'
  BY <1>5
  DEF Skip, TypeOK, TailTypes, DockerTypes, WorldTypes, Known, managerVars, dockerVars, worldVars,
      boundVars, Idle
<1>6. ASSUME NEW d \in Devices, HandleOnlinePeer(d) PROVE TypeOK'
  <2>1. PICK n \in Answers(d) :
          /\ entries' = [entries EXCEPT ![d] = [fqdn |-> curr[d].fqdn, name |-> n, jump |-> n # None]]
          /\ IF n = None THEN UNCHANGED managerVars
             ELSE IF Conflict(d, n) THEN confused' = confused \cup {n} /\ UNCHANGED table
             ELSE AddPeer(n, d)
          /\ demoted' = IF Jump(d) /\ n # entries[d].name THEN demoted \cup {d} ELSE demoted
    BY <1>6 DEF HandleOnlinePeer
  <2>2. n = None \/ n \in Names
    BY DEF Answers, TypeOK, WorldTypes
  <2>3. curr[d] \in Snapshots
    BY <1>6 DEF HandleOnlinePeer, ProbeInv, TypeOK, TailTypes, Known
  <2>4. [fqdn |-> curr[d].fqdn, name |-> n, jump |-> n # None] \in Entries
    BY <2>2, <2>3, DiscoveryAssumption DEF Entries, Snapshots
  <2>5. entries' \in [Devices -> {None} \cup Entries]
    BY <2>1, <2>4 DEF TypeOK, TailTypes
  <2>6. ManagerTypes'
    <3>1. CASE n = None
      BY <1>1, <2>1, <3>1 DEF managerVars, ManagerTypes
    <3>2. CASE n # None /\ Conflict(d, n)
      BY <1>1, <2>1, <2>2, <3>2 DEF ManagerTypes
    <3>3. CASE n # None /\ AddPeer(n, d)
      BY <1>1, <2>2, <3>3, AddPeerAdds
    <3> QED BY <2>1, <3>1, <3>2, <3>3
  <2>7. demoted' \in SUBSET Devices
    BY <2>1 DEF TypeOK, TailTypes
  <2>8. TailTypes'
    BY <1>6, <2>5, <2>7 DEF HandleOnlinePeer, TypeOK, TailTypes, Known, Idle
  <2> QED BY <1>6, <2>6, <2>8
          DEF HandleOnlinePeer, TypeOK, ManagerTypes, DockerTypes, WorldTypes, dockerVars, worldVars,
              boundVars
<1> QED BY <1>2, <1>3, <1>4, <1>5, <1>6 DEF TailnetStep

(* What a scan leaves of the tailnet and the world.                        *)
LEMMA DockerTyped ==
  ASSUME TypeOK, DockerStep \/ ScanFails \/ StreamEnds
  PROVE  TypeOK'
<1>1. ManagerTypes
  BY DEF TypeOK, ManagerTypes
<1> USE DEF TypeOK, TailTypes, Known, managerVars, tailVars, worldVars, boundVars
<1>2. CASE WaitForSocket
  BY <1>2 DEF WaitForSocket, Waits, DockerTypes, WorldTypes
<1>3. CASE ScanLists
  BY <1>3 DEF ScanLists, DockerTypes, WorldTypes
<1>4. CASE ScanRemoves
  <2>1. ManagerTypes'
    BY <1>1, <1>4, RemovePeersRemoves DEF ScanRemoves
  <2> QED BY <1>4, <2>1 DEF ScanRemoves, ManagerTypes, DockerTypes, WorldTypes
<1>5. CASE ScanReadsTokens
  BY <1>5 DEF ScanReadsTokens, DockerTypes, WorldTypes
<1>6. CASE ScanNames
  BY <1>6 DEF ScanNames, DockerTypes, WorldTypes
<1>7. CASE ScanRegisters
  <2>1. chosen.container \in Containers /\ chosen.name \in Names
    BY <1>7 DEF ScanRegisters, DockerTypes
  <2>2. ManagerTypes'
    BY <1>1, <1>7, <2>1, AddPeerAdds DEF ScanRegisters
  <2> QED BY <1>7, <2>1, <2>2 DEF ScanRegisters, ManagerTypes, DockerTypes, WorldTypes
<1>8. CASE ScanEnds \/ Subscribe \/ TakeEvent
  BY <1>8 DEF ScanEnds, Subscribe, TakeEvent, DockerTypes, WorldTypes
<1>9. CASE ScanFails \/ StreamEnds
  <2>1. faults' \in 0..MaxFaults
    BY <1>9, DiscoveryAssumption DEF ScanFails, StreamEnds, WorldTypes
  <2> QED BY <1>9, <2>1 DEF ScanFails, StreamEnds, DockerTypes, WorldTypes
<1> QED BY <1>2, <1>3, <1>4, <1>5, <1>6, <1>7, <1>8, <1>9 DEF DockerStep

(* Changes of the world, and a restart.                                    *)
LEMMA WorldTyped ==
  ASSUME TypeOK,
         \/ Restart \/ SocketAppears
         \/ \E d \in Devices : DeviceChanges(d)
         \/ \E c \in Containers : ContainerChanges(c)
         \/ \E r \in Rows : CreateRow(r) \/ DeleteRow(r)
  PROVE  TypeOK'
<1>1. ManagerTypes
  BY DEF TypeOK, ManagerTypes
<1>2. changes < MaxChanges => changes + 1 \in 0..MaxChanges
  BY DiscoveryAssumption DEF TypeOK, WorldTypes
<1>3. CASE Restart
  <2>1. PICK t \in [Names -> {None} \cup Rows] : table' = t
    BY <1>3 DEF Restart
  <2>2. confused' \subseteq Names
    BY <1>3 DEF Restart
  <2>3. faults' \in 0..MaxFaults
    BY <1>3, DiscoveryAssumption DEF Restart, TypeOK, WorldTypes
  <2>4. TailTypes'
    BY <1>3 DEF Restart, TypeOK, TailTypes, Known
  <2>5. DockerTypes'
    BY <1>3 DEF Restart, DockerTypes
  <2> QED BY <1>3, <2>1, <2>2, <2>3, <2>4, <2>5 DEF Restart, TypeOK, WorldTypes, worldVars
<1>4. CASE SocketAppears
  BY <1>4 DEF SocketAppears, TypeOK, TailTypes, DockerTypes, WorldTypes, Known, managerVars, tailVars,
              dockerVars, boundVars
<1>5. ASSUME NEW d \in Devices, DeviceChanges(d) PROVE TypeOK'
  <2>1. net' \in [Devices -> [there : BOOLEAN, online : BOOLEAN, fqdn : {0, 1}, name : Names]]
    <3> DEFINE Net == [there : BOOLEAN, online : BOOLEAN, fqdn : {0, 1}, name : Names]
    <3>1. net \in [Devices -> Net] /\ net[d] \in Net
      BY DEF TypeOK, WorldTypes
    <3>2. PICK m \in Net : net' = [net EXCEPT ![d] = m]
      <4>1. CASE net' = [net EXCEPT ![d].there = ~@, ![d].online = ~net[d].there]
        <5>1. [there |-> ~net[d].there, online |-> ~net[d].there, fqdn |-> net[d].fqdn,
               name |-> net[d].name] \in Net
          BY <3>1
        <5> QED BY <3>1, <4>1, <5>1
      <4>2. CASE net' = [net EXCEPT ![d].online = ~@]
        <5>1. [net[d] EXCEPT !.online = ~@] \in Net
          BY <3>1
        <5> QED BY <3>1, <4>2, <5>1
      <4>3. ASSUME NEW n \in Names, net' = [net EXCEPT ![d].fqdn = 1 - @, ![d].name = n]
            PROVE  \E m \in Net : net' = [net EXCEPT ![d] = m]
        <5>1. [there |-> net[d].there, online |-> net[d].online, fqdn |-> 1 - net[d].fqdn,
               name |-> n] \in Net
          BY <3>1
        <5> QED BY <3>1, <4>3, <5>1
      <4> QED BY <1>5, <4>1, <4>2, <4>3 DEF DeviceChanges
    <3> QED BY <3>1, <3>2
  <2>2. absent' \in SUBSET Devices
    BY <1>5 DEF DeviceChanges, TypeOK, TailTypes
  <2> QED BY <1>2, <1>5, <2>1, <2>2
          DEF DeviceChanges, TypeOK, TailTypes, DockerTypes, WorldTypes, Known, managerVars, dockerVars
<1>6. ASSUME NEW c \in Containers, ContainerChanges(c) PROVE TypeOK'
  BY <1>2, <1>6
  DEF ContainerChanges, TypeOK, TailTypes, DockerTypes, WorldTypes, Known, managerVars, tailVars
<1>7. ASSUME NEW r \in Rows, CreateRow(r) PROVE TypeOK'
  <2>1. PICK n \in Names : rows' = [rows EXCEPT ![r] = n] /\ AddPeer(n, r)
    BY <1>7 DEF CreateRow
  <2>2. ManagerTypes' /\ rows' \in [Rows -> Names \cup {None}]
    BY <1>1, <2>1, AddPeerAdds DEF TypeOK, WorldTypes
  <2> QED BY <1>2, <1>7, <2>2
          DEF CreateRow, TypeOK, ManagerTypes, TailTypes, DockerTypes, WorldTypes, Known, tailVars,
              dockerVars
<1>8. ASSUME NEW r \in Rows, DeleteRow(r) PROVE TypeOK'
  <2>1. ManagerTypes' /\ rows' \in [Rows -> Names \cup {None}]
    BY <1>1, <1>8, RemovePeersRemoves DEF DeleteRow, TypeOK, WorldTypes
  <2> QED BY <1>2, <1>8, <2>1
          DEF DeleteRow, TypeOK, ManagerTypes, TailTypes, DockerTypes, WorldTypes, Known, tailVars,
              dockerVars
<1> QED BY <1>3, <1>4, <1>5, <1>6, <1>7, <1>8

-----------------------------------------------------------------------------
(* The file, the entries and the phases of a scan                          *)

LEMMA ProbeKept == TypeOK /\ ProbeInv /\ [Next]_vars => ProbeInv'
<1> SUFFICES ASSUME TypeOK, ProbeInv, [Next]_vars PROVE ProbeInv'
  OBVIOUS
<1>1. ASSUME UNCHANGED <<started, curr, todo, entries, changed, disk>> PROVE ProbeInv'
  BY <1>1 DEF ProbeInv, Idle
<1>2. CASE StartDiscovery
  BY <1>2 DEF StartDiscovery, ProbeInv, Idle
<1>3. CASE NetMapArrives
  <2>1. \A d \in Devices : Snap(d) # None
    BY DiscoveryAssumption DEF TypeOK, WorldTypes, Snap, Snapshots
  <2>2. \A d \in todo' : Known(curr'[d])
    BY <1>3, <2>1 DEF NetMapArrives, Known
  <2> QED BY <1>3, <2>2 DEF NetMapArrives, ProbeInv, Idle, Known
<1>4. CASE FinishNetMap
  <2>1. todo' = None
    BY <1>4 DEF FinishNetMap
  <2>2. disk' = entries'
    <3>1. CASE changed \/ Left # {}
      BY <1>4, <3>1 DEF FinishNetMap, Saves
    <3>2. CASE ~changed /\ Left = {}
      <4>1. entries' = entries
        BY <1>4, <3>2 DEF FinishNetMap, TypeOK, TailTypes
      <4> QED BY <1>4, <3>2, <4>1 DEF FinishNetMap, ProbeInv
    <3> QED BY <3>1, <3>2
  <2> QED BY <2>1, <2>2 DEF ProbeInv, Idle
<1>5. ASSUME NEW d \in Devices, Skip(d) PROVE ProbeInv'
  <2>1. todo' # None
    BY <1>5, DiscoveryAssumption DEF Skip, Idle, TypeOK, TailTypes
  <2> QED BY <1>5, <2>1 DEF Skip, ProbeInv, Idle, Known
<1>6. ASSUME NEW d \in Devices, HandleOnlinePeer(d) PROVE ProbeInv'
  <2>1. todo' # None
    BY <1>6, DiscoveryAssumption DEF HandleOnlinePeer, Idle, TypeOK, TailTypes
  <2> QED BY <1>6, <2>1 DEF HandleOnlinePeer, ProbeInv, Idle, Known
<1>7. CASE Restart
  BY <1>7 DEF Restart, ProbeInv, Idle
<1>8. CASE \/ DockerStep \/ ScanFails \/ StreamEnds \/ SocketAppears \/ UNCHANGED vars
           \/ \E d \in Devices : DeviceChanges(d)
           \/ \E c \in Containers : ContainerChanges(c)
           \/ \E r \in Rows : CreateRow(r) \/ DeleteRow(r)
  <2>1. UNCHANGED <<started, curr, todo, entries, changed, disk>>
    BY <1>8
    DEF DockerStep, WaitForSocket, Waits, ScanLists, ScanRemoves, ScanReadsTokens, ScanNames,
        ScanRegisters, ScanEnds, Subscribe, TakeEvent, ScanFails, StreamEnds, SocketAppears,
        DeviceChanges, ContainerChanges, CreateRow, DeleteRow, tailVars, vars
  <2> QED BY <1>1, <2>1
<1> QED BY <1>2, <1>3, <1>4, <1>5, <1>6, <1>7, <1>8 DEF Next, TailnetStep

LEMMA EntryKept == TypeOK /\ ProbeInv /\ EntryInv /\ [Next]_vars => EntryInv'
<1> SUFFICES ASSUME TypeOK, ProbeInv, EntryInv, [Next]_vars PROVE EntryInv'
  OBVIOUS
<1>1. ManagerTypes
  BY DEF TypeOK, ManagerTypes
<1>2. ASSUME UNCHANGED <<entries, demoted>>,
             \A n \in Names, d \in Devices : table'[n] = d => table[n] = d
      PROVE  EntryInv'
  BY <1>2 DEF EntryInv, PeersOf, Known
<1>3. CASE StartDiscovery
  <2>1. PICK t \in [Names -> {None} \cup Devices] :
          /\ \A n \in Names :
               LET claims == {d \in Devices : Known(entries[d]) /\ entries[d].jump /\ entries[d].name = n}
               IN IF table[n] # None \/ claims = {} THEN t[n] = None ELSE t[n] \in claims
          /\ table' = [n \in Names |-> IF t[n] = None THEN table[n] ELSE t[n]]
    BY <1>3 DEF StartDiscovery
  <2>2. ASSUME NEW d \in Devices \ demoted, NEW n \in Names, table'[n] = d
        PROVE  Known(entries[d]) /\ entries[d].name = n
    <3>1. CASE t[n] = None
      BY <2>1, <2>2, <3>1 DEF EntryInv, PeersOf
    <3>2. CASE t[n] # None
      BY <2>1, <2>2, <3>2
    <3> QED BY <3>1, <3>2
  <2> QED BY <1>3, <2>2 DEF StartDiscovery, EntryInv, PeersOf, Known
<1>4. CASE FinishNetMap
  <2>1. \A m \in Names : table'[m] = IF m \in {entries[d].name : d \in Left} THEN None ELSE table[m]
    BY <1>1, <1>4, RemovePeersRemoves DEF FinishNetMap
  <2>2. ASSUME NEW d \in Devices \ demoted, NEW n \in Names, table'[n] = d
        PROVE  Known(entries'[d]) /\ entries'[d].name = n
    <3>1. table[n] = d /\ n \notin {entries[x].name : x \in Left}
      BY <2>1, <2>2, DiscoveryAssumption
    <3>2. Known(entries[d]) /\ entries[d].name = n
      BY <3>1 DEF EntryInv, PeersOf
    <3>3. entries'[d] = entries[d]
      BY <1>4, <3>1, <3>2 DEF FinishNetMap
    <3> QED BY <3>2, <3>3 DEF Known
  <2> QED BY <1>4, <2>2 DEF FinishNetMap, EntryInv, PeersOf, Known
<1>5. ASSUME NEW d \in Devices, HandleOnlinePeer(d) PROVE EntryInv'
  <2>1. PICK n \in Answers(d) :
          /\ entries' = [entries EXCEPT ![d] = [fqdn |-> curr[d].fqdn, name |-> n, jump |-> n # None]]
          /\ IF n = None THEN UNCHANGED managerVars
             ELSE IF Conflict(d, n) THEN confused' = confused \cup {n} /\ UNCHANGED table
             ELSE AddPeer(n, d)
          /\ demoted' = IF Jump(d) /\ n # entries[d].name THEN demoted \cup {d} ELSE demoted
    BY <1>5 DEF HandleOnlinePeer
  <2>2. n = None \/ n \in Names
    BY DEF Answers, TypeOK, WorldTypes
  <2>3. \A m \in Names : table'[m] = table[m] \/ (m = n /\ table'[m] = d)
    <3>1. CASE n = None \/ Conflict(d, n)
      BY <2>1, <3>1 DEF managerVars
    <3>2. CASE n \in Names /\ AddPeer(n, d)
      BY <1>1, <3>2, AddPeerAdds
    <3> QED BY <2>1, <2>2, <3>1, <3>2
  <2>4. /\ entries'[d] = [fqdn |-> curr[d].fqdn, name |-> n, jump |-> n # None]
        /\ \A x \in Devices \ {d} : entries'[x] = entries[x]
    BY <2>1 DEF TypeOK, TailTypes
  <2>5. entries'[d] # None
    <3>1. curr[d] \in Snapshots
      BY <1>5 DEF HandleOnlinePeer, ProbeInv, TypeOK, TailTypes, Known
    <3>2. [fqdn |-> curr[d].fqdn, name |-> n, jump |-> n # None] \in Entries
      BY <2>2, <3>1, DiscoveryAssumption DEF Entries, Snapshots
    <3> QED BY <2>4, <3>2, DiscoveryAssumption
  <2>6. ASSUME NEW x \in Devices \ demoted', NEW m \in Names, table'[m] = x
        PROVE  Known(entries'[x]) /\ entries'[x].name = m
    <3>1. x \notin demoted
      BY <2>1
    <3>2. CASE x # d
      <4>1. table[m] = x
        BY <2>3, <2>6, <3>2
      <4> QED BY <2>4, <3>1, <3>2, <4>1 DEF EntryInv, PeersOf, Known
    <3>3. CASE x = d /\ table[m] # d
      BY <2>3, <2>4, <2>5, <2>6, <3>3 DEF Known
    <3>4. CASE x = d /\ table[m] = d
      <4>1. Known(entries[d]) /\ entries[d].name = m
        BY <3>1, <3>4 DEF EntryInv, PeersOf
      <4>2. Jump(d)
        BY <4>1, DiscoveryAssumption DEF Jump, Known, Entries, TypeOK, TailTypes
      <4>3. n = m
        BY <2>1, <2>6, <3>4, <4>1, <4>2
      <4> QED BY <2>4, <2>5, <3>4, <4>3 DEF Known
    <3> QED BY <3>2, <3>3, <3>4
  <2> QED BY <2>6 DEF EntryInv, PeersOf, Known
<1>6. CASE Restart
  BY <1>6, DiscoveryAssumption DEF Restart, EntryInv, PeersOf
<1>7. CASE \/ NetMapArrives \/ WaitForSocket \/ ScanLists \/ ScanReadsTokens \/ ScanNames \/ ScanEnds
           \/ Subscribe \/ TakeEvent \/ ScanFails \/ StreamEnds \/ SocketAppears \/ UNCHANGED vars
           \/ \E d \in Devices : Skip(d) \/ DeviceChanges(d)
           \/ \E c \in Containers : ContainerChanges(c)
  <2>1. UNCHANGED <<entries, demoted, table>>
    BY <1>7
    DEF NetMapArrives, WaitForSocket, Waits, ScanLists, ScanReadsTokens, ScanNames, ScanEnds,
        Subscribe, TakeEvent, ScanFails, StreamEnds, SocketAppears, Skip, DeviceChanges,
        ContainerChanges, managerVars, tailVars, vars
  <2> QED BY <1>2, <2>1
<1>8. CASE ScanRemoves
  <2>1. PICK g \in gone : RemovePeers({g[2]})
    BY <1>8 DEF ScanRemoves
  <2>2. \A m \in Names : table'[m] = IF m \in {g[2]} THEN None ELSE table[m]
    BY <1>1, <1>8, <2>1, RemovePeersRemoves DEF ScanRemoves
  <2> QED BY <1>2, <1>8, <2>2, DiscoveryAssumption DEF ScanRemoves, tailVars
<1>9. CASE ScanRegisters
  <2>1. chosen.container \in Containers /\ chosen.name \in Names
    BY <1>9 DEF ScanRegisters, TypeOK, DockerTypes
  <2>2. \A m \in Names : table'[m] = table[m] \/ table'[m] = chosen.container
    BY <1>1, <1>9, <2>1, AddPeerAdds DEF ScanRegisters
  <2> QED BY <1>2, <1>9, <2>1, <2>2, DiscoveryAssumption DEF ScanRegisters, tailVars
<1>10. ASSUME NEW r \in Rows, CreateRow(r) PROVE EntryInv'
  <2>1. PICK n \in Names : AddPeer(n, r)
    BY <1>10 DEF CreateRow
  <2>2. \A m \in Names : table'[m] = table[m] \/ table'[m] = r
    BY <1>1, <2>1, AddPeerAdds
  <2> QED BY <1>2, <1>10, <2>2, DiscoveryAssumption DEF CreateRow, tailVars
<1>11. ASSUME NEW r \in Rows, DeleteRow(r) PROVE EntryInv'
  <2>1. \A m \in Names : table'[m] = IF m \in {rows[r]} THEN None ELSE table[m]
    BY <1>1, <1>11, RemovePeersRemoves DEF DeleteRow
  <2> QED BY <1>2, <1>11, <2>1, DiscoveryAssumption DEF DeleteRow, tailVars
<1> QED BY <1>3, <1>4, <1>5, <1>6, <1>7, <1>8, <1>9, <1>10, <1>11 DEF Next, TailnetStep, DockerStep

LEMMA ScanKept == TypeOK /\ ScanInv /\ [Next]_vars => ScanInv'
<1> SUFFICES ASSUME TypeOK, ScanInv, [Next]_vars PROVE ScanInv'
  OBVIOUS
<1>1. ASSUME UNCHANGED <<scan, gone, chosen, tracked>> PROVE ScanInv'
  BY <1>1 DEF ScanInv, Known
<1>2. CASE WaitForSocket
  BY <1>2 DEF WaitForSocket, Waits, ScanInv, Known
<1>3. CASE ScanLists
  <2>1. gone' = {<<c, tracked[c]>> : c \in {c \in Containers \ up : Known(tracked[c])}}
    BY <1>3 DEF ScanLists
  <2>2. ASSUME NEW g \in gone' PROVE ~Known(tracked'[g[1]])
    <3>1. PICK c \in Containers \ up : g = <<c, tracked[c]>>
      BY <2>1
    <3>2. g[1] = c
      BY <3>1
    <3> QED BY <1>3, <3>2 DEF ScanLists, Known
  <2>3. chosen' = None /\ scan' = "remove"
    BY <1>3 DEF ScanLists, ScanInv
  <2> QED BY <2>2, <2>3 DEF ScanInv
<1>4. CASE ScanRemoves
  BY <1>4 DEF ScanRemoves, ScanInv, Known
<1>5. CASE ScanReadsTokens \/ ScanNames \/ ScanEnds \/ Subscribe \/ TakeEvent \/ ScanFails \/ StreamEnds
  BY <1>5 DEF ScanReadsTokens, ScanNames, ScanEnds, Subscribe, TakeEvent, ScanFails, StreamEnds,
              ScanInv, Known
<1>6. CASE ScanRegisters
  <2>1. gone = {}
    BY <1>6 DEF ScanRegisters, ScanInv
  <2> QED BY <1>6, <2>1 DEF ScanRegisters, ScanInv
<1>7. CASE Restart
  BY <1>7 DEF Restart, ScanInv
<1>8. CASE \/ TailnetStep \/ SocketAppears \/ UNCHANGED vars
           \/ \E d \in Devices : DeviceChanges(d)
           \/ \E c \in Containers : ContainerChanges(c)
           \/ \E r \in Rows : CreateRow(r) \/ DeleteRow(r)
  <2>1. UNCHANGED <<scan, gone, chosen, tracked>>
    BY <1>8
    DEF TailnetStep, StartDiscovery, NetMapArrives, FinishNetMap, Skip, HandleOnlinePeer,
        SocketAppears, DeviceChanges, ContainerChanges, CreateRow, DeleteRow, dockerVars, vars
  <2> QED BY <1>1, <2>1
<1> QED BY <1>2, <1>3, <1>4, <1>5, <1>6, <1>7, <1>8 DEF Next, DockerStep

-----------------------------------------------------------------------------
(* Whose a name is                                                         *)

LEMMA TailnetOwned ==
  ASSUME TypeOK, ProbeInv, OwnerInv, TailnetStep
  PROVE  OwnerInv'
<1>1. ManagerTypes
  BY DEF TypeOK, ManagerTypes
<1>2. CASE StartDiscovery
  <2>1. PICK t \in [Names -> {None} \cup Devices] :
          /\ \A n \in Names :
               LET claims == {d \in Devices : Known(entries[d]) /\ entries[d].jump /\ entries[d].name = n}
               IN IF table[n] # None \/ claims = {} THEN t[n] = None ELSE t[n] \in claims
          /\ table' = [n \in Names |-> IF t[n] = None THEN table[n] ELSE t[n]]
    BY <1>2 DEF StartDiscovery
  <2>2. confused' = confused \cup {n \in Names :
          \E d \in Devices : /\ Known(entries[d]) /\ entries[d].jump /\ entries[d].name = n
                             /\ table'[n] # d \/ (chosen # None /\ chosen.name = n)}
    BY <1>2 DEF StartDiscovery
  <2>3. UNCHANGED <<entries, rows, tracked, gone, chosen>>
    BY <1>2 DEF StartDiscovery, dockerVars, worldVars
  <2>4. ASSUME NEW n \in Names \ confused' PROVE Owned(n)'
    <3>1. Owned(n)
      BY <2>2 DEF OwnerInv
    <3>2. table[n] # None => table'[n] = table[n]
      BY <2>1
    <3>3. ASSUME NEW d \in Devices, Jump(d), entries[d].name = n
          PROVE  table'[n] = d /\ ~(chosen # None /\ chosen.name = n)
      BY <2>2, <2>4, <3>3 DEF Jump
    <3>4. chosen # None /\ chosen.name = n => table'[n] = None
      <4> SUFFICES ASSUME chosen # None, chosen.name = n PROVE table'[n] = None
        OBVIOUS
      <4>1. table[n] = None
        BY <3>1 DEF Owned
      <4>2. {d \in Devices : Known(entries[d]) /\ entries[d].jump /\ entries[d].name = n} = {}
        BY <3>3 DEF Jump
      <4>3. t[n] = None
        BY <2>1, <4>2
      <4> QED BY <2>1, <4>1, <4>3
    <3>5. \A d \in Devices : Jump(d)' => Jump(d)
      BY <2>3 DEF Jump, Known
    <3> QED BY <2>3, <3>1, <3>2, <3>3, <3>4, <3>5, DiscoveryAssumption DEF Owned
  <2> QED BY <2>4 DEF OwnerInv
<1>3. CASE NetMapArrives \/ \E d \in Devices : Skip(d)
  BY <1>3 DEF NetMapArrives, Skip, OwnerInv, Owned, Jump, Known, managerVars, dockerVars, worldVars
<1>4. CASE FinishNetMap
  <2>1. \A m \in Names : table'[m] = IF m \in {entries[d].name : d \in Left} THEN None ELSE table[m]
    BY <1>1, <1>4, RemovePeersRemoves DEF FinishNetMap
  <2>2. UNCHANGED <<confused, started, rows, tracked, gone, chosen>>
    BY <1>4 DEF FinishNetMap, dockerVars, worldVars
  <2>3. started
    BY <1>4, DiscoveryAssumption DEF FinishNetMap, ProbeInv, Idle
  <2>4. \A d \in Devices : Jump(d)' => d \notin Left /\ Jump(d) /\ entries'[d] = entries[d]
    BY <1>4 DEF FinishNetMap, Jump, Known
  <2>5. ASSUME NEW n \in Names \ confused' PROVE Owned(n)'
    <3>1. Owned(n)
      BY <2>2 DEF OwnerInv
    <3>2. CASE n \notin {entries[d].name : d \in Left}
      <4>1. table'[n] = table[n]
        BY <2>1, <3>2
      <4> QED BY <2>2, <2>4, <3>1, <4>1 DEF Owned
    <3>3. CASE n \in {entries[d].name : d \in Left}
      <4>1. PICK d \in Left : entries[d].name = n
        BY <3>3
      <4>2. d \in Devices /\ table[n] = d
        BY <2>3, <3>1, <4>1 DEF Owned, Left
      <4>3. table'[n] = None
        BY <2>1, <3>3
      <4> QED BY <2>2, <2>4, <3>1, <4>1, <4>2, <4>3, DiscoveryAssumption DEF Owned
    <3> QED BY <3>2, <3>3
  <2> QED BY <2>5 DEF OwnerInv
<1>5. ASSUME NEW d \in Devices, HandleOnlinePeer(d) PROVE OwnerInv'
  <2>1. PICK m \in Answers(d) :
          /\ entries' = [entries EXCEPT ![d] = [fqdn |-> curr[d].fqdn, name |-> m, jump |-> m # None]]
          /\ IF m = None THEN UNCHANGED managerVars
             ELSE IF Conflict(d, m) THEN confused' = confused \cup {m} /\ UNCHANGED table
             ELSE AddPeer(m, d)
    BY <1>5 DEF HandleOnlinePeer
  <2>2. m = None \/ m \in Names
    BY DEF Answers, TypeOK, WorldTypes
  <2>3. UNCHANGED <<started, rows, tracked, gone, chosen>>
    BY <1>5 DEF HandleOnlinePeer, dockerVars, worldVars
  <2>4. \A x \in Devices \ {d} : (Jump(x)' <=> Jump(x)) /\ entries'[x] = entries[x]
    BY <2>1 DEF Jump, Known, TypeOK, TailTypes
  <2>5. Jump(d)' => m # None /\ entries'[d].name = m
    BY <2>1 DEF Jump, TypeOK, TailTypes
  <2>6. confused \subseteq confused' /\ \A n \in Names \ {m} : table'[n] = table[n]
    <3>1. CASE m = None \/ Conflict(d, m)
      BY <2>1, <3>1 DEF managerVars
    <3>2. CASE m \in Names /\ AddPeer(m, d)
      BY <1>1, <3>2, AddPeerAdds
    <3> QED BY <2>1, <2>2, <3>1, <3>2
  <2>7. ASSUME NEW n \in Names \ confused' PROVE Owned(n)'
    <3>1. Owned(n)
      BY <2>6 DEF OwnerInv
    <3>2. CASE n # m
      <4>1. table'[n] = table[n]
        BY <2>6, <3>2
      <4> QED BY <2>3, <2>4, <2>5, <3>1, <3>2, <4>1 DEF Owned
    <3>3. CASE n = m
      <4>1. m # None /\ ~Conflict(d, m) /\ AddPeer(m, d)
        BY <2>1, <2>7, <3>3, DiscoveryAssumption
      <4>2. /\ table'[m] = d
            /\ chosen = None \/ chosen.name # m \/ chosen.container = d
            /\ table'[m] = IF table[m] = None THEN d ELSE table[m]
        BY <1>1, <2>7, <3>3, <4>1, AddPeerAdds, DiscoveryAssumption
      <4>3. \A x \in Devices \ {d} : ~(Jump(x) /\ entries[x].name = m)
        BY <4>1 DEF Conflict
      <4>4. table[m] \in {None, d}
        BY <4>2
      <4>5. chosen # None => chosen.container \in Containers
        BY DEF TypeOK, DockerTypes
      <4> QED BY <2>3, <2>4, <3>1, <3>3, <4>2, <4>3, <4>4, <4>5, DiscoveryAssumption DEF Owned
    <3> QED BY <3>2, <3>3
  <2> QED BY <2>7 DEF OwnerInv
<1> QED BY <1>2, <1>3, <1>4, <1>5 DEF TailnetStep

LEMMA DockerOwned ==
  ASSUME TypeOK, ScanInv, OwnerInv, DockerStep \/ ScanFails \/ StreamEnds
  PROVE  OwnerInv'
<1>1. ManagerTypes
  BY DEF TypeOK, ManagerTypes
<1>2. UNCHANGED <<started, entries, rows>>
  BY DEF DockerStep, WaitForSocket, Waits, ScanLists, ScanRemoves, ScanReadsTokens, ScanNames,
         ScanRegisters, ScanEnds, Subscribe, TakeEvent, ScanFails, StreamEnds, tailVars, worldVars
<1>3. \A d \in Devices : Jump(d)' <=> Jump(d)
  BY <1>2 DEF Jump, Known
<1>4. CASE WaitForSocket \/ ScanReadsTokens \/ ScanEnds \/ Subscribe \/ TakeEvent \/ ScanFails \/ StreamEnds
  <2>1. UNCHANGED <<table, confused, tracked, gone, chosen>>
    BY <1>4 DEF WaitForSocket, Waits, ScanReadsTokens, ScanEnds, Subscribe, TakeEvent, ScanFails,
                StreamEnds, managerVars
  <2> QED BY <1>2, <1>3, <2>1 DEF OwnerInv, Owned
<1>5. CASE ScanLists
  <2>1. /\ UNCHANGED <<table, confused, chosen>>
        /\ gone' = {<<c, tracked[c]>> : c \in {c \in Containers \ up : Known(tracked[c])}}
        /\ tracked' = [c \in Containers |-> IF c \in up THEN tracked[c] ELSE None]
    BY <1>5 DEF ScanLists, managerVars
  <2>2. ASSUME NEW n \in Names, NEW c \in Containers, tracked'[c] = n \/ <<c, n>> \in gone'
        PROVE  tracked[c] = n
    <3>1. CASE tracked'[c] = n
      BY <2>1, <3>1, DiscoveryAssumption
    <3>2. CASE <<c, n>> \in gone'
      <4>1. PICK x \in Containers : <<c, n>> = <<x, tracked[x]>>
        BY <2>1, <3>2
      <4> QED BY <4>1
    <3> QED BY <2>2, <3>1, <3>2
  <2> QED BY <1>2, <1>3, <2>1, <2>2 DEF OwnerInv, Owned
<1>6. CASE ScanRemoves
  <2>1. PICK g \in gone : RemovePeers({g[2]}) /\ gone' = gone \ {g}
    BY <1>6 DEF ScanRemoves
  <2>2. PICK c \in Containers, m \in Names : g = <<c, m>>
    BY DEF TypeOK, DockerTypes
  <2>3. UNCHANGED <<confused, tracked, chosen>> /\ chosen = None
    BY <1>6 DEF ScanRemoves, ScanInv
  <2>4. \A n \in Names : table'[n] = IF n = m THEN None ELSE table[n]
    BY <1>1, <2>1, <2>2, <2>3, RemovePeersRemoves
  <2>5. tracked[c] = None
    BY <2>2 DEF ScanInv, Known
  <2>6. ASSUME NEW n \in Names \ confused' PROVE Owned(n)'
    <3>1. Owned(n)
      BY <2>3 DEF OwnerInv
    <3>2. CASE n # m
      <4>1. table'[n] = table[n]
        BY <2>4, <3>2
      <4> QED BY <1>2, <1>3, <2>1, <2>3, <3>1, <4>1 DEF Owned
    <3>3. CASE n = m
      <4>1. <<c, n>> \in gone /\ <<c, n>> \notin gone'
        BY <2>1, <2>2, <3>3
      <4>2. table[n] = c
        BY <3>1, <4>1 DEF Owned
      <4>3. \A d \in Devices : ~(started /\ Jump(d) /\ entries[d].name = n)
        BY <3>1, <4>2, DiscoveryAssumption DEF Owned
      <4>4. \A r \in Rows : rows[r] # n
        BY <3>1, <4>2, DiscoveryAssumption DEF Owned
      <4>5. \A x \in Containers : tracked[x] # n /\ <<x, n>> \notin gone'
        BY <2>1, <2>5, <3>1, <4>1, <4>2, DiscoveryAssumption DEF Owned
      <4> QED BY <1>2, <1>3, <2>3, <4>3, <4>4, <4>5 DEF Owned
    <3> QED BY <3>2, <3>3
  <2> QED BY <2>6 DEF OwnerInv
<1>7. CASE ScanNames
  <2>1. PICK c \in found, m \in Names :
          /\ chosen' = [container |-> c, name |-> m]
          /\ confused' = IF NameInUse(m) THEN confused \cup {m} ELSE confused
    BY <1>7 DEF ScanNames
  <2>2. UNCHANGED <<table, tracked, gone>> /\ chosen'.name = m
    BY <1>7, <2>1 DEF ScanNames
  <2>3. ASSUME NEW n \in Names \ confused' PROVE Owned(n)'
    <3>1. Owned(n)
      BY <2>1, <2>3 DEF OwnerInv
    <3>2. n = m => table[n] = None
      BY <2>1, <2>3 DEF NameInUse
    <3> QED BY <1>2, <1>3, <2>2, <3>1, <3>2 DEF Owned
  <2> QED BY <2>3 DEF OwnerInv
<1>8. CASE ScanRegisters
  <2> DEFINE c == chosen.container
             m == chosen.name
  <2>1. c \in Containers /\ m \in Names
    BY <1>8 DEF ScanRegisters, TypeOK, DockerTypes
  <2>2. /\ gone = {} /\ gone' = {} /\ chosen' = None
        /\ tracked' = [tracked EXCEPT ![c] = m]
    BY <1>8 DEF ScanRegisters, ScanInv
  <2>3. /\ confused \subseteq confused'
        /\ \A n \in Names \ {m} : table'[n] = table[n]
        /\ table'[m] = IF table[m] = None THEN c ELSE table[m]
    BY <1>1, <1>8, <2>1, AddPeerAdds DEF ScanRegisters
  <2>4. \A x \in Containers : tracked'[x] = IF x = c THEN m ELSE tracked[x]
    BY <2>2 DEF TypeOK, DockerTypes
  <2>5. ASSUME NEW n \in Names \ confused' PROVE Owned(n)'
    <3>1. Owned(n)
      BY <2>3 DEF OwnerInv
    <3>2. CASE n # m
      <4>1. table'[n] = table[n]
        BY <2>3, <3>2
      <4>2. \A x \in Containers : tracked'[x] = n => tracked[x] = n
        BY <2>4, <3>2
      <4> QED BY <1>2, <1>3, <2>2, <3>1, <4>1, <4>2 DEF Owned
    <3>3. CASE n = m
      <4>1. table[m] = None
        BY <1>8, <3>1, <3>3 DEF Owned, ScanRegisters
      <4>2. table'[m] = c
        BY <2>3, <4>1
      <4> QED BY <1>2, <1>3, <2>2, <2>4, <3>1, <3>3, <4>1, <4>2, DiscoveryAssumption DEF Owned
    <3> QED BY <3>2, <3>3
  <2> QED BY <2>5 DEF OwnerInv
<1> QED BY <1>4, <1>5, <1>6, <1>7, <1>8 DEF DockerStep

LEMMA WorldOwned ==
  ASSUME TypeOK, OwnerInv,
         \/ Restart \/ SocketAppears
         \/ \E d \in Devices : DeviceChanges(d)
         \/ \E c \in Containers : ContainerChanges(c)
         \/ \E r \in Rows : CreateRow(r) \/ DeleteRow(r)
  PROVE  OwnerInv'
<1>1. ManagerTypes
  BY DEF TypeOK, ManagerTypes
<1>2. CASE Restart
  <2>1. PICK t \in [Names -> {None} \cup Rows] :
          /\ \A n \in Names :
               LET claims == {r \in Rows : rows[r] = n}
               IN IF claims = {} THEN t[n] = None ELSE t[n] \in claims
          /\ table' = t
    BY <1>2 DEF Restart
  <2>2. /\ confused' = {n \in Names : \E r, q \in Rows : r # q /\ rows[r] = n /\ rows[q] = n}
        /\ ~started' /\ rows' = rows /\ gone' = {} /\ chosen' = None
        /\ tracked' = [c \in Containers |-> None]
    BY <1>2 DEF Restart, worldVars
  <2>3. ASSUME NEW n \in Names \ confused', NEW r \in Rows, rows[r] = n PROVE table'[n] = r
    BY <2>1, <2>2, <2>3
  <2> QED BY <2>2, <2>3, DiscoveryAssumption DEF OwnerInv, Owned
<1>3. CASE \/ SocketAppears \/ \E d \in Devices : DeviceChanges(d)
           \/ \E c \in Containers : ContainerChanges(c)
  <2>1. UNCHANGED <<table, confused, started, entries, rows, tracked, gone, chosen>>
    BY <1>3 DEF SocketAppears, DeviceChanges, ContainerChanges, managerVars, tailVars, dockerVars
  <2> QED BY <2>1 DEF OwnerInv, Owned, Jump, Known
<1>4. ASSUME NEW r \in Rows, CreateRow(r) PROVE OwnerInv'
  <2>1. PICK m \in Names : rows' = [rows EXCEPT ![r] = m] /\ AddPeer(m, r)
    BY <1>4 DEF CreateRow
  <2>2. UNCHANGED <<started, entries, tracked, gone, chosen>>
    BY <1>4 DEF CreateRow, tailVars, dockerVars
  <2>3. \A d \in Devices : Jump(d)' <=> Jump(d)
    BY <2>2 DEF Jump, Known
  <2>4. \A q \in Rows : rows'[q] = IF q = r THEN m ELSE rows[q]
    BY <2>1 DEF TypeOK, WorldTypes
  <2>5. rows[r] = None
    BY <1>4 DEF CreateRow, Known
  <2>6. /\ confused \subseteq confused'
        /\ \A n \in Names \ {m} : table'[n] = table[n]
        /\ table'[m] = IF table[m] = None THEN r ELSE table[m]
        /\ m \notin confused' =>
             /\ r \in Containers \/ table'[m] = r
             /\ chosen = None \/ chosen.name # m \/ chosen.container = r
    BY <1>1, <2>1, AddPeerAdds
  <2>7. ASSUME NEW n \in Names \ confused' PROVE Owned(n)'
    <3>1. Owned(n)
      BY <2>6 DEF OwnerInv
    <3>2. CASE n # m
      <4>1. table'[n] = table[n]
        BY <2>6, <3>2
      <4> QED BY <2>2, <2>3, <2>4, <3>1, <3>2, <4>1 DEF Owned
    <3>3. CASE n = m
      <4>1. table'[m] = r /\ (chosen = None \/ chosen.name # m \/ chosen.container = r)
        BY <2>6, <2>7, <3>3, DiscoveryAssumption
      <4>2. table[m] \in {None, r}
        BY <2>6, <4>1
      <4>3. chosen # None => chosen.container \in Containers
        BY DEF TypeOK, DockerTypes
      <4> QED BY <2>2, <2>3, <2>4, <3>1, <3>3, <4>1, <4>2, <4>3, DiscoveryAssumption DEF Owned
    <3> QED BY <3>2, <3>3
  <2> QED BY <2>7 DEF OwnerInv
<1>5. ASSUME NEW r \in Rows, DeleteRow(r) PROVE OwnerInv'
  <2> DEFINE m == rows[r]
  <2>1. m \in Names
    BY <1>5 DEF DeleteRow, Known, TypeOK, WorldTypes
  <2>2. UNCHANGED <<confused, started, entries, tracked, gone, chosen>>
    BY <1>5 DEF DeleteRow, tailVars, dockerVars
  <2>3. \A d \in Devices : Jump(d)' <=> Jump(d)
    BY <2>2 DEF Jump, Known
  <2>4. \A q \in Rows : rows'[q] = IF q = r THEN None ELSE rows[q]
    BY <1>5 DEF DeleteRow, TypeOK, WorldTypes
  <2>5. \A n \in Names : table'[n] = IF n = m THEN None ELSE table[n]
    <3>1. RemovePeers({m})
      BY <1>5 DEF DeleteRow
    <3> QED BY <1>1, <2>2, <3>1, RemovePeersRemoves
  <2>6. ASSUME NEW n \in Names \ confused' PROVE Owned(n)'
    <3>1. Owned(n)
      BY <2>2 DEF OwnerInv
    <3>2. CASE n # m
      <4>1. table'[n] = table[n]
        BY <2>5, <3>2
      <4> QED BY <2>2, <2>3, <2>4, <3>1, <4>1, DiscoveryAssumption DEF Owned
    <3>3. CASE n = m
      <4>1. table[n] = r
        BY <3>1, <3>3 DEF Owned
      <4>2. table'[n] = None
        BY <2>5, <3>3
      <4> QED BY <2>2, <2>3, <2>4, <3>1, <4>1, <4>2, DiscoveryAssumption DEF Owned
    <3> QED BY <3>2, <3>3
  <2> QED BY <2>6 DEF OwnerInv
<1> QED BY <1>2, <1>3, <1>4, <1>5

-----------------------------------------------------------------------------
(* The theorems                                                            *)

LEMMA DiscoveryInductive == DiscoveryInv /\ [Next]_vars => DiscoveryInv'
<1> SUFFICES ASSUME DiscoveryInv, [Next]_vars PROVE DiscoveryInv'
  OBVIOUS
<1>1. TypeOK /\ ProbeInv /\ EntryInv /\ ScanInv /\ OwnerInv
  BY DEF DiscoveryInv
<1>2. ProbeInv' /\ EntryInv' /\ ScanInv'
  BY <1>1, ProbeKept, EntryKept, ScanKept
<1>3. TypeOK' /\ OwnerInv'
  <2>1. CASE TailnetStep
    BY <1>1, <2>1, TailnetTyped, TailnetOwned
  <2>2. CASE DockerStep \/ ScanFails \/ StreamEnds
    BY <1>1, <2>2, DockerTyped, DockerOwned
  <2>3. CASE \/ Restart \/ SocketAppears
             \/ \E d \in Devices : DeviceChanges(d)
             \/ \E c \in Containers : ContainerChanges(c)
             \/ \E r \in Rows : CreateRow(r) \/ DeleteRow(r)
    BY <1>1, <2>3, WorldTyped, WorldOwned
  <2>4. CASE UNCHANGED vars
    BY <1>1, <2>4 DEF vars, managerVars, tailVars, dockerVars, worldVars, boundVars, TypeOK, TailTypes,
                      DockerTypes, WorldTypes, OwnerInv, Owned, Jump, Known
  <2> QED BY <2>1, <2>2, <2>3, <2>4 DEF Next
<1> QED BY <1>2, <1>3 DEF DiscoveryInv

(* At every moment the file has the entries unless a netmap is at work, a  *)
(* device's peer has its entry's name, and a name that was not used for    *)
(* two things at once belongs to the only one that claims it: a device, a  *)
(* row of the database, or a container (tsdiscovery, devcontainers).       *)
THEOREM DiscoveryInvariant == Spec => []DiscoveryInv
<1>1. Init => DiscoveryInv
  <2> SUFFICES ASSUME Init PROVE DiscoveryInv
    OBVIOUS
  <2>1. TypeOK
    BY TypesInit
  <2>2. ProbeInv /\ ScanInv
    BY DEF Init, ProbeInv, ScanInv, Idle
  <2>3. EntryInv /\ OwnerInv
    BY DiscoveryAssumption DEF Init, EntryInv, PeersOf, OwnerInv, Owned
  <2> QED BY <2>1, <2>2, <2>3 DEF DiscoveryInv
<1> QED BY <1>1, DiscoveryInductive, PTL DEF Spec

(* Every reachable state has the declared types.                           *)
THEOREM DiscoveryTypes == Spec => []TypeOK
<1>1. DiscoveryInv => TypeOK
  BY DEF DiscoveryInv
<1> QED BY <1>1, DiscoveryInvariant, PTL

(* A peer that discovery added is in the state file under its name once    *)
(* its netmap is handled, so that a restart adds it without a probe        *)
(* (tsdiscovery.go, Start and saveState), but for a demoted device.        *)
THEOREM RestartRemembers == Spec => []DevicesRemembered
<1>1. DiscoveryInv => DevicesRemembered
  BY DEF DiscoveryInv, ProbeInv, EntryInv, DevicesRemembered, Known
<1> QED BY <1>1, DiscoveryInvariant, PTL

(* No scan, netmap or row leaves a tracked container without the peer of   *)
(* its name, however they interleave, unless the name was used twice       *)
(* (devcontainers, scan and register).                                     *)
THEOREM ContainersKeepPeers == Spec => []TrackedIsManaged
<1>1. DiscoveryInv => TrackedIsManaged
  BY DEF DiscoveryInv, TypeOK, DockerTypes, OwnerInv, Owned, TrackedIsManaged, Known
<1> QED BY <1>1, DiscoveryInvariant, PTL
=============================================================================
