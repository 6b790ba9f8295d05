----------------------------- MODULE PeerDiscovery -----------------------------
(* Who is a peer: the watcher of the tailnet (tsdiscovery), the watcher of *)
(* dev containers (devcontainers), the rows of the peers API (servermgr,   *)
(* db) and the configured peers add to and remove from the manager's       *)
(* table, each by name.  Module Peering has the table's own concurrency;   *)
(* here AddPeer and RemovePeer are single steps.                           *)
EXTENDS Naturals

CONSTANTS
  Devices,    \* machines of the tailnet
  Containers, \* dev containers
  Rows,       \* rows of the peers table of the database
  Names,      \* names of peers
  None,
  MaxChanges, \* bound on changes of the tailnet, the containers and the rows
  MaxFaults   \* bound on restarts of jumpd and breaks of the event stream

(* What a netmap says of a device, and what the state file says of it.     *)
Snapshots == [fqdn : {0, 1}, online : BOOLEAN]
Entries == {e \in [fqdn : {0, 1}, name : Names \cup {None}, jump : BOOLEAN] : e.jump <=> e.name # None}

ASSUME DiscoveryAssumption ==
  /\ None \notin Names \cup Devices \cup Containers \cup Rows
  /\ None \notin Snapshots \cup Entries /\ \A ds \in SUBSET Devices : ds # None
  /\ Devices \cap Containers = {} /\ Devices \cap Rows = {} /\ Containers \cap Rows = {}
  /\ MaxChanges \in Nat /\ MaxFaults \in Nat

VARIABLES
  table,     \* Manager.peers: whose peer a name is
  net,       \* the tailnet: [there, online, fqdn, name] of a device; name is that of its jumpd
  dirty,     \* a netmap is waiting to be handled
  started,   \* Watcher.Start was called
  prev, curr,\* the last snapshot and the one being handled
  todo,      \* devices of it still to be looked at, None when no netmap is being handled
  entries,   \* state.Devices: [fqdn, name, jump], or None
  changed,   \* stateChanged
  disk,      \* tailscale-discovery.json
  up,        \* the containers that run
  docker,    \* Docker's socket: "absent", "created" with an event about it, or "there"
  stream,    \* docker events: "closed", or whether its channel is "empty" or "full"
  scan,      \* waitForSocket: "stat", "watch", "again", "events";
             \* scan: "start", "remove", "register", "done"
  gone,      \* containers whose peers are to be removed: pairs <<container, name>>
  found,     \* containers whose token was read
  chosen,    \* the container being registered and the name that was free for it
  tracked,   \* the name a container is registered under
  rows,      \* the names of the rows that exist
  demoted,   \* devices whose entry lost its peer by a later probe (history)
  confused,  \* names used for two things at once (history)
  unlisted,  \* containers that changed with no stream open, or whose token failed (history)
  absent,    \* devices that left while no snapshot had them (history)
  changes, faults

managerVars == <<table, confused>>
tailVars    == <<dirty, started, prev, curr, todo, entries, changed, disk, demoted, absent>>
dockerVars  == <<stream, scan, gone, found, chosen, tracked, unlisted>>
worldVars   == <<net, up, rows, docker>>
boundVars   == <<changes, faults>>
vars == <<managerVars, tailVars, dockerVars, worldVars, boundVars>>

Snap(d) == [fqdn |-> net[d].fqdn, online |-> net[d].online]
Known(x) == x # None

(* AddPeer does nothing when the name is taken, RemovePeer when it is free.*)
AddPeer(n, who) ==
  /\ table' = IF table[n] = None THEN [table EXCEPT ![n] = who] ELSE table
  /\ confused' = IF \/ who \notin Containers /\ table[n] \notin {None, who}
                    \/ chosen # None /\ chosen.name = n /\ chosen.container # who
                 THEN confused \cup {n} ELSE confused

RemovePeers(ns) == table' = [n \in Names |-> IF n \in ns THEN None ELSE table[n]]

-----------------------------------------------------------------------------
(* The tailnet                                                             *)

(* Start: the peers of the file, without a probe.                          *)
StartDiscovery ==
  /\ ~started
  /\ started' = TRUE
  /\ dirty' = TRUE
  /\ \E t \in [Names -> {None} \cup Devices] :
       /\ \A n \in Names :
            LET claims == {d \in Devices : Known(entries[d]) /\ entries[d].jump /\ entries[d].name = n}
            IN IF table[n] # None \/ claims = {} THEN t[n] = None ELSE t[n] \in claims
       /\ table' = [n \in Names |-> IF t[n] = None THEN table[n] ELSE t[n]]
  /\ confused' = confused \cup {n \in Names :
       \E d \in Devices : /\ Known(entries[d]) /\ entries[d].jump /\ entries[d].name = n
                          /\ table'[n] # d \/ (chosen # None /\ chosen.name = n)}
  /\ UNCHANGED <<prev, curr, todo, entries, changed, disk, demoted, absent, dockerVars, worldVars, boundVars>>

Idle == todo = None

(* watchLoop hands over the netmap of this moment.                         *)
NetMapArrives ==
  /\ started /\ Idle /\ dirty
  /\ dirty' = FALSE
  /\ curr' = [d \in Devices |-> IF net[d].there THEN Snap(d) ELSE None]
  /\ todo' = {d \in Devices : net[d].there}
  /\ changed' = FALSE
  /\ UNCHANGED <<started, prev, entries, disk, demoted, absent, managerVars, dockerVars, worldVars,
                 boundVars>>

(* Which devices of a netmap are probed, and which may be: a device that   *)
(* was no jumpd is asked again when five minutes have passed.              *)
Jump(d) == Known(entries[d]) /\ entries[d].jump
MustProbe(d) ==
  /\ curr[d].online
  /\ \/ ~Known(prev[d])
     \/ Known(prev[d]) /\ ~prev[d].online /\ ~Jump(d)
     \/ Known(prev[d]) /\ prev[d].online /\ prev[d].fqdn # curr[d].fqdn
MayProbe(d) == curr[d].online /\ Known(prev[d]) /\ Known(entries[d]) /\ ~Jump(d)
               /\ prev[d].fqdn = curr[d].fqdn

Skip(d) ==
  /\ ~Idle /\ d \in todo /\ ~MustProbe(d)
  /\ todo' = todo \ {d}
  /\ UNCHANGED <<dirty, started, prev, curr, entries, changed, disk, demoted, absent, managerVars,
                 dockerVars, worldVars, boundVars>>

(* probe: the name that the device's jumpd gives, or nothing.              *)
Answers(d) == {None, net[d].name}

Conflict(d, n) == \E x \in Devices \ {d} : Jump(x) /\ entries[x].name = n

(* Mutant: a successful probe does not count as a change.                  *)
HandleOnlineUnsaved(d) ==
  /\ ~Idle /\ d \in todo /\ (MustProbe(d) \/ MayProbe(d))
  /\ todo' = todo \ {d}
  /\ \E n \in Answers(d) :
       /\ entries' = [entries EXCEPT ![d] = [fqdn |-> curr[d].fqdn, name |-> n, jump |-> n # None]]
       /\ IF n = None THEN UNCHANGED managerVars
          ELSE IF Conflict(d, n) THEN confused' = confused \cup {n} /\ UNCHANGED table
          ELSE AddPeer(n, d)
       /\ demoted' = IF Jump(d) /\ n # entries[d].name THEN demoted \cup {d} ELSE demoted
  /\ UNCHANGED <<dirty, started, prev, curr, changed, disk, absent, dockerVars, worldVars, boundVars>>

(* handleOnlinePeer: the probe fails, or names a jumpd, whose entry is     *)
(* kept even if another device has the name and no peer is added.          *)
HandleOnlinePeer(d) ==
  /\ ~Idle /\ d \in todo /\ (MustProbe(d) \/ MayProbe(d))
  /\ todo' = todo \ {d}
  /\ \E n \in Answers(d) :
       /\ entries' = [entries EXCEPT ![d] = [fqdn |-> curr[d].fqdn, name |-> n, jump |-> n # None]]
       /\ IF n = None THEN UNCHANGED managerVars
          ELSE IF Conflict(d, n) THEN confused' = confused \cup {n} /\ UNCHANGED table
          ELSE AddPeer(n, d)
       /\ demoted' = IF Jump(d) /\ n # entries[d].name THEN demoted \cup {d} ELSE demoted
  /\ changed' = TRUE
  /\ UNCHANGED <<dirty, started, prev, curr, disk, absent, dockerVars, worldVars, boundVars>>

(* The end of handleNetMap: peers of devices that left are removed, the    *)
(* snapshot becomes the last one, and a changed state is saved.            *)
Left == {d \in Devices : Known(prev[d]) /\ ~Known(curr[d]) /\ Jump(d)}

Saves == disk' = entries'

FinishNetMap ==
  /\ todo = {}
  /\ todo' = None
  /\ RemovePeers({entries[d].name : d \in Left})
  /\ entries' = [d \in Devices |-> IF d \in Left THEN None ELSE entries[d]]
  /\ prev' = curr
  /\ IF changed \/ Left # {} THEN Saves ELSE UNCHANGED disk
  /\ UNCHANGED <<dirty, started, curr, changed, demoted, absent, confused, dockerVars, worldVars,
                 boundVars>>

(* A device joins, leaves, goes on- or offline, or is renamed; a jumpd is  *)
(* installed on it, renamed or removed.                                    *)
DeviceChanges(d) ==
  /\ changes < MaxChanges
  /\ changes' = changes + 1
  /\ \/ net' = [net EXCEPT ![d].there = ~@, ![d].online = ~net[d].there]
     \/ net[d].there /\ net' = [net EXCEPT ![d].online = ~@]
     \/ net[d].there /\ \E n \in Names : net' = [net EXCEPT ![d].fqdn = 1 - @, ![d].name = n]
  /\ dirty' = TRUE
  /\ absent' = IF ~net'[d].there /\ (~started \/ ~Known(prev[d])) THEN absent \cup {d} ELSE absent
  /\ UNCHANGED <<started, prev, curr, todo, entries, changed, disk, demoted, managerVars, dockerVars,
                 up, rows, docker, faults>>

-----------------------------------------------------------------------------
(* Dev containers                                                          *)

(* waitForSocket: look for the socket, watch its directory, look again,    *)
(* and only then wait for the event.                                       *)
Waits(from, to) ==
  /\ scan = from
  /\ scan' = to
  /\ UNCHANGED <<managerVars, tailVars, stream, gone, found, chosen, tracked, unlisted, worldVars,
                 boundVars>>

(* Mutant: it does not look again.                                         *)
WaitForSocketOnce ==
  \/ Waits("stat", IF docker = "absent" THEN "watch" ELSE "start")
  \/ Waits("watch", "events")
  \/ docker = "created" /\ Waits("events", "start")

WaitForSocket ==
  \/ Waits("stat", IF docker = "absent" THEN "watch" ELSE "start")
  \/ Waits("watch", "again")
  \/ Waits("again", IF docker = "absent" THEN "events" ELSE "start")
  \/ docker = "created" /\ Waits("events", "start")

SocketAppears ==
  /\ docker = "absent"
  /\ docker' = IF scan \in {"again", "events"} THEN "created" ELSE "there"
  /\ UNCHANGED <<managerVars, tailVars, dockerVars, net, up, rows, boundVars>>

(* scan: list the containers and sort them...                              *)
ScanLists ==
  /\ scan = "start"
  /\ scan' = "remove"
  /\ gone' = {<<c, tracked[c]>> : c \in {c \in Containers \ up : Known(tracked[c])}}
  /\ tracked' = [c \in Containers |-> IF c \in up THEN tracked[c] ELSE None]
  /\ found' = {c \in up : ~Known(tracked[c])}
  /\ UNCHANGED <<managerVars, tailVars, stream, chosen, unlisted, worldVars, boundVars>>

(* docker does not answer: the scan is over.                               *)
ScanFails ==
  /\ scan = "start"
  /\ faults < MaxFaults
  /\ faults' = faults + 1
  /\ scan' = "done"
  /\ unlisted' = Containers
  /\ UNCHANGED <<managerVars, tailVars, stream, gone, found, chosen, tracked, worldVars, changes>>

(* ...remove the peers of those that are gone...                           *)
ScanRemoves ==
  /\ scan = "remove" /\ gone # {}
  /\ \E g \in gone :
       /\ RemovePeers({g[2]})
       /\ gone' = gone \ {g}
  /\ UNCHANGED <<confused, tailVars, stream, scan, found, chosen, tracked, unlisted, worldVars,
                 boundVars>>

(* ...read the tokens, three times at most...                              *)
ScanReadsTokens ==
  /\ scan = "remove" /\ gone = {}
  /\ scan' = "register"
  /\ \E s \in SUBSET found :
       /\ found' = s
       /\ unlisted' = unlisted \cup (found \ s)
  /\ UNCHANGED <<managerVars, tailVars, stream, gone, chosen, tracked, worldVars, boundVars>>

(* ...find a name that neither a container nor a peer has, if there is one *)
NameInUse(n) == table[n] # None \/ \E c \in Containers : tracked[c] = n

(* Mutant: the names of the manager's peers are not asked.                 *)
ScanNamesBlindly ==
  /\ scan = "register" /\ chosen = None
  /\ \E c \in found, n \in Names :
       /\ \A x \in Containers : tracked[x] # n
       /\ chosen' = [container |-> c, name |-> n]
  /\ UNCHANGED <<managerVars, tailVars, stream, scan, gone, found, tracked, unlisted, worldVars,
                 boundVars>>

ScanNames ==
  /\ scan = "register" /\ chosen = None
  /\ \E c \in found, n \in Names :
       /\ ~NameInUse(n) \/ \A x \in Names : NameInUse(x)
       /\ chosen' = [container |-> c, name |-> n]
       /\ confused' = IF NameInUse(n) THEN confused \cup {n} ELSE confused
  /\ UNCHANGED <<table, tailVars, stream, scan, gone, found, tracked, unlisted, worldVars,
                 boundVars>>

(* ...and add the peer under it.                                           *)
ScanRegisters ==
  /\ chosen # None
  /\ AddPeer(chosen.name, chosen.container)
  /\ tracked' = [tracked EXCEPT ![chosen.container] = chosen.name]
  /\ found' = found \ {chosen.container}
  /\ chosen' = None
  /\ UNCHANGED <<tailVars, stream, scan, gone, unlisted, worldVars, boundVars>>

ScanEnds ==
  /\ scan = "register" /\ chosen = None /\ found = {}
  /\ scan' = "done"
  /\ UNCHANGED <<managerVars, tailVars, stream, gone, found, chosen, tracked, unlisted, worldVars,
                 boundVars>>

(* run opens the stream only after the first scan...                       *)
Subscribe ==
  /\ scan = "done" /\ stream = "closed"
  /\ stream' = "empty"
  /\ UNCHANGED <<managerVars, tailVars, scan, gone, found, chosen, tracked, unlisted, worldVars,
                 boundVars>>

(* ...and scans once for all the events its channel of one had to hold.    *)
TakeEvent ==
  /\ scan = "done" /\ stream = "full"
  /\ stream' = "empty"
  /\ scan' = "start"
  /\ unlisted' = {}
  /\ UNCHANGED <<managerVars, tailVars, gone, found, chosen, tracked, worldVars, boundVars>>

StreamEnds ==
  /\ scan = "done" /\ stream # "closed"
  /\ faults < MaxFaults
  /\ faults' = faults + 1
  /\ stream' = "closed"
  /\ scan' = "start"
  /\ unlisted' = {}
  /\ UNCHANGED <<managerVars, tailVars, gone, found, chosen, tracked, worldVars, changes>>

Unscanned == {"stat", "watch", "again", "events", "start"}

(* A container starts or stops; docker says so on an open stream.          *)
ContainerChanges(c) ==
  /\ docker # "absent" /\ changes < MaxChanges
  /\ changes' = changes + 1
  /\ up' = IF c \in up THEN up \ {c} ELSE up \cup {c}
  /\ stream' = IF stream = "closed" THEN stream ELSE "full"
  /\ unlisted' = IF stream = "closed" /\ scan \notin Unscanned THEN unlisted \cup {c} ELSE unlisted
  /\ UNCHANGED <<managerVars, tailVars, scan, gone, found, chosen, tracked, net, rows, docker, faults>>

-----------------------------------------------------------------------------
(* The peers API, and a restart of jumpd                                   *)

CreateRow(r) ==
  /\ changes < MaxChanges /\ ~Known(rows[r])
  /\ changes' = changes + 1
  /\ \E n \in Names :
       /\ rows' = [rows EXCEPT ![r] = n]
       /\ AddPeer(n, r)
  /\ UNCHANGED <<tailVars, dockerVars, net, up, docker, faults>>

DeleteRow(r) ==
  /\ changes < MaxChanges /\ Known(rows[r])
  /\ changes' = changes + 1
  /\ rows' = [rows EXCEPT ![r] = None]
  /\ RemovePeers({rows[r]})
  /\ UNCHANGED <<confused, tailVars, dockerVars, net, up, docker, faults>>

(* main: LoadPeers adds the rows, both watchers begin again.               *)
Restart ==
  /\ faults < MaxFaults
  /\ faults' = faults + 1
  /\ \E t \in [Names -> {None} \cup Rows] :
       /\ \A n \in Names :
            LET claims == {r \in Rows : rows[r] = n}
            IN IF claims = {} THEN t[n] = None ELSE t[n] \in claims
       /\ table' = t
  /\ confused' = {n \in Names : \E r, q \in Rows : r # q /\ rows[r] = n /\ rows[q] = n}
  /\ started' = FALSE /\ dirty' = FALSE
  /\ entries' = disk
  /\ prev' = [d \in Devices |-> None] /\ curr' = [d \in Devices |-> None]
  /\ todo' = None /\ changed' = FALSE
  /\ absent' = {d \in Devices : ~net[d].there}
  /\ demoted' = {}
  /\ stream' = "closed" /\ scan' = "stat" /\ gone' = {} /\ found' = {} /\ chosen' = None
  /\ tracked' = [c \in Containers |-> None]
  /\ unlisted' = {}
  /\ UNCHANGED <<disk, worldVars, changes>>

-----------------------------------------------------------------------------
Init ==
  /\ table = [n \in Names |-> None]
  /\ net \in [Devices -> [there : {TRUE}, online : BOOLEAN, fqdn : {0}, name : Names]]
  /\ dirty = FALSE /\ started = FALSE
  /\ prev = [d \in Devices |-> None] /\ curr = [d \in Devices |-> None]
  /\ todo = None
  /\ entries = [d \in Devices |-> None] /\ disk = entries
  /\ changed = FALSE
  /\ docker \in {"absent", "there"}
  /\ up \in IF docker = "absent" THEN {{}} ELSE SUBSET Containers
  /\ stream = "closed" /\ scan = "stat" /\ gone = {} /\ found = {} /\ chosen = None
  /\ tracked = [c \in Containers |-> None]
  /\ rows = [r \in Rows |-> None]
  /\ demoted = {} /\ confused = {} /\ unlisted = {} /\ absent = {}
  /\ changes = 0 /\ faults = 0

TailnetStep == StartDiscovery \/ NetMapArrives \/ FinishNetMap
               \/ \E d \in Devices : Skip(d) \/ HandleOnlinePeer(d)
DockerStep == WaitForSocket \/ ScanLists \/ ScanRemoves \/ ScanReadsTokens \/ ScanNames \/ ScanRegisters \/ ScanEnds
              \/ Subscribe \/ TakeEvent

Next ==
  \/ TailnetStep \/ DockerStep \/ ScanFails \/ StreamEnds \/ Restart \/ SocketAppears
  \/ \E d \in Devices : DeviceChanges(d)
  \/ \E c \in Containers : ContainerChanges(c)
  \/ \E r \in Rows : CreateRow(r) \/ DeleteRow(r)

Spec == Init /\ [][Next]_vars
FairSpec == Spec /\ WF_vars(TailnetStep) /\ WF_vars(DockerStep)

-----------------------------------------------------------------------------
(* Properties                                                              *)

TailTypes ==
  /\ dirty \in BOOLEAN /\ started \in BOOLEAN /\ changed \in BOOLEAN
  /\ prev \in [Devices -> {None} \cup Snapshots] /\ curr \in [Devices -> {None} \cup Snapshots]
  /\ todo = None \/ todo \subseteq Devices
  /\ {entries, disk} \subseteq [Devices -> {None} \cup Entries]
  /\ {demoted, absent} \subseteq SUBSET Devices

DockerTypes ==
  /\ stream \in {"closed", "empty", "full"}
  /\ scan \in {"stat", "watch", "again", "events", "start", "remove", "register", "done"}
  /\ gone \subseteq Containers \X Names /\ {found, unlisted} \subseteq SUBSET Containers
  /\ chosen \in {None} \cup [container : Containers, name : Names]
  /\ tracked \in [Containers -> Names \cup {None}]

WorldTypes ==
  /\ net \in [Devices -> [there : BOOLEAN, online : BOOLEAN, fqdn : {0, 1}, name : Names]]
  /\ up \subseteq Containers /\ rows \in [Rows -> Names \cup {None}]
  /\ docker \in {"absent", "created", "there"}
  /\ changes \in 0..MaxChanges /\ faults \in 0..MaxFaults

TypeOK ==
  /\ table \in [Names -> {None} \cup Devices \cup Containers \cup Rows] /\ confused \subseteq Names
  /\ TailTypes /\ DockerTypes /\ WorldTypes

PeersOf(x) == {n \in Names : table[n] = x}

(* Whoever is a peer by discovery when no netmap is being handled is in    *)
(* the file, so that a restart brings it back without a probe              *)
(* (tsdiscovery.go 9).  Excepted is a device whose later probe, after a    *)
(* change of its FQDN, failed or gave another name.                        *)
DevicesRemembered ==
  started /\ Idle =>
    \A d \in Devices \ demoted : \A n \in PeersOf(d) : Known(disk[d]) /\ disk[d].name = n

(* A device that left the tailnet has no peer once its netmap is handled   *)
(* (tsdiscovery.go 278), unless no snapshot had it since jumpd started: it *)
(* left while jumpd was down and its entry is kept for good.               *)
LeftDevicesGo ==
  started /\ Idle /\ ~dirty =>
    \A d \in Devices : ~net[d].there /\ d \notin demoted \cup absent => PeersOf(d) = {}

(* A tracked container has the peer of its name, unless something else was *)
(* given that name between the test and the addition, or was refused it.   *)
TrackedIsManaged ==
  \A c \in Containers :
    Known(tracked[c]) /\ tracked[c] \notin confused => table[tracked[c]] = c

(* A container that runs on becomes a peer in the end.                     *)
ContainersArrive ==
  \A c \in Containers : <>[](c \in up /\ c \notin unlisted) => <>[](Known(tracked[c]))

(* "Remove peers that left the tailnet entirely" (tsdiscovery.go 278): a   *)
(* netmap takes no other device's peer away.  It does, when two devices    *)
(* have one name.                                                          *)
OnlyTheLeftGo ==
  [][\A d \in Devices, n \in Names :
       table[n] = d /\ table'[n] = None /\ ~Idle /\ Idle' => ~Known(curr[d])]_vars
=============================================================================
