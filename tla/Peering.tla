------------------------------- MODULE Peering -------------------------------
(***************************************************************************)
(* A hub's connections to its spokes (services/jumpd/internal/peering and  *)
(* sseclient): the manager's table, one goroutine per managed peer that    *)
(* follows the spoke's /v1/events and copies its sessions to the hub's     *)
(* store under the name session@peer, AddPeer, RemovePeer, the restart of  *)
(* every peer after the machine slept, and Stop.                           *)
(*                                                                         *)
(* A spoke announces items: its own sessions, and sessions it forwards     *)
(* from a peer of its own, which the hub may know by a shorter way.        *)
(***************************************************************************)
EXTENDS Naturals, Sequences, FiniteSets, SequencesExt

CONSTANTS
  Names,      \* names of peers
  Entries,    \* managedPeers, in the order in which they are made
  Callers,    \* goroutines that call AddPeer and RemovePeer
  Ids,        \* ids of the spokes' own sessions
  None,
  MaxChanges, \* bound on the changes of the spokes' sessions
  MaxDrops,   \* bound on broken connections
  MaxSleeps   \* bound on the times the machine wakes up

Self == "self"    \* this node's hostname
Own  == "own"

(* What a spoke lists: a session of its own, or one it forwards.           *)
Items == [id : Ids, via : {Own}] \cup [id : Ids, via : {Self} \cup Names]
OwnItems == {i \in Items : i.via = Own}

(* What a stream tells of an item.                                         *)
Events == [type : {"upsert", "remove"}, item : Items]

ASSUME PeeringAssumption ==
  /\ None \notin Names \cup Entries \cup {Own, Self} /\ None \notin Events
  /\ {Own, Self} \cap Names = {}
  /\ IsFiniteSet(Items)
  /\ MaxChanges \in Nat /\ MaxDrops \in Nat /\ MaxSleeps \in Nat

VARIABLES
  table,    \* Manager.peers: the entry of each name
  nameOf,   \* the name an entry was made for
  ctx,      \* mp.cancel: the generation of the context it cancels (0: nil)
  done,     \* mp.done: the generation of the goroutine that closes it
  run,      \* the generation of the goroutine that runs, 0 if none
  phase,    \* its position: "connecting", "streaming", "silent", "backoff"
  got,      \* the event it has taken and not applied, or None
  cancelled,\* pairs <<entry, generation>> whose context is cancelled
  wire,     \* the events on the way from the spoke
  open,     \* the spoke has subscribed the stream to its store
  store,    \* the hub's remote sessions: pairs <<item, name>>
  spoke,    \* the items each spoke has
  job,      \* job[c]: how far caller c is with RemovePeer
  sleeper,  \* how far OnSleep is
  stopped,  \* Stop: "no", "waiting", "over"
  missed,   \* entries whose open stream lacks a change (history)
  unseen,   \* removals that no stream delivered: pairs <<item, name>> (history)
  blurred,  \* names added while their removal went on (history)
  slept,    \* entries that OnSleep had picked up when they were taken out (history)
  changes, drops, sleeps

threadVars == <<ctx, done, run, phase, got, cancelled>>
netVars    == <<wire, open, missed, spoke, unseen>>
tableVars  == <<table, nameOf>>
histVars   == <<blurred, slept>>
counters   == <<changes, drops, sleeps>>
vars == <<tableVars, threadVars, netVars, store, job, sleeper, stopped, histVars, counters>>

IdleJob == [step |-> "idle", entry |-> None, seen |-> 0]
IdleSleep == [todo |-> {}, entry |-> None, step |-> "idle", seen |-> 0]

-----------------------------------------------------------------------------
(* The manager                                                             *)

Used(e) == nameOf[e] # None
NextEntry == LET free == {e \in Entries : ~Used(e)}
             IN IF free = {} THEN {} ELSE {CHOOSE e \in free : TRUE}

(* startPeer: a context, a done channel, a goroutine.                      *)
StartPeer(e, gen) ==
  /\ ctx' = [ctx EXCEPT ![e] = gen]
  /\ done' = [done EXCEPT ![e] = gen]
  /\ run' = [run EXCEPT ![e] = gen]
  /\ phase' = [phase EXCEPT ![e] = "connecting"]

(* AddPeer: under the lock; nothing happens when the name is taken.        *)
AddPeer(n) ==
  /\ stopped # "over"
  /\ table[n] = None
  /\ \E e \in NextEntry :
       /\ nameOf' = [nameOf EXCEPT ![e] = n]
       /\ table' = [table EXCEPT ![n] = e]
       /\ StartPeer(e, 1)
  /\ blurred' = IF \E c \in Callers : job[c].step # "idle" /\ nameOf[job[c].entry] = n
                THEN blurred \cup {n} ELSE blurred
  /\ UNCHANGED <<got, cancelled, netVars, store, job, sleeper, stopped, slept, counters>>

Picked(e) == e \in sleeper.todo \/ sleeper.entry = e

(* RemovePeer takes the entry out under the lock...                        *)
RemovePeer(c, n) ==
  /\ stopped # "over"
  /\ job[c].step = "idle"
  /\ table[n] # None
  /\ table' = [table EXCEPT ![n] = None]
  /\ job' = [job EXCEPT ![c] = [step |-> "cancel", entry |-> table[n], seen |-> 0]]
  /\ slept' = IF Picked(table[n]) THEN slept \cup {table[n]} ELSE slept
  /\ UNCHANGED <<nameOf, threadVars, netVars, store, sleeper, stopped, blurred, counters>>

(* Mutant: the goroutine is not told to stop.                              *)
RemoveForgetsCancel(c) ==
  /\ job[c].step = "cancel"
  /\ job' = [job EXCEPT ![c].step = "read"]
  /\ UNCHANGED <<tableVars, threadVars, netVars, store, sleeper, stopped, histVars, counters>>

(* ...calls mp.cancel, whichever that now is...                            *)
RemoveCancels(c) ==
  /\ job[c].step = "cancel"
  /\ cancelled' = cancelled \cup {<<job[c].entry, ctx[job[c].entry]>>}
  /\ job' = [job EXCEPT ![c].step = "read"]
  /\ UNCHANGED <<tableVars, ctx, done, run, phase, got, netVars, store, sleeper, stopped,
                 histVars, counters>>

(* ...reads mp.done...                                                     *)
RemoveReads(c) ==
  /\ job[c].step = "read"
  /\ LET e == job[c].entry
     IN job' = [job EXCEPT ![c] = [step |-> "wait", entry |-> e, seen |-> done[e]]]
  /\ UNCHANGED <<tableVars, threadVars, netVars, store, sleeper, stopped, histVars, counters>>

Ended(e, gen) == run[e] # gen /\ gen <= done[e]

(* Mutant: the sessions are removed while the goroutine may still run.     *)
RemoveDoesNotWait(c) ==
  /\ job[c].step = "wait"
  /\ job' = [job EXCEPT ![c].step = "sessions"]
  /\ UNCHANGED <<tableVars, threadVars, netVars, store, sleeper, stopped, histVars, counters>>

(* ...waits until it is closed...                                          *)
RemoveWaits(c) ==
  /\ job[c].step = "wait"
  /\ Ended(job[c].entry, job[c].seen)
  /\ job' = [job EXCEPT ![c].step = "sessions"]
  /\ UNCHANGED <<tableVars, threadVars, netVars, store, sleeper, stopped, histVars, counters>>

(* ...and removes the sessions by the peer's name.                         *)
RemoveByPeer(c) ==
  /\ job[c].step = "sessions"
  /\ store' = {k \in store : k[2] # nameOf[job[c].entry]}
  /\ job' = [job EXCEPT ![c] = IdleJob]
  /\ UNCHANGED <<tableVars, threadVars, netVars, sleeper, stopped, histVars, counters>>

(* OnSleep copies the table...                                             *)
Wake ==
  /\ stopped = "no"
  /\ sleeps < MaxSleeps
  /\ sleeper = IdleSleep
  /\ \E n \in Names : table[n] # None
  /\ sleeps' = sleeps + 1
  /\ sleeper' = [IdleSleep EXCEPT !.todo = {table[n] : n \in Names} \ {None}]
  /\ UNCHANGED <<tableVars, threadVars, netVars, store, job, stopped, histVars, changes, drops>>

(* ...and for one entry after the other, without the lock: mp.cancel...    *)
SleepCancels ==
  /\ sleeper.entry = None
  /\ \E e \in sleeper.todo :
       /\ cancelled' = cancelled \cup {<<e, ctx[e]>>}
       /\ sleeper' = [todo |-> sleeper.todo \ {e}, entry |-> e, step |-> "wait", seen |-> done[e]]
  /\ UNCHANGED <<tableVars, ctx, done, run, phase, got, netVars, store, job, stopped, histVars,
                 counters>>

(* ...wait for mp.done; startPeer makes a new context...                   *)
SleepWaits ==
  /\ sleeper.step = "wait"
  /\ Ended(sleeper.entry, sleeper.seen)
  /\ ctx' = [ctx EXCEPT ![sleeper.entry] = @ + 1]
  /\ sleeper' = [sleeper EXCEPT !.step = "go"]
  /\ UNCHANGED <<tableVars, done, run, phase, got, cancelled, netVars, store, job, stopped,
                 histVars, counters>>

(* ...then the done channel, then the goroutine.                           *)
SleepStarts ==
  /\ sleeper.step = "go"
  /\ StartPeer(sleeper.entry, ctx[sleeper.entry])
  /\ sleeper' = [sleeper EXCEPT !.entry = None, !.step = "idle", !.seen = 0]
  /\ UNCHANGED <<tableVars, got, cancelled, netVars, store, job, stopped, histVars, counters>>

(* Stop cancels the base context, waits for every goroutine, then removes  *)
(* the sessions of the peers that are left.                                *)
Stop ==
  /\ stopped = "no"
  /\ stopped' = "waiting"
  /\ UNCHANGED <<tableVars, threadVars, netVars, store, job, sleeper, histVars, counters>>

StopEnds ==
  /\ stopped = "waiting"
  /\ \A e \in Entries : run[e] = 0
  /\ stopped' = "over"
  /\ store' = {k \in store : table[k[2]] = None}
  /\ UNCHANGED <<tableVars, threadVars, netVars, job, sleeper, histVars, counters>>

-----------------------------------------------------------------------------
(* A peer's goroutine                                                      *)

Live(e) == run[e] # 0 /\ stopped # "over"
IsCancelled(e) == stopped # "no" \/ <<e, run[e]>> \in cancelled

(* The connection is gone, with what was on the way.                       *)
HangUp(e) ==
  /\ wire' = [wire EXCEPT ![e] = <<>>]
  /\ open' = [open EXCEPT ![e] = FALSE]
  /\ missed' = missed \ {e}
  /\ unseen' = unseen \cup {<<v.item, nameOf[e]>> : v \in {v \in Range(wire[e]) : v.type = "remove"}}
  /\ UNCHANGED spoke

(* Subscribe: 2xx; the spoke sends what it lists.                          *)
Connect(e) ==
  /\ Live(e) /\ phase[e] = "connecting" /\ ~IsCancelled(e)
  /\ phase' = [phase EXCEPT ![e] = "streaming"]
  /\ wire' = [wire EXCEPT ![e] = SetToSeq({[type |-> "upsert", item |-> i] : i \in spoke[nameOf[e]]})]
  /\ UNCHANGED <<tableVars, ctx, done, run, got, cancelled, open, missed, spoke, unseen, store,
                 job, sleeper, stopped, histVars, counters>>

(* Only then does the spoke subscribe the stream to its store.             *)
SpokeSubscribes(e) ==
  /\ Live(e) /\ phase[e] = "streaming" /\ ~open[e]
  /\ open' = [open EXCEPT ![e] = TRUE]
  /\ UNCHANGED <<tableVars, threadVars, wire, missed, spoke, unseen, store, job, sleeper,
                 stopped, histVars, counters>>

(* No connection, a refusal, the end of the stream, or an error on it.     *)
Disconnect(e) ==
  /\ Live(e) /\ got[e] = None /\ ~IsCancelled(e)
  /\ phase[e] \in {"connecting", "streaming"}
  /\ drops < MaxDrops
  /\ drops' = drops + 1
  /\ phase' = [phase EXCEPT ![e] = "backoff"]
  /\ HangUp(e)
  /\ UNCHANGED <<tableVars, ctx, done, run, got, cancelled, store, job, sleeper, stopped,
                 histVars, changes, sleeps>>

(* The network drops silently: nothing arrives any more...                 *)
Silence(e) ==
  /\ Live(e) /\ phase[e] = "streaming" /\ got[e] = None
  /\ drops < MaxDrops
  /\ drops' = drops + 1
  /\ phase' = [phase EXCEPT ![e] = "silent"]
  /\ HangUp(e)
  /\ UNCHANGED <<tableVars, ctx, done, run, got, cancelled, store, job, sleeper, stopped,
                 histVars, changes, sleeps>>

(* Mutant: the idle timer never fires.                                     *)
IdleNever(e) ==
  /\ Live(e) /\ phase[e] = "silent" /\ ~IsCancelled(e)
  /\ UNCHANGED vars

(* ...until the idle timer closes the body.                                *)
IdleTimeout(e) ==
  /\ Live(e) /\ phase[e] = "silent" /\ ~IsCancelled(e)
  /\ phase' = [phase EXCEPT ![e] = "backoff"]
  /\ UNCHANGED <<tableVars, ctx, done, run, got, cancelled, netVars, store, job, sleeper,
                 stopped, histVars, counters>>

Retry(e) ==
  /\ Live(e) /\ phase[e] = "backoff" /\ ~IsCancelled(e)
  /\ phase' = [phase EXCEPT ![e] = "connecting"]
  /\ UNCHANGED <<tableVars, ctx, done, run, got, cancelled, netVars, store, job, sleeper,
                 stopped, histVars, counters>>

(* A cancelled context ends the goroutine at its next look at it.          *)
Finish(e) ==
  /\ Live(e) /\ got[e] = None /\ IsCancelled(e)
  /\ run' = [run EXCEPT ![e] = 0]
  /\ phase' = [phase EXCEPT ![e] = "over"]
  /\ cancelled' = cancelled \ {<<e, run[e]>>}
  /\ HangUp(e)
  /\ UNCHANGED <<tableVars, ctx, done, got, store, job, sleeper, stopped, histVars,
                 counters>>

IsKnownOrigin(via) == via = Self \/ (via \in Names /\ table[via] # None)

(* The scanner has a line, the context is not cancelled: the event is      *)
(* dropped when its session is reachable by a shorter way...               *)
TakeEvent(e) ==
  /\ Live(e) /\ phase[e] = "streaming" /\ got[e] = None /\ ~IsCancelled(e)
  /\ wire[e] # <<>>
  /\ got' = [got EXCEPT ![e] = IF IsKnownOrigin(Head(wire[e]).item.via) THEN None ELSE Head(wire[e])]
  /\ wire' = [wire EXCEPT ![e] = Tail(@)]
  /\ UNCHANGED <<tableVars, ctx, done, run, phase, cancelled, open, missed, spoke, unseen,
                 store, job, sleeper, stopped, histVars, counters>>

(* Mutant: a removal of the spoke is not followed.                         *)
HandleUpsertsOnly(e) ==
  /\ Live(e) /\ got[e] # None
  /\ store' = IF got[e].type = "upsert" THEN store \cup {<<got[e].item, nameOf[e]>>} ELSE store
  /\ got' = [got EXCEPT ![e] = None]
  /\ UNCHANGED <<tableVars, ctx, done, run, phase, cancelled, netVars, job, sleeper, stopped,
                 histVars, counters>>

(* ...and copied to the store otherwise, even if it is cancelled meanwhile.*)
HandleEvent(e) ==
  /\ Live(e) /\ got[e] # None
  /\ LET key == <<got[e].item, nameOf[e]>>
     IN store' = IF got[e].type = "upsert" THEN store \cup {key} ELSE store \ {key}
  /\ got' = [got EXCEPT ![e] = None]
  /\ UNCHANGED <<tableVars, ctx, done, run, phase, cancelled, netVars, job, sleeper, stopped,
                 histVars, counters>>

-----------------------------------------------------------------------------
(* The spokes                                                              *)

(* A session of a spoke's own goes or comes back; every stream that is     *)
(* subscribed carries the event.                                           *)
SpokeChanges(n) ==
  LET streams == {e \in Entries : nameOf[e] = n /\ run[e] # 0 /\ open[e]}
      gap     == {e \in Entries : nameOf[e] = n /\ run[e] # 0 /\ phase[e] = "streaming" /\ ~open[e]}
  IN /\ changes < MaxChanges /\ stopped = "no"
     /\ changes' = changes + 1
     /\ missed' = missed \cup gap
     /\ \E i \in OwnItems :
          LET type == IF i \in spoke[n] THEN "remove" ELSE "upsert"
          IN /\ spoke' = [spoke EXCEPT ![n] = IF i \in @ THEN @ \ {i} ELSE @ \cup {i}]
             /\ wire' = [e \in Entries |-> IF e \in streams
                                           THEN Append(wire[e], [type |-> type, item |-> i])
                                           ELSE wire[e]]
             /\ unseen' = IF type = "remove" /\ streams = {}
                          THEN unseen \cup {<<i, n>>} ELSE unseen
     /\ UNCHANGED <<tableVars, threadVars, open, store, job, sleeper, stopped, histVars, drops,
                    sleeps>>

-----------------------------------------------------------------------------
Init ==
  /\ table = [n \in Names |-> None]
  /\ nameOf = [e \in Entries |-> None]
  /\ ctx = [e \in Entries |-> 0]
  /\ done = [e \in Entries |-> 0]
  /\ run = [e \in Entries |-> 0]
  /\ phase = [e \in Entries |-> "over"]
  /\ got = [e \in Entries |-> None]
  /\ cancelled = {}
  /\ wire = [e \in Entries |-> <<>>]
  /\ open = [e \in Entries |-> FALSE]
  /\ store = {}
  /\ spoke = [n \in Names |-> {i \in Items : i.via # n}]
  /\ job = [c \in Callers |-> IdleJob]
  /\ sleeper = IdleSleep
  /\ stopped = "no"
  /\ missed = {} /\ unseen = {} /\ blurred = {} /\ slept = {}
  /\ changes = 0 /\ drops = 0 /\ sleeps = 0

Goroutine(e) ==
  \/ Connect(e) \/ IdleTimeout(e) \/ Retry(e) \/ Finish(e) \/ TakeEvent(e) \/ HandleEvent(e)
  \/ SpokeSubscribes(e)

Removal(c) == RemoveCancels(c) \/ RemoveReads(c) \/ RemoveWaits(c) \/ RemoveByPeer(c)

Sleep == SleepCancels \/ SleepWaits \/ SleepStarts

Next ==
  \/ \E n \in Names : AddPeer(n) \/ SpokeChanges(n) \/ \E c \in Callers : RemovePeer(c, n)
  \/ \E c \in Callers : Removal(c)
  \/ Wake \/ Sleep \/ Stop \/ StopEnds
  \/ \E e \in Entries : Goroutine(e) \/ Disconnect(e) \/ Silence(e)

Spec == Init /\ [][Next]_vars

FairSpec ==
  /\ Spec
  /\ \A e \in Entries : WF_vars(Goroutine(e))
  /\ \A c \in Callers : WF_vars(Removal(c))
  /\ WF_vars(Sleep)

-----------------------------------------------------------------------------
(* Properties                                                              *)

Jobs == [step : {"idle", "cancel", "read", "wait", "sessions"}, entry : Entries \cup {None}, seen : Nat]

ManagerTypes ==
  /\ table \in [Names -> Entries \cup {None}] /\ nameOf \in [Entries -> Names \cup {None}]
  /\ \A n \in Names : table[n] # None => nameOf[table[n]] = n
  /\ job \in [Callers -> Jobs] /\ \A c \in Callers : job[c].step = "idle" <=> job[c].entry = None
  /\ sleeper \in [todo : SUBSET Entries, entry : Entries \cup {None},
                  step : {"idle", "wait", "go"}, seen : Nat]
  /\ sleeper.step = "idle" <=> sleeper.entry = None
  /\ stopped \in {"no", "waiting", "over"}
  /\ blurred \subseteq Names /\ slept \subseteq Entries
  /\ {changes, drops, sleeps} \subseteq Nat

(* An entry whose goroutine does not run has nothing on its stream.        *)
ThreadTypes ==
  /\ ctx \in [Entries -> Nat] /\ done \in [Entries -> Nat] /\ run \in [Entries -> Nat]
  /\ cancelled \subseteq Entries \X Nat
  /\ phase \in [Entries -> {"connecting", "streaming", "silent", "backoff", "over"}]
  /\ \A e \in Entries : (run[e] = 0 <=> phase[e] = "over") /\ (run[e] # 0 => Used(e))
  /\ got \in [Entries -> Events \cup {None}]

NetTypes ==
  /\ wire \in [Entries -> Seq(Events)] /\ open \in [Entries -> BOOLEAN]
  /\ store \subseteq Items \X Names /\ spoke \in [Names -> SUBSET Items]
  /\ missed \subseteq Entries /\ unseen \subseteq Items \X Names

TypeOK == ManagerTypes /\ ThreadTypes /\ NetTypes

(* RemovePeer "stops a peer connection, waits for its goroutine to finish, *)
(* and removes all its sessions" (manager.go 164): when no entry of a name *)
(* is in the table or being removed, the name has no session and nothing   *)
(* that could bring one back.  It may: OnSleep starts a removed peer again.*)
Gone(n) == /\ table[n] = None
           /\ \A c \in Callers : job[c].step # "idle" => nameOf[job[c].entry] # n

RemovedIsGone ==
  \A n \in Names : Gone(n) =>
    /\ \A k \in store : k[2] # n
    /\ \A e \in Entries : nameOf[e] = n => run[e] = 0

(* So it is, however callers, reconnections and events interleave, unless  *)
(* OnSleep had the peer on its list when it was taken out.                 *)
RemovedStaysGone ==
  \A n \in Names : Gone(n) /\ (\A e \in slept : nameOf[e] # n) =>
    /\ \A k \in store : k[2] # n
    /\ \A e \in Entries : nameOf[e] = n => run[e] = 0

Settled(e) ==
  /\ phase[e] = "streaming" /\ open[e] /\ e \notin missed
  /\ wire[e] = <<>> /\ got[e] = None
  /\ nameOf[e] \notin blurred \cup {nameOf[x] : x \in slept}
  /\ table[nameOf[e]] = e

Copied(n) == {i \in OwnItems : <<i, n>> \in store}

(* Once a stream has delivered everything, the hub has every session of    *)
(* the spoke, and beyond them only those whose removal no stream carried   *)
(* ("anything the spoke no longer reports stays as stale-but-visible",     *)
(* peer.go 191).  A name that was added again while its removal went on is *)
(* excepted: RemoveByPeer takes the new peer's sessions with the old.      *)
HubAgrees ==
  \A e \in Entries : Settled(e) =>
    /\ spoke[nameOf[e]] \cap OwnItems \subseteq Copied(nameOf[e])
    /\ \A i \in Copied(nameOf[e]) : i \in spoke[nameOf[e]] \/ <<i, nameOf[e]>> \in unseen

(* A removal ends, whatever the connection does: RemovePeer waits for a    *)
(* goroutine that needs the manager's lock, the spoke or a timer.          *)
RemovalEnds ==
  \A c \in Callers, e \in Entries :
    (job[c].step # "idle" /\ job[c].entry = e) ~> (job[c].step = "idle" \/ e \in slept)

(* A session that a managed spoke keeps gets to the hub, through broken    *)
(* and silent connections and the restarts after a sleep.                  *)
SessionsArrive ==
  \A e \in Entries, i \in OwnItems :
    <>[](/\ Used(e) /\ table[nameOf[e]] = e /\ i \in spoke[nameOf[e]] /\ stopped = "no"
         /\ e \notin missed /\ nameOf[e] \notin blurred)
      => <>[](<<i, nameOf[e]>> \in store)
=============================================================================
