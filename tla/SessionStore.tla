---------------------------- MODULE SessionStore ----------------------------
(***************************************************************************)
(* The in-memory session store of jumpd                                    *)
(* (services/jumpd/internal/store/store.go): a map of session records      *)
(* under one mutex, the slug rules that every write applies, and the event *)
(* broadcast that each writer performs AFTER it has released the mutex.    *)
(*                                                                         *)
(* A writer (an HTTP handler, a subscription goroutine, the scanner, a     *)
(* peer connection) is an actor: its write is one step under the lock, and *)
(* the events it still owes are kept in owed[a] until it broadcasts them,  *)
(* one step each.  Two actors can therefore broadcast in the opposite      *)
(* order of their writes.                                                  *)
(***************************************************************************)
EXTENDS Integers, Sequences, FiniteSets

CONSTANTS
  Ids,        \* session ids
  Kinds,      \* adapter kinds
  Peers,      \* owners of sessions: the local daemon and its peers
  Bases,      \* slugs as adapters give them, before any numbering
  Sizes,      \* terminal sizes
  Inputs,     \* the session records callers write: Session records with an id
  Actors,     \* goroutines that write to the store
  Subs,       \* event subscribers
  ListFirst,  \* the subscribers that list the sessions before they subscribe
  BufCap,     \* capacity of a subscriber's channel (64 in the code)
  Absent      \* no record under this id

(* A slug is a sequence: the base first, then the numbers that            *)
(* ensureUniqueSlug appended to it ("fix-2" is <<fix, 2>>).  NoSlug is "".  *)
Slug   == Seq(Bases \cup Nat)
NoSlug == <<>>

Session == [kind : Kinds, peer : Peers, slug : Slug, alive : BOOLEAN,
            command : BOOLEAN, resumable : BOOLEAN, size : Sizes]

Input == [id : Ids, session : Session]

ASSUME StoreAssumption ==
  /\ IsFiniteSet(Ids)
  /\ Inputs \subseteq Input
  /\ ListFirst \subseteq Subs
  /\ BufCap \in Nat \ {0}
  /\ Absent \notin Session

Event == [type : {"session-upsert", "session-remove", "session-activity"},
          id : Ids, session : Session \cup {Absent}]

(* What a writer still has to broadcast: the removals first, in the order  *)
(* of a map iteration (any), then its last event if it has one.            *)
Owed == [removes : SUBSET Ids, last : SUBSET Event]
Nothing == [removes |-> {}, last |-> {}]

VARIABLES
  sessions,   \* the map: sessions[id] is a Session, or Absent
  owed,       \* owed[a]: events actor a has not broadcast yet
  registered, \* the subscribers in the store's map
  pc,         \* pc[s]: where subscriber s is in its life
  chan,       \* chan[s]: its buffered channel
  mirror,     \* mirror[s]: what the subscriber believes the store holds
  dropped     \* the subscribers that lost an event to a full channel

vars == <<sessions, owed, registered, pc, chan, mirror, dropped>>
subVars == <<registered, pc, chan, mirror, dropped>>

Present(id) == sessions[id] # Absent

-----------------------------------------------------------------------------
(* Slug rules, evaluated under the lock on the record r about to be        *)
(* written under id.                                                       *)

Clash(id, r, slug) ==
  {o \in Ids \ {id} : /\ Present(o)
                      /\ sessions[o].slug = slug
                      /\ sessions[o].kind = r.kind
                      /\ sessions[o].peer = r.peer}

Duplicates(id, r) == IF r.slug = NoSlug THEN {} ELSE Clash(id, r, r.slug)

(* Mutant: a live arrival evicts every namesake, live ones included.       *)
EvictedLiveToo(id, r) == {o \in Duplicates(id, r) : r.alive}

(* resolveDuplicateSlugsLocked: a live arrival evicts its dead namesake... *)
Evicted(id, r) == {o \in Duplicates(id, r) : r.alive /\ ~sessions[o].alive}

(* ...and a dead arrival gives way to a live one.                          *)
GivesWay(id, r) == \E o \in Duplicates(id, r) : ~r.alive /\ sessions[o].alive

Numbered(slug, n) == IF n = 1 THEN slug ELSE Append(slug, n)

(* ensureUniqueSlug, once the evicted are gone: the first of slug, slug-2, *)
(* slug-3, ... that no other session of the same kind and peer holds.      *)
Free(id, r, slug) == Clash(id, r, slug) \ Evicted(id, r) = {}

(* Mutant: the slug is stored as it came.                                  *)
NeverNumbered(id, r, n) == n = 1

FirstFree(id, r, n) ==
  IF r.slug = NoSlug
  THEN n = 1
  ELSE /\ Free(id, r, Numbered(r.slug, n))
       /\ \A m \in 1..(n - 1) : ~Free(id, r, Numbered(r.slug, m))

-----------------------------------------------------------------------------
(* Writers.  An actor writes again only after its previous broadcasts: the *)
(* store's methods return to their caller after broadcasting.              *)

Idle(a) == owed[a] = Nothing

Upserted(id, r) == [type |-> "session-upsert", id |-> id, session |-> r]

(* The common body of Upsert, UpsertRemote and Update.                     *)
Put(a, id, r) ==
  /\ Idle(a)
  /\ \/ /\ GivesWay(id, r)
        /\ UNCHANGED <<sessions, owed>>
     \/ /\ ~GivesWay(id, r)
        /\ \E n \in 1..Cardinality(Ids) :
             LET stored == [r EXCEPT !.slug = Numbered(r.slug, n)]
             IN  /\ FirstFree(id, r, n)
                 /\ sessions' = [o \in Ids |-> IF o = id THEN stored
                                               ELSE IF o \in Evicted(id, r) THEN Absent
                                               ELSE sessions[o]]
                 /\ owed' = [owed EXCEPT ![a] = [removes |-> Evicted(id, r),
                                                 last |-> {Upserted(id, stored)}]]
  /\ UNCHANGED subVars

Resumable(r) == ~r.alive /\ r.command

Upsert(a) ==
  \E i \in Inputs :
    Put(a, i.id, [i.session EXCEPT !.resumable = Resumable(i.session)])

(* The spoke has already derived what Upsert derives.                      *)
UpsertRemote(a) == \E i \in Inputs : Put(a, i.id, i.session)

(* Every caller's modifier leaves id, kind, peer and alive alone; those    *)
(* that matter to the slug rules set the slug (a runner's meta event, a    *)
(* file attribution), the others (attention, titles, sizes) do not.        *)
Update(a) ==
  \E id \in Ids :
    /\ Present(id)
    /\ \E slug \in {sessions[id].slug} \cup {i.session.slug : i \in Inputs} :
         LET r == [sessions[id] EXCEPT !.slug = slug]
         IN  Put(a, id, [r EXCEPT !.resumable = Resumable(r)])

SetTerminalSize(a) ==
  \E id \in Ids : \E size \in Sizes :
    /\ Idle(a)
    /\ Present(id)
    /\ sessions' = [sessions EXCEPT ![id] = [@ EXCEPT !.size = size]]
    /\ owed' = [owed EXCEPT ![a] = [removes |-> {},
                                    last |-> {Upserted(id, [sessions[id] EXCEPT !.size = size])}]]
    /\ UNCHANGED subVars

(* Mutant: the removed ids are not announced.                              *)
DeleteSilently(a, gone) ==
  /\ Idle(a)
  /\ sessions' = [o \in Ids |-> IF o \in gone THEN Absent ELSE sessions[o]]
  /\ UNCHANGED <<owed, subVars>>

Delete(a, gone) ==
  /\ Idle(a)
  /\ sessions' = [o \in Ids |-> IF o \in gone THEN Absent ELSE sessions[o]]
  /\ owed' = [owed EXCEPT ![a] = [removes |-> gone, last |-> {}]]
  /\ UNCHANGED subVars

Remove(a) == \E id \in Ids : Present(id) /\ Delete(a, {id})

RemoveByPeer(a) ==
  \E p \in Peers : Delete(a, {id \in Ids : Present(id) /\ sessions[id].peer = p})

(* A transient signal (session-activity): an event without a write.        *)
Broadcast(a) ==
  \E id \in Ids :
    /\ Idle(a)
    /\ owed' = [owed EXCEPT ![a] = [removes |-> {},
                  last |-> {[type |-> "session-activity", id |-> id, session |-> Absent]}]]
    /\ UNCHANGED <<sessions, subVars>>

-----------------------------------------------------------------------------
(* Subscribers                                                             *)

(* broadcast: under the read lock, a non-blocking send to every registered *)
(* channel; a full channel loses the event.                                *)
Send(e) ==
  /\ chan' = [s \in Subs |-> IF s \in registered /\ Len(chan[s]) < BufCap
                             THEN Append(chan[s], e) ELSE chan[s]]
  /\ dropped' = dropped \cup {s \in registered : Len(chan[s]) >= BufCap}
  /\ UNCHANGED <<sessions, registered, pc, mirror>>

SendRemove(a) ==
  \E id \in owed[a].removes :
    /\ Send([type |-> "session-remove", id |-> id, session |-> Absent])
    /\ owed' = [owed EXCEPT ![a].removes = @ \ {id}]

SendLast(a) ==
  \E e \in owed[a].last :
    /\ owed[a].removes = {}
    /\ Send(e)
    /\ owed' = [owed EXCEPT ![a].last = @ \ {e}]

(* Subscribe and List come in either order: GET /v1/events sends the list  *)
(* and then subscribes, everyone else subscribes first.                    *)
Subscribe(s) ==
  /\ pc[s] = IF s \in ListFirst THEN "loaded" ELSE "new"
  /\ pc' = [pc EXCEPT ![s] = IF s \in ListFirst THEN "following" ELSE "subscribed"]
  /\ registered' = registered \cup {s}
  /\ UNCHANGED <<sessions, owed, chan, mirror, dropped>>

Load(s) ==
  /\ pc[s] = IF s \in ListFirst THEN "new" ELSE "subscribed"
  /\ pc' = [pc EXCEPT ![s] = IF s \in ListFirst THEN "loaded" ELSE "following"]
  /\ mirror' = [mirror EXCEPT ![s] = sessions]
  /\ UNCHANGED <<sessions, owed, registered, chan, dropped>>

(* A subscriber applies the payloads: an upsert carries the record, a      *)
(* removal none, an activity signal says nothing about the record.         *)
Told(s, e) == IF e.type = "session-activity" THEN mirror[s][e.id] ELSE e.session

Receive(s) ==
  /\ pc[s] = "following"
  /\ chan[s] # <<>>
  /\ mirror' = [mirror EXCEPT ![s] = [@ EXCEPT ![Head(chan[s]).id] = Told(s, Head(chan[s]))]]
  /\ chan' = [chan EXCEPT ![s] = Tail(@)]
  /\ UNCHANGED <<sessions, owed, registered, pc, dropped>>

(* Mutant: the channel is closed before the subscriber leaves the map.     *)
DetachLate(s) ==
  /\ pc[s] \in {"subscribed", "following"}
  /\ pc' = [pc EXCEPT ![s] = "detached"]
  /\ UNCHANGED <<sessions, owed, registered, chan, mirror, dropped>>

(* cancel(): leave the map under the lock, then close the channel.         *)
Detach(s) ==
  /\ pc[s] \in {"subscribed", "following"}
  /\ pc' = [pc EXCEPT ![s] = "detached"]
  /\ registered' = registered \ {s}
  /\ UNCHANGED <<sessions, owed, chan, mirror, dropped>>

Close(s) ==
  /\ pc[s] = "detached"
  /\ pc' = [pc EXCEPT ![s] = "closed"]
  /\ UNCHANGED <<sessions, owed, registered, chan, mirror, dropped>>

-----------------------------------------------------------------------------
Init ==
  /\ sessions = [id \in Ids |-> Absent]
  /\ owed = [a \in Actors |-> Nothing]
  /\ registered = {}
  /\ pc = [s \in Subs |-> "new"]
  /\ chan = [s \in Subs |-> <<>>]
  /\ mirror = [s \in Subs |-> [id \in Ids |-> Absent]]
  /\ dropped = {}

Write(a) == \/ Upsert(a) \/ UpsertRemote(a) \/ Update(a) \/ SetTerminalSize(a)
            \/ Remove(a) \/ RemoveByPeer(a)

Next ==
  \/ \E a \in Actors : Write(a) \/ Broadcast(a) \/ SendRemove(a) \/ SendLast(a)
  \/ \E s \in Subs : Subscribe(s) \/ Load(s) \/ Receive(s) \/ Detach(s) \/ Close(s)

Spec == Init /\ [][Next]_vars

-----------------------------------------------------------------------------
(* Properties                                                              *)

(* Types, and no channel beyond its capacity (make(chan Event, 64)).       *)
TypeOK ==
  /\ sessions \in [Ids -> Session \cup {Absent}]
  /\ owed \in [Actors -> Owed]
  /\ registered \subseteq Subs
  /\ pc \in [Subs -> {"new", "loaded", "subscribed", "following", "detached", "closed"}]
  /\ chan \in [Subs -> Seq(Event)]
  /\ \A s \in Subs : Len(chan[s]) <= BufCap
  /\ mirror \in [Subs -> [Ids -> Session \cup {Absent}]]
  /\ dropped \subseteq Subs

(* A slug names one session: whatever the order of upserts, updates and    *)
(* removals, two sessions of the same kind and peer never hold the same    *)
(* non-empty slug ("Unique within (kind, peer)", store.go).                *)
SlugIdentity ==
  \A a, b \in Ids :
    /\ a # b
    /\ Present(a)
    /\ Present(b)
    /\ sessions[a].slug # NoSlug
    /\ sessions[a].kind = sessions[b].kind
    /\ sessions[a].peer = sessions[b].peer
    => sessions[a].slug # sessions[b].slug

(* A write never costs another session its life: a record that disappears  *)
(* in the step that writes another record was dead.  Only Remove and       *)
(* RemoveByPeer, which write nothing, delete live sessions.                *)
LiveNotEvicted ==
  [][\A gone, written \in Ids :
       /\ gone # written
       /\ Present(gone)
       /\ sessions'[gone] = Absent
       /\ sessions'[written] \notin {Absent, sessions[written]}
       => ~sessions[gone].alive]_vars

(* broadcast never sends on a channel that cancel() has closed (in Go a    *)
(* panic that would take the daemon down): a closed channel has left the   *)
(* map before, and sends happen under the lock that guards the map.        *)
NoSendOnClosed == \A s \in registered : pc[s] # "closed"

Quiet(s) == chan[s] = <<>> /\ \A a \in Actors : Idle(a)

(* When every event has been delivered, a subscriber that subscribed first *)
(* (the metadata persister, the notification router, a wait) holds exactly *)
(* the store - as long as the writers' broadcasts do not overlap, for      *)
(* which the runs and the theorem take a single writer.                    *)
MirrorAgrees ==
  \A s \in Subs \ (ListFirst \cup dropped) :
    pc[s] = "following" /\ Quiet(s) => mirror[s] = sessions

(* The same for a client of GET /v1/events: it is "a pure projection of    *)
(* backend state" (state-management.md).  It is not: a write between its   *)
(* List and its Subscribe is lost.                                         *)
ClientAgrees ==
  \A s \in ListFirst \ dropped : pc[s] = "following" /\ Quiet(s) => mirror[s] = sessions

(* With several writers, a subscriber that lost no event holds at least no *)
(* session that the store has removed (sessionmeta.go 174-177: no ghosts). *)
(* It may: broadcasts follow the unlock, in any order.                     *)
NoGhostInMirror ==
  \A s \in Subs \ dropped : pc[s] = "following" /\ Quiet(s) =>
    \A id \in Ids : sessions[id] = Absent => mirror[s][id] = Absent
=============================================================================
