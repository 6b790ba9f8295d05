---------------------------- MODULE RecordProofs ----------------------------
(***************************************************************************)
(* Proofs about the records of sessions: in the store (module              *)
(* SessionStore), for every set of ids, actors and subscribers, and on     *)
(* disk (module SessionMeta), for any number of handlers, runners, crashes *)
(* of jumpd and slots of the persister's channel.                          *)
(***************************************************************************)
EXTENDS SessionStore, SessionMeta, SequenceTheorems, FiniteSetTheorems, TLAPS

-----------------------------------------------------------------------------
(* The store                                                               *)

(* A numbered slug is a slug.                                              *)
LEMMA NumberedType ==
  ASSUME NEW slug \in Slug, NEW n \in Nat
  PROVE  Numbered(slug, n) \in Slug
BY DEF Numbered, Slug

(* What ensureUniqueSlug settles on clashes with no surviving session.     *)
LEMMA FirstFreeIsFree ==
  ASSUME NEW id \in Ids, NEW r \in Session, NEW n \in Nat, FirstFree(id, r, n),
         Numbered(r.slug, n) # NoSlug
  PROVE  \A o \in Ids \ ({id} \cup Evicted(id, r)) :
           /\ Present(o)
           /\ sessions[o].kind = r.kind
           /\ sessions[o].peer = r.peer
           => sessions[o].slug # Numbered(r.slug, n)
<1>1. r.slug # NoSlug
  BY DEF FirstFree, Numbered
<1>2. Free(id, r, Numbered(r.slug, n))
  BY <1>1 DEF FirstFree
<1>3. QED
  BY <1>2 DEF Free, Clash

(* The body every write shares keeps the types.                            *)
LEMMA PutType ==
  ASSUME TypeOK, NEW a \in Actors, NEW id \in Ids, NEW r \in Session, Put(a, id, r)
  PROVE  TypeOK'
<1> USE DEF TypeOK, subVars
<1>1. CASE UNCHANGED <<sessions, owed>>
  BY <1>1 DEF Put
<1>2. ASSUME NEW n \in 1..Cardinality(Ids), FirstFree(id, r, n),
             NEW stored, stored = [r EXCEPT !.slug = Numbered(r.slug, n)],
             sessions' = [o \in Ids |-> IF o = id THEN stored
                                        ELSE IF o \in Evicted(id, r) THEN Absent
                                        ELSE sessions[o]],
             owed' = [owed EXCEPT ![a] = [removes |-> Evicted(id, r),
                                          last |-> {Upserted(id, stored)}]],
             UNCHANGED subVars
      PROVE  TypeOK'
  <2>1. n \in Nat
    BY FS_CardinalityType, StoreAssumption
  <2>2. stored \in Session
    BY <1>2, <2>1, NumberedType DEF Session
  <2>3. sessions' \in [Ids -> Session \cup {Absent}]
    BY <1>2, <2>2
  <2>4. Evicted(id, r) \subseteq Ids
    BY DEF Evicted, Duplicates, Clash
  <2>5. Upserted(id, stored) \in Event
    BY <2>2 DEF Upserted, Event
  <2>6. owed' \in [Actors -> Owed]
    BY <1>2, <2>4, <2>5 DEF Owed
  <2>7. QED
    BY <1>2, <2>3, <2>6
<1>3. QED
  BY <1>1, <1>2 DEF Put

LEMMA InitType == Init => TypeOK
BY StoreAssumption DEF Init, TypeOK, Owed, Nothing

LEMMA StepType == TypeOK /\ [Next]_vars => TypeOK'
<1> SUFFICES ASSUME TypeOK, [Next]_vars PROVE TypeOK'
  OBVIOUS
<1> USE StoreAssumption
<1>1. ASSUME NEW a \in Actors, Upsert(a) PROVE TypeOK'
  <2>1. PICK i \in Inputs : Put(a, i.id, [i.session EXCEPT !.resumable = Resumable(i.session)])
    BY <1>1 DEF Upsert
  <2>2. i.id \in Ids /\ i.session \in Session
    BY DEF Input
  <2>3. [i.session EXCEPT !.resumable = Resumable(i.session)] \in Session
    BY <2>2 DEF Session, Resumable
  <2>4. QED
    BY <2>1, <2>2, <2>3, PutType
<1>2. ASSUME NEW a \in Actors, UpsertRemote(a) PROVE TypeOK'
  BY <1>2, PutType DEF UpsertRemote, Input
<1>3. ASSUME NEW a \in Actors, Update(a) PROVE TypeOK'
  <2>0. PICK id \in Ids :
          /\ Present(id)
          /\ \E slug \in {sessions[id].slug} \cup {i.session.slug : i \in Inputs} :
               LET r == [sessions[id] EXCEPT !.slug = slug]
               IN  Put(a, id, [r EXCEPT !.resumable = Resumable(r)])
    BY <1>3 DEF Update
  <2>1. PICK slug \in {sessions[id].slug} \cup {i.session.slug : i \in Inputs} :
             LET r == [sessions[id] EXCEPT !.slug = slug]
             IN  Put(a, id, [r EXCEPT !.resumable = Resumable(r)])
    BY <2>0
  <2> DEFINE r == [sessions[id] EXCEPT !.slug = slug]
  <2>2. sessions[id] \in Session
    BY <2>0 DEF Present, TypeOK
  <2>3. slug \in Slug
    BY <2>2 DEF Session, Input
  <2>4. r \in Session
    BY <2>2, <2>3 DEF Session
  <2>5. [r EXCEPT !.resumable = Resumable(r)] \in Session
    BY <2>4 DEF Session, Resumable
  <2>6. QED
    BY <2>1, <2>5, PutType
<1>4. ASSUME NEW a \in Actors, SetTerminalSize(a) PROVE TypeOK'
  <2>1. PICK id \in Ids, size \in Sizes :
          /\ Present(id)
          /\ sessions' = [sessions EXCEPT ![id] = [@ EXCEPT !.size = size]]
          /\ owed' = [owed EXCEPT ![a] =
               [removes |-> {}, last |-> {Upserted(id, [sessions[id] EXCEPT !.size = size])}]]
          /\ UNCHANGED subVars
    BY <1>4 DEF SetTerminalSize
  <2>2. [sessions[id] EXCEPT !.size = size] \in Session
    BY <2>1 DEF Present, TypeOK, Session
  <2>3. sessions' \in [Ids -> Session \cup {Absent}]
    BY <2>1, <2>2 DEF TypeOK
  <2>4. Upserted(id, [sessions[id] EXCEPT !.size = size]) \in Event
    BY <2>2 DEF Upserted, Event
  <2>5. owed' \in [Actors -> Owed]
    BY <2>1, <2>4 DEF TypeOK, Owed
  <2>6. QED
    BY <2>1, <2>3, <2>5 DEF TypeOK, subVars
<1>5. ASSUME NEW a \in Actors, Remove(a) \/ RemoveByPeer(a) PROVE TypeOK'
  <2>1. PICK gone \in SUBSET Ids : Delete(a, gone)
    BY <1>5 DEF Remove, RemoveByPeer
  <2>2. QED
    BY <2>1 DEF Delete, TypeOK, Owed, subVars
<1>6. ASSUME NEW a \in Actors, Broadcast(a) PROVE TypeOK'
  <2>1. PICK id \in Ids :
          owed' = [owed EXCEPT ![a] = [removes |-> {},
            last |-> {[type |-> "session-activity", id |-> id, session |-> Absent]}]]
    BY <1>6 DEF Broadcast
  <2>2. [type |-> "session-activity", id |-> id, session |-> Absent] \in Event
    BY DEF Event
  <2>3. owed' \in [Actors -> Owed]
    BY <2>1, <2>2 DEF TypeOK, Owed
  <2>4. QED
    BY <1>6, <2>3 DEF Broadcast, TypeOK, subVars
<1>7. ASSUME NEW e \in Event, Send(e) PROVE
        /\ chan' \in [Subs -> Seq(Event)]
        /\ \A s \in Subs : Len(chan'[s]) <= BufCap
        /\ dropped' \subseteq Subs
  BY <1>7 DEF Send, TypeOK
<1>8. ASSUME NEW a \in Actors, SendRemove(a) PROVE TypeOK'
  <2>1. PICK id \in owed[a].removes :
          /\ Send([type |-> "session-remove", id |-> id, session |-> Absent])
          /\ owed' = [owed EXCEPT ![a].removes = @ \ {id}]
    BY <1>8 DEF SendRemove
  <2>2. [type |-> "session-remove", id |-> id, session |-> Absent] \in Event
    BY DEF TypeOK, Owed, Event
  <2>3. owed' \in [Actors -> Owed]
    BY <2>1 DEF TypeOK, Owed
  <2>4. QED
    BY <2>1, <2>2, <2>3, <1>7 DEF Send, TypeOK
<1>9. ASSUME NEW a \in Actors, SendLast(a) PROVE TypeOK'
  <2>1. PICK e \in owed[a].last : Send(e) /\ owed' = [owed EXCEPT ![a].last = @ \ {e}]
    BY <1>9 DEF SendLast
  <2>2. e \in Event
    BY DEF TypeOK, Owed
  <2>3. owed' \in [Actors -> Owed]
    BY <2>1 DEF TypeOK, Owed
  <2>4. QED
    BY <2>1, <2>2, <2>3, <1>7 DEF Send, TypeOK
<1>10. ASSUME NEW s \in Subs, Subscribe(s) \/ Load(s) \/ Detach(s) \/ Close(s) PROVE TypeOK'
  BY <1>10 DEF Subscribe, Load, Detach, Close, TypeOK
<1>11. ASSUME NEW s \in Subs, Receive(s) PROVE TypeOK'
  <2> DEFINE e == Head(chan[s])
  <2>1. e \in Event /\ Tail(chan[s]) \in Seq(Event) /\ Len(Tail(chan[s])) <= Len(chan[s])
    BY <1>11 DEF Receive, TypeOK
  <2>2. Told(s, e) \in Session \cup {Absent}
    BY <2>1 DEF Told, TypeOK, Event
  <2>3. mirror' \in [Subs -> [Ids -> Session \cup {Absent}]]
    BY <1>11, <2>1, <2>2 DEF Receive, TypeOK, Event
  <2>4. chan' \in [Subs -> Seq(Event)] /\ \A t \in Subs : Len(chan'[t]) <= BufCap
    BY <1>11, <2>1 DEF Receive, TypeOK
  <2>5. QED
    BY <1>11, <2>3, <2>4 DEF Receive, TypeOK
<1>12. CASE UNCHANGED vars
  BY <1>12 DEF vars, TypeOK
<1>13. QED
  BY <1>1, <1>2, <1>3, <1>4, <1>5, <1>6, <1>8, <1>9, <1>10, <1>11, <1>12 DEF Next, Write

(* The type invariant, channel capacity included, holds in every           *)
(* behaviour: TypeOK of SessionStore.                                      *)
THEOREM StoreTypes == Spec => []TypeOK
BY InitType, StepType, PTL DEF Spec

-----------------------------------------------------------------------------
(* How each kind of step changes the map, with everything else forgotten:  *)
(* the records it may write (under id) and the records it deletes.         *)
Written(id, r, gone) ==
  /\ id \in Ids
  /\ r \in Session
  /\ gone \subseteq Ids \ {id}
  /\ sessions' = [o \in Ids |-> IF o = id THEN r
                                 ELSE IF o \in gone THEN Absent ELSE sessions[o]]

(* A session of the same scope as r holds r's slug.                        *)
Rival(o, r) ==
  /\ sessions[o] # Absent
  /\ r.slug # NoSlug
  /\ sessions[o].slug = r.slug
  /\ sessions[o].kind = r.kind
  /\ sessions[o].peer = r.peer

(* Put either changes no session or writes a record that no surviving      *)
(* session rivals, deletes dead ones only, and owes an event for each of   *)
(* the sessions it touched.                                                *)
LEMMA PutWrites ==
  ASSUME TypeOK, NEW a \in Actors, NEW id \in Ids, NEW r \in Session, Put(a, id, r)
  PROVE  \/ UNCHANGED <<sessions, owed>>
         \/ \E stored \in Session, gone \in SUBSET Ids :
              /\ Written(id, stored, gone)
              /\ \A o \in Ids \ ({id} \cup gone) : ~Rival(o, stored)
              /\ \A o \in gone : sessions[o] # Absent /\ ~sessions[o].alive
              /\ owed' = [owed EXCEPT ![a] = [removes |-> gone,
                                              last |-> {Upserted(id, stored)}]]
<1>1. CASE UNCHANGED <<sessions, owed>>
  BY <1>1
<1>2. CASE ~UNCHANGED <<sessions, owed>>
  <2>0. PICK n \in 1..Cardinality(Ids) :
          /\ FirstFree(id, r, n)
          /\ sessions' = [o \in Ids |-> IF o = id THEN [r EXCEPT !.slug = Numbered(r.slug, n)]
                                        ELSE IF o \in Evicted(id, r) THEN Absent
                                        ELSE sessions[o]]
          /\ owed' = [owed EXCEPT ![a] =
               [removes |-> Evicted(id, r),
                last |-> {Upserted(id, [r EXCEPT !.slug = Numbered(r.slug, n)])}]]
    BY <1>2 DEF Put
  <2> DEFINE stored == [r EXCEPT !.slug = Numbered(r.slug, n)]
  <2>1. n \in Nat
    BY FS_CardinalityType, StoreAssumption
  <2>2. stored \in Session
    BY <2>1, NumberedType DEF Session
  <2>3. Evicted(id, r) \in SUBSET (Ids \ {id})
    BY DEF Evicted, Duplicates, Clash
  <2>4. \A o \in Evicted(id, r) : sessions[o] # Absent /\ ~sessions[o].alive
    BY DEF Evicted, Duplicates, Clash, Present
  <2>5. stored.slug = Numbered(r.slug, n) /\ stored.kind = r.kind /\ stored.peer = r.peer
    BY DEF Session
  <2> HIDE DEF stored
  <2>6. \A o \in Ids \ ({id} \cup Evicted(id, r)) : ~Rival(o, stored)
    BY <2>0, <2>1, <2>5, FirstFreeIsFree DEF Rival, Present
  <2>7. Written(id, stored, Evicted(id, r))
    BY <2>0, <2>2, <2>3 DEF Written, stored
  <2>8. owed' = [owed EXCEPT ![a] = [removes |-> Evicted(id, r),
                                     last |-> {Upserted(id, stored)}]]
    BY <2>0 DEF stored
  <2>9. QED
    BY <2>2, <2>3, <2>4, <2>6, <2>7, <2>8
<1>3. QED
  BY <1>1, <1>2

(* The same for a writing step of any kind.                                *)
LEMMA WriteWrites ==
  ASSUME TypeOK, NEW a \in Actors, Write(a)
  PROVE  \/ UNCHANGED <<sessions, owed>>
         \/ \E id \in Ids, stored \in Session, gone \in SUBSET Ids :
              /\ Written(id, stored, gone)
              /\ \/ \A o \in Ids \ ({id} \cup gone) : ~Rival(o, stored)
                 \/ /\ sessions[id] # Absent
                    /\ stored.slug = sessions[id].slug
                    /\ stored.kind = sessions[id].kind
                    /\ stored.peer = sessions[id].peer
              /\ \A o \in gone : sessions[o] # Absent /\ ~sessions[o].alive
              /\ owed' = [owed EXCEPT ![a] = [removes |-> gone,
                                              last |-> {Upserted(id, stored)}]]
         \/ \E gone \in SUBSET Ids :
              /\ sessions' = [o \in Ids |-> IF o \in gone THEN Absent ELSE sessions[o]]
              /\ owed' = [owed EXCEPT ![a] = [removes |-> gone, last |-> {}]]
<1>1. CASE Upsert(a)
  <2>1. PICK i \in Inputs : Put(a, i.id, [i.session EXCEPT !.resumable = Resumable(i.session)])
    BY <1>1 DEF Upsert
  <2>2. i.id \in Ids /\ i.session \in Session
    BY StoreAssumption DEF Input
  <2>3. [i.session EXCEPT !.resumable = Resumable(i.session)] \in Session
    BY <2>2 DEF Session, Resumable
  <2>4. QED
    BY <2>1, <2>2, <2>3, PutWrites
<1>2. CASE UpsertRemote(a)
  BY <1>2, PutWrites, StoreAssumption DEF UpsertRemote, Input
<1>3. CASE Update(a)
  <2>1. PICK id \in Ids :
          /\ Present(id)
          /\ \E slug \in {sessions[id].slug} \cup {i.session.slug : i \in Inputs} :
               LET r == [sessions[id] EXCEPT !.slug = slug]
               IN  Put(a, id, [r EXCEPT !.resumable = Resumable(r)])
    BY <1>3 DEF Update
  <2>2. PICK slug \in {sessions[id].slug} \cup {i.session.slug : i \in Inputs} :
             LET r == [sessions[id] EXCEPT !.slug = slug]
             IN  Put(a, id, [r EXCEPT !.resumable = Resumable(r)])
    BY <2>1
  <2> DEFINE r == [sessions[id] EXCEPT !.slug = slug]
  <2>3. sessions[id] \in Session
    BY <2>1 DEF Present, TypeOK
  <2>4. slug \in Slug
    BY <2>3, StoreAssumption DEF Session, Input
  <2>5. r \in Session
    BY <2>3, <2>4 DEF Session
  <2>6. [r EXCEPT !.resumable = Resumable(r)] \in Session
    BY <2>5 DEF Session, Resumable
  <2>7. QED
    BY <2>2, <2>6, PutWrites
<1>4. CASE SetTerminalSize(a)
  <2>1. PICK id \in Ids, size \in Sizes :
          /\ Present(id)
          /\ sessions' = [sessions EXCEPT ![id] = [@ EXCEPT !.size = size]]
          /\ owed' = [owed EXCEPT ![a] =
               [removes |-> {}, last |-> {Upserted(id, [sessions[id] EXCEPT !.size = size])}]]
    BY <1>4 DEF SetTerminalSize
  <2> DEFINE stored == [sessions[id] EXCEPT !.size = size]
  <2>2. sessions[id] \in Session /\ sessions[id] # Absent
    BY <2>1 DEF Present, TypeOK
  <2>3. /\ stored \in Session
        /\ stored.slug = sessions[id].slug
        /\ stored.kind = sessions[id].kind
        /\ stored.peer = sessions[id].peer
    BY <2>2 DEF Session
  <2>4. sessions' = [o \in Ids |-> IF o = id THEN stored
                                   ELSE IF o \in {} THEN Absent ELSE sessions[o]]
    BY <2>1 DEF TypeOK
  <2>5. Written(id, stored, {})
    BY <2>3, <2>4 DEF Written
  <2> HIDE DEF stored
  <2>6. owed' = [owed EXCEPT ![a] = [removes |-> {}, last |-> {Upserted(id, stored)}]]
    BY <2>1 DEF stored
  <2>7. QED
    BY <2>2, <2>3, <2>5, <2>6
<1>5. CASE Remove(a) \/ RemoveByPeer(a)
  BY <1>5 DEF Remove, RemoveByPeer, Delete
<1>6. QED
  BY <1>1, <1>2, <1>3, <1>4, <1>5 DEF Write

(* Steps that are not writes leave the map alone.                          *)
LEMMA OthersKeepSessions ==
  ASSUME [Next]_vars
  PROVE  sessions' = sessions \/ \E a \in Actors : Write(a)
BY DEF Next, vars, Broadcast, SendRemove, SendLast, Send, Subscribe, Load, Receive,
       Detach, Close

LEMMA StepSlugIdentity == TypeOK /\ SlugIdentity /\ [Next]_vars => SlugIdentity'
<1> SUFFICES ASSUME TypeOK, SlugIdentity, [Next]_vars PROVE SlugIdentity'
  OBVIOUS
<1>1. CASE sessions' = sessions
  BY <1>1 DEF SlugIdentity, Present
<1>2. ASSUME NEW id \in Ids, NEW stored \in Session, NEW gone \in SUBSET Ids,
             Written(id, stored, gone),
             \A o \in Ids \ ({id} \cup gone) : ~Rival(o, stored)
      PROVE  SlugIdentity'
  BY <1>2 DEF SlugIdentity, Present, Written, Rival
<1>3. ASSUME NEW id \in Ids, NEW stored \in Session, NEW gone \in SUBSET Ids,
             Written(id, stored, gone),
             sessions[id] # Absent,
             stored.slug = sessions[id].slug,
             stored.kind = sessions[id].kind,
             stored.peer = sessions[id].peer
      PROVE  SlugIdentity'
  BY <1>3 DEF SlugIdentity, Present, Written
<1>4. ASSUME NEW gone \in SUBSET Ids,
             sessions' = [o \in Ids |-> IF o \in gone THEN Absent ELSE sessions[o]]
      PROVE  SlugIdentity'
  BY <1>4 DEF SlugIdentity, Present
<1>5. QED
  BY <1>1, <1>2, <1>3, <1>4, WriteWrites, OthersKeepSessions

(* A slug names one session of its kind and peer, for any number of        *)
(* sessions and writers: the rule that URLs and project membership rely on.*)
THEOREM SlugsIdentifySessions == Spec => []SlugIdentity
<1>1. Init => SlugIdentity
  BY DEF Init, SlugIdentity, Present
<1>2. QED
  BY <1>1, StoreTypes, StepSlugIdentity, PTL DEF Spec

(* No write ever deletes a live session of another id.                     *)
THEOREM LiveSessionsSurviveWrites == Spec => LiveNotEvicted
<1>1. ASSUME TypeOK, [Next]_vars, NEW gone \in Ids, NEW written \in Ids,
             gone # written, Present(gone), sessions'[gone] = Absent,
             sessions'[written] \notin {Absent, sessions[written]}
      PROVE  ~sessions[gone].alive
  <2>1. PICK a \in Actors : Write(a)
    BY <1>1, OthersKeepSessions DEF Present
  <2>2. ASSUME NEW id \in Ids, NEW stored \in Session, NEW dead \in SUBSET Ids,
               Written(id, stored, dead),
               \A o \in dead : sessions[o] # Absent /\ ~sessions[o].alive
        PROVE  ~sessions[gone].alive
    BY <1>1, <2>2, StoreAssumption DEF Written, Present
  <2>3. ASSUME NEW dead \in SUBSET Ids,
               sessions' = [o \in Ids |-> IF o \in dead THEN Absent ELSE sessions[o]]
        PROVE  ~sessions[gone].alive
    BY <1>1, <2>3
  <2>4. QED
    BY <1>1, <2>1, <2>2, <2>3, WriteWrites
<1>2. TypeOK /\ [Next]_vars =>
        [\A gone, written \in Ids :
           /\ gone # written
           /\ Present(gone)
           /\ sessions'[gone] = Absent
           /\ sessions'[written] \notin {Absent, sessions[written]}
           => ~sessions[gone].alive]_vars
  BY <1>1
<1>3. QED
  BY <1>2, StoreTypes, PTL DEF Spec, LiveNotEvicted

-----------------------------------------------------------------------------
(* Subscribers: the map holds exactly those that have subscribed and not   *)
(* yet cancelled.                                                          *)
MapHoldsSubscribed ==
  \A s \in Subs : s \in registered <=> pc[s] \in {"subscribed", "following"}

LEMMA StepMapHoldsSubscribed ==
  TypeOK /\ MapHoldsSubscribed /\ [Next]_vars => MapHoldsSubscribed'
<1> SUFFICES ASSUME TypeOK, MapHoldsSubscribed, [Next]_vars PROVE MapHoldsSubscribed'
  OBVIOUS
<1> USE DEF MapHoldsSubscribed, TypeOK
<1>1. CASE UNCHANGED <<registered, pc>>
  BY <1>1
<1>2. ASSUME NEW s \in Subs, Subscribe(s) \/ Load(s) \/ Receive(s) \/ Detach(s) \/ Close(s)
      PROVE  MapHoldsSubscribed'
  BY <1>2 DEF Subscribe, Load, Receive, Detach, Close
<1>3. ASSUME NEW a \in Actors, Write(a) \/ Broadcast(a) \/ SendRemove(a) \/ SendLast(a)
      PROVE  UNCHANGED <<registered, pc>>
  BY <1>3 DEF Write, Upsert, UpsertRemote, Update, SetTerminalSize, Remove, RemoveByPeer,
              Put, Delete, Broadcast, SendRemove, SendLast, Send, subVars
<1>4. CASE UNCHANGED vars
  BY <1>4 DEF vars
<1>5. QED
  BY <1>1, <1>2, <1>3, <1>4 DEF Next

(* No broadcast ever meets a closed channel.                               *)
THEOREM NeverSendsOnClosed == Spec => []NoSendOnClosed
<1>1. Init => MapHoldsSubscribed
  BY DEF Init, MapHoldsSubscribed
<1>2. Spec => []MapHoldsSubscribed
  BY <1>1, StoreTypes, StepMapHoldsSubscribed, PTL DEF Spec
<1>3. TypeOK /\ MapHoldsSubscribed => NoSendOnClosed
  BY DEF TypeOK, MapHoldsSubscribed, NoSendOnClosed
<1>4. QED
  BY <1>2, <1>3, StoreTypes, PTL

-----------------------------------------------------------------------------
(* Convergence.  An event that tells of a record, and the writers that     *)
(* still owe one.                                                          *)
Tells(e, id) == e.id = id /\ e.type # "session-activity"
Owes(a, id) == id \in owed[a].removes \/ \E e \in owed[a].last : Tells(e, id)
Silent(s, id) == \A i \in DOMAIN chan[s] : ~Tells(chan[s][i], id)

SoleWriter == \A a, b \in Actors : a = b

(* What the one writer owes is what the store holds...                     *)
OwedIsTrue ==
  \A a \in Actors :
    /\ \A id \in owed[a].removes : sessions[id] = Absent
    /\ \A id \in Ids : \A e \in owed[a].last : Tells(e, id) => e.session = sessions[id]

(* ...channels fill only once they are in the map...                       *)
NewIsEmpty == \A s \in Subs : pc[s] \in {"new", "loaded"} => chan[s] = <<>>

(* ...and the last word on a record is on its way, or has been heard.      *)
LastWord(s, id) ==
  \/ \E a \in Actors : Owes(a, id)
  \/ \E i \in DOMAIN chan[s] :
       /\ Tells(chan[s][i], id)
       /\ chan[s][i].session = sessions[id]
       /\ \A j \in DOMAIN chan[s] : j > i => ~Tells(chan[s][j], id)
  \/ Silent(s, id) /\ (pc[s] = "following" => mirror[s][id] = sessions[id])

LastWordIsTrue ==
  \A s \in Subs \ (ListFirst \cup dropped) :
    pc[s] \in {"subscribed", "following"} => \A id \in Ids : LastWord(s, id)

MirrorInv == TypeOK /\ MapHoldsSubscribed /\ OwedIsTrue /\ NewIsEmpty /\ LastWordIsTrue

(* A write leaves nothing unsaid: what it changed, its writer owes.        *)
LEMMA WriteOwes ==
  ASSUME SoleWriter, MirrorInv, NEW a \in Actors, Write(a)
  PROVE  /\ OwedIsTrue'
         /\ UNCHANGED subVars
         /\ \/ UNCHANGED <<sessions, owed>>
            \/ /\ Idle(a)
               /\ \A id \in Ids : sessions'[id] = sessions[id] \/ Owes(a, id)'
<1> USE DEF MirrorInv
<1>1. UNCHANGED subVars /\ (Idle(a) \/ UNCHANGED <<sessions, owed>>)
  BY DEF Write, Upsert, UpsertRemote, Update, SetTerminalSize, Remove, RemoveByPeer,
         Put, Delete
<1>2. CASE UNCHANGED <<sessions, owed>>
  BY <1>1, <1>2 DEF OwedIsTrue
<1>3. ASSUME Idle(a), NEW w \in Ids, NEW stored \in Session, NEW gone \in SUBSET Ids,
             Written(w, stored, gone),
             owed' = [owed EXCEPT ![a] = [removes |-> gone, last |-> {Upserted(w, stored)}]]
      PROVE  OwedIsTrue' /\ \A id \in Ids : sessions'[id] = sessions[id] \/ Owes(a, id)'
  <2>1. owed'[a] = [removes |-> gone, last |-> {Upserted(w, stored)}]
    BY <1>3 DEF TypeOK
  <2>2. \A id \in Ids : sessions'[id] = sessions[id] \/ Owes(a, id)'
    <3>1. Upserted(w, stored) \in owed'[a].last /\ Tells(Upserted(w, stored), w)
      BY <2>1 DEF Tells, Upserted
    <3>2. Owes(a, w)'
      BY <3>1 DEF Owes
    <3>3. \A id \in gone : Owes(a, id)'
      BY <2>1 DEF Owes
    <3>4. QED
      BY <1>3, <3>2, <3>3 DEF Written
  <2>3. \A id \in gone : sessions'[id] = Absent
    BY <1>3 DEF Written
  <2>4. sessions'[w] = stored
    BY <1>3 DEF Written
  <2>5. QED
    BY <2>1, <2>2, <2>3, <2>4 DEF OwedIsTrue, SoleWriter, Tells, Upserted
<1>4. ASSUME Idle(a), NEW gone \in SUBSET Ids,
             sessions' = [o \in Ids |-> IF o \in gone THEN Absent ELSE sessions[o]],
             owed' = [owed EXCEPT ![a] = [removes |-> gone, last |-> {}]]
      PROVE  OwedIsTrue' /\ \A id \in Ids : sessions'[id] = sessions[id] \/ Owes(a, id)'
  <2>1. owed'[a] = [removes |-> gone, last |-> {}]
    BY <1>4 DEF TypeOK
  <2>2. QED
    BY <1>4, <2>1 DEF OwedIsTrue, SoleWriter, Owes
<1>5. QED
  BY <1>1, <1>2, <1>3, <1>4, WriteWrites

(* Sending one of the writer's events keeps the last word true.            *)
LEMMA SendKeepsLastWord ==
  ASSUME MirrorInv, NEW e \in Event, Send(e), NEW a \in Actors,
         \A id \in Ids : Tells(e, id) => e.session = sessions[id],
         \A id \in Ids : Owes(a, id) => Tells(e, id) \/ Owes(a, id)',
         \A b \in Actors \ {a} : owed'[b] = owed[b]
  PROVE  LastWordIsTrue' /\ NewIsEmpty' /\ UNCHANGED sessions
<1> USE DEF MirrorInv
<1>1. SUFFICES ASSUME NEW s \in Subs \ (ListFirst \cup dropped'),
                      pc'[s] \in {"subscribed", "following"}, NEW id \in Ids
               PROVE  LastWord(s, id)'
  BY DEF LastWordIsTrue, NewIsEmpty, Send, MapHoldsSubscribed, TypeOK
<1>2. s \in registered /\ s \notin dropped /\ LastWord(s, id)
  BY <1>1 DEF Send, MapHoldsSubscribed, LastWordIsTrue
<1>3. chan[s] \in Seq(Event)
  BY DEF TypeOK
<1>4. chan'[s] = Append(chan[s], e)
  BY <1>1, <1>2, <1>3, StoreAssumption DEF Send, TypeOK
<1>5. /\ Len(chan[s]) + 1 \in DOMAIN chan'[s]
      /\ chan'[s][Len(chan[s]) + 1] = e
      /\ \A i \in DOMAIN chan'[s] : i \in DOMAIN chan[s] \/ i = Len(chan[s]) + 1
      /\ \A i \in DOMAIN chan[s] : i \in DOMAIN chan'[s] /\ chan'[s][i] = chan[s][i]
      /\ \A i \in DOMAIN chan'[s] : i <= Len(chan[s]) + 1
      /\ DOMAIN chan'[s] \subseteq Nat
  BY <1>3, <1>4
<1>6. CASE Tells(e, id)
  BY <1>5, <1>6 DEF LastWord, Send
<1>7. CASE ~Tells(e, id)
  <2>1. CASE \E b \in Actors : Owes(b, id)
    <3>1. PICK b \in Actors : Owes(b, id)
      BY <2>1
    <3>2. Owes(b, id)'
      BY <1>7, <3>1 DEF Owes
    <3>3. QED
      BY <3>2 DEF LastWord
  <2>2. CASE \E i \in DOMAIN chan[s] :
               /\ Tells(chan[s][i], id)
               /\ chan[s][i].session = sessions[id]
               /\ \A j \in DOMAIN chan[s] : j > i => ~Tells(chan[s][j], id)
    BY <1>5, <1>7, <2>2 DEF LastWord, Send
  <2>3. CASE Silent(s, id) /\ (pc[s] = "following" => mirror[s][id] = sessions[id])
    BY <1>5, <1>7, <2>3 DEF LastWord, Silent, Send
  <2>4. QED
    BY <1>2, <2>1, <2>2, <2>3 DEF LastWord
<1>8. QED
  BY <1>6, <1>7

LEMMA StepMirror == SoleWriter /\ MirrorInv /\ [Next]_vars => MirrorInv'
<1> SUFFICES ASSUME SoleWriter, MirrorInv, [Next]_vars
             PROVE  OwedIsTrue' /\ NewIsEmpty' /\ LastWordIsTrue'
  BY StepType, StepMapHoldsSubscribed DEF MirrorInv
<1> USE DEF MirrorInv
<1>1. ASSUME NEW a \in Actors, Write(a) PROVE OwedIsTrue' /\ NewIsEmpty' /\ LastWordIsTrue'
  <2>1. NewIsEmpty'
    BY <1>1, WriteOwes DEF subVars, NewIsEmpty
  <2>2. CASE UNCHANGED <<sessions, owed>>
    BY <1>1, <2>1, <2>2, WriteOwes DEF subVars, LastWordIsTrue, LastWord, Owes, Silent
  <2>3. CASE Idle(a) /\ \A id \in Ids : sessions'[id] = sessions[id] \/ Owes(a, id)'
    <3>1. \A b \in Actors, id \in Ids : ~Owes(b, id)
      BY <2>3 DEF SoleWriter, Idle, Nothing, Owes
    <3>2. LastWordIsTrue'
      BY <1>1, <2>3, <3>1, WriteOwes DEF subVars, LastWordIsTrue, LastWord, Silent
    <3>3. QED
      BY <1>1, <2>1, <3>2, WriteOwes
  <2>4. QED
    BY <1>1, <2>2, <2>3, WriteOwes
<1>2. ASSUME NEW a \in Actors, Broadcast(a) PROVE OwedIsTrue' /\ NewIsEmpty' /\ LastWordIsTrue'
  <2>1. PICK i \in Ids :
          /\ Idle(a)
          /\ owed' = [owed EXCEPT ![a] = [removes |-> {},
               last |-> {[type |-> "session-activity", id |-> i, session |-> Absent]}]]
          /\ UNCHANGED <<sessions, subVars>>
    BY <1>2 DEF Broadcast
  <2>2. \A b \in Actors, id \in Ids : ~Owes(b, id)
    BY <2>1 DEF SoleWriter, Idle, Nothing, Owes
  <2>3. owed'[a] = [removes |-> {},
               last |-> {[type |-> "session-activity", id |-> i, session |-> Absent]}]
    BY <2>1 DEF TypeOK
  <2>4. OwedIsTrue'
    BY <2>1, <2>3 DEF OwedIsTrue, SoleWriter, Tells
  <2>5. QED
    BY <2>1, <2>2, <2>4 DEF subVars, NewIsEmpty, LastWordIsTrue, LastWord, Silent
<1>3. ASSUME NEW a \in Actors, SendRemove(a) PROVE OwedIsTrue' /\ NewIsEmpty' /\ LastWordIsTrue'
  <2>1. PICK i \in owed[a].removes :
          /\ Send([type |-> "session-remove", id |-> i, session |-> Absent])
          /\ owed' = [owed EXCEPT ![a].removes = @ \ {i}]
    BY <1>3 DEF SendRemove
  <2> DEFINE e == [type |-> "session-remove", id |-> i, session |-> Absent]
  <2>2. e \in Event
    BY DEF TypeOK, Owed, Event
  <2>3. /\ owed'[a].removes = owed[a].removes \ {i}
        /\ owed'[a].last = owed[a].last
        /\ \A b \in Actors \ {a} : owed'[b] = owed[b]
    BY <2>1 DEF TypeOK, Owed
  <2>4. \A id \in Ids : Tells(e, id) => e.session = sessions[id]
    BY DEF Tells, OwedIsTrue
  <2>5. \A id \in Ids : Owes(a, id) => Tells(e, id) \/ Owes(a, id)'
    BY <2>3 DEF Tells, Owes
  <2> HIDE DEF e
  <2>6. LastWordIsTrue' /\ NewIsEmpty' /\ UNCHANGED sessions
    BY <2>1, <2>2, <2>3, <2>4, <2>5, SendKeepsLastWord DEF e
  <2>7. QED
    BY <2>3, <2>6 DEF OwedIsTrue
<1>4. ASSUME NEW a \in Actors, SendLast(a) PROVE OwedIsTrue' /\ NewIsEmpty' /\ LastWordIsTrue'
  <2>1. PICK e \in owed[a].last :
          /\ owed[a].removes = {}
          /\ Send(e)
          /\ owed' = [owed EXCEPT ![a].last = @ \ {e}]
    BY <1>4 DEF SendLast
  <2>2. e \in Event
    BY DEF TypeOK, Owed
  <2>3. /\ owed'[a].removes = owed[a].removes
        /\ owed'[a].last = owed[a].last \ {e}
        /\ \A b \in Actors \ {a} : owed'[b] = owed[b]
    BY <2>1 DEF TypeOK, Owed
  <2>4. \A id \in Ids : Tells(e, id) => e.session = sessions[id]
    BY DEF OwedIsTrue
  <2>5. \A id \in Ids : Owes(a, id) => Tells(e, id) \/ Owes(a, id)'
    BY <2>3 DEF Owes
  <2>6. LastWordIsTrue' /\ NewIsEmpty' /\ UNCHANGED sessions
    BY <2>1, <2>2, <2>3, <2>4, <2>5, SendKeepsLastWord
  <2>7. QED
    BY <2>3, <2>6 DEF OwedIsTrue
<1>5. ASSUME NEW s \in Subs, Receive(s) PROVE OwedIsTrue' /\ NewIsEmpty' /\ LastWordIsTrue'
  <2>1. OwedIsTrue' /\ NewIsEmpty'
    BY <1>5 DEF Receive, OwedIsTrue, NewIsEmpty, TypeOK
  <2>2. ASSUME NEW t \in Subs \ (ListFirst \cup dropped'),
               pc'[t] \in {"subscribed", "following"}, NEW id \in Ids
        PROVE  LastWord(t, id)'
    <3>1. LastWord(t, id)
      BY <1>5, <2>2 DEF Receive, LastWordIsTrue
    <3>2. CASE t # s
      BY <1>5, <3>1, <3>2 DEF Receive, LastWord, Silent, Owes, TypeOK
    <3>3. CASE t = s
      <4> DEFINE h == Head(chan[s])
      <4>1. /\ chan[s] \in Seq(Event)
            /\ chan[s] # <<>>
            /\ chan'[s] = Tail(chan[s])
            /\ UNCHANGED <<sessions, owed, pc>>
        BY <1>5 DEF Receive, TypeOK
      <4>2. /\ 1 \in DOMAIN chan[s] /\ chan[s][1] = h
            /\ \A i \in DOMAIN chan'[s] : i + 1 \in DOMAIN chan[s] /\ chan'[s][i] = chan[s][i + 1]
            /\ \A i \in DOMAIN chan[s] :
                 i = 1 \/ (i - 1 \in DOMAIN chan'[s] /\ chan'[s][i - 1] = chan[s][i])
            /\ DOMAIN chan[s] \subseteq Nat /\ DOMAIN chan'[s] \subseteq Nat \ {0}
        BY <4>1
      <4>3. h \in Event
        BY <4>1
      <4>4. mirror'[s][id] = IF Tells(h, id) THEN h.session ELSE mirror[s][id]
        BY <1>5, <4>3 DEF Receive, TypeOK, Told, Tells
      <4> HIDE DEF h
      <4>5. CASE \E a \in Actors : Owes(a, id)
        BY <4>1, <4>5, <3>3 DEF LastWord, Owes
      <4>6. ASSUME NEW i \in DOMAIN chan[s],
                   Tells(chan[s][i], id),
                   chan[s][i].session = sessions[id],
                   \A j \in DOMAIN chan[s] : j > i => ~Tells(chan[s][j], id)
            PROVE  LastWord(s, id)'
        <5>1. CASE i = 1
          <6>1. Silent(s, id)'
            BY <4>2, <4>6, <5>1 DEF Silent
          <6>2. mirror'[s][id] = sessions'[id]
            BY <4>1, <4>2, <4>4, <4>6, <5>1
          <6>3. QED
            BY <6>1, <6>2 DEF LastWord
        <5>2. CASE i # 1
          <6>1. i - 1 \in DOMAIN chan'[s] /\ chan'[s][i - 1] = chan[s][i]
            BY <4>2, <5>2
          <6>2. \A j \in DOMAIN chan'[s] : j > i - 1 => ~Tells(chan'[s][j], id)
            BY <4>2, <4>6
          <6>3. QED
            BY <4>1, <4>6, <6>1, <6>2 DEF LastWord
        <5>3. QED
          BY <5>1, <5>2
      <4>7. CASE Silent(s, id) /\ (pc[s] = "following" => mirror[s][id] = sessions[id])
        <5>1. Silent(s, id)' /\ ~Tells(h, id)
          BY <4>2, <4>7 DEF Silent
        <5>2. pc'[s] = "following" => mirror'[s][id] = sessions'[id]
          BY <4>1, <4>4, <4>7, <5>1, Zenon
        <5>3. QED
          BY <3>3, <5>1, <5>2 DEF LastWord
      <4>8. QED
        BY <3>1, <3>3, <4>5, <4>6, <4>7 DEF LastWord
    <3>4. QED
      BY <3>2, <3>3
  <2>3. QED
    BY <2>1, <2>2 DEF LastWordIsTrue
<1>6. ASSUME NEW s \in Subs, Subscribe(s) \/ Load(s) \/ Detach(s) \/ Close(s)
      PROVE  OwedIsTrue' /\ NewIsEmpty' /\ LastWordIsTrue'
  <2>1. OwedIsTrue' /\ NewIsEmpty'
    BY <1>6 DEF Subscribe, Load, Detach, Close, OwedIsTrue, NewIsEmpty, TypeOK
  <2>2. ASSUME NEW t \in Subs \ (ListFirst \cup dropped'),
               pc'[t] \in {"subscribed", "following"}, NEW id \in Ids
        PROVE  LastWord(t, id)'
    <3>1. UNCHANGED <<sessions, owed, chan, dropped>>
      BY <1>6 DEF Subscribe, Load, Detach, Close
    <3>2. (\E a \in Actors : Owes(a, id)) => LastWord(t, id)'
      BY <3>1 DEF LastWord, Owes
    <3>3. CASE pc'[t] = pc[t] /\ mirror'[t] = mirror[t]
      <4>1. LastWord(t, id)
        BY <2>2, <3>1, <3>3 DEF LastWordIsTrue
      <4>2. QED
        BY <3>1, <3>2, <3>3, <4>1 DEF LastWord, Silent
    <3>4. CASE Subscribe(s) /\ t = s
      <4>1. pc[s] = "new" /\ pc'[s] = "subscribed"
        BY <2>2, <3>4 DEF Subscribe, TypeOK
      <4>2. Silent(s, id)'
        BY <3>1, <4>1 DEF NewIsEmpty, Silent
      <4>3. QED
        BY <3>4, <4>1, <4>2 DEF LastWord
    <3>5. CASE Load(s) /\ t = s
      <4>1. pc[s] = "subscribed" /\ mirror'[s][id] = sessions[id]
        BY <2>2, <3>5 DEF Load, TypeOK
      <4>2. LastWord(s, id)
        BY <2>2, <3>1, <3>5, <4>1 DEF LastWordIsTrue
      <4>3. QED
        BY <3>1, <3>2, <3>5, <4>1, <4>2 DEF LastWord, Silent
    <3>6. CASE (Detach(s) \/ Close(s)) /\ t = s
      BY <2>2, <3>6 DEF Detach, Close, TypeOK
    <3>7. CASE t # s
      BY <1>6, <3>3, <3>7 DEF Subscribe, Load, Detach, Close, TypeOK
    <3>8. QED
      BY <1>6, <3>4, <3>5, <3>6, <3>7
  <2>3. QED
    BY <2>1, <2>2 DEF LastWordIsTrue
<1>7. CASE UNCHANGED vars
  BY <1>7 DEF vars, OwedIsTrue, NewIsEmpty, LastWordIsTrue, LastWord, Owes, Silent
<1>8. QED
  BY <1>1, <1>2, <1>3, <1>4, <1>5, <1>6, <1>7 DEF Next

(* As long as broadcasts do not overlap, a subscriber that has lost no     *)
(* event and has heard them all holds the store: MirrorAgrees, for any     *)
(* number of sessions and subscribers and any channel capacity.            *)
THEOREM MirrorsConverge == ASSUME SoleWriter PROVE Spec => []MirrorAgrees
<1>1. Init => MirrorInv
  BY InitType, StoreAssumption
     DEF Init, MirrorInv, MapHoldsSubscribed, OwedIsTrue, NewIsEmpty, LastWordIsTrue, Nothing
<1>2. MirrorInv /\ [Next]_vars => MirrorInv'
  BY StepMirror
<1>3. MirrorInv => MirrorAgrees
  <2> SUFFICES ASSUME MirrorInv, NEW s \in Subs \ (ListFirst \cup dropped),
                      pc[s] = "following", Quiet(s)
               PROVE  mirror[s] = sessions
    BY DEF MirrorAgrees
  <2>1. \A id \in Ids : mirror[s][id] = sessions[id]
    BY DEF MirrorInv, LastWordIsTrue, LastWord, Quiet, Idle, Nothing, Owes
  <2>2. QED
    BY <2>1 DEF MirrorInv, TypeOK
<1>4. QED
  BY <1>1, <1>2, <1>3, PTL DEF Spec

-----------------------------------------------------------------------------
(* The files                                                               *)

(* A step of a writer leaves a list of steps.                              *)
LEMMA DoneTyped ==
  ASSUME todo \in [Writers -> Seq(Tasks)], NEW w \in Writers, NEW t \in Tasks,
         Task(w, t), Done(w)
  PROVE  todo' \in [Writers -> Seq(Tasks)]
<1>1. todo[w] \in Seq(Tasks) /\ todo[w] # <<>>
  BY DEF Task
<1>2. Tail(todo[w]) \in Seq(Tasks)
  BY <1>1
<1> QED BY <1>2 DEF Done

(* Facts about the steps that writers hold.                                *)
LEMMA HandlersWrite == \A h \in Handlers : h \in Writers
BY DEF Writers

(* The store's write keeps the types, whatever steps the handler takes     *)
(* after it.                                                               *)
LEMMA PutTyped ==
  ASSUME MetaTypeOK, NEW h \in Handlers, NEW r \in Records, NEW steps \in Seq(Tasks),
         PutRecord(h, r, steps), exitEvent' \in BOOLEAN
  PROVE  MetaTypeOK'
<1>1. h \in Writers
  BY HandlersWrite
<1>2. todo' \in [Writers -> Seq(Tasks)]
  BY <1>1 DEF PutRecord, MetaTypeOK
<1>3. val' \in [Writers -> Records]
  BY <1>1 DEF PutRecord, MetaTypeOK
<1>4. unordered' \in BOOLEAN
  BY Zenon DEF PutRecord, MetaTypeOK
<1> QED BY <1>2, <1>3, <1>4 DEF PutRecord, MetaTypeOK, diskVars

(* The lists of steps that handlers and the persister are given.           *)
LEMMA StepsTyped ==
  /\ <<>> \in Seq(Tasks)
  /\ \A t, u \in Tasks : <<t>> \in Seq(Tasks) /\ <<t, u>> \in Seq(Tasks)
OBVIOUS

(* Register, alone or as the first scan takes it.                          *)
LEMMA RegisterThenTyped ==
  ASSUME MetaTypeOK, NEW h \in Handlers, NEW rest \in Seq(Tasks), RegisterThen(h, rest)
  PROVE  MetaTypeOK'
<1>1. <<"tell">> \o rest \in Seq(Tasks) /\ <<"tell", "write">> \o rest \in Seq(Tasks)
  BY StepsTyped, ConcatProperties DEF Tasks
<1>2. exitEvent' \in BOOLEAN
  BY DEF RegisterThen, MetaTypeOK
<1>3. {"live", "exited"} \subseteq Records
  BY DEF Records
<1> QED BY <1>1, <1>2, <1>3, PutTyped DEF RegisterThen

(* The steps on files.                                                     *)
LEMMA FileStepTyped ==
  ASSUME MetaTypeOK, NEW w \in Writers, FileStep(w)
  PROVE  MetaTypeOK'
<1>1. CASE MakeDir(w)
  <2>1. todo[w] \in Seq(Tasks) /\ todo[w] # <<>>
    BY <1>1 DEF MakeDir, Task, MetaTypeOK
  <2>2. <<"temp", "rename">> \o Tail(todo[w]) \in Seq(Tasks)
    BY <2>1, StepsTyped, ConcatProperties DEF Tasks
  <2>3. todo' \in [Writers -> Seq(Tasks)]
    BY <1>1, <2>2 DEF MakeDir, MetaTypeOK
  <2> QED BY <1>1, <2>3 DEF MakeDir, MetaTypeOK, runnerVars
<1>2. CASE MakeTemp(w)
  <2>1. todo' \in [Writers -> Seq(Tasks)]
    BY <1>2, DoneTyped DEF MakeTemp, MetaTypeOK, Tasks
  <2> QED BY <1>2, <2>1 DEF MakeTemp, MetaTypeOK, runnerVars
<1>3. CASE Rename(w)
  <2>1. todo' \in [Writers -> Seq(Tasks)]
    BY <1>3, DoneTyped DEF Rename, MetaTypeOK, Tasks
  <2> QED BY <1>3, <2>1 DEF Rename, MetaTypeOK, runnerVars
<1>4. CASE RemoveFiles(w)
  <2>1. todo' \in [Writers -> Seq(Tasks)]
    BY <1>4, DoneTyped DEF RemoveFiles, MetaTypeOK, Tasks
  <2> QED BY <1>4, <2>1 DEF RemoveFiles, RemoveAll, MetaTypeOK, runnerVars, Records
<1> QED BY <1>1, <1>2, <1>3, <1>4 DEF FileStep

(* The persister.                                                          *)
LEMMA PersisterTyped ==
  ASSUME MetaTypeOK, HandleEvent \/ Flush
  PROVE  MetaTypeOK'
<1>1. Persister \in Writers
  BY DEF Writers
<1>2. CASE HandleEvent
  <2>1. persistQ \in Seq(Records) /\ persistQ # <<>>
    BY <1>2 DEF HandleEvent, MetaTypeOK
  <2>2. Head(persistQ) \in Records /\ Tail(persistQ) \in Seq(Records) /\ Len(Tail(persistQ)) = Len(persistQ) - 1
    BY <2>1, HeadTailProperties
  <2>3. todo' \in [Writers -> Seq(Tasks)]
    BY <1>1, <1>2, StepsTyped DEF HandleEvent, MetaTypeOK, Tasks
  <2> QED
    BY <1>2, <2>1, <2>2, <2>3, LenProperties, MetaAssumption
    DEF HandleEvent, MetaTypeOK, runnerVars, diskVars
<1>3. CASE Flush
  <2>1. todo' \in [Writers -> Seq(Tasks)]
    BY <1>1, <1>3, StepsTyped DEF Flush, MetaTypeOK, Tasks
  <2>2. val' \in [Writers -> Records] /\ pending' \in Records
    BY <1>1, <1>3 DEF Flush, MetaTypeOK, Records
  <2> QED BY <1>3, <2>1, <2>2 DEF Flush, MetaTypeOK, runnerVars, diskVars
<1> QED BY <1>2, <1>3

(* The handlers.                                                           *)
LEMMA HandlerTyped ==
  ASSUME MetaTypeOK, NEW h \in Handlers,
         \/ Register(h) \/ Exit(h) \/ MarkDead(h) \/ Dismiss(h) \/ Purge(h)
         \/ Tell(h) \/ PurgeRemove(h) \/ FirstScan(h) \/ Ready(h)
  PROVE  MetaTypeOK'
<1> USE HandlersWrite
<1>1. CASE Register(h)
  BY <1>1, StepsTyped, RegisterThenTyped DEF Register
<1>2. CASE Exit(h)
  <2>1. CASE PutRecord(h, "exited", <<"tell", "write">>)
    BY <1>2, <2>1, StepsTyped, PutTyped DEF Exit, Tasks, Records
  <2>2. CASE UNCHANGED <<up, rec, persistQ, pending, todo, val, diskVars, runner, runs, unordered,
                         crashes>>
    BY <1>2, <2>2 DEF Exit, MetaTypeOK, diskVars
  <2> QED BY <1>2, <2>1, <2>2 DEF Exit
<1>3. CASE MarkDead(h)
  BY <1>3, StepsTyped, PutTyped DEF MarkDead, Tasks, Records, MetaTypeOK
<1>4. CASE Dismiss(h)
  BY <1>4, StepsTyped, PutTyped DEF Dismiss, Tasks, Records, MetaTypeOK
<1>5. CASE Purge(h)
  <2>1. todo' \in [Writers -> Seq(Tasks)]
    BY <1>5, StepsTyped DEF Purge, MetaTypeOK, Tasks
  <2> QED BY <1>5, <2>1 DEF Purge, MetaTypeOK, runnerVars, diskVars
<1>6. CASE Tell(h)
  <2>1. todo' \in [Writers -> Seq(Tasks)]
    BY <1>6, DoneTyped DEF Tell, MetaTypeOK, Tasks
  <2>2. persistQ' \in Seq(Records) /\ Len(persistQ') <= PersistCap /\ unordered' \in BOOLEAN
    <3>1. CASE Len(persistQ) < PersistCap
      <4>1. persistQ' = Append(persistQ, val[h]) /\ unordered' = unordered
        BY <1>6, <3>1 DEF Tell
      <4>2. val[h] \in Records
        BY DEF MetaTypeOK
      <4>3. Append(persistQ, val[h]) \in Seq(Records) /\ Len(Append(persistQ, val[h])) = Len(persistQ) + 1
        BY <4>2, AppendProperties DEF MetaTypeOK
      <4> QED BY <3>1, <4>1, <4>3, LenProperties, MetaAssumption DEF MetaTypeOK
    <3>2. CASE ~(Len(persistQ) < PersistCap)
      BY <1>6, <3>2 DEF Tell, MetaTypeOK
    <3> QED BY <3>1, <3>2
  <2> QED BY <1>6, <2>1, <2>2 DEF Tell, MetaTypeOK, runnerVars, diskVars
<1>7. CASE PurgeRemove(h)
  <2>1. (IF rec = "none" THEN <<>> ELSE <<"tell">>) \in Seq(Tasks)
    BY StepsTyped DEF Tasks
  <2> QED BY <1>7, <2>1, PutTyped DEF PurgeRemove, Records, MetaTypeOK
<1>8. CASE FirstScan(h)
  <2>1. CASE RegisterThen(h, <<"ready">>)
    BY <2>1, StepsTyped, RegisterThenTyped DEF Tasks
  <2>2. CASE /\ todo' = [todo EXCEPT ![h] = <<"ready">>]
             /\ UNCHANGED <<up, rec, persistQ, pending, val, diskVars, runnerVars, unordered, crashes>>
    <3>1. todo' \in [Writers -> Seq(Tasks)]
      BY <2>2, StepsTyped DEF MetaTypeOK, Tasks
    <3> QED BY <2>2, <3>1 DEF MetaTypeOK, runnerVars, diskVars
  <2> QED BY <1>8, <2>1, <2>2 DEF FirstScan
<1>9. CASE Ready(h)
  <2>1. todo' \in [Writers -> Seq(Tasks)]
    BY <1>9, DoneTyped DEF Ready, MetaTypeOK, Tasks
  <2> QED BY <1>9, <2>1 DEF Ready, MetaTypeOK, runnerVars, diskVars
<1> QED BY <1>1, <1>2, <1>3, <1>4, <1>5, <1>6, <1>7, <1>8, <1>9

(* jumpd's start and end, and the runner.                                  *)
LEMMA ProcessTyped ==
  ASSUME MetaTypeOK,
         \/ Start \/ Sweep \/ Crash
         \/ RunnerStarts \/ ChildExits \/ RunnerGone \/ RunnerCrashes
  PROVE  MetaTypeOK'
<1>1. CASE Start
  BY <1>1 DEF Start, MetaTypeOK, runnerVars, diskVars
<1>2. CASE Sweep
  BY <1>2 DEF Sweep, RemoveAll, Restored, Records, MetaTypeOK, runnerVars, diskVars
<1>3. CASE Crash
  <2>1. /\ todo' \in [Writers -> Seq(Tasks)]
        /\ val' \in [Writers -> Records]
        /\ persistQ' \in Seq(Records) /\ Len(persistQ') <= PersistCap
    BY <1>3, StepsTyped, MetaAssumption DEF Crash, Records
  <2>2. crashes' \in 0..MaxCrashes
    BY <1>3, MetaAssumption DEF Crash, MetaTypeOK
  <2> QED BY <1>3, <2>1, <2>2 DEF Crash, MetaTypeOK, Records
<1>4. CASE RunnerStarts
  <2>1. runs' \in 0..MaxRuns
    BY <1>4, MetaAssumption DEF RunnerStarts, MetaTypeOK
  <2> QED BY <1>4, <2>1 DEF RunnerStarts, MetaTypeOK, jumpdVars
<1>5. CASE ChildExits
  BY <1>5 DEF ChildExits, MetaTypeOK, jumpdVars
<1>6. CASE RunnerGone
  BY <1>6 DEF RunnerGone, MetaTypeOK, jumpdVars
<1>7. CASE RunnerCrashes
  BY <1>7 DEF RunnerCrashes, MetaTypeOK, jumpdVars
<1> QED BY <1>1, <1>2, <1>3, <1>4, <1>5, <1>6, <1>7

(* The variables of the persistence model keep their types, the channel    *)
(* its capacity (WatchEvents, store.broadcast).                            *)
THEOREM MetaTypes == MetaSpec => []MetaTypeOK
<1>1. MetaInit => MetaTypeOK
  <2> SUFFICES ASSUME MetaInit PROVE MetaTypeOK
    OBVIOUS
  <2>1. persistQ \in Seq(Records) /\ Len(persistQ) <= PersistCap
    BY MetaAssumption DEF MetaInit
  <2>2. todo \in [Writers -> Seq(Tasks)] /\ val \in [Writers -> Records]
    BY StepsTyped DEF MetaInit, Records
  <2>3. runs \in 0..MaxRuns /\ crashes \in 0..MaxCrashes
    BY MetaAssumption DEF MetaInit
  <2> QED BY <2>1, <2>2, <2>3 DEF MetaInit, MetaTypeOK, Records
<1>2. MetaTypeOK /\ [MetaNext]_metaVars => MetaTypeOK'
  <2> SUFFICES ASSUME MetaTypeOK, [MetaNext]_metaVars PROVE MetaTypeOK'
    OBVIOUS
  <2>1. CASE MetaNext
    BY <2>1, HandlerTyped, FileStepTyped, PersisterTyped, ProcessTyped DEF MetaNext
  <2>2. CASE UNCHANGED metaVars
    BY <2>2 DEF metaVars, runnerVars, diskVars, MetaTypeOK
  <2> QED BY <2>1, <2>2
<1> QED BY <1>1, <1>2, PTL DEF MetaSpec

-----------------------------------------------------------------------------
(* Retention spares the runner that outlives jumpd.  The invariant says    *)
(* what the startup order achieves: once the first scan has looked, a live *)
(* first runner is not recorded as dead, so retention never lists it.      *)

Has(h, t) == \E i \in DOMAIN todo[h] : todo[h][i] = t

(* Until jumpd runs, its handlers have nothing to do.                      *)
Booting == up \in {"down", "sweeping"} => \A h \in Handlers : todo[h] = <<>>

(* Before the first runner there is no record to act on.                   *)
Fresh ==
  runs = 0 =>
    /\ runner = "idle"
    /\ rec = "none"
    /\ meta = "none"
    /\ pending = "none"
    /\ persistQ = <<>>
    /\ ~exitEvent
    /\ todo[Persister] = <<>>
    /\ \A h \in Handlers : todo[h] = <<>> \/ todo[h] = <<"ready">>

Scanned == up = "serving" \/ \E h \in Handlers : Has(h, "ready")

FirstIsAlive == runs = 1 /\ runner = "live" /\ Scanned => rec \notin {"exited", "lost"}

ExitIsTrue == runs = 1 /\ exitEvent => runner # "live"

ListedIsDead == runs = 1 /\ (\E h \in Handlers : Has(h, "remove")) => runner # "live"

RetentionInv == Booting /\ Fresh /\ FirstIsAlive /\ ExitIsTrue /\ ListedIsDead

(* Taking a step puts nothing on any list.                                 *)
LEMMA DoneShrinks ==
  ASSUME MetaTypeOK, NEW w \in Writers, todo[w] # <<>>, Done(w), NEW h \in Handlers, NEW t, Has(h, t)'
  PROVE  Has(h, t)
<1>1. CASE h = w
  <2>1. todo[w] \in Seq(Tasks)
    BY DEF MetaTypeOK
  <2>2. todo'[h] = Tail(todo[h])
    BY <1>1 DEF Done, MetaTypeOK
  <2>3. PICK i \in DOMAIN Tail(todo[h]) : Tail(todo[h])[i] = t
    BY <2>2 DEF Has
  <2>4. i \in 1..(Len(todo[h]) - 1) /\ Tail(todo[h])[i] = todo[h][i + 1]
    BY <1>1, <2>1, <2>3, HeadTailProperties, LenProperties
  <2>5. i + 1 \in DOMAIN todo[h] /\ todo[h][i + 1] = t
    BY <1>1, <2>1, <2>3, <2>4, LenProperties
  <2> QED BY <2>5 DEF Has
<1>2. CASE h # w
  <2>1. todo'[h] = todo[h]
    BY <1>2, HandlersWrite DEF Done, MetaTypeOK
  <2> QED BY <2>1 DEF Has
<1> QED BY <1>1, <1>2

(* Nor does a step on files, but for what a write consists of.             *)
LEMMA FileShrinks ==
  ASSUME MetaTypeOK, NEW w \in Writers, FileStep(w), NEW h \in Handlers, NEW t,
         t \notin {"temp", "rename"}, Has(h, t)'
  PROVE  Has(h, t)
<1>1. todo[w] # <<>>
  BY DEF FileStep, MakeDir, MakeTemp, Rename, RemoveFiles, Task
<1>2. CASE Done(w)
  BY <1>1, <1>2, DoneShrinks
<1>3. CASE MakeDir(w)
  <2>1. todo[w] \in Seq(Tasks)
    BY DEF MetaTypeOK
  <2>2. CASE h = w
    <3>1. todo'[h] = <<"temp", "rename">> \o Tail(todo[h])
      BY <1>3, <2>2, HandlersWrite DEF MakeDir, MetaTypeOK
    <3>2. Tail(todo[h]) \in Seq(Tasks) /\ Len(Tail(todo[h])) = Len(todo[h]) - 1
          /\ \A j \in 1..Len(Tail(todo[h])) : Tail(todo[h])[j] = todo[h][j + 1]
      BY <1>1, <2>1, <2>2, HeadTailProperties
    <3>3. PICK i \in DOMAIN todo'[h] : todo'[h][i] = t
      BY DEF Has
    <3>4. i \in 3..(Len(todo[h]) + 1) /\ Tail(todo[h])[i - 2] = t
      BY <3>1, <3>2, <3>3
    <3>5. i - 1 \in DOMAIN todo[h] /\ todo[h][i - 1] = t
      BY <2>1, <2>2, <3>2, <3>4, LenProperties
    <3> QED BY <3>5 DEF Has
  <2>3. CASE h # w
    <3>1. todo'[h] = todo[h]
      BY <1>3, <2>3, HandlersWrite DEF MakeDir, MetaTypeOK
    <3> QED BY <3>1 DEF Has
  <2> QED BY <2>2, <2>3
<1> QED BY <1>2, <1>3 DEF FileStep, MakeTemp, Rename, RemoveFiles

(* Steps that leave the record, the runner and jumpd's phase alone.        *)
LEMMA FrameSpares ==
  ASSUME RetentionInv, UNCHANGED <<up, rec, runner, exitEvent, runs>>, runs # 0, Booting',
         \A h \in Handlers, t \in {"ready", "remove"} : Has(h, t)' => Has(h, t)
  PROVE  RetentionInv'
BY Zenon DEF RetentionInv, Fresh, FirstIsAlive, ExitIsTrue, ListedIsDead, Scanned

(* A handler's list is emptied step by step, so what is on it was put      *)
(* there; a persister never has a handler's steps.                         *)
LEMMA FilesSpare ==
  ASSUME MetaTypeOK, RetentionInv, NEW w \in Writers, FileStep(w)
  PROVE  RetentionInv'
<1>1. todo[w] # <<>> /\ todo[w] # <<"ready">>
  BY DEF FileStep, MakeDir, MakeTemp, Rename, RemoveFiles, Task
<1>2. runs # 0
  BY <1>1 DEF RetentionInv, Fresh, Writers
<1>3. UNCHANGED <<up, rec, runner, exitEvent, runs>>
  BY DEF FileStep, MakeDir, MakeTemp, Rename, RemoveFiles, runnerVars
<1>4. \A h \in Handlers, t \in {"ready", "remove"} : Has(h, t)' => Has(h, t)
  BY FileShrinks
<1>5. Booting'
  <2> SUFFICES ASSUME up \in {"down", "sweeping"}, NEW h \in Handlers PROVE todo'[h] = <<>>
    BY <1>3 DEF Booting
  <2>1. todo[h] = <<>> /\ h # w
    BY <1>1 DEF RetentionInv, Booting
  <2>2. todo'[h] = todo[h]
    BY <2>1, HandlersWrite DEF FileStep, MakeDir, MakeTemp, Rename, RemoveFiles, Done, MetaTypeOK
  <2> QED BY <2>1, <2>2
<1> QED BY <1>2, <1>3, <1>4, <1>5, FrameSpares

(* The persister acts only once there has been a runner.                   *)
LEMMA PersisterSpares ==
  ASSUME MetaTypeOK, RetentionInv, HandleEvent \/ Flush
  PROVE  RetentionInv'
<1>1. runs # 0
  BY DEF HandleEvent, Flush, RetentionInv, Fresh
<1>2. UNCHANGED <<up, rec, runner, exitEvent, runs>>
  BY DEF HandleEvent, Flush, runnerVars
<1>3. \A h \in Handlers : todo'[h] = todo[h]
  BY MetaAssumption, HandlersWrite DEF HandleEvent, Flush, MetaTypeOK
<1>4. Booting'
  BY <1>2, <1>3 DEF RetentionInv, Booting
<1>5. \A h \in Handlers, t \in {"ready", "remove"} : Has(h, t)' => Has(h, t)
  BY <1>3 DEF Has
<1> QED BY <1>1, <1>2, <1>4, <1>5, FrameSpares

(* A write of the store by a running handler that had nothing left to do,  *)
(* or whose last step this is.                                             *)
LEMMA PutSpares ==
  ASSUME MetaTypeOK, RetentionInv, NEW h \in Handlers, NEW r, NEW steps, PutRecord(h, r, steps),
         up \notin {"down", "sweeping"}, runs # 0,
         runner = "live" /\ runs = 1 => r \notin {"exited", "lost"},
         exitEvent' => exitEvent,
         \A i \in DOMAIN steps : steps[i] # "remove"
  PROVE  RetentionInv'
<1>1. UNCHANGED <<up, runner, runs>> /\ rec' = r
  BY DEF PutRecord
<1>2. todo'[h] = steps /\ \A g \in Handlers \ {h} : todo'[g] = todo[g]
  BY HandlersWrite DEF PutRecord, MetaTypeOK
<1>3. \A g \in Handlers : Has(g, "remove")' => Has(g, "remove")
  BY <1>2 DEF Has
<1>4. Booting' /\ Fresh'
  BY <1>1 DEF Booting, Fresh
<1>5. FirstIsAlive'
  BY <1>1 DEF FirstIsAlive
<1>6. ExitIsTrue' /\ ListedIsDead'
  BY <1>1, <1>3, Zenon DEF RetentionInv, ExitIsTrue, ListedIsDead
<1> QED BY <1>4, <1>5, <1>6 DEF RetentionInv

(* A registration records a runner as it is.                               *)
LEMMA RegisterSpares ==
  ASSUME MetaTypeOK, RetentionInv, NEW h \in Handlers, NEW rest \in {<<>>, <<"ready">>},
         RegisterThen(h, rest), up \notin {"down", "sweeping"}, runs # 0
  PROVE  RetentionInv'
<1> DEFINE Harmless(steps) == \A i \in DOMAIN steps : steps[i] # "remove"
<1>1. ASSUME NEW before \in Seq(Tasks), Harmless(before) PROVE Harmless(before \o rest)
  <2>1. rest \in Seq(Tasks) /\ Harmless(rest)
    <3>1. CASE rest = <<>>
      BY <3>1
    <3>2. CASE rest = <<"ready">>
      <4>1. rest \in Seq(Tasks)
        BY <3>2, "ready" \in Tasks DEF Tasks
      <4> QED BY <3>2, <4>1
    <3> QED BY <3>1, <3>2
  <2>2. \A i \in 1..(Len(before) + Len(rest)) :
          (before \o rest)[i] = IF i <= Len(before) THEN before[i] ELSE rest[i - Len(before)]
    BY <2>1, ConcatProperties
  <2>3. DOMAIN (before \o rest) = 1..(Len(before) + Len(rest))
    BY <2>1, ConcatProperties, LenProperties
  <2>4. ASSUME NEW i \in DOMAIN (before \o rest) PROVE (before \o rest)[i] # "remove"
    <3>1. CASE i <= Len(before)
      BY <1>1, <2>2, <2>3, <3>1, LenProperties
    <3>2. CASE ~(i <= Len(before))
      BY <2>1, <2>2, <2>3, <3>2, LenProperties
    <3> QED BY <3>1, <3>2
  <2> QED BY <2>4
<1>2. /\ <<"tell">> \in Seq(Tasks) /\ Harmless(<<"tell">>)
      /\ <<"tell", "write">> \in Seq(Tasks) /\ Harmless(<<"tell", "write">>)
  BY StepsTyped DEF Tasks
<1>3. Harmless(<<"tell">> \o rest) /\ Harmless(<<"tell", "write">> \o rest)
  BY <1>1, <1>2
<1>4. CASE runner = "live" /\ PutRecord(h, "live", <<"tell">> \o rest)
  BY <1>4, <1>3, PutSpares DEF RegisterThen
<1>5. CASE runner # "live" /\ PutRecord(h, "exited", <<"tell", "write">> \o rest)
  BY <1>5, <1>3, PutSpares DEF RegisterThen
<1> QED BY <1>4, <1>5 DEF RegisterThen

(* The handlers of a running jumpd.                                        *)
LEMMA HandlersSpare ==
  ASSUME MetaTypeOK, RetentionInv, NEW h \in Handlers,
         \/ Register(h) \/ Exit(h) \/ MarkDead(h) \/ Dismiss(h) \/ Purge(h)
         \/ Tell(h) \/ PurgeRemove(h) \/ FirstScan(h) \/ Ready(h)
  PROVE  RetentionInv'
<1>1. CASE Register(h)
  <2>1. runs # 0
    BY <1>1 DEF Register, RegisterThen, Listening, RetentionInv, Fresh
  <2> QED BY <1>1, <2>1, RegisterSpares DEF Register, Running
<1>2. CASE Exit(h)
  <2>1. runs # 0
    BY <1>2 DEF Exit, RetentionInv, Fresh
  <2>2. CASE PutRecord(h, "exited", <<"tell", "write">>)
    <3>1. runs = 1 => runner # "live"
      BY <1>2 DEF Exit, RetentionInv, ExitIsTrue
    <3>2. ~exitEvent' /\ up \notin {"down", "sweeping"}
      BY <1>2 DEF Exit, Running
    <3> QED BY <2>1, <2>2, <3>1, <3>2, PutSpares
  <2>3. CASE UNCHANGED <<up, rec, persistQ, pending, todo, val, diskVars, runner, runs, unordered,
                         crashes>>
    <3>1. ~exitEvent'
      BY <1>2 DEF Exit
    <3>2. Booting' /\ Fresh' /\ FirstIsAlive'
      BY <2>1, <2>3 DEF RetentionInv, Booting, Fresh, FirstIsAlive, Scanned, Has
    <3>3. ExitIsTrue' /\ ListedIsDead'
      BY <2>3, <3>1 DEF RetentionInv, ExitIsTrue, ListedIsDead, Has
    <3> QED BY <3>2, <3>3 DEF RetentionInv
  <2> QED BY <1>2, <2>2, <2>3 DEF Exit
<1>3. CASE MarkDead(h)
  <2>1. runs # 0
    BY <1>3 DEF MarkDead, RetentionInv, Fresh
  <2>2. up \notin {"down", "sweeping"} /\ runner # "live" /\ PutRecord(h, "lost", <<"tell", "write">>)
        /\ UNCHANGED exitEvent
    BY <1>3 DEF MarkDead, Running
  <2> QED BY <2>1, <2>2, PutSpares
<1>4. CASE Dismiss(h)
  <2>1. runs # 0
    BY <1>4 DEF Dismiss, RetentionInv, Fresh
  <2>2. up \notin {"down", "sweeping"} /\ PutRecord(h, "none", <<"tell", "forget">>)
        /\ UNCHANGED exitEvent
    BY <1>4 DEF Dismiss, Running
  <2> QED BY <2>1, <2>2, PutSpares
<1>5. CASE Purge(h)
  <2>1. runs # 0 /\ (runs = 1 => runner # "live")
    BY <1>5 DEF Purge, RetentionInv, Fresh, FirstIsAlive, Scanned
  <2>2. UNCHANGED <<up, rec, runner, exitEvent, runs>> /\ up = "serving"
    BY <1>5 DEF Purge, runnerVars
  <2>3. Booting' /\ Fresh'
    BY <2>1, <2>2 DEF Booting, Fresh
  <2>4. FirstIsAlive' /\ ExitIsTrue' /\ ListedIsDead'
    BY <2>1, <2>2 DEF FirstIsAlive, ExitIsTrue, ListedIsDead
  <2> QED BY <2>3, <2>4 DEF RetentionInv
<1>6. CASE Tell(h)
  <2>1. todo[h] # <<>> /\ todo[h] # <<"ready">> /\ h \in Writers
    BY <1>6 DEF Tell, Task, Writers
  <2>2. runs # 0
    BY <2>1 DEF RetentionInv, Fresh
  <2>3. UNCHANGED <<up, rec, runner, exitEvent, runs>> /\ Done(h)
    BY <1>6 DEF Tell, runnerVars
  <2>4. \A g \in Handlers, t \in {"ready", "remove"} : Has(g, t)' => Has(g, t)
    BY <2>1, <2>3, DoneShrinks
  <2>5. Booting'
    BY <2>1, <2>3 DEF RetentionInv, Booting
  <2> QED BY <2>2, <2>3, <2>4, <2>5, FrameSpares
<1>7. CASE PurgeRemove(h)
  <2>1. todo[h] # <<>> /\ todo[h] # <<"ready">>
    BY <1>7 DEF PurgeRemove, Task
  <2>2. runs # 0 /\ up \notin {"down", "sweeping"}
    BY <2>1 DEF RetentionInv, Fresh, Booting
  <2>3. CASE PutRecord(h, "none", <<>>)
    BY <1>7, <2>2, <2>3, PutSpares DEF PurgeRemove
  <2>4. CASE PutRecord(h, "none", <<"tell">>)
    BY <1>7, <2>2, <2>4, PutSpares DEF PurgeRemove
  <2> QED BY <1>7, <2>3, <2>4 DEF PurgeRemove
<1>8. CASE FirstScan(h)
  <2>1. CASE RegisterThen(h, <<"ready">>)
    <3>1. runs # 0
      BY <2>1 DEF RegisterThen, Listening, RetentionInv, Fresh
    <3>2. up \notin {"down", "sweeping"}
      BY <1>8 DEF FirstScan
    <3> QED BY <2>1, <3>1, <3>2, RegisterSpares
  <2>2. CASE /\ ~Listening \/ rec = "live"
             /\ todo' = [todo EXCEPT ![h] = <<"ready">>]
             /\ UNCHANGED <<up, rec, persistQ, pending, val, diskVars, runnerVars, unordered, crashes>>
    <3>1. UNCHANGED <<up, rec, meta, pending, persistQ, runner, exitEvent, runs>> /\ up = "scanning"
      BY <1>8, <2>2 DEF FirstScan, runnerVars, diskVars
    <3>2. todo'[h] = <<"ready">> /\ \A w \in Writers \ {h} : todo'[w] = todo[w]
      BY <2>2, HandlersWrite DEF MetaTypeOK
    <3>3. Booting'
      BY <3>1 DEF Booting
    <3>4. Fresh'
      BY <3>1, <3>2, MetaAssumption DEF RetentionInv, Fresh, Writers
    <3>5. FirstIsAlive'
      BY <2>2, <3>1 DEF FirstIsAlive, Listening
    <3>6. \A g \in Handlers : Has(g, "remove")' => Has(g, "remove")
      BY <3>2, HandlersWrite DEF Has
    <3>7. ExitIsTrue' /\ ListedIsDead'
      BY <3>1, <3>6, Zenon DEF RetentionInv, ExitIsTrue, ListedIsDead
    <3> QED BY <3>3, <3>4, <3>5, <3>7 DEF RetentionInv
  <2> QED BY <1>8, <2>1, <2>2 DEF FirstScan
<1>9. CASE Ready(h)
  <2>1. todo[h] # <<>> /\ h \in Writers /\ Done(h) /\ up' = "serving"
        /\ UNCHANGED <<rec, meta, pending, persistQ, runner, exitEvent, runs>>
    BY <1>9 DEF Ready, Task, runnerVars, diskVars, Writers
  <2>2. Has(h, "ready")
    BY <1>9, HandlersWrite DEF Ready, Task, MetaTypeOK, Has
  <2>3. \A g \in Handlers : Has(g, "remove")' => Has(g, "remove")
    BY <2>1, DoneShrinks
  <2>4. Booting'
    BY <2>1 DEF Booting
  <2>5. Fresh'
    <3> SUFFICES ASSUME runs = 0 PROVE Fresh'
      BY <2>1 DEF Fresh
    <3>1. todo[h] = <<"ready">>
      BY <2>1 DEF RetentionInv, Fresh
    <3>2. todo'[h] = <<>> /\ \A w \in Writers \ {h} : todo'[w] = todo[w]
      BY <2>1, <3>1 DEF Done, MetaTypeOK
    <3> QED BY <2>1, <3>2, MetaAssumption DEF RetentionInv, Fresh, Writers
  <2>6. FirstIsAlive'
    BY <2>1, <2>2 DEF RetentionInv, FirstIsAlive, Scanned
  <2>7. ExitIsTrue' /\ ListedIsDead'
    BY <2>1, <2>3, Zenon DEF RetentionInv, ExitIsTrue, ListedIsDead
  <2> QED BY <2>4, <2>5, <2>6, <2>7 DEF RetentionInv
<1> QED BY <1>1, <1>2, <1>3, <1>4, <1>5, <1>6, <1>7, <1>8, <1>9

(* jumpd's start and end, and the runner.                                  *)
LEMMA ProcessSpares ==
  ASSUME MetaTypeOK, RetentionInv,
         \/ Start \/ Sweep \/ Crash
         \/ RunnerStarts \/ ChildExits \/ RunnerGone \/ RunnerCrashes
  PROVE  RetentionInv'
<1>1. CASE Start
  BY <1>1 DEF Start, runnerVars, diskVars, RetentionInv, Booting, Fresh, FirstIsAlive,
              ExitIsTrue, ListedIsDead, Scanned, Has
<1>2. CASE Sweep
  <2>1. \A h \in Handlers : todo'[h] = <<>>
    BY <1>2 DEF Sweep, RetentionInv, Booting
  <2>2. \A h \in Handlers, t \in {"ready", "remove"} : ~Has(h, t)'
    BY <2>1 DEF Has
  <2>3. Booting' /\ FirstIsAlive' /\ ListedIsDead'
    BY <1>2, <2>1, <2>2 DEF Sweep, Booting, FirstIsAlive, ListedIsDead, Scanned
  <2>4. ExitIsTrue'
    BY <1>2 DEF Sweep, runnerVars, RetentionInv, ExitIsTrue
  <2>5. Fresh'
    BY <1>2 DEF Sweep, RemoveAll, Restored, runnerVars, diskVars, RetentionInv, Fresh
  <2> QED BY <2>3, <2>4, <2>5 DEF RetentionInv
<1>3. CASE Crash
  <2>1. \A w \in Writers : todo'[w] = <<>>
    BY <1>3 DEF Crash
  <2>2. \A h \in Handlers, t \in {"ready", "remove"} : ~Has(h, t)'
    BY <2>1, HandlersWrite DEF Has
  <2>3. Booting' /\ FirstIsAlive' /\ ListedIsDead' /\ ExitIsTrue'
    BY <1>3, <2>1, <2>2, HandlersWrite
    DEF Crash, Booting, FirstIsAlive, ListedIsDead, ExitIsTrue, Scanned
  <2>4. Fresh'
    BY <1>3, <2>1 DEF Crash, RetentionInv, Fresh, Writers
  <2> QED BY <2>3, <2>4 DEF RetentionInv
<1>4. CASE RunnerStarts
  <2>1. UNCHANGED <<up, todo, rec, exitEvent>> /\ runs' = runs + 1 /\ runs \in Nat
    BY <1>4, MetaAssumption DEF RunnerStarts, jumpdVars, MetaTypeOK
  <2>2. Booting' /\ Fresh'
    BY <2>1 DEF RetentionInv, Booting, Fresh
  <2>3. FirstIsAlive' /\ ExitIsTrue'
    BY <2>1 DEF RetentionInv, Fresh, FirstIsAlive, ExitIsTrue
  <2>4. ListedIsDead'
    <3> SUFFICES ASSUME runs = 0, NEW h \in Handlers, Has(h, "remove") PROVE FALSE
      BY <2>1 DEF ListedIsDead, Has
    <3>1. todo[h] = <<>> \/ todo[h] = <<"ready">>
      BY DEF RetentionInv, Fresh
    <3> QED BY <3>1 DEF Has
  <2> QED BY <2>2, <2>3, <2>4 DEF RetentionInv
<1>5. CASE ChildExits \/ RunnerGone \/ RunnerCrashes
  <2>1. UNCHANGED <<up, todo, rec, runs>> /\ runner' # "live" /\ runs # 0
    BY <1>5 DEF ChildExits, RunnerGone, RunnerCrashes, jumpdVars, RetentionInv, Fresh
  <2> QED BY <2>1 DEF RetentionInv, Booting, Fresh, FirstIsAlive, ExitIsTrue, ListedIsDead
<1> QED BY <1>1, <1>2, <1>3, <1>4, <1>5

(* Once the first scan has looked, a live first runner is not on record as *)
(* dead and retention does not hold it on its list (startup_order.go).     *)
THEOREM RetentionInvariant == MetaSpec => []RetentionInv
<1>1. MetaInit => RetentionInv
  <2> SUFFICES ASSUME MetaInit PROVE RetentionInv
    OBVIOUS
  <2>1. \A w \in Writers : todo[w] = <<>>
    BY DEF MetaInit
  <2>2. \A h \in Handlers : todo[h] = <<>> /\ ~Has(h, "remove")
    BY <2>1, HandlersWrite DEF Has
  <2> QED BY <2>1, <2>2 DEF MetaInit, RetentionInv, Booting, Fresh, FirstIsAlive, ExitIsTrue,
                            ListedIsDead, Scanned, Writers
<1>2. MetaTypeOK /\ RetentionInv /\ [MetaNext]_metaVars => RetentionInv'
  <2> SUFFICES ASSUME MetaTypeOK, RetentionInv, [MetaNext]_metaVars PROVE RetentionInv'
    OBVIOUS
  <2>1. CASE MetaNext
    BY <2>1, HandlersSpare, FilesSpare, PersisterSpares, ProcessSpares DEF MetaNext
  <2>2. CASE UNCHANGED metaVars
    BY <2>2 DEF metaVars, runnerVars, diskVars, RetentionInv, Booting, Fresh, FirstIsAlive,
                ExitIsTrue, ListedIsDead, Scanned, Has
  <2> QED BY <2>1, <2>2
<1> QED BY <1>1, <1>2, MetaTypes, PTL DEF MetaSpec

(* A runner that outlives jumpd is never pruned, for any number of         *)
(* handlers, runs and crashes and any capacity of the persister's channel. *)
THEOREM RetentionSparesSurvivors == MetaSpec => RetentionSparesLive
<1>1. MetaTypeOK /\ RetentionInv /\ [MetaNext]_metaVars =>
        [\A h \in Handlers :
           Task(h, "remove") /\ todo'[h] = <<"tell">> /\ runs = 1 => runner # "live"]_metaVars
  <2> SUFFICES ASSUME MetaTypeOK, RetentionInv, NEW h \in Handlers, Task(h, "remove"), runs = 1
               PROVE  runner # "live"
    OBVIOUS
  <2>1. Has(h, "remove")
    BY HandlersWrite DEF Task, MetaTypeOK, Has
  <2> QED BY <2>1 DEF RetentionInv, ListedIsDead
<1> QED BY <1>1, MetaTypes, RetentionInvariant, PTL DEF MetaSpec, RetentionSparesLive
-----------------------------------------------------------------------------
(* What meta.json will hold when everything is written.  While every event *)
(* is told, and in order, the last word about the record is with a handler *)
(* that has not told of it, else in the channel, else with the persister,  *)
(* else in the file.                                                       *)

PersisterLists == {<<>>, <<"forget">>, <<"write">>, <<"temp", "rename">>, <<"rename">>}
PersisterInv == todo[Persister] \in PersisterLists /\ (todo[Persister] # <<>> => pending = "none")

(* Nothing is under way until jumpd runs.                                  *)
AtRest ==
  up \in {"down", "sweeping"} =>
    (\A w \in Writers : todo[w] = <<>>) /\ persistQ = <<>> /\ pending = "none"

(* A handler tells of, writes or removes what the store has.               *)
Agrees(h) ==
  /\ Has(h, "tell") => val[h] = rec
  /\ Has(h, "forget") => rec = "none"
  /\ \A t \in {"write", "temp", "rename"} : Has(h, t) => val[h] = rec /\ rec # "none"

(* The persister writes what the store has, and no removal is in its way.  *)
Flushing ==
  /\ todo[Persister] \in PersisterLists \ {<<>>, <<"forget">>}
  /\ val[Persister] = rec /\ rec # "none"
  /\ todo[Persister] = <<"temp", "rename">> => dir
  /\ todo[Persister] = <<"rename">> => Persister \in temps

PersisterKnows ==
  \/ pending # "none" /\ pending = rec
  \/ pending = "none" /\ todo[Persister] = <<"forget">> /\ rec = "none"
  \/ pending = "none" /\ Flushing
  \/ pending = "none" /\ todo[Persister] = <<>> /\ Restored(meta) = Restored(rec)

LastKept ==
  \/ \E h \in Handlers : Task(h, "tell")
  \/ persistQ # <<>> /\ persistQ[Len(persistQ)] = rec
  \/ persistQ = <<>> /\ PersisterKnows

InOrder == Running /\ ~unordered => (\A h \in Handlers : Agrees(h)) /\ LastKept

DurableInv == PersisterInv /\ AtRest /\ InOrder

(* A write of the store: the handler has yet to tell of it, or nothing has *)
(* changed.  The other handlers have nothing left to do.                   *)
LEMMA PutDurable ==
  ASSUME MetaTypeOK, DurableInv, NEW h \in Handlers, NEW r, NEW steps, PutRecord(h, r, steps), Running,
         \/ steps # <<>> /\ Head(steps) = "tell"
         \/ steps = <<>> /\ r = rec /\ ~Task(h, "tell"),
         \A i \in DOMAIN steps : /\ steps[i] = "forget" => r = "none"
                                 /\ steps[i] \in {"write", "temp", "rename"} => r # "none"
  PROVE  DurableInv'
<1>1. /\ todo'[h] = steps /\ val'[h] = r /\ rec' = r
      /\ \A w \in Writers \ {h} : todo'[w] = todo[w] /\ val'[w] = val[w]
      /\ UNCHANGED <<up, persistQ, pending, dir, meta, temps>>
  BY HandlersWrite DEF PutRecord, MetaTypeOK, diskVars
<1>2. PersisterInv' /\ AtRest'
  BY <1>1, MetaAssumption DEF DurableInv, PersisterInv, AtRest, Running, Writers
<1>3. ASSUME ~unordered' PROVE (\A g \in Handlers : Agrees(g))' /\ LastKept'
  <2>1. ~unordered /\ \A g \in Handlers \ {h} : todo[g] = <<>>
    BY <1>3 DEF PutRecord
  <2>2. Agrees(h)'
    BY <1>1 DEF Agrees, Has
  <2>3. ASSUME NEW g \in Handlers \ {h} PROVE Agrees(g)'
    <3>1. todo'[g] = <<>>
      BY <1>1, <2>1, HandlersWrite
    <3> QED BY <3>1 DEF Agrees, Has
  <2>4. LastKept'
    <3>1. CASE steps # <<>> /\ Head(steps) = "tell"
      BY <1>1, <3>1 DEF LastKept, Task
    <3>2. CASE steps = <<>> /\ r = rec /\ ~Task(h, "tell")
      <4>1. LastKept /\ \A g \in Handlers : ~Task(g, "tell")
        BY <2>1, <3>2 DEF DurableInv, InOrder, Task
      <4>2. todo'[Persister] = todo[Persister] /\ val'[Persister] = val[Persister] /\ rec' = rec
        BY <1>1, <3>2, MetaAssumption DEF Writers
      <4> QED BY <1>1, <4>1, <4>2 DEF LastKept, PersisterKnows, Flushing
    <3> QED BY <3>1, <3>2
  <2> QED BY <2>2, <2>3, <2>4
<1> QED BY <1>2, <1>3 DEF DurableInv, InOrder

(* A registration, with the lists it leaves the handler.                   *)
LEMMA RegisterDurable ==
  ASSUME MetaTypeOK, DurableInv, NEW h \in Handlers, NEW rest \in {<<>>, <<"ready">>},
         RegisterThen(h, rest), Running
  PROVE  DurableInv'
<1> DEFINE WriteOwed(steps, r) ==
      \A i \in DOMAIN steps : /\ steps[i] = "forget" => r = "none"
                              /\ steps[i] \in {"write", "temp", "rename"} => r # "none"
<1>1. rest \in Seq(Tasks) /\ \A i \in DOMAIN rest : rest[i] = "ready"
  <2>1. CASE rest = <<>>
    BY <2>1
  <2>2. CASE rest = <<"ready">>
    <3>1. rest \in Seq(Tasks)
      BY <2>2, "ready" \in Tasks DEF Tasks
    <3> QED BY <2>2, <3>1
  <2> QED BY <2>1, <2>2
<1>2. ASSUME NEW before \in Seq(Tasks), before # <<>>, Head(before) = "tell",
             NEW r \in Records, r # "none", WriteOwed(before, r)
      PROVE  before \o rest # <<>> /\ Head(before \o rest) = "tell" /\ WriteOwed(before \o rest, r)
  <2>1. /\ before \o rest \in Seq(Tasks)
        /\ Len(before \o rest) = Len(before) + Len(rest)
        /\ \A i \in 1..(Len(before) + Len(rest)) :
             (before \o rest)[i] = IF i <= Len(before) THEN before[i] ELSE rest[i - Len(before)]
    BY <1>1, ConcatProperties
  <2>2. /\ Len(before) \in Nat \ {0} /\ Len(rest) \in Nat /\ before[1] = "tell"
        /\ DOMAIN before = 1..Len(before) /\ DOMAIN rest = 1..Len(rest)
        /\ DOMAIN (before \o rest) = 1..(Len(before) + Len(rest))
    BY <1>1, <1>2, <2>1, LenProperties, HeadTailProperties, EmptySeq
  <2>3. (before \o rest)[1] = "tell" /\ before \o rest # <<>>
    BY <2>1, <2>2
  <2>4. Head(before \o rest) = "tell"
    BY <2>1, <2>3, HeadTailProperties
  <2>5. ASSUME NEW i \in DOMAIN (before \o rest)
        PROVE  (before \o rest)[i] # "forget"
               \/ \E j \in DOMAIN before : before[j] = (before \o rest)[i]
    <3>1. CASE i <= Len(before)
      BY <2>1, <2>2, <3>1
    <3>2. CASE ~(i <= Len(before))
      <4>1. i - Len(before) \in DOMAIN rest /\ (before \o rest)[i] = rest[i - Len(before)]
        BY <2>1, <2>2, <3>2
      <4> QED BY <1>1, <4>1
    <3> QED BY <3>1, <3>2
  <2> QED BY <1>2, <2>3, <2>4, <2>5
<1>3. /\ <<"tell">> \in Seq(Tasks) /\ Head(<<"tell">>) = "tell" /\ <<"tell">> # <<>>
      /\ <<"tell", "write">> \in Seq(Tasks) /\ Head(<<"tell", "write">>) = "tell"
      /\ <<"tell", "write">> # <<>>
      /\ WriteOwed(<<"tell">>, "live") /\ WriteOwed(<<"tell", "write">>, "exited")
      /\ {"live", "exited"} \subseteq Records
  BY StepsTyped DEF Tasks, Records
<1>4. CASE PutRecord(h, "live", <<"tell">> \o rest)
  <2> DEFINE steps == <<"tell">> \o rest
  <2>1. steps # <<>> /\ Head(steps) = "tell" /\ WriteOwed(steps, "live")
    BY <1>2, <1>3
  <2> HIDE DEF steps
  <2>2. PutRecord(h, "live", steps)
    BY <1>4 DEF steps
  <2> QED BY <2>1, <2>2, PutDurable
<1>5. CASE PutRecord(h, "exited", <<"tell", "write">> \o rest)
  <2> DEFINE steps == <<"tell", "write">> \o rest
  <2>1. steps # <<>> /\ Head(steps) = "tell" /\ WriteOwed(steps, "exited")
    BY <1>2, <1>3
  <2> HIDE DEF steps
  <2>2. PutRecord(h, "exited", steps)
    BY <1>5 DEF steps
  <2> QED BY <2>1, <2>2, PutDurable
<1> QED BY <1>4, <1>5 DEF RegisterThen

(* A handler takes something on that concerns neither events nor files.    *)
LEMMA IdleDurable ==
  ASSUME MetaTypeOK, DurableInv, NEW h \in Handlers, NEW t \in {"remove", "ready"}, Running,
         todo[h] = <<>>, todo' = [todo EXCEPT ![h] = <<t>>],
         UNCHANGED <<up, rec, persistQ, pending, val, diskVars, unordered>>
  PROVE  DurableInv'
<1>1. /\ todo'[h] = <<t>> /\ \A w \in Writers \ {h} : todo'[w] = todo[w]
      /\ Persister # h /\ todo'[Persister] = todo[Persister]
  BY HandlersWrite, MetaAssumption DEF MetaTypeOK, Writers
<1>2. PersisterInv' /\ AtRest'
  BY <1>1 DEF DurableInv, PersisterInv, AtRest, Running
<1>3. ASSUME ~unordered PROVE (\A g \in Handlers : Agrees(g))' /\ LastKept'
  <2>1. (\A g \in Handlers : Agrees(g)) /\ LastKept
    BY <1>3 DEF DurableInv, InOrder
  <2>2. Agrees(h)'
    BY <1>1 DEF Agrees, Has
  <2>3. ASSUME NEW g \in Handlers \ {h} PROVE Agrees(g)'
    BY <1>1, <2>1, HandlersWrite DEF Agrees, Has
  <2>4. \A g \in Handlers : Task(g, "tell") => Task(g, "tell")'
    BY <1>1, HandlersWrite DEF Task
  <2>5. PersisterKnows => PersisterKnows'
    BY <1>1 DEF PersisterKnows, Flushing, diskVars
  <2> QED BY <2>1, <2>2, <2>3, <2>4, <2>5 DEF LastKept
<1> QED BY <1>2, <1>3 DEF DurableInv, InOrder, Running

(* The broadcast puts the last word into the channel, or drops it.         *)
LEMMA TellDurable ==
  ASSUME MetaTypeOK, DurableInv, NEW h \in Handlers, Tell(h)
  PROVE  DurableInv'
<1>1. /\ todo[h] # <<>> /\ Has(h, "tell")
      /\ \A w \in Writers \ {h} : todo'[w] = todo[w]
      /\ Persister # h /\ todo'[Persister] = todo[Persister]
  BY HandlersWrite, MetaAssumption DEF Tell, Task, Done, MetaTypeOK, Writers, Has
<1>2. UNCHANGED <<up, rec, pending, val, dir, meta, temps>> /\ Done(h)
  BY DEF Tell, diskVars
<1>3. Running
  BY <1>1, HandlersWrite DEF DurableInv, AtRest, MetaTypeOK, Running
<1>4. PersisterInv' /\ AtRest'
  BY <1>1, <1>2, <1>3 DEF DurableInv, PersisterInv, AtRest, Running
<1>5. ASSUME ~unordered' PROVE (\A g \in Handlers : Agrees(g))' /\ LastKept'
  <2>1. persistQ' = Append(persistQ, val[h]) /\ ~unordered
    BY <1>5, Zenon DEF Tell
  <2>2. \A g \in Handlers : Agrees(g)
    BY <1>3, <2>1 DEF DurableInv, InOrder
  <2>3. \A g \in Handlers : \A t \in Tasks : Has(g, t)' => Has(g, t)
    BY <1>1, <1>2, HandlersWrite, DoneShrinks
  <2>4. \A g \in Handlers : Agrees(g)'
    BY <1>2, <2>2, <2>3 DEF Agrees, Tasks
  <2>5. val[h] = rec /\ val[h] \in Records /\ persistQ \in Seq(Records)
    BY <1>1, <2>2, HandlersWrite DEF Agrees, MetaTypeOK
  <2>6. persistQ' # <<>> /\ persistQ'[Len(persistQ')] = rec
    BY <2>1, <2>5, AppendProperties
  <2> QED BY <1>2, <2>4, <2>6 DEF LastKept
<1> QED BY <1>2, <1>4, <1>5 DEF DurableInv, InOrder

(* The handlers of jumpd.                                                  *)
LEMMA HandlersDurable ==
  ASSUME MetaTypeOK, DurableInv, NEW h \in Handlers,
         \/ Register(h) \/ Exit(h) \/ MarkDead(h) \/ Dismiss(h) \/ Purge(h)
         \/ Tell(h) \/ PurgeRemove(h) \/ FirstScan(h) \/ Ready(h)
  PROVE  DurableInv'
<1>1. CASE Register(h)
  BY <1>1, RegisterDurable DEF Register
<1>2. CASE Exit(h)
  <2>1. CASE PutRecord(h, "exited", <<"tell", "write">>)
    BY <1>2, <2>1, PutDurable DEF Exit
  <2>2. CASE UNCHANGED <<up, rec, persistQ, pending, todo, val, diskVars, runner, runs, unordered,
                         crashes>>
    BY <2>2 DEF diskVars, DurableInv, PersisterInv, AtRest, InOrder, Running, Agrees, Has,
                LastKept, PersisterKnows, Flushing, Task
  <2> QED BY <1>2, <2>1, <2>2 DEF Exit
<1>3. CASE MarkDead(h)
  BY <1>3, PutDurable DEF MarkDead
<1>4. CASE Dismiss(h)
  BY <1>4, PutDurable DEF Dismiss
<1>5. CASE Purge(h)
  BY <1>5, IdleDurable DEF Purge, Running
<1>6. CASE Tell(h)
  BY <1>6, TellDurable
<1>7. CASE PurgeRemove(h)
  <2>1. Running /\ ~Task(h, "tell")
    BY <1>7, HandlersWrite DEF PurgeRemove, Task, DurableInv, AtRest, MetaTypeOK, Running
  <2>2. CASE rec = "none" /\ PutRecord(h, "none", <<>>)
    BY <2>1, <2>2, PutDurable
  <2>3. CASE PutRecord(h, "none", <<"tell">>)
    BY <2>1, <2>3, PutDurable
  <2> QED BY <1>7, <2>2, <2>3 DEF PurgeRemove
<1>8. CASE FirstScan(h)
  <2>1. Running /\ todo[h] = <<>>
    BY <1>8 DEF FirstScan, Running
  <2>2. CASE RegisterThen(h, <<"ready">>)
    BY <2>1, <2>2, RegisterDurable
  <2>3. CASE /\ todo' = [todo EXCEPT ![h] = <<"ready">>]
             /\ UNCHANGED <<up, rec, persistQ, pending, val, diskVars, runnerVars, unordered, crashes>>
    BY <2>1, <2>3, IdleDurable
  <2> QED BY <1>8, <2>2, <2>3 DEF FirstScan
<1>9. CASE Ready(h)
  <2>1. /\ todo[h] # <<>> /\ Head(todo[h]) = "ready" /\ Done(h) /\ up' = "serving"
        /\ UNCHANGED <<rec, persistQ, pending, val, dir, meta, temps, unordered>>
        /\ \A w \in Writers \ {h} : todo'[w] = todo[w]
        /\ Persister # h /\ todo'[Persister] = todo[Persister]
    BY <1>9, HandlersWrite, MetaAssumption DEF Ready, Task, Done, MetaTypeOK, Writers, diskVars
  <2>2. Running /\ Running'
    BY <2>1, HandlersWrite DEF DurableInv, AtRest, MetaTypeOK, Running
  <2>3. \A g \in Handlers : \A t \in Tasks : Has(g, t)' => Has(g, t)
    BY <2>1, HandlersWrite, DoneShrinks
  <2>4. \A g \in Handlers : Agrees(g) => Agrees(g)'
    BY <2>1, <2>3 DEF Agrees, Tasks
  <2>5. \A g \in Handlers : Task(g, "tell") => Task(g, "tell")'
    BY <2>1, HandlersWrite DEF Task
  <2>6. PersisterKnows => PersisterKnows'
    BY <2>1 DEF PersisterKnows, Flushing
  <2>7. LastKept => LastKept'
    BY <2>1, <2>5, <2>6 DEF LastKept
  <2>8. PersisterInv' /\ AtRest'
    BY <2>1 DEF DurableInv, PersisterInv, AtRest
  <2> QED BY <2>1, <2>2, <2>4, <2>7, <2>8 DEF DurableInv, InOrder
<1> QED BY <1>1, <1>2, <1>3, <1>4, <1>5, <1>6, <1>7, <1>8, <1>9

(* A handler's steps on files: it writes or removes what the store has, so *)
(* a removal does not meet a last write of the persister.                  *)
LEMMA HandlerFilesDurable ==
  ASSUME MetaTypeOK, DurableInv, NEW h \in Handlers, FileStep(h)
  PROVE  DurableInv'
<1>1. /\ todo[h] # <<>> /\ Head(todo[h]) \in {"write", "temp", "rename", "forget"}
      /\ Has(h, Head(todo[h]))
      /\ \A w \in Writers \ {h} : todo'[w] = todo[w]
      /\ Persister # h /\ todo'[Persister] = todo[Persister]
      /\ UNCHANGED <<up, rec, persistQ, pending, val, unordered>>
  BY HandlersWrite, MetaAssumption
  DEF FileStep, MakeDir, MakeTemp, Rename, RemoveFiles, Task, Done, MetaTypeOK, Writers, Has
<1>2. Running
  BY <1>1, HandlersWrite DEF DurableInv, AtRest, MetaTypeOK, Running
<1>3. PersisterInv' /\ AtRest'
  BY <1>1, <1>2 DEF DurableInv, PersisterInv, AtRest, Running
<1>4. ASSUME ~unordered PROVE (\A g \in Handlers : Agrees(g))' /\ LastKept'
  <2>1. (\A g \in Handlers : Agrees(g)) /\ LastKept
    BY <1>2, <1>4 DEF DurableInv, InOrder
  <2>2. ASSUME NEW g \in Handlers PROVE Agrees(g)'
    <3>1. \A t \in {"tell", "write", "forget"} : Has(g, t)' => Has(g, t)
      BY HandlersWrite, FileShrinks
    <3>2. ASSUME NEW t \in {"temp", "rename"}, Has(g, t)'
          PROVE  Has(g, t) \/ Has(g, "write")
      <4>1. CASE Done(h)
        BY <1>1, <3>2, <4>1, HandlersWrite, DoneShrinks
      <4>2. CASE MakeDir(h) /\ g = h
        BY <1>1, <4>2 DEF MakeDir, Task
      <4>3. CASE g # h
        BY <1>1, <3>2, <4>3, HandlersWrite DEF Has
      <4> QED BY <4>1, <4>2, <4>3 DEF FileStep, MakeTemp, Rename, RemoveFiles
    <3>3. \A t \in {"write", "temp", "rename"} :
            Has(g, t)' => \E u \in {"write", "temp", "rename"} : Has(g, u)
      BY <3>1, <3>2
    <3> QED BY <1>1, <2>1, <3>1, <3>3 DEF Agrees
  <2>3. \A g \in Handlers : Task(g, "tell") => Task(g, "tell")'
    BY <1>1, HandlersWrite DEF Task
  <2>4. ASSUME PersisterKnows PROVE PersisterKnows'
    <3>1. CASE MakeDir(h)
      BY <1>1, <2>4, <3>1 DEF MakeDir, PersisterKnows, Flushing
    <3>2. CASE MakeTemp(h)
      BY <1>1, <2>4, <3>2 DEF MakeTemp, PersisterKnows, Flushing
    <3>3. CASE Rename(h)
      <4>1. val[h] = rec
        BY <1>1, <2>1, <3>3 DEF Rename, Task, Agrees
      <4>2. (meta' = rec \/ meta' = meta) /\ dir' = dir
            /\ (Persister \in temps => Persister \in temps')
        BY <1>1, <3>3, <4>1 DEF Rename
      <4> QED BY <1>1, <2>4, <4>2 DEF PersisterKnows, Flushing
    <3>4. CASE RemoveFiles(h)
      <4>1. rec = "none" /\ meta' = "none"
        BY <1>1, <2>1, <3>4 DEF RemoveFiles, RemoveAll, Task, Agrees
      <4> QED BY <1>1, <2>4, <4>1 DEF PersisterKnows, Flushing
    <3> QED BY <3>1, <3>2, <3>3, <3>4 DEF FileStep
  <2> QED BY <1>1, <2>1, <2>2, <2>3, <2>4 DEF LastKept
<1> QED BY <1>1, <1>2, <1>3, <1>4 DEF DurableInv, InOrder, Running

(* The persister's steps, on files and between them.                       *)
LEMMA PersisterFilesDurable ==
  ASSUME MetaTypeOK, DurableInv, FileStep(Persister)
  PROVE  DurableInv'
<1>1. /\ Persister \in Writers /\ todo[Persister] \in PersisterLists \ {<<>>} /\ pending = "none"
      /\ \A h \in Handlers : todo'[h] = todo[h]
      /\ UNCHANGED <<up, rec, persistQ, pending, val, unordered>>
  BY HandlersWrite, MetaAssumption
  DEF FileStep, MakeDir, MakeTemp, Rename, RemoveFiles, Task, Done, MetaTypeOK, Writers, DurableInv,
      PersisterInv
<1>2. Running
  BY <1>1 DEF DurableInv, AtRest, MetaTypeOK, Running
<1>3. \/ /\ todo[Persister] = <<"write">> /\ todo'[Persister] = <<"temp", "rename">>
         /\ dir' /\ UNCHANGED <<meta, temps>>
      \/ /\ todo[Persister] = <<"temp", "rename">> /\ todo'[Persister] = <<"rename">>
         /\ (dir => Persister \in temps') /\ UNCHANGED meta
      \/ /\ todo[Persister] = <<"rename">> /\ todo'[Persister] = <<>>
         /\ (Persister \in temps => meta' = val[Persister])
      \/ /\ todo[Persister] = <<"forget">> /\ todo'[Persister] = <<>> /\ meta' = "none"
  <2>1. CASE MakeDir(Persister)
    <3>1. todo[Persister] = <<"write">>
      BY <1>1, <2>1 DEF MakeDir, Task, PersisterLists
    <3>2. <<"temp", "rename">> \o Tail(todo[Persister]) = <<"temp", "rename">>
      BY <3>1
    <3> QED BY <1>1, <2>1, <3>1, <3>2 DEF MakeDir, MetaTypeOK
  <2>2. CASE MakeTemp(Persister)
    <3>1. todo[Persister] = <<"temp", "rename">>
      BY <1>1, <2>2 DEF MakeTemp, Task, PersisterLists
    <3> QED BY <1>1, <2>2, <3>1 DEF MakeTemp, Done, MetaTypeOK
  <2>3. CASE Rename(Persister)
    <3>1. todo[Persister] = <<"rename">>
      BY <1>1, <2>3 DEF Rename, Task, PersisterLists
    <3> QED BY <1>1, <2>3, <3>1 DEF Rename, Done, MetaTypeOK
  <2>4. CASE RemoveFiles(Persister)
    <3>1. todo[Persister] = <<"forget">>
      BY <1>1, <2>4 DEF RemoveFiles, Task, PersisterLists
    <3> QED BY <1>1, <2>4, <3>1 DEF RemoveFiles, RemoveAll, Done, MetaTypeOK
  <2> QED BY <2>1, <2>2, <2>3, <2>4 DEF FileStep
<1>4. PersisterInv'
  BY <1>1, <1>3 DEF PersisterInv, PersisterLists
<1>5. AtRest'
  BY <1>1, <1>2 DEF AtRest, Running
<1>6. ASSUME PersisterKnows PROVE PersisterKnows'
  <2>1. /\ <<"write">> # <<"temp", "rename">> /\ <<"rename">> # <<"temp", "rename">>
        /\ <<"write">> # <<"rename">> /\ <<"forget">> # <<"temp", "rename">>
        /\ <<"write">> # <<"forget">> /\ <<"rename">> # <<"forget">>
        /\ <<>> \notin {<<"write">>, <<"rename">>, <<"forget">>, <<"temp", "rename">>}
    OBVIOUS
  <2>2. CASE todo[Persister] = <<"write">>
    BY <1>1, <1>3, <1>6, <2>1, <2>2 DEF PersisterKnows, Flushing, PersisterLists
  <2>3. CASE todo[Persister] = <<"temp", "rename">>
    BY <1>1, <1>3, <1>6, <2>1, <2>3 DEF PersisterKnows, Flushing, PersisterLists
  <2>4. CASE todo[Persister] = <<"rename">>
    BY <1>1, <1>3, <1>6, <2>1, <2>4 DEF PersisterKnows, Flushing, PersisterLists
  <2>5. CASE todo[Persister] = <<"forget">>
    BY <1>1, <1>3, <1>6, <2>1, <2>5 DEF PersisterKnows, Flushing, PersisterLists
  <2> QED BY <1>3, <2>2, <2>3, <2>4, <2>5
<1>7. \A h \in Handlers : /\ Agrees(h) => Agrees(h)'
                          /\ Task(h, "tell") => Task(h, "tell")'
  BY <1>1 DEF Agrees, Has, Task
<1> QED BY <1>1, <1>2, <1>4, <1>5, <1>6, <1>7 DEF DurableInv, InOrder, LastKept, Running

LEMMA PersisterDurable ==
  ASSUME MetaTypeOK, DurableInv, HandleEvent \/ Flush
  PROVE  DurableInv'
<1>1. /\ Persister \in Writers /\ todo[Persister] = <<>>
      /\ \A h \in Handlers : todo'[h] = todo[h] /\ val'[h] = val[h]
      /\ UNCHANGED <<up, rec, dir, meta, temps, unordered>>
  BY HandlersWrite, MetaAssumption DEF HandleEvent, Flush, MetaTypeOK, Writers, diskVars
<1>2. Running
  BY DEF HandleEvent, Flush, DurableInv, AtRest, MetaTypeOK, Running
<1>3. AtRest'
  BY <1>1, <1>2 DEF AtRest, Running
<1>4. \A h \in Handlers : /\ Agrees(h) => Agrees(h)'
                          /\ Task(h, "tell") => Task(h, "tell")'
  BY <1>1 DEF Agrees, Has, Task
<1>5. CASE HandleEvent
  <2>1. /\ persistQ \in Seq(Records) /\ persistQ # <<>> /\ persistQ' = Tail(persistQ) /\ pending' = Head(persistQ)
        /\ todo'[Persister] = IF Head(persistQ) = "none" THEN <<"forget">> ELSE <<>>
    BY <1>1, <1>5 DEF HandleEvent, MetaTypeOK
  <2>2. PersisterInv'
    BY <2>1 DEF PersisterInv, PersisterLists
  <2>3. ASSUME persistQ[Len(persistQ)] = rec PROVE LastKept'
    <3>1. /\ Len(persistQ) \in Nat \ {0} /\ Head(persistQ) = persistQ[1]
          /\ Tail(persistQ) \in Seq(Records) /\ Len(Tail(persistQ)) = Len(persistQ) - 1
          /\ \A i \in 1..Len(Tail(persistQ)) : Tail(persistQ)[i] = persistQ[i + 1]
      BY <2>1, HeadTailProperties, LenProperties
    <3>2. CASE Len(persistQ) = 1
      <4>1. Tail(persistQ) = <<>> /\ Head(persistQ) = rec
        <5>1. Len(Tail(persistQ)) = 0 /\ Head(persistQ) = persistQ[Len(persistQ)]
          BY <3>1, <3>2
        <5> QED BY <2>3, <3>1, <5>1, EmptySeq
      <4> QED BY <1>1, <2>1, <4>1 DEF LastKept, PersisterKnows
    <3>3. CASE Len(persistQ) # 1
      <4>1. Tail(persistQ) # <<>> /\ Tail(persistQ)[Len(Tail(persistQ))] = rec
        <5>1. Len(Tail(persistQ)) \in 1..Len(Tail(persistQ)) /\ Len(Tail(persistQ)) + 1 = Len(persistQ)
          BY <3>1, <3>3
        <5>2. Tail(persistQ)[Len(Tail(persistQ))] = persistQ[Len(Tail(persistQ)) + 1]
          BY <3>1, <5>1
        <5>3. Tail(persistQ) # <<>>
          <6>1. Len(Tail(persistQ)) # 0
            BY <3>1, <3>3
          <6>2. Tail(persistQ) = <<>> => Len(Tail(persistQ)) = Len(<<>>)
            OBVIOUS
          <6>3. Len(<<>>) = 0
            OBVIOUS
          <6> QED BY <6>1, <6>2, <6>3, Zenon
        <5> QED BY <1>1, <2>3, <5>1, <5>2, <5>3
      <4> QED BY <1>1, <2>1, <4>1 DEF LastKept
    <3> QED BY <3>2, <3>3
  <2> QED BY <1>1, <1>2, <1>3, <1>4, <2>1, <2>2, <2>3 DEF DurableInv, InOrder, LastKept, Running
<1>6. CASE Flush
  <2>1. /\ pending # "none" /\ pending' = "none" /\ persistQ' = persistQ
        /\ todo'[Persister] = <<"write">> /\ val'[Persister] = pending
    BY <1>1, <1>6 DEF Flush, MetaTypeOK
  <2>2. PersisterInv'
    BY <2>1 DEF PersisterInv, PersisterLists
  <2>3. PersisterKnows => PersisterKnows'
    BY <1>1, <2>1 DEF PersisterKnows, Flushing, PersisterLists
  <2> QED BY <1>1, <1>2, <1>3, <1>4, <2>1, <2>2, <2>3 DEF DurableInv, InOrder, LastKept, Running
<1> QED BY <1>5, <1>6

(* jumpd's start and end, and the runner.  The sweep makes the record what *)
(* the file restores.                                                      *)
LEMMA ProcessDurable ==
  ASSUME MetaTypeOK, DurableInv,
         \/ Start \/ Sweep \/ Crash
         \/ RunnerStarts \/ ChildExits \/ RunnerGone \/ RunnerCrashes
  PROVE  DurableInv'
<1>1. CASE Start
  BY <1>1 DEF Start, DurableInv, PersisterInv, AtRest, InOrder, Running
<1>2. CASE Sweep
  <2>1. /\ \A w \in Writers : todo'[w] = <<>>
        /\ UNCHANGED <<persistQ, pending, todo>> /\ persistQ = <<>> /\ pending = "none"
        /\ rec' = Restored(meta) /\ meta' = meta /\ up' = "scanning"
    BY <1>2 DEF Sweep, RemoveAll, diskVars, DurableInv, AtRest
  <2>2. Persister \in Writers
    BY DEF Writers
  <2>3. Restored(meta') = Restored(rec')
    BY <2>1 DEF Restored
  <2>4. \A h \in Handlers : Agrees(h)'
    BY <2>1, HandlersWrite DEF Agrees, Has
  <2> QED BY <2>1, <2>2, <2>3, <2>4
          DEF DurableInv, PersisterInv, PersisterLists, AtRest, InOrder, LastKept, PersisterKnows
<1>3. CASE Crash
  <2>1. \A w \in Writers : todo'[w] = <<>>
    BY <1>3 DEF Crash
  <2>2. Persister \in Writers
    BY DEF Writers
  <2> QED BY <1>3, <2>1, <2>2
          DEF Crash, DurableInv, PersisterInv, PersisterLists, AtRest, InOrder, Running
<1>4. CASE RunnerStarts \/ ChildExits \/ RunnerGone \/ RunnerCrashes
  <2>1. UNCHANGED jumpdVars /\ (dir => dir')
    BY <1>4 DEF RunnerStarts, ChildExits, RunnerGone, RunnerCrashes
  <2> QED BY <2>1
          DEF jumpdVars, DurableInv, PersisterInv, AtRest, InOrder, Running, Agrees, Has,
              LastKept, PersisterKnows, Flushing, Task
<1> QED BY <1>1, <1>2, <1>3, <1>4

(* While handlers do not overlap and no event is dropped, the last word on *)
(* the record is on its way to meta.json, or there (store.go's broadcasts, *)
(* WatchEvents, the direct writes of OnDead and dismissal).                *)
THEOREM DurableInvariant == MetaSpec => []DurableInv
<1>1. MetaInit => DurableInv
  <2> SUFFICES ASSUME MetaInit PROVE DurableInv
    OBVIOUS
  <2>1. Persister \in Writers /\ \A w \in Writers : todo[w] = <<>>
    BY DEF MetaInit, Writers
  <2> QED BY <2>1 DEF MetaInit, DurableInv, PersisterInv, PersisterLists, AtRest, InOrder, Running
<1>2. MetaTypeOK /\ DurableInv /\ [MetaNext]_metaVars => DurableInv'
  <2> SUFFICES ASSUME MetaTypeOK, DurableInv, [MetaNext]_metaVars PROVE DurableInv'
    OBVIOUS
  <2>1. CASE MetaNext
    BY <2>1, HandlersDurable, HandlerFilesDurable, PersisterFilesDurable, PersisterDurable,
       ProcessDurable DEF MetaNext, Writers
  <2>2. CASE UNCHANGED metaVars
    BY <2>2 DEF metaVars, runnerVars, diskVars, DurableInv, PersisterInv, AtRest, InOrder, Running,
                Agrees, Has, LastKept, PersisterKnows, Flushing, Task
  <2> QED BY <2>1, <2>2
<1> QED BY <1>1, <1>2, MetaTypes, PTL DEF MetaSpec

(* When all is written, meta.json restores what the store holds, whatever  *)
(* flushes, direct writes, removals and crashes came before.               *)
THEOREM RestartRestores == MetaSpec => []RestartKeeps
<1>1. DurableInv => RestartKeeps
  <2> SUFFICES ASSUME DurableInv, MetaQuiet, ~unordered PROVE Restored(meta) = Restored(rec)
    BY DEF RestartKeeps
  <2>1. LastKept /\ todo[Persister] = <<>> /\ persistQ = <<>> /\ pending = "none"
        /\ \A h \in Handlers : todo[h] = <<>>
    BY DEF DurableInv, InOrder, MetaQuiet, Running, HandlersIdle
  <2> QED BY <2>1 DEF LastKept, PersisterKnows, Flushing, PersisterLists, Task
<1> QED BY <1>1, DurableInvariant, PTL
=============================================================================
