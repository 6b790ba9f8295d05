----------------------------- MODULE PeeringProofs -----------------------------
(***************************************************************************)
(* Proofs about Peering, for any number of peers, callers and sessions:    *)
(* what RemovePeer has taken away stays away, and a stream that has        *)
(* delivered everything leaves the hub with what the spoke has.            *)
(***************************************************************************)
EXTENDS Peering, SequenceTheorems, FiniteSetTheorems, TLAPS

-----------------------------------------------------------------------------
(* The inductive invariant of the manager and its goroutines               *)

Removing(c, e) == job[c].step # "idle" /\ job[c].entry = e
InTable(e) == Used(e) /\ table[nameOf[e]] = e

(* OnSleep has on its list what is in the table, or was when it was taken  *)
(* out; it waits for the goroutine that runs, and starts no second one.    *)
SleepInv ==
  /\ \A e \in Entries : Picked(e) => Used(e) /\ (InTable(e) \/ e \in slept)
  /\ sleeper.step = "wait" => sleeper.seen = done[sleeper.entry]
  /\ sleeper.step = "go" => run[sleeper.entry] = 0 /\ ctx[sleeper.entry] # 0

(* A removal is of an entry that has left the table for good; it waits for *)
(* the goroutine there is, and then there is none.                         *)
Removal1(c) ==
  LET e == job[c].entry IN
  job[c].step # "idle" =>
    /\ Used(e) /\ ~InTable(e)
    /\ table[nameOf[e]] # None => nameOf[e] \in blurred
    /\ e \notin slept =>
         /\ job[c].step = "wait" => job[c].seen = done[e]
         /\ job[c].step = "sessions" => run[e] = 0

(* A goroutine is of an entry in the table, of one that is being removed,  *)
(* or of one that OnSleep has started again.                               *)
Accounted(e) == \/ InTable(e) \/ e \in slept
                \/ \E c \in Callers : Removing(c, e) /\ job[c].step # "sessions"
RunInv == \A e \in Entries : run[e] \in {0, done[e]} /\ (run[e] # 0 => Accounted(e))

(* So is a session in the store of a name.                                 *)
Claimed(n) == \/ table[n] # None
              \/ \E e \in slept : nameOf[e] = n
              \/ \E c \in Callers : job[c].step # "idle" /\ nameOf[job[c].entry] = n
StoreInv == \A k \in store : Claimed(k[2])

RemovalInv == SleepInv /\ (\A c \in Callers : Removal1(c)) /\ RunInv /\ StoreInv

-----------------------------------------------------------------------------
(* The inductive invariant of the streams                                  *)

(* The last word on item i among what e has taken and what is on its way.  *)
Silent(q, i) == \A k \in 1..Len(q) : q[k].item # i
LastWord(q, i, t) ==
  \E k \in 1..Len(q) : /\ q[k] = [type |-> t, item |-> i]
                       /\ \A m \in 1..Len(q) : m > k => q[m].item # i

NothingPending(e, i) == Silent(wire[e], i) /\ (got[e] = None \/ got[e].item # i)
Tells(e, i, t) == \/ LastWord(wire[e], i, t)
                  \/ Silent(wire[e], i) /\ got[e] = [type |-> t, item |-> i]

Clear(n) == n \notin blurred /\ \A e \in slept : nameOf[e] # n

(* A stream that is not up has nothing on its way.                         *)
Down(e) == phase[e] # "streaming" =>
             wire[e] = <<>> /\ got[e] = None /\ ~open[e] /\ e \notin missed

(* After what is on its way the hub will have what the spoke has, but for  *)
(* what a broken or a late stream has missed.                              *)
Follows(e, i) ==
  LET n == nameOf[e] IN
  /\ phase[e] = "streaming" /\ e \notin missed /\ i \in spoke[n] =>
       Tells(e, i, "upsert") \/ (<<i, n>> \in store /\ NothingPending(e, i))
  /\ i \notin spoke[n] /\ <<i, n>> \notin unseen =>
       Tells(e, i, "remove") \/ (<<i, n>> \notin store /\ NothingPending(e, i))

Streams == \A e \in Entries : InTable(e) /\ Clear(nameOf[e]) => \A i \in OwnItems : Follows(e, i)
StreamInv == (\A e \in Entries : Down(e)) /\ Streams

PeeringInv == TypeOK /\ RemovalInv /\ StreamInv
-----------------------------------------------------------------------------
(* Sequences of events                                                     *)

LEMMA AppendedWord ==
  ASSUME NEW q \in Seq(Events), NEW i \in Items, NEW t \in {"upsert", "remove"},
         NEW f \in Events
  PROVE  /\ f = [type |-> t, item |-> i] => LastWord(Append(q, f), i, t)
         /\ f.item # i /\ LastWord(q, i, t) => LastWord(Append(q, f), i, t)
         /\ f.item # i /\ Silent(q, i) => Silent(Append(q, f), i)
<1> DEFINE n == Len(q) a == Append(q, f)
<1>1. n \in Nat /\ Len(a) = n + 1 /\ a[n + 1] = f /\ \A k \in 1..n : a[k] = q[k]
  BY LenProperties, AppendProperties
<1>2. 1..Len(a) = (1..n) \cup {n + 1} /\ n + 1 \notin 1..n
  BY <1>1
<1> HIDE DEF n, a
<1>3. f = [type |-> t, item |-> i] => LastWord(a, i, t)
  BY <1>1, <1>2 DEF LastWord
<1>4. ASSUME f.item # i, LastWord(q, i, t) PROVE LastWord(a, i, t)
  <2>1. PICK k \in 1..n : q[k] = [type |-> t, item |-> i] /\ \A m \in 1..n : m > k => q[m].item # i
    BY <1>4 DEF LastWord, n
  <2>2. k \in 1..Len(a) /\ a[k] = [type |-> t, item |-> i]
    BY <1>1, <1>2, <2>1
  <2>3. \A m \in 1..Len(a) : m > k => a[m].item # i
    BY <1>1, <1>2, <1>4, <2>1
  <2> QED BY <2>2, <2>3 DEF LastWord
<1>5. f.item # i /\ Silent(q, i) => Silent(a, i)
  BY <1>1, <1>2 DEF Silent, n
<1> QED BY <1>3, <1>4, <1>5 DEF a

LEMMA TakenWord ==
  ASSUME NEW q \in Seq(Events), q # <<>>, NEW i \in Items, NEW t \in {"upsert", "remove"}
  PROVE  /\ Silent(q, i) => Silent(Tail(q), i) /\ Head(q).item # i
         /\ LastWord(q, i, t) => \/ LastWord(Tail(q), i, t)
                                 \/ Silent(Tail(q), i) /\ Head(q) = [type |-> t, item |-> i]
<1> DEFINE n == Len(q) r == Tail(q)
<1>1. n \in Nat \ {0} /\ Len(r) = n - 1 /\ Head(q) = q[1] /\ \A k \in 1..(n - 1) : r[k] = q[k + 1]
  BY LenProperties, HeadTailProperties, EmptySeq
<1> HIDE DEF n, r
<1>2. Silent(q, i) => Silent(r, i) /\ Head(q).item # i
  <2> SUFFICES ASSUME Silent(q, i) PROVE Silent(r, i) /\ Head(q).item # i
    OBVIOUS
  <2>1. \A k \in 1..n : q[k].item # i
    BY DEF Silent, n
  <2>2. ASSUME NEW k \in 1..Len(r) PROVE r[k].item # i
    <3>1. k \in 1..(n - 1) /\ k + 1 \in 1..n
      BY <1>1
    <3> QED BY <1>1, <2>1, <3>1
  <2> QED BY <1>1, <2>1, <2>2 DEF Silent
<1>3. ASSUME NEW k \in 1..n, q[k] = [type |-> t, item |-> i],
             \A m \in 1..n : m > k => q[m].item # i
      PROVE  LastWord(r, i, t) \/ (Silent(r, i) /\ Head(q) = [type |-> t, item |-> i])
  <2>1. \A m \in 1..Len(r) : m \in 1..(n - 1) /\ m + 1 \in 1..n /\ r[m] = q[m + 1]
    BY <1>1
  <2>2. CASE k = 1
    <3>1. \A m \in 1..Len(r) : r[m].item # i
      BY <1>3, <2>1, <2>2
    <3> QED BY <1>1, <1>3, <2>2, <3>1 DEF Silent
  <2>3. CASE k # 1
    <3>1. k - 1 \in 1..Len(r) /\ r[k - 1] = [type |-> t, item |-> i]
      BY <1>1, <1>3, <2>3
    <3>2. \A m \in 1..Len(r) : m > k - 1 => r[m].item # i
      BY <1>3, <2>1
    <3> QED BY <3>1, <3>2 DEF LastWord
  <2> QED BY <2>2, <2>3
<1>4. LastWord(q, i, t) => LastWord(r, i, t) \/ (Silent(r, i) /\ Head(q) = [type |-> t, item |-> i])
  BY <1>3 DEF LastWord, n
<1> QED BY <1>2, <1>4 DEF r

LEMMA NoWord ==
  ASSUME NEW i, NEW t
  PROVE  Silent(<<>>, i) /\ ~LastWord(<<>>, i, t)
BY DEF Silent, LastWord

(* What a stream begins with: each item of the spoke once.                 *)
LEMMA FirstWords ==
  ASSUME NEW S \in SUBSET Items, NEW i
  PROVE  LET q == SetToSeq({[type |-> "upsert", item |-> j] : j \in S})
         IN  q \in Seq(Events) /\ IF i \in S THEN LastWord(q, i, "upsert") ELSE Silent(q, i)
<1> DEFINE T == {[type |-> "upsert", item |-> j] : j \in S}
           n == Cardinality(T)
           q == SetToSeq(T)
<1>1. IsFiniteSet(S)
  BY PeeringAssumption, FS_Subset
<1>2. [j \in S |-> [type |-> "upsert", item |-> j]] \in Bijection(S, T)
  BY DEF Bijection, Injection, Surjection, IsInjective
<1>3. IsFiniteSet(T)
  BY <1>1, <1>2, FS_Bijection DEF ExistsBijection
<1>4. n \in Nat /\ \E f : f \in [1..n -> T] /\ IsInjective(f)
  BY <1>3, FS_CardinalityType DEF ExistsBijection, Bijection, Injection
<1>5. q \in [1..n -> T] /\ IsInjective(q)
  BY <1>4 DEF SetToSeq
<1>6. IsFiniteSet(1..n) /\ Cardinality(1..n) = n
  BY <1>4, FS_Interval
<1>7. q \in Injection(1..n, T)
  BY <1>5 DEF Injection
<1>8. q \in Surjection(1..n, T)
  BY <1>3, <1>6, <1>7, FS_Injection
<1>9. T \subseteq Events
  BY DEF Events
<1> HIDE DEF T, n, q
<1>10. q \in Seq(Events) /\ Len(q) = n
  <2>1. q \in [1..n -> Events]
    BY <1>5, <1>9
  <2>2. q \in Seq(Events)
    BY <1>4, <2>1, IsASeq
  <2> QED BY <1>4, <2>1, <2>2, LenProperties
<1>11. ASSUME i \in S PROVE LastWord(q, i, "upsert")
  <2>1. [type |-> "upsert", item |-> i] \in T
    BY <1>11 DEF T
  <2>2. PICK k \in 1..n : q[k] = [type |-> "upsert", item |-> i]
    BY <1>8, <2>1 DEF Surjection
  <2>3. ASSUME NEW m \in 1..n, m > k PROVE q[m].item # i
    <3>1. q[m] \in T /\ q[m] # q[k]
      BY <1>4, <1>5, <2>3 DEF IsInjective
    <3> QED BY <2>2, <3>1 DEF T
  <2> QED BY <1>10, <2>2, <2>3 DEF LastWord
<1>12. ASSUME i \notin S PROVE Silent(q, i)
  <2>1. \A e \in T : e.item # i
    BY <1>12 DEF T
  <2> QED BY <1>5, <1>10, <2>1 DEF Silent
<1> QED BY <1>10, <1>11, <1>12 DEF q, T
-----------------------------------------------------------------------------
(* Types                                                                   *)

LEMMA ManagerTyped == ASSUME TypeOK, Next PROVE ManagerTypes'
<1> USE PeeringAssumption DEF TypeOK, ManagerTypes
<1>1. ASSUME NEW n \in Names, AddPeer(n) PROVE ManagerTypes'
  <2>1. PICK e \in NextEntry : /\ nameOf' = [nameOf EXCEPT ![e] = n]
                               /\ table' = [table EXCEPT ![n] = e]
    BY <1>1 DEF AddPeer
  <2>2. e \in Entries /\ nameOf[e] = None
    BY <2>1 DEF NextEntry, Used
  <2>3. blurred' \subseteq Names
    BY <1>1 DEF AddPeer
  <2>4. \A x \in Names : table'[x] # None => nameOf'[table'[x]] = x
    BY <2>1, <2>2
  <2> QED BY <1>1, <2>1, <2>2, <2>3, <2>4 DEF AddPeer, counters
<1>2. ASSUME NEW c \in Callers, NEW n \in Names, RemovePeer(c, n) PROVE ManagerTypes'
  BY <1>2 DEF RemovePeer, Jobs, counters
<1>3. ASSUME NEW c \in Callers, Removal(c) PROVE ManagerTypes'
  <2>1. CASE RemoveCancels(c) \/ RemoveWaits(c)
    BY <2>1 DEF RemoveCancels, RemoveWaits, Jobs, counters, tableVars, histVars
  <2>2. CASE RemoveReads(c)
    <3>1. job[c].entry \in Entries
      BY <2>2 DEF RemoveReads, Jobs
    <3>2. done[job[c].entry] \in Nat
      BY <3>1 DEF ThreadTypes
    <3>3. [step |-> "wait", entry |-> job[c].entry, seen |-> done[job[c].entry]] \in Jobs
      BY <3>1, <3>2 DEF Jobs
    <3> QED BY <2>2, <3>1, <3>3 DEF RemoveReads, counters, tableVars, histVars
  <2>3. CASE RemoveByPeer(c)
    BY <2>3 DEF RemoveByPeer, Jobs, IdleJob, counters, tableVars, histVars
  <2> QED BY <1>3, <2>1, <2>2, <2>3 DEF Removal
<1>4. CASE Wake
  BY <1>4 DEF Wake, IdleSleep, tableVars, histVars
<1>5. CASE Sleep
  <2>1. CASE SleepCancels
    <3>1. PICK e \in sleeper.todo :
            sleeper' = [todo |-> sleeper.todo \ {e}, entry |-> e, step |-> "wait", seen |-> done[e]]
      BY <2>1 DEF SleepCancels
    <3>2. e \in Entries /\ done[e] \in Nat
      BY <3>1 DEF ThreadTypes
    <3> QED BY <2>1, <3>1, <3>2 DEF SleepCancels, tableVars, histVars, counters
  <2>2. CASE SleepWaits
    BY <2>2 DEF SleepWaits, tableVars, histVars, counters
  <2>3. CASE SleepStarts
    BY <2>3 DEF SleepStarts, tableVars, histVars, counters
  <2> QED BY <1>5, <2>1, <2>2, <2>3 DEF Sleep
<1>6. CASE Stop \/ StopEnds
  BY <1>6 DEF Stop, StopEnds, tableVars, histVars, counters
<1>7. ASSUME NEW e \in Entries, Goroutine(e) \/ Disconnect(e) \/ Silence(e) PROVE ManagerTypes'
  BY <1>7 DEF Goroutine, Connect, IdleTimeout, Retry, Finish, TakeEvent, HandleEvent,
     SpokeSubscribes,
     Disconnect, Silence, tableVars, histVars, counters
<1>8. ASSUME NEW n \in Names, SpokeChanges(n) PROVE ManagerTypes'
  BY <1>8 DEF SpokeChanges, tableVars, histVars
<1> QED BY <1>1, <1>2, <1>3, <1>4, <1>5, <1>6, <1>7, <1>8 DEF Next

LEMMA ThreadTyped == ASSUME TypeOK, SleepInv, Next PROVE ThreadTypes'
<1> USE PeeringAssumption DEF TypeOK, ThreadTypes
<1>1. ASSUME NEW n \in Names, AddPeer(n) PROVE ThreadTypes'
  <2>1. PICK e \in NextEntry : nameOf' = [nameOf EXCEPT ![e] = n] /\ StartPeer(e, 1)
    BY <1>1 DEF AddPeer
  <2>2. e \in Entries /\ nameOf \in [Entries -> Names \cup {None}] /\ n # None
    BY <2>1 DEF NextEntry, ManagerTypes
  <2>3. UNCHANGED <<got, cancelled>>
    BY <1>1 DEF AddPeer
  <2> QED BY <2>1, <2>2, <2>3 DEF StartPeer, Used
<1>2. ASSUME NEW c \in Callers, RemoveCancels(c) PROVE ThreadTypes'
  <2>1. job[c].entry \in Entries
    BY <1>2 DEF RemoveCancels, ManagerTypes, Jobs
  <2> QED BY <1>2, <2>1 DEF RemoveCancels, tableVars, Used
<1>3. CASE SleepCancels
  BY <1>3 DEF SleepCancels, tableVars, Used, ManagerTypes
<1>4. CASE SleepWaits
  BY <1>4 DEF SleepWaits, tableVars, Used, ManagerTypes
<1>5. CASE SleepStarts
  <2>1. sleeper.entry \in Entries
    BY <1>5 DEF SleepStarts, ManagerTypes
  <2>2. Used(sleeper.entry) /\ ctx[sleeper.entry] # 0
    BY <1>5, <2>1 DEF SleepStarts, SleepInv, Picked
  <2> QED BY <1>5, <2>1, <2>2 DEF SleepStarts, StartPeer, tableVars, Used
<1>6. ASSUME NEW e \in Entries, Finish(e) PROVE ThreadTypes'
  BY <1>6 DEF Finish, tableVars, Used
<1>7. ASSUME NEW e \in Entries, TakeEvent(e) PROVE ThreadTypes'
  <2>1. Head(wire[e]) \in Events
    BY <1>7, HeadTailProperties DEF TakeEvent, NetTypes
  <2> QED BY <1>7, <2>1 DEF TakeEvent, tableVars, Used
<1>8. ASSUME NEW e \in Entries, Connect(e) \/ IdleTimeout(e) \/ Retry(e) \/ HandleEvent(e)
                              \/ SpokeSubscribes(e) \/ Disconnect(e) \/ Silence(e)
      PROVE  ThreadTypes'
  BY <1>8 DEF Connect, IdleTimeout, Retry, HandleEvent, SpokeSubscribes, Disconnect, Silence,
     tableVars, threadVars, Used, Live
<1>9. CASE UNCHANGED <<threadVars, nameOf>>
  BY <1>9 DEF threadVars, Used
<1>10. ASSUME NEW c \in Callers, RemoveReads(c) \/ RemoveWaits(c) \/ RemoveByPeer(c)
       PROVE  UNCHANGED <<threadVars, nameOf>>
  BY <1>10 DEF RemoveReads, RemoveWaits, RemoveByPeer, tableVars
<1>11. ASSUME NEW c \in Callers, NEW n \in Names, RemovePeer(c, n)
       PROVE  UNCHANGED <<threadVars, nameOf>>
  BY <1>11 DEF RemovePeer
<1>12. CASE Wake \/ Stop \/ StopEnds \/ \E n \in Names : SpokeChanges(n)
  BY <1>9, <1>12 DEF Wake, Stop, StopEnds, SpokeChanges, tableVars
<1> QED BY <1>1, <1>2, <1>3, <1>4, <1>5, <1>6, <1>7, <1>8, <1>9, <1>10, <1>11, <1>12
        DEF Next, Removal, Sleep, Goroutine
LEMMA HungUp ==
  ASSUME TypeOK, NEW e \in Entries, Live(e), HangUp(e)
  PROVE  /\ wire' \in [Entries -> Seq(Events)] /\ open' \in [Entries -> BOOLEAN]
         /\ missed' \subseteq Entries /\ unseen' \subseteq Items \X Names
         /\ UNCHANGED spoke
<1>1. /\ nameOf[e] \in Names /\ wire \in [Entries -> Seq(Events)] /\ open \in [Entries -> BOOLEAN]
      /\ missed \subseteq Entries /\ unseen \subseteq Items \X Names
  BY DEF TypeOK, ManagerTypes, ThreadTypes, NetTypes, Live, Used
<1>2. Range(wire[e]) \subseteq Events
  <2>1. wire[e] \in Seq(Events)
    BY <1>1
  <2> QED BY <2>1, ElementOfSeq, LenProperties DEF Range
<1>3. <<>> \in Seq(Events)
  BY EmptySeq
<1>4. \A v \in Range(wire[e]) : v.item \in Items
  BY <1>2 DEF Events
<1>5. unseen' \subseteq Items \X Names
  BY <1>1, <1>4 DEF HangUp
<1> QED BY <1>1, <1>3, <1>5 DEF HangUp

LEMMA NetTyped == ASSUME TypeOK, Next PROVE NetTypes'
<1>1. /\ wire \in [Entries -> Seq(Events)] /\ open \in [Entries -> BOOLEAN]
      /\ store \subseteq Items \X Names /\ spoke \in [Names -> SUBSET Items]
      /\ missed \subseteq Entries /\ unseen \subseteq Items \X Names
      /\ got \in [Entries -> Events \cup {None}]
      /\ \A e \in Entries : Live(e) => nameOf[e] \in Names
  BY DEF TypeOK, ManagerTypes, ThreadTypes, NetTypes, Live, Used
<1>2. ASSUME NEW e \in Entries, Connect(e) PROVE NetTypes'
  <2>1. spoke[nameOf[e]] \subseteq Items
    BY <1>1, <1>2 DEF Connect
  <2>2. SetToSeq({[type |-> "upsert", item |-> j] : j \in spoke[nameOf[e]]}) \in Seq(Events)
    BY <2>1, FirstWords
  <2> QED BY <1>1, <1>2, <2>2 DEF Connect, NetTypes
<1>3. ASSUME NEW e \in Entries, TakeEvent(e) PROVE NetTypes'
  <2>1. wire[e] \in Seq(Events) /\ wire[e] # <<>>
    BY <1>1, <1>3 DEF TakeEvent
  <2>2. Tail(wire[e]) \in Seq(Events)
    BY <2>1, HeadTailProperties
  <2> QED BY <1>1, <1>3, <2>2 DEF TakeEvent, NetTypes
<1>4. ASSUME NEW e \in Entries, HandleEvent(e) PROVE NetTypes'
  <2>1. got[e] \in Events /\ nameOf[e] \in Names
    BY <1>1, <1>4 DEF HandleEvent
  <2>2. store' \subseteq Items \X Names
    BY <1>1, <1>4, <2>1 DEF HandleEvent, Events
  <2> QED BY <1>1, <1>4, <2>2 DEF HandleEvent, NetTypes, netVars
<1>5. ASSUME NEW e \in Entries, Finish(e) \/ Disconnect(e) \/ Silence(e) PROVE NetTypes'
  <2>1. Live(e) /\ HangUp(e) /\ UNCHANGED store
    BY <1>5 DEF Finish, Disconnect, Silence
  <2> QED BY <1>1, <2>1, HungUp DEF NetTypes
<1>6. ASSUME NEW e \in Entries, SpokeSubscribes(e) PROVE NetTypes'
  BY <1>1, <1>6 DEF SpokeSubscribes, NetTypes
<1>7. ASSUME NEW n \in Names, SpokeChanges(n) PROVE NetTypes'
  <2>1. PICK i \in OwnItems :
          LET type == IF i \in spoke[n] THEN "remove" ELSE "upsert"
              streams == {e \in Entries : nameOf[e] = n /\ run[e] # 0 /\ open[e]}
          IN /\ spoke' = [spoke EXCEPT ![n] = IF i \in @ THEN @ \ {i} ELSE @ \cup {i}]
             /\ wire' = [e \in Entries |-> IF e \in streams
                                           THEN Append(wire[e], [type |-> type, item |-> i])
                                           ELSE wire[e]]
             /\ unseen' = IF type = "remove" /\ streams = {}
                          THEN unseen \cup {<<i, n>>} ELSE unseen
    BY <1>7 DEF SpokeChanges
  <2>2. /\ i \in Items
        /\ [type |-> "remove", item |-> i] \in Events /\ [type |-> "upsert", item |-> i] \in Events
    BY DEF OwnItems, Events
  <2>3. ASSUME NEW e \in Entries, NEW f \in Events PROVE Append(wire[e], f) \in Seq(Events)
    BY <1>1, AppendProperties
  <2>4. wire' \in [Entries -> Seq(Events)]
    BY <1>1, <2>1, <2>2, <2>3
  <2>5. spoke' \in [Names -> SUBSET Items] /\ unseen' \subseteq Items \X Names
    BY <1>1, <2>1, <2>2
  <2>6. missed' \subseteq Entries /\ UNCHANGED <<open, store>>
    BY <1>1, <1>7 DEF SpokeChanges
  <2> QED BY <1>1, <2>4, <2>5, <2>6 DEF NetTypes
<1>8. ASSUME UNCHANGED netVars, store' \subseteq store PROVE NetTypes'
  BY <1>1, <1>8 DEF NetTypes, netVars
<1>9. ASSUME NEW n \in Names, AddPeer(n) \/ \E c \in Callers : RemovePeer(c, n)
      PROVE  UNCHANGED netVars /\ store' \subseteq store
  BY <1>9 DEF AddPeer, RemovePeer
<1>10. ASSUME NEW c \in Callers, Removal(c) PROVE UNCHANGED netVars /\ store' \subseteq store
  BY <1>10 DEF Removal, RemoveCancels, RemoveReads, RemoveWaits, RemoveByPeer
<1>11. ASSUME Wake \/ Sleep \/ Stop \/ StopEnds PROVE UNCHANGED netVars /\ store' \subseteq store
  BY <1>11 DEF Wake, Sleep, SleepCancels, SleepWaits, SleepStarts, Stop, StopEnds
<1>12. ASSUME NEW e \in Entries, IdleTimeout(e) \/ Retry(e)
       PROVE  UNCHANGED netVars /\ store' \subseteq store
  BY <1>12 DEF IdleTimeout, Retry
<1> QED BY <1>2, <1>3, <1>4, <1>5, <1>6, <1>7, <1>8, <1>9, <1>10, <1>11, <1>12 DEF Next, Goroutine

-----------------------------------------------------------------------------
(* The table, its goroutines and OnSleep                                   *)

LEMMA Added ==
  ASSUME TypeOK, NEW n \in Names, AddPeer(n)
  PROVE  \E e \in Entries :
           /\ ~Used(e) /\ Used(e)' /\ InTable(e)' /\ nameOf'[e] = n /\ table[n] = None
           /\ StartPeer(e, 1)
           /\ \A x \in Entries \ {e} : /\ Used(x)' = Used(x) /\ InTable(x)' = InTable(x)
                                       /\ nameOf'[x] = nameOf[x]
<1>1. PICK e \in NextEntry : /\ nameOf' = [nameOf EXCEPT ![e] = n]
                             /\ table' = [table EXCEPT ![n] = e] /\ StartPeer(e, 1)
  BY DEF AddPeer
<1>2. e \in Entries /\ ~Used(e)
  BY <1>1 DEF NextEntry
<1>3. n # None /\ table[n] = None
  BY PeeringAssumption DEF AddPeer
<1>4. Used(e)' /\ InTable(e)' /\ nameOf'[e] = n
  BY <1>1, <1>2, <1>3 DEF TypeOK, ManagerTypes, Used, InTable
<1>5. ASSUME NEW x \in Entries \ {e}
      PROVE  Used(x)' = Used(x) /\ InTable(x)' = InTable(x) /\ nameOf'[x] = nameOf[x]
  <2>1. nameOf'[x] = nameOf[x] /\ x # None
    BY <1>1, <1>2, PeeringAssumption DEF TypeOK, ManagerTypes
  <2>2. CASE nameOf[x] = n
    BY <1>1, <1>2, <1>3, <2>1, <2>2 DEF TypeOK, ManagerTypes, Used, InTable
  <2>3. CASE nameOf[x] # n
    BY <1>1, <2>1, <2>3 DEF TypeOK, ManagerTypes, Used, InTable
  <2> QED BY <2>2, <2>3
<1> QED BY <1>1, <1>2, <1>3, <1>4, <1>5

LEMMA TakenOut ==
  ASSUME TypeOK, NEW c \in Callers, NEW n \in Names, RemovePeer(c, n)
  PROVE  /\ table[n] \in Entries /\ InTable(table[n]) /\ nameOf[table[n]] = n /\ UNCHANGED nameOf
         /\ \A x \in Entries : /\ Used(x)' = Used(x)
                               /\ InTable(x)' = (InTable(x) /\ x # table[n])
<1>1. table[n] \in Entries /\ nameOf[table[n]] = n /\ UNCHANGED nameOf /\ n # None
  BY PeeringAssumption DEF TypeOK, ManagerTypes, RemovePeer
<1>2. InTable(table[n])
  BY <1>1 DEF InTable, Used
<1>3. table' = [table EXCEPT ![n] = None]
  BY DEF RemovePeer
<1>4. ASSUME NEW x \in Entries PROVE InTable(x)' = (InTable(x) /\ x # table[n])
  <2>1. x # None
    BY PeeringAssumption
  <2>2. CASE nameOf[x] = n
    BY <1>1, <1>3, <2>1, <2>2 DEF InTable, Used, TypeOK, ManagerTypes
  <2>3. CASE nameOf[x] # n
    BY <1>1, <1>3, <2>1, <2>3 DEF InTable, Used, TypeOK, ManagerTypes
  <2> QED BY <2>2, <2>3
<1> QED BY <1>1, <1>2, <1>4 DEF Used

LEMMA SleepKept ==
  ASSUME TypeOK, SleepInv, RunInv, Next
  PROVE  SleepInv'
<1>1. /\ ctx \in [Entries -> Nat] /\ done \in [Entries -> Nat] /\ run \in [Entries -> Nat]
      /\ sleeper.entry \in Entries \cup {None} /\ sleeper.todo \subseteq Entries /\ None \notin Entries
      /\ sleeper.step = "idle" <=> sleeper.entry = None
      /\ sleeper \in [todo : SUBSET Entries, entry : Entries \cup {None},
                      step : {"idle", "wait", "go"}, seen : Nat]
  BY PeeringAssumption DEF TypeOK, ManagerTypes, ThreadTypes
<1>2. sleeper.step # "idle" => Used(sleeper.entry) /\ sleeper.entry \in Entries
  BY <1>1 DEF SleepInv, Picked
<1>3. ASSUME NEW n \in Names, AddPeer(n) PROVE SleepInv'
  <2>1. UNCHANGED <<sleeper, slept>>
    BY <1>3 DEF AddPeer
  <2>2. PICK e \in Entries :
          /\ ~Used(e) /\ StartPeer(e, 1)
          /\ \A x \in Entries \ {e} : Used(x)' = Used(x) /\ InTable(x)' = InTable(x)
    BY <1>3, Added
  <2>3. \A x \in Entries : Picked(x)' = Picked(x) /\ (Picked(x) => x # e)
    BY <2>1, <2>2 DEF SleepInv, Picked
  <2>4. sleeper.step # "idle" => /\ done'[sleeper.entry] = done[sleeper.entry]
                                 /\ run'[sleeper.entry] = run[sleeper.entry]
                                 /\ ctx'[sleeper.entry] = ctx[sleeper.entry]
    BY <1>1, <1>2, <2>2 DEF StartPeer
  <2> QED BY <2>1, <2>2, <2>3, <2>4 DEF SleepInv
<1>4. ASSUME NEW c \in Callers, NEW n \in Names, RemovePeer(c, n) PROVE SleepInv'
  <2>1. /\ UNCHANGED <<sleeper, threadVars>>
        /\ (Picked(table[n]) => table[n] \in slept') /\ slept \subseteq slept'
    BY <1>4 DEF RemovePeer
  <2>2. \A x \in Entries : Used(x)' = Used(x) /\ InTable(x)' = (InTable(x) /\ x # table[n])
    BY <1>4, TakenOut
  <2> QED BY <2>1, <2>2 DEF SleepInv, Picked, threadVars
<1>5. CASE Wake
  <2>1. /\ sleeper'.todo = {table[n] : n \in Names} \ {None}
        /\ sleeper'.entry = None /\ sleeper'.step = "idle"
    BY <1>5 DEF Wake, IdleSleep
  <2>2. ASSUME NEW n \in Names, table[n] # None PROVE Used(table[n]) /\ InTable(table[n])
    BY <2>2, PeeringAssumption DEF TypeOK, ManagerTypes, Used, InTable
  <2>3. UNCHANGED <<tableVars, slept>>
    BY <1>5 DEF Wake, histVars
  <2> QED BY <1>1, <2>1, <2>2, <2>3 DEF SleepInv, Picked, tableVars, Used, InTable
<1>6. CASE SleepCancels
  <2>1. PICK e \in sleeper.todo :
          sleeper' = [todo |-> sleeper.todo \ {e}, entry |-> e, step |-> "wait", seen |-> done[e]]
    BY <1>6 DEF SleepCancels
  <2>2. UNCHANGED <<tableVars, slept, done>> /\ sleeper.entry = None
    BY <1>6 DEF SleepCancels, histVars
  <2>3. \A x \in Entries : Picked(x)' => Picked(x)
    BY <1>1, <2>1 DEF Picked
  <2> QED BY <2>1, <2>2, <2>3 DEF SleepInv, tableVars, Used, InTable
<1>7. CASE SleepWaits
  <2>1. /\ sleeper' = [sleeper EXCEPT !.step = "go"] /\ sleeper.step = "wait"
        /\ Ended(sleeper.entry, sleeper.seen)
    BY <1>7 DEF SleepWaits
  <2>2. UNCHANGED <<tableVars, slept, run>> /\ ctx' = [ctx EXCEPT ![sleeper.entry] = @ + 1]
    BY <1>7 DEF SleepWaits, histVars
  <2>3. run[sleeper.entry] = 0
    BY <1>1, <1>2, <2>1 DEF SleepInv, RunInv, Ended
  <2>4. /\ sleeper'.entry = sleeper.entry /\ sleeper'.todo = sleeper.todo /\ sleeper'.step = "go"
        /\ ctx'[sleeper.entry] # 0
    BY <1>1, <1>2, <2>1, <2>2
  <2> QED BY <2>2, <2>3, <2>4 DEF SleepInv, Picked, tableVars, Used, InTable
<1>8. CASE SleepStarts
  <2>1. sleeper'.todo = sleeper.todo /\ sleeper'.step = "idle" /\ sleeper'.entry = None
    BY <1>1, <1>8 DEF SleepStarts
  <2>2. UNCHANGED <<tableVars, slept>>
    BY <1>8 DEF SleepStarts, histVars
  <2> QED BY <1>1, <2>1, <2>2 DEF SleepInv, Picked, tableVars, Used, InTable
<1>9. ASSUME NEW e \in Entries, Finish(e) PROVE SleepInv'
  <2>1. UNCHANGED <<tableVars, slept, sleeper, ctx, done>> /\ run' = [run EXCEPT ![e] = 0]
    BY <1>9 DEF Finish, histVars
  <2>2. sleeper.step = "go" => run'[sleeper.entry] = 0
    BY <1>1, <1>2, <2>1 DEF SleepInv
  <2> QED BY <2>1, <2>2 DEF SleepInv, Picked, tableVars, Used, InTable
<1>10. CASE UNCHANGED <<tableVars, slept, sleeper, ctx, done, run>>
  BY <1>10 DEF SleepInv, Picked, tableVars, Used, InTable
<1>11. ASSUME NEW c \in Callers, Removal(c)
       PROVE  UNCHANGED <<tableVars, slept, sleeper, ctx, done, run>>
  BY <1>11 DEF Removal, RemoveCancels, RemoveReads, RemoveWaits, RemoveByPeer, threadVars, histVars
<1>12. ASSUME NEW n \in Names, SpokeChanges(n)
       PROVE  UNCHANGED <<tableVars, slept, sleeper, ctx, done, run>>
  BY <1>12 DEF SpokeChanges, threadVars, histVars
<1>13. ASSUME NEW e \in Entries, \/ Connect(e) \/ IdleTimeout(e) \/ Retry(e) \/ TakeEvent(e)
                                 \/ HandleEvent(e) \/ SpokeSubscribes(e) \/ Disconnect(e) \/ Silence(e)
       PROVE  UNCHANGED <<tableVars, slept, sleeper, ctx, done, run>>
  BY <1>13 DEF Connect, IdleTimeout, Retry, TakeEvent, HandleEvent, SpokeSubscribes, Disconnect,
     Silence,
     threadVars, histVars
<1>14. CASE Stop \/ StopEnds
  BY <1>10, <1>14 DEF Stop, StopEnds, threadVars, histVars
<1> QED BY <1>3, <1>4, <1>5, <1>6, <1>7, <1>8, <1>9, <1>10, <1>11, <1>12, <1>13, <1>14
        DEF Next, Sleep, Goroutine

LEMMA RunKept ==
  ASSUME TypeOK, RemovalInv, Next
  PROVE  RunInv'
<1>1. /\ ctx \in [Entries -> Nat] /\ done \in [Entries -> Nat] /\ run \in [Entries -> Nat]
      /\ job \in [Callers -> Jobs] /\ None \notin Entries
  BY PeeringAssumption DEF TypeOK, ManagerTypes, ThreadTypes
<1> USE DEF RemovalInv
<1>2. ASSUME NEW n \in Names, AddPeer(n) PROVE RunInv'
  <2>1. UNCHANGED <<job, slept>>
    BY <1>2 DEF AddPeer
  <2>2. PICK e \in Entries :
          /\ StartPeer(e, 1) /\ InTable(e)'
          /\ \A x \in Entries \ {e} : InTable(x)' = InTable(x)
    BY <1>2, Added
  <2> QED BY <1>1, <2>1, <2>2 DEF RunInv, Accounted, Removing, StartPeer
<1>3. ASSUME NEW c \in Callers, NEW n \in Names, RemovePeer(c, n) PROVE RunInv'
  <2>1. /\ UNCHANGED threadVars /\ slept \subseteq slept' /\ job[c].step = "idle"
        /\ job' = [job EXCEPT ![c] = [step |-> "cancel", entry |-> table[n], seen |-> 0]]
    BY <1>3 DEF RemovePeer
  <2>2. \A x \in Entries : InTable(x)' = (InTable(x) /\ x # table[n])
    BY <1>3, TakenOut
  <2>3. job'[c].step \notin {"idle", "sessions"} /\ job'[c].entry = table[n]
    BY <1>1, <2>1
  <2>4. \A d \in Callers : job[d].step # "idle" => job'[d] = job[d]
    BY <1>1, <2>1
  <2>5. ASSUME NEW x \in Entries, Accounted(x) PROVE Accounted(x)'
    <3>1. CASE x = table[n]
      BY <2>3, <3>1 DEF Accounted, Removing
    <3>2. CASE x # table[n] /\ (InTable(x) \/ x \in slept)
      BY <2>1, <2>2, <3>2 DEF Accounted
    <3>3. ASSUME NEW d \in Callers, Removing(d, x), job[d].step # "sessions" PROVE Accounted(x)'
      BY <2>4, <3>3 DEF Accounted, Removing
    <3> QED BY <2>5, <3>1, <3>2, <3>3 DEF Accounted
  <2> QED BY <2>1, <2>5 DEF RunInv, threadVars
<1>4. ASSUME NEW c \in Callers, Removal(c) PROVE RunInv'
  <2>1. UNCHANGED <<tableVars, run, done, slept>>
    BY <1>4 DEF Removal, RemoveCancels, RemoveReads, RemoveWaits, RemoveByPeer, threadVars,
       histVars
  <2>2. \A d \in Callers \ {c} : job'[d] = job[d]
    BY <1>1, <1>4 DEF Removal, RemoveCancels, RemoveReads, RemoveWaits, RemoveByPeer
  <2>3. CASE RemoveCancels(c) \/ RemoveReads(c)
    <3>1. job'[c].step \notin {"idle", "sessions"} /\ job'[c].entry = job[c].entry
      BY <1>1, <2>3 DEF RemoveCancels, RemoveReads, Jobs
    <3> QED BY <2>1, <2>2, <3>1 DEF RunInv, Accounted, Removing, tableVars, Used, InTable
  <2>4. CASE RemoveWaits(c) \/ RemoveByPeer(c)
    <3> DEFINE e == job[c].entry
    <3>1. e \in Entries /\ (e \in slept \/ run[e] = 0)
      <4>1. e \in Entries
        BY <1>1, <2>4 DEF RemoveWaits, RemoveByPeer, TypeOK, ManagerTypes, Jobs
      <4>2. CASE RemoveByPeer(c)
        BY <4>1, <4>2 DEF RemoveByPeer, Removal1
      <4>3. CASE RemoveWaits(c)
        BY <1>1, <4>1, <4>3 DEF RemoveWaits, Removal1, Ended, RunInv
      <4> QED BY <2>4, <4>1, <4>2, <4>3
    <3>2. \A x \in Entries : run[x] # 0 /\ x \notin slept => x # e
      BY <3>1
    <3> QED BY <2>1, <2>2, <3>2 DEF RunInv, Accounted, Removing, tableVars, Used, InTable
  <2> QED BY <1>4, <2>3, <2>4 DEF Removal
<1>5. CASE SleepStarts
  <2> DEFINE e == sleeper.entry
  <2>1. e \in Entries /\ (InTable(e) \/ e \in slept)
    BY <1>5 DEF SleepStarts, SleepInv, Picked, TypeOK, ManagerTypes
  <2>2. UNCHANGED <<tableVars, job, slept>> /\ StartPeer(e, ctx[e])
    BY <1>5 DEF SleepStarts, histVars
  <2> QED BY <1>1, <2>1, <2>2 DEF RunInv, Accounted, Removing, StartPeer, tableVars, Used, InTable
<1>6. ASSUME NEW e \in Entries, Finish(e) PROVE RunInv'
  <2>1. UNCHANGED <<tableVars, job, slept, done>> /\ run' = [run EXCEPT ![e] = 0]
    BY <1>6 DEF Finish, histVars
  <2> QED BY <1>1, <2>1 DEF RunInv, Accounted, Removing, tableVars, Used, InTable
<1>7. CASE UNCHANGED <<tableVars, job, slept, done, run>>
  BY <1>7 DEF RunInv, Accounted, Removing, tableVars, Used, InTable
<1>8. ASSUME NEW n \in Names, SpokeChanges(n) PROVE UNCHANGED <<tableVars, job, slept, done, run>>
  BY <1>8 DEF SpokeChanges, threadVars, histVars
<1>9. ASSUME NEW e \in Entries, \/ Connect(e) \/ IdleTimeout(e) \/ Retry(e) \/ TakeEvent(e)
                                \/ HandleEvent(e) \/ SpokeSubscribes(e) \/ Disconnect(e) \/ Silence(e)
      PROVE  UNCHANGED <<tableVars, job, slept, done, run>>
  BY <1>9 DEF Connect, IdleTimeout, Retry, TakeEvent, HandleEvent, SpokeSubscribes, Disconnect,
     Silence,
     threadVars, histVars
<1>10. CASE Stop \/ StopEnds \/ Wake \/ SleepCancels \/ SleepWaits
  BY <1>7, <1>10 DEF Stop, StopEnds, Wake, SleepCancels, SleepWaits, threadVars, histVars
<1> QED BY <1>2, <1>3, <1>4, <1>5, <1>6, <1>7, <1>8, <1>9, <1>10 DEF Next, Sleep, Goroutine

LEMMA JobsKept ==
  ASSUME TypeOK, RemovalInv, Next
  PROVE  \A c \in Callers : Removal1(c)'
<1>1. /\ done \in [Entries -> Nat] /\ run \in [Entries -> Nat]
      /\ job \in [Callers -> Jobs] /\ None \notin Entries /\ nameOf \in [Entries -> Names \cup {None}]
      /\ \A c \in Callers : job[c].step # "idle" => job[c].entry \in Entries
  BY PeeringAssumption DEF TypeOK, ManagerTypes, ThreadTypes, Jobs
<1> USE DEF RemovalInv
<1>2. ASSUME NEW n \in Names, AddPeer(n) PROVE \A c \in Callers : Removal1(c)'
  <2>1. /\ UNCHANGED <<job, slept>> /\ blurred \subseteq blurred'
        /\ (\E c \in Callers : job[c].step # "idle" /\ nameOf[job[c].entry] = n) => n \in blurred'
        /\ \A x \in Names \ {n} : table'[x] = table[x]
    BY <1>2 DEF AddPeer, TypeOK, ManagerTypes
  <2>2. PICK e \in Entries :
          /\ ~Used(e) /\ StartPeer(e, 1)
          /\ \A x \in Entries \ {e} : /\ Used(x)' = Used(x) /\ InTable(x)' = InTable(x)
                                      /\ nameOf'[x] = nameOf[x]
    BY <1>2, Added
  <2>3. ASSUME NEW c \in Callers, job[c].step # "idle" PROVE Removal1(c)'
    <3> DEFINE x == job[c].entry
    <3>1. x \in Entries \ {e} /\ Used(x)
      BY <1>1, <2>2, <2>3 DEF Removal1
    <3>2. done'[x] = done[x] /\ run'[x] = run[x]
      BY <1>1, <2>2, <3>1 DEF StartPeer
    <3>3. nameOf[x] \in Names /\ nameOf'[x] = nameOf[x]
      BY <1>1, <2>2, <3>1 DEF Used
    <3>4. table'[nameOf[x]] # None => nameOf[x] \in blurred'
      BY <2>1, <2>3, <3>3 DEF Removal1
    <3> QED BY <2>1, <2>2, <2>3, <3>1, <3>2, <3>3, <3>4 DEF Removal1
  <2> QED BY <2>1, <2>3 DEF Removal1
<1>3. ASSUME NEW d \in Callers, NEW n \in Names, RemovePeer(d, n)
      PROVE  \A c \in Callers : Removal1(c)'
  <2>1. /\ UNCHANGED <<threadVars, blurred>> /\ slept \subseteq slept' /\ job[d].step = "idle"
        /\ job' = [job EXCEPT ![d] = [step |-> "cancel", entry |-> table[n], seen |-> 0]]
        /\ table' = [table EXCEPT ![n] = None]
    BY <1>3 DEF RemovePeer, histVars
  <2>2. /\ table[n] \in Entries /\ InTable(table[n]) /\ nameOf[table[n]] = n /\ UNCHANGED nameOf
        /\ \A x \in Entries : Used(x)' = Used(x) /\ InTable(x)' = (InTable(x) /\ x # table[n])
    BY <1>3, TakenOut
  <2>3. table'[n] = None /\ \A x \in Names : table'[x] # None => table'[x] = table[x]
    BY <2>1 DEF TypeOK, ManagerTypes
  <2>4. Removal1(d)'
    <3>1. job'[d].step = "cancel" /\ job'[d].entry = table[n]
      BY <1>1, <2>1
    <3> QED BY <2>2, <2>3, <3>1 DEF Removal1, InTable
  <2>5. ASSUME NEW c \in Callers \ {d} PROVE Removal1(c)'
    <3>1. job'[c] = job[c]
      BY <1>1, <2>1
    <3>2. job[c].step # "idle" => nameOf[job[c].entry] \in Names
      BY <1>1 DEF Removal1, Used
    <3> QED BY <1>1, <2>1, <2>2, <2>3, <3>1, <3>2 DEF Removal1, threadVars
  <2> QED BY <2>4, <2>5
<1>4. ASSUME NEW d \in Callers, Removal(d) PROVE \A c \in Callers : Removal1(c)'
  <2>1. UNCHANGED <<tableVars, run, done, slept, blurred>>
    BY <1>4 DEF Removal, RemoveCancels, RemoveReads, RemoveWaits, RemoveByPeer, threadVars,
       histVars
  <2>2. \A c \in Callers \ {d} : job'[c] = job[c]
    BY <1>1, <1>4 DEF Removal, RemoveCancels, RemoveReads, RemoveWaits, RemoveByPeer
  <2>3. CASE RemoveByPeer(d)
    <3>1. job'[d].step = "idle"
      BY <1>1, <2>3 DEF RemoveByPeer, IdleJob
    <3> QED BY <2>1, <2>2, <3>1 DEF Removal1, tableVars, Used, InTable
  <2>4. CASE RemoveCancels(d) \/ RemoveReads(d) \/ RemoveWaits(d)
    <3>1. job[d].step # "idle" /\ job'[d].entry = job[d].entry
      BY <1>1, <2>4 DEF RemoveCancels, RemoveReads, RemoveWaits, Jobs
    <3>2. job'[d].step = "wait" => job'[d].seen = done[job[d].entry]
      BY <1>1, <2>4 DEF RemoveCancels, RemoveReads, RemoveWaits, Jobs
    <3>3. job'[d].step = "sessions" /\ job[d].entry \notin slept => run[job[d].entry] = 0
      BY <1>1, <2>4 DEF RemoveCancels, RemoveReads, RemoveWaits, Jobs, Ended, Removal1, RunInv
    <3> QED BY <2>1, <2>2, <3>1, <3>2, <3>3 DEF Removal1, tableVars, Used, InTable
  <2> QED BY <1>4, <2>3, <2>4 DEF Removal
<1>5. CASE SleepStarts
  <2> DEFINE e == sleeper.entry
  <2>1. e \in Entries /\ (InTable(e) \/ e \in slept)
    BY <1>5 DEF SleepStarts, SleepInv, Picked, TypeOK, ManagerTypes
  <2>2. UNCHANGED <<tableVars, job, slept, blurred>> /\ StartPeer(e, ctx[e])
    BY <1>5 DEF SleepStarts, histVars
  <2>3. \A x \in Entries \ {e} : done'[x] = done[x] /\ run'[x] = run[x]
    BY <1>1, <2>2 DEF StartPeer
  <2> QED BY <1>1, <2>1, <2>2, <2>3 DEF Removal1, tableVars, Used, InTable
<1>6. ASSUME NEW e \in Entries, Finish(e) PROVE \A c \in Callers : Removal1(c)'
  <2>1. UNCHANGED <<tableVars, job, slept, blurred, done>> /\ run' = [run EXCEPT ![e] = 0]
    BY <1>6 DEF Finish, histVars
  <2> QED BY <1>1, <2>1 DEF Removal1, tableVars, Used, InTable
<1>7. CASE UNCHANGED <<tableVars, job, slept, blurred, done, run>>
  BY <1>7 DEF Removal1, tableVars, Used, InTable
<1>8. ASSUME NEW n \in Names, SpokeChanges(n)
      PROVE  UNCHANGED <<tableVars, job, slept, blurred, done, run>>
  BY <1>8 DEF SpokeChanges, threadVars, histVars
<1>9. ASSUME NEW e \in Entries, \/ Connect(e) \/ IdleTimeout(e) \/ Retry(e) \/ TakeEvent(e)
                                \/ HandleEvent(e) \/ SpokeSubscribes(e) \/ Disconnect(e) \/ Silence(e)
      PROVE  UNCHANGED <<tableVars, job, slept, blurred, done, run>>
  BY <1>9 DEF Connect, IdleTimeout, Retry, TakeEvent, HandleEvent, SpokeSubscribes, Disconnect,
     Silence,
     threadVars, histVars
<1>10. CASE Stop \/ StopEnds \/ Wake \/ SleepCancels \/ SleepWaits
  BY <1>7, <1>10 DEF Stop, StopEnds, Wake, SleepCancels, SleepWaits, threadVars, histVars
<1> QED BY <1>2, <1>3, <1>4, <1>5, <1>6, <1>7, <1>8, <1>9, <1>10 DEF Next, Sleep, Goroutine

LEMMA StoreKept ==
  ASSUME TypeOK, RemovalInv, Next
  PROVE  StoreInv'
<1>1. /\ job \in [Callers -> Jobs] /\ table \in [Names -> Entries \cup {None}]
      /\ nameOf \in [Entries -> Names \cup {None}] /\ None \notin Entries /\ None \notin Names
      /\ \A k \in store : k[2] \in Names
      /\ \A c \in Callers : job[c].step # "idle" => job[c].entry \in Entries /\ Used(job[c].entry)
  BY PeeringAssumption DEF TypeOK, ManagerTypes, NetTypes, Jobs, RemovalInv, Removal1
<1> USE DEF RemovalInv
<1>2. ASSUME NEW n \in Names, AddPeer(n) PROVE StoreInv'
  <2>1. UNCHANGED <<store, job, slept>>
    BY <1>2 DEF AddPeer
  <2>2. \A x \in Names : table[x] # None => table'[x] # None
    BY <1>1, <1>2 DEF AddPeer, NextEntry
  <2>3. PICK e \in Entries : ~Used(e) /\ \A x \in Entries \ {e} : nameOf'[x] = nameOf[x]
    BY <1>2, Added
  <2>4. ASSUME NEW x \in Names, Claimed(x) PROVE Claimed(x)'
    <3>1. ASSUME NEW y \in slept, nameOf[y] = x PROVE Claimed(x)'
      BY <1>1, <2>1, <2>3, <2>4, <3>1 DEF Claimed, Used, TypeOK, ManagerTypes
    <3>2. ASSUME NEW c \in Callers, job[c].step # "idle", nameOf[job[c].entry] = x PROVE Claimed(x)'
      BY <1>1, <2>1, <2>3, <3>2 DEF Claimed
    <3> QED BY <2>2, <2>4, <3>1, <3>2 DEF Claimed
  <2> QED BY <1>1, <2>1, <2>4 DEF StoreInv
<1>3. ASSUME NEW d \in Callers, NEW n \in Names, RemovePeer(d, n) PROVE StoreInv'
  <2>1. /\ UNCHANGED <<store, nameOf>> /\ slept \subseteq slept' /\ job[d].step = "idle"
        /\ job' = [job EXCEPT ![d] = [step |-> "cancel", entry |-> table[n], seen |-> 0]]
        /\ table' = [table EXCEPT ![n] = None]
    BY <1>3 DEF RemovePeer, histVars
  <2>2. job'[d].step # "idle" /\ nameOf'[job'[d].entry] = n
    BY <1>1, <1>3, <2>1, TakenOut
  <2>3. \A c \in Callers : job[c].step # "idle" => job'[c] = job[c]
    BY <1>1, <2>1
  <2>4. ASSUME NEW x \in Names, Claimed(x) PROVE Claimed(x)'
    <3>1. CASE x = n
      BY <2>2, <3>1 DEF Claimed
    <3>2. CASE x # n
      BY <1>1, <2>1, <2>3, <2>4, <3>2 DEF Claimed
    <3> QED BY <3>1, <3>2
  <2> QED BY <1>1, <2>1, <2>4 DEF StoreInv
<1>4. ASSUME NEW d \in Callers, RemoveCancels(d) \/ RemoveReads(d) \/ RemoveWaits(d) PROVE StoreInv'
  <2>1. UNCHANGED <<store, tableVars, slept>>
    BY <1>4 DEF RemoveCancels, RemoveReads, RemoveWaits, histVars
  <2>2. \A c \in Callers :
          /\ job'[c].entry = job[c].entry
          /\ job[c].step # "idle" => job'[c].step # "idle"
    BY <1>1, <1>4 DEF RemoveCancels, RemoveReads, RemoveWaits, Jobs
  <2>3. ASSUME NEW x \in Names, Claimed(x) PROVE Claimed(x)'
    <3>1. CASE table[x] # None \/ \E y \in slept : nameOf[y] = x
      BY <2>1, <3>1 DEF Claimed, tableVars
    <3>2. ASSUME NEW c \in Callers, job[c].step # "idle", nameOf[job[c].entry] = x PROVE Claimed(x)'
      BY <2>1, <2>2, <3>2 DEF Claimed, tableVars
    <3> QED BY <2>3, <3>1, <3>2 DEF Claimed
  <2> QED BY <1>1, <2>1, <2>3 DEF StoreInv
<1>5. ASSUME NEW d \in Callers, RemoveByPeer(d) PROVE StoreInv'
  <2>1. UNCHANGED <<tableVars, slept>> /\ store' = {k \in store : k[2] # nameOf[job[d].entry]}
    BY <1>5 DEF RemoveByPeer, histVars
  <2>2. \A c \in Callers \ {d} : job'[c] = job[c]
    BY <1>1, <1>5 DEF RemoveByPeer
  <2>3. \A x \in Names : Claimed(x) /\ x # nameOf[job[d].entry] => Claimed(x)'
    BY <2>1, <2>2 DEF Claimed, tableVars
  <2> QED BY <1>1, <2>1, <2>3 DEF StoreInv
<1>6. CASE StopEnds
  BY <1>6 DEF StopEnds, StoreInv, Claimed, tableVars, histVars
<1>7. ASSUME NEW e \in Entries, HandleEvent(e) PROVE StoreInv'
  <2>1. /\ UNCHANGED <<tableVars, slept, job>> /\ run[e] # 0
        /\ \A k \in store' : k \in store \/ k = <<got[e].item, nameOf[e]>>
    BY <1>7 DEF HandleEvent, histVars, Live
  <2>2. Claimed(nameOf[e])
    <3>1. Used(e) /\ Accounted(e)
      BY <2>1 DEF RunInv, TypeOK, ThreadTypes
    <3> QED BY <1>1, <3>1 DEF Accounted, Claimed, Removing, InTable
  <2>3. \A x : Claimed(x)' = Claimed(x)
    BY <2>1 DEF Claimed, tableVars
  <2> QED BY <2>1, <2>2, <2>3 DEF StoreInv
<1>8. CASE UNCHANGED <<store, tableVars, slept, job>>
  BY <1>8 DEF StoreInv, Claimed, tableVars
<1>9. ASSUME NEW n \in Names, SpokeChanges(n) PROVE UNCHANGED <<store, tableVars, slept, job>>
  BY <1>9 DEF SpokeChanges, histVars
<1>10. ASSUME NEW e \in Entries, \/ Connect(e) \/ IdleTimeout(e) \/ Retry(e) \/ TakeEvent(e) \/ Finish(e)
                                 \/ SpokeSubscribes(e) \/ Disconnect(e) \/ Silence(e)
       PROVE  UNCHANGED <<store, tableVars, slept, job>>
  BY <1>10 DEF Connect, IdleTimeout, Retry, TakeEvent, Finish, SpokeSubscribes, Disconnect,
     Silence, histVars
<1>11. CASE Stop \/ Wake \/ Sleep
  BY <1>8, <1>11 DEF Stop, Wake, Sleep, SleepCancels, SleepWaits, SleepStarts, histVars
<1> QED BY <1>2, <1>3, <1>4, <1>5, <1>6, <1>7, <1>8, <1>9, <1>10, <1>11
   DEF Next, Removal, Goroutine

-----------------------------------------------------------------------------
(* The streams                                                             *)

(* A name that is neither blurred nor of a peer that OnSleep started again *)
(* has one goroutine at most: that of its entry in the table.              *)
LEMMA OneStream ==
  ASSUME TypeOK, RemovalInv, NEW x \in Entries, InTable(x), Clear(nameOf[x]),
         NEW y \in Entries, run[y] # 0, nameOf[y] = nameOf[x]
  PROVE  y = x
<1>1. Accounted(y) /\ table[nameOf[x]] = x /\ x # None
  BY PeeringAssumption DEF RemovalInv, RunInv, InTable
<1>2. y \notin slept /\ nameOf[x] \notin blurred
  BY DEF Clear
<1>3. ASSUME NEW c \in Callers, Removing(c, y) PROVE FALSE
  BY <1>1, <1>2, <1>3 DEF RemovalInv, Removal1, Removing
<1> QED BY <1>1, <1>2, <1>3 DEF Accounted, InTable

(* What Follows(e, i) depends on.                                          *)
LEMMA FollowsKept ==
  ASSUME NEW e \in Entries, NEW i \in OwnItems, Follows(e, i),
         nameOf'[e] = nameOf[e], wire'[e] = wire[e], got'[e] = got[e],
         i \in spoke'[nameOf[e]] <=> i \in spoke[nameOf[e]],
         <<i, nameOf[e]>> \in unseen => <<i, nameOf[e]>> \in unseen',
         <<i, nameOf[e]>> \in store' => <<i, nameOf[e]>> \in store,
         phase'[e] = "streaming" /\ e \notin missed' =>
           /\ phase[e] = "streaming" /\ e \notin missed
           /\ <<i, nameOf[e]>> \in store => <<i, nameOf[e]>> \in store'
  PROVE  Follows(e, i)'
<1> DEFINE n == nameOf[e]
<1>1. /\ Tells(e, i, "upsert")' = Tells(e, i, "upsert")
      /\ Tells(e, i, "remove")' = Tells(e, i, "remove")
      /\ NothingPending(e, i)' = NothingPending(e, i)
  BY DEF Tells, NothingPending, LastWord, Silent
<1>2. /\ phase[e] = "streaming" /\ e \notin missed /\ i \in spoke[n] =>
           Tells(e, i, "upsert") \/ (<<i, n>> \in store /\ NothingPending(e, i))
      /\ i \notin spoke[n] /\ <<i, n>> \notin unseen =>
           Tells(e, i, "remove") \/ (<<i, n>> \notin store /\ NothingPending(e, i))
  BY DEF Follows
<1> QED BY <1>1, <1>2 DEF Follows

LEMMA DownKept == ASSUME TypeOK, RemovalInv, StreamInv, Next PROVE \A e \in Entries : Down(e)'
<1>1. /\ \A e \in Entries : Down(e)
      /\ wire \in [Entries -> Seq(Events)] /\ open \in [Entries -> BOOLEAN] /\ run \in [Entries -> Nat]
      /\ got \in [Entries -> Events \cup {None}] /\ missed \subseteq Entries
      /\ phase \in [Entries -> {"connecting", "streaming", "silent", "backoff", "over"}]
      /\ \A e \in Entries : (run[e] = 0 <=> phase[e] = "over") /\ (run[e] # 0 => Used(e))
  BY DEF StreamInv, TypeOK, ThreadTypes, NetTypes
<1>2. ASSUME NEW n \in Names, AddPeer(n) PROVE \A e \in Entries : Down(e)'
  <2>1. PICK e \in Entries : ~Used(e) /\ StartPeer(e, 1)
    BY <1>2, Added
  <2>2. UNCHANGED <<wire, got, open, missed>>
    BY <1>2 DEF AddPeer, netVars
  <2> QED BY <1>1, <2>1, <2>2 DEF Down, StartPeer
<1>3. CASE SleepStarts
  <2>1. run[sleeper.entry] = 0 /\ sleeper.entry \in Entries
    BY <1>3 DEF SleepStarts, RemovalInv, SleepInv, TypeOK, ManagerTypes
  <2>2. UNCHANGED <<wire, got, open, missed>> /\ StartPeer(sleeper.entry, ctx[sleeper.entry])
    BY <1>3 DEF SleepStarts, netVars
  <2> QED BY <1>1, <2>1, <2>2 DEF Down, StartPeer
<1>4. ASSUME NEW e \in Entries, Finish(e) \/ Disconnect(e) \/ Silence(e)
      PROVE  \A x \in Entries : Down(x)'
  <2>1. /\ HangUp(e) /\ got[e] = None /\ UNCHANGED got
        /\ \A x \in Entries \ {e} : phase'[x] = phase[x]
    BY <1>1, <1>4 DEF Finish, Disconnect, Silence
  <2> QED BY <1>1, <2>1 DEF Down, HangUp
<1>5. ASSUME NEW e \in Entries, IdleTimeout(e) \/ Retry(e) PROVE \A x \in Entries : Down(x)'
  BY <1>1, <1>5 DEF IdleTimeout, Retry, Down, netVars
<1>6. ASSUME NEW e \in Entries, Connect(e) \/ TakeEvent(e) \/ HandleEvent(e) \/ SpokeSubscribes(e)
      PROVE  \A x \in Entries : Down(x)'
  <2>1. /\ phase[e] = "streaming" \/ phase'[e] = "streaming"
        /\ phase[e] = "streaming" => phase'[e] = "streaming"
    BY <1>1, <1>6 DEF Connect, TakeEvent, HandleEvent, SpokeSubscribes, Down, threadVars
  <2>2. /\ missed' = missed
        /\ \A x \in Entries \ {e} : /\ wire'[x] = wire[x] /\ got'[x] = got[x]
                                    /\ phase'[x] = phase[x] /\ open'[x] = open[x]
    BY <1>1, <1>6 DEF Connect, TakeEvent, HandleEvent, SpokeSubscribes, threadVars, netVars
  <2> QED BY <1>1, <2>1, <2>2 DEF Down
<1>7. ASSUME NEW n \in Names, SpokeChanges(n) PROVE \A x \in Entries : Down(x)'
  <2>1. /\ UNCHANGED <<phase, got, open>>
        /\ \A x \in missed' : x \in missed \/ phase[x] = "streaming"
        /\ \A x \in Entries : ~open[x] => wire'[x] = wire[x]
    BY <1>7 DEF SpokeChanges, threadVars
  <2> QED BY <1>1, <2>1 DEF Down
<1>8. CASE UNCHANGED <<wire, got, phase, open, missed>>
  BY <1>1, <1>8 DEF Down
<1>9. ASSUME NEW c \in Callers, Removal(c) \/ \E n \in Names : RemovePeer(c, n)
      PROVE  UNCHANGED <<wire, got, phase, open, missed>>
  BY <1>9 DEF Removal, RemoveCancels, RemoveReads, RemoveWaits, RemoveByPeer, RemovePeer,
     threadVars,
     netVars
<1>10. CASE Wake \/ SleepCancels \/ SleepWaits \/ Stop \/ StopEnds
  BY <1>8, <1>10 DEF Wake, SleepCancels, SleepWaits, Stop, StopEnds, threadVars, netVars
<1> QED BY <1>2, <1>3, <1>4, <1>5, <1>6, <1>7, <1>8, <1>9, <1>10 DEF Next, Goroutine, Sleep

(* Clear only shrinks, and so does the table but for a new entry.          *)
LEMMA StillClear ==
  ASSUME TypeOK, blurred \subseteq blurred', slept \subseteq slept',
         \A x \in Entries : Used(x) => nameOf'[x] = nameOf[x],
         NEW n \in Names, Clear(n)'
  PROVE  Clear(n)
BY PeeringAssumption DEF Clear, Used, TypeOK, ManagerTypes

LEMMA AddStreams ==
  ASSUME TypeOK, RemovalInv, StreamInv, NEW n \in Names, AddPeer(n)
  PROVE  Streams'
<1>1. PICK e \in Entries :
        /\ ~Used(e) /\ nameOf'[e] = n /\ StartPeer(e, 1) /\ table[n] = None
        /\ \A x \in Entries \ {e} : /\ Used(x)' = Used(x) /\ InTable(x)' = InTable(x)
                                    /\ nameOf'[x] = nameOf[x]
  BY Added
<1>2. /\ blurred \subseteq blurred' /\ UNCHANGED <<slept, wire, got, missed, spoke, unseen, store>>
      /\ (\E c \in Callers : job[c].step # "idle" /\ nameOf[job[c].entry] = n) => n \in blurred'
  BY DEF AddPeer, netVars
<1>3. \A x \in Entries : Used(x) => nameOf'[x] = nameOf[x]
  BY <1>1
<1>4. ASSUME NEW x \in Entries \ {e}, InTable(x)', Clear(nameOf[x])', NEW i \in OwnItems
      PROVE  Follows(x, i)'
  <2>1. InTable(x) /\ nameOf'[x] = nameOf[x] /\ nameOf[x] \in Names
    BY <1>1, <1>4 DEF InTable, Used, TypeOK, ManagerTypes
  <2>2. Clear(nameOf[x])
    BY <1>2, <1>3, <2>1, <1>4, StillClear DEF Clear
  <2>3. Follows(x, i)
    BY <1>4, <2>1, <2>2 DEF StreamInv, Streams
  <2>4. phase'[x] = phase[x]
    BY <1>1 DEF StartPeer, TypeOK, ThreadTypes
  <2> QED BY <1>2, <2>1, <2>3, <2>4, FollowsKept
<1>5. ASSUME Clear(n)', NEW i \in OwnItems PROVE Follows(e, i)'
  <2>1. Clear(n)
    BY <1>2, <1>3, <1>5, StillClear
  <2>2. ~Claimed(n)
    <3>1. n \notin blurred' /\ \A x \in slept : nameOf[x] # n
      BY <1>5, <2>1 DEF Clear
    <3> QED BY <1>1, <1>2, <3>1 DEF Claimed
  <2>3. <<i, n>> \notin store
    BY <2>2 DEF RemovalInv, StoreInv
  <2>4. wire[e] = <<>> /\ got[e] = None
    BY <1>1 DEF StreamInv, Down, TypeOK, ThreadTypes
  <2>5. NothingPending(e, i)'
    BY <1>2, <2>4, NoWord DEF NothingPending, Silent
  <2>6. phase'[e] = "connecting"
    BY <1>1 DEF StartPeer, TypeOK, ThreadTypes
  <2> QED BY <1>1, <1>2, <2>3, <2>5, <2>6 DEF Follows
<1>6. Clear(nameOf[e])' => Clear(n)'
  BY <1>1 DEF Clear
<1> QED BY <1>4, <1>5, <1>6 DEF Streams

(* The manager's other steps leave every stream alone, or are of a peer    *)
(* that is not in the table.                                               *)
LEMMA ManagerStreams ==
  ASSUME TypeOK, RemovalInv, StreamInv,
         \/ \E c \in Callers : Removal(c) \/ \E n \in Names : RemovePeer(c, n)
         \/ Wake \/ Sleep \/ Stop \/ StopEnds
  PROVE  Streams'
<1>1. UNCHANGED <<wire, got, missed, spoke, unseen, nameOf, blurred>> /\ slept \subseteq slept'
  BY DEF Removal, RemoveCancels, RemoveReads, RemoveWaits, RemoveByPeer, RemovePeer, Wake, Sleep,
     SleepCancels, SleepWaits, SleepStarts, Stop, StopEnds, threadVars, netVars, tableVars,
        histVars
<1>2. \A x \in Entries : InTable(x)' => InTable(x)
  <2>1. UNCHANGED tableVars \/ \E c \in Callers, n \in Names : RemovePeer(c, n)
    BY DEF Removal, RemoveCancels, RemoveReads, RemoveWaits, RemoveByPeer, Wake, Sleep,
     SleepCancels, SleepWaits, SleepStarts, Stop, StopEnds
  <2>2. CASE UNCHANGED tableVars
    BY <2>2 DEF tableVars, InTable, Used
  <2>3. CASE \E c \in Callers, n \in Names : RemovePeer(c, n)
    BY <2>3, TakenOut
  <2> QED BY <2>1, <2>2, <2>3
<1>3. \A x \in Entries : Clear(nameOf[x])' => Clear(nameOf[x])
  BY <1>1 DEF Clear
<1>4. ASSUME NEW x \in Entries, phase'[x] = "streaming" PROVE phase[x] = "streaming"
  <2>1. UNCHANGED phase \/ SleepStarts
    BY DEF Removal, RemoveCancels, RemoveReads, RemoveWaits, RemoveByPeer, RemovePeer, Wake, Sleep,
     SleepCancels, SleepWaits, Stop, StopEnds, threadVars
  <2> QED BY <1>4, <2>1 DEF SleepStarts, StartPeer, TypeOK, ThreadTypes
<1>5. store' \subseteq store
  BY DEF Removal, RemoveCancels, RemoveReads, RemoveWaits, RemoveByPeer, RemovePeer, Wake, Sleep,
     SleepCancels, SleepWaits, SleepStarts, Stop, StopEnds
<1>6. ASSUME NEW x \in Entries, InTable(x), Clear(nameOf[x]), phase[x] = "streaming",
             NEW i \in OwnItems, <<i, nameOf[x]>> \in store
      PROVE  <<i, nameOf[x]>> \in store'
  <2>1. CASE UNCHANGED store
    BY <1>6, <2>1
  <2>2. ASSUME NEW c \in Callers, RemoveByPeer(c) PROVE <<i, nameOf[x]>> \in store'
    <3>1. job[c].step = "sessions" /\ store' = {k \in store : k[2] # nameOf[job[c].entry]}
      BY <2>2 DEF RemoveByPeer
    <3>2. table[nameOf[x]] # None /\ nameOf[x] \notin blurred
      BY <1>6, PeeringAssumption DEF InTable, Clear
    <3>3. nameOf[job[c].entry] # nameOf[x]
      BY <3>1, <3>2 DEF RemovalInv, Removal1
    <3> QED BY <1>6, <3>1, <3>3
  <2>3. CASE StopEnds
    <3>1. run[x] = 0 /\ phase[x] = "over"
      BY <2>3 DEF StopEnds, TypeOK, ThreadTypes
    <3> QED BY <1>6, <3>1
  <2>4. UNCHANGED store \/ (\E c \in Callers : RemoveByPeer(c)) \/ StopEnds
    BY DEF Removal, RemoveCancels, RemoveReads, RemoveWaits, RemovePeer, Wake, Sleep,
       SleepCancels, SleepWaits, SleepStarts, Stop
  <2> QED BY <2>1, <2>2, <2>3, <2>4
<1>7. ASSUME NEW x \in Entries, InTable(x)', Clear(nameOf[x])', NEW i \in OwnItems
      PROVE  Follows(x, i)'
  <2>1. InTable(x) /\ Clear(nameOf[x]) /\ Follows(x, i)
    BY <1>2, <1>3, <1>7 DEF StreamInv, Streams
  <2>2. /\ <<i, nameOf[x]>> \in store' => <<i, nameOf[x]>> \in store
        /\ phase'[x] = "streaming" => /\ phase[x] = "streaming"
                                      /\ <<i, nameOf[x]>> \in store => <<i, nameOf[x]>> \in store'
    BY <1>4, <1>5, <1>6, <2>1
  <2> QED BY <1>1, <2>1, <2>2, FollowsKept
<1> QED BY <1>7 DEF Streams

(* A goroutine's step leaves the other streams alone.                      *)
LEMMA OtherStreams ==
  ASSUME TypeOK, RemovalInv, StreamInv, NEW e \in Entries,
         Goroutine(e) \/ Disconnect(e) \/ Silence(e),
         InTable(e) /\ Clear(nameOf[e]) => \A i \in OwnItems : Follows(e, i)'
  PROVE  Streams'
<1>1. UNCHANGED <<spoke, tableVars, histVars>> /\ unseen \subseteq unseen' /\ run[e] # 0
  BY DEF Goroutine, Connect, IdleTimeout, Retry, Finish, TakeEvent, HandleEvent, SpokeSubscribes,
     Disconnect, Silence, HangUp, Live, netVars
<1>2. /\ wire \in [Entries -> Seq(Events)] /\ got \in [Entries -> Events \cup {None}]
      /\ phase \in [Entries -> {"connecting", "streaming", "silent", "backoff", "over"}]
  BY DEF TypeOK, ThreadTypes, NetTypes
<1>3. ASSUME NEW x \in Entries \ {e}
      PROVE  /\ wire'[x] = wire[x] /\ got'[x] = got[x] /\ phase'[x] = phase[x]
             /\ (x \in missed' <=> x \in missed)
  BY <1>2, <1>3 DEF Goroutine, Connect, IdleTimeout, Retry, Finish, TakeEvent, HandleEvent,
     SpokeSubscribes, Disconnect, Silence, HangUp, netVars, threadVars
<1>4. \A x \in Entries : /\ InTable(x)' = InTable(x) /\ nameOf'[x] = nameOf[x]
                         /\ Clear(nameOf[x])' = Clear(nameOf[x])
  BY <1>1 DEF tableVars, histVars, InTable, Used, Clear
<1>5. \A i, n : n # nameOf[e] => (<<i, n>> \in store' <=> <<i, n>> \in store)
  BY DEF Goroutine, Connect, IdleTimeout, Retry, Finish, TakeEvent, HandleEvent, SpokeSubscribes,
     Disconnect, Silence
<1>6. ASSUME NEW x \in Entries \ {e}, InTable(x)', Clear(nameOf[x])', NEW i \in OwnItems
      PROVE  Follows(x, i)'
  <2>1. InTable(x) /\ Clear(nameOf[x]) /\ Follows(x, i)
    BY <1>4, <1>6 DEF StreamInv, Streams
  <2>2. nameOf[x] # nameOf[e]
    BY <1>1, <1>6, <2>1, OneStream
  <2> QED BY <1>1, <1>3, <1>4, <1>5, <2>1, <2>2, FollowsKept
<1> QED BY <1>4, <1>6 DEF Streams

LEMMA HungUpStream ==
  ASSUME TypeOK, RemovalInv, StreamInv, NEW e \in Entries, Finish(e) \/ Disconnect(e) \/ Silence(e)
  PROVE  Streams'
<1>1. /\ HangUp(e) /\ got[e] = None /\ UNCHANGED <<got, nameOf, store>> /\ phase'[e] # "streaming"
  BY DEF Finish, Disconnect, Silence, tableVars, TypeOK, ThreadTypes
<1>2. ASSUME NEW i \in OwnItems, Follows(e, i) PROVE Follows(e, i)'
  <2> DEFINE n == nameOf[e]
  <2>1. wire'[e] = <<>> /\ got'[e] = None /\ spoke' = spoke
    BY <1>1 DEF HangUp, TypeOK, NetTypes
  <2>2. NothingPending(e, i)'
    BY <2>1, NoWord DEF NothingPending, Silent
  <2>3. ASSUME i \notin spoke[n], <<i, n>> \notin unseen' PROVE <<i, n>> \notin store
    <3>1. <<i, n>> \notin unseen
      BY <1>1, <2>3 DEF HangUp
    <3>2. ~LastWord(wire[e], i, "remove")
      <4> SUFFICES ASSUME LastWord(wire[e], i, "remove") PROVE FALSE
        OBVIOUS
      <4>1. PICK k \in 1..Len(wire[e]) : wire[e][k] = [type |-> "remove", item |-> i]
        BY DEF LastWord
      <4>2. wire[e] \in Seq(Events)
        BY DEF TypeOK, NetTypes
      <4>3. [type |-> "remove", item |-> i] \in Range(wire[e])
        BY <4>1, <4>2, LenProperties DEF Range
      <4> QED BY <1>1, <2>3, <4>3 DEF HangUp
    <3>3. got[e] # [type |-> "remove", item |-> i]
      <4>1. [type |-> "remove", item |-> i] \in Events
        BY DEF Events, OwnItems
      <4> QED BY <1>1, <4>1, PeeringAssumption
    <3> QED BY <1>2, <2>3, <3>1, <3>2, <3>3 DEF Follows, Tells
  <2> QED BY <1>1, <2>1, <2>2, <2>3 DEF Follows
<1> QED BY <1>2, OtherStreams DEF StreamInv, Streams, Goroutine

LEMMA ConnectedStream ==
  ASSUME TypeOK, RemovalInv, StreamInv, NEW e \in Entries, Connect(e)
  PROVE  Streams'
<1> DEFINE n == nameOf[e] q == SetToSeq({[type |-> "upsert", item |-> j] : j \in spoke[n]})
<1>1. /\ UNCHANGED <<got, nameOf, store, spoke, unseen, missed>> /\ n \in Names
      /\ phase[e] = "connecting"
  BY DEF Connect, tableVars, TypeOK, ManagerTypes, ThreadTypes, Live, Used
<1>2. wire[e] = <<>> /\ got[e] = None /\ wire'[e] = q
  BY <1>1 DEF StreamInv, Down, Connect, TypeOK, NetTypes
<1>3. ASSUME NEW i \in OwnItems, Follows(e, i) PROVE Follows(e, i)'
  <2>1. spoke[n] \subseteq Items
    BY <1>1 DEF TypeOK, NetTypes
  <2>2. IF i \in spoke[n] THEN LastWord(q, i, "upsert") ELSE Silent(q, i)
    BY <2>1, FirstWords
  <2>3. CASE i \in spoke[n]
    BY <1>1, <1>2, <2>2, <2>3 DEF Follows, Tells
  <2>4. CASE i \notin spoke[n]
    <3>1. [type |-> "remove", item |-> i] # None
      BY PeeringAssumption DEF Events, OwnItems
    <3>2. ~Tells(e, i, "remove")
      BY <1>2, <3>1, NoWord DEF Tells
    <3>3. <<i, n>> \notin unseen => <<i, n>> \notin store
      BY <1>3, <2>4, <3>2 DEF Follows
    <3>4. NothingPending(e, i)'
      BY <1>1, <1>2, <2>2, <2>4 DEF NothingPending
    <3> QED BY <1>1, <2>4, <3>3, <3>4 DEF Follows
  <2> QED BY <2>3, <2>4
<1> QED BY <1>3, OtherStreams DEF StreamInv, Streams, Goroutine

LEMMA TakenStream ==
  ASSUME TypeOK, RemovalInv, StreamInv, NEW e \in Entries, TakeEvent(e)
  PROVE  Streams'
<1> DEFINE q == wire[e] h == Head(q)
<1>1. /\ UNCHANGED <<phase, nameOf, store, spoke, unseen, missed>> /\ q # <<>> /\ got[e] = None
      /\ q \in Seq(Events) /\ wire'[e] = Tail(q)
      /\ got'[e] = IF IsKnownOrigin(h.item.via) THEN None ELSE h
  BY DEF TakeEvent, tableVars, TypeOK, ThreadTypes, NetTypes
<1>2. ASSUME NEW i \in OwnItems PROVE h.item = i => got'[e] = h
  BY <1>1, PeeringAssumption DEF OwnItems, IsKnownOrigin, Own, Self
<1>3. ASSUME NEW i \in OwnItems, NEW t \in {"upsert", "remove"}, Tells(e, i, t)
      PROVE  Tells(e, i, t)'
  <2>1. i \in Items /\ [type |-> t, item |-> i] # None
    BY PeeringAssumption DEF Events, OwnItems
  <2>2. LastWord(q, i, t)
    BY <1>1, <1>3, <2>1 DEF Tells
  <2>3. LastWord(Tail(q), i, t) \/ (Silent(Tail(q), i) /\ h = [type |-> t, item |-> i])
    BY <1>1, <2>1, <2>2, TakenWord
  <2> QED BY <1>1, <1>2, <2>3 DEF Tells
<1>4. ASSUME NEW i \in OwnItems, NothingPending(e, i) PROVE NothingPending(e, i)'
  <2>1. Silent(Tail(q), i) /\ h.item # i
    BY <1>1, <1>4, TakenWord DEF NothingPending, OwnItems
  <2> QED BY <1>1, <2>1 DEF NothingPending
<1>5. ASSUME NEW i \in OwnItems, Follows(e, i) PROVE Follows(e, i)'
  BY <1>1, <1>3, <1>4, <1>5 DEF Follows
<1> QED BY <1>5, OtherStreams DEF StreamInv, Streams, Goroutine

LEMMA HandledStream ==
  ASSUME TypeOK, RemovalInv, StreamInv, NEW e \in Entries, HandleEvent(e)
  PROVE  Streams'
<1> DEFINE n == nameOf[e] f == got[e]
<1>1. /\ UNCHANGED <<phase, nameOf, wire, spoke, unseen, missed>> /\ f \in Events /\ got'[e] = None
      /\ store' = IF f.type = "upsert" THEN store \cup {<<f.item, n>>} ELSE store \ {<<f.item, n>>}
  BY DEF HandleEvent, tableVars, netVars, TypeOK, ThreadTypes
<1>2. ASSUME NEW i \in OwnItems, Follows(e, i) PROVE Follows(e, i)'
  <2>1. ASSUME NEW t \in {"upsert", "remove"}, Tells(e, i, t)
        PROVE  Tells(e, i, t)' \/ (NothingPending(e, i)' /\ f = [type |-> t, item |-> i])
    BY <1>1, <2>1 DEF Tells, NothingPending
  <2>2. NothingPending(e, i) => /\ NothingPending(e, i)' /\ f.item # i
    BY <1>1, PeeringAssumption DEF NothingPending
  <2>3. f.item # i => (<<i, n>> \in store' <=> <<i, n>> \in store)
    BY <1>1
  <2>4. f = [type |-> "upsert", item |-> i] => <<i, n>> \in store'
    BY <1>1
  <2>5. f = [type |-> "remove", item |-> i] => <<i, n>> \notin store'
    BY <1>1
  <2> QED BY <1>1, <1>2, <2>1, <2>2, <2>3, <2>4, <2>5 DEF Follows
<1> QED BY <1>2, OtherStreams DEF StreamInv, Streams, Goroutine

LEMMA QuietStream ==
  ASSUME TypeOK, RemovalInv, StreamInv, NEW e \in Entries,
         IdleTimeout(e) \/ Retry(e) \/ SpokeSubscribes(e)
  PROVE  Streams'
<1>1. UNCHANGED <<got, nameOf, wire, store, spoke, unseen, missed>>
  BY DEF IdleTimeout, Retry, SpokeSubscribes, tableVars, netVars, threadVars
<1>2. phase'[e] = "streaming" => phase[e] = "streaming"
  BY DEF IdleTimeout, Retry, SpokeSubscribes, threadVars, TypeOK, ThreadTypes
<1>3. ASSUME NEW i \in OwnItems, Follows(e, i) PROVE Follows(e, i)'
  BY <1>1, <1>2, <1>3, FollowsKept
<1> QED BY <1>3, OtherStreams DEF StreamInv, Streams, Goroutine

LEMMA ChangedStreams ==
  ASSUME TypeOK, RemovalInv, StreamInv, NEW n \in Names, SpokeChanges(n)
  PROVE  Streams'
<1> DEFINE gap == {e \in Entries : nameOf[e] = n /\ run[e] # 0 /\ phase[e] = "streaming" /\ ~open[e]}
           streams == {e \in Entries : nameOf[e] = n /\ run[e] # 0 /\ open[e]}
<1>1. PICK j \in OwnItems :
        LET type == IF j \in spoke[n] THEN "remove" ELSE "upsert"
        IN /\ spoke' = [spoke EXCEPT ![n] = IF j \in @ THEN @ \ {j} ELSE @ \cup {j}]
           /\ wire' = [e \in Entries |-> IF e \in streams
                                         THEN Append(wire[e], [type |-> type, item |-> j])
                                         ELSE wire[e]]
           /\ unseen' = IF type = "remove" /\ streams = {}
                        THEN unseen \cup {<<j, n>>} ELSE unseen
  BY DEF SpokeChanges
<1> DEFINE type == IF j \in spoke[n] THEN "remove" ELSE "upsert"
           f == [type |-> type, item |-> j]
<1>2. /\ UNCHANGED <<got, nameOf, phase, store, tableVars, histVars>> /\ missed' = missed \cup gap
      /\ wire \in [Entries -> Seq(Events)] /\ spoke \in [Names -> SUBSET Items]
      /\ open \in [Entries -> BOOLEAN] /\ run \in [Entries -> Nat]
      /\ \A e \in Entries : run[e] = 0 <=> phase[e] = "over"
  BY DEF SpokeChanges, tableVars, threadVars, TypeOK, ManagerTypes, ThreadTypes, NetTypes
<1>3. j \in Items /\ f \in Events /\ f.item = j /\ type \in {"upsert", "remove"}
  BY DEF OwnItems, Events
<1>4. /\ \A i \in OwnItems \ {j} : i \in spoke'[n] <=> i \in spoke[n]
      /\ j \in spoke'[n] <=> j \notin spoke[n]
      /\ \A m \in Names \ {n} : spoke'[m] = spoke[m]
  BY <1>1, <1>2
<1>5. /\ \A i \in OwnItems, m \in Names : <<i, m>> \in unseen => <<i, m>> \in unseen'
      /\ type = "remove" /\ <<j, n>> \notin unseen' => streams # {}
  BY <1>1
<1>6. /\ \A e \in streams : wire'[e] = Append(wire[e], f)
      /\ \A e \in Entries \ streams : wire'[e] = wire[e]
  BY <1>1
<1> HIDE DEF gap, type, f
<1>7. \A e \in streams : e \in Entries /\ nameOf[e] = n /\ run[e] # 0 /\ open[e]
  OBVIOUS
<1>8. \A e \in Entries : nameOf[e] = n /\ phase[e] = "streaming" /\ e \notin missed' => e \in streams
  BY <1>2 DEF gap
<1> HIDE DEF streams
<1>9. ASSUME NEW e \in Entries, InTable(e)', Clear(nameOf[e])', NEW i \in OwnItems
      PROVE  Follows(e, i)'
  <2>1. InTable(e) /\ Clear(nameOf[e]) /\ Follows(e, i) /\ nameOf[e] \in Names
    <3>1. InTable(e) /\ Clear(nameOf[e])
      BY <1>2, <1>9 DEF tableVars, histVars, InTable, Used, Clear
    <3>2. nameOf[e] \in Names
      BY <3>1 DEF InTable, Used, TypeOK, ManagerTypes
    <3> QED BY <3>1, <3>2 DEF StreamInv, Streams
  <2>2. CASE nameOf[e] # n
    <3>1. e \notin streams /\ wire'[e] = wire[e]
      BY <1>6, <1>7, <2>2
    <3> QED BY <1>2, <1>4, <1>5, <2>1, <2>2, <3>1, FollowsKept
  <2>3. CASE nameOf[e] = n /\ i # j
    <3>1. ASSUME NEW t \in {"upsert", "remove"}
          PROVE  /\ LastWord(wire[e], i, t) => LastWord(wire'[e], i, t)
                 /\ Silent(wire[e], i) => Silent(wire'[e], i)
      <4>1. wire[e] \in Seq(Events) /\ i \in Items /\ f.item # i
        BY <1>2, <1>3, <2>3 DEF OwnItems
      <4>2. /\ LastWord(wire[e], i, t) => LastWord(Append(wire[e], f), i, t)
            /\ Silent(wire[e], i) => Silent(Append(wire[e], f), i)
        BY <1>3, <4>1, AppendedWord
      <4> QED BY <1>6, <4>2
    <3>2. ASSUME NEW t \in {"upsert", "remove"}, Tells(e, i, t) PROVE Tells(e, i, t)'
      BY <1>2, <3>1, <3>2 DEF Tells
    <3>3. NothingPending(e, i) => NothingPending(e, i)'
      BY <1>2, <3>1 DEF NothingPending
    <3> QED BY <1>2, <1>4, <1>5, <2>1, <2>3, <3>2, <3>3 DEF Follows
  <2>4. CASE nameOf[e] = n /\ i = j
    <3>1. ASSUME e \in streams, NEW t \in {"upsert", "remove"}, type = t PROVE Tells(e, j, t)'
      <4>1. wire[e] \in Seq(Events)
        BY <1>2
      <4>2. LastWord(Append(wire[e], f), j, t)
        BY <1>3, <3>1, <4>1, AppendedWord DEF f
      <4> QED BY <1>6, <3>1, <4>2 DEF Tells
    <3>2. CASE j \notin spoke[n]
      <4>1. type = "upsert" /\ j \in spoke'[n]
        BY <1>4, <3>2 DEF type
      <4>2. phase'[e] = "streaming" /\ e \notin missed' => Tells(e, j, "upsert")'
        BY <1>2, <1>8, <2>4, <3>1, <4>1
      <4> QED BY <1>2, <2>4, <4>1, <4>2 DEF Follows
    <3>3. CASE j \in spoke[n]
      <4>1. type = "remove" /\ j \notin spoke'[n]
        BY <1>4, <3>3 DEF type
      <4>2. \A y \in streams : y = e
        BY <1>7, <2>1, <2>4, OneStream
      <4>3. <<j, n>> \notin unseen' => Tells(e, j, "remove")'
        BY <1>5, <3>1, <4>1, <4>2
      <4> QED BY <1>2, <2>4, <4>1, <4>3 DEF Follows
    <3> QED BY <3>2, <3>3
  <2> QED BY <2>2, <2>3, <2>4
<1> QED BY <1>9 DEF Streams

-----------------------------------------------------------------------------
LEMMA StreamsKept == ASSUME TypeOK, RemovalInv, StreamInv, Next PROVE StreamInv'
<1>1. ASSUME NEW n \in Names, AddPeer(n) \/ SpokeChanges(n) PROVE Streams'
  BY <1>1, AddStreams, ChangedStreams
<1>2. ASSUME \/ \E c \in Callers : Removal(c) \/ \E n \in Names : RemovePeer(c, n)
             \/ Wake \/ Sleep \/ Stop \/ StopEnds
      PROVE  Streams'
  BY <1>2, ManagerStreams
<1>3. ASSUME NEW e \in Entries, Goroutine(e) \/ Disconnect(e) \/ Silence(e) PROVE Streams'
  BY <1>3, HungUpStream, ConnectedStream, TakenStream, HandledStream, QuietStream DEF Goroutine
<1>4. Streams'
  BY <1>1, <1>2, <1>3 DEF Next
<1> QED BY <1>4, DownKept DEF StreamInv

LEMMA PeeringStarts == ASSUME Init PROVE PeeringInv
<1> USE PeeringAssumption DEF Init
<1>1. ManagerTypes
  <2>1. IdleJob \in Jobs /\ IdleJob.step = "idle" /\ IdleJob.entry = None
    BY DEF Jobs, IdleJob
  <2> QED BY <2>1 DEF ManagerTypes, IdleSleep
<1>2. ThreadTypes
  BY DEF ThreadTypes, Used
<1>3. NetTypes
  BY EmptySeq DEF NetTypes
<1>4. RemovalInv
  BY DEF RemovalInv, SleepInv, Removal1, RunInv, StoreInv, Picked, IdleSleep, IdleJob
<1>5. StreamInv
  BY DEF StreamInv, Streams, Down, InTable, Used
<1> QED BY <1>1, <1>2, <1>3, <1>4, <1>5 DEF PeeringInv, TypeOK

LEMMA PeeringStutters == ASSUME PeeringInv, UNCHANGED vars PROVE PeeringInv'
<1> USE DEF vars, tableVars, threadVars, netVars, histVars, counters, PeeringInv
<1>1. TypeOK'
  BY DEF TypeOK, ManagerTypes, ThreadTypes, NetTypes, Used
<1>2. RemovalInv'
  BY DEF RemovalInv, SleepInv, Removal1, RunInv, Accounted, Removing, StoreInv, Claimed, Picked,
     InTable, Used
<1>3. StreamInv'
  BY DEF StreamInv, Streams, Down, InTable, Used, Clear, Follows, Tells, NothingPending,
     LastWord, Silent
<1> QED BY <1>1, <1>2, <1>3

(* The inductive invariant: a goroutine and a session in the store belong  *)
(* to an entry that is in the table, is being removed, or that OnSleep     *)
(* started again; what a stream has on its way completes what the hub has. *)
THEOREM PeeringInvHolds == Spec => []PeeringInv
<1>1. Init => PeeringInv
  BY PeeringStarts
<1>2. PeeringInv /\ [Next]_vars => PeeringInv'
  <2>1. ASSUME PeeringInv, Next PROVE PeeringInv'
    <3>1. TypeOK /\ RemovalInv /\ StreamInv
      BY <2>1 DEF PeeringInv
    <3>2. TypeOK'
      BY <2>1, <3>1, ManagerTyped, ThreadTyped, NetTyped DEF TypeOK, RemovalInv
    <3>3. RemovalInv'
      BY <2>1, <3>1, SleepKept, JobsKept, RunKept, StoreKept DEF RemovalInv
    <3>4. StreamInv'
      BY <2>1, <3>1, StreamsKept
    <3> QED BY <3>2, <3>3, <3>4 DEF PeeringInv
  <2> QED BY <2>1, PeeringStutters
<1> QED BY <1>1, <1>2, PTL DEF Spec

(* The manager's table, its goroutines and the streams keep their types,   *)
(* for any number of peers and callers of AddPeer and RemovePeer.          *)
THEOREM PeeringTypesHold == Spec => []TypeOK
<1>1. PeeringInv => TypeOK
  BY DEF PeeringInv
<1> QED BY <1>1, PeeringInvHolds, PTL

(* RemovePeer "removes all its sessions": once it is over, no goroutine of *)
(* the peer runs and none of its sessions is in the store, however callers *)
(* and reconnections interleave, unless OnSleep had it on its list.        *)
THEOREM RemovedPeersStayGone == Spec => []RemovedStaysGone
<1>1. PeeringInv => RemovedStaysGone
  <2> SUFFICES ASSUME PeeringInv, NEW n \in Names, Gone(n), \A e \in slept : nameOf[e] # n
               PROVE  /\ \A k \in store : k[2] # n
                      /\ \A e \in Entries : nameOf[e] = n => run[e] = 0
    BY DEF RemovedStaysGone
  <2>1. ~Claimed(n)
    BY DEF Claimed, Gone
  <2>2. \A k \in store : k[2] # n
    BY <2>1 DEF PeeringInv, RemovalInv, StoreInv
  <2>3. ASSUME NEW e \in Entries, nameOf[e] = n, run[e] # 0 PROVE FALSE
    <3>1. e # None /\ Accounted(e)
      BY <2>3, PeeringAssumption DEF PeeringInv, RemovalInv, RunInv
    <3> QED BY <2>3, <3>1 DEF Accounted, InTable, Removing, Gone
  <2> QED BY <2>2, <2>3
<1> QED BY <1>1, PeeringInvHolds, PTL

(* When a stream has delivered everything, the hub has every session of    *)
(* its spoke and no other, but for removals that fell between two streams. *)
THEOREM HubFollowsSpokes == Spec => []HubAgrees
<1>1. PeeringInv => HubAgrees
  <2> SUFFICES ASSUME PeeringInv, NEW e \in Entries, Settled(e)
               PROVE  /\ spoke[nameOf[e]] \cap OwnItems \subseteq Copied(nameOf[e])
                      /\ \A i \in Copied(nameOf[e]) :
                           i \in spoke[nameOf[e]] \/ <<i, nameOf[e]>> \in unseen
    BY DEF HubAgrees
  <2>1. InTable(e) /\ Clear(nameOf[e])
    BY PeeringAssumption DEF Settled, InTable, Clear, Used, PeeringInv, TypeOK, ManagerTypes,
       ThreadTypes
  <2>2. ASSUME NEW i \in OwnItems PROVE Follows(e, i)
    BY <2>1 DEF PeeringInv, StreamInv, Streams
  <2>3. ASSUME NEW i \in OwnItems, NEW t \in {"upsert", "remove"} PROVE ~Tells(e, i, t)
    <3>1. [type |-> t, item |-> i] # None
      BY PeeringAssumption DEF Events, OwnItems
    <3> QED BY <3>1, NoWord DEF Settled, Tells
  <2> QED BY <2>2, <2>3 DEF Follows, Settled, Copied
<1> QED BY <1>1, PeeringInvHolds, PTL
=============================================================================
