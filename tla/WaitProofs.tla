------------------------------- MODULE WaitProofs -------------------------------
(***************************************************************************)
(* Theorems about the subscription table, for any number of sessions,      *)
(* subscriptions and callers, and about Wait, which composes it with a     *)
(* runner, the scanner, the file monitor and the wait handler, for any     *)
(* number of entries, turns and attempts and queues of any size.           *)
(***************************************************************************)
EXTENDS Wait, TLAPS

USE SubscriptionsAssumption

-----------------------------------------------------------------------------
(* The table                                                               *)

LEMMA InitSubsInv == SubsInit => SubsInv
BY DEF SubsInit, SubsInv, SubsTypeOK, ActiveIsRunning, NoOrphan, RemovedIsOut,
       CancelledWasUsed, Following, Phases, IsActive

(* A goroutine that moves on without touching the table or the others.     *)
LEMMA GotoKeepsInv ==
  ASSUME SubsInv, NEW e \in Entries, NEW from, NEW to \in {"streaming", "handling", "leaving"},
         Goto(e, from, to),
         to # "leaving" => from \in {"connecting", "streaming", "handling"}
  PROVE  SubsInv'
<1> USE DEF Goto, SubsInv
<1>1. SubsTypeOK'
  BY DEF SubsTypeOK, Phases
<1>2. \A d \in Entries : phase'[d] = IF d = e THEN to ELSE phase[d]
  BY DEF SubsTypeOK
<1>3. ActiveIsRunning'
  BY <1>2 DEF ActiveIsRunning, IsActive, SubsTypeOK
<1>4. \A d \in Entries : Following(d)' => Following(d)
  BY <1>2 DEF Following
<1>5. NoOrphan'
  BY <1>4 DEF NoOrphan
<1>6. RemovedIsOut' /\ CancelledWasUsed'
  BY <1>2 DEF RemovedIsOut, CancelledWasUsed, SubsTypeOK
<1>7. QED
  BY <1>1, <1>3, <1>5, <1>6

LEMMA SubscribeKeepsInv ==
  ASSUME SubsInv, NEW id \in Ids, NEW e \in Entries, Subscribe(id, e)
  PROVE  SubsInv'
<1> USE DEF Subscribe, SubsInv
<1>1. SubsTypeOK'
  BY DEF SubsTypeOK, Phases
<1>2. /\ \A d \in Entries : phase'[d] = IF d = e THEN "connecting" ELSE phase[d]
      /\ \A d \in Entries : follows'[d] = IF d = e THEN id ELSE follows[d]
      /\ \A i \in Ids : active'[i] = IF i = id THEN e ELSE active[i]
  BY DEF SubsTypeOK
<1>3. \A i \in Ids : active[i] # e
  BY DEF ActiveIsRunning, IsActive, SubsTypeOK
<1>4. e \notin cancelled'
  BY <1>3 DEF CancelledWasUsed
<1>5. \A i \in Ids \ {id} : IsActive(i) /\ IsActive(id) => active[i] # active[id]
  BY DEF ActiveIsRunning
<1>6. ActiveIsRunning'
  BY <1>2, <1>3, <1>4, <1>5 DEF ActiveIsRunning, IsActive, SubsTypeOK
<1>7. NoOrphan'
  BY <1>2, <1>3 DEF NoOrphan, Following, SubsTypeOK
<1>8. RemovedIsOut'
  BY <1>2, <1>3 DEF RemovedIsOut, SubsTypeOK
<1>9. CancelledWasUsed'
  BY <1>2 DEF CancelledWasUsed, ActiveIsRunning, IsActive, SubsTypeOK
<1>10. QED
  BY <1>1, <1>6, <1>7, <1>8, <1>9

LEMMA UnsubscribeKeepsInv ==
  ASSUME SubsInv, NEW id \in Ids, NEW c \in Callers, Unsubscribe(c, id)
  PROVE  SubsInv'
<1> USE DEF Unsubscribe, SubsInv
<1>1. SubsTypeOK'
  BY DEF SubsTypeOK
<1>2. /\ \A i \in Ids : active'[i] = IF i = id THEN None ELSE active[i]
      /\ \A b \in Callers : removed'[b] = IF b = c THEN active[id] ELSE removed[b]
  BY DEF SubsTypeOK
<1>3. ActiveIsRunning'
  BY <1>2 DEF ActiveIsRunning, IsActive, SubsTypeOK
<1>4. NoOrphan'
  <2> SUFFICES ASSUME NEW e \in Entries \ cancelled, Following(e)
               PROVE  active'[follows[e]] = e \/ \E b \in Callers : removed'[b] = e
    BY DEF NoOrphan, Following
  <2>1. CASE active[follows[e]] = e
    BY <1>2, <2>1 DEF SubsTypeOK
  <2>2. CASE \E b \in Callers : removed[b] = e
    BY <1>2, <2>2
  <2>3. QED
    BY <2>1, <2>2 DEF NoOrphan
<1>5. \A i \in Ids \ {id} : IsActive(i) /\ IsActive(id) => active[i] # active[id]
  BY DEF ActiveIsRunning
<1>6. RemovedIsOut'
  BY <1>2, <1>5 DEF RemovedIsOut, ActiveIsRunning, IsActive, SubsTypeOK
<1>7. CancelledWasUsed'
  BY DEF CancelledWasUsed
<1>8. QED
  BY <1>1, <1>3, <1>4, <1>6, <1>7

LEMMA CancelKeepsInv ==
  ASSUME SubsInv, NEW c \in Callers, CancelRemoved(c)
  PROVE  SubsInv'
<1> USE DEF CancelRemoved, SubsInv
<1>1. SubsTypeOK'
  BY DEF SubsTypeOK
<1>2. \A b \in Callers : removed'[b] = IF b = c THEN None ELSE removed[b]
  BY DEF SubsTypeOK
<1>3. ActiveIsRunning'
  BY DEF ActiveIsRunning, IsActive, RemovedIsOut
<1>4. NoOrphan'
  BY <1>2 DEF NoOrphan, Following, SubsTypeOK
<1>5. RemovedIsOut' /\ CancelledWasUsed'
  BY <1>2 DEF RemovedIsOut, CancelledWasUsed
<1>6. QED
  BY <1>1, <1>3, <1>4, <1>5

LEMMA UnsubscribeAllKeepsInv ==
  ASSUME SubsInv, UnsubscribeAll
  PROVE  SubsInv'
<1> USE DEF UnsubscribeAll, SubsInv
<1>1. SubsTypeOK'
  BY DEF SubsTypeOK
<1>2. ActiveIsRunning'
  BY DEF ActiveIsRunning, IsActive
<1>3. NoOrphan'
  BY DEF NoOrphan, Following, SubsTypeOK
<1>4. RemovedIsOut' /\ CancelledWasUsed'
  BY DEF RemovedIsOut, CancelledWasUsed, ActiveIsRunning, IsActive, SubsTypeOK
<1>5. QED
  BY <1>1, <1>2, <1>3, <1>4

LEMMA CleanupKeepsInv ==
  ASSUME SubsInv, NEW e \in Entries, Cleanup(e)
  PROVE  SubsInv'
<1> USE DEF Cleanup, SubsInv
<1>1. SubsTypeOK'
  BY DEF SubsTypeOK, Phases
<1>2. /\ \A d \in Entries : phase'[d] = IF d = e THEN "finished" ELSE phase[d]
      /\ \A i \in Ids : active'[i] = IF i = follows[e] /\ active[i] = e THEN None ELSE active[i]
  BY DEF SubsTypeOK
<1>3. \A i \in Ids : active'[i] # e
  BY <1>2 DEF ActiveIsRunning, IsActive
<1>4. ActiveIsRunning'
  BY <1>2, <1>3 DEF ActiveIsRunning, IsActive, SubsTypeOK
<1>5. NoOrphan'
  BY <1>2 DEF NoOrphan, Following, SubsTypeOK
<1>6. RemovedIsOut' /\ CancelledWasUsed'
  BY <1>2 DEF RemovedIsOut, CancelledWasUsed, SubsTypeOK
<1>7. QED
  BY <1>1, <1>4, <1>5, <1>6

LEMMA StepSubsInv == SubsInv /\ [SubsNext]_subsVars => SubsInv'
<1> SUFFICES ASSUME SubsInv, [SubsNext]_subsVars PROVE SubsInv'
  OBVIOUS
<1>1. ASSUME NEW e \in Entries, Goroutine(e) PROVE SubsInv'
  <2>1. CASE Cleanup(e)
    BY <2>1, CleanupKeepsInv
  <2>2. CASE ~Cleanup(e)
    BY <1>1, <2>2, GotoKeepsInv
    DEF Goroutine, Connect, ConnectFails, TakeEvent, EventDone, StreamEnds
  <2>3. QED
    BY <2>1, <2>2
<1>2. CASE UNCHANGED subsVars
  BY <1>2 DEF subsVars, SubsInv, SubsTypeOK, ActiveIsRunning, NoOrphan, RemovedIsOut,
              CancelledWasUsed, Following, IsActive
<1>3. QED
  BY <1>1, <1>2, SubscribeKeepsInv, UnsubscribeKeepsInv, CancelKeepsInv,
     UnsubscribeAllKeepsInv DEF SubsNext

(* The inductive invariant holds in every behaviour.                       *)
THEOREM SubsInvariant == SubsSpec => []SubsInv
BY InitSubsInv, StepSubsInv, PTL DEF SubsSpec

(* IsActive is truthful for any number of sessions and subscriptions: the  *)
(* table never holds a goroutine that has finished or been cancelled.      *)
THEOREM ActiveEntriesRun == SubsSpec => []ActiveIsRunning
BY SubsInvariant, PTL DEF SubsInv

(* No goroutine follows a session outside the table, except one whose      *)
(* cancellation is being delivered.                                        *)
THEOREM NoOrphanGoroutines == SubsSpec => []NoOrphan
BY SubsInvariant, PTL DEF SubsInv

(* A replaced entry goes by its own cleanup, or is cancelled.              *)
LEMMA SuccessorStep ==
  SubsInv /\ [SubsNext]_subsVars =>
    [\A id \in Ids :
       /\ IsActive(id)
       /\ active'[id] # active[id]
       => \/ phase'[active[id]] = "finished"
          \/ active[id] \in cancelled'
          \/ \E c \in Callers : removed'[c] = active[id]]_subsVars
<1>1. ASSUME SubsInv, [SubsNext]_subsVars, NEW id \in Ids, IsActive(id),
             active'[id] # active[id]
      PROVE  \/ phase'[active[id]] = "finished"
             \/ active[id] \in cancelled'
             \/ \E c \in Callers : removed'[c] = active[id]
  <2> USE <1>1 DEF SubsInv, SubsTypeOK
  <2>1. ASSUME NEW i \in Ids, NEW e \in Entries, Subscribe(i, e)
        PROVE  active[id] \in cancelled'
    BY <2>1 DEF Subscribe, IsActive
  <2>2. ASSUME NEW i \in Ids, NEW c \in Callers, Unsubscribe(c, i)
        PROVE  removed'[c] = active[id]
    BY <2>2 DEF Unsubscribe
  <2>3. CASE UnsubscribeAll
    BY <2>3 DEF UnsubscribeAll, IsActive
  <2>4. ASSUME NEW e \in Entries, Goroutine(e)
        PROVE  phase'[active[id]] = "finished"
    BY <2>4 DEF Goroutine, Connect, ConnectFails, TakeEvent, EventDone, StreamEnds, Goto,
                Cleanup
  <2>5. QED
    BY <2>1, <2>2, <2>3, <2>4 DEF SubsNext, CancelRemoved, subsVars
<1> QED BY <1>1

(* A goroutine's cleanup never removes the entry of its successor: the     *)
(* pointer comparison of the deferred function is enough.                  *)
THEOREM SuccessorsSurviveCleanup == SubsSpec => ReplacedStayReplaced
BY SubsInvariant, SuccessorStep, PTL DEF SubsSpec, ReplacedStayReplaced

-----------------------------------------------------------------------------
(* Wait takes only steps of the table                                      *)

LEMMA StepsOfTheTable == [Next]_vars => [SubsNext]_subsVars
<1> SUFFICES ASSUME [Next]_vars PROVE [SubsNext]_subsVars
  OBVIOUS
<1> USE DEF subsVars
<1>1. ASSUME NEW c \in Callers, Unsubscribe(c, Sid) PROVE SubsNext
  BY <1>1, WaitAssumption DEF SubsNext
<1>2. CASE RunSession \/ Register(Scan) \/ Dismissing
  <2>1. ASSUME NEW e \in Entries, Subscribe(Sid, e) PROVE SubsNext
    BY <2>1, WaitAssumption DEF SubsNext
  <2>2. ASSUME NEW c \in Callers, CancelRemoved(c) PROVE SubsNext
    BY <2>2 DEF SubsNext
  <2>3. Runner \in Callers /\ Scan \in Callers /\ User \in Callers
    BY WaitAssumption DEF Registrars
  <2> QED BY <1>1, <1>2, <2>1, <2>2, <2>3
          DEF RunSession, SetRunning, Register, QueryMeta, RegisterWrite, RegisterSubscribe,
              CancelTaken, RegisterFails, HandshakeAck, Deregister, Exit, Gone, Dismissing,
              DismissUnsubscribes
<1>3. ASSUME NEW e \in Entries, Follow(e) PROVE [SubsNext]_subsVars
  <2>1. Goroutine(e) \/ UNCHANGED subsVars
    BY <1>3 DEF Follow, Dial, DialFails, Take, Apply, Handled, Hangup, Leave, Goroutine
  <2> QED BY <2>1 DEF SubsNext
<1>4. CASE Scanning /\ ~Register(Scan)
  <2>1. Scan \in Callers
    BY WaitAssumption DEF Registrars
  <2> QED BY <1>1, <1>4, <2>1
          DEF Scanning, ScanFirst, ScanFails, ScanSecond, ScanCheck, ScanMark, ScanUnsubscribe
<1>5. CASE Waiting \/ WaitHears \/ HandshakeTimesOut \/ WaitTimesOut
  BY <1>5 DEF Waiting, ReadHandshake, SendResolves, SendInput, Resolve, HandleWait, WaitSubscribes,
              WaitLooks, WaitPolls, WaitHears, HandshakeTimesOut, WaitTimesOut, Script, Answer
<1>6. CASE \/ JumpdServes \/ MonitorReads \/ SetExited \/ Crash \/ EmitActivity \/ Dismiss
           \/ \E status \in Statuses : PutStatus(status) \/ WriteTranscript(status)
  BY <1>6 DEF JumpdServes, MonitorReads, SetExited, Crash, Gone, EmitActivity, Dismiss, PutStatus,
              WriteTranscript, SetStatus
<1>7. CASE UNCHANGED vars
  BY <1>7 DEF vars
<1> QED BY <1>2, <1>3, <1>4, <1>5, <1>6, <1>7 DEF Next, Running, Scanning

(* The registrations, the scanner, the goroutines and the dismiss of Wait  *)
(* use the table as Subscriptions has it: what holds of every use of the   *)
(* table holds of this one.                                                *)
THEOREM WaitUsesTheTable == Spec => SubsInit /\ [][SubsNext]_subsVars
<1>1. Init => SubsInit
  BY DEF Init
<1> QED BY <1>1, StepsOfTheTable, PTL DEF Spec

(* So the goroutines that feed a wait are those the table says, whatever   *)
(* deregistrations, scans, dismissals and registrations race.              *)
THEOREM WaitFollowsTruly == Spec => [](ActiveIsRunning /\ NoOrphan) /\ ReplacedStayReplaced
<1>1. SubsInv => ActiveIsRunning /\ NoOrphan
  BY DEF SubsInv
<1> QED BY <1>1, InitSubsInv, StepSubsInv, SuccessorStep, WaitUsesTheTable, PTL DEF ReplacedStayReplaced

-----------------------------------------------------------------------------
(* The inductive invariant of Wait                                         *)

TriesInv ==
  /\ reg[Runner] = "query" => tries < MaxTries
  /\ run = "starting" => tries = 0 /\ reg[Runner] = "none"

(* Until the user dismisses it, a session that was registered, reported or *)
(* found has a record.                                                     *)
KnownInv ==
  dismissed = "no" =>
    /\ \/ reg[Runner] \in {"subscribe", "done"} \/ pipe = "id"
       \/ script \in {"listing", "sending", "sent", "posting"}
       => rec # Absent
    /\ script # "unknown"

(* A status that a wait takes for idle, wherever it is on its way, is of   *)
(* an agent that has worked before.                                        *)
Spoken(status) == status \in {"idle", "failed"} => turns > 1
SpokenInv ==
  /\ agent # "none" => turns > 0
  /\ Spoken(agent)
  /\ \A x \in Registrars : Spoken(meta[x].status)
  /\ \A e \in Entries : Spoken(hold[e])
  /\ script = "idle" => turns > 1

(* The same of the records and the channels.                               *)
StoreInv ==
  /\ rec \in Records \cup {Absent}
  /\ feed \in Seq(Records \cup {Absent}) /\ Len(feed) <= MaxFeed
  /\ rec # Absent => Spoken(rec.status)
  /\ \A i \in 1..Len(feed) : feed[i] # Absent => Spoken(feed[i].status)

BoxInv ==
  /\ box \in [Entries -> Seq(Events)]
  /\ \A e \in Entries : Len(box[e]) <= MaxBox /\ \A i \in 1..Len(box[e]) : Spoken(box[e][i])

(* What the other parts of the types say.                                  *)
PlaceTypes ==
  /\ jumpd \in {"down", "starting", "up"}
  /\ run \in {"starting", "running", "exited", "leaving", "gone"} /\ pipe \in {"open", "id", "eof"}
  /\ agent \in Statuses /\ via \in {"hook", "file"}
  /\ turns \in 0..MaxTurns /\ tries \in 0..MaxTries
  /\ meta \in [Registrars -> Records]
  /\ reg \in [Registrars -> {"none", "query", "write", "subscribe", "done", "failed"}]
  /\ hold \in [Entries -> Events \cup {None}]
  /\ scan \in {"idle", "first", "check", "mark", "unsubscribe"}
  /\ unread \in BOOLEAN /\ dismissed \in {"no", "removed", "done"}
  /\ script \in {"handshake", "listing", "sending", "sent", "posting", "subscribing", "looking",
                 "waiting", "failed", "unknown", "died", "idle", "timeout"}

PartsInv == PlaceTypes /\ TriesInv /\ KnownInv /\ SpokenInv /\ StoreInv /\ BoxInv

WaitInv == SubsInv /\ PartsInv

LEMMA InvGivesTypes == WaitInv => TypeOK
BY DEF WaitInv, PartsInv, SubsInv, TypeOK, PlaceTypes, StoreInv, BoxInv

-----------------------------------------------------------------------------
(* Channels and the record                                                 *)

LEMMA DeadIsRecord == Dead \in Records /\ Dead.status = "none" /\ Dead # Absent
<1>1. Dead \in Records /\ Dead.status = "none"
  BY DEF Dead, Records, Statuses
<1> QED BY <1>1, WaitAssumption

LEMMA StoreKept ==
  ASSUME StoreInv, UNCHANGED <<rec, feed>>, turns' \in {turns, turns + 1}, turns \in Nat
  PROVE  StoreInv'
BY DEF StoreInv, Spoken

LEMMA BoxKept ==
  ASSUME BoxInv, UNCHANGED box, turns' \in {turns, turns + 1}, turns \in Nat
  PROVE  BoxInv'
BY DEF BoxInv, Spoken

LEMMA BroadcastKeeps ==
  ASSUME StoreInv, UNCHANGED turns, NEW r \in Records \cup {Absent}, r # Absent => Spoken(r.status),
         Broadcast(r), rec' \in {rec, r}
  PROVE  StoreInv'
<1>1. CASE feed' = feed
  BY <1>1 DEF StoreInv, Spoken
<1>2. CASE feed' = Append(feed, r) /\ Len(feed) < MaxFeed
  <2>1. /\ feed' \in Seq(Records \cup {Absent}) /\ Len(feed') = Len(feed) + 1
        /\ \A i \in 1..Len(feed) : feed'[i] = feed[i]
        /\ feed'[Len(feed) + 1] = r
    BY <1>2 DEF StoreInv
  <2>2. Len(feed') <= MaxFeed
    BY <1>2, <2>1, WaitAssumption DEF StoreInv
  <2>3. \A i \in 1..Len(feed') : i \in 1..Len(feed) \/ i = Len(feed) + 1
    BY <2>1 DEF StoreInv
  <2> QED BY <2>1, <2>2, <2>3 DEF StoreInv, Spoken
<1> QED BY <1>1, <1>2 DEF Broadcast

LEMMA UpdateKeeps ==
  ASSUME StoreInv, UNCHANGED turns, NEW status \in Statuses, Spoken(status), Update(status)
  PROVE  StoreInv' /\ (rec' = Absent <=> rec = Absent)
<1>1. CASE rec = Absent
  BY <1>1 DEF Update, StoreInv, Spoken
<1>2. CASE rec # Absent
  <2>1. [rec EXCEPT !.status = status] \in Records /\ [rec EXCEPT !.status = status].status = status
    BY <1>2 DEF StoreInv, Records
  <2> QED BY <1>2, <2>1, BroadcastKeeps, WaitAssumption DEF Update, Write
<1> QED BY <1>1, <1>2

LEMMA EmitKeeps ==
  ASSUME BoxInv, turns \in Nat, turns' \in {turns, turns + 1}, NEW evt \in Events, Emit(evt),
         evt \in {"idle", "failed"} => turns' > 1
  PROVE  BoxInv'
<1>1. box' \in [Entries -> Seq(Events)]
  BY DEF BoxInv, Emit
<1>2. ASSUME NEW e \in Entries
      PROVE  /\ Len(box'[e]) <= MaxBox
             /\ \A i \in 1..Len(box'[e]) : box'[e][i] \in {"idle", "failed"} => turns' > 1
  <2>1. CASE box'[e] = box[e]
    BY <2>1 DEF BoxInv, Spoken
  <2>2. CASE box'[e] = Append(box[e], evt) /\ Len(box[e]) < MaxBox
    <3>1. box[e] \in Seq(Events) /\ Len(box'[e]) = Len(box[e]) + 1
      BY <2>2 DEF BoxInv
    <3>2. ASSUME NEW i \in 1..Len(box'[e]) PROVE box'[e][i] \in {"idle", "failed"} => turns' > 1
      <4>1. CASE i \in 1..Len(box[e])
        BY <2>2, <3>1, <4>1 DEF BoxInv, Spoken
      <4>2. CASE i = Len(box[e]) + 1
        BY <2>2, <3>1, <4>2
      <4> QED BY <3>1, <4>1, <4>2
    <3>3. Len(box'[e]) <= MaxBox
      BY <2>2, <3>1, WaitAssumption
    <3> QED BY <3>2, <3>3
  <2>3. box'[e] = IF Connected(e) /\ Len(box[e]) < MaxBox THEN Append(box[e], evt) ELSE box[e]
    BY DEF Emit
  <2> QED BY <2>1, <2>2, <2>3
<1> QED BY <1>1, <1>2 DEF BoxInv, Spoken

-----------------------------------------------------------------------------
(* Every step keeps it                                                     *)

(* The script and the wait: only where they are changes, and the channel   *)
(* loses its head.                                                         *)
LEMMA TerminalReasons ==
  ASSUME NEW r \in Records, NEW reason \in {"died", "idle"}, TerminalReason(r, reason), Spoken(r.status)
  PROVE  reason = "idle" => turns > 1
BY DEF TerminalReason, Spoken

LEMMA ScriptKeeps ==
  ASSUME PartsInv, NEW from, NEW to, Script(from, to),
         to \in {"handshake", "listing", "sending", "sent", "posting", "subscribing", "looking",
                 "waiting", "failed", "unknown", "died", "idle", "timeout"},
         to \in {"listing", "sending", "sent", "posting"} =>
           pipe = "id" \/ rec # Absent \/ from \in {"listing", "sending", "sent", "posting"},
         to = "unknown" => rec = Absent /\ from \in {"listing", "sending", "sent", "posting"},
         to = "idle" => turns > 1
  PROVE  PlaceTypes' /\ TriesInv' /\ KnownInv' /\ SpokenInv' /\ BoxInv'
<1> USE DEF PartsInv, Script, runnerVars, daemonVars
<1>1. PlaceTypes' /\ TriesInv'
  BY DEF PlaceTypes, TriesInv
<1>2. KnownInv'
  BY DEF KnownInv
<1>3. SpokenInv'
  BY DEF SpokenInv, Spoken
<1>4. BoxInv'
  BY DEF BoxInv, Spoken
<1> QED BY <1>1, <1>2, <1>3, <1>4

LEMMA ScriptSteps ==
  ASSUME PartsInv, Waiting \/ WaitHears \/ HandshakeTimesOut \/ WaitTimesOut
  PROVE  PartsInv'
<1>1. turns \in Nat
  BY WaitAssumption DEF PartsInv, PlaceTypes
<1>2. UNCHANGED <<rec, turns>>
  BY DEF Waiting, ReadHandshake, SendResolves, SendInput, Resolve, HandleWait, WaitSubscribes,
         WaitLooks, WaitPolls, WaitHears, HandshakeTimesOut, WaitTimesOut, Script, Answer,
         runnerVars, daemonVars
<1>3. ASSUME NEW r \in Records, Spoken(r.status), NEW from, Answer(from, r)
      PROVE  PlaceTypes' /\ TriesInv' /\ KnownInv' /\ SpokenInv' /\ BoxInv'
  <2>1. PICK reason \in {"died", "idle"} : TerminalReason(r, reason) /\ Script(from, reason)
    BY <1>3 DEF Answer
  <2> QED BY <1>3, <2>1, TerminalReasons, ScriptKeeps
<1>4. rec # Absent => rec \in Records /\ Spoken(rec.status)
  BY DEF PartsInv, StoreInv
<1>5. PlaceTypes' /\ TriesInv' /\ KnownInv' /\ SpokenInv' /\ BoxInv'
  <2>1. CASE ReadHandshake \/ HandshakeTimesOut
    BY <2>1, ScriptKeeps DEF ReadHandshake, HandshakeTimesOut
  <2>2. CASE SendResolves
    BY <2>2, ScriptKeeps DEF SendResolves
  <2>3. CASE SendInput \/ WaitSubscribes \/ WaitTimesOut
    BY <2>3, ScriptKeeps DEF SendInput, WaitSubscribes, WaitTimesOut
  <2>4. CASE Resolve \/ HandleWait
    BY <2>4, ScriptKeeps DEF Resolve, HandleWait
  <2>5. CASE WaitLooks
    BY <2>5, <1>3, <1>4, ScriptKeeps DEF WaitLooks
  <2>6. CASE WaitPolls
    BY <2>6, <1>3, <1>4, ScriptKeeps DEF WaitPolls
  <2>7. CASE WaitHears
    <3>1. Head(feed) # Absent => Head(feed) \in Records /\ Spoken(Head(feed).status)
      BY <2>7 DEF WaitHears, PartsInv, StoreInv
    <3> QED BY <2>7, <3>1, <1>3, ScriptKeeps DEF WaitHears
  <2> QED BY <2>1, <2>2, <2>3, <2>4, <2>5, <2>6, <2>7 DEF Waiting
<1>6. StoreInv'
  <2>1. CASE feed' = feed
    BY <1>1, <1>2, <2>1, StoreKept DEF PartsInv
  <2>2. CASE feed # <<>> /\ feed' = Tail(feed)
    <3>1. /\ feed' \in Seq(Records \cup {Absent}) /\ Len(feed') = Len(feed) - 1
          /\ \A i \in 1..Len(feed') : i + 1 \in 1..Len(feed) /\ feed'[i] = feed[i + 1]
      BY <2>2 DEF PartsInv, StoreInv
    <3> QED BY <1>2, <3>1, WaitAssumption DEF PartsInv, StoreInv, Spoken
  <2> QED BY <2>1, <2>2 DEF Waiting, ReadHandshake, SendResolves, SendInput, Resolve, HandleWait,
             WaitSubscribes, WaitLooks, WaitPolls, WaitHears, HandshakeTimesOut, WaitTimesOut
<1> QED BY <1>5, <1>6 DEF PartsInv

(* The runner: the agent's turns and output...                             *)
LEMMA AgentSteps ==
  ASSUME PartsInv,
         \/ EmitActivity
         \/ \E status \in Statuses : PutStatus(status) \/ WriteTranscript(status)
  PROVE  PartsInv'
<1>1. turns \in Nat /\ turns' = turns + 1 /\ turns' \in 0..MaxTurns
  BY WaitAssumption DEF PartsInv, PlaceTypes, EmitActivity, PutStatus, WriteTranscript, SetStatus, Busy
<1>2. UNCHANGED <<jumpd, run, via, pipe, tries, rec, reg, meta, hold, scan, dismissed, script, feed>>
  BY DEF EmitActivity, PutStatus, WriteTranscript, SetStatus, daemonVars, scriptVars
<1>3. CASE EmitActivity
  <2>1. UNCHANGED <<agent, unread>>
    BY <1>3 DEF EmitActivity, daemonVars
  <2>2. PlaceTypes' /\ TriesInv' /\ KnownInv' /\ SpokenInv'
    BY <1>1, <1>2, <2>1 DEF PartsInv, PlaceTypes, TriesInv, KnownInv, SpokenInv, Spoken
  <2>3. BoxInv'
    BY <1>1, <1>3, EmitKeeps DEF PartsInv, EmitActivity, Events
  <2>4. StoreInv'
    BY <1>1, <1>2, StoreKept DEF PartsInv
  <2> QED BY <2>2, <2>3, <2>4 DEF PartsInv
<1>4. ASSUME NEW status \in Statuses, PutStatus(status) \/ WriteTranscript(status)
      PROVE  PartsInv'
  <2>1. SetStatus(status) /\ agent' = status /\ unread' \in BOOLEAN
    BY <1>4 DEF PutStatus, WriteTranscript, SetStatus, PartsInv, PlaceTypes
  <2>2. PlaceTypes' /\ TriesInv' /\ KnownInv'
    BY <1>1, <1>2, <2>1 DEF PartsInv, PlaceTypes, TriesInv, KnownInv
  <2>3. status \in {"idle", "failed"} => turns' > 1
    BY <1>1, <2>1 DEF SetStatus, PartsInv, SpokenInv
  <2>4. SpokenInv'
    BY <1>1, <1>2, <2>1, <2>3 DEF PartsInv, SpokenInv, Spoken
  <2>5. BoxInv'
    BY <1>1, <1>4, <2>3, EmitKeeps, BoxKept DEF PartsInv, PutStatus, WriteTranscript, Events
  <2>6. StoreInv'
    BY <1>1, <1>2, StoreKept DEF PartsInv
  <2> QED BY <2>2, <2>4, <2>5, <2>6 DEF PartsInv
<1> QED BY <1>3, <1>4

(* ...and its own life.                                                    *)
LEMMA RunnerSteps ==
  ASSUME PartsInv,
         \/ SetRunning \/ RegisterFails \/ HandshakeAck \/ Deregister \/ Exit
         \/ JumpdServes \/ SetExited \/ Crash
  PROVE  PartsInv'
<1>1. turns \in Nat /\ turns' \in {turns, turns + 1}
  BY WaitAssumption DEF PartsInv, PlaceTypes, SetRunning, RegisterFails, HandshakeAck, Deregister,
     Exit, JumpdServes, SetExited, Crash, Gone, runnerVars
<1>2. /\ UNCHANGED <<turns, agent, via, rec, meta, hold, scan, unread, dismissed, script, feed>>
      /\ UNCHANGED reg \/ SetRunning \/ RegisterFails
  BY DEF SetRunning, RegisterFails, HandshakeAck, Deregister, Exit, JumpdServes, SetExited, Crash,
         Gone, runnerVars, daemonVars, scriptVars
<1>3. PlaceTypes' /\ TriesInv'
  <2>1. CASE SetRunning
    BY <2>1, WaitAssumption DEF SetRunning, PartsInv, PlaceTypes, TriesInv, Registrars, scriptVars
  <2>2. CASE RegisterFails
    BY <2>2, WaitAssumption DEF RegisterFails, Goes, PartsInv, PlaceTypes, TriesInv, Registrars, scriptVars
  <2>3. CASE HandshakeAck \/ Deregister \/ Exit \/ JumpdServes \/ SetExited \/ Crash
    BY <1>2, <2>3 DEF PartsInv, PlaceTypes, TriesInv, HandshakeAck, Deregister, Exit, JumpdServes,
                SetExited, Crash, Gone, runnerVars, daemonVars, scriptVars
  <2> QED BY <2>1, <2>2, <2>3
<1>4. KnownInv'
  <2>1. reg'[Runner] \in {"subscribe", "done"} => reg[Runner] \in {"subscribe", "done"}
    BY <1>2 DEF PartsInv, PlaceTypes, Registrars, SetRunning, RegisterFails, Goes
  <2>2. pipe' = "id" => pipe = "id" \/ reg[Runner] = "done"
    BY DEF SetRunning, RegisterFails, HandshakeAck, Deregister, Exit, JumpdServes, SetExited, Crash,
           Gone, runnerVars
  <2> QED BY <1>2, <2>1, <2>2 DEF PartsInv, KnownInv
<1>5. SpokenInv'
  BY <1>2 DEF PartsInv, SpokenInv, Spoken
<1>6. StoreInv'
  BY <1>1, <1>2, StoreKept DEF PartsInv
<1>7. BoxInv'
  <2>1. CASE UNCHANGED box
    BY <1>1, <2>1, BoxKept DEF PartsInv
  <2>2. CASE SetExited
    BY <1>1, <2>2, EmitKeeps DEF PartsInv, SetExited, Events
  <2>3. CASE box' = [e \in Entries |-> <<>>]
    BY <2>3, WaitAssumption DEF BoxInv
  <2> QED BY <2>1, <2>2, <2>3 DEF SetRunning, RegisterFails, HandshakeAck, Deregister, Exit,
             JumpdServes, Crash, Gone
<1> QED BY <1>3, <1>4, <1>5, <1>6, <1>7 DEF PartsInv

(* A registration, of the runner or the scanner.                           *)
LEMMA RegisterSteps ==
  ASSUME PartsInv, NEW x \in Registrars, Register(x)
  PROVE  PartsInv'
<1>1. turns \in Nat /\ UNCHANGED <<jumpd, runnerVars, box, hold, scan, unread, dismissed, script>>
  BY DEF PartsInv, PlaceTypes, Register, QueryMeta, RegisterWrite, RegisterSubscribe, CancelTaken,
         daemonVars, scriptVars
<1>2. BoxInv'
  BY <1>1, BoxKept DEF PartsInv, runnerVars
<1>3. CASE QueryMeta(x)
  <2>1. UNCHANGED <<rec, feed>> /\ reg' = [reg EXCEPT ![x] = "write"]
        /\ meta' = [meta EXCEPT ![x] = [alive |-> run = "running",
                                        status |-> IF via = "hook" THEN agent ELSE "none"]]
    BY <1>3 DEF QueryMeta, Goes, scriptVars
  <2>2. PlaceTypes' /\ TriesInv' /\ KnownInv'
    BY <1>1, <1>3, <2>1 DEF PartsInv, PlaceTypes, TriesInv, KnownInv, runnerVars, Records, Statuses,
       Registrars, QueryMeta, Goes
  <2>3. SpokenInv'
    BY <1>1, <2>1 DEF PartsInv, PlaceTypes, SpokenInv, Spoken, runnerVars
  <2>4. StoreInv'
    BY <1>1, <2>1, StoreKept DEF PartsInv, runnerVars
  <2> QED BY <1>2, <2>2, <2>3, <2>4 DEF PartsInv
<1>4. CASE RegisterWrite(x)
  <2> DEFINE r == IF rec = Absent THEN meta[x] ELSE [meta[x] EXCEPT !.status = Applied(@)]
  <2>1. r \in Records /\ Spoken(r.status)
    BY DEF PartsInv, PlaceTypes, SpokenInv, Spoken, Records, Statuses, Applied
  <2>2. /\ rec' = r /\ Broadcast(r) /\ rec' # Absent
        /\ reg' = [reg EXCEPT ![x] = "subscribe"] /\ reg[x] = "write"
        /\ meta' = [meta EXCEPT ![x] = Dead]
    BY <1>4, <2>1, WaitAssumption DEF RegisterWrite, Write, Goes
  <2> HIDE DEF r
  <2>3. Dead \in Records /\ Dead.status = "none"
    BY DeadIsRecord
  <2>4. PlaceTypes' /\ TriesInv' /\ KnownInv'
    BY <1>1, <2>2, <2>3 DEF PartsInv, PlaceTypes, TriesInv, KnownInv, runnerVars, Registrars
  <2>5. SpokenInv'
    BY <1>1, <2>2, <2>3 DEF PartsInv, PlaceTypes, SpokenInv, Spoken, runnerVars
  <2>6. StoreInv'
    BY <1>1, <2>1, <2>2, BroadcastKeeps DEF PartsInv, runnerVars
  <2> QED BY <1>2, <2>4, <2>5, <2>6 DEF PartsInv
<1>5. CASE RegisterSubscribe(x) \/ CancelTaken(x)
  <2>1. /\ UNCHANGED <<rec, meta, feed>>
        /\ \/ UNCHANGED reg
           \/ reg[x] = "subscribe" /\ reg' = [reg EXCEPT ![x] = "done"]
    BY <1>5 DEF RegisterSubscribe, CancelTaken, Goes, daemonVars, scriptVars
  <2>2. PlaceTypes' /\ TriesInv' /\ KnownInv'
    BY <1>1, <2>1 DEF PartsInv, PlaceTypes, TriesInv, KnownInv, runnerVars, Registrars
  <2>3. SpokenInv'
    BY <1>1, <2>1 DEF PartsInv, SpokenInv, Spoken, runnerVars
  <2>4. StoreInv'
    BY <1>1, <2>1, StoreKept DEF PartsInv, runnerVars
  <2> QED BY <1>2, <2>2, <2>3, <2>4 DEF PartsInv
<1> QED BY <1>3, <1>4, <1>5 DEF Register

(* The goroutine of an entry.                                              *)
LEMMA FollowSteps ==
  ASSUME PartsInv, NEW e \in Entries, Follow(e)
  PROVE  PartsInv'
<1>1. turns \in Nat /\ UNCHANGED <<jumpd, runnerVars, reg, meta, scan, unread, dismissed, script>>
  BY DEF PartsInv, PlaceTypes, Follow, Dial, DialFails, Take, Apply, Handled, Hangup, Leave,
         daemonVars, scriptVars
<1>2. CASE Dial(e) \/ DialFails(e) \/ Handled(e) \/ Hangup(e) \/ Leave(e)
  <2>1. UNCHANGED <<rec, feed, hold>>
    BY <1>2 DEF Dial, DialFails, Handled, Hangup, Leave, daemonVars, scriptVars
  <2>2. PlaceTypes' /\ TriesInv' /\ KnownInv' /\ SpokenInv'
    BY <1>1, <2>1 DEF PartsInv, PlaceTypes, TriesInv, KnownInv, SpokenInv, Spoken, runnerVars
  <2>3. StoreInv'
    BY <1>1, <2>1, StoreKept DEF PartsInv, runnerVars
  <2>4. BoxInv'
    <3>1. CASE UNCHANGED box
      BY <1>1, <3>1, BoxKept DEF PartsInv, runnerVars
    <3>2. CASE box' = [box EXCEPT ![e] = <<>>]
      BY <1>1, <3>2, WaitAssumption DEF PartsInv, BoxInv, Spoken, runnerVars
    <3> QED BY <1>2, <3>1, <3>2 DEF Dial, DialFails, Handled, Hangup, Leave
  <2> QED BY <2>2, <2>3, <2>4 DEF PartsInv
<1>3. CASE Take(e)
  <2>1. box[e] \in Seq(Events) /\ box[e] # <<>> /\ box' = [box EXCEPT ![e] = Tail(@)]
    BY <1>3 DEF Take, PartsInv, BoxInv
  <2>2. Head(box[e]) \in Events /\ Spoken(Head(box[e]))
    BY <2>1 DEF PartsInv, BoxInv
  <2>3. /\ Tail(box[e]) \in Seq(Events) /\ Len(Tail(box[e])) = Len(box[e]) - 1
        /\ \A i \in 1..Len(Tail(box[e])) : i + 1 \in 1..Len(box[e]) /\ Tail(box[e])[i] = box[e][i + 1]
    BY <2>1
  <2>4. BoxInv'
    BY <1>1, <2>1, <2>3, WaitAssumption DEF PartsInv, BoxInv, Spoken, runnerVars
  <2>5. UNCHANGED <<rec, feed>> /\ hold' \in {[hold EXCEPT ![e] = None], [hold EXCEPT ![e] = Head(box[e])]}
    BY <1>3 DEF Take, scriptVars
  <2>6. PlaceTypes' /\ TriesInv' /\ KnownInv'
    BY <1>1, <2>2, <2>5 DEF PartsInv, PlaceTypes, TriesInv, KnownInv, runnerVars
  <2>7. SpokenInv'
    BY <1>1, <2>2, <2>5, WaitAssumption DEF PartsInv, PlaceTypes, SpokenInv, Spoken, runnerVars, Events, Statuses
  <2>8. StoreInv'
    BY <1>1, <2>5, StoreKept DEF PartsInv, runnerVars
  <2> QED BY <2>4, <2>6, <2>7, <2>8 DEF PartsInv
<1>4. CASE Apply(e)
  <2>1. hold[e] \in Events /\ Spoken(hold[e]) /\ hold' = [hold EXCEPT ![e] = None] /\ UNCHANGED box
    BY <1>4 DEF Apply, PartsInv, PlaceTypes, SpokenInv
  <2>2. Dead \in Records /\ Dead.status = "none" /\ Dead # Absent
    BY DeadIsRecord
  <2>3. StoreInv' /\ (rec # Absent => rec' # Absent)
    <3>1. CASE hold[e] = "exit"
      <4>1. rec' = Dead /\ Broadcast(Dead)
        BY <1>4, <3>1 DEF Apply, Write
      <4> QED BY <1>1, <2>2, <4>1, BroadcastKeeps DEF PartsInv, runnerVars, Spoken
    <3>2. CASE hold[e] = "activity"
      BY <1>1, <1>4, <3>2, BroadcastKeeps DEF Apply, PartsInv, runnerVars
    <3>3. CASE hold[e] \in Statuses
      <4>1. Update(Applied(hold[e]))
        BY <1>4, <3>3 DEF Apply, Statuses
      <4>2. Applied(hold[e]) \in Statuses /\ Spoken(Applied(hold[e]))
        BY <2>1, <3>3 DEF Applied, Statuses, Spoken
      <4> QED BY <1>1, <4>1, <4>2, UpdateKeeps DEF PartsInv, runnerVars
    <3> QED BY <2>1, <3>1, <3>2, <3>3 DEF Events
  <2>4. PlaceTypes' /\ TriesInv' /\ KnownInv'
    BY <1>1, <2>1, <2>3 DEF PartsInv, PlaceTypes, TriesInv, KnownInv, runnerVars
  <2>5. SpokenInv'
    BY <1>1, <2>1, WaitAssumption DEF PartsInv, PlaceTypes, SpokenInv, Spoken, runnerVars, Events, Statuses
  <2>6. BoxInv'
    BY <1>1, <2>1, BoxKept DEF PartsInv, runnerVars
  <2> QED BY <2>3, <2>4, <2>5, <2>6 DEF PartsInv
<1> QED BY <1>2, <1>3, <1>4 DEF Follow

(* The scanner, the file monitor and the dismiss.  Only the dismiss takes  *)
(* the record away.                                                        *)
LEMMA DaemonSteps ==
  ASSUME PartsInv,
         \/ ScanFirst \/ ScanFails \/ ScanSecond \/ ScanCheck \/ ScanMark \/ ScanUnsubscribe
         \/ MonitorReads \/ Dismiss \/ Dismissing
  PROVE  PartsInv'
<1>1. /\ turns \in Nat
      /\ UNCHANGED <<jumpd, runnerVars, box, meta, hold, script>>
  BY DEF PartsInv, PlaceTypes, ScanFirst, ScanFails, ScanSecond, ScanCheck, ScanMark,
         ScanUnsubscribe, Scans, MonitorReads, Dismiss, Dismissing, DismissUnsubscribes, CancelTaken,
         daemonVars, scriptVars
<1>2. /\ scan' \in {"idle", "first", "check", "mark", "unsubscribe"}
      /\ unread' \in BOOLEAN /\ dismissed' \in {"no", "removed", "done"}
      /\ \/ UNCHANGED reg
         \/ reg' \in {[reg EXCEPT ![Scan] = "query"], [reg EXCEPT ![Scan] = "done"]}
  BY DEF PartsInv, PlaceTypes, ScanFirst, ScanFails, ScanSecond, ScanCheck, ScanMark,
         ScanUnsubscribe, Scans, Goes, MonitorReads, Dismiss, Dismissing, DismissUnsubscribes, CancelTaken,
         daemonVars, scriptVars
<1>3. reg'[Runner] = reg[Runner] /\ reg' \in [Registrars -> {"none", "query", "write", "subscribe", "done", "failed"}]
  BY <1>2, WaitAssumption DEF PartsInv, PlaceTypes, Registrars
<1>4. Dead \in Records /\ Dead.status = "none" /\ Dead # Absent
  BY DeadIsRecord
<1>5. StoreInv' /\ (dismissed' = "no" => dismissed = "no" /\ (rec # Absent => rec' # Absent))
  <2>1. CASE ScanMark
    <3>1. rec' = Dead /\ Broadcast(Dead) /\ UNCHANGED dismissed
      BY <2>1 DEF ScanMark, Scans, Write
    <3> QED BY <1>1, <1>4, <3>1, BroadcastKeeps DEF PartsInv, runnerVars, Spoken
  <2>2. CASE MonitorReads
    <3>1. Applied(agent) \in Statuses /\ Spoken(Applied(agent))
      BY DEF PartsInv, PlaceTypes, SpokenInv, Applied, Spoken, Statuses
    <3> QED BY <1>1, <2>2, <3>1, UpdateKeeps DEF MonitorReads, PartsInv, runnerVars
  <2>3. CASE Dismiss
    <3>1. rec' = Absent /\ Broadcast(Absent) /\ dismissed' = "removed"
      BY <2>3 DEF Dismiss, Write
    <3> QED BY <1>1, <3>1, BroadcastKeeps DEF PartsInv, runnerVars
  <2>4. CASE \/ ScanFirst \/ ScanFails \/ ScanSecond \/ ScanCheck \/ ScanUnsubscribe
             \/ Dismissing
    <3>1. UNCHANGED <<rec, feed>> /\ (dismissed' = "no" => dismissed = "no")
      BY <2>4 DEF ScanFirst, ScanFails, ScanSecond, ScanCheck, ScanUnsubscribe, Scans,
                  Dismissing, DismissUnsubscribes, CancelTaken, daemonVars, scriptVars
    <3> QED BY <1>1, <3>1, StoreKept DEF PartsInv, runnerVars
  <2> QED BY <2>1, <2>2, <2>3, <2>4
<1>6. PlaceTypes' /\ TriesInv'
  BY <1>1, <1>2, <1>3 DEF PartsInv, PlaceTypes, TriesInv, runnerVars
<1>7. KnownInv'
  BY <1>1, <1>3, <1>5 DEF PartsInv, KnownInv, runnerVars
<1>8. SpokenInv'
  BY <1>1 DEF PartsInv, SpokenInv, Spoken, runnerVars
<1>9. BoxInv'
  BY <1>1, BoxKept DEF PartsInv, runnerVars
<1> QED BY <1>5, <1>6, <1>7, <1>8, <1>9 DEF PartsInv

-----------------------------------------------------------------------------
(* The theorems about Wait                                                 *)

LEMMA InitParts == Init => PartsInv
<1> SUFFICES ASSUME Init PROVE PartsInv
  OBVIOUS
<1> USE DEF Init
<1>1. Dead \in Records /\ Dead.status = "none"
  BY DeadIsRecord
<1>2. PlaceTypes
  <2>1. 0 \in 0..MaxTurns /\ 0 \in 0..MaxTries
    BY WaitAssumption
  <2>2. hold \in [Entries -> Events \cup {None}]
    OBVIOUS
  <2>3. reg \in [Registrars -> {"none", "query", "write", "subscribe", "done", "failed"}]
    OBVIOUS
  <2>4. meta \in [Registrars -> Records]
    BY <1>1
  <2> QED BY <2>1, <2>2, <2>3, <2>4 DEF PlaceTypes, Statuses
<1>3. TriesInv /\ KnownInv
  BY WaitAssumption DEF TriesInv, KnownInv, Registrars
<1>4. SpokenInv
  BY <1>1, WaitAssumption DEF SpokenInv, Spoken, Events, Statuses
<1>5. StoreInv /\ BoxInv
  BY WaitAssumption DEF StoreInv, BoxInv
<1> QED BY <1>2, <1>3, <1>4, <1>5 DEF PartsInv

LEMMA StepParts == PartsInv /\ [Next]_vars => PartsInv'
<1> SUFFICES ASSUME PartsInv, [Next]_vars PROVE PartsInv'
  OBVIOUS
<1>1. CASE UNCHANGED vars
  <2>1. turns \in Nat
    BY DEF PartsInv, PlaceTypes
  <2>2. PlaceTypes' /\ TriesInv' /\ KnownInv' /\ SpokenInv'
    BY <1>1 DEF vars, runnerVars, daemonVars, scriptVars, PartsInv, PlaceTypes, TriesInv, KnownInv,
                SpokenInv, Spoken
  <2> QED BY <1>1, <2>1, <2>2, StoreKept, BoxKept DEF vars, runnerVars, daemonVars, scriptVars, PartsInv
<1>2. CASE Running
  BY <1>2, RunnerSteps, RegisterSteps, FollowSteps, DaemonSteps, ScriptSteps
     DEF Running, RunSession, Registrars
<1>3. CASE Scanning
  BY <1>3, RegisterSteps, DaemonSteps DEF Scanning, Registrars
<1>4. CASE Next /\ ~Running /\ ~Scanning
  BY <1>4, RunnerSteps, AgentSteps, DaemonSteps, ScriptSteps DEF Next
<1> QED BY <1>1, <1>2, <1>3, <1>4 DEF Next

(* The inductive invariant holds in every behaviour.                       *)
THEOREM WaitInvariant == Spec => []WaitInv
<1>1. Init => WaitInv
  BY InitParts, InitSubsInv DEF WaitInv, Init
<1>2. WaitInv /\ [Next]_vars => WaitInv'
  BY StepParts, StepSubsInv, StepsOfTheTable DEF WaitInv
<1> QED BY <1>1, <1>2, PTL DEF Spec

(* Every variable keeps its type, and no channel is ever fuller than it is *)
(* long.                                                                   *)
THEOREM WaitTypes == Spec => []TypeOK
BY WaitInvariant, InvGivesTypes, PTL

(* The id that a script was handed is known to the daemon from then on, so *)
(* its lookups fail only after a dismiss (run.go hands the id over after   *)
(* the registration).                                                      *)
THEOREM IdsAreKnown == Spec => []IdIsKnown
<1>1. WaitInv => IdIsKnown
  BY DEF WaitInv, PartsInv, KnownInv, IdIsKnown
<1> QED BY <1>1, WaitInvariant, PTL

(* No wait is answered idle for an agent that has not worked, whichever of *)
(* the registration, an event, the transcript or a poll brought the status *)
(* (wait.go, terminalReason).                                              *)
THEOREM NeverIdleEarly == Spec => []NoEarlyIdle
<1>1. WaitInv => NoEarlyIdle
  BY DEF WaitInv, PartsInv, PlaceTypes, SpokenInv, NoEarlyIdle
<1> QED BY <1>1, WaitInvariant, PTL

=============================================================================
