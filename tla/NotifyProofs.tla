------------------------------ MODULE NotifyProofs ------------------------------
(***************************************************************************)
(* Proofs about Notify, for any number of sessions, browsers and           *)
(* notifications and any limits: what is told is true, within the limit    *)
(* of the workspace, not told to who is looking, and no table keeps an     *)
(* entry.                                                                  *)
(***************************************************************************)
EXTENDS Notify, SequenceTheorems, FiniteSetTheorems, TLAPS

-----------------------------------------------------------------------------
(* The inductive invariant                                                 *)

(* Every pending notification has an id of its own, and its own timer.     *)
PendingInv ==
  \A s \in Sessions : pending[s] # 0 =>
    /\ pending[s] <= nextID /\ notif[pending[s]].s = s
    /\ timer[pending[s]] = "armed" \/ fire[pending[s]].step = "start"

TimerInv ==
  \A n \in Ids :
    /\ timer[n] = "armed" => fire[n] = IdleFire
    /\ timer[n] = "armed" \/ fire[n].step = "start" => notif[n].s \in Sessions
    /\ n > nextID => timer[n] = "none" /\ fire[n] = IdleFire

(* A timer has picked one notification, or several for a summary.          *)
Single(n) == fire[n].id # 0 /\ fire[n].ids = {fire[n].id}
Several(n) == Cardinality(fire[n].ids) > 1
FireInv ==
  \A n \in Ids :
    /\ \A x \in fire[n].ids : x <= nextID /\ notif[x].s \in Sessions
    /\ fire[n].step \in {"viewing", "allow"} => Single(n)
    /\ fire[n].step = "quota" => Several(n)
    /\ fire[n].step \in {"target", "send"} => Single(n) \/ Several(n)

ActiveInv == \A n \in active : n \in expiry \/ Sending(n)

(* Deliveries permitted at t and not told yet: the loop's is 0.            *)
Holds(n, w, t) ==
  \/ /\ n = 0 /\ task.step \in {"toast", "send"}
     /\ Workspace[task.s] = w /\ task.at = t
  \/ /\ n \in Ids /\ fire[n].step \in {"target", "send"}
     /\ w \in FireWorkspaces(n) /\ fire[n].at = t
Holders(w, t) == {n \in 0..MaxIds : Holds(n, w, t)}
Allowed(w, t) == IF t = now THEN Pruned(wsHist[w]) ELSE IF t < now THEN WorkspaceLimit ELSE 0
QuotaInv ==
  \A w \in Workspaces :
    /\ wsHist[w].at <= now /\ Pruned(wsHist[w]) <= WorkspaceLimit
    /\ \A t \in 0..MaxTime : told[w][t] + Cardinality(Holders(w, t)) <= Allowed(w, t)

(* Since the second look nobody has come to view the session unseen.       *)
Views(c, s) == clients[c] # None /\ clients[c].focused /\ clients[c].sel = s
ViewInv ==
  \A n \in Ids : (n \in Late /\ Single(n)) =>
    \A c \in Clients : Views(c, notif[fire[n].id].s) => n \in gaze[c]

(* The states of s after each event on its way to the router, from what    *)
(* the router knows to what the store has, and the finishes still to come. *)
Ends(old, cur) == old # None /\ old.working /\ ~cur.working /\ cur.alive
Leads(ev, s, old, new, r, q) ==
  IF ev.s # s \/ ev.type = "activity" THEN new = old /\ q = r
  ELSE /\ new = ev.cur
       /\ IF ev.type = "upsert" /\ Ends(old, ev.cur) THEN r = q + 1 ELSE q = r
Path(s, st, rem) ==
  /\ st[0] = prev[s] /\ st[Len(events)] = sess[s] /\ rem[0] <= real[s]
  /\ \A k \in 1..Len(events) : Leads(events[k], s, st[k - 1], st[k], rem[k - 1], rem[k])
Known(s) ==
  \E st \in [0..Len(events) -> {None} \cup Attention], rem \in [0..Len(events) -> Nat] :
    Path(s, st, rem)
TruthInv ==
  /\ phantom \subseteq blind
  /\ phase = "subscribed" => \A k \in 1..Len(events) : events[k].s \in blind
  /\ \A k \in 1..Len(events) : events[k].type = "remove" => events[k].cur = None
  /\ phase = "listed" => \A s \in Sessions \ blind : Known(s)

NotifyInv == TypeOK /\ PendingInv /\ TimerInv /\ FireInv /\ ActiveInv /\ QuotaInv /\ ViewInv /\ TruthInv

-----------------------------------------------------------------------------
(* Types                                                                   *)

LEMMA AnnouncedTypes ==
  ASSUME events \in Seq(Events), Len(events) <= ChanCap, blind \subseteq Sessions,
         NEW ev \in Events, Announce(ev)
  PROVE  events' \in Seq(Events) /\ Len(events') <= ChanCap /\ blind' \subseteq Sessions
<1>1. /\ Append(events, ev) \in Seq(Events) /\ Len(Append(events, ev)) = Len(events) + 1
      /\ Len(events) \in Nat /\ ChanCap \in Nat
  BY NotifyAssumption, AppendProperties, LenProperties
<1>2. events' \in Seq(Events) /\ Len(events') <= ChanCap
  BY <1>1 DEF Announce
<1>3. ev.s \in Sessions
  BY DEF Events
<1> QED BY <1>2, <1>3 DEF Announce

(* The attention a session may come to have.                               *)
LEMMA PutTypes ==
  ASSUME StoreTypes, NEW s \in Sessions, NEW a \in Attention, Put(s, a), UNCHANGED <<phase, prev, phantom>>
  PROVE  StoreTypes'
<1>1. [type |-> "upsert", s |-> s, cur |-> a] \in Events
  BY DEF Events
<1>2. events' \in Seq(Events) /\ Len(events') <= ChanCap /\ blind' \subseteq Sessions
  BY <1>1, AnnouncedTypes DEF Put, StoreTypes
<1> QED BY <1>2 DEF Put, StoreTypes

LEMMA NewAttention ==
  ASSUME NEW a \in Attention, NEW st, NEW u \in BOOLEAN
  PROVE  ApplyStatus(a, st) \in Attention /\ ApplyUnread(a, u) \in Attention
<1>1. (st = "working") \in BOOLEAN /\ (st = "error") \in BOOLEAN /\ (a.error /\ u) \in BOOLEAN
  BY DEF Attention
<1> QED BY <1>1 DEF ApplyStatus, ApplyUnread, Attention

LEMMA StoreTyped == ASSUME TypeOK, Next PROVE StoreTypes'
<1>1. StoreTypes
  BY DEF TypeOK
<1>2. ASSUME NEW s \in Sessions, NEW st, NEW u \in BOOLEAN, Report(s, st, u) PROVE StoreTypes'
  <2>1. sess[s] \in Attention
    BY <1>1, <1>2 DEF Report, StoreTypes
  <2>2. ApplyUnread(ApplyStatus(sess[s], st), u) \in Attention
    BY <2>1, NewAttention
  <2>3. Put(s, ApplyUnread(ApplyStatus(sess[s], st), u)) /\ UNCHANGED <<phase, prev, phantom>>
    BY <1>2 DEF Report, routerVars
  <2> QED BY <1>1, <2>2, <2>3, PutTypes
<1>3. ASSUME NEW s \in Sessions, Appears(s) PROVE StoreTypes'
  <2>1. PICK w \in BOOLEAN : Put(s, [working |-> w, error |-> FALSE, unread |-> FALSE, alive |-> TRUE])
    BY <1>3 DEF Appears
  <2>2. [working |-> w, error |-> FALSE, unread |-> FALSE, alive |-> TRUE] \in Attention
    BY DEF Attention
  <2>3. UNCHANGED <<phase, prev, phantom>>
    BY <1>3 DEF Appears, routerVars
  <2> QED BY <1>1, <2>1, <2>2, <2>3, PutTypes
<1>4. ASSUME NEW s \in Sessions, MarkRead(s) PROVE StoreTypes'
  <2>1. sess[s] \in Attention
    BY <1>1, <1>4 DEF MarkRead, StoreTypes
  <2>2. MarkAttentionRead(sess[s]) \in Attention
    BY <2>1, NewAttention DEF MarkAttentionRead
  <2>3. Put(s, MarkAttentionRead(sess[s])) /\ UNCHANGED <<phase, prev, phantom>>
    BY <1>4 DEF MarkRead, routerVars
  <2> QED BY <1>1, <2>2, <2>3, PutTypes
<1>5. ASSUME NEW s \in Sessions, Dies(s) PROVE StoreTypes'
  <2> DEFINE a == [sess[s] EXCEPT !.alive = FALSE, !.working = FALSE, !.error = FALSE]
  <2>1. sess[s] \in Attention
    BY <1>1, <1>5 DEF Dies, StoreTypes
  <2>2. a \in Attention
    BY <2>1 DEF Attention
  <2>3. Put(s, a) /\ UNCHANGED <<phase, prev, phantom>>
    BY <1>5 DEF Dies, routerVars
  <2> QED BY <1>1, <2>2, <2>3, PutTypes
<1>6. ASSUME NEW s \in Sessions, Disappears(s) \/ Activity(s) PROVE StoreTypes'
  <2>1. PICK t \in {"remove", "activity"} : Announce([type |-> t, s |-> s, cur |-> None])
    BY <1>6 DEF Disappears, Activity
  <2>2. [type |-> t, s |-> s, cur |-> None] \in Events
    BY DEF Events
  <2>3. events' \in Seq(Events) /\ Len(events') <= ChanCap /\ blind' \subseteq Sessions
    BY <1>1, <2>1, <2>2, AnnouncedTypes DEF StoreTypes
  <2>4. UNCHANGED <<phase, prev, phantom, real>> /\ changes' = changes + 1
    BY <1>6 DEF Disappears, Activity, routerVars
  <2>5. sess' \in [Sessions -> {None} \cup Attention]
    BY <1>1, <1>6 DEF Disappears, Activity, StoreTypes
  <2> QED BY <1>1, <2>3, <2>4, <2>5 DEF StoreTypes
<1>7. CASE HandleEvent
  <2>1. /\ events # <<>> /\ events' = Tail(events) /\ Head(events) \in Events
        /\ Tail(events) \in Seq(Events) /\ Len(Tail(events)) <= ChanCap
    BY <1>1, <1>7, HeadTailProperties, NotifyAssumption DEF HandleEvent, StoreTypes
  <2>2. Head(events).s \in Sessions /\ Head(events).cur \in Attention \cup {None}
    BY <2>1 DEF Events
  <2>3. /\ prev' \in [Sessions -> {None} \cup Attention] /\ real' \in [Sessions -> Nat]
        /\ phantom' \subseteq Sessions
    <3>1. CASE HandleUpsert(Head(events)) /\ Head(events).type = "upsert"
      BY <1>1, <2>2, <3>1 DEF HandleUpsert, StoreTypes
    <3>2. CASE HandleRemove(Head(events))
      BY <1>1, <2>2, <3>2 DEF HandleRemove, StoreTypes
    <3>3. CASE HandleActivity(Head(events))
      BY <1>1, <3>3 DEF HandleActivity, StoreTypes
    <3> QED BY <1>7, <3>1, <3>2, <3>3 DEF HandleEvent
  <2> QED BY <1>1, <1>7, <2>1, <2>3 DEF StoreTypes, HandleEvent
<1>8. CASE SeedPrev
  BY <1>1, <1>8 DEF SeedPrev, StoreTypes, storeVars
<1>9. CASE UNCHANGED <<storeVars, phase, prev, phantom>>
  BY <1>1, <1>9 DEF StoreTypes, storeVars
<1>10. ASSUME NEW c \in Clients, \/ Add(c) \/ Remove(c) \/ SetPermission(c) \/ Callback(c)
                                 \/ \E f \in BOOLEAN, s \in Sessions \cup {None} : Update(c, f, s)
       PROVE  UNCHANGED <<storeVars, phase, prev, phantom>>
  BY <1>10 DEF Add, Remove, SetPermission, Update, Moved, Callback, CancelAll, CancelForSession,
     routerVars
<1>11. CASE \/ LooksForMode \/ AllowInApp \/ NoToast \/ EnterToast \/ SendToast \/ Improve \/ Defer
            \/ PushActivity \/ Ticks
  BY <1>9, <1>11 DEF LooksForMode, AllowInApp, NoToast, EnterToast, SendToast, Improve, Defer,
     PushActivity,
     Ticks, loopOnly, routerVars
<1>12. ASSUME NEW n \in Ids, Ack(n) \/ FireStep(n) PROVE UNCHANGED <<storeVars, phase, prev, phantom>>
  BY <1>12 DEF Ack, FireStep, TimerFires, FirePending, LooksAgain, AllowPending, AllowSummary,
     NoTarget,
     Enter, Send, Expires, fireOnly
<1>13. \A r \in Reports : r[2] \in BOOLEAN
  BY NotifyAssumption
<1> QED BY <1>2, <1>3, <1>4, <1>5, <1>6, <1>7, <1>8, <1>9, <1>10, <1>11, <1>12, <1>13
        DEF Next, SessionStep, ClientStep, LoopStep

LEMMA ClientTyped == ASSUME TypeOK, Next PROVE ClientTypes'
<1>1. ClientTypes
  BY DEF TypeOK
<1>2. ASSUME NEW c \in Clients, gaze' = [gaze EXCEPT ![c] = Late], moves' = moves + 1
      PROVE  gaze' \in [Clients -> SUBSET Ids] /\ moves' \in Nat
  <2>1. Late \in SUBSET Ids
    BY DEF Late
  <2> QED BY <1>1, <1>2, <2>1 DEF ClientTypes
<1>3. ASSUME NEW c \in Clients, Add(c) \/ Remove(c) \/ SetPermission(c) PROVE ClientTypes'
  <2>1. UNCHANGED job /\ gaze' \in [Clients -> SUBSET Ids] /\ moves' \in Nat
    BY <1>2, <1>3 DEF Add, Remove, SetPermission, Moved
  <2>2. CASE Add(c) \/ Remove(c)
    <3>1. PICK x \in {None} \cup [granted : BOOLEAN, focused : BOOLEAN, sel : Sessions \cup {None}] :
            clients' = [clients EXCEPT ![c] = x]
      BY <2>2 DEF Add, Remove
    <3> QED BY <1>1, <2>1, <3>1 DEF ClientTypes
  <2>3. CASE SetPermission(c)
    <3>1. clients' = [clients EXCEPT ![c].granted = ~@]
      BY <2>3 DEF SetPermission
    <3>2. clients[c] \in [granted : BOOLEAN, focused : BOOLEAN, sel : Sessions \cup {None}]
      BY <1>1, <2>3 DEF SetPermission, ClientTypes
    <3>3. clients' \in [Clients -> {None} \cup [granted : BOOLEAN, focused : BOOLEAN, sel : Sessions \cup {None}]]
      BY <1>1, <3>1, <3>2 DEF ClientTypes
    <3> QED BY <1>1, <2>1, <3>3 DEF ClientTypes
  <2> QED BY <1>3, <2>2, <2>3
<1>4. ASSUME NEW c \in Clients, NEW f \in BOOLEAN, NEW s \in Sessions \cup {None}, Update(c, f, s)
      PROVE  ClientTypes'
  <2> DEFINE a == IF f /\ ~clients[c].focused THEN <<[call |-> "all", s |-> None]>> ELSE <<>>
             b == IF s \notin {None, clients[c].sel} THEN <<[call |-> "session", s |-> s]>> ELSE <<>>
  <2>1. a \in Seq(Calls) /\ b \in Seq(Calls)
    <3>1. \A x \in Calls : <<x>> \in Seq(Calls)
      OBVIOUS
    <3>2. [call |-> "all", s |-> None] \in Calls /\ (s \in Sessions => [call |-> "session", s |-> s] \in Calls)
      BY DEF Calls
    <3> QED BY <3>1, <3>2, EmptySeq
  <2>2. a \o b \in Seq(Calls)
    BY <2>1, ConcatProperties
  <2>3. job' = [job EXCEPT ![c] = a \o b]
    BY <1>4 DEF Update
  <2> HIDE DEF a, b
  <2>4. job' \in [Clients -> Seq(Calls)]
    BY <1>1, <2>2, <2>3 DEF ClientTypes
  <2>5. gaze' \in [Clients -> SUBSET Ids] /\ moves' \in Nat
    BY <1>2, <1>4 DEF Update, Moved
  <2>6. clients' \in [Clients -> {None} \cup [granted : BOOLEAN, focused : BOOLEAN, sel : Sessions \cup {None}]]
    BY <1>1, <1>4 DEF Update, ClientTypes
  <2> QED BY <2>4, <2>5, <2>6 DEF ClientTypes
<1>5. ASSUME NEW c \in Clients, Callback(c) PROVE ClientTypes'
  <2>1. job' = [job EXCEPT ![c] = Tail(@)] /\ job[c] # <<>> /\ UNCHANGED <<clients, moves, gaze>>
    BY <1>5 DEF Callback, CancelAll, CancelForSession
  <2>2. Tail(job[c]) \in Seq(Calls)
    BY <1>1, <2>1, HeadTailProperties DEF ClientTypes
  <2> QED BY <1>1, <2>1, <2>2 DEF ClientTypes
<1>6. CASE UNCHANGED viewVars
  BY <1>1, <1>6 DEF ClientTypes, viewVars
<1>7. CASE SessionStep \/ LoopStep \/ Ticks
  BY <1>6, <1>7 DEF SessionStep, Report, Appears, MarkRead, Dies, Disappears, Activity, LoopStep,
     SeedPrev, HandleEvent, LooksForMode, AllowInApp, NoToast, EnterToast, SendToast, Improve,
     Defer,
     PushActivity, loopOnly, Ticks
<1>8. ASSUME NEW n \in Ids, Ack(n) \/ FireStep(n) PROVE UNCHANGED viewVars
  BY <1>8 DEF Ack, FireStep, TimerFires, FirePending, LooksAgain, AllowPending, AllowSummary,
     NoTarget,
     Enter, Send, Expires, fireOnly
<1> QED BY <1>3, <1>4, <1>5, <1>6, <1>7, <1>8 DEF Next, ClientStep

TaskTypes ==
  /\ task \in Tasks /\ (task.step # "idle" => task.s \in Sessions)
  /\ task.step \notin {"idle", "activity"} => task.todo # <<>>
  /\ task.step = "send" => task.id # 0

LEMMA IdleTaskTypes == IdleTask \in Tasks /\ IdleTask.step = "idle" /\ IdleFire \in Fires
<1>1. <<>> \in Seq({"finished", "unread"})
  BY EmptySeq
<1>2. 0 \in 0..MaxTime /\ 0 \in 0..MaxIds /\ {} \in SUBSET Ids
  BY NotifyAssumption
<1> QED BY <1>1, <1>2 DEF IdleTask, TaskAt, Tasks, IdleFire, FireAt, Fires

LEMMA BeginTypes ==
  ASSUME NEW s \in Sessions, NEW todo \in Seq({"finished", "unread"}), Begin(s, todo)
  PROVE  TaskTypes'
<1>1. CASE todo = <<>>
  BY <1>1, IdleTaskTypes DEF Begin, TaskTypes
<1>2. CASE todo # <<>>
  <2>1. task' = [step |-> "viewing", s |-> s, todo |-> todo, id |-> 0, at |-> 0]
    BY <1>2 DEF Begin, TaskAt
  <2>2. 0 \in 0..MaxTime /\ 0 \in 0..MaxIds
    BY NotifyAssumption
  <2> QED BY <1>2, <2>1, <2>2 DEF Tasks, TaskTypes
<1> QED BY <1>1, <1>2

LEMMA DoneTypes ==
  ASSUME TaskTypes, task.step \notin {"idle", "activity"}, Done
  PROVE  TaskTypes'
<1>1. task.s \in Sessions /\ task.todo # <<>> /\ task.todo \in Seq({"finished", "unread"})
  BY DEF TaskTypes, Tasks
<1>2. Tail(task.todo) \in Seq({"finished", "unread"})
  BY <1>1, HeadTailProperties
<1> QED BY <1>1, <1>2, BeginTypes DEF Done

LEMMA TaskTyped == ASSUME TypeOK, Next PROVE TaskTypes'
<1>1. TaskTypes
  BY DEF TypeOK, LoopTypes, TaskTypes
<1>2. CASE HandleEvent
  <2> DEFINE ev == Head(events)
  <2>1. ev \in Events
    BY <1>2, HeadTailProperties DEF HandleEvent, TypeOK, StoreTypes
  <2>2. ev.s \in Sessions
    BY <2>1 DEF Events
  <2>3. CASE HandleUpsert(ev)
    <3> DEFINE todo == IF prev[ev.s] = None THEN <<>> ELSE Intents(prev[ev.s], ev.cur)
    <3>1. \A old, cur : Intents(old, cur) \in Seq({"finished", "unread"})
      <4>1. <<"finished">> \in Seq({"finished", "unread"}) /\ <<"unread">> \in Seq({"finished", "unread"})
            /\ <<>> \in Seq({"finished", "unread"})
        BY EmptySeq
      <4> QED BY <4>1, ConcatProperties DEF Intents
    <3>2. todo \in Seq({"finished", "unread"})
      BY <3>1, EmptySeq
    <3>3. Begin(ev.s, todo)
      BY <2>3 DEF HandleUpsert
    <3> QED BY <2>2, <3>2, <3>3, BeginTypes
  <2>4. CASE HandleRemove(ev)
    BY <1>1, <2>4 DEF HandleRemove, TaskTypes
  <2>5. CASE HandleActivity(ev)
    <3>1. task' \in {IdleTask, TaskAt("activity", ev.s, <<>>, 0, 0)}
      BY <2>5 DEF HandleActivity
    <3>2. CASE task' = IdleTask
      BY <3>2, IdleTaskTypes DEF TaskTypes
    <3>3. CASE task' = TaskAt("activity", ev.s, <<>>, 0, 0)
      <4>1. <<>> \in Seq({"finished", "unread"}) /\ 0 \in 0..MaxIds /\ 0 \in 0..MaxTime
        BY EmptySeq, NotifyAssumption
      <4> QED BY <2>2, <3>3, <4>1 DEF TaskTypes, Tasks, TaskAt
    <3> QED BY <3>1, <3>2, <3>3
  <2> QED BY <1>2, <2>3, <2>4, <2>5 DEF HandleEvent
<1>3. CASE LooksForMode
  <2>1. CASE Done
    BY <1>1, <1>3, <2>1, DoneTypes DEF LooksForMode
  <2>2. ASSUME NEW p \in {"allow", "defer"}, Goes(p) PROVE TaskTypes'
    BY <1>1, <1>3, <2>2 DEF LooksForMode, Goes, TaskTypes, Tasks
  <2> QED BY <1>3, <2>1, <2>2 DEF LooksForMode
<1>4. CASE AllowInApp
  <2>1. CASE Done
    BY <1>1, <1>4, <2>1, DoneTypes DEF AllowInApp
  <2>2. CASE task' = TaskAt("toast", task.s, task.todo, 0, now)
    <3>1. 0 \in 0..MaxIds /\ now \in 0..MaxTime
      BY NotifyAssumption DEF TypeOK, LimitTypes
    <3> QED BY <1>1, <1>4, <2>2, <3>1 DEF AllowInApp, TaskTypes, Tasks, TaskAt
  <2> QED BY <1>4, <2>1, <2>2 DEF AllowInApp
<1>5. CASE NoToast \/ SendToast \/ Improve \/ Defer
  BY <1>1, <1>5, DoneTypes DEF NoToast, SendToast, Improve, Defer
<1>6. CASE EnterToast
  <2>1. nextID' \in 1..MaxIds /\ task.step = "toast" /\ task' = TaskAt("send", task.s, task.todo, nextID', task.at)
    BY <1>6, NotifyAssumption DEF EnterToast, TypeOK, LoopTypes
  <2>2. task \in Tasks /\ task.s \in Sessions /\ task.todo # <<>>
    BY <1>1, <2>1 DEF TaskTypes
  <2>3. /\ task'.step = "send" /\ task'.id = nextID' /\ task'.s = task.s /\ task'.todo = task.todo
        /\ task' \in Tasks
    BY <1>1, <2>1, <2>2 DEF Tasks, TaskAt
  <2> QED BY <2>1, <2>2, <2>3 DEF TaskTypes
<1>7. CASE PushActivity
  BY <1>7, IdleTaskTypes DEF PushActivity, TaskTypes
<1>8. CASE UNCHANGED task
  BY <1>1, <1>8 DEF TaskTypes
<1>9. CASE SessionStep \/ Ticks \/ SeedPrev
  BY <1>8, <1>9 DEF SessionStep, Report, Appears, MarkRead, Dies, Disappears, Activity, Ticks,
     SeedPrev,
     routerVars
<1>10. ASSUME NEW c \in Clients, \/ Add(c) \/ Remove(c) \/ SetPermission(c) \/ Callback(c)
                                 \/ \E f \in BOOLEAN, s \in Sessions \cup {None} : Update(c, f, s)
       PROVE  UNCHANGED task
  BY <1>10 DEF Add, Remove, SetPermission, Update, Moved, Callback, CancelAll, CancelForSession,
     routerVars
<1>11. ASSUME NEW n \in Ids, Ack(n) \/ FireStep(n) PROVE UNCHANGED task
  BY <1>11 DEF Ack, FireStep, TimerFires, FirePending, LooksAgain, AllowPending, AllowSummary,
     NoTarget,
     Enter, Send, Expires, fireOnly
<1> QED BY <1>2, <1>3, <1>4, <1>5, <1>6, <1>7, <1>8, <1>9, <1>10, <1>11
        DEF Next, ClientStep, LoopStep

IdTypes == pending \in [Sessions -> 0..MaxIds] /\ nextID \in 0..MaxIds
NotifTypes == notif \in [Ids -> [s : Sessions \cup {None}, kind : {"none", "finished", "unread", "summary"}]]
TimerTypes == timer \in [Ids -> {"none", "armed", "fired", "stopped"}]
FireTypes == fire \in [Ids -> Fires] /\ \A n \in Ids : fire[n].step = "send" => fire[n].id # 0
ActiveTypes == active \subseteq Ids /\ expiry \subseteq Ids
TableTypes == IdTypes /\ NotifTypes /\ TimerTypes /\ FireTypes /\ ActiveTypes

LEMMA Tables == LoopTypes <=> TaskTypes /\ TableTypes
BY DEF LoopTypes, TaskTypes, TableTypes, IdTypes, NotifTypes, TimerTypes, FireTypes, ActiveTypes

LEMMA Unchanged ==
  ASSUME TableTypes
  PROVE  /\ UNCHANGED <<pending, nextID>> => IdTypes'
         /\ UNCHANGED notif => NotifTypes'
         /\ UNCHANGED timer => TimerTypes'
         /\ UNCHANGED fire => FireTypes'
         /\ UNCHANGED <<active, expiry>> => ActiveTypes'
BY DEF TableTypes, IdTypes, NotifTypes, TimerTypes, FireTypes, ActiveTypes

LEMMA StoppedTypes ==
  ASSUME TableTypes, NEW ids, Stop(ids)
  PROVE  TimerTypes'
BY DEF Stop, TableTypes, TimerTypes

LEMMA DroppedTypes ==
  ASSUME TableTypes, NEW ss, Drop(ss), UNCHANGED nextID
  PROVE  IdTypes' /\ TimerTypes'
<1>1. TimerTypes'
  BY StoppedTypes DEF Drop
<1>2. 0 \in 0..MaxIds
  BY NotifyAssumption
<1> QED BY <1>1, <1>2 DEF Drop, TableTypes, IdTypes

LEMMA FireToTypes ==
  ASSUME TableTypes, NEW n \in Ids, NEW rec \in Fires, rec.step = "send" => rec.id # 0, FireTo(n, rec)
  PROVE  FireTypes'
BY DEF FireTo, TableTypes, FireTypes

LEMMA FireEndsTypes ==
  ASSUME TableTypes, NEW n \in Ids, FireEnds(n)
  PROVE  FireTypes'
BY FireToTypes, IdleTaskTypes DEF FireEnds, IdleFire, FireAt

(* The next id, and the notification it is given.                          *)
LEMMA NextIdTypes ==
  ASSUME TableTypes, nextID < MaxIds, nextID' = nextID + 1,
         NEW s \in Sessions \cup {None}, NEW k \in {"none", "finished", "unread", "summary"},
         notif' = [notif EXCEPT ![nextID'] = [s |-> s, kind |-> k]]
  PROVE  NotifTypes' /\ nextID' \in Ids /\ nextID' \in 0..MaxIds
<1>1. nextID' \in Ids /\ nextID' \in 0..MaxIds
  BY NotifyAssumption DEF Ids, TableTypes, IdTypes
<1>2. [s |-> s, kind |-> k] \in [s : Sessions \cup {None}, kind : {"none", "finished", "unread", "summary"}]
  OBVIOUS
<1> QED BY <1>1, <1>2 DEF TableTypes, NotifTypes

LEMMA TableTyped == ASSUME TypeOK, TimerInv, Next PROVE TableTypes'
<1>1. TableTypes /\ TaskTypes /\ MaxIds \in Nat /\ 0 \in 0..MaxIds
  BY Tables, NotifyAssumption DEF TypeOK
<1>2. ASSUME NEW c \in Clients, Callback(c) PROVE TableTypes'
  <2>1. UNCHANGED <<notif, nextID, fire, expiry>> /\ active' \subseteq active
    BY <1>2 DEF Callback, CancelAll, CancelForSession
  <2>2. \E ss : Drop(ss)
    BY <1>2 DEF Callback, CancelAll, CancelForSession
  <2>3. ActiveTypes'
    BY <1>1, <2>1 DEF TableTypes, ActiveTypes
  <2> QED BY <1>1, <2>1, <2>2, <2>3, DroppedTypes, Unchanged DEF TableTypes
<1>3. CASE EnterToast \/ Defer
  <2>1. /\ nextID < MaxIds /\ nextID' = nextID + 1
        /\ notif' = [notif EXCEPT ![nextID'] = [s |-> task.s, kind |-> Head(task.todo)]]
    BY <1>3 DEF EnterToast, Defer
  <2>2. task.s \in Sessions /\ Head(task.todo) \in {"finished", "unread"}
    BY <1>1, <1>3, HeadTailProperties DEF TaskTypes, Tasks, EnterToast, Defer
  <2>3. NotifTypes' /\ nextID' \in Ids /\ nextID' \in 0..MaxIds
    BY <1>1, <2>1, <2>2, NextIdTypes
  <2>4. CASE EnterToast
    <3>1. UNCHANGED <<pending, timer, fire, expiry>> /\ active' = active \cup {nextID'}
      BY <2>4 DEF EnterToast
    <3>2. IdTypes' /\ ActiveTypes'
      BY <1>1, <2>3, <3>1 DEF TableTypes, IdTypes, ActiveTypes
    <3> QED BY <1>1, <2>3, <3>1, <3>2, Unchanged DEF TableTypes
  <2>5. CASE Defer
    <3>1. /\ UNCHANGED <<active, fire, expiry>> /\ timer' = [timer EXCEPT ![nextID'] = "armed"]
          /\ pending' = [pending EXCEPT ![task.s] = nextID']
      BY <2>5 DEF Defer, threadVars
    <3>2. IdTypes' /\ TimerTypes'
      BY <1>1, <2>2, <2>3, <3>1 DEF TableTypes, IdTypes, TimerTypes
    <3> QED BY <1>1, <2>3, <3>1, <3>2, Unchanged DEF TableTypes
  <2> QED BY <1>3, <2>4, <2>5
<1>4. CASE SendToast
  <2>1. UNCHANGED <<idVars, fire, active>> /\ expiry' = expiry \cup {task.id} /\ task.step = "send"
    BY <1>4 DEF SendToast
  <2>2. task.id \in Ids
    BY <1>1, <2>1 DEF TaskTypes, Tasks, Ids
  <2>3. ActiveTypes'
    BY <1>1, <2>1, <2>2 DEF TableTypes, ActiveTypes
  <2> QED BY <1>1, <2>1, <2>3, Unchanged DEF TableTypes, idVars
<1>5. CASE Improve
  <2>1. UNCHANGED <<pending, nextID, timer, threadVars>>
    BY <1>5 DEF Improve
  <2>2. CASE UNCHANGED notif
    BY <1>1, <2>1, <2>2, Unchanged DEF TableTypes, threadVars
  <2>3. CASE notif' = [notif EXCEPT ![pending[task.s]].kind = "finished"]
    <3>1. NotifTypes'
      BY <1>1, <2>3 DEF TableTypes, NotifTypes
    <3> QED BY <1>1, <2>1, <3>1, Unchanged DEF TableTypes, threadVars
  <2> QED BY <1>5, <2>2, <2>3 DEF Improve
<1>6. ASSUME NEW n \in Ids, TimerFires(n) PROVE TableTypes'
  <2>1. /\ UNCHANGED <<pending, notif, nextID, active, expiry>>
        /\ timer' = [timer EXCEPT ![n] = "fired"] /\ fire' = [fire EXCEPT ![n].step = "start"]
    BY <1>6 DEF TimerFires
  <2>2. TimerTypes' /\ FireTypes'
    BY <1>1, <2>1 DEF TableTypes, TimerTypes, FireTypes, Fires
  <2> QED BY <1>1, <2>1, <2>2, Unchanged DEF TableTypes
<1>7. ASSUME NEW n \in Ids, FirePending(n) PROVE TableTypes'
  <2> DEFINE p == pending[notif[n].s] all == {pending[x] : x \in Sessions} \ {0}
  <2>1. UNCHANGED <<notif, nextID, active, expiry>>
    BY <1>7 DEF FirePending
  <2>2. CASE FireEnds(n) /\ UNCHANGED <<pending, timer>>
    BY <1>1, <2>1, <2>2, FireEndsTypes, Unchanged DEF TableTypes
  <2>3. CASE /\ p # 0 /\ pending' = [pending EXCEPT ![notif[n].s] = 0] /\ UNCHANGED timer
             /\ FireTo(n, FireAt("viewing", {p}, p, 0))
    <3>1. IdTypes'
      <4>1. pending' = [pending EXCEPT ![notif[n].s] = 0] /\ nextID' = nextID
        BY <2>1, <2>3
      <4> QED BY <1>1, <4>1 DEF TableTypes, IdTypes
    <3>2. p \in Ids
      <4>1. notif[n].s \in Sessions
        BY <1>7, <2>3 DEF FirePending, TimerInv
      <4> QED BY <1>1, <2>3, <4>1 DEF TableTypes, IdTypes, Ids
    <3> DEFINE rec == FireAt("viewing", {p}, p, 0)
    <3>3. rec \in Fires /\ rec.step = "viewing"
      BY <1>1, <3>2, NotifyAssumption DEF Fires, FireAt, Ids
    <3>4. FireTo(n, rec)
      BY <2>3
    <3> HIDE DEF rec
    <3>5. FireTypes'
      BY <1>1, <3>3, <3>4, FireToTypes
    <3> QED BY <1>1, <2>1, <2>3, <3>1, <3>5, Unchanged DEF TableTypes
  <2>4. CASE /\ Stop(all \ {p}) /\ pending' = [x \in Sessions |-> 0]
             /\ FireTo(n, FireAt("quota", all, 0, 0))
    <3>1. all \in SUBSET Ids
      BY <1>1 DEF TableTypes, IdTypes, Ids
    <3> HIDE DEF all
    <3> DEFINE rec == FireAt("quota", all, 0, 0)
    <3>2. rec \in Fires /\ rec.step = "quota"
      BY <1>1, <3>1, NotifyAssumption DEF Fires, FireAt
    <3>3. FireTo(n, rec) /\ Stop(all \ {p})
      BY <2>4
    <3> HIDE DEF rec
    <3>4. FireTypes' /\ TimerTypes'
      BY <1>1, <3>2, <3>3, FireToTypes, StoppedTypes
    <3>5. IdTypes'
      BY <1>1, <2>1, <2>4 DEF TableTypes, IdTypes
    <3> QED BY <1>1, <2>1, <3>4, <3>5, Unchanged DEF TableTypes
  <2> QED BY <1>7, <2>2, <2>3, <2>4 DEF FirePending
<1>8. ASSUME NEW n \in Ids, LooksAgain(n) PROVE TableTypes'
  <2>1. UNCHANGED <<idVars, active, expiry>> /\ fire[n].step = "viewing"
    BY <1>8 DEF LooksAgain
  <2>2. CASE FireEnds(n)
    BY <1>1, <2>1, <2>2, FireEndsTypes, Unchanged DEF TableTypes, idVars
  <2>3. CASE FireTo(n, [fire[n] EXCEPT !.step = "allow"])
    <3> DEFINE rec == [fire[n] EXCEPT !.step = "allow"]
    <3>1. rec \in Fires /\ rec.step = "allow"
      BY <1>1 DEF TableTypes, FireTypes, Fires
    <3>2. FireTo(n, rec)
      BY <2>3
    <3> HIDE DEF rec
    <3>3. FireTypes'
      BY <1>1, <3>1, <3>2, FireToTypes
    <3> QED BY <1>1, <2>1, <3>3, Unchanged DEF TableTypes, idVars
  <2> QED BY <1>8, <2>2, <2>3 DEF LooksAgain
<1>9. ASSUME NEW n \in Ids, AllowPending(n) \/ AllowSummary(n) PROVE TableTypes'
  <2>1. UNCHANGED <<idVars, active, expiry>>
    BY <1>9 DEF AllowPending, AllowSummary
  <2>2. CASE FireEnds(n)
    BY <1>1, <2>1, <2>2, FireEndsTypes, Unchanged DEF TableTypes, idVars
  <2>3. CASE FireTo(n, FireAt("target", fire[n].ids, fire[n].id, now))
    <3> DEFINE rec == FireAt("target", fire[n].ids, fire[n].id, now)
    <3>1. now \in 0..MaxTime
      BY DEF TypeOK, LimitTypes
    <3>2. rec \in Fires /\ rec.step = "target"
      BY <1>1, <3>1 DEF TableTypes, FireTypes, Fires, FireAt
    <3>3. FireTo(n, rec)
      BY <2>3
    <3> HIDE DEF rec
    <3>4. FireTypes'
      BY <1>1, <3>2, <3>3, FireToTypes
    <3> QED BY <1>1, <2>1, <3>4, Unchanged DEF TableTypes, idVars
  <2> QED BY <1>9, <2>2, <2>3 DEF AllowPending, AllowSummary
<1>10. ASSUME NEW n \in Ids, NoTarget(n) PROVE TableTypes'
  <2>1. UNCHANGED <<idVars, active, expiry>> /\ FireEnds(n)
    BY <1>10 DEF NoTarget
  <2> QED BY <1>1, <2>1, FireEndsTypes, Unchanged DEF TableTypes, idVars
<1>11. ASSUME NEW n \in Ids, Enter(n) PROVE TableTypes'
  <2>1. UNCHANGED <<pending, timer, expiry>>
    BY <1>11 DEF Enter
  <2>2. CASE /\ fire[n].id # 0 /\ active' = active \cup {fire[n].id}
             /\ FireTo(n, [fire[n] EXCEPT !.step = "send"]) /\ UNCHANGED <<nextID, notif>>
    <3> DEFINE rec == [fire[n] EXCEPT !.step = "send"]
    <3>1. rec \in Fires /\ rec.id # 0 /\ fire[n].id \in Ids
      BY <1>1, <2>2 DEF TableTypes, FireTypes, Fires, Ids
    <3>2. FireTo(n, rec)
      BY <2>2
    <3> HIDE DEF rec
    <3>3. FireTypes'
      BY <1>1, <3>1, <3>2, FireToTypes
    <3>4. ActiveTypes'
      BY <1>1, <2>1, <2>2, <3>1 DEF TableTypes, ActiveTypes
    <3> QED BY <1>1, <2>1, <2>2, <3>3, <3>4, Unchanged DEF TableTypes
  <2>3. CASE /\ nextID < MaxIds /\ nextID' = nextID + 1
             /\ notif' = [notif EXCEPT ![nextID'] = [s |-> None, kind |-> "summary"]]
             /\ active' = active \cup {nextID'}
             /\ FireTo(n, FireAt("send", fire[n].ids, nextID', fire[n].at))
    <3> DEFINE rec == FireAt("send", fire[n].ids, nextID', fire[n].at)
    <3>1. NotifTypes' /\ nextID' \in Ids /\ nextID' \in 0..MaxIds
      BY <1>1, <2>3, NextIdTypes
    <3>2. rec \in Fires /\ rec.id = nextID' /\ nextID' # 0
      BY <1>1, <3>1 DEF TableTypes, FireTypes, Fires, FireAt, Ids
    <3>3. FireTo(n, rec)
      BY <2>3
    <3> HIDE DEF rec
    <3>4. FireTypes'
      BY <1>1, <3>2, <3>3, FireToTypes
    <3>5. IdTypes' /\ ActiveTypes'
      BY <1>1, <2>1, <2>3, <3>1 DEF TableTypes, IdTypes, ActiveTypes
    <3> QED BY <1>1, <2>1, <3>1, <3>4, <3>5, Unchanged DEF TableTypes
  <2> QED BY <1>11, <2>2, <2>3 DEF Enter
<1>12. ASSUME NEW n \in Ids, Send(n) PROVE TableTypes'
  <2>1. /\ UNCHANGED <<idVars, active>> /\ expiry' = expiry \cup {fire[n].id} /\ FireEnds(n)
        /\ fire[n].step = "send"
    BY <1>12 DEF Send
  <2>2. fire[n].id \in Ids
    BY <1>1, <2>1 DEF TableTypes, FireTypes, Fires, Ids
  <2>3. ActiveTypes'
    BY <1>1, <2>1, <2>2 DEF TableTypes, ActiveTypes
  <2> QED BY <1>1, <2>1, <2>3, FireEndsTypes, Unchanged DEF TableTypes, idVars
<1>13. ASSUME NEW n \in Ids, Ack(n) \/ Expires(n) PROVE TableTypes'
  <2>1. UNCHANGED <<idVars, fire>> /\ active' \subseteq active /\ expiry' \subseteq expiry
    BY <1>13 DEF Ack, Expires
  <2>2. ActiveTypes'
    BY <1>1, <2>1 DEF TableTypes, ActiveTypes
  <2> QED BY <1>1, <2>1, <2>2, Unchanged DEF TableTypes, idVars
<1>14. CASE UNCHANGED <<idVars, threadVars>>
  BY <1>1, <1>14, Unchanged DEF TableTypes, idVars, threadVars
<1>15. CASE \/ SessionStep \/ Ticks \/ SeedPrev \/ HandleEvent \/ LooksForMode \/ AllowInApp \/ NoToast
            \/ PushActivity
  BY <1>14, <1>15 DEF SessionStep, Report, Appears, MarkRead, Dies, Disappears, Activity, Ticks,
     SeedPrev,
     HandleEvent, LooksForMode, AllowInApp, NoToast, PushActivity, routerVars, threadVars
<1>16. ASSUME NEW c \in Clients, \/ Add(c) \/ Remove(c) \/ SetPermission(c)
                                 \/ \E f \in BOOLEAN, s \in Sessions \cup {None} : Update(c, f, s)
       PROVE  UNCHANGED <<idVars, threadVars>>
  BY <1>16 DEF Add, Remove, SetPermission, Update, Moved, routerVars, threadVars
<1> QED BY <1>2, <1>3, <1>4, <1>5, <1>6, <1>7, <1>8, <1>9, <1>10, <1>11, <1>12, <1>13, <1>14,
        <1>15, <1>16
        DEF Next, ClientStep, LoopStep, FireStep

LEMMA CountedTypes ==
  ASSUME now \in Nat, NEW h \in Histories
  PROVE  Pruned(h) \in Nat /\ Counted(h) \in Histories /\ NoHistory \in Histories
BY DEF Pruned, Counted, NoHistory, Histories

HistTypes == hist \in [Sessions -> Histories] /\ wsHist \in [Workspaces -> Histories]

LEMMA AllowTypes ==
  ASSUME LimitTypes, NEW s, Allow(s)
  PROVE  HistTypes'
<1>1. now \in Nat
  BY NotifyAssumption DEF LimitTypes
<1>2. \A h \in Histories : Counted(h) \in Histories
  BY <1>1, CountedTypes
<1>3. \A x \in Sessions : Counted(hist[x]) \in Histories
  BY <1>2 DEF LimitTypes
<1>4. \A w \in Workspaces : Counted(wsHist[w]) \in Histories
  BY <1>2 DEF LimitTypes
<1>5. /\ hist' = [hist EXCEPT ![s] = Counted(hist[s])]
      /\ wsHist' = [wsHist EXCEPT ![Workspace[s]] = Counted(wsHist[Workspace[s]])]
  BY DEF Allow
<1> QED BY <1>3, <1>4, <1>5 DEF LimitTypes, HistTypes

LEMMA TellTypes ==
  ASSUME LimitTypes, NEW ws, NEW t, Tell(ws, t)
  PROVE  told' \in [Workspaces -> [0..MaxTime -> Nat]]
<1>1. \A w \in Workspaces : told[w] \in [0..MaxTime -> Nat]
  BY DEF LimitTypes
<1>2. \A w \in Workspaces :
        [told[w] EXCEPT ![t] = IF w \in ws THEN @ + 1 ELSE @] \in [0..MaxTime -> Nat]
  <2> SUFFICES ASSUME NEW w \in Workspaces, NEW f \in [0..MaxTime -> Nat]
               PROVE  [f EXCEPT ![t] = IF w \in ws THEN f[t] + 1 ELSE f[t]] \in [0..MaxTime -> Nat]
    BY <1>1
  <2>1. \A x \in 0..MaxTime : f[x] \in Nat /\ f[x] + 1 \in Nat
    OBVIOUS
  <2>2. CASE w \in ws
    BY <2>1, <2>2
  <2>3. CASE w \notin ws
    BY <2>1, <2>3
  <2> QED BY <2>2, <2>3
<1> QED BY <1>2 DEF Tell

LEMMA CoolTypes ==
  ASSUME LimitTypes, NEW s
  PROVE  [cool EXCEPT ![s] = now] \in [Sessions -> Int] /\ [cool EXCEPT ![s] = -1] \in [Sessions -> Int]
<1>1. cool \in [Sessions -> Int] /\ now \in Int /\ -1 \in Int
  BY NotifyAssumption DEF LimitTypes
<1> QED BY <1>1

LEMMA LimitTyped == ASSUME TypeOK, Next PROVE LimitTypes'
<1>1. LimitTypes /\ now \in Nat /\ HistTypes
  BY NotifyAssumption DEF TypeOK, LimitTypes, HistTypes
<1>2. CASE HandleEvent
  <2> DEFINE ev == Head(events)
  <2>1. UNCHANGED <<wsHist, now, told>> /\ (UNCHANGED <<cool, hist>> \/ HandleRemove(ev))
    BY <1>2 DEF HandleEvent, HandleUpsert, HandleActivity
  <2>2. CASE HandleRemove(ev)
    <3>1. cool' \in [Sessions -> Int]
      <4>1. cool' = [cool EXCEPT ![ev.s] = -1]
        BY <2>2 DEF HandleRemove
      <4> QED BY <1>1, <4>1, CoolTypes
    <3>2. hist' \in [Sessions -> Histories]
      BY <1>1, <2>2, CountedTypes DEF HandleRemove, LimitTypes
    <3> QED BY <1>1, <2>1, <3>1, <3>2 DEF LimitTypes
  <2> QED BY <1>1, <2>1, <2>2 DEF LimitTypes
<1>3. CASE AllowInApp
  <2>1. UNCHANGED <<now, told>>
    BY <1>3 DEF AllowInApp, loopOnly
  <2>2. CASE UNCHANGED limitVars
    BY <1>1, <2>1, <2>2 DEF LimitTypes, limitVars
  <2>3. CASE Allow(task.s) /\ cool' = [cool EXCEPT ![task.s] = now]
    <3>1. HistTypes'
      BY <1>1, <2>3, AllowTypes
    <3>2. cool' \in [Sessions -> Int]
      BY <1>1, <2>3, CoolTypes
    <3> QED BY <1>1, <2>1, <3>1, <3>2 DEF LimitTypes, HistTypes
  <2> QED BY <1>3, <2>2, <2>3 DEF AllowInApp
<1>4. CASE NoToast \/ SendToast
  <2>1. UNCHANGED <<now, limitVars>> /\ Tell({Workspace[task.s]}, task.at)
    BY <1>4 DEF NoToast, SendToast, loopOnly
  <2>2. told' \in [Workspaces -> [0..MaxTime -> Nat]]
    BY <1>1, <2>1, TellTypes
  <2> QED BY <1>1, <2>1, <2>2 DEF LimitTypes, limitVars
<1>5. CASE PushActivity
  <2>1. UNCHANGED now
    BY <1>5 DEF PushActivity, loopOnly
  <2>2. CASE UNCHANGED <<limitVars, told>>
    BY <1>1, <2>1, <2>2 DEF LimitTypes, limitVars
  <2>3. CASE /\ Allow(task.s) /\ cool' = [cool EXCEPT ![task.s] = now]
             /\ Tell({Workspace[task.s]}, now)
    <3>1. HistTypes' /\ told' \in [Workspaces -> [0..MaxTime -> Nat]]
      BY <1>1, <2>3, AllowTypes, TellTypes
    <3>2. cool' \in [Sessions -> Int]
      BY <1>1, <2>3, CoolTypes
    <3> QED BY <1>1, <2>1, <3>1, <3>2 DEF LimitTypes, HistTypes
  <2> QED BY <1>5, <2>2, <2>3 DEF PushActivity
<1>6. CASE Ticks
  <2>1. UNCHANGED <<limitVars, told>> /\ now' \in 0..MaxTime
    BY <1>1, <1>6, NotifyAssumption DEF Ticks, routerVars
  <2> QED BY <1>1, <2>1 DEF LimitTypes, limitVars
<1>7. ASSUME NEW n \in Ids, AllowPending(n) PROVE LimitTypes'
  <2>1. UNCHANGED <<now, cool, told>>
    BY <1>7 DEF AllowPending, fireOnly
  <2>2. HistTypes'
    BY <1>1, <1>7, AllowTypes DEF AllowPending, HistTypes
  <2> QED BY <1>1, <2>1, <2>2 DEF LimitTypes, HistTypes
<1>8. ASSUME NEW n \in Ids, AllowSummary(n) PROVE LimitTypes'
  <2>1. UNCHANGED <<now, cool, told>>
    BY <1>8 DEF AllowSummary, fireOnly
  <2>2. CASE UNCHANGED <<hist, wsHist>>
    BY <1>1, <2>1, <2>2 DEF LimitTypes
  <2>3. CASE AllowEvents(fire[n].ids)
    <3>1. \A w \in Workspaces : Counted(wsHist[w]) \in Histories
      BY <1>1, CountedTypes DEF LimitTypes
    <3> DEFINE ws == {Workspace[notif[x].s] : x \in fire[n].ids}
    <3>2. wsHist' = [w \in Workspaces |-> IF w \in ws THEN Counted(wsHist[w]) ELSE wsHist[w]]
          /\ hist' = hist
      BY <2>3 DEF AllowEvents
    <3> HIDE DEF ws
    <3>3. wsHist' \in [Workspaces -> Histories]
      BY <1>1, <3>1, <3>2 DEF LimitTypes
    <3> QED BY <1>1, <2>1, <3>2, <3>3 DEF LimitTypes
  <2> QED BY <1>8, <2>2, <2>3 DEF AllowSummary
<1>9. ASSUME NEW n \in Ids, NoTarget(n) \/ Send(n) PROVE LimitTypes'
  <2>1. /\ UNCHANGED <<now, hist, wsHist>> /\ Tell(FireWorkspaces(n), fire[n].at)
        /\ cool' = Cooled(fire[n])
    BY <1>9 DEF NoTarget, Send, fireOnly
  <2>2. told' \in [Workspaces -> [0..MaxTime -> Nat]]
    BY <1>1, <2>1, TellTypes
  <2>3. cool' \in [Sessions -> Int]
    <3>1. cool' = cool \/ cool' = [cool EXCEPT ![notif[fire[n].id].s] = now]
      BY <2>1 DEF Cooled
    <3>2. CASE cool' = cool
      BY <1>1, <3>2 DEF LimitTypes
    <3>3. CASE cool' = [cool EXCEPT ![notif[fire[n].id].s] = now]
      BY <1>1, <3>3, CoolTypes
    <3> QED BY <3>1, <3>2, <3>3
  <2> QED BY <1>1, <2>1, <2>2, <2>3 DEF LimitTypes
<1>10. CASE UNCHANGED <<now, limitVars, told>>
  BY <1>1, <1>10 DEF LimitTypes, limitVars
<1>11. CASE SessionStep \/ SeedPrev \/ LooksForMode \/ EnterToast \/ Improve \/ Defer
  BY <1>10, <1>11 DEF SessionStep, Report, Appears, MarkRead, Dies, Disappears, Activity,
     SeedPrev,
     LooksForMode, EnterToast, Improve, Defer, loopOnly, routerVars
<1>12. ASSUME NEW c \in Clients, \/ Add(c) \/ Remove(c) \/ SetPermission(c) \/ Callback(c)
                                 \/ \E f \in BOOLEAN, s \in Sessions \cup {None} : Update(c, f, s)
       PROVE  UNCHANGED <<now, limitVars, told>>
  BY <1>12 DEF Add, Remove, SetPermission, Update, Moved, Callback, CancelAll, CancelForSession,
     routerVars
<1>13. ASSUME NEW n \in Ids, \/ Ack(n) \/ TimerFires(n) \/ FirePending(n) \/ LooksAgain(n) \/ Enter(n)
                             \/ Expires(n)
       PROVE  UNCHANGED <<now, limitVars, told>>
  BY <1>13 DEF Ack, TimerFires, FirePending, LooksAgain, Enter, Expires, fireOnly
<1> QED BY <1>2, <1>3, <1>4, <1>5, <1>6, <1>7, <1>8, <1>9, <1>10, <1>11, <1>12, <1>13
        DEF Next, ClientStep, LoopStep, FireStep

LEMMA TypesKept == ASSUME TypeOK, TimerInv, Next PROVE TypeOK'
<1>1. LoopTypes'
  <2>1. TaskTypes' /\ TableTypes'
    BY TaskTyped, TableTyped
  <2> QED BY <2>1 DEF LoopTypes, TaskTypes, TableTypes, IdTypes, NotifTypes, TimerTypes,
          FireTypes, ActiveTypes
<1> QED BY <1>1, StoreTyped, ClientTyped, LimitTyped DEF TypeOK

-----------------------------------------------------------------------------
(* Pending notifications and their timers                                  *)

LEMMA PendingIds ==
  ASSUME TableTypes, NEW s \in Sessions, pending[s] # 0
  PROVE  pending[s] \in Ids
BY NotifyAssumption DEF TableTypes, IdTypes, Ids

(* A timer that has gone on since it started belongs to nothing pending.   *)
LEMMA GoneOn ==
  ASSUME TableTypes, PendingInv, TimerInv, NEW n \in Ids, fire[n].step \notin {"none", "start"}
  PROVE  /\ n <= nextID /\ timer[n] # "armed"
         /\ \A s \in Sessions : pending[s] # n
<1>1. IdleFire.step = "none"
  BY DEF IdleFire, FireAt
<1>2. n <= nextID /\ timer[n] # "armed"
  BY <1>1, NotifyAssumption DEF TimerInv, TableTypes, IdTypes, Ids
<1>3. \A s \in Sessions : pending[s] # n
  BY <1>2, NotifyAssumption DEF PendingInv, Ids
<1> QED BY <1>2, <1>3

LEMMA FireKeepsIds ==
  ASSUME TableTypes, PendingInv, TimerInv, NEW n \in Ids, fire[n].step \notin {"none", "start"},
         NEW rec, rec.step # "start", FireTo(n, rec), UNCHANGED idVars
  PROVE  PendingInv' /\ TimerInv'
<1>1. /\ n <= nextID /\ timer[n] # "armed"
      /\ \A s \in Sessions : pending[s] # n
  BY GoneOn
<1>2. fire'[n].step # "start" /\ \A x \in Ids \ {n} : fire'[x] = fire[x]
  BY DEF FireTo, TableTypes, FireTypes
<1>3. UNCHANGED <<pending, notif, nextID, timer>>
  BY DEF idVars
<1>4. PendingInv'
  BY <1>1, <1>2, <1>3, PendingIds DEF PendingInv
<1>5. TimerInv'
  BY <1>1, <1>2, <1>3, NotifyAssumption DEF TimerInv, Ids, TableTypes, IdTypes
<1> QED BY <1>4, <1>5

(* The next id is of nothing yet.                                          *)
LEMMA NextIdKeepsIds ==
  ASSUME TableTypes, PendingInv, TimerInv, nextID < MaxIds, nextID' = nextID + 1,
         NEW s, NEW k, notif' = [notif EXCEPT ![nextID'] = [s |-> s, kind |-> k]],
         UNCHANGED <<pending, timer, fire>>
  PROVE  PendingInv' /\ TimerInv'
<1>1. nextID' \in Ids /\ nextID \in Nat /\ \A x \in Ids \ {nextID'} : notif'[x] = notif[x]
  BY NotifyAssumption DEF TableTypes, IdTypes, NotifTypes, Ids
<1>2. PendingInv'
  BY <1>1, PendingIds, NotifyAssumption DEF PendingInv, Ids
<1>3. TimerInv'
  <2>1. timer[nextID'] = "none" /\ fire[nextID'] = IdleFire /\ IdleFire.step = "none"
    BY <1>1, NotifyAssumption DEF TimerInv, Ids, IdleFire, FireAt
  <2> QED BY <1>1, <2>1, NotifyAssumption DEF TimerInv, Ids
<1> QED BY <1>2, <1>3

LEMMA DropKeepsIds ==
  ASSUME TableTypes, PendingInv, TimerInv, NEW ss \in SUBSET Sessions, Drop(ss), UNCHANGED <<notif, nextID, fire>>
  PROVE  PendingInv' /\ TimerInv'
<1>1. \A x \in Ids : timer'[x] = timer[x] \/ (timer[x] = "armed" /\ timer'[x] = "stopped")
  BY DEF Drop, Stop
<1>2. \A s \in Sessions : pending'[s] = IF s \in ss THEN 0 ELSE pending[s]
  BY DEF Drop
<1>3. ASSUME NEW s \in Sessions \ ss, pending[s] # 0 PROVE timer'[pending[s]] = timer[pending[s]]
  <2>1. pending[s] \in Ids
    BY <1>3, PendingIds
  <2>2. pending[s] \notin {pending[x] : x \in ss}
    BY <1>3 DEF PendingInv
  <2> QED BY <2>1, <2>2 DEF Drop, Stop
<1>4. PendingInv'
  BY <1>2, <1>3 DEF PendingInv
<1>5. TimerInv'
  BY <1>1 DEF TimerInv
<1> QED BY <1>4, <1>5

LEMMA IdsKept == ASSUME TypeOK, PendingInv, TimerInv, Next PROVE PendingInv' /\ TimerInv'
<1>1. TableTypes /\ TaskTypes /\ MaxIds \in Nat
  BY Tables, NotifyAssumption DEF TypeOK
<1>2. ASSUME NEW c \in Clients, Callback(c) PROVE PendingInv' /\ TimerInv'
  <2>1. UNCHANGED <<notif, nextID, fire>>
    BY <1>2 DEF Callback, CancelAll, CancelForSession
  <2>2. CASE CancelAll(c)
    BY <1>1, <2>1, <2>2, DropKeepsIds DEF CancelAll
  <2>3. CASE CancelForSession(c)
    <3>1. Drop({Head(job[c]).s}) /\ job[c] # <<>> /\ Head(job[c]).call = "session"
      BY <2>3 DEF CancelForSession
    <3>2. Head(job[c]) \in Calls
      BY <3>1, HeadTailProperties DEF TypeOK, ClientTypes
    <3>3. {Head(job[c]).s} \in SUBSET Sessions
      BY <3>1, <3>2 DEF Calls
    <3> QED BY <1>1, <2>1, <3>1, <3>3, DropKeepsIds
  <2> QED BY <1>2, <2>2, <2>3 DEF Callback
<1>3. CASE EnterToast
  BY <1>1, <1>3, NextIdKeepsIds DEF EnterToast
<1>4. CASE Improve
  <2>1. UNCHANGED <<pending, nextID, timer, fire>>
    BY <1>4 DEF Improve, threadVars
  <2>2. \A x \in Ids : notif'[x].s = notif[x].s
    BY <1>1, <1>4 DEF Improve, TableTypes, NotifTypes
  <2>3. PendingInv'
    BY <1>1, <2>1, <2>2, PendingIds DEF PendingInv
  <2>4. TimerInv'
    BY <2>1, <2>2 DEF TimerInv
  <2> QED BY <2>3, <2>4
<1>5. CASE Defer
  <2>1. /\ nextID < MaxIds /\ nextID' = nextID + 1 /\ UNCHANGED fire
        /\ notif' = [notif EXCEPT ![nextID'] = [s |-> task.s, kind |-> Head(task.todo)]]
        /\ timer' = [timer EXCEPT ![nextID'] = "armed"]
        /\ pending' = [pending EXCEPT ![task.s] = nextID'] /\ task.s \in Sessions
    BY <1>1, <1>5 DEF Defer, threadVars, TaskTypes
  <2>2. nextID' \in Ids /\ nextID \in Nat
    BY <1>1, <2>1 DEF TableTypes, IdTypes, Ids
  <2>3. \A x \in Ids \ {nextID'} : notif'[x] = notif[x] /\ timer'[x] = timer[x]
    BY <1>1, <2>1, <2>2 DEF TableTypes, NotifTypes, TimerTypes
  <2>4. notif'[nextID'].s = task.s /\ timer'[nextID'] = "armed"
    BY <1>1, <2>1, <2>2 DEF TableTypes, NotifTypes, TimerTypes
  <2>5. pending'[task.s] = nextID' /\ \A s \in Sessions \ {task.s} : pending'[s] = pending[s]
    BY <1>1, <2>1 DEF TableTypes, IdTypes
  <2>6. PendingInv'
    <3>1. ASSUME NEW s \in Sessions \ {task.s}, pending[s] # 0
          PROVE  /\ pending[s] <= nextID' /\ notif'[pending[s]].s = s
                 /\ timer'[pending[s]] = "armed" \/ fire'[pending[s]].step = "start"
      <4>1. pending[s] \in Ids /\ pending[s] <= nextID
        BY <1>1, <3>1, PendingIds DEF PendingInv
      <4>2. pending[s] # nextID'
        BY <2>1, <2>2, <4>1 DEF Ids
      <4> QED BY <2>1, <2>2, <2>3, <3>1, <4>1, <4>2 DEF PendingInv, Ids
    <3> QED BY <2>1, <2>2, <2>4, <2>5, <3>1 DEF PendingInv, Ids
  <2>7. TimerInv'
    <3>1. fire[nextID'] = IdleFire
      BY <2>1, <2>2 DEF TimerInv, Ids
    <3> QED BY <1>1, <2>1, <2>2, <2>3, <2>4, <3>1 DEF TimerInv, Ids
  <2> QED BY <2>6, <2>7
<1>6. ASSUME NEW n \in Ids, TimerFires(n) PROVE PendingInv' /\ TimerInv'
  <2>1. UNCHANGED <<pending, notif, nextID>> /\ timer[n] = "armed"
    BY <1>6 DEF TimerFires
  <2>2. /\ timer'[n] = "fired" /\ fire'[n].step = "start"
        /\ \A x \in Ids \ {n} : timer'[x] = timer[x] /\ fire'[x] = fire[x]
    BY <1>1, <1>6 DEF TimerFires, TableTypes, TimerTypes, FireTypes, Fires
  <2>3. PendingInv'
    BY <1>1, <2>1, <2>2, PendingIds DEF PendingInv
  <2>4. TimerInv'
    BY <2>1, <2>2 DEF TimerInv
  <2> QED BY <2>3, <2>4
<1>7. ASSUME NEW n \in Ids, FirePending(n) PROVE PendingInv' /\ TimerInv'
  <2> DEFINE p == pending[notif[n].s] all == {pending[x] : x \in Sessions} \ {0}
  <2>1. UNCHANGED <<notif, nextID>> /\ fire[n].step = "start"
    BY <1>7 DEF FirePending
  <2>2. PICK rec : FireTo(n, rec) /\ rec.step \in {"none", "viewing", "quota"}
    BY <1>7 DEF FirePending, FireEnds, FireAt, IdleFire
  <2>3. /\ fire'[n].step # "start" /\ \A x \in Ids \ {n} : fire'[x] = fire[x]
    BY <1>1, <2>2 DEF FireTo, TableTypes, FireTypes
  <2>4. \A x \in Ids : timer'[x] = timer[x] \/ (timer[x] = "armed" /\ timer'[x] = "stopped")
    BY <1>7 DEF FirePending, Stop
  <2>5. timer[n] # "armed" /\ n <= nextID /\ notif[n].s \in Sessions
    BY <1>1, <2>1 DEF TimerInv, IdleFire, FireAt, TableTypes, IdTypes, Ids
  <2>6. TimerInv'
    BY <2>1, <2>3, <2>4, <2>5, <1>1 DEF TimerInv, Ids, TableTypes, IdTypes
  <2>7. PendingInv'
    <3>1. CASE p = 0 /\ UNCHANGED <<pending, timer>>
      <4>1. \A s \in Sessions : pending[s] # 0 => pending[s] # n
        BY <3>1 DEF PendingInv
      <4> QED BY <1>1, <2>1, <2>3, <3>1, <4>1, PendingIds DEF PendingInv
    <3>2. CASE pending' = [pending EXCEPT ![notif[n].s] = 0] /\ UNCHANGED timer
      <4>1. \A s \in Sessions : pending'[s] # 0 => pending'[s] = pending[s] /\ pending[s] # n
        BY <1>1, <2>5, <3>2 DEF PendingInv, TableTypes, IdTypes
      <4> QED BY <1>1, <2>1, <2>3, <3>2, <4>1, PendingIds DEF PendingInv
    <3>3. CASE pending' = [x \in Sessions |-> 0]
      BY <3>3 DEF PendingInv
    <3> QED BY <1>7, <3>1, <3>2, <3>3 DEF FirePending
  <2> QED BY <2>6, <2>7
<1>8. ASSUME NEW n \in Ids, \/ LooksAgain(n) \/ AllowPending(n) \/ AllowSummary(n) \/ NoTarget(n) \/ Send(n)
      PROVE  PendingInv' /\ TimerInv'
  <2>1. UNCHANGED idVars /\ fire[n].step \notin {"none", "start"}
    BY <1>8 DEF LooksAgain, AllowPending, AllowSummary, NoTarget, Send
  <2>2. PICK rec : FireTo(n, rec) /\ rec.step # "start"
    <3>1. /\ IdleFire.step # "start"
          /\ FireAt("target", fire[n].ids, fire[n].id, now).step # "start"
      BY DEF IdleFire, FireAt
    <3>2. [fire[n] EXCEPT !.step = "allow"].step # "start"
      BY <1>1 DEF TableTypes, FireTypes, Fires
    <3> QED BY <1>8, <3>1, <3>2 DEF LooksAgain, AllowPending, AllowSummary, NoTarget, Send,
            FireEnds
  <2> QED BY <1>1, <2>1, <2>2, FireKeepsIds
<1>9. ASSUME NEW n \in Ids, Enter(n) PROVE PendingInv' /\ TimerInv'
  <2>1. UNCHANGED <<pending, timer>> /\ fire[n].step = "target"
    BY <1>9 DEF Enter
  <2>2. /\ n <= nextID /\ timer[n] # "armed"
        /\ \A s \in Sessions : pending[s] # n
    BY <1>1, <2>1, GoneOn
  <2>3. fire'[n].step = "send" /\ \A x \in Ids \ {n} : fire'[x] = fire[x]
    BY <1>1, <1>9 DEF Enter, FireTo, FireAt, TableTypes, FireTypes, Fires
  <2>4. nextID' >= nextID /\ nextID' \in Nat /\ \A x \in Ids : x <= nextID => notif'[x] = notif[x]
    BY <1>1, <1>9 DEF Enter, TableTypes, IdTypes, NotifTypes, Ids
  <2>5. PendingInv'
    BY <1>1, <2>1, <2>2, <2>3, <2>4, PendingIds DEF PendingInv, Ids, TableTypes, IdTypes
  <2>6. TimerInv'
    <3>1. \A x \in Ids : x # n => fire'[x] = fire[x]
      BY <2>3
    <3>2. \A x \in Ids : x > nextID => timer[x] # "armed" /\ fire[x].step # "start"
      BY DEF TimerInv, IdleFire, FireAt
    <3> QED BY <1>1, <2>1, <2>2, <2>3, <2>4, <3>1, <3>2 DEF TimerInv, Ids, TableTypes, IdTypes
  <2> QED BY <2>5, <2>6
<1>10. CASE UNCHANGED <<idVars, fire>>
  BY <1>10 DEF idVars, PendingInv, TimerInv
<1>11. CASE \/ SessionStep \/ Ticks \/ SeedPrev \/ HandleEvent \/ LooksForMode \/ AllowInApp \/ NoToast
            \/ PushActivity \/ SendToast
  BY <1>10, <1>11 DEF SessionStep, Report, Appears, MarkRead, Dies, Disappears, Activity, Ticks,
     SeedPrev,
     HandleEvent, LooksForMode, AllowInApp, NoToast, SendToast, PushActivity, routerVars,
     threadVars
<1>12. ASSUME NEW c \in Clients, \/ Add(c) \/ Remove(c) \/ SetPermission(c)
                                 \/ \E f \in BOOLEAN, s \in Sessions \cup {None} : Update(c, f, s)
       PROVE  UNCHANGED <<idVars, fire>>
  BY <1>12 DEF Add, Remove, SetPermission, Update, Moved, routerVars
<1>13. ASSUME NEW n \in Ids, Ack(n) \/ Expires(n) PROVE UNCHANGED <<idVars, fire>>
  BY <1>13 DEF Ack, Expires
<1> QED BY <1>2, <1>3, <1>4, <1>5, <1>6, <1>7, <1>8, <1>9, <1>10, <1>11, <1>12, <1>13
        DEF Next, ClientStep, LoopStep, FireStep

-----------------------------------------------------------------------------
(* What the timers have picked                                             *)

LEMMA FireSet ==
  ASSUME TableTypes, FireInv, NEW n \in Ids, NEW rec, FireTo(n, rec),
         \A x \in rec.ids : x <= nextID' /\ notif'[x].s \in Sessions,
         rec.step \in {"viewing", "allow"} => rec.id # 0 /\ rec.ids = {rec.id},
         rec.step = "quota" => Cardinality(rec.ids) > 1,
         rec.step \in {"target", "send"} =>
           (rec.id # 0 /\ rec.ids = {rec.id}) \/ Cardinality(rec.ids) > 1,
         nextID' \in Nat, nextID <= nextID',
         \A x \in Ids : x <= nextID => notif'[x].s = notif[x].s
  PROVE  FireInv'
<1>1. fire'[n] = rec /\ \A m \in Ids \ {n} : fire'[m] = fire[m]
  BY DEF FireTo, TableTypes, FireTypes
<1>2. ASSUME NEW m \in Ids \ {n}, NEW x \in fire[m].ids
      PROVE  x <= nextID' /\ notif'[x].s \in Sessions
  <2>1. x \in Ids
    BY DEF TableTypes, FireTypes, Fires
  <2> QED BY <2>1, NotifyAssumption DEF FireInv, TableTypes, IdTypes, Ids
<1> QED BY <1>1, <1>2 DEF FireInv, Single, Several

LEMMA FireRest ==
  ASSUME TableTypes, FireInv, UNCHANGED fire, nextID' \in Nat, nextID <= nextID',
         \A x \in Ids : x <= nextID => notif'[x].s = notif[x].s
  PROVE  FireInv'
<1>1. ASSUME NEW m \in Ids, NEW x \in fire[m].ids
      PROVE  x <= nextID' /\ notif'[x].s \in Sessions
  <2>1. x \in Ids
    BY DEF TableTypes, FireTypes, Fires
  <2> QED BY <2>1, NotifyAssumption DEF FireInv, TableTypes, IdTypes, Ids
<1> QED BY <1>1 DEF FireInv, Single, Several

LEMMA FireEnded ==
  ASSUME TableTypes, FireInv, NEW n \in Ids, FireEnds(n), UNCHANGED <<nextID, notif>>
  PROVE  FireInv'
<1> DEFINE rec == IdleFire
<1>1. rec.ids = {} /\ rec.step = "none"
  BY DEF IdleFire, FireAt
<1>2. FireTo(n, rec) /\ nextID \in Nat
  BY NotifyAssumption DEF FireEnds, TableTypes, IdTypes
<1> HIDE DEF rec
<1> QED BY <1>1, <1>2, FireSet

LEMMA FireKept == ASSUME TypeOK, PendingInv, TimerInv, FireInv, Next PROVE FireInv'
<1>1. TableTypes /\ TaskTypes /\ MaxIds \in Nat /\ nextID \in Nat
  BY Tables, NotifyAssumption DEF TypeOK, TableTypes, IdTypes
<1>2. CASE EnterToast \/ Defer
  <2>1. /\ nextID' = nextID + 1 /\ UNCHANGED fire
        /\ \A x \in Ids : x <= nextID => notif'[x].s = notif[x].s
    BY <1>1, <1>2 DEF EnterToast, Defer, threadVars, TableTypes, NotifTypes
  <2> QED BY <1>1, <2>1, FireRest
<1>3. CASE Improve
  <2>1. /\ UNCHANGED <<nextID, fire>> /\ \A x \in Ids : notif'[x].s = notif[x].s
    BY <1>1, <1>3 DEF Improve, threadVars, TableTypes, NotifTypes
  <2> QED BY <1>1, <2>1, FireRest
<1>4. ASSUME NEW n \in Ids, TimerFires(n) PROVE FireInv'
  <2> DEFINE rec == [fire[n] EXCEPT !.step = "start"]
  <2>1. FireTo(n, rec) /\ UNCHANGED <<nextID, notif>>
    BY <1>4 DEF TimerFires, FireTo
  <2>2. rec.ids = {} /\ rec.step = "start"
    BY <1>4 DEF TimerFires, TimerInv, IdleFire, FireAt
  <2> HIDE DEF rec
  <2> QED BY <1>1, <2>1, <2>2, FireSet
<1>5. ASSUME NEW n \in Ids, FirePending(n) PROVE FireInv'
  <2> DEFINE p == pending[notif[n].s] all == {pending[x] : x \in Sessions} \ {0}
  <2>1. UNCHANGED <<notif, nextID>> /\ fire[n].step = "start"
    BY <1>5 DEF FirePending
  <2>2. CASE FireEnds(n)
    BY <1>1, <2>1, <2>2, FireEnded
  <2>3. CASE p # 0 /\ FireTo(n, FireAt("viewing", {p}, p, 0))
    <3>1. notif[n].s \in Sessions
      BY <2>1 DEF TimerInv
    <3>2. p <= nextID /\ notif[p].s \in Sessions
      BY <2>3, <3>1 DEF PendingInv
    <3> DEFINE rec == FireAt("viewing", {p}, p, 0)
    <3>3. rec.ids = {p} /\ rec.id = p /\ rec.step = "viewing" /\ FireTo(n, rec)
      BY <2>3 DEF FireAt
    <3> HIDE DEF rec, p
    <3> QED BY <1>1, <2>1, <2>3, <3>2, <3>3, FireSet
  <2>4. CASE Cardinality(all) >= CoalesceAt /\ FireTo(n, FireAt("quota", all, 0, 0))
    <3>1. all \subseteq 1..MaxIds
      BY <1>1 DEF TableTypes, IdTypes
    <3>2. \A x \in all : x <= nextID /\ notif[x].s \in Sessions
      BY DEF PendingInv
    <3> DEFINE rec == FireAt("quota", all, 0, 0)
    <3>3. rec.ids = all /\ rec.step = "quota" /\ FireTo(n, rec)
      BY <2>4 DEF FireAt
    <3> HIDE DEF rec, all
    <3>4. Cardinality(all) \in Nat
      <4>1. IsFiniteSet(1..MaxIds)
        BY <1>1, FS_Interval
      <4>2. IsFiniteSet(all)
        BY <3>1, <4>1, FS_Subset
      <4> QED BY <4>2, FS_CardinalityType
    <3>5. Cardinality(all) > 1
      BY <2>4, <3>4, NotifyAssumption
    <3> QED BY <1>1, <2>1, <3>2, <3>3, <3>5, FireSet
  <2> QED BY <1>5, <2>2, <2>3, <2>4 DEF FirePending
<1>6. ASSUME NEW n \in Ids, LooksAgain(n) PROVE FireInv'
  <2>1. UNCHANGED <<nextID, notif>> /\ fire[n].step = "viewing"
    BY <1>6 DEF LooksAgain, idVars
  <2>2. CASE FireEnds(n)
    BY <1>1, <2>1, <2>2, FireEnded
  <2>3. CASE FireTo(n, [fire[n] EXCEPT !.step = "allow"])
    <3> DEFINE rec == [fire[n] EXCEPT !.step = "allow"]
    <3>1. rec.ids = fire[n].ids /\ rec.id = fire[n].id /\ rec.step = "allow"
      BY <1>1 DEF TableTypes, FireTypes, Fires
    <3>2. FireTo(n, rec)
      BY <2>3
    <3> HIDE DEF rec
    <3>3. /\ \A x \in rec.ids : x <= nextID /\ notif[x].s \in Sessions
          /\ rec.id # 0 /\ rec.ids = {rec.id}
      BY <2>1, <3>1 DEF FireInv, Single
    <3> QED BY <1>1, <2>1, <3>1, <3>2, <3>3, FireSet
  <2> QED BY <1>6, <2>2, <2>3 DEF LooksAgain
<1>7. ASSUME NEW n \in Ids, AllowPending(n) \/ AllowSummary(n) PROVE FireInv'
  <2>1. UNCHANGED <<nextID, notif>> /\ fire[n].step \in {"allow", "quota"}
    BY <1>7 DEF AllowPending, AllowSummary, idVars
  <2>2. CASE FireEnds(n)
    BY <1>1, <2>1, <2>2, FireEnded
  <2>3. CASE FireTo(n, FireAt("target", fire[n].ids, fire[n].id, now))
    <3> DEFINE rec == FireAt("target", fire[n].ids, fire[n].id, now)
    <3>1. rec.ids = fire[n].ids /\ rec.id = fire[n].id /\ rec.step = "target" /\ FireTo(n, rec)
      BY <2>3 DEF FireAt
    <3> HIDE DEF rec
    <3>2. /\ \A x \in rec.ids : x <= nextID /\ notif[x].s \in Sessions
          /\ (rec.id # 0 /\ rec.ids = {rec.id}) \/ Cardinality(rec.ids) > 1
      BY <2>1, <3>1 DEF FireInv, Single, Several
    <3> QED BY <1>1, <2>1, <3>1, <3>2, FireSet
  <2> QED BY <1>7, <2>2, <2>3 DEF AllowPending, AllowSummary
<1>8. ASSUME NEW n \in Ids, NoTarget(n) \/ Send(n) PROVE FireInv'
  BY <1>1, <1>8, FireEnded DEF NoTarget, Send, idVars
<1>9. ASSUME NEW n \in Ids, Enter(n) PROVE FireInv'
  <2>1. /\ fire[n].step = "target" /\ (Single(n) \/ Several(n))
        /\ \A x \in fire[n].ids : x <= nextID /\ notif[x].s \in Sessions
    BY <1>9 DEF Enter, FireInv
  <2>2. /\ nextID' \in Nat /\ nextID <= nextID'
        /\ \A x \in Ids : x <= nextID => notif'[x].s = notif[x].s
    BY <1>1, <1>9 DEF Enter, TableTypes, NotifTypes
  <2>3. PICK rec : /\ FireTo(n, rec) /\ rec.step = "send" /\ rec.ids = fire[n].ids
                   /\ rec.id = fire[n].id \/ fire[n].id = 0
    <3>1. LET rec == [fire[n] EXCEPT !.step = "send"] IN
            rec.ids = fire[n].ids /\ rec.id = fire[n].id /\ rec.step = "send"
      BY <1>1 DEF TableTypes, FireTypes, Fires
    <3>2. LET rec == FireAt("send", fire[n].ids, nextID', fire[n].at) IN
            rec.ids = fire[n].ids /\ rec.step = "send"
      BY DEF FireAt
    <3> QED BY <1>9, <3>1, <3>2 DEF Enter
  <2>4. \A x \in rec.ids : x <= nextID' /\ notif'[x].s \in Sessions
    <3>1. rec.ids \subseteq Ids
      BY <1>1, <2>3 DEF TableTypes, FireTypes, Fires
    <3> QED BY <1>1, <2>1, <2>2, <2>3, <3>1 DEF Ids
  <2>5. (rec.id # 0 /\ rec.ids = {rec.id}) \/ Cardinality(rec.ids) > 1
    BY <2>1, <2>3 DEF Single, Several
  <2> QED BY <1>1, <2>2, <2>3, <2>4, <2>5, FireSet
<1>10. CASE UNCHANGED <<nextID, notif, fire>>
  BY <1>1, <1>10, FireRest
<1>11. CASE \/ SessionStep \/ Ticks \/ SeedPrev \/ HandleEvent \/ LooksForMode \/ AllowInApp \/ NoToast
            \/ PushActivity \/ SendToast
  BY <1>10, <1>11 DEF SessionStep, Report, Appears, MarkRead, Dies, Disappears, Activity, Ticks,
     SeedPrev,
     HandleEvent, LooksForMode, AllowInApp, NoToast, SendToast, PushActivity, routerVars,
     threadVars, idVars
<1>12. ASSUME NEW c \in Clients, \/ Add(c) \/ Remove(c) \/ SetPermission(c) \/ Callback(c)
                                 \/ \E f \in BOOLEAN, s \in Sessions \cup {None} : Update(c, f, s)
       PROVE  UNCHANGED <<nextID, notif, fire>>
  BY <1>12 DEF Add, Remove, SetPermission, Update, Moved, Callback, CancelAll, CancelForSession,
     routerVars,
     idVars
<1>13. ASSUME NEW n \in Ids, Ack(n) \/ Expires(n) PROVE UNCHANGED <<nextID, notif, fire>>
  BY <1>13 DEF Ack, Expires, idVars
<1> QED BY <1>2, <1>3, <1>4, <1>5, <1>6, <1>7, <1>8, <1>9, <1>10, <1>11, <1>12, <1>13
        DEF Next, ClientStep, LoopStep, FireStep

-----------------------------------------------------------------------------
(* The active notifications                                                *)

LEMMA ActiveKept == ASSUME TypeOK, TimerInv, ActiveInv, Next PROVE ActiveInv'
<1>1. TableTypes /\ TaskTypes
  BY Tables DEF TypeOK
<1>2. CASE UNCHANGED <<expiry, task, fire>> /\ active' \subseteq active
  BY <1>2 DEF ActiveInv, Sending
<1>3. ASSUME NEW c \in Clients, \/ Add(c) \/ Remove(c) \/ SetPermission(c) \/ Callback(c)
                                \/ \E f \in BOOLEAN, s \in Sessions \cup {None} : Update(c, f, s)
      PROVE  UNCHANGED <<expiry, task, fire>> /\ active' \subseteq active
  BY <1>3 DEF Add, Remove, SetPermission, Update, Moved, Callback, CancelAll, CancelForSession,
     routerVars
<1>4. CASE SessionStep \/ Ticks \/ SeedPrev
  BY <1>2, <1>4 DEF SessionStep, Report, Appears, MarkRead, Dies, Disappears, Activity, Ticks,
     SeedPrev,
     routerVars, threadVars
<1>5. CASE HandleEvent \/ LooksForMode \/ AllowInApp \/ NoToast \/ Improve \/ Defer \/ PushActivity
  <2>1. UNCHANGED <<expiry, fire, active>> /\ task.step # "send"
    BY <1>5 DEF HandleEvent, LooksForMode, AllowInApp, NoToast, Improve, Defer, PushActivity,
       threadVars
  <2> QED BY <2>1 DEF ActiveInv, Sending
<1>6. CASE EnterToast
  <2>1. /\ UNCHANGED <<expiry, fire>> /\ task.step # "send" /\ active' = active \cup {nextID'}
        /\ task'.step = "send" /\ task'.id = nextID'
    BY <1>6 DEF EnterToast, TaskAt
  <2> QED BY <2>1 DEF ActiveInv, Sending
<1>7. CASE SendToast
  <2>1. UNCHANGED <<active, fire>> /\ expiry' = expiry \cup {task.id}
    BY <1>7 DEF SendToast
  <2> QED BY <2>1 DEF ActiveInv, Sending
<1>8. ASSUME NEW n \in Ids,
             \/ TimerFires(n) \/ FirePending(n) \/ LooksAgain(n) \/ AllowPending(n) \/ AllowSummary(n)
             \/ NoTarget(n)
      PROVE  ActiveInv'
  <2>1. UNCHANGED <<expiry, active, task>>
    BY <1>8 DEF TimerFires, FirePending, LooksAgain, AllowPending, AllowSummary, NoTarget,
       fireOnly
  <2>2. ASSUME NEW x \in Ids, fire[x].step = "send" PROVE fire'[x] = fire[x]
    <3>1. CASE x # n
      BY <1>1, <1>8, <3>1 DEF TimerFires, FirePending, LooksAgain, AllowPending, AllowSummary,
         NoTarget,
         FireEnds, FireTo, TableTypes, FireTypes
    <3>2. ~TimerFires(x)
      BY <2>2 DEF TimerFires, TimerInv, IdleFire, FireAt
    <3> QED BY <1>8, <2>2, <3>1, <3>2
            DEF FirePending, LooksAgain, AllowPending, AllowSummary, NoTarget
  <2> QED BY <2>1, <2>2 DEF ActiveInv, Sending
<1>9. ASSUME NEW n \in Ids, Enter(n) PROVE ActiveInv'
  <2>1. UNCHANGED <<expiry, task>> /\ fire[n].step = "target"
    BY <1>9 DEF Enter, fireOnly
  <2>2. \A x \in Ids : fire[x].step = "send" => fire'[x] = fire[x]
    BY <1>1, <1>9 DEF Enter, FireTo, TableTypes, FireTypes
  <2>3. fire'[n].step = "send" /\ active' = active \cup {fire'[n].id}
    BY <1>1, <1>9 DEF Enter, FireTo, FireAt, TableTypes, FireTypes, Fires
  <2> QED BY <2>1, <2>2, <2>3 DEF ActiveInv, Sending
<1>10. ASSUME NEW n \in Ids, Send(n) PROVE ActiveInv'
  <2>1. UNCHANGED <<active, task>> /\ expiry' = expiry \cup {fire[n].id}
    BY <1>10 DEF Send, fireOnly
  <2>2. \A x \in Ids \ {n} : fire'[x] = fire[x]
    BY <1>1, <1>10 DEF Send, FireEnds, FireTo, TableTypes, FireTypes
  <2> QED BY <2>1, <2>2 DEF ActiveInv, Sending
<1>11. ASSUME NEW n \in Ids, Ack(n) \/ Expires(n) PROVE ActiveInv'
  BY <1>11 DEF Ack, Expires, fireOnly, ActiveInv, Sending
<1> QED BY <1>2, <1>3, <1>4, <1>5, <1>6, <1>7, <1>8, <1>9, <1>10, <1>11
        DEF Next, ClientStep, LoopStep, FireStep

-----------------------------------------------------------------------------
(* The quota of a workspace                                                *)

LEMMA LoopAndTimersFinite == IsFiniteSet(0..MaxIds)
<1>1. 0 \in Int /\ MaxIds \in Int
  BY NotifyAssumption
<1> QED BY <1>1, FS_Interval

LEMMA HoldersFinite ==
  ASSUME NEW w, NEW t
  PROVE  IsFiniteSet(Holders(w, t)) /\ Cardinality(Holders(w, t)) \in Nat
<1>1. IsFiniteSet(0..MaxIds)
  BY LoopAndTimersFinite
<1>2. Holders(w, t) \subseteq 0..MaxIds
  BY DEF Holders
<1>3. IsFiniteSet(Holders(w, t))
  BY <1>1, <1>2, FS_Subset
<1> QED BY <1>3, FS_CardinalityType

LEMMA HoldersFiniteNext ==
  ASSUME NEW w, NEW t
  PROVE  IsFiniteSet(Holders(w, t)') /\ Cardinality(Holders(w, t)') \in Nat
<1>1. IsFiniteSet(0..MaxIds)
  BY LoopAndTimersFinite
<1>2. Holders(w, t)' \subseteq 0..MaxIds
  BY DEF Holders
<1>3. IsFiniteSet(Holders(w, t)')
  BY <1>1, <1>2, FS_Subset
<1> QED BY <1>3, FS_CardinalityType

LEMMA NoMoreHolders ==
  ASSUME NEW w, NEW t, Holders(w, t)' \subseteq Holders(w, t)
  PROVE  Cardinality(Holders(w, t)') <= Cardinality(Holders(w, t))
BY HoldersFinite, FS_Subset

LEMMA OneMoreHolder ==
  ASSUME NEW w, NEW t, NEW x, Holders(w, t)' \subseteq Holders(w, t) \cup {x}
  PROVE  Cardinality(Holders(w, t)') <= Cardinality(Holders(w, t)) + 1
<1>1. IsFiniteSet(Holders(w, t)) /\ Cardinality(Holders(w, t)) \in Nat
  BY HoldersFinite
<1>2. /\ IsFiniteSet(Holders(w, t) \cup {x})
      /\ Cardinality(Holders(w, t) \cup {x}) <= Cardinality(Holders(w, t)) + 1
  BY <1>1, FS_AddElement
<1>3. Cardinality(Holders(w, t)') <= Cardinality(Holders(w, t) \cup {x})
  BY <1>2, FS_Subset
<1>4. Cardinality(Holders(w, t)') \in Nat /\ Cardinality(Holders(w, t) \cup {x}) \in Nat
  BY <1>2, HoldersFiniteNext, FS_CardinalityType
<1> QED BY <1>1, <1>2, <1>3, <1>4

LEMMA OneHolderLess ==
  ASSUME NEW w, NEW t, NEW x \in Holders(w, t), Holders(w, t)' \subseteq Holders(w, t) \ {x}
  PROVE  Cardinality(Holders(w, t)') + 1 <= Cardinality(Holders(w, t))
<1>1. IsFiniteSet(Holders(w, t)) /\ Cardinality(Holders(w, t)) \in Nat
  BY HoldersFinite
<1>2. /\ IsFiniteSet(Holders(w, t) \ {x})
      /\ Cardinality(Holders(w, t) \ {x}) = Cardinality(Holders(w, t)) - 1
  BY <1>1, FS_RemoveElement
<1>3. Cardinality(Holders(w, t)') <= Cardinality(Holders(w, t) \ {x})
  BY <1>2, FS_Subset
<1>4. Cardinality(Holders(w, t)') \in Nat
  BY HoldersFiniteNext
<1> QED BY <1>1, <1>2, <1>3, <1>4

(* A step that permits deliveries to the workspaces of ws, in this window: *)
(* what is told and what is held grows by no more than that.               *)
Grown(w, t) == told[w][t] + Cardinality(Holders(w, t))

LEMMA GrownTypes ==
  ASSUME LimitTypes, LimitTypes', NEW w \in Workspaces, NEW t \in 0..MaxTime
  PROVE  /\ told[w][t] \in Nat /\ told'[w][t] \in Nat
         /\ Cardinality(Holders(w, t)) \in Nat /\ Cardinality(Holders(w, t)') \in Nat
         /\ Grown(w, t) = told[w][t] + Cardinality(Holders(w, t))
         /\ Grown(w, t)' = told'[w][t] + Cardinality(Holders(w, t)')
         /\ Grown(w, t) \in Nat /\ Grown(w, t)' \in Nat
<1>1. told[w][t] \in Nat /\ told'[w][t] \in Nat
  BY DEF LimitTypes
<1>2. Cardinality(Holders(w, t)) \in Nat /\ Cardinality(Holders(w, t)') \in Nat
  BY HoldersFinite, HoldersFiniteNext
<1> QED BY <1>1, <1>2 DEF Grown

LEMMA QuotaStep ==
  ASSUME LimitTypes, QuotaInv, LimitTypes', UNCHANGED now, NEW ws,
         \A w \in Workspaces :
           IF w \in ws THEN Pruned(wsHist[w]) < WorkspaceLimit /\ wsHist'[w] = Counted(wsHist[w])
                       ELSE wsHist'[w] = wsHist[w],
         \A w \in Workspaces, t \in 0..MaxTime :
           Grown(w, t)' <= Grown(w, t) + (IF w \in ws /\ t = now THEN 1 ELSE 0)
  PROVE  QuotaInv'
<1> SUFFICES ASSUME NEW w \in Workspaces
             PROVE  /\ wsHist'[w].at <= now' /\ Pruned(wsHist[w])' <= WorkspaceLimit
                    /\ \A t \in 0..MaxTime : Grown(w, t)' <= Allowed(w, t)'
  BY DEF QuotaInv, Grown
<1>1. /\ wsHist[w].at <= now /\ Pruned(wsHist[w]) <= WorkspaceLimit /\ Pruned(wsHist[w]) \in Nat
      /\ now \in Nat /\ WorkspaceLimit \in Nat
  BY NotifyAssumption, CountedTypes DEF QuotaInv, LimitTypes
<1>2. CASE w \in ws
  <2>1. /\ Pruned(wsHist[w]) < WorkspaceLimit /\ wsHist'[w].at = now
        /\ Pruned(wsHist[w])' = Pruned(wsHist[w]) + 1
    <3>1. Pruned(wsHist[w]) < WorkspaceLimit /\ wsHist'[w] = Counted(wsHist[w]) /\ now' = now
      BY <1>2
    <3>2. wsHist'[w].at = now /\ wsHist'[w].n = Pruned(wsHist[w]) + 1
      BY <3>1 DEF Counted
    <3>3. Pruned(wsHist[w])' = wsHist'[w].n
      BY <3>1, <3>2 DEF Pruned
    <3> QED BY <3>1, <3>2, <3>3
  <2>2. ASSUME NEW t \in 0..MaxTime PROVE Grown(w, t)' <= Allowed(w, t)'
    <3>1. Grown(w, t) <= Allowed(w, t)
      BY DEF QuotaInv, Grown
    <3>2. Grown(w, t) \in Nat /\ Grown(w, t)' \in Nat
      BY GrownTypes
    <3>3. Grown(w, t)' <= Grown(w, t) + (IF t = now THEN 1 ELSE 0)
      BY <1>2
    <3> QED BY <1>1, <2>1, <3>1, <3>2, <3>3, NotifyAssumption DEF Allowed
  <2> QED BY <1>1, <2>1, <2>2
<1>3. CASE w \notin ws
  <2>1. wsHist'[w] = wsHist[w] /\ Pruned(wsHist[w])' = Pruned(wsHist[w])
    BY <1>3 DEF Pruned
  <2>2. ASSUME NEW t \in 0..MaxTime PROVE Grown(w, t)' <= Allowed(w, t)'
    <3>1. Grown(w, t) <= Allowed(w, t)
      BY DEF QuotaInv, Grown
    <3>2. Grown(w, t) \in Nat /\ Grown(w, t)' \in Nat
      BY GrownTypes
    <3>3. Grown(w, t)' <= Grown(w, t) + 0
      BY <1>3
    <3> QED BY <1>1, <2>1, <3>1, <3>2, <3>3, NotifyAssumption DEF Allowed
  <2> QED BY <1>1, <2>1, <2>2
<1> QED BY <1>2, <1>3

LEMMA QuotaRest ==
  ASSUME LimitTypes, QuotaInv, LimitTypes', UNCHANGED <<now, wsHist, told>>,
         \A w \in Workspaces, t \in 0..MaxTime : Holders(w, t)' \subseteq Holders(w, t)
  PROVE  QuotaInv'
<1>1. ASSUME NEW w \in Workspaces, NEW t \in 0..MaxTime PROVE Grown(w, t)' <= Grown(w, t) + 0
  <2>1. Cardinality(Holders(w, t)') <= Cardinality(Holders(w, t))
    BY NoMoreHolders
  <2> QED BY <2>1, GrownTypes
<1> DEFINE ws == {}
<1>2. \A w \in Workspaces, t \in 0..MaxTime :
        Grown(w, t)' <= Grown(w, t) + (IF w \in ws /\ t = now THEN 1 ELSE 0)
  BY <1>1
<1>3. \A w \in Workspaces :
           IF w \in ws THEN Pruned(wsHist[w]) < WorkspaceLimit /\ wsHist'[w] = Counted(wsHist[w])
                       ELSE wsHist'[w] = wsHist[w]
  OBVIOUS
<1> HIDE DEF ws
<1> QED BY <1>2, <1>3, QuotaStep

(* One delivery each to ws is permitted, and x holds it.                   *)
LEMMA QuotaGranted ==
  ASSUME LimitTypes, QuotaInv, LimitTypes', UNCHANGED <<now, told>>, NEW ws, NEW x,
         \A w \in Workspaces :
           IF w \in ws THEN Pruned(wsHist[w]) < WorkspaceLimit /\ wsHist'[w] = Counted(wsHist[w])
                       ELSE wsHist'[w] = wsHist[w],
         \A w \in Workspaces, t \in 0..MaxTime :
           Holders(w, t)' \subseteq Holders(w, t) \cup (IF w \in ws /\ t = now THEN {x} ELSE {})
  PROVE  QuotaInv'
<1>1. ASSUME NEW w \in Workspaces, NEW t \in 0..MaxTime
      PROVE  Grown(w, t)' <= Grown(w, t) + (IF w \in ws /\ t = now THEN 1 ELSE 0)
  <2>1. CASE w \in ws /\ t = now
    <3>1. Holders(w, t)' \subseteq Holders(w, t) \cup {x}
      BY <2>1
    <3>2. Cardinality(Holders(w, t)') <= Cardinality(Holders(w, t)) + 1
      BY <3>1, OneMoreHolder
    <3> QED BY <2>1, <3>2, GrownTypes
  <2>2. CASE ~(w \in ws /\ t = now)
    <3>1. Holders(w, t)' \subseteq Holders(w, t)
      BY <2>2
    <3>2. Cardinality(Holders(w, t)') <= Cardinality(Holders(w, t))
      BY <3>1, NoMoreHolders
    <3> QED BY <2>2, <3>2, GrownTypes
  <2> QED BY <2>1, <2>2
<1> QED BY <1>1, QuotaStep

(* What x holds for ws is told.                                            *)
LEMMA QuotaTold ==
  ASSUME LimitTypes, QuotaInv, LimitTypes', UNCHANGED <<now, wsHist>>, NEW ws, NEW at, NEW x, Tell(ws, at),
         \A w \in Workspaces, t \in 0..MaxTime :
           /\ Holders(w, t)' \subseteq Holders(w, t)
           /\ w \in ws /\ t = at => x \in Holders(w, t) /\ x \notin Holders(w, t)'
  PROVE  QuotaInv'
<1>1. ASSUME NEW w \in Workspaces, NEW t \in 0..MaxTime PROVE Grown(w, t)' <= Grown(w, t) + 0
  <2>1. CASE w \in ws /\ t = at
    <3>1. x \in Holders(w, t) /\ Holders(w, t)' \subseteq Holders(w, t) \ {x}
      BY <2>1
    <3>2. Cardinality(Holders(w, t)') + 1 <= Cardinality(Holders(w, t))
      BY <3>1, OneHolderLess
    <3>3. told'[w][t] = told[w][t] + 1
      BY <2>1 DEF Tell, LimitTypes
    <3> QED BY <3>2, <3>3, GrownTypes
  <2>2. CASE ~(w \in ws /\ t = at)
    <3>1. Cardinality(Holders(w, t)') <= Cardinality(Holders(w, t))
      BY NoMoreHolders
    <3>2. told'[w][t] = told[w][t]
      BY <2>2 DEF Tell, LimitTypes
    <3> QED BY <3>1, <3>2, GrownTypes
  <2> QED BY <2>1, <2>2
<1> DEFINE none == {}
<1>2. \A w \in Workspaces, t \in 0..MaxTime :
        Grown(w, t)' <= Grown(w, t) + (IF w \in none /\ t = now THEN 1 ELSE 0)
  BY <1>1
<1>3. \A w \in Workspaces :
           IF w \in none THEN Pruned(wsHist[w]) < WorkspaceLimit /\ wsHist'[w] = Counted(wsHist[w])
                         ELSE wsHist'[w] = wsHist[w]
  OBVIOUS
<1> HIDE DEF none
<1> QED BY <1>2, <1>3, QuotaStep

(* The workspaces a timer's notifications are of do not change.            *)
LEMMA SameWorkspaces ==
  ASSUME TableTypes, FireInv, NEW m \in Ids, fire'[m].ids = fire[m].ids,
         \A x \in Ids : x <= nextID => notif'[x].s = notif[x].s
  PROVE  FireWorkspaces(m)' = FireWorkspaces(m)
<1>1. \A x \in fire[m].ids : notif'[x].s = notif[x].s
  BY DEF FireInv, TableTypes, FireTypes, Fires
<1> QED BY <1>1 DEF FireWorkspaces

(* The loop takes a step that holds nothing it did not hold before.        *)
LEMMA LoopHolders ==
  ASSUME TableTypes, FireInv, UNCHANGED fire, NEW w, NEW t,
         \A x \in Ids : x <= nextID => notif'[x].s = notif[x].s
  PROVE  \A x \in Ids : x \in Holders(w, t)' <=> x \in Holders(w, t)
<1>1. \A m \in Ids : FireWorkspaces(m)' = FireWorkspaces(m)
  BY SameWorkspaces
<1>2. \A m \in Ids : m # 0
  BY DEF Ids
<1> QED BY <1>1, <1>2 DEF Holders, Holds

LEMMA FireHolders ==
  ASSUME TableTypes, FireInv, NEW n \in Ids, NEW rec, FireTo(n, rec), UNCHANGED task, NEW w, NEW t,
         \A x \in Ids : x <= nextID => notif'[x].s = notif[x].s
  PROVE  /\ \A x \in (0..MaxIds) \ {n} : x \in Holders(w, t)' <=> x \in Holders(w, t)
         /\ n \in Holders(w, t)' <=>
              rec.step \in {"target", "send"} /\ w \in FireWorkspaces(n)' /\ rec.at = t
<1>1. fire'[n] = rec /\ \A m \in Ids \ {n} : fire'[m] = fire[m]
  BY DEF FireTo, TableTypes, FireTypes
<1>2. \A m \in Ids \ {n} : FireWorkspaces(m)' = FireWorkspaces(m)
  BY <1>1, SameWorkspaces
<1>3. n # 0 /\ n \in 0..MaxIds
  BY NotifyAssumption DEF Ids
<1> QED BY <1>1, <1>2, <1>3 DEF Holders, Holds

LEMMA Granted1 ==
  ASSUME LimitTypes, NEW s, Allow(s)
  PROVE  \A w \in Workspaces :
           IF w \in {Workspace[s]}
           THEN Pruned(wsHist[w]) < WorkspaceLimit /\ wsHist'[w] = Counted(wsHist[w])
           ELSE wsHist'[w] = wsHist[w]
<1>1. wsHist' = [wsHist EXCEPT ![Workspace[s]] = Counted(wsHist[Workspace[s]])]
  BY DEF Allow
<1>2. Pruned(wsHist[Workspace[s]]) < WorkspaceLimit
  BY DEF Allow, Permitted
<1> QED BY <1>1, <1>2 DEF LimitTypes

LEMMA LoopQuota ==
  ASSUME TableTypes, FireInv, LimitTypes, QuotaInv, LimitTypes', UNCHANGED <<now, wsHist, told, fire>>,
         \A x \in Ids : x <= nextID => notif'[x].s = notif[x].s,
         task'.step \in {"toast", "send"} =>
           task.step \in {"toast", "send"} /\ task'.s = task.s /\ task'.at = task.at
  PROVE  QuotaInv'
<1>1. ASSUME NEW w \in Workspaces, NEW t \in 0..MaxTime PROVE Holders(w, t)' \subseteq Holders(w, t)
  <2>1. \A x \in Ids : x \in Holders(w, t)' <=> x \in Holders(w, t)
    BY LoopHolders
  <2>2. 0 \in Holders(w, t)' => 0 \in Holders(w, t)
    BY DEF Holders, Holds, Ids
  <2>3. Holders(w, t)' \subseteq Ids \cup {0}
    BY NotifyAssumption DEF Holders, Ids
  <2> QED BY <2>1, <2>2, <2>3
<1> QED BY <1>1, QuotaRest

LEMMA FireQuota ==
  ASSUME TableTypes, FireInv, LimitTypes, QuotaInv, LimitTypes', UNCHANGED <<now, wsHist, told, task>>,
         \A x \in Ids : x <= nextID => notif'[x].s = notif[x].s,
         NEW n \in Ids, NEW rec, FireTo(n, rec),
         rec.step \in {"target", "send"} =>
           fire[n].step \in {"target", "send"} /\ rec.ids = fire[n].ids /\ rec.at = fire[n].at
  PROVE  QuotaInv'
<1>1. ASSUME NEW w \in Workspaces, NEW t \in 0..MaxTime PROVE Holders(w, t)' \subseteq Holders(w, t)
  <2>1. /\ \A x \in (0..MaxIds) \ {n} : x \in Holders(w, t)' <=> x \in Holders(w, t)
        /\ n \in Holders(w, t)' <=>
             rec.step \in {"target", "send"} /\ w \in FireWorkspaces(n)' /\ rec.at = t
    BY FireHolders
  <2>2. n \in Holders(w, t)' => n \in Holders(w, t)
    <3>1. SUFFICES ASSUME n \in Holders(w, t)' PROVE n \in Holders(w, t)
      OBVIOUS
    <3>2. rec.step \in {"target", "send"} /\ w \in FireWorkspaces(n)' /\ rec.at = t
      BY <2>1, <3>1
    <3>3. fire'[n] = rec
      BY DEF FireTo, TableTypes, FireTypes
    <3>4. FireWorkspaces(n)' = FireWorkspaces(n)
      BY <3>2, <3>3, SameWorkspaces
    <3> QED BY <3>2, <3>4, NotifyAssumption DEF Holders, Holds, Ids
  <2>3. Holders(w, t)' \subseteq 0..MaxIds
    BY DEF Holders
  <2> QED BY <2>1, <2>2, <2>3
<1> QED BY <1>1, QuotaRest

LEMMA QuotaKept == ASSUME TypeOK, FireInv, QuotaInv, Next, TypeOK' PROVE QuotaInv'
<1>1. TableTypes /\ TaskTypes /\ LimitTypes /\ LimitTypes' /\ TaskTypes' /\ MaxIds \in Nat /\ nextID \in Nat
  <2>1. TableTypes /\ TaskTypes /\ LimitTypes /\ LimitTypes' /\ MaxIds \in Nat /\ TaskTypes'
    BY NotifyAssumption, Tables DEF TypeOK, LoopTypes, TaskTypes
  <2> QED BY <2>1, NotifyAssumption DEF TableTypes, IdTypes
<1>2. \A s, todo : Begin(s, todo) => task'.step \in {"idle", "viewing"}
  BY IdleTaskTypes DEF Begin, TaskAt
<1>3. CASE HandleEvent \/ LooksForMode \/ EnterToast \/ Improve \/ Defer
  <2>1. UNCHANGED <<now, wsHist, told, fire>>
    BY <1>3 DEF HandleEvent, LooksForMode, EnterToast, Improve, Defer, loopOnly, limitVars,
       threadVars
  <2>2. \A x \in Ids : x <= nextID => notif'[x].s = notif[x].s
    BY <1>1, <1>3 DEF HandleEvent, LooksForMode, EnterToast, Improve, Defer, idVars, TableTypes,
       NotifTypes, Ids
  <2>3. task'.step \in {"toast", "send"} =>
           task.step \in {"toast", "send"} /\ task'.s = task.s /\ task'.at = task.at
    <3>1. CASE HandleEvent
      <4>1. task.step = "idle"
        BY <3>1 DEF HandleEvent
      <4>2. task' = task \/ task'.step \in {"idle", "viewing", "activity"}
        BY <1>2, <3>1, IdleTaskTypes DEF HandleEvent, HandleUpsert, HandleRemove, HandleActivity,
           TaskAt
      <4> QED BY <4>1, <4>2
    <3>2. CASE LooksForMode
      BY <1>1, <1>2, <3>2 DEF LooksForMode, Goes, Done, TaskTypes, Tasks
    <3>3. CASE EnterToast
      BY <3>3 DEF EnterToast, TaskAt
    <3>4. CASE Improve \/ Defer
      BY <1>2, <3>4 DEF Improve, Defer, Done
    <3> QED BY <1>3, <3>1, <3>2, <3>3, <3>4
  <2> QED BY <1>1, <2>1, <2>2, <2>3, LoopQuota
<1>4. CASE AllowInApp
  <2>1. UNCHANGED <<now, told, fire, notif>> /\ task.step = "allow"
    BY <1>4 DEF AllowInApp, loopOnly, idVars, threadVars
  <2>2. CASE Done /\ UNCHANGED limitVars
    BY <1>1, <1>2, <2>1, <2>2, LoopQuota DEF Done, limitVars
  <2>3. CASE Allow(task.s) /\ task' = TaskAt("toast", task.s, task.todo, 0, now)
    <3> DEFINE ws == {Workspace[task.s]}
    <3>1. \A w \in Workspaces :
            IF w \in ws THEN Pruned(wsHist[w]) < WorkspaceLimit /\ wsHist'[w] = Counted(wsHist[w])
                        ELSE wsHist'[w] = wsHist[w]
      BY <1>1, <2>3, Granted1
    <3>2. ASSUME NEW w \in Workspaces, NEW t \in 0..MaxTime
          PROVE  Holders(w, t)' \subseteq Holders(w, t) \cup (IF w \in ws /\ t = now THEN {0} ELSE {})
      <4>1. \A x \in Ids : x \in Holders(w, t)' <=> x \in Holders(w, t)
        BY <1>1, <2>1, LoopHolders
      <4>2. 0 \in Holders(w, t)' => w \in ws /\ t = now
        BY <2>3 DEF Holders, Holds, Ids, TaskAt
      <4>3. Holders(w, t)' \subseteq Ids \cup {0}
        BY <1>1 DEF Holders, Ids
      <4> QED BY <4>1, <4>2, <4>3
    <3> HIDE DEF ws
    <3> QED BY <1>1, <2>1, <3>1, <3>2, QuotaGranted
  <2> QED BY <1>4, <2>2, <2>3 DEF AllowInApp
<1>5. CASE NoToast \/ SendToast
  <2>1. /\ UNCHANGED <<now, wsHist, fire, notif>> /\ task.step \in {"toast", "send"}
        /\ Tell({Workspace[task.s]}, task.at) /\ task'.step \in {"idle", "viewing"}
    BY <1>2, <1>5 DEF NoToast, SendToast, loopOnly, limitVars, idVars, threadVars, Done
  <2> DEFINE ws == {Workspace[task.s]}
  <2>2. ASSUME NEW w \in Workspaces, NEW t \in 0..MaxTime
        PROVE  /\ Holders(w, t)' \subseteq Holders(w, t)
               /\ w \in ws /\ t = task.at => 0 \in Holders(w, t) /\ 0 \notin Holders(w, t)'
    <3>1. \A x \in Ids : x \in Holders(w, t)' <=> x \in Holders(w, t)
      BY <1>1, <2>1, LoopHolders
    <3>2. 0 \notin Holders(w, t)'
      BY <2>1 DEF Holders, Holds, Ids
    <3>3. w \in ws /\ t = task.at => 0 \in Holders(w, t)
      BY <1>1, <2>1 DEF Holders, Holds
    <3>4. Holders(w, t)' \subseteq Ids \cup {0}
      BY <1>1 DEF Holders, Ids
    <3> QED BY <3>1, <3>2, <3>3, <3>4
  <2> DEFINE at == task.at
  <2>3. /\ Tell(ws, at)
        /\ \A w \in Workspaces, t \in 0..MaxTime :
             /\ Holders(w, t)' \subseteq Holders(w, t)
             /\ w \in ws /\ t = at => 0 \in Holders(w, t) /\ 0 \notin Holders(w, t)'
    BY <2>1, <2>2
  <2> HIDE DEF ws, at
  <2> QED BY <1>1, <2>1, <2>3, QuotaTold
<1>6. CASE PushActivity
  <2>1. UNCHANGED <<now, fire, notif>> /\ task'.step = "idle"
    BY <1>6, IdleTaskTypes DEF PushActivity, loopOnly, idVars, threadVars
  <2>2. CASE UNCHANGED <<limitVars, told>>
    BY <1>1, <2>1, <2>2, LoopQuota DEF limitVars
  <2>3. CASE Allow(task.s) /\ Tell({Workspace[task.s]}, now)
    <3> DEFINE ws == {Workspace[task.s]}
    <3>1. \A w \in Workspaces :
            IF w \in ws THEN Pruned(wsHist[w]) < WorkspaceLimit /\ wsHist'[w] = Counted(wsHist[w])
                        ELSE wsHist'[w] = wsHist[w]
      BY <1>1, <2>3, Granted1
    <3>2. ASSUME NEW w \in Workspaces, NEW t \in 0..MaxTime
          PROVE  Grown(w, t)' <= Grown(w, t) + (IF w \in ws /\ t = now THEN 1 ELSE 0)
      <4>1. \A x \in Ids : x \in Holders(w, t)' <=> x \in Holders(w, t)
        BY <1>1, <2>1, LoopHolders
      <4>2. 0 \notin Holders(w, t)'
        BY <2>1 DEF Holders, Holds, Ids
      <4>3. Holders(w, t)' \subseteq Ids \cup {0}
        BY <1>1 DEF Holders, Ids
      <4>4. Cardinality(Holders(w, t)') <= Cardinality(Holders(w, t))
        BY <4>1, <4>2, <4>3, NoMoreHolders
      <4>5. told'[w][t] = IF w \in ws /\ t = now THEN told[w][t] + 1 ELSE told[w][t]
        BY <1>1, <2>3 DEF Tell, LimitTypes
      <4> QED BY <1>1, <4>4, <4>5, GrownTypes
    <3> HIDE DEF ws
    <3> QED BY <1>1, <2>1, <3>1, <3>2, QuotaStep
  <2> QED BY <1>6, <2>2, <2>3 DEF PushActivity
<1>7. CASE Ticks
  <2>1. UNCHANGED <<task, fire, notif, wsHist, told>> /\ now' = now + 1 /\ now \in Nat
    BY <1>1, <1>7, NotifyAssumption DEF Ticks, routerVars, idVars, limitVars, LimitTypes
  <2>2. ASSUME NEW w \in Workspaces PROVE wsHist'[w].at <= now' /\ Pruned(wsHist[w])' = 0
    BY <1>1, <2>1 DEF QuotaInv, Pruned, LimitTypes, Histories
  <2>3. \A w, t : Holders(w, t)' = Holders(w, t)
    BY <2>1 DEF Holders, Holds, FireWorkspaces
  <2>4. ASSUME NEW w \in Workspaces, NEW t \in 0..MaxTime
        PROVE  told'[w][t] + Cardinality(Holders(w, t)') <= Allowed(w, t)'
    <3>1. /\ Pruned(wsHist[w]) <= WorkspaceLimit /\ Grown(w, t) <= Allowed(w, t) /\ Pruned(wsHist[w]) \in Nat
          /\ Grown(w, t) \in Nat /\ WorkspaceLimit \in Nat
      BY <1>1, <2>1, GrownTypes, CountedTypes, NotifyAssumption DEF QuotaInv, Grown, LimitTypes
    <3>2. told'[w][t] + Cardinality(Holders(w, t)') = Grown(w, t)
      BY <2>1, <2>3 DEF Grown
    <3>3. Allowed(w, t) <= Allowed(w, t)' /\ Allowed(w, t)' \in Nat
      BY <2>1, <2>2, <3>1 DEF Allowed
    <3>4. Allowed(w, t) \in Nat
      BY <3>1 DEF Allowed
    <3> QED BY <3>1, <3>2, <3>3, <3>4
  <2>5. \A w \in Workspaces : Pruned(wsHist[w])' <= WorkspaceLimit
    BY <2>2, NotifyAssumption
  <2> QED BY <2>2, <2>4, <2>5 DEF QuotaInv
<1>8. ASSUME NEW n \in Ids, \/ TimerFires(n) \/ FirePending(n) \/ LooksAgain(n) \/ Enter(n) PROVE QuotaInv'
  <2>1. UNCHANGED <<now, wsHist, told, task>>
    BY <1>8 DEF TimerFires, FirePending, LooksAgain, Enter, fireOnly, limitVars
  <2>2. \A x \in Ids : x <= nextID => notif'[x].s = notif[x].s
    BY <1>1, <1>8 DEF TimerFires, FirePending, LooksAgain, Enter, idVars, TableTypes, NotifTypes
  <2>3. PICK rec : /\ FireTo(n, rec)
                   /\ rec.step \in {"target", "send"} =>
                        fire[n].step \in {"target", "send"} /\ rec.ids = fire[n].ids /\ rec.at = fire[n].at
    <3>1. CASE TimerFires(n)
      <4> DEFINE rec == [fire[n] EXCEPT !.step = "start"]
      <4>1. FireTo(n, rec) /\ rec.step = "start"
        BY <1>1, <3>1 DEF TimerFires, FireTo, TableTypes, FireTypes, Fires
      <4> QED BY <4>1
    <3>2. CASE FirePending(n)
      BY <3>2 DEF FirePending, FireEnds, IdleFire, FireAt
    <3>3. CASE LooksAgain(n)
      <4>1. [fire[n] EXCEPT !.step = "allow"].step = "allow" /\ IdleFire.step = "none"
        BY <1>1 DEF TableTypes, FireTypes, Fires, IdleFire, FireAt
      <4> QED BY <3>3, <4>1 DEF LooksAgain, FireEnds
    <3>4. CASE Enter(n)
      <4>1. LET rec == [fire[n] EXCEPT !.step = "send"] IN
              rec.step = "send" /\ rec.ids = fire[n].ids /\ rec.at = fire[n].at
        BY <1>1 DEF TableTypes, FireTypes, Fires
      <4>2. LET rec == FireAt("send", fire[n].ids, nextID', fire[n].at) IN
              rec.step = "send" /\ rec.ids = fire[n].ids /\ rec.at = fire[n].at
        BY DEF FireAt
      <4>3. fire[n].step = "target"
        BY <3>4 DEF Enter
      <4> QED BY <3>4, <4>1, <4>2, <4>3 DEF Enter
    <3> QED BY <1>8, <3>1, <3>2, <3>3, <3>4
  <2> QED BY <1>1, <2>1, <2>2, <2>3, FireQuota
<1>9. ASSUME NEW n \in Ids, AllowPending(n) \/ AllowSummary(n) PROVE QuotaInv'
  <2>1. UNCHANGED <<now, told, task, notif>> /\ fire[n].step \in {"allow", "quota"}
    BY <1>9 DEF AllowPending, AllowSummary, fireOnly, idVars
  <2>2. CASE FireEnds(n) /\ UNCHANGED <<hist, wsHist>>
    <3>1. IdleFire.step = "none" /\ FireTo(n, IdleFire)
      BY <2>2 DEF IdleFire, FireAt, FireEnds
    <3> QED BY <1>1, <2>1, <2>2, <3>1, FireQuota
  <2>3. ASSUME FireTo(n, FireAt("target", fire[n].ids, fire[n].id, now)),
               \A w \in Workspaces :
                 IF w \in FireWorkspaces(n)
                 THEN Pruned(wsHist[w]) < WorkspaceLimit /\ wsHist'[w] = Counted(wsHist[w])
                 ELSE wsHist'[w] = wsHist[w]
        PROVE  QuotaInv'
    <3> DEFINE rec == FireAt("target", fire[n].ids, fire[n].id, now)
    <3>1. rec.step = "target" /\ rec.ids = fire[n].ids /\ rec.at = now /\ FireTo(n, rec)
      BY <2>3 DEF FireAt
    <3> HIDE DEF rec
    <3>2. fire'[n] = rec
      BY <1>1, <3>1 DEF FireTo, TableTypes, FireTypes
    <3>3. FireWorkspaces(n)' = FireWorkspaces(n)
      BY <1>1, <2>1, <3>1, <3>2, SameWorkspaces
    <3>4. ASSUME NEW w \in Workspaces, NEW t \in 0..MaxTime
          PROVE  Holders(w, t)' \subseteq
                   Holders(w, t) \cup (IF w \in FireWorkspaces(n) /\ t = now THEN {n} ELSE {})
      <4>1. /\ \A x \in (0..MaxIds) \ {n} : x \in Holders(w, t)' <=> x \in Holders(w, t)
            /\ n \in Holders(w, t)' <=>
                 rec.step \in {"target", "send"} /\ w \in FireWorkspaces(n)' /\ rec.at = t
        BY <1>1, <2>1, <3>1, FireHolders
      <4>2. Holders(w, t)' \subseteq 0..MaxIds
        BY DEF Holders
      <4> QED BY <3>1, <3>3, <4>1, <4>2
    <3> QED BY <1>1, <2>1, <2>3, <3>4, QuotaGranted
  <2>4. CASE AllowPending(n)
    <3> DEFINE s == notif[fire[n].id].s
    <3>1. FireWorkspaces(n) = {Workspace[s]}
      BY <2>4 DEF AllowPending, FireInv, Single, FireWorkspaces
    <3>2. CASE Allow(s) /\ FireTo(n, FireAt("target", fire[n].ids, fire[n].id, now))
      <4>1. \A w \in Workspaces :
              IF w \in {Workspace[s]}
              THEN Pruned(wsHist[w]) < WorkspaceLimit /\ wsHist'[w] = Counted(wsHist[w])
              ELSE wsHist'[w] = wsHist[w]
        BY <1>1, <3>2, Granted1
      <4> QED BY <2>3, <3>1, <3>2, <4>1
    <3> QED BY <2>2, <2>4, <3>2 DEF AllowPending
  <2>5. CASE AllowSummary(n)
    <3>1. CASE AllowEvents(fire[n].ids) /\ FireTo(n, FireAt("target", fire[n].ids, fire[n].id, now))
      <4>1. \A w \in Workspaces :
              IF w \in FireWorkspaces(n)
              THEN Pruned(wsHist[w]) < WorkspaceLimit /\ wsHist'[w] = Counted(wsHist[w])
              ELSE wsHist'[w] = wsHist[w]
        BY <1>1, <3>1 DEF AllowEvents, FireWorkspaces
      <4> QED BY <2>3, <3>1, <4>1
    <3> QED BY <2>2, <2>5, <3>1 DEF AllowSummary
  <2> QED BY <1>9, <2>4, <2>5
<1>10. ASSUME NEW n \in Ids, NoTarget(n) \/ Send(n) PROVE QuotaInv'
  <2>1. /\ UNCHANGED <<now, wsHist, task, notif>> /\ fire[n].step \in {"target", "send"}
        /\ FireEnds(n) /\ Tell(FireWorkspaces(n), fire[n].at)
    BY <1>10 DEF NoTarget, Send, fireOnly, idVars
  <2>2. IdleFire.step = "none" /\ FireTo(n, IdleFire)
    BY <2>1 DEF IdleFire, FireAt, FireEnds
  <2>3. ASSUME NEW w \in Workspaces, NEW t \in 0..MaxTime
        PROVE  /\ Holders(w, t)' \subseteq Holders(w, t)
               /\ w \in FireWorkspaces(n) /\ t = fire[n].at =>
                    n \in Holders(w, t) /\ n \notin Holders(w, t)'
    <3>1. /\ \A x \in (0..MaxIds) \ {n} : x \in Holders(w, t)' <=> x \in Holders(w, t)
          /\ n \in Holders(w, t)' <=>
               IdleFire.step \in {"target", "send"} /\ w \in FireWorkspaces(n)' /\ IdleFire.at = t
      BY <1>1, <2>1, <2>2, FireHolders
    <3>2. n \notin Holders(w, t)'
      BY <2>2, <3>1
    <3>3. Holders(w, t)' \subseteq 0..MaxIds
      BY DEF Holders
    <3>4. w \in FireWorkspaces(n) /\ t = fire[n].at => n \in Holders(w, t)
      BY <1>1, <2>1 DEF Holders, Holds, Ids
    <3> QED BY <3>1, <3>2, <3>3, <3>4
  <2> DEFINE ws == FireWorkspaces(n) at == fire[n].at
  <2>4. Tell(ws, at)
    BY <2>1
  <2>5. \A w \in Workspaces, t \in 0..MaxTime :
           /\ Holders(w, t)' \subseteq Holders(w, t)
           /\ w \in ws /\ t = at => n \in Holders(w, t) /\ n \notin Holders(w, t)'
    BY <2>3
  <2> HIDE DEF ws, at
  <2> QED BY <1>1, <2>1, <2>4, <2>5, QuotaTold
<1>11. CASE UNCHANGED <<now, wsHist, told, fire, notif, task>>
  BY <1>1, <1>11, LoopQuota
<1>12. CASE SessionStep \/ SeedPrev
  BY <1>11, <1>12 DEF SessionStep, Report, Appears, MarkRead, Dies, Disappears, Activity,
     SeedPrev, routerVars,
     idVars, limitVars, threadVars
<1>13. ASSUME NEW c \in Clients, \/ Add(c) \/ Remove(c) \/ SetPermission(c) \/ Callback(c)
                                 \/ \E f \in BOOLEAN, s \in Sessions \cup {None} : Update(c, f, s)
       PROVE  UNCHANGED <<now, wsHist, told, fire, notif, task>>
  BY <1>13 DEF Add, Remove, SetPermission, Update, Moved, Callback, CancelAll, CancelForSession,
     routerVars,
     idVars, limitVars
<1>14. ASSUME NEW n \in Ids, Ack(n) \/ Expires(n) PROVE UNCHANGED <<now, wsHist, told, fire, notif, task>>
  BY <1>14 DEF Ack, Expires, fireOnly, idVars, limitVars
<1> QED BY <1>3, <1>4, <1>5, <1>6, <1>7, <1>8, <1>9, <1>10, <1>11, <1>12, <1>13, <1>14
        DEF Next, ClientStep, LoopStep, FireStep

-----------------------------------------------------------------------------
(* Who looks                                                               *)

LEMMA SingleIsSmall == ASSUME NEW n, Several(n) PROVE ~Single(n)
<1>1. Cardinality({fire[n].id}) = 1
  BY FS_Singleton
<1> QED BY <1>1 DEF Several, Single

LEMMA SameSession ==
  ASSUME TableTypes, FireInv, NEW n \in Ids, Single(n),
         \A x \in Ids : x <= nextID => notif'[x].s = notif[x].s
  PROVE  fire[n].id \in Ids /\ notif'[fire[n].id].s = notif[fire[n].id].s
<1>1. fire[n].id \in Ids
  BY DEF Single, TableTypes, FireTypes, Fires
<1> QED BY <1>1 DEF FireInv, Single

LEMMA ViewStep ==
  ASSUME TableTypes, FireInv, ViewInv, NEW n \in Ids, NEW rec, FireTo(n, rec), UNCHANGED <<clients, gaze>>,
         \A x \in Ids : x <= nextID => notif'[x].s = notif[x].s,
         rec.step \in {"allow", "target", "send"} /\ rec.id # 0 /\ rec.ids = {rec.id} =>
           /\ Single(n) /\ rec.id = fire[n].id
           /\ n \in Late \/ \A c \in Clients : ~Views(c, notif[rec.id].s)
  PROVE  ViewInv'
<1> SUFFICES ASSUME NEW m \in Ids, m \in Late', Single(m)', NEW c \in Clients, Views(c, notif[fire[m].id].s)'
             PROVE  m \in gaze'[c]
  BY DEF ViewInv
<1>1. fire'[n] = rec /\ \A x \in Ids \ {n} : fire'[x] = fire[x]
  BY DEF FireTo, TableTypes, FireTypes
<1>2. CASE m = n
  <2>1. /\ Single(n) /\ rec.id = fire[n].id
        /\ n \in Late \/ ~Views(c, notif[rec.id].s)
    BY <1>1, <1>2 DEF Late, Single
  <2>2. notif'[fire[n].id].s = notif[fire[n].id].s
    BY <2>1, SameSession
  <2>3. Views(c, notif[fire[n].id].s)
    BY <1>1, <1>2, <2>1, <2>2 DEF Views
  <2> QED BY <1>2, <2>1, <2>3 DEF ViewInv
<1>3. CASE m # n
  <2>1. m \in Late /\ Single(m) /\ fire'[m] = fire[m]
    BY <1>1, <1>3 DEF Late, Single
  <2>2. notif'[fire[m].id].s = notif[fire[m].id].s
    BY <2>1, SameSession
  <2>3. Views(c, notif[fire[m].id].s)
    BY <2>1, <2>2 DEF Views
  <2> QED BY <2>1, <2>3 DEF ViewInv
<1> QED BY <1>2, <1>3

LEMMA ViewRest ==
  ASSUME TableTypes, FireInv, ViewInv, UNCHANGED <<fire, clients, gaze>>,
         \A x \in Ids : x <= nextID => notif'[x].s = notif[x].s
  PROVE  ViewInv'
<1> SUFFICES ASSUME NEW m \in Ids, m \in Late', Single(m)', NEW c \in Clients, Views(c, notif[fire[m].id].s)'
             PROVE  m \in gaze'[c]
  BY DEF ViewInv
<1>1. m \in Late /\ Single(m)
  BY DEF Late, Single
<1>2. notif'[fire[m].id].s = notif[fire[m].id].s
  BY <1>1, SameSession
<1>3. Views(c, notif[fire[m].id].s)
  BY <1>2 DEF Views
<1> QED BY <1>1, <1>3 DEF ViewInv

LEMMA ViewEnded ==
  ASSUME TableTypes, FireInv, ViewInv, NEW n \in Ids, FireEnds(n), UNCHANGED <<clients, gaze, notif>>
  PROVE  ViewInv'
<1>1. FireTo(n, IdleFire) /\ IdleFire.step = "none"
  BY DEF FireEnds, IdleFire, FireAt
<1> QED BY <1>1, ViewStep

LEMMA ViewKept == ASSUME TypeOK, TimerInv, FireInv, ViewInv, Next PROVE ViewInv'
<1>1. TableTypes /\ TaskTypes /\ MaxIds \in Nat /\ nextID \in Nat
  BY Tables, NotifyAssumption DEF TypeOK, TableTypes, IdTypes
<1>2. ASSUME NEW c \in Clients, \/ Add(c) \/ Remove(c) \/ SetPermission(c)
                                \/ \E f \in BOOLEAN, s \in Sessions \cup {None} : Update(c, f, s)
      PROVE  ViewInv'
  <2>1. UNCHANGED <<fire, notif>> /\ gaze' = [gaze EXCEPT ![c] = Late]
    BY <1>2 DEF Add, Remove, SetPermission, Update, Moved, routerVars, idVars
  <2>2. gaze'[c] = Late /\ \A d \in Clients \ {c} : gaze'[d] = gaze[d]
    BY <2>1 DEF TypeOK, ClientTypes
  <2>3. \A d \in Clients \ {c} : clients'[d] = clients[d]
    BY <1>2 DEF Add, Remove, SetPermission, Update, TypeOK, ClientTypes
  <2> QED BY <2>1, <2>2, <2>3 DEF ViewInv, Late, Single, Views
<1>3. CASE EnterToast \/ Defer \/ Improve
  <2>1. UNCHANGED <<fire, clients, gaze>>
    BY <1>3 DEF EnterToast, Defer, Improve, threadVars, loopOnly, viewVars
  <2>2. \A x \in Ids : x <= nextID => notif'[x].s = notif[x].s
    BY <1>1, <1>3 DEF EnterToast, Defer, Improve, TableTypes, NotifTypes
  <2> QED BY <1>1, <2>1, <2>2, ViewRest
<1>4. ASSUME NEW n \in Ids, TimerFires(n) PROVE ViewInv'
  <2> DEFINE rec == [fire[n] EXCEPT !.step = "start"]
  <2>1. FireTo(n, rec) /\ rec.step = "start" /\ UNCHANGED <<clients, gaze, notif>>
    BY <1>1, <1>4 DEF TimerFires, FireTo, TableTypes, FireTypes, Fires, fireOnly, viewVars
  <2> HIDE DEF rec
  <2> QED BY <1>1, <2>1, ViewStep
<1>5. ASSUME NEW n \in Ids, FirePending(n) PROVE ViewInv'
  <2>1. UNCHANGED <<clients, gaze, notif>>
    BY <1>5 DEF FirePending, fireOnly, viewVars
  <2>2. PICK rec : FireTo(n, rec) /\ rec.step \in {"none", "viewing", "quota"}
    BY <1>5 DEF FirePending, FireEnds, FireAt, IdleFire
  <2> QED BY <1>1, <2>1, <2>2, ViewStep
<1>6. ASSUME NEW n \in Ids, LooksAgain(n) PROVE ViewInv'
  <2>1. UNCHANGED <<clients, gaze, notif>> /\ Single(n)
    BY <1>6 DEF LooksAgain, fireOnly, viewVars, idVars, FireInv
  <2>2. CASE FireEnds(n)
    BY <1>1, <2>1, <2>2, ViewEnded
  <2>3. CASE FireTo(n, [fire[n] EXCEPT !.step = "allow"]) /\ ~AnyViewing(notif[fire[n].id].s)
    <3> DEFINE rec == [fire[n] EXCEPT !.step = "allow"]
    <3>1. FireTo(n, rec) /\ rec.id = fire[n].id
      BY <1>1, <2>3 DEF TableTypes, FireTypes, Fires
    <3>2. \A c \in Clients : ~Views(c, notif[rec.id].s)
      BY <2>3, <3>1 DEF AnyViewing, Views
    <3> HIDE DEF rec
    <3> QED BY <1>1, <2>1, <3>1, <3>2, ViewStep
  <2> QED BY <1>6, <2>2, <2>3 DEF LooksAgain
<1>7. ASSUME NEW n \in Ids, AllowPending(n) \/ AllowSummary(n) PROVE ViewInv'
  <2>1. UNCHANGED <<clients, gaze, notif>>
    BY <1>7 DEF AllowPending, AllowSummary, fireOnly, viewVars, idVars
  <2>2. CASE FireEnds(n)
    BY <1>1, <2>1, <2>2, ViewEnded
  <2>3. CASE FireTo(n, FireAt("target", fire[n].ids, fire[n].id, now))
    <3> DEFINE rec == FireAt("target", fire[n].ids, fire[n].id, now)
    <3>1. FireTo(n, rec) /\ rec.id = fire[n].id /\ rec.ids = fire[n].ids
      BY <2>3 DEF FireAt
    <3>2. fire[n].step = "allow" \/ Several(n)
      BY <1>7 DEF AllowPending, AllowSummary, FireInv
    <3>3. rec.id # 0 /\ rec.ids = {rec.id} => Single(n) /\ n \in Late
      BY <3>1, <3>2, SingleIsSmall DEF Single, Late
    <3> HIDE DEF rec
    <3> QED BY <1>1, <2>1, <3>1, <3>3, ViewStep
  <2> QED BY <1>7, <2>2, <2>3 DEF AllowPending, AllowSummary
<1>8. ASSUME NEW n \in Ids, NoTarget(n) \/ Send(n) PROVE ViewInv'
  BY <1>1, <1>8, ViewEnded DEF NoTarget, Send, fireOnly, viewVars, idVars
<1>9. ASSUME NEW n \in Ids, Enter(n) PROVE ViewInv'
  <2>1. UNCHANGED <<clients, gaze>> /\ n \in Late
    BY <1>9 DEF Enter, fireOnly, viewVars, Late
  <2>2. \A x \in Ids : x <= nextID => notif'[x].s = notif[x].s
    BY <1>1, <1>9 DEF Enter, TableTypes, NotifTypes
  <2>3. PICK rec : /\ FireTo(n, rec) /\ rec.ids = fire[n].ids
                   /\ rec.id = fire[n].id \/ fire[n].id = 0
    <3>1. LET rec == [fire[n] EXCEPT !.step = "send"] IN rec.ids = fire[n].ids /\ rec.id = fire[n].id
      BY <1>1 DEF TableTypes, FireTypes, Fires
    <3>2. LET rec == FireAt("send", fire[n].ids, nextID', fire[n].at) IN rec.ids = fire[n].ids
      BY DEF FireAt
    <3> QED BY <1>9, <3>1, <3>2 DEF Enter
  <2>4. rec.id # 0 /\ rec.ids = {rec.id} => Single(n) /\ rec.id = fire[n].id
    <3>1. CASE rec.id = fire[n].id
      BY <2>3, <3>1 DEF Single
    <3>2. CASE fire[n].id = 0
      <4>1. Several(n)
        BY <1>9, <3>2 DEF Enter, FireInv, Single
      <4>2. Cardinality({rec.id}) = 1
        BY FS_Singleton
      <4> QED BY <2>3, <4>1, <4>2 DEF Several
    <3> QED BY <2>3, <3>1, <3>2
  <2> QED BY <1>1, <2>1, <2>2, <2>3, <2>4, ViewStep
<1>10. CASE UNCHANGED <<fire, clients, gaze, notif>>
  BY <1>1, <1>10, ViewRest
<1>11. CASE \/ SessionStep \/ Ticks \/ SeedPrev \/ HandleEvent \/ LooksForMode \/ AllowInApp \/ NoToast
            \/ PushActivity \/ SendToast
  BY <1>10, <1>11 DEF SessionStep, Report, Appears, MarkRead, Dies, Disappears, Activity, Ticks,
     SeedPrev,
     HandleEvent, LooksForMode, AllowInApp, NoToast, SendToast, PushActivity, routerVars,
     threadVars, idVars,
     viewVars, loopOnly
<1>12. ASSUME NEW c \in Clients, Callback(c) PROVE UNCHANGED <<fire, clients, gaze, notif>>
  BY <1>12 DEF Callback, CancelAll, CancelForSession
<1>13. ASSUME NEW n \in Ids, Ack(n) \/ Expires(n) PROVE UNCHANGED <<fire, clients, gaze, notif>>
  BY <1>13 DEF Ack, Expires, fireOnly, idVars, viewVars
<1> QED BY <1>2, <1>3, <1>4, <1>5, <1>6, <1>7, <1>8, <1>9, <1>10, <1>11, <1>12, <1>13
        DEF Next, ClientStep, LoopStep, FireStep

-----------------------------------------------------------------------------
(* What the router knows                                                   *)

LEMMA KnownAppended ==
  ASSUME StoreTypes, NEW s \in Sessions, Known(s), NEW ev \in Events, events' = Append(events, ev),
         UNCHANGED prev, sess'[s] \in {None} \cup Attention, NEW d \in {0, 1},
         Leads(ev, s, sess[s], sess'[s], d, 0), real'[s] = real[s] + d
  PROVE  Known(s)'
<1> DEFINE n == Len(events)
<1>1. /\ n \in Nat /\ events \in Seq(Events) /\ Len(events') = n + 1 /\ events'[n + 1] = ev
      /\ \A k \in 1..n : events'[k] = events[k]
  BY AppendProperties, LenProperties DEF StoreTypes
<1>2. PICK st \in [0..n -> {None} \cup Attention], rem \in [0..n -> Nat] : Path(s, st, rem)
  BY DEF Known
<1> DEFINE st2 == [k \in 0..(n + 1) |-> IF k <= n THEN st[k] ELSE sess'[s]]
           rem2 == [k \in 0..(n + 1) |-> IF k <= n THEN rem[k] + d ELSE rem[n]]
<1>3. st2 \in [0..(n + 1) -> {None} \cup Attention] /\ rem2 \in [0..(n + 1) -> Nat]
  <2>1. 0 \in 0..n /\ n \in 0..n
    BY <1>1
  <2> QED BY <1>1, <2>1
<1>4. /\ st2[0] = prev[s] /\ st2[n + 1] = sess'[s] /\ rem2[0] <= real'[s]
  <2>1. st[0] = prev[s] /\ rem[0] <= real[s] /\ rem[0] \in Nat /\ real[s] \in Nat
    <3>1. st[0] = prev[s] /\ rem[0] <= real[s]
      BY <1>2 DEF Path
    <3>2. 0 \in 0..n
      BY <1>1
    <3>3. rem[0] \in Nat /\ real[s] \in Nat
      BY <1>2, <3>2 DEF StoreTypes
    <3> QED BY <3>1, <3>3
  <2>2. st2[0] = st[0] /\ rem2[0] = rem[0] + d /\ st2[n + 1] = sess'[s]
    BY <1>1
  <2> HIDE DEF st2, rem2
  <2> QED BY <2>1, <2>2
<1>5. ASSUME NEW k \in 1..(n + 1)
      PROVE  Leads(events'[k], s, st2[k - 1], st2[k], rem2[k - 1], rem2[k])
  <2>1. CASE k \in 1..n
    <3>1. Leads(events[k], s, st[k - 1], st[k], rem[k - 1], rem[k])
      BY <1>2, <2>1 DEF Path
    <3>2. /\ st2[k - 1] = st[k - 1] /\ st2[k] = st[k] /\ events'[k] = events[k]
          /\ rem2[k - 1] = rem[k - 1] + d /\ rem2[k] = rem[k] + d
      BY <1>1, <2>1
    <3> HIDE DEF st2, rem2
    <3>3. rem[k - 1] \in Nat /\ rem[k] \in Nat
      <4>1. k - 1 \in 0..n /\ k \in 0..n
        BY <1>1, <2>1
      <4> QED BY <4>1
    <3> QED BY <3>1, <3>2, <3>3 DEF Leads
  <2>2. CASE k = n + 1
    <3>1. st2[k - 1] = st[n] /\ st2[k] = sess'[s] /\ rem2[k - 1] = rem[n] + d /\ rem2[k] = rem[n]
      BY <1>1, <2>2
    <3>2. st[n] = sess[s] /\ rem[n] \in Nat /\ events'[k] = ev
      BY <1>1, <1>2, <2>2 DEF Path
    <3> HIDE DEF st2, rem2
    <3> QED BY <3>1, <3>2 DEF Leads
  <2> QED BY <1>1, <2>1, <2>2
<1> HIDE DEF st2, rem2
<1>6. PICK f \in [0..(n + 1) -> {None} \cup Attention], g \in [0..(n + 1) -> Nat] : f = st2 /\ g = rem2
  BY <1>3
<1>7. Path(s, f, g)'
  BY <1>1, <1>4, <1>5, <1>6 DEF Path
<1> QED BY <1>1, <1>6, <1>7 DEF Known

LEMMA KnownUnchanged ==
  ASSUME NEW s, Known(s), UNCHANGED <<events, prev>>, sess'[s] = sess[s], real'[s] = real[s]
  PROVE  Known(s)'
<1>1. PICK st \in [0..Len(events) -> {None} \cup Attention], rem \in [0..Len(events) -> Nat] :
        Path(s, st, rem)
  BY DEF Known
<1>2. Path(s, st, rem)'
  BY <1>1 DEF Path
<1>3. Len(events') = Len(events)
  OBVIOUS
<1> QED BY <1>2, <1>3 DEF Known

(* A change of the store, on its way to the router.                        *)
LEMMA TruthAnnounced ==
  ASSUME StoreTypes, StoreTypes', TruthInv, UNCHANGED <<phase, prev, phantom>>,
         NEW ev \in Events, Announce(ev), ev.type = "remove" => ev.cur = None,
         \A s \in Sessions \ {ev.s} : sess'[s] = sess[s] /\ real'[s] = real[s],
         NEW d \in {0, 1}, Leads(ev, ev.s, sess[ev.s], sess'[ev.s], d, 0), real'[ev.s] = real[ev.s] + d
  PROVE  TruthInv'
<1>1. /\ blind \subseteq blind' /\ blind' \subseteq blind \cup {ev.s} /\ Len(events) \in Nat
      /\ events \in Seq(Events) /\ ChanCap \in Nat /\ Len(events) <= ChanCap
  BY NotifyAssumption, LenProperties DEF Announce, StoreTypes
<1>2. /\ Len(Append(events, ev)) = Len(events) + 1 /\ Append(events, ev)[Len(events) + 1] = ev
      /\ \A k \in 1..Len(events) : Append(events, ev)[k] = events[k]
  BY <1>1, AppendProperties
<1>3. CASE Len(events) = ChanCap
  <2>1. UNCHANGED events /\ ev.s \in blind'
    BY <1>1, <1>3 DEF Announce
  <2>2. \A s \in Sessions \ blind' : phase' = "listed" => Known(s)'
    BY <1>1, <2>1, KnownUnchanged DEF TruthInv
  <2> QED BY <1>1, <2>1, <2>2 DEF TruthInv
<1>4. CASE Len(events) # ChanCap
  <2>1. events' = Append(events, ev)
    BY <1>1, <1>4 DEF Announce
  <2>2. \A k \in 1..Len(events') : events'[k].type = "remove" => events'[k].cur = None
    BY <1>1, <1>2, <2>1 DEF TruthInv
  <2>3. phase' = "subscribed" => \A k \in 1..Len(events') : events'[k].s \in blind'
    <3>1. phase = "subscribed" => ev.s \in blind'
      BY DEF Announce
    <3> QED BY <1>1, <1>2, <2>1, <3>1 DEF TruthInv
  <2>4. ASSUME phase' = "listed", NEW s \in Sessions \ blind' PROVE Known(s)'
    <3>1. Known(s)
      BY <1>1, <2>4 DEF TruthInv
    <3>2. CASE s = ev.s
      <4>1. sess'[s] \in {None} \cup Attention
        BY DEF StoreTypes
      <4> QED BY <2>1, <3>1, <3>2, <4>1, KnownAppended
    <3>3. CASE s # ev.s
      <4>1. sess'[s] = sess[s] /\ sess'[s] \in {None} \cup Attention /\ real'[s] = real[s] /\ real[s] \in Nat
        BY <3>3 DEF StoreTypes
      <4> DEFINE e == 0
      <4>2. Leads(ev, s, sess[s], sess'[s], e, 0) /\ real'[s] = real[s] + e /\ e \in {0, 1}
        BY <3>3, <4>1 DEF Leads
      <4> HIDE DEF e
      <4> QED BY <2>1, <3>1, <4>1, <4>2, KnownAppended
    <3> QED BY <3>2, <3>3
  <2> QED BY <1>1, <2>2, <2>3, <2>4 DEF TruthInv
<1> QED BY <1>3, <1>4

LEMMA TruthPut ==
  ASSUME StoreTypes, StoreTypes', TruthInv, NEW s \in Sessions, NEW a \in Attention, Put(s, a),
         UNCHANGED <<phase, prev, phantom>>
  PROVE  TruthInv'
<1> DEFINE ev == [type |-> "upsert", s |-> s, cur |-> a]
           d == IF Finishes(s, a) THEN 1 ELSE 0
<1>1. ev \in Events /\ ev.type # "remove" /\ ev.s = s /\ Announce(ev)
  BY DEF Events, Put
<1>2. /\ \A x \in Sessions \ {s} : sess'[x] = sess[x] /\ real'[x] = real[x]
      /\ sess'[s] = a /\ real'[s] = real[s] + d /\ d \in {0, 1}
  BY DEF Put, StoreTypes
<1>3. Leads(ev, s, sess[s], sess'[s], d, 0)
  BY <1>2 DEF Leads, Finishes, Ends
<1> HIDE DEF ev, d
<1> QED BY <1>1, <1>2, <1>3, TruthAnnounced

LEMMA KnownSeeded ==
  ASSUME StoreTypes, NEW s \in Sessions, UNCHANGED events, prev' = sess, UNCHANGED <<sess, real>>,
         \A k \in 1..Len(events) : events[k].s # s
  PROVE  Known(s)'
<1>1. Len(events) \in Nat /\ sess[s] \in {None} \cup Attention /\ real[s] \in Nat
  BY LenProperties DEF StoreTypes
<1> DEFINE n == Len(events)
<1>2. PICK f \in [0..n -> {None} \cup Attention], g \in [0..n -> Nat] :
        f = [k \in 0..n |-> sess[s]] /\ g = [k \in 0..n |-> 0]
  BY <1>1
<1>3. f[0] = sess[s] /\ f[n] = sess[s] /\ g[0] = 0
  BY <1>1, <1>2
<1>4. ASSUME NEW k \in 1..n PROVE Leads(events[k], s, f[k - 1], f[k], g[k - 1], g[k])
  BY <1>1, <1>2, <1>4 DEF Leads
<1>5. Path(s, f, g)'
  BY <1>1, <1>3, <1>4 DEF Path
<1> QED BY <1>5 DEF Known

(* The router takes the first event.                                       *)
LEMMA KnownHandled ==
  ASSUME StoreTypes, NEW s \in Sessions, events # <<>>, events' = Tail(events), UNCHANGED sess,
         NEW st \in [0..Len(events) -> {None} \cup Attention], NEW rem \in [0..Len(events) -> Nat],
         Path(s, st, rem), prev'[s] = st[1], rem[1] <= real'[s]
  PROVE  Known(s)'
<1> DEFINE n == Len(events) - 1
<1>1. /\ Len(events) = n + 1 /\ n \in Nat /\ Len(events') = n
      /\ \A k \in 1..n : events'[k] = events[k + 1]
  BY LenProperties, HeadTailProperties, EmptySeq DEF StoreTypes
<1> HIDE DEF n
<1>2. PICK f \in [0..n -> {None} \cup Attention], g \in [0..n -> Nat] :
        f = [k \in 0..n |-> st[k + 1]] /\ g = [k \in 0..n |-> rem[k + 1]]
  <2>1. \A k \in 0..n : k + 1 \in 0..Len(events)
    BY <1>1
  <2> QED BY <2>1
<1>3. f[0] = prev'[s] /\ f[n] = sess[s] /\ g[0] <= real'[s]
  <2>1. f[0] = st[1] /\ g[0] = rem[1] /\ f[n] = st[n + 1]
    BY <1>1, <1>2
  <2> QED BY <1>1, <2>1 DEF Path
<1>4. ASSUME NEW k \in 1..n PROVE Leads(events'[k], s, f[k - 1], f[k], g[k - 1], g[k])
  <2>1. k + 1 \in 1..Len(events) /\ (k + 1) - 1 = k
    BY <1>1
  <2>2. Leads(events[k + 1], s, st[k], st[k + 1], rem[k], rem[k + 1])
    BY <2>1 DEF Path
  <2>3. f[k - 1] = st[k] /\ g[k - 1] = rem[k] /\ f[k] = st[k + 1] /\ g[k] = rem[k + 1]
    BY <1>1, <1>2
  <2> QED BY <1>1, <2>2, <2>3
<1>5. Path(s, f, g)'
  BY <1>1, <1>3, <1>4 DEF Path
<1> QED BY <1>1, <1>5 DEF Known

LEMMA IntentsHead ==
  ASSUME NEW old, NEW cur
  PROVE  (Intents(old, cur) # <<>> /\ Head(Intents(old, cur)) = "finished")
           <=> (old.working /\ ~cur.working /\ cur.alive)
<1> DEFINE x == IF ~old.unread /\ cur.unread THEN <<"unread">> ELSE <<>>
<1>1. x \in Seq({"unread"}) /\ x \in {<<>>, <<"unread">>}
  <2>1. <<"unread">> \in Seq({"unread"}) /\ <<>> \in Seq({"unread"})
    BY EmptySeq
  <2> QED BY <2>1
<1> HIDE DEF x
<1>2. CASE old.working /\ ~cur.working /\ cur.alive
  <2>1. Intents(old, cur) = <<"finished">> \o x
    BY <1>2 DEF Intents, x
  <2>2. x \in Seq({"unread", "finished"}) /\ <<"finished">> \in Seq({"unread", "finished"})
    BY <1>1
  <2>3. Len(<<"finished">> \o x) = 1 + Len(x) /\ (<<"finished">> \o x)[1] = "finished" /\ Len(x) \in Nat
    BY <2>2, ConcatProperties, LenProperties
  <2>4. <<"finished">> \o x \in Seq({"unread", "finished"})
    BY <2>2, ConcatProperties
  <2> QED BY <1>2, <2>1, <2>3, <2>4, HeadTailProperties, EmptySeq
<1>3. CASE ~(old.working /\ ~cur.working /\ cur.alive)
  <2>1. Intents(old, cur) = <<>> \o x
    BY <1>3 DEF Intents, x
  <2>2. <<>> \o x = x
    BY <1>1, ConcatEmptySeq
  <2>3. Head(<<"unread">>) # "finished"
    OBVIOUS
  <2> QED BY <1>1, <1>3, <2>1, <2>2, <2>3
<1> QED BY <1>2, <1>3

LEMMA TruthKept == ASSUME TypeOK, TruthInv, Next, TypeOK' PROVE TruthInv'
<1>1. StoreTypes /\ StoreTypes'
  BY DEF TypeOK
<1>2. ASSUME NEW s \in Sessions, NEW st, NEW u \in BOOLEAN, Report(s, st, u) PROVE TruthInv'
  <2>1. sess[s] \in Attention
    BY <1>1, <1>2 DEF Report, StoreTypes
  <2>2. ApplyUnread(ApplyStatus(sess[s], st), u) \in Attention
    BY <2>1, NewAttention
  <2>3. Put(s, ApplyUnread(ApplyStatus(sess[s], st), u)) /\ UNCHANGED <<phase, prev, phantom>>
    BY <1>2 DEF Report, routerVars
  <2> QED BY <1>1, <2>2, <2>3, TruthPut
<1>3. ASSUME NEW s \in Sessions, Appears(s) PROVE TruthInv'
  <2>1. PICK w \in BOOLEAN : Put(s, [working |-> w, error |-> FALSE, unread |-> FALSE, alive |-> TRUE])
    BY <1>3 DEF Appears
  <2>2. [working |-> w, error |-> FALSE, unread |-> FALSE, alive |-> TRUE] \in Attention
    BY DEF Attention
  <2>3. UNCHANGED <<phase, prev, phantom>>
    BY <1>3 DEF Appears, routerVars
  <2> QED BY <1>1, <2>1, <2>2, <2>3, TruthPut
<1>4. ASSUME NEW s \in Sessions, MarkRead(s) PROVE TruthInv'
  <2>1. sess[s] \in Attention
    BY <1>1, <1>4 DEF MarkRead, StoreTypes
  <2>2. MarkAttentionRead(sess[s]) \in Attention
    BY <2>1, NewAttention DEF MarkAttentionRead
  <2>3. Put(s, MarkAttentionRead(sess[s])) /\ UNCHANGED <<phase, prev, phantom>>
    BY <1>4 DEF MarkRead, routerVars
  <2> QED BY <1>1, <2>2, <2>3, TruthPut
<1>5. ASSUME NEW s \in Sessions, Dies(s) PROVE TruthInv'
  <2> DEFINE a == [sess[s] EXCEPT !.alive = FALSE, !.working = FALSE, !.error = FALSE]
  <2>1. sess[s] \in Attention
    BY <1>1, <1>5 DEF Dies, StoreTypes
  <2>2. a \in Attention
    BY <2>1 DEF Attention
  <2>3. Put(s, a) /\ UNCHANGED <<phase, prev, phantom>>
    BY <1>5 DEF Dies, routerVars
  <2> QED BY <1>1, <2>2, <2>3, TruthPut
<1>6. ASSUME NEW s \in Sessions, Disappears(s) \/ Activity(s) PROVE TruthInv'
  <2>1. PICK t \in {"remove", "activity"} :
          /\ Announce([type |-> t, s |-> s, cur |-> None])
          /\ t = "remove" => sess'[s] = None
          /\ t = "activity" => sess'[s] = sess[s]
    BY <1>1, <1>6 DEF Disappears, Activity, StoreTypes
  <2> DEFINE ev == [type |-> t, s |-> s, cur |-> None]
             d == 0
  <2>2. ev \in Events /\ ev.s = s /\ ev.cur = None /\ ev.type = t /\ d \in {0, 1}
    BY DEF Events
  <2>3. UNCHANGED <<phase, prev, phantom, real>> /\ \A x \in Sessions \ {s} : sess'[x] = sess[x]
    BY <1>1, <1>6 DEF Disappears, Activity, routerVars, StoreTypes
  <2>4. Leads(ev, s, sess[s], sess'[s], d, 0) /\ real'[s] = real[s] + d
    BY <1>1, <2>1, <2>2, <2>3 DEF Leads, StoreTypes
  <2>5. Announce(ev)
    BY <2>1
  <2> HIDE DEF ev, d
  <2> QED BY <1>1, <2>2, <2>3, <2>4, <2>5, TruthAnnounced
<1>7. CASE SeedPrev
  <2>1. /\ UNCHANGED <<events, sess, real, blind, phantom>> /\ prev' = sess /\ phase' = "listed"
        /\ phase = "subscribed"
    BY <1>7 DEF SeedPrev, storeVars
  <2>2. ASSUME NEW s \in Sessions \ blind PROVE Known(s)'
    BY <1>1, <2>1, KnownSeeded DEF TruthInv
  <2> QED BY <2>1, <2>2 DEF TruthInv
<1>8. CASE HandleEvent
  <2> DEFINE ev == Head(events)
  <2>1. /\ events # <<>> /\ events' = Tail(events) /\ UNCHANGED <<sess, blind, phase>>
        /\ phase = "listed"
    BY <1>8 DEF HandleEvent
  <2>2. /\ ev = events[1] /\ ev \in Events /\ Len(events) \in Nat /\ Len(events) >= 1
        /\ Len(events') = Len(events) - 1 /\ \A k \in 1..Len(events') : events'[k] = events[k + 1]
    BY <1>1, <2>1, HeadTailProperties, LenProperties, EmptySeq DEF StoreTypes
  <2>3. ev.s \in Sessions /\ (ev.type = "remove" => ev.cur = None)
    BY <2>2 DEF Events, TruthInv
  <2> HIDE DEF ev
  <2>4. \A k \in 1..Len(events') : events'[k].type = "remove" => events'[k].cur = None
    BY <2>2 DEF TruthInv
  <2> DEFINE ends == ev.type = "upsert" /\ Ends(prev[ev.s], ev.cur)
  <2>5. /\ phantom' = phantom \/ (ends /\ real[ev.s] = 0 /\ phantom' = phantom \cup {ev.s})
        /\ \A x \in Sessions \ {ev.s} : prev'[x] = prev[x] /\ real'[x] = real[x]
        /\ prev'[ev.s] = IF ev.type = "activity" THEN prev[ev.s] ELSE ev.cur
        /\ real'[ev.s] = IF ends /\ real[ev.s] > 0 THEN real[ev.s] - 1 ELSE real[ev.s]
    <3>1. CASE ev.type = "upsert" /\ HandleUpsert(ev)
      <4> DEFINE todo == IF prev[ev.s] = None THEN <<>> ELSE Intents(prev[ev.s], ev.cur)
                 told1 == todo # <<>> /\ Head(todo) = "finished"
      <4>1. told1 <=> ends
        BY <3>1, IntentsHead DEF Ends
      <4>2. /\ prev' = [prev EXCEPT ![ev.s] = ev.cur]
            /\ real' = [real EXCEPT ![ev.s] = IF told1 /\ @ > 0 THEN @ - 1 ELSE @]
            /\ phantom' = IF told1 /\ real[ev.s] = 0 THEN phantom \cup {ev.s} ELSE phantom
        BY <3>1 DEF HandleUpsert
      <4> HIDE DEF told1, ends
      <4> QED BY <1>1, <2>3, <3>1, <4>1, <4>2 DEF StoreTypes
    <3>2. CASE ev.type = "remove" /\ HandleRemove(ev)
      BY <1>1, <2>3, <3>2 DEF HandleRemove, StoreTypes
    <3>3. CASE ev.type = "activity" /\ HandleActivity(ev)
      BY <1>1, <2>3, <3>3 DEF HandleActivity, StoreTypes
    <3> QED BY <1>8, <3>1, <3>2, <3>3 DEF HandleEvent, ev
  <2>6. ASSUME NEW s \in Sessions \ blind
        PROVE  Known(s)' /\ (s = ev.s /\ ends => real[s] > 0)
    <3>1. PICK st \in [0..Len(events) -> {None} \cup Attention], rem \in [0..Len(events) -> Nat] :
            Path(s, st, rem)
      BY <2>1 DEF TruthInv, Known
    <3>2. Leads(ev, s, prev[s], st[1], rem[0], rem[1]) /\ rem[0] <= real[s]
      <4>1. 1 \in 1..Len(events) /\ 1 - 1 = 0
        BY <2>2
      <4> QED BY <2>2, <3>1, <4>1 DEF Path
    <3>3. rem[0] \in Nat /\ rem[1] \in Nat /\ real[s] \in Nat
      <4>1. 0 \in 0..Len(events) /\ 1 \in 0..Len(events)
        BY <2>2
      <4> QED BY <1>1, <4>1 DEF StoreTypes
    <3>4. (s = ev.s /\ ends => real[s] > 0) /\ prev'[s] = st[1] /\ rem[1] <= real'[s]
      <4>1. CASE s # ev.s
        BY <2>5, <3>2, <3>3, <4>1 DEF Leads
      <4>2. CASE s = ev.s /\ ends
        BY <2>5, <3>2, <3>3, <4>2 DEF Leads
      <4>3. CASE s = ev.s /\ ~ends
        BY <2>5, <3>2, <3>3, <4>3 DEF Leads
      <4> QED BY <4>1, <4>2, <4>3
    <3> QED BY <1>1, <2>1, <3>1, <3>4, KnownHandled
  <2>7. phantom' \subseteq blind
    BY <2>3, <2>5, <2>6 DEF TruthInv
  <2> QED BY <2>1, <2>4, <2>6, <2>7 DEF TruthInv
<1>9. CASE UNCHANGED <<storeVars, phase, prev, phantom>>
  BY <1>9 DEF TruthInv, storeVars, Known, Path
<1>10. ASSUME NEW c \in Clients, \/ Add(c) \/ Remove(c) \/ SetPermission(c) \/ Callback(c)
                                 \/ \E f \in BOOLEAN, s \in Sessions \cup {None} : Update(c, f, s)
       PROVE  UNCHANGED <<storeVars, phase, prev, phantom>>
  BY <1>10 DEF Add, Remove, SetPermission, Update, Moved, Callback, CancelAll, CancelForSession,
     routerVars
<1>11. CASE \/ LooksForMode \/ AllowInApp \/ NoToast \/ EnterToast \/ SendToast \/ Improve \/ Defer
            \/ PushActivity \/ Ticks
  BY <1>9, <1>11 DEF LooksForMode, AllowInApp, NoToast, EnterToast, SendToast, Improve, Defer,
     PushActivity,
     Ticks, loopOnly, routerVars
<1>12. ASSUME NEW n \in Ids, Ack(n) \/ FireStep(n) PROVE UNCHANGED <<storeVars, phase, prev, phantom>>
  BY <1>12 DEF Ack, FireStep, TimerFires, FirePending, LooksAgain, AllowPending, AllowSummary,
     NoTarget,
     Enter, Send, Expires, fireOnly
<1>13. \A r \in Reports : r[2] \in BOOLEAN
  BY NotifyAssumption
<1> QED BY <1>2, <1>3, <1>4, <1>5, <1>6, <1>7, <1>8, <1>9, <1>10, <1>11, <1>12, <1>13
        DEF Next, SessionStep, ClientStep, LoopStep

-----------------------------------------------------------------------------
(* The invariant holds                                                     *)

LEMMA InitTyped == Init => TypeOK
<1> SUFFICES ASSUME Init PROVE TypeOK
  OBVIOUS
<1>1. /\ 0 \in 0..MaxIds /\ 0 \in 0..MaxTime /\ <<>> \in Seq(Events) /\ Len(<<>>) <= ChanCap
      /\ <<>> \in Seq(Calls) /\ -1 \in Int
  BY NotifyAssumption, EmptySeq
<1>2. NoHistory \in Histories /\ IdleTask.step = "idle" /\ IdleTask \in Tasks /\ IdleFire \in Fires
  BY IdleTaskTypes DEF NoHistory, Histories
<1>3. StoreTypes
  <2>1. [working |-> TRUE, error |-> FALSE, unread |-> FALSE, alive |-> TRUE] \in Attention
    BY DEF Attention
  <2> QED BY <1>1, <2>1 DEF Init, StoreTypes
<1>4. ClientTypes
  <2>1. [granted : BOOLEAN, focused : BOOLEAN, sel : {None}]
          \subseteq [granted : BOOLEAN, focused : BOOLEAN, sel : Sessions \cup {None}]
    OBVIOUS
  <2>2. clients \in [Clients -> {None} \cup [granted : BOOLEAN, focused : BOOLEAN, sel : Sessions \cup {None}]]
    <3>1. clients \in [Clients -> {None} \cup [granted : BOOLEAN, focused : BOOLEAN, sel : {None}]]
      BY DEF Init
    <3> QED BY <2>1, <3>1
  <2> QED BY <1>1, <2>2 DEF Init, ClientTypes
<1>5. LoopTypes
  <2>1. IdleFire.step = "none"
    BY DEF IdleFire, FireAt
  <2> QED BY <1>1, <1>2, <2>1 DEF Init, LoopTypes
<1>6. LimitTypes
  BY <1>1, <1>2 DEF Init, LimitTypes
<1> QED BY <1>3, <1>4, <1>5, <1>6 DEF TypeOK

LEMMA InitInv == Init => NotifyInv
<1> SUFFICES ASSUME Init PROVE NotifyInv
  OBVIOUS
<1>1. TypeOK
  BY InitTyped
<1>2. /\ \A n \in Ids : fire[n] = IdleFire /\ timer[n] = "none"
      /\ IdleFire.step = "none" /\ IdleFire.ids = {} /\ IdleTask.step = "idle"
  BY DEF Init, IdleFire, FireAt, IdleTask, TaskAt
<1>3. PendingInv /\ TimerInv /\ FireInv /\ ActiveInv
  BY <1>2 DEF Init, PendingInv, TimerInv, FireInv, ActiveInv
<1>4. QuotaInv
  <2>1. ASSUME NEW w \in Workspaces
        PROVE  wsHist[w].at = -1 /\ Pruned(wsHist[w]) = 0 /\ now = 0
    BY DEF Init, NoHistory, Pruned
  <2>2. \A w, t : Holders(w, t) = {}
    BY <1>2 DEF Init, Holders, Holds
  <2>3. ASSUME NEW w \in Workspaces, NEW t \in 0..MaxTime
        PROVE  told[w][t] + Cardinality(Holders(w, t)) <= Allowed(w, t)
    <3>1. told[w][t] = 0 /\ Cardinality(Holders(w, t)) = 0
      BY <2>2, FS_EmptySet DEF Init
    <3>2. Allowed(w, t) = 0
      BY <2>1 DEF Allowed
    <3> QED BY <3>1, <3>2
  <2> QED BY <2>1, <2>3, NotifyAssumption DEF QuotaInv
<1>5. ViewInv
  BY <1>2 DEF ViewInv, Late
<1>6. TruthInv
  BY DEF Init, TruthInv
<1> QED BY <1>1, <1>3, <1>4, <1>5, <1>6 DEF NotifyInv

LEMMA StutterInv == NotifyInv /\ UNCHANGED vars => NotifyInv'
<1> SUFFICES ASSUME NotifyInv, UNCHANGED vars PROVE NotifyInv'
  OBVIOUS
<1> USE DEF vars, storeVars, idVars, limitVars, viewVars
<1>1. TypeOK'
  BY DEF NotifyInv, TypeOK, StoreTypes, ClientTypes, LoopTypes, LimitTypes
<1>2. PendingInv' /\ TimerInv' /\ FireInv' /\ ActiveInv'
  BY DEF NotifyInv, PendingInv, TimerInv, FireInv, Single, Several, ActiveInv, Sending
<1>3. QuotaInv'
  <2>1. \A w, t : Holders(w, t)' = Holders(w, t)
    BY DEF Holders, Holds, FireWorkspaces
  <2> QED BY <2>1 DEF NotifyInv, QuotaInv, Allowed, Pruned
<1>4. ViewInv'
  BY DEF NotifyInv, ViewInv, Late, Single, Views
<1>5. TruthInv'
  BY DEF NotifyInv, TruthInv, Known, Path
<1> QED BY <1>1, <1>2, <1>3, <1>4, <1>5 DEF NotifyInv

LEMMA NextInv == NotifyInv /\ Next => NotifyInv'
<1> SUFFICES ASSUME NotifyInv, Next PROVE NotifyInv'
  OBVIOUS
<1>1. TypeOK'
  BY TypesKept DEF NotifyInv
<1>2. PendingInv' /\ TimerInv'
  BY IdsKept DEF NotifyInv
<1>3. FireInv' /\ ActiveInv'
  BY FireKept, ActiveKept DEF NotifyInv
<1>4. QuotaInv'
  BY <1>1, QuotaKept DEF NotifyInv
<1>5. ViewInv'
  BY ViewKept DEF NotifyInv
<1>6. TruthInv'
  BY <1>1, TruthKept DEF NotifyInv
<1> QED BY <1>1, <1>2, <1>3, <1>4, <1>5, <1>6 DEF NotifyInv

-----------------------------------------------------------------------------
(* The theorems                                                            *)

(* The inductive invariant of router, presence table and limits.           *)
THEOREM NotifyInvHolds == Spec => []NotifyInv
<1>1. NotifyInv /\ [Next]_vars => NotifyInv'
  BY NextInv, StutterInv
<1> QED BY <1>1, InitInv, PTL DEF Spec

(* Every variable keeps its type, and the router's channel its capacity.   *)
THEOREM NotifyTypesHold == Spec => []TypeOK
<1>1. NotifyInv => TypeOK
  BY DEF NotifyInv
<1> QED BY <1>1, NotifyInvHolds, PTL

(* A task is told to have finished only when it has, whatever is reported, *)
(* removed and brought back, except where the router was blind.            *)
THEOREM TheToldIsTrue == Spec => []FinishIsReal
<1>1. NotifyInv => FinishIsReal
  BY DEF NotifyInv, TruthInv, FinishIsReal
<1> QED BY <1>1, NotifyInvHolds, PTL

(* A workspace is told of at most WorkspaceLimit times in one window.      *)
THEOREM WorkspaceQuotaHolds == Spec => []WorkspaceQuota
<1>1. ASSUME NotifyInv PROVE WorkspaceQuota
  <2> SUFFICES ASSUME NEW w \in Workspaces, NEW t \in 0..MaxTime PROVE told[w][t] <= WorkspaceLimit
    BY DEF WorkspaceQuota
  <2>1. /\ told[w][t] \in Nat /\ Cardinality(Holders(w, t)) \in Nat /\ WorkspaceLimit \in Nat
        /\ Pruned(wsHist[w]) \in Nat /\ now \in Nat
    BY <1>1, HoldersFinite, CountedTypes, NotifyAssumption DEF NotifyInv, TypeOK, LimitTypes
  <2>2. /\ told[w][t] + Cardinality(Holders(w, t)) <= Allowed(w, t)
        /\ Pruned(wsHist[w]) <= WorkspaceLimit
    BY <1>1 DEF NotifyInv, QuotaInv
  <2>3. Allowed(w, t) <= WorkspaceLimit /\ Allowed(w, t) \in Nat
    BY <2>1, <2>2 DEF Allowed
  <2> QED BY <2>1, <2>2, <2>3
<1> QED BY <1>1, NotifyInvHolds, PTL

(* Neither table keeps an entry for good.                                  *)
THEOREM NothingLingersHolds == Spec => []NothingLingers
<1>1. NotifyInv => NothingLingers
  BY DEF NotifyInv, PendingInv, ActiveInv, NothingLingers
<1> QED BY <1>1, NotifyInvHolds, PTL

(* No notification of the system goes out for a session that a client has  *)
(* been viewing since before the second look.                              *)
THEOREM TheViewedIsNotTold == Spec => NotWhileViewed
<1> DEFINE Unseen ==
      \A n \in Ids : Sent(n) /\ Cardinality(fire[n].ids) = 1 =>
        \A c \in Clients :
          clients[c] # None /\ clients[c].focused /\ clients[c].sel = notif[fire[n].id].s
            => n \in gaze[c]
<1>1. ASSUME NotifyInv PROVE Unseen
  <2> SUFFICES ASSUME NEW n \in Ids, Sent(n), Cardinality(fire[n].ids) = 1
               PROVE  \A c \in Clients :
                        clients[c] # None /\ clients[c].focused /\ clients[c].sel = notif[fire[n].id].s
                          => n \in gaze[c]
    OBVIOUS
  <2>1. n \in Late /\ Single(n)
    BY <1>1 DEF Sent, Late, NotifyInv, FireInv, Several
  <2> QED BY <1>1, <2>1 DEF NotifyInv, ViewInv, Views
<1>2. NotifyInv => [Unseen]_vars
  BY <1>1
<1>3. Spec => [][Unseen]_vars
  BY <1>2, NotifyInvHolds, PTL
<1> QED BY <1>3 DEF NotWhileViewed
=============================================================================
