------------------------------- MODULE Notify -------------------------------
(***************************************************************************)
(* Notifications (services/jumpd/internal/notify, presence, and the        *)
(* attention part of store): the router follows the store's events, tells  *)
(* the browsers of finished tasks and new output, at once when jump is     *)
(* focused and after a grace period otherwise, within the limits of a      *)
(* session and of a workspace; the presence table says who looks where and *)
(* cancels what the user has come to see.                                  *)
(*                                                                         *)
(* Threads: the router's loop, one timer goroutine per grace period, one   *)
(* handler per browser.  A window of the limits is one tick of now.        *)
(***************************************************************************)
EXTENDS Integers, Sequences, FiniteSets

CONSTANTS
  Sessions, Clients, None,
  Reports,        \* pairs of a status and unread, as runners and adapters report
  Workspace,      \* the workspace of each session
  CoalesceAt,     \* pending notifications that make a summary (3 in the code)
  SessionLimit, WorkspaceLimit,
  ChanCap,        \* capacity of the router's channel (64 in the code)
  MaxIds,         \* bound on nextID
  MaxChanges,     \* bound on the sessions' changes
  MaxMoves,       \* bound on the browsers' moves
  MaxTime         \* bound on now

ASSUME NotifyAssumption ==
  /\ SessionLimit \in Nat \ {0} /\ WorkspaceLimit \in Nat \ {0} /\ ChanCap \in Nat \ {0}
  /\ CoalesceAt \in Nat \ {0, 1}
  /\ Reports \subseteq {"none", "idle", "working", "error"} \X BOOLEAN
  /\ MaxIds \in Nat /\ MaxChanges \in Nat /\ MaxMoves \in Nat /\ MaxTime \in Nat
  /\ None \notin Sessions \cup Clients

Ids == 1..MaxIds
Workspaces == {Workspace[s] : s \in Sessions}

VARIABLES
  sess,     \* the store: None, or the attention state of a session
  events,   \* the router's channel
  phase,    \* Run: "subscribed", "listed"
  prev,     \* Router.prevState
  task,     \* what the router's loop is doing
  pending,  \* Router.pending: the id of a session's notification, 0 for none
  notif,    \* the kind of each notification made: [s, kind]
  nextID,
  timer,    \* the grace timer of n: "none", "armed", "fired", "stopped"
  fire,     \* the goroutine of n's timer
  active,   \* Router.active: ids
  expiry,   \* ids whose expiry timer runs
  hist,     \* Router.deliveryHistory
  wsHist,   \* Router.workspaceDeliveryHistory
  cool,     \* Router.lastActivityNtfy
  clients,  \* the presence table
  job,      \* the calls a browser's handler has still to make
  now,
  changes, moves,
  real,     \* finishes not yet told, of each session (history)
  phantom,  \* sessions told to have finished without having (history)
  blind,    \* sessions with events before the list or dropped (history)
  told,     \* deliveries: told[w][t] of workspace w permitted at t (history)
  gaze      \* timers that were past the second look when c came to view (history)

storeVars == <<sess, events, changes, real, blind>>
limitVars == <<hist, wsHist, cool>>
idVars    == <<pending, notif, nextID, timer>>
viewVars  == <<clients, job, moves, gaze>>
vars == <<storeVars, phase, prev, task, idVars, fire, active, expiry, limitVars, viewVars,
          now, phantom, told>>

(* How far the loop is, with which session, intents, id and permission...  *)
TaskAt(step, s, todo, id, at) == [step |-> step, s |-> s, todo |-> todo, id |-> id, at |-> at]
IdleTask == TaskAt("idle", None, <<>>, 0, 0)

(* ...and a timer's goroutine, with the notifications it has picked.       *)
FireAt(step, ids, id, at) == [step |-> step, ids |-> ids, id |-> id, at |-> at]
IdleFire == FireAt("none", {}, 0, 0)
Attention == [working : BOOLEAN, error : BOOLEAN, unread : BOOLEAN, alive : BOOLEAN]

-----------------------------------------------------------------------------
(* The store: attention and its events                                     *)

(* applyAttentionStatus: no report, idle, working or error.                *)
ApplyStatus(a, st) ==
  IF st = "none" THEN a ELSE [a EXCEPT !.working = st = "working", !.error = st = "error"]

(* applyAttentionUnread: reading consumes the error, never the work.       *)
ApplyUnread(a, u) == [a EXCEPT !.unread = u, !.error = @ /\ u]

(* A broadcast to the router: dropped when the channel is full.            *)
Announce(ev) ==
  /\ events' = IF Len(events) < ChanCap THEN Append(events, ev) ELSE events
  /\ blind' = IF Len(events) = ChanCap \/ phase = "subscribed"
              THEN blind \cup {ev.s} ELSE blind

Finishes(s, a) == sess[s] # None /\ sess[s].working /\ ~a.working /\ a.alive

Put(s, a) ==
  /\ changes < MaxChanges
  /\ sess[s] # a
  /\ sess' = [sess EXCEPT ![s] = a]
  /\ real' = [real EXCEPT ![s] = IF Finishes(s, a) THEN @ + 1 ELSE @]
  /\ changes' = changes + 1
  /\ Announce([type |-> "upsert", s |-> s, cur |-> a])

routerVars == <<phase, prev, task, idVars, fire, active, expiry, limitVars, phantom, told>>

(* ApplyAttentionUpdate of a runner's or an adapter's report.              *)
Report(s, st, u) ==
  /\ sess[s] # None /\ sess[s].alive
  /\ Put(s, ApplyUnread(ApplyStatus(sess[s], st), u))
  /\ UNCHANGED <<routerVars, viewVars, now>>

Appears(s) ==
  /\ sess[s] = None
  /\ \E w \in BOOLEAN : Put(s, [working |-> w, error |-> FALSE, unread |-> FALSE, alive |-> TRUE])
  /\ UNCHANGED <<routerVars, viewVars, now>>

(* MarkAttentionRead: no longer unread, and no error.                      *)
MarkAttentionRead(r) == ApplyUnread(r, FALSE)

(* POST /read, or a view of the session: announced when something changed. *)
MarkRead(s) ==
  /\ sess[s] # None
  /\ Put(s, MarkAttentionRead(sess[s]))
  /\ UNCHANGED <<routerVars, viewVars, now>>

(* The exit handler: dead, its status cleared.                             *)
Dies(s) ==
  /\ sess[s] # None /\ sess[s].alive
  /\ Put(s, [sess[s] EXCEPT !.alive = FALSE, !.working = FALSE, !.error = FALSE])
  /\ UNCHANGED <<routerVars, viewVars, now>>

Disappears(s) ==
  /\ sess[s] # None /\ changes < MaxChanges
  /\ sess' = [sess EXCEPT ![s] = None]
  /\ changes' = changes + 1
  /\ Announce([type |-> "remove", s |-> s, cur |-> None])
  /\ UNCHANGED <<real, routerVars, viewVars, now>>

(* A runner's output: Emit of session-activity.                            *)
Activity(s) ==
  /\ sess[s] # None /\ sess[s].alive /\ changes < MaxChanges
  /\ changes' = changes + 1
  /\ Announce([type |-> "activity", s |-> s, cur |-> None])
  /\ UNCHANGED <<sess, real, routerVars, viewVars, now>>

-----------------------------------------------------------------------------
(* Presence                                                                *)

AnyViewing(s) == \E c \in Clients : clients[c] # None /\ clients[c].focused /\ clients[c].sel = s
FocusedClients == {c \in Clients : clients[c] # None /\ clients[c].focused}
AnyFocused == FocusedClients # {}
Granted == {c \in Clients : clients[c] # None /\ clients[c].granted}

Late == {n \in Ids : fire[n].step \in {"allow", "target", "send"}}

Moved(c) ==
  /\ moves < MaxMoves
  /\ moves' = moves + 1
  /\ gaze' = [gaze EXCEPT ![c] = Late]
  /\ UNCHANGED <<storeVars, routerVars, now>>

Add(c) ==
  /\ clients[c] = None
  /\ \E g \in BOOLEAN : clients' = [clients EXCEPT ![c] = [granted |-> g, focused |-> FALSE, sel |-> None]]
  /\ UNCHANGED job
  /\ Moved(c)

Remove(c) ==
  /\ clients[c] # None /\ job[c] = <<>>
  /\ clients' = [clients EXCEPT ![c] = None]
  /\ UNCHANGED job
  /\ Moved(c)

(* Update: the callbacks follow outside the lock.                          *)
Update(c, f, sel) ==
  /\ clients[c] # None /\ job[c] = <<>>
  /\ clients' = [clients EXCEPT ![c] = [granted |-> @.granted, focused |-> f, sel |-> sel]]
  /\ job' = [job EXCEPT ![c] =
       (IF f /\ ~clients[c].focused THEN <<[call |-> "all", s |-> None]>> ELSE <<>>) \o
       (IF sel \notin {None, clients[c].sel} THEN <<[call |-> "session", s |-> sel]>> ELSE <<>>)]
  /\ Moved(c)

SetPermission(c) ==
  /\ clients[c] # None /\ job[c] = <<>>
  /\ clients' = [clients EXCEPT ![c].granted = ~@]
  /\ UNCHANGED job
  /\ Moved(c)

(* timer.Stop: too late once the timer has fired.                          *)
Stop(ids) == timer' = [n \in Ids |-> IF n \in ids /\ timer[n] = "armed" THEN "stopped" ELSE timer[n]]

(* What follows on cancelling the pending ones of the sessions ss.         *)
Drop(ss) ==
  /\ Stop({pending[s] : s \in ss})
  /\ pending' = [s \in Sessions |-> IF s \in ss THEN 0 ELSE pending[s]]

About(n, ss) == notif[n].s \in ss

CancelAll(c) ==
  /\ job[c] # <<>> /\ Head(job[c]).call = "all"
  /\ Drop(Sessions)
  /\ active' = {}
  /\ job' = [job EXCEPT ![c] = Tail(@)]
  /\ UNCHANGED <<storeVars, phase, prev, task, notif, nextID, fire, expiry, limitVars,
                 clients, moves, gaze, now, phantom, told>>

(* Mutant: the timer is stopped, the entry stays.                          *)
CancelForSessionKeeps(c) ==
  /\ job[c] # <<>> /\ Head(job[c]).call = "session"
  /\ Stop({pending[Head(job[c]).s]})
  /\ active' = {n \in active : ~About(n, {Head(job[c]).s})}
  /\ job' = [job EXCEPT ![c] = Tail(@)]
  /\ UNCHANGED <<storeVars, phase, prev, task, pending, notif, nextID, fire, expiry, limitVars,
                 clients, moves, gaze, now, phantom, told>>

CancelForSession(c) ==
  /\ job[c] # <<>> /\ Head(job[c]).call = "session"
  /\ LET s == Head(job[c]).s IN
       /\ Drop({s})
       /\ active' = {n \in active : ~About(n, {s})}
  /\ job' = [job EXCEPT ![c] = Tail(@)]
  /\ UNCHANGED <<storeVars, phase, prev, task, notif, nextID, fire, expiry, limitVars,
                 clients, moves, gaze, now, phantom, told>>

Ack(n) ==
  /\ n \in active
  /\ active' = active \ {n}
  /\ UNCHANGED <<storeVars, phase, prev, task, idVars, fire, expiry, limitVars, viewVars,
                 now, phantom, told>>

-----------------------------------------------------------------------------
(* The limits                                                              *)

(* A history: how many deliveries, and their time.  A delivery drops what  *)
(* the window does not reach, so that those left are of one tick.          *)
NoHistory == [at |-> -1, n |-> 0]

(* prunedHistory: how many lie in the window that ends now.                *)
Pruned(h) == IF h.at = now THEN h.n ELSE 0
Counted(h) == [at |-> now, n |-> Pruned(h) + 1]

Permitted(s) ==
  /\ Pruned(hist[s]) < SessionLimit
  /\ Pruned(wsHist[Workspace[s]]) < WorkspaceLimit

(* allowDeliveryLocked, when it allows.                                    *)
Allow(s) ==
  /\ Permitted(s)
  /\ hist' = [hist EXCEPT ![s] = Counted(@)]
  /\ wsHist' = [wsHist EXCEPT ![Workspace[s]] = Counted(@)]

(* Mutant: the summary is measured and not counted.                        *)
AllowEventsUncounted(ids) ==
  /\ \A n \in ids : Pruned(wsHist[Workspace[notif[n].s]]) < WorkspaceLimit
  /\ UNCHANGED <<hist, wsHist>>

(* allowWorkspaceDeliveryForEvents.                                        *)
AllowEvents(ids) ==
  LET ws == {Workspace[notif[n].s] : n \in ids} IN
  /\ \A w \in ws : Pruned(wsHist[w]) < WorkspaceLimit
  /\ wsHist' = [w \in Workspaces |-> IF w \in ws THEN Counted(wsHist[w]) ELSE wsHist[w]]
  /\ UNCHANGED hist

(* A delivery of the notifications ids, permitted at t.                    *)
Tell(ws, t) == told' = [w \in Workspaces |-> [told[w] EXCEPT ![t] = IF w \in ws THEN @ + 1 ELSE @]]

Ticks ==
  /\ now < MaxTime
  /\ now' = now + 1
  /\ UNCHANGED <<storeVars, routerVars, viewVars>>

-----------------------------------------------------------------------------
(* The router's loop                                                       *)

loopOnly == <<storeVars, phase, viewVars, now>>
threadVars == <<fire, active, expiry>>

(* Run: it has subscribed, and lists.                                      *)
SeedPrev ==
  /\ phase = "subscribed"
  /\ phase' = "listed"
  /\ prev' = sess
  /\ UNCHANGED <<storeVars, task, idVars, threadVars, limitVars, viewVars, now, phantom, told>>

(* sessionNotificationIntents                                              *)
Intents(old, cur) ==
  (IF old.working /\ ~cur.working /\ cur.alive THEN <<"finished">> ELSE <<>>) \o
  (IF ~old.unread /\ cur.unread THEN <<"unread">> ELSE <<>>)

Begin(s, todo) ==
  task' = IF todo = <<>> THEN IdleTask ELSE TaskAt("viewing", s, todo, 0, 0)

HandleUpsert(ev) ==
  LET todo == IF prev[ev.s] = None THEN <<>> ELSE Intents(prev[ev.s], ev.cur)
      ends == todo # <<>> /\ Head(todo) = "finished" IN
  /\ prev' = [prev EXCEPT ![ev.s] = ev.cur]
  /\ Begin(ev.s, todo)
  /\ real' = [real EXCEPT ![ev.s] = IF ends /\ @ > 0 THEN @ - 1 ELSE @]
  /\ phantom' = IF ends /\ real[ev.s] = 0 THEN phantom \cup {ev.s} ELSE phantom
  /\ UNCHANGED <<cool, hist>>

(* Mutant: the removed session's state is kept.                            *)
HandleRemoveKeeps(ev) ==
  /\ cool' = [cool EXCEPT ![ev.s] = -1]
  /\ hist' = [hist EXCEPT ![ev.s] = NoHistory]
  /\ UNCHANGED <<prev, task, real, phantom>>

(* Only the pending and the active notifications of the session remain.    *)
HandleRemove(ev) ==
  /\ prev' = [prev EXCEPT ![ev.s] = None]
  /\ cool' = [cool EXCEPT ![ev.s] = -1]
  /\ hist' = [hist EXCEPT ![ev.s] = NoHistory]
  /\ UNCHANGED <<task, real, phantom>>

(* handleActivity looks at the store of now: activityNotificationAllowed.  *)
HandleActivity(ev) ==
  LET a == sess[ev.s] IN
  /\ task' = IF a # None /\ a.alive /\ a.unread /\ ~a.working /\ ~AnyViewing(ev.s)
             THEN TaskAt("activity", ev.s, <<>>, 0, 0) ELSE IdleTask
  /\ UNCHANGED <<prev, cool, hist, real, phantom>>

HandleEvent ==
  /\ phase = "listed" /\ task.step = "idle" /\ events # <<>>
  /\ events' = Tail(events)
  /\ LET ev == Head(events) IN
       \/ ev.type = "upsert" /\ HandleUpsert(ev)
       \/ ev.type = "remove" /\ HandleRemove(ev)
       \/ ev.type = "activity" /\ HandleActivity(ev)
  /\ UNCHANGED <<sess, changes, blind, phase, idVars, threadVars, wsHist, viewVars, now, told>>

(* The next intent of the same event, if there is one.                     *)
Done == Begin(task.s, Tail(task.todo))

Goes(step) == task' = [task EXCEPT !.step = step]

(* The mode.                                                               *)
LooksForMode ==
  /\ task.step = "viewing"
  /\ IF AnyViewing(task.s) THEN Done ELSE Goes(IF AnyFocused THEN "allow" ELSE "defer")
  /\ UNCHANGED <<loopOnly, prev, idVars, threadVars, limitVars, phantom, told>>

(* Focused: within the limits, a toast and a push.                         *)
AllowInApp ==
  /\ task.step = "allow"
  /\ \/ /\ Allow(task.s)
        /\ cool' = [cool EXCEPT ![task.s] = now]
        /\ task' = TaskAt("toast", task.s, task.todo, 0, now)
     \/ ~Permitted(task.s) /\ Done /\ UNCHANGED limitVars
  /\ UNCHANGED <<loopOnly, prev, idVars, threadVars, phantom, told>>

(* fireInApp: nobody focused any more, or an id and an active entry...     *)
NoToast ==
  /\ task.step = "toast" /\ ~AnyFocused
  /\ Done
  /\ Tell({Workspace[task.s]}, task.at)
  /\ UNCHANGED <<loopOnly, prev, idVars, threadVars, limitVars, phantom>>

EnterToast ==
  /\ task.step = "toast" /\ AnyFocused /\ nextID < MaxIds
  /\ nextID' = nextID + 1
  /\ notif' = [notif EXCEPT ![nextID'] = [s |-> task.s, kind |-> Head(task.todo)]]
  /\ active' = active \cup {nextID'}
  /\ task' = TaskAt("send", task.s, task.todo, nextID', task.at)
  /\ UNCHANGED <<loopOnly, prev, pending, timer, fire, expiry, limitVars, phantom, told>>

(* ...sent to the clients, then given 30 seconds.                          *)
SendToast ==
  /\ task.step = "send"
  /\ expiry' = expiry \cup {task.id}
  /\ Tell({Workspace[task.s]}, task.at)
  /\ Done
  /\ UNCHANGED <<loopOnly, prev, idVars, fire, active, limitVars, phantom>>

(* Deferred: the pending one is improved, or a new one starts its period.  *)
Improve ==
  /\ task.step = "defer" /\ pending[task.s] # 0
  /\ notif' = IF Head(task.todo) = "finished"
              THEN [notif EXCEPT ![pending[task.s]].kind = "finished"] ELSE notif
  /\ Done
  /\ UNCHANGED <<loopOnly, prev, pending, nextID, timer, threadVars, limitVars, phantom, told>>

Defer ==
  /\ task.step = "defer" /\ pending[task.s] = 0 /\ nextID < MaxIds
  /\ nextID' = nextID + 1
  /\ notif' = [notif EXCEPT ![nextID'] = [s |-> task.s, kind |-> Head(task.todo)]]
  /\ timer' = [timer EXCEPT ![nextID'] = "armed"]
  /\ pending' = [pending EXCEPT ![task.s] = nextID']
  /\ Done
  /\ UNCHANGED <<loopOnly, prev, threadVars, limitVars, phantom, told>>

(* Output of a session already unread: a push, if not too soon.            *)
PushActivity ==
  /\ task.step = "activity"
  /\ \/ /\ pending[task.s] = 0 /\ cool[task.s] # now
        /\ Allow(task.s)
        /\ cool' = [cool EXCEPT ![task.s] = now]
        /\ Tell({Workspace[task.s]}, now)
     \/ /\ pending[task.s] # 0 \/ cool[task.s] = now \/ ~Permitted(task.s)
        /\ UNCHANGED <<limitVars, told>>
  /\ task' = IdleTask
  /\ UNCHANGED <<loopOnly, prev, idVars, threadVars, phantom>>

LoopStep == \/ SeedPrev \/ HandleEvent \/ LooksForMode \/ AllowInApp
            \/ NoToast \/ EnterToast \/ SendToast \/ Improve \/ Defer \/ PushActivity

-----------------------------------------------------------------------------
(* The timers                                                              *)

fireOnly == <<storeVars, phase, prev, task, viewVars, now, phantom>>

TimerFires(n) ==
  /\ timer[n] = "armed"
  /\ timer' = [timer EXCEPT ![n] = "fired"]
  /\ fire' = [fire EXCEPT ![n].step = "start"]
  /\ UNCHANGED <<fireOnly, pending, notif, nextID, active, expiry, limitVars, told>>

FireTo(n, rec) == fire' = [fire EXCEPT ![n] = rec]
FireEnds(n) == FireTo(n, IdleFire)

(* firePending: whatever is pending for the session, all of it at once     *)
(* when there is much.                                                     *)
FirePending(n) ==
  LET s == notif[n].s
      p == pending[s]
      all == {pending[x] : x \in Sessions} \ {0} IN
  /\ fire[n].step = "start"
  /\ \/ p = 0 /\ FireEnds(n) /\ UNCHANGED <<pending, timer>>
     \/ /\ p # 0 /\ Cardinality(all) < CoalesceAt
        /\ pending' = [pending EXCEPT ![s] = 0]
        /\ FireTo(n, FireAt("viewing", {p}, p, 0))
        /\ UNCHANGED timer
     \/ /\ p # 0 /\ Cardinality(all) >= CoalesceAt
        /\ Stop(all \ {p})
        /\ pending' = [x \in Sessions |-> 0]
        /\ FireTo(n, FireAt("quota", all, 0, 0))
  /\ UNCHANGED <<fireOnly, notif, nextID, active, expiry, limitVars, told>>

(* Mutant: no second look.                                                 *)
LooksNotAgain(n) ==
  /\ fire[n].step = "viewing"
  /\ FireTo(n, [fire[n] EXCEPT !.step = "allow"])
  /\ UNCHANGED <<fireOnly, idVars, active, expiry, limitVars, told>>

(* The second look.                                                        *)
LooksAgain(n) ==
  LET f == fire[n] IN
  /\ f.step = "viewing"
  /\ IF AnyViewing(notif[f.id].s) \/ AnyFocused THEN FireEnds(n) ELSE FireTo(n, [f EXCEPT !.step = "allow"])
  /\ UNCHANGED <<fireOnly, idVars, active, expiry, limitVars, told>>

AllowPending(n) ==
  LET f == fire[n] s == notif[f.id].s IN
  /\ f.step = "allow"
  /\ \/ Allow(s) /\ FireTo(n, FireAt("target", f.ids, f.id, now))
     \/ ~Permitted(s) /\ FireEnds(n) /\ UNCHANGED <<hist, wsHist>>
  /\ UNCHANGED <<fireOnly, idVars, active, expiry, cool, told>>

AllowSummary(n) ==
  LET f == fire[n] IN
  /\ f.step = "quota"
  /\ IF \A x \in f.ids : Pruned(wsHist[Workspace[notif[x].s]]) < WorkspaceLimit
     THEN AllowEvents(f.ids) /\ FireTo(n, FireAt("target", f.ids, f.id, now))
     ELSE FireEnds(n) /\ UNCHANGED <<hist, wsHist>>
  /\ UNCHANGED <<fireOnly, idVars, active, expiry, cool, told>>

FireWorkspaces(n) == {Workspace[notif[x].s] : x \in fire[n].ids}
Cooled(f) == IF Cardinality(f.ids) = 1 THEN [cool EXCEPT ![notif[f.id].s] = now] ELSE cool

(* BestNotifyTarget: none may show notifications, a push only...           *)
NoTarget(n) ==
  /\ fire[n].step = "target" /\ Granted = {}
  /\ cool' = Cooled(fire[n])
  /\ Tell(FireWorkspaces(n), fire[n].at)
  /\ FireEnds(n)
  /\ UNCHANGED <<fireOnly, idVars, active, expiry, hist, wsHist>>

(* ...or it becomes active (a summary takes an id first)...                *)
Enter(n) ==
  LET f == fire[n] IN
  /\ f.step = "target" /\ Granted # {}
  /\ \/ f.id # 0 /\ active' = active \cup {f.id}
        /\ FireTo(n, [f EXCEPT !.step = "send"]) /\ UNCHANGED <<nextID, notif>>
     \/ /\ f.id = 0 /\ nextID < MaxIds
        /\ nextID' = nextID + 1
        /\ notif' = [notif EXCEPT ![nextID'] = [s |-> None, kind |-> "summary"]]
        /\ active' = active \cup {nextID'}
        /\ FireTo(n, FireAt("send", f.ids, nextID', f.at))
  /\ UNCHANGED <<fireOnly, pending, timer, expiry, limitVars, told>>

(* ...and is sent, then given five minutes.                                *)
Send(n) ==
  LET f == fire[n] IN
  /\ f.step = "send"
  /\ cool' = Cooled(f)
  /\ expiry' = expiry \cup {f.id}
  /\ Tell(FireWorkspaces(n), f.at)
  /\ FireEnds(n)
  /\ UNCHANGED <<fireOnly, idVars, active, hist, wsHist>>

Expires(n) ==
  /\ n \in expiry
  /\ expiry' = expiry \ {n}
  /\ active' = active \ {n}
  /\ UNCHANGED <<fireOnly, idVars, fire, limitVars, told>>

FireStep(n) == \/ TimerFires(n) \/ FirePending(n) \/ LooksAgain(n) \/ AllowPending(n)
               \/ AllowSummary(n) \/ NoTarget(n) \/ Enter(n) \/ Send(n) \/ Expires(n)

-----------------------------------------------------------------------------
Init ==
  /\ sess \in [Sessions -> {None, [working |-> TRUE, error |-> FALSE, unread |-> FALSE, alive |-> TRUE]}]
  /\ events = <<>> /\ phase = "subscribed"
  /\ prev = [s \in Sessions |-> None] /\ task = IdleTask
  /\ pending = [s \in Sessions |-> 0] /\ nextID = 0
  /\ notif = [n \in Ids |-> [s |-> None, kind |-> "none"]]
  /\ timer = [n \in Ids |-> "none"] /\ fire = [n \in Ids |-> IdleFire]
  /\ active = {} /\ expiry = {}
  /\ hist = [s \in Sessions |-> NoHistory] /\ wsHist = [w \in Workspaces |-> NoHistory]
  /\ cool = [s \in Sessions |-> -1]
  /\ clients \in [Clients -> {None} \cup [granted : BOOLEAN, focused : BOOLEAN, sel : {None}]]
  /\ job = [c \in Clients |-> <<>>]
  /\ now = 0 /\ changes = 0 /\ moves = 0
  /\ real = [s \in Sessions |-> 0] /\ phantom = {} /\ blind = {}
  /\ told = [w \in Workspaces |-> [t \in 0..MaxTime |-> 0]]
  /\ gaze = [c \in Clients |-> {}]

SessionStep ==
  \E s \in Sessions :
    \/ \E r \in Reports : Report(s, r[1], r[2])
    \/ Appears(s) \/ MarkRead(s) \/ Dies(s) \/ Disappears(s) \/ Activity(s)

ClientStep ==
  \E c \in Clients :
    \/ Add(c) \/ Remove(c) \/ SetPermission(c)
    \/ \E f \in BOOLEAN, s \in Sessions \cup {None} : Update(c, f, s)

Callback(c) == CancelAll(c) \/ CancelForSession(c)

Next ==
  \/ SessionStep \/ ClientStep \/ Ticks \/ LoopStep
  \/ \E c \in Clients : Callback(c)
  \/ \E n \in Ids : Ack(n) \/ FireStep(n)

Spec == Init /\ [][Next]_vars

-----------------------------------------------------------------------------
(* Properties                                                              *)

Events == [type : {"upsert", "remove", "activity"}, s : Sessions, cur : Attention \cup {None}]
Tasks == [step : {"idle", "viewing", "allow", "defer", "toast", "send", "activity"},
          s : Sessions \cup {None}, todo : Seq({"finished", "unread"}), id : 0..MaxIds, at : 0..MaxTime]
Fires == [step : {"none", "start", "viewing", "allow", "quota", "target", "send"},
          ids : SUBSET Ids, id : 0..MaxIds, at : 0..MaxTime]
Calls == [call : {"all"}, s : {None}] \cup [call : {"session"}, s : Sessions]
Histories == [at : Int, n : Nat]

StoreTypes ==
  /\ sess \in [Sessions -> {None} \cup Attention] /\ prev \in [Sessions -> {None} \cup Attention]
  /\ events \in Seq(Events) /\ Len(events) <= ChanCap
  /\ phase \in {"subscribed", "listed"}
  /\ changes \in Nat /\ real \in [Sessions -> Nat] /\ blind \subseteq Sessions /\ phantom \subseteq Sessions

ClientTypes ==
  /\ clients \in [Clients -> {None} \cup [granted : BOOLEAN, focused : BOOLEAN, sel : Sessions \cup {None}]]
  /\ job \in [Clients -> Seq(Calls)] /\ moves \in Nat /\ gaze \in [Clients -> SUBSET Ids]

(* What the loop works at is of a session, and of an intent or of output.  *)
LoopTypes ==
  /\ task \in Tasks /\ (task.step # "idle" => task.s \in Sessions)
  /\ task.step \notin {"idle", "activity"} => task.todo # <<>>
  /\ task.step = "send" => task.id # 0
  /\ pending \in [Sessions -> 0..MaxIds] /\ nextID \in 0..MaxIds
  /\ notif \in [Ids -> [s : Sessions \cup {None}, kind : {"none", "finished", "unread", "summary"}]]
  /\ timer \in [Ids -> {"none", "armed", "fired", "stopped"}]
  /\ fire \in [Ids -> Fires] /\ active \subseteq Ids /\ expiry \subseteq Ids
  /\ \A n \in Ids : fire[n].step = "send" => fire[n].id # 0

LimitTypes ==
  /\ now \in 0..MaxTime /\ cool \in [Sessions -> Int]
  /\ hist \in [Sessions -> Histories] /\ wsHist \in [Workspaces -> Histories]
  /\ told \in [Workspaces -> [0..MaxTime -> Nat]]

TypeOK == StoreTypes /\ ClientTypes /\ LoopTypes /\ LimitTypes

(* A task is told to have finished only when it has: not for one that was  *)
(* removed and came back idle, not twice for one end, not for one that     *)
(* died.  Excepted are sessions the router was blind to: changed between   *)
(* its subscription and its list, or with an event dropped.                *)
FinishIsReal == phantom \subseteq blind

(* A workspace is told of at most WorkspaceLimit times in one window, by   *)
(* toasts, single notifications, summaries and pushes together.            *)
WorkspaceQuota == \A w \in Workspaces : \A t \in 0..MaxTime : told[w][t] <= WorkspaceLimit

(* No notification of the system goes out for a session that a client has  *)
(* been viewing since before the second look that follows the grace        *)
(* period.  (A summary takes no second look.)                              *)
Sent(n) == fire[n].step = "send" /\ fire'[n].step # "send"
NotWhileViewed ==
  [][\A n \in Ids : Sent(n) /\ Cardinality(fire[n].ids) = 1 =>
       \A c \in Clients :
         clients[c] # None /\ clients[c].focused /\ clients[c].sel = notif[fire[n].id].s
           => n \in gaze[c]]_vars

(* Neither table keeps an entry for good: every pending notification waits *)
(* for a timer of its own that has not been stopped, every active one for  *)
(* the expiry that is started when it has been sent.                       *)
Sending(n) == \/ task.step = "send" /\ task.id = n
              \/ \E x \in Ids : fire[x].step = "send" /\ fire[x].id = n
NothingLingers ==
  /\ \A s \in Sessions : pending[s] # 0 =>
       timer[pending[s]] = "armed" \/ fire[pending[s]].step = "start"
  /\ \A n \in active : n \in expiry \/ Sending(n)
=============================================================================
