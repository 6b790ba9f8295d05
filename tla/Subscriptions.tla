---------------------------- MODULE Subscriptions ----------------------------
(***************************************************************************)
(* The subscription table of jumpd                                         *)
(* (services/jumpd/internal/discovery/subscribe.go): one goroutine per     *)
(* session follows the runner's /events stream; the table maps a session   *)
(* id to the entry (subEntry) of the goroutine that follows it.            *)
(*                                                                         *)
(* An entry and its goroutine are created together and die together, so    *)
(* one value e stands for both.  The table is guarded by a mutex; what     *)
(* happens outside it - the stream, the cancellation that Unsubscribe      *)
(* delivers after it has released the lock, the goroutine's deferred       *)
(* cleanup - is interleaved with every other caller.                       *)
(***************************************************************************)
EXTENDS Integers

CONSTANTS
  Ids,       \* session ids
  Entries,   \* the subEntry values ever created (each is used once)
  Callers,   \* goroutines that call Unsubscribe
  None       \* no entry

ASSUME SubscriptionsAssumption == None \notin Entries

VARIABLES
  active,    \* active[id]: the entry in the table, or None
  phase,     \* phase[e]: where the goroutine of e is
  follows,   \* follows[e]: the session id it was created for
  cancelled, \* the entries whose context is cancelled
  removed    \* removed[c]: the entry caller c took out of the table and has
             \* not cancelled yet, or None

subsVars == <<active, phase, follows, cancelled, removed>>

Phases == {"unused", "connecting", "streaming", "handling", "leaving", "finished"}

(* The goroutines that still act on their session.                         *)
Following(e) == phase[e] \in {"connecting", "streaming", "handling"}

-----------------------------------------------------------------------------
(* Mutant: a replaced subscription is overwritten but never cancelled.     *)
SubscribeNoCancel(id, e) ==
  /\ phase[e] = "unused"
  /\ active' = [active EXCEPT ![id] = e]
  /\ phase' = [phase EXCEPT ![e] = "connecting"]
  /\ follows' = [follows EXCEPT ![e] = id]
  /\ UNCHANGED <<cancelled, removed>>

(* Replace the entry of id, cancelling the old one, under one lock.        *)
Subscribe(id, e) ==
  /\ phase[e] = "unused"
  /\ cancelled' = cancelled \cup ({active[id]} \ {None})
  /\ active' = [active EXCEPT ![id] = e]
  /\ phase' = [phase EXCEPT ![e] = "connecting"]
  /\ follows' = [follows EXCEPT ![e] = id]
  /\ UNCHANGED removed

IsActive(id) == active[id] # None

(* Unsubscribe takes the entry out under the lock and cancels it after.    *)
Unsubscribe(c, id) ==
  /\ removed[c] = None
  /\ removed' = [removed EXCEPT ![c] = active[id]]
  /\ active' = [active EXCEPT ![id] = None]
  /\ UNCHANGED <<phase, follows, cancelled>>

CancelRemoved(c) ==
  /\ removed[c] # None
  /\ cancelled' = cancelled \cup {removed[c]}
  /\ removed' = [removed EXCEPT ![c] = None]
  /\ UNCHANGED <<active, phase, follows>>

(* UnsubscribeAll, at shutdown, cancels under the lock.                    *)
UnsubscribeAll ==
  /\ cancelled' = cancelled \cup ({active[id] : id \in Ids} \ {None})
  /\ active' = [id \in Ids |-> None]
  /\ UNCHANGED <<phase, follows, removed>>

-----------------------------------------------------------------------------
(* The goroutine of e: runSubscription                                     *)

Goto(e, from, to) ==
  /\ phase[e] = from
  /\ phase' = [phase EXCEPT ![e] = to]
  /\ UNCHANGED <<active, follows, cancelled, removed>>

(* client.Do returns a stream...                                           *)
Connect(e) == e \notin cancelled /\ Goto(e, "connecting", "streaming")

(* ...or fails: the dial, a cancelled context, a status other than 200.    *)
ConnectFails(e) == Goto(e, "connecting", "leaving")

(* A line arrives and the context is not cancelled: an event is handled.   *)
TakeEvent(e) == e \notin cancelled /\ Goto(e, "streaming", "handling")

(* handleEvent returns, cancelled meanwhile or not.                        *)
EventDone(e) == Goto(e, "handling", "streaming")

(* The stream ends, or the context is found cancelled.                     *)
StreamEnds(e) == Goto(e, "streaming", "leaving")

(* Mutant: the goroutine leaves without clearing its entry.                *)
CleanupNothing(e) == Goto(e, "leaving", "finished")

(* Mutant: the entry of the id is deleted whoever owns it.                 *)
CleanupBlindly(e) ==
  /\ phase[e] = "leaving"
  /\ phase' = [phase EXCEPT ![e] = "finished"]
  /\ active' = [active EXCEPT ![follows[e]] = None]
  /\ UNCHANGED <<follows, cancelled, removed>>

(* The deferred cleanup: delete the table's entry only if it is still e.   *)
Cleanup(e) ==
  /\ phase[e] = "leaving"
  /\ phase' = [phase EXCEPT ![e] = "finished"]
  /\ active' = [active EXCEPT ![follows[e]] = IF @ = e THEN None ELSE @]
  /\ UNCHANGED <<follows, cancelled, removed>>

-----------------------------------------------------------------------------
SubsInit ==
  /\ active = [id \in Ids |-> None]
  /\ phase = [e \in Entries |-> "unused"]
  /\ follows \in [Entries -> Ids]
  /\ cancelled = {}
  /\ removed = [c \in Callers |-> None]

Goroutine(e) ==
  \/ Connect(e) \/ ConnectFails(e) \/ TakeEvent(e) \/ EventDone(e)
  \/ StreamEnds(e) \/ Cleanup(e)

SubsNext ==
  \/ \E id \in Ids, e \in Entries : Subscribe(id, e)
  \/ \E id \in Ids, c \in Callers : Unsubscribe(c, id)
  \/ \E c \in Callers : CancelRemoved(c)
  \/ UnsubscribeAll
  \/ \E e \in Entries : Goroutine(e)

(* A caller that took an entry out goes on to cancel it; a handler returns;*)
(* a cancelled context ends a connect and a read; a deferred call runs.    *)
Ends(e) ==
  \/ EventDone(e) \/ Cleanup(e)
  \/ e \in cancelled /\ (ConnectFails(e) \/ StreamEnds(e))

SubsFairness ==
  /\ \A c \in Callers : WF_subsVars(CancelRemoved(c))
  /\ \A e \in Entries : WF_subsVars(Ends(e))

SubsSpec == SubsInit /\ [][SubsNext]_subsVars /\ SubsFairness

-----------------------------------------------------------------------------
(* Properties                                                              *)

SubsTypeOK ==
  /\ active \in [Ids -> Entries \cup {None}]
  /\ phase \in [Entries -> Phases]
  /\ follows \in [Entries -> Ids]
  /\ cancelled \subseteq Entries
  /\ removed \in [Callers -> Entries \cup {None}]

(* IsActive tells the truth ("returns true if a subscription is currently  *)
(* running for the session"): the entry in the table is of a goroutine of  *)
(* that session which has not finished and which nobody has cancelled.     *)
(* The scanner trusts this to leave a session alive.                       *)
ActiveIsRunning ==
  \A id \in Ids :
    IsActive(id) =>
      /\ phase[active[id]] \notin {"unused", "finished"}
      /\ follows[active[id]] = id
      /\ active[id] \notin cancelled

(* No orphans: a goroutine that follows a session and is not cancelled is  *)
(* the one in the table, or its cancellation is on the way.  Two of them   *)
(* never apply the events of one session for good.                         *)
NoOrphan ==
  \A e \in Entries \ cancelled :
    Following(e) =>
      \/ active[follows[e]] = e
      \/ \E c \in Callers : removed[c] = e

(* What makes the two inductive: an entry taken out is in no other place,  *)
(* and only entries that were used are cancelled.                          *)
RemovedIsOut ==
  \A c \in Callers :
    removed[c] # None =>
      /\ phase[removed[c]] # "unused"
      /\ \A id \in Ids : active[id] # removed[c]

CancelledWasUsed == \A e \in cancelled : phase[e] # "unused"

SubsInv ==
  SubsTypeOK /\ ActiveIsRunning /\ NoOrphan /\ RemovedIsOut /\ CancelledWasUsed

(* A replaced goroutine never takes its successor's entry away: an entry   *)
(* leaves the table by its own goroutine's cleanup, or by a caller that    *)
(* replaces, unsubscribes or shuts down - and then it is cancelled.        *)
ReplacedStayReplaced ==
  [][\A id \in Ids :
       /\ IsActive(id)
       /\ active'[id] # active[id]
       => \/ phase'[active[id]] = "finished"
          \/ active[id] \in cancelled'
          \/ \E c \in Callers : removed'[c] = active[id]]_subsVars

(* No goroutine leaks: those that were replaced or unsubscribed finish.    *)
Superseded(e) == Following(e) /\ active[follows[e]] # e
SupersededFinish == (\E e \in Entries : Superseded(e)) ~> ~\E e \in Entries : Superseded(e)
=============================================================================
