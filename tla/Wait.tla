-------------------------------- MODULE Wait --------------------------------
(***************************************************************************)
(* id=$(jump --no-attach <agent>); jump --send $id <text>; jump --wait $id *)
(*                                                                         *)
(* A script starts a detached session, may type into it, and waits until   *)
(* its agent is idle.                                                      *)
(* The module composes what lies between the two commands: the runner that *)
(* registers, reports its id over the handshake pipe and emits events that *)
(* may be dropped (cli/jump: run.go, handshake.go, daemon.go, state.go,    *)
(* ptyserver.go), the daemon's registration, event subscriptions (module   *)
(* Subscriptions), scanner and file monitor, which all write the record,   *)
(* and the wait handler, which hears of the writes over a channel that may *)
(* drop them too and polls beside it (jumpd: wait.go).                     *)
(***************************************************************************)
EXTENDS Subscriptions, Sequences, FiniteSets

CONSTANTS
  Sid,           \* the session
  Runner, Scan,  \* the callers of discovery.Register
  User,          \* the handler of a dismiss
  Absent,        \* no record; also the nil session of an event
  MaxTurns,      \* bound on what the agent does: status changes, output
  MaxTries,      \* attempts to register (5 in the code)
  MaxBox,        \* capacity of a stream's channel in the runner (16)
  MaxFeed        \* capacity of a subscriber's channel in the store (64)

Registrars == {Runner, Scan}

(* What an adapter says: "none" is a nil Status, "idle" the empty one,     *)
(* "failed" the one with only Error set.                                   *)
Statuses == {"none", "working", "idle", "failed"}
Records == [alive : BOOLEAN, status : Statuses]
Events == Statuses \cup {"activity", "exit"}

ASSUME WaitAssumption ==
  /\ Ids = {Sid}
  /\ Runner # Scan /\ Callers = Registrars \cup {User}
  /\ Absent \notin Records /\ None \notin Events
  /\ {MaxTurns, MaxTries, MaxBox, MaxFeed} \subseteq Nat \ {0}

Dead == [alive |-> FALSE, status |-> "none"]

VARIABLES
  jumpd,     \* the daemon: down, starting or up
  run,       \* the runner: starting, running, exited, leaving, gone
  agent,     \* the agent's status
  via,       \* how it gets out: "hook", PUT /status, or "file", a transcript
  turns,     \* what the agent has done so far
  box,       \* box[e]: the runner's channel for the stream of e
  pipe,      \* the handshake pipe: open, id or eof
  tries,     \* registrations the runner has tried
  rec,       \* the session in the store, or Absent
  reg,       \* reg[x]: where registrar x is
  meta,      \* meta[x]: what /meta told x
  hold,      \* hold[e]: the event e is handling
  scan,      \* the scanner
  unread,    \* the transcript has lines the file monitor has not read
  dismissed, \* the user's dismiss: no, removed or done
  script,    \* the script: where its commands are, or how they ended
  feed       \* the channel of the wait handler

runnerVars == <<run, agent, via, turns, pipe, tries>>
daemonVars == <<rec, reg, meta, hold, scan, unread, dismissed>>
scriptVars == <<script, feed>>
vars == <<jumpd, runnerVars, box, daemonVars, scriptVars, subsVars>>

Listening == run # "gone"

-----------------------------------------------------------------------------
(* The store                                                               *)

(* ApplyAttentionStatus: an empty status, which is also what a null event  *)
(* decodes to, leaves no status at all.                                    *)
Applied(status) == IF status = "idle" THEN "none" ELSE status

Subscribed == script \in {"looking", "waiting"}

(* broadcast: a full channel loses the event.  (What another writer may do *)
(* between the write and its broadcast is in SessionStore, not here.)      *)
Broadcast(r) ==
  feed' = IF Subscribed /\ Len(feed) < MaxFeed THEN Append(feed, r) ELSE feed

Write(r) == rec' = r /\ Broadcast(r)

(* Update does nothing for a session that is not there.                    *)
Update(status) ==
  IF rec = Absent THEN UNCHANGED <<rec, feed>> ELSE Write([rec EXCEPT !.status = status])

-----------------------------------------------------------------------------
(* The runner                                                              *)

(* emit: a non-blocking send to the streams connected at the moment.       *)
Connected(e) == phase[e] \in {"streaming", "handling"}

Emit(evt) ==
  box' = [e \in Entries |-> IF Connected(e) /\ Len(box[e]) < MaxBox
                            THEN Append(box[e], evt) ELSE box[e]]

(* ensureJumpd, once: start the daemon if it does not answer, which may    *)
(* fail; then the registration goroutine.                                  *)
SetRunning ==
  /\ run = "starting"
  /\ run' = "running"
  /\ jumpd' \in IF jumpd = "down" THEN {"down", "starting"} ELSE {jumpd}
  /\ reg' = [reg EXCEPT ![Runner] = "query"]
  /\ UNCHANGED <<agent, via, turns, pipe, tries, box, rec, meta, hold, scan, unread,
                 dismissed, scriptVars, subsVars>>

(* The daemon listens on its socket.                                       *)
JumpdServes ==
  /\ jumpd = "starting"
  /\ jumpd' = "up"
  /\ UNCHANGED <<runnerVars, box, daemonVars, scriptVars, subsVars>>

(* Bound: the agent acts MaxTurns times.                                   *)
Busy == run = "running" /\ turns < MaxTurns /\ turns' = turns + 1

(* A turn begins, ends or fails; or the child clears the status.           *)
SetStatus(status) ==
  /\ Busy
  /\ (agent = "working") # (status = "working")
  /\ agent' = status
  /\ UNCHANGED <<jumpd, run, via, pipe, tries, rec, reg, meta, hold, scan, dismissed,
                 scriptVars, subsVars>>

(* PUT /status by the agent's hook: to the runner's state and streams.     *)
PutStatus(status) == via = "hook" /\ SetStatus(status) /\ Emit(status) /\ UNCHANGED unread

(* Or a line in the agent's transcript.                                    *)
WriteTranscript(status) == via = "file" /\ SetStatus(status) /\ unread' = TRUE /\ UNCHANGED box

(* Output that nobody is looking at.                                       *)
EmitActivity ==
  /\ Busy
  /\ Emit("activity")
  /\ UNCHANGED <<jumpd, run, agent, via, pipe, tries, daemonVars, scriptVars, subsVars>>

SetExited ==
  /\ run = "running"
  /\ run' = "exited"
  /\ Emit("exit")
  /\ UNCHANGED <<jumpd, agent, via, turns, pipe, tries, daemonVars, scriptVars, subsVars>>

(* Mutant: the id is reported before the daemon knows it.                  *)
HandshakeAckAtOnce ==
  /\ pipe = "open"
  /\ run # "starting"
  /\ pipe' = "id"
  /\ UNCHANGED <<jumpd, run, agent, via, turns, tries, box, daemonVars, scriptVars, subsVars>>

(* The registration call is over: report the id, or close the pipe.        *)
HandshakeAck ==
  /\ pipe = "open"
  /\ run # "gone"
  /\ reg[Runner] \in {"done", "failed"}
  /\ pipe' = IF reg[Runner] = "done" THEN "id" ELSE "eof"
  /\ UNCHANGED <<jumpd, run, agent, via, turns, tries, box, daemonVars, scriptVars, subsVars>>

(* <-regDone, then POST /v1/deregister.                                    *)
Deregister ==
  /\ run = "exited"
  /\ pipe # "open"
  /\ run' = "leaving"
  /\ Unsubscribe(Runner, Sid)
  /\ UNCHANGED <<jumpd, agent, via, turns, pipe, tries, box, daemonVars, scriptVars>>

(* The process is gone: its end of the pipe closes, and what its streams   *)
(* had not written may be lost.                                            *)
Gone ==
  /\ run' = "gone"
  /\ pipe' = IF pipe = "open" THEN "eof" ELSE pipe
  /\ box' \in {box, [e \in Entries |-> <<>>]}
  /\ UNCHANGED <<jumpd, agent, via, turns, tries, daemonVars, scriptVars, subsVars>>

Exit == run = "leaving" /\ removed[Runner] = None /\ Gone

Crash == run = "running" /\ Gone

-----------------------------------------------------------------------------
(* discovery.Register                                                      *)

Goes(x, from, to) == reg[x] = from /\ reg' = [reg EXCEPT ![x] = to]

QueryMeta(x) ==
  /\ jumpd = "up"
  /\ Listening
  /\ Goes(x, "query", "write")
  /\ meta' = [meta EXCEPT ![x] = [alive |-> run = "running",
                                  status |-> IF via = "hook" THEN agent ELSE "none"]]
  /\ UNCHANGED <<jumpd, runnerVars, box, rec, hold, scan, unread, dismissed, scriptVars, subsVars>>

(* A fresh record takes the status as it came; a known one applies it.     *)
RegisterWrite(x) ==
  /\ Goes(x, "write", "subscribe")
  /\ Write(IF rec = Absent THEN meta[x] ELSE [meta[x] EXCEPT !.status = Applied(@)])
  /\ meta' = [meta EXCEPT ![x] = Dead]
  /\ UNCHANGED <<jumpd, runnerVars, box, hold, scan, unread, dismissed, script, subsVars>>

RegisterSubscribe(x) ==
  /\ Goes(x, "subscribe", "done")
  /\ \E e \in Entries : Subscribe(Sid, e)
  /\ UNCHANGED <<jumpd, runnerVars, box, rec, meta, hold, scan, unread, dismissed, scriptVars>>

(* The daemon is not up yet, or its query was too slow: the runner retries.*)
RegisterFails ==
  /\ Listening
  /\ Goes(Runner, "query", IF tries = MaxTries - 1 THEN "failed" ELSE "query")
  /\ tries' = tries + 1
  /\ UNCHANGED <<jumpd, run, agent, via, turns, pipe, box, rec, meta, hold, scan, unread,
                 dismissed, scriptVars, subsVars>>

-----------------------------------------------------------------------------
(* The goroutine that follows the runner's /events: no snapshot comes with *)
(* the stream, so what was emitted before the connection is not repeated.  *)

Dial(e) == Listening /\ Connect(e) /\ UNCHANGED <<jumpd, runnerVars, box, daemonVars, scriptVars>>

DialFails(e) ==
  /\ e \in cancelled \/ ~Listening
  /\ ConnectFails(e)
  /\ UNCHANGED <<jumpd, runnerVars, box, daemonVars, scriptVars>>

(* An event is read; the exit handler starts with a Get.                   *)
Take(e) ==
  /\ box[e] # <<>>
  /\ TakeEvent(e)
  /\ box' = [box EXCEPT ![e] = Tail(@)]
  /\ hold' = [hold EXCEPT ![e] = IF Head(box[e]) = "exit" /\ rec = Absent THEN None
                                 ELSE Head(box[e])]
  /\ UNCHANGED <<jumpd, runnerVars, rec, reg, meta, scan, unread, dismissed, scriptVars>>

(* handleEvent: a write, or for activity a broadcast without a session.    *)
Apply(e) ==
  /\ hold[e] # None
  /\ CASE hold[e] = "exit" -> Write(Dead)
       [] hold[e] = "activity" -> Broadcast(Absent) /\ UNCHANGED rec
       [] OTHER -> Update(Applied(hold[e]))
  /\ hold' = [hold EXCEPT ![e] = None]
  /\ UNCHANGED <<jumpd, runnerVars, box, reg, meta, scan, unread, dismissed, script, subsVars>>

Handled(e) == hold[e] = None /\ EventDone(e) /\ UNCHANGED <<jumpd, runnerVars, box, daemonVars, scriptVars>>

Hangup(e) ==
  /\ e \in cancelled \/ (~Listening /\ box[e] = <<>>)
  /\ StreamEnds(e)
  /\ box' = [box EXCEPT ![e] = <<>>]
  /\ UNCHANGED <<jumpd, runnerVars, daemonVars, scriptVars>>

Leave(e) == Cleanup(e) /\ UNCHANGED <<jumpd, runnerVars, box, daemonVars, scriptVars>>

CancelTaken(c) == CancelRemoved(c) /\ UNCHANGED <<jumpd, runnerVars, box, daemonVars, scriptVars>>

-----------------------------------------------------------------------------
(* discovery.Scan and the file monitor                                     *)

Scans(from, to) ==
  /\ scan = from
  /\ scan' = to
  /\ UNCHANGED <<jumpd, runnerVars, box, meta, hold, unread, dismissed, script>>

(* Bound: the scanner registers only while there is an entry to spare.     *)
Spare == Cardinality({e \in Entries : phase[e] = "unused"}) > (IF reg[Runner] = "done" THEN 0 ELSE 1)

(* Phase 1: a socket that is not tracked as live is registered.            *)
ScanFirst ==
  /\ jumpd = "up"
  /\ Scans("idle", "first")
  /\ removed[Scan] = None
  /\ LET tracked == rec # Absent /\ rec.alive /\ IsActive(Sid)
     IN  reg' = [reg EXCEPT ![Scan] = IF Listening /\ ~tracked /\ Spare THEN "query" ELSE "done"]
  /\ UNCHANGED <<rec, feed, subsVars>>

ScanFails ==
  /\ Goes(Scan, "query", "done")
  /\ ~Listening
  /\ UNCHANGED <<jumpd, runnerVars, box, rec, meta, hold, scan, unread, dismissed, scriptVars, subsVars>>

(* Phase 2: a session alive in the list, neither followed nor reachable,   *)
(* is written back dead and unsubscribed.                                  *)
ScanSecond ==
  /\ Scans("first", IF rec # Absent /\ rec.alive THEN "check" ELSE "idle")
  /\ reg[Scan] = "done"
  /\ UNCHANGED <<rec, feed, reg, subsVars>>

ScanCheck ==
  /\ Scans("check", IF IsActive(Sid) \/ Listening THEN "idle" ELSE "mark")
  /\ UNCHANGED <<rec, feed, reg, subsVars>>

ScanMark ==
  /\ Scans("mark", "unsubscribe")
  /\ Write(Dead)
  /\ UNCHANGED <<reg, subsVars>>

ScanUnsubscribe ==
  /\ Scans("unsubscribe", "idle")
  /\ Unsubscribe(Scan, Sid)
  /\ UNCHANGED <<rec, feed, reg>>

(* New lines are parsed, and the last status among them is applied.        *)
MonitorReads ==
  /\ unread
  /\ rec # Absent
  /\ unread' = FALSE
  /\ Update(Applied(agent))
  /\ UNCHANGED <<jumpd, runnerVars, box, reg, meta, hold, scan, dismissed, script, subsVars>>

(* Dismiss, after its attempt to kill the child (any child may exit).      *)
Dismiss ==
  /\ rec # Absent
  /\ dismissed = "no"
  /\ dismissed' = "removed"
  /\ Write(Absent)
  /\ UNCHANGED <<jumpd, runnerVars, box, reg, meta, hold, scan, unread, script, subsVars>>

DismissUnsubscribes ==
  /\ dismissed = "removed"
  /\ dismissed' = "done"
  /\ Unsubscribe(User, Sid)
  /\ UNCHANGED <<jumpd, runnerVars, box, rec, reg, meta, hold, scan, unread, scriptVars>>

-----------------------------------------------------------------------------
(* The script, and the wait handler that answers it                        *)

Script(from, to) ==
  /\ script = from
  /\ script' = to
  /\ UNCHANGED <<jumpd, runnerVars, box, daemonVars, subsVars>>

(* readHandshake: the id, an end of file, or nothing for 5 s.              *)
ReadHandshake ==
  /\ \/ pipe = "id" /\ Script("handshake", "listing")
     \/ pipe = "eof" /\ Script("handshake", "failed")
  /\ UNCHANGED feed

HandshakeTimesOut == pipe = "open" /\ Script("handshake", "failed") /\ UNCHANGED feed

(* jump --send: the session found must be alive, and its runner's socket   *)
(* must take the text for the child's terminal.                            *)
SendResolves ==
  /\ Script("listing", IF rec = Absent THEN "unknown"
                       ELSE IF rec.alive THEN "sending" ELSE "failed")
  /\ UNCHANGED feed

SendInput == Script("sending", IF run = "running" THEN "sent" ELSE "failed") /\ UNCHANGED feed

(* jump --wait: resolveSession looks the id up in GET /v1/sessions...      *)
Resolve ==
  /\ \E from \in {"listing", "sent"} : Script(from, IF rec = Absent THEN "unknown" ELSE "posting")
  /\ UNCHANGED feed

(* ...and the handler of POST /wait does again, or answers 404...          *)
HandleWait == Script("posting", IF rec = Absent THEN "unknown" ELSE "subscribing") /\ UNCHANGED feed

(* ...and subscribes before it looks at the state.                         *)
WaitSubscribes == Script("subscribing", "looking") /\ UNCHANGED feed

(* Mutant: a session without a status counts as idle.                      *)
TerminalReasonNil(r, reason) ==
  \/ reason = "died" /\ ~r.alive
  \/ reason = "idle" /\ r.alive /\ r.status # "working"

TerminalReason(r, reason) ==
  \/ reason = "died" /\ ~r.alive
  \/ reason = "idle" /\ r.alive /\ r.status \in {"idle", "failed"}

Terminal(r) == r # Absent /\ \E reason \in {"died", "idle"} : TerminalReason(r, reason)

Answer(from, r) == \E reason \in {"died", "idle"} : TerminalReason(r, reason) /\ Script(from, reason)

WaitLooks ==
  /\ UNCHANGED feed
  /\ \/ rec # Absent /\ Answer("looking", rec)
     \/ ~Terminal(rec) /\ Script("looking", "waiting")

WaitHears ==
  /\ feed # <<>>
  /\ feed' = Tail(feed)
  /\ \/ Head(feed) = Absent /\ Script("waiting", "died")
     \/ Head(feed) # Absent /\ Answer("waiting", Head(feed))
     \/ Head(feed) # Absent /\ ~Terminal(Head(feed)) /\ Script("waiting", "waiting")

(* Mutant: the poll skips a session that is not there.                     *)
WaitPollsPresent ==
  /\ rec # Absent
  /\ Answer("waiting", rec)
  /\ UNCHANGED feed

(* The ticker: every 500 ms the record is read again.                      *)
WaitPolls ==
  /\ UNCHANGED feed
  /\ \/ rec = Absent /\ Script("waiting", "died")
     \/ rec # Absent /\ Answer("waiting", rec)

(* --timeout                                                               *)
WaitTimesOut == Script("waiting", "timeout") /\ UNCHANGED feed

-----------------------------------------------------------------------------
Init ==
  /\ SubsInit
  /\ jumpd \in {"down", "up"}
  /\ run = "starting"
  /\ agent = "none"
  /\ via \in {"hook", "file"}
  /\ turns = 0
  /\ box = [e \in Entries |-> <<>>]
  /\ pipe = "open"
  /\ tries = 0
  /\ rec = Absent
  /\ reg = [x \in Registrars |-> IF x = Scan THEN "done" ELSE "none"]
  /\ meta = [x \in Registrars |-> Dead]
  /\ hold = [e \in Entries |-> None]
  /\ scan = "idle"
  /\ unread = FALSE
  /\ dismissed = "no"
  /\ script = "handshake"
  /\ feed = <<>>

Register(x) == QueryMeta(x) \/ RegisterWrite(x) \/ RegisterSubscribe(x) \/ CancelTaken(x)

RunSession ==
  \/ SetRunning \/ Register(Runner) \/ RegisterFails \/ HandshakeAck \/ Deregister \/ Exit

Follow(e) == Dial(e) \/ DialFails(e) \/ Take(e) \/ Apply(e) \/ Handled(e) \/ Hangup(e) \/ Leave(e)

Scanning ==
  \/ ScanFirst \/ Register(Scan) \/ ScanFails \/ ScanSecond \/ ScanCheck \/ ScanMark \/ ScanUnsubscribe

Dismissing == DismissUnsubscribes \/ CancelTaken(User)

Waiting ==
  \/ ReadHandshake \/ SendResolves \/ SendInput \/ Resolve \/ HandleWait
  \/ WaitSubscribes \/ WaitLooks \/ WaitPolls

(* What goes on by itself.                                                 *)
Running ==
  \/ RunSession \/ JumpdServes \/ \E e \in Entries : Follow(e)
  \/ MonitorReads \/ Dismissing \/ Waiting

Next ==
  \/ Running \/ Scanning
  \/ SetExited \/ Crash \/ EmitActivity
  \/ \E status \in Statuses : PutStatus(status) \/ WriteTranscript(status)
  \/ Dismiss \/ WaitHears \/ HandshakeTimesOut \/ WaitTimesOut

(* Processes and goroutines run and the tickers fire.  The agent need not  *)
(* do anything, nor the user; select may prefer the poll to an event.  All *)
(* but the scanner run out of things to do, so one condition serves them;  *)
(* it is weaker than fairness of each.                                     *)
Fairness == WF_vars(Running) /\ WF_vars(Scanning)

Spec == Init /\ [][Next]_vars /\ Fairness

-----------------------------------------------------------------------------
(* Properties                                                              *)

TypeOK ==
  /\ SubsTypeOK
  /\ jumpd \in {"down", "starting", "up"}
  /\ run \in {"starting", "running", "exited", "leaving", "gone"} /\ pipe \in {"open", "id", "eof"}
  /\ agent \in Statuses /\ via \in {"hook", "file"}
  /\ turns \in 0..MaxTurns /\ tries \in 0..MaxTries
  /\ box \in [Entries -> Seq(Events)] /\ \A e \in Entries : Len(box[e]) <= MaxBox
  /\ rec \in Records \cup {Absent} /\ meta \in [Registrars -> Records]
  /\ reg \in [Registrars -> {"none", "query", "write", "subscribe", "done", "failed"}]
  /\ hold \in [Entries -> Events \cup {None}]
  /\ scan \in {"idle", "first", "check", "mark", "unsubscribe"}
  /\ unread \in BOOLEAN /\ dismissed \in {"no", "removed", "done"}
  /\ script \in {"handshake", "listing", "sending", "sent", "posting", "subscribing", "looking",
                 "waiting", "failed", "unknown", "died", "idle", "timeout"}
  /\ feed \in Seq(Records \cup {Absent}) /\ Len(feed) <= MaxFeed

(* An id that the script was given is known to the daemon: no lookup fails *)
(* unless the user has dismissed the session meanwhile (run.go: "scripts   *)
(* capture the id ... and use it immediately, without polling").           *)
IdIsKnown == script = "unknown" => dismissed # "no"

(* A wait is not answered idle before the agent has said anything, however *)
(* the registrations, events and transcript reads raced (wait.go, terminalReason). *)
NoEarlyIdle == script = "idle" => turns > 0 /\ (agent # "none" \/ turns > 1)

(* A wait does not hang on a session that has gone, although the runner's  *)
(* channel, the stream and the wait's own channel all may lose the event.  *)
WaitEnds == (script = "waiting" /\ run = "gone") ~> script # "waiting"

(* "idle: session reached Status.Working == false" (wait.go): a wait for a *)
(* live agent that has ended its turn and stays idle is answered.  It is   *)
(* not: Applied leaves an idle record without a status.                    *)
AtRest == script = "waiting" /\ run = "running" /\ agent = "idle"
IdleIsAnswered == AtRest ~> ~AtRest

(* "died: session is no longer reachable" (wait.go 31): not said of a      *)
(* session that runs, unless it was dismissed.  It is: after a scan wrote a*)
(* stale "dead" over it, and after output nobody watches, since broadcasts *)
(* of activity carry no session, like those of a removal.                  *)
DiedIsDead ==
  [][script = "waiting" /\ script' = "died" => run # "running" \/ dismissed # "no"]_vars
=============================================================================
