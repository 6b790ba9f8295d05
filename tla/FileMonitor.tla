----------------------------- MODULE FileMonitor ----------------------------
(***************************************************************************)
(* The file monitor of the daemon (services/jumpd/internal/discovery:      *)
(* filemon.go, persist.go, with what Register and the exit handler do to   *)
(* it): the conversation files that the agents write are attributed to     *)
(* sessions and read line by line for status, unread mark and title.       *)
(*                                                                         *)
(* Run is one goroutine: events and attribution passes alternate, while    *)
(* sessions register and die in others.  All sessions have one cwd, and    *)
(* its directory is the only one watched.  A line is written in one piece. *)
(***************************************************************************)
EXTENDS Adapters

CONSTANTS
  Files, Sessions,
  Owner,       \* whose agent writes a file
  Delta,       \* Delta[f][s]: how far apart file and session began
  Written,     \* the kinds of line written
  MaxWrites, MaxStarts, MaxRestarts \* bounds

ASSUME FileMonitorAssumption ==
  /\ Owner \in [Files -> Sessions] /\ Delta \in [Files -> [Sessions -> Nat]]
  /\ NoSession \notin Sessions /\ "none" \notin Files /\ Written \subseteq Kinds

VARIABLES
  lines,    \* the files
  mtime,    \* number of the last write
  evq,      \* files with an event from the watcher
  running,  \* sessions with a runner
  started,  \* writes before the runner was started
  store,    \* session -> [live, status, unread, title]
  dirWatched, \* watchedDirs has the directory
  on,       \* FileMonitor.sessions
  readAll,  \* monitoredSession.readAll
  attr,     \* attributions
  active,   \* activeFiles
  off,      \* fileOffsets, in lines
  cands,    \* candidateFiles
  poke,     \* the channel
  throttle, \* the timer runs
  pass,     \* tryAttributeUnmatched: [step, files, snaps, matches, given]
  saved,    \* attributions.json
  scanned,  \* the first scan is over
  restarts, starts, writes,
  cleared,  \* sessions whose status was cleared since their file was read (history)
  dropped,  \* files whose session died, not written since (history)
  was,      \* attributions before the restart (history)
  raced     \* files handled or saved while their session had not registered (history)

fileVars == <<lines, mtime, writes>>
runVars  == <<running, started, starts>>
monVars  == <<dirWatched, on, readAll, attr, active, off, cands, saved, cleared, dropped>>
loopVars == <<poke, throttle, pass>>
bootVars == <<scanned, restarts, was>>
monitorVars == <<fileVars, evq, runVars, store, monVars, loopVars, bootVars, raced>>

NoFile == "none"
IdlePass == [step |-> "idle", files |-> {}, snaps |-> {}, matches |-> {}, given |-> {}]

(* The pass holds fm.mu while it applies its results: who needs the lock   *)
(* waits.                                                                  *)
Unlocked == pass.step # "apply"
FreshRecord == [live |-> FALSE, status |-> "idle", unread |-> FALSE, title |-> <<"none", 0>>]

-----------------------------------------------------------------------------
(* The agents                                                              *)

(* What an agent writes next: answers only to a prompt, and none after it  *)
(* has given up.                                                           *)
Follows(ls, k) ==
  LET said == {i \in DOMAIN ls : ls[i] \in Messages.pi} IN
  CASE ls = <<>> -> k = "header"
    [] k \in {"tool", "text", "aborted", "error"} ->
         /\ said # {} /\ ls[LastOf(said)] \in {"user", "tool", "error"}
         /\ TrailingErrors(ls) < MaxRetries
    [] OTHER -> k # "header"

Write(f, k) ==
  /\ Owner[f] \in running /\ writes < MaxWrites /\ Follows(lines[f], k)
  /\ lines' = [lines EXCEPT ![f] = Append(@, k)]
  /\ writes' = writes + 1
  /\ mtime' = [mtime EXCEPT ![f] = writes + 1]
  /\ evq' = IF dirWatched THEN evq \cup {f} ELSE evq
  /\ dropped' = dropped \ {f}
  /\ UNCHANGED <<runVars, store, dirWatched, on, readAll, attr, active, off, cands, saved, cleared,
                 loopVars, bootVars, raced>>

RunnerStarts(s) ==
  /\ s \notin running /\ starts < MaxStarts
  /\ running' = running \cup {s}
  /\ started' = [started EXCEPT ![s] = writes]
  /\ starts' = starts + 1
  /\ UNCHANGED <<fileVars, evq, store, monVars, loopVars, bootVars, raced>>

-----------------------------------------------------------------------------
(* Sessions come and go                                                    *)

(* collectCandidateFilesLocked: what was written since the session began   *)
(* and is nobody's.                                                        *)
WrittenSince(s) == {f \in Files : mtime[f] > started[s] /\ attr[f] = NoSession}

(* Mutant: only the directory is watched, what is in it already is not     *)
(* looked for.                                                             *)
NotifyNewSessionBlind(s) ==
  /\ Unlocked /\ s \in running /\ ~store[s].live
  /\ store' = [store EXCEPT ![s].live = TRUE, ![s].status = "idle"]
  /\ on' = on \cup {s} /\ readAll' = readAll \cup {s} /\ dirWatched' = TRUE
  /\ poke' = TRUE /\ cleared' = cleared \cup {s}
  /\ UNCHANGED <<fileVars, evq, runVars, attr, active, off, saved, dropped, throttle, pass, bootVars, raced,
                 cands>>

(* Register: the record is live, without the status that its runner does   *)
(* not know; then NotifyNewSession.                                        *)
NotifyNewSession(s) ==
  /\ Unlocked /\ s \in running /\ ~store[s].live
  /\ store' = [store EXCEPT ![s].live = TRUE, ![s].status = "idle"]
  /\ on' = on \cup {s} /\ readAll' = readAll \cup {s} /\ dirWatched' = TRUE
  /\ cands' = cands \cup WrittenSince(s)
  /\ poke' = TRUE /\ cleared' = cleared \cup {s}
  /\ UNCHANGED <<fileVars, evq, runVars, attr, active, off, saved, dropped, throttle, pass, bootVars, raced>>

(* The exit event: the record is dead, but the monitor keeps the session   *)
(* and its files for a resume.                                             *)
ExitEvent(s) ==
  /\ s \in running /\ store[s].live
  /\ running' = running \ {s}
  /\ store' = [store EXCEPT ![s].live = FALSE, ![s].status = "idle"]
  /\ cleared' = cleared \cup {s}
  /\ UNCHANGED <<fileVars, evq, started, starts, dirWatched, on, readAll, attr, active, off, cands,
                 saved, dropped, loopVars, bootVars, raced>>

DirNeeded(monitored) == monitored # {}

Without(a, s) == [f \in Files |-> IF a[f] = s THEN NoSession ELSE a[f]]

(* saveAttributions keeps those of monitored sessions.                     *)
Kept(a, monitored) == [f \in Files |-> IF a[f] \in monitored THEN a[f] ELSE NoSession]
LeftOut(a, monitored) == {f \in Files : a[f] \in Sessions \ monitored}

(* NotifySessionDied: a runner found dead by the scan, killed by force or  *)
(* dismissed.                                                              *)
NotifySessionDied(s) ==
  /\ Unlocked /\ s \in on /\ scanned
  /\ running' = running \ {s}
  /\ store' = [store EXCEPT ![s].live = FALSE, ![s].status = "idle"]
  /\ on' = on \ {s} /\ readAll' = readAll \ {s}
  /\ active' = [active EXCEPT ![s] = NoFile]
  /\ attr' = Without(attr, s) /\ was' = Without(was, s)
  /\ off' = [f \in Files |-> IF attr[f] = s THEN 0 ELSE off[f]]
  /\ IF attr' = attr THEN UNCHANGED <<saved, raced>>
     ELSE saved' = Kept(attr', on') /\ raced' = raced \cup LeftOut(attr', on')
  /\ dirWatched' = DirNeeded(on')
  /\ dropped' = dropped \cup {f \in Files : attr[f] = s}
  /\ UNCHANGED <<fileVars, evq, started, starts, cands, cleared, loopVars, scanned, restarts>>

-----------------------------------------------------------------------------
(* Reading a file                                                          *)

(* syncFileMetadata: a placeholder title, or that of another file, is      *)
(* derived again.                                                          *)
Placeholder(t) == t[1] \in {"none", "new"}
Synced(s, f) ==
  LET t == store[s].title IN
  IF Parses(lines[f]) /\ (active[s] # f \/ Placeholder(t)) THEN TitleOf(lines[f]) ELSE t

(* readNewLines: where the reading starts.                                 *)
FirstNew(all, offset) == IF all THEN 1 ELSE offset + 1

(* Mutant: the first reading starts where the last one of the file ended.  *)
ProcessTail(s, f) ==
  LET lo == off[f] + 1
      hi == Len(lines[f])
  IN
  /\ readAll' = readAll \ {s} /\ cleared' = cleared \ {s}
  /\ active' = [active EXCEPT ![s] = f]
  /\ off' = [off EXCEPT ![f] = hi]
  /\ store' = [store EXCEPT ![s] = [@ EXCEPT
       !.status = StatusAfter(lines[f], lo, hi, @),
       !.title = TitleAfter(lines[f], lo, hi, Synced(s, f))]]

(* processAttributedFile: the lines after the offset, or all of them the   *)
(* first time, when only a turn that was running may mark it unread.       *)
Process(s, f) ==
  LET all == s \in readAll
      lo  == FirstNew(all, off[f])
      hi  == Len(lines[f])
      rec == store[s]
  IN
  /\ readAll' = readAll \ {s}
  /\ cleared' = IF all THEN cleared \ {s} ELSE cleared
  /\ active' = [active EXCEPT ![s] = f]
  /\ off' = [off EXCEPT ![f] = hi]
  /\ store' = [store EXCEPT ![s] =
       [live |-> rec.live,
        status |-> StatusAfter(lines[f], lo, hi, rec.status),
        unread |-> rec.unread \/ (Unreads(lines[f], lo, hi) /\ (all => rec.status = "working")),
        title |-> TitleAfter(lines[f], lo, hi, Synced(s, f))]]

bookVars == <<store, readAll, cleared, active, off>>

(* handleFileChange: a file of a session that is not monitored any more is *)
(* unattributed again.                                                     *)
HandleFileChange(f) ==
  LET s == attr[f] IN
  /\ pass.step = "idle" /\ f \in evq
  /\ evq' = evq \ {f}
  /\ \/ /\ s \in on
        /\ Process(s, f)
        /\ UNCHANGED <<attr, cands, poke, raced>>
     \/ /\ s \notin on
        /\ attr' = [attr EXCEPT ![f] = NoSession]
        /\ cands' = cands \cup {f} /\ poke' = TRUE
        /\ raced' = raced \cup {f}
        /\ UNCHANGED bookVars
  /\ UNCHANGED <<fileVars, runVars, dirWatched, on, saved, dropped, throttle, pass, bootVars>>

-----------------------------------------------------------------------------
(* Attribution                                                             *)

TakesPoke ==
  /\ pass.step = "idle" /\ poke
  /\ poke' = FALSE /\ throttle' = TRUE
  /\ UNCHANGED <<fileVars, evq, runVars, store, monVars, pass, bootVars, raced>>

(* tryAttributeUnmatched, first part: candidates are pruned, and they and  *)
(* the sessions copied.                                                    *)
PassBegins ==
  LET files == {f \in cands : attr[f] = NoSession /\ on # {}} IN
  /\ pass.step = "idle" /\ throttle
  /\ throttle' = FALSE
  /\ cands' = files
  /\ pass' = IF files = {} THEN IdlePass
             ELSE [IdlePass EXCEPT !.step = "fetch", !.files = files, !.snaps = on]
  /\ UNCHANGED <<fileVars, evq, runVars, store, dirWatched, on, readAll, attr, active, off, saved,
                 cleared, dropped, poke, bootVars, raced>>

(* The sessions whose runner answers with the text of its scrollback.      *)
Screens == pass.snaps \cap running

(* Whom a file is given to: the adapter's choice, or a lone candidate when *)
(* the file is fresh.                                                      *)
Choice(f, s) ==
  \E similar \in Screens \cup {NoSession} :
    \/ Attributes(pass.snaps, Sessions, Delta[f], similar, s)
    \/ /\ Attributes(pass.snaps, Sessions, Delta[f], similar, NoSession)
       /\ pass.snaps = {s}

(* Second part, on what was copied: whose the files are.  Without a result *)
(* the pass is over, and another one due.                                  *)
PassMatches ==
  \E found \in [pass.files -> Sessions \cup {NoSession}] :
    LET new == {f \in pass.files : found[f] # NoSession} IN
    /\ pass.step = "fetch" /\ \A f \in pass.files : Choice(f, found[f])
    /\ throttle' = (new = {})
    /\ pass' = IF new = {} THEN IdlePass
               ELSE [IdlePass EXCEPT !.step = "apply", !.matches = {<<f, found[f]>> : f \in new}]
    /\ UNCHANGED <<fileVars, evq, runVars, store, monVars, poke, bootVars, raced>>

(* Third part, under the lock, in the order of a map: a result counts when *)
(* its session is there still.                                             *)
PassGives(f, s) ==
  LET gives == attr[f] = NoSession /\ s \in on IN
  /\ <<f, s>> \in pass.matches
  /\ attr' = IF gives THEN [attr EXCEPT ![f] = s] ELSE attr
  /\ cands' = cands \ {g \in {f} : attr'[g] # NoSession}
  /\ IF gives THEN Process(s, f) ELSE UNCHANGED bookVars
  /\ pass' = [pass EXCEPT !.matches = @ \ {<<f, s>>},
                          !.given = @ \cup {g \in {f} : gives}]
  /\ UNCHANGED <<fileVars, evq, runVars, dirWatched, on, saved, dropped, poke, throttle, bootVars, raced>>

(* Mutant: the table is not saved.                                         *)
PassEndsUnsaved ==
  /\ pass.step = "apply" /\ pass.matches = {}
  /\ throttle' = (cands # {})
  /\ pass' = IdlePass
  /\ UNCHANGED <<fileVars, evq, runVars, store, monVars, poke, bootVars, raced>>

(* persistAttributions; while there are candidates another pass is due.    *)
PassEnds ==
  /\ pass.step = "apply" /\ pass.matches = {}
  /\ saved' = Kept(attr, on) /\ raced' = raced \cup LeftOut(attr, on)
  /\ throttle' = (cands # {})
  /\ pass' = IdlePass
  /\ UNCHANGED <<fileVars, evq, runVars, store, dirWatched, on, readAll, attr, active, off, cands,
                 cleared, dropped, poke, bootVars>>

-----------------------------------------------------------------------------
(* A restart of the daemon                                                 *)

RestartDaemon ==
  /\ restarts < MaxRestarts /\ scanned
  /\ restarts' = restarts + 1 /\ scanned' = FALSE
  /\ was' = attr /\ raced' = pass.given \cup {f \in raced : saved[f] # attr[f]}
  /\ attr' = saved
  /\ store' = [s \in Sessions |-> [store[s] EXCEPT !.live = FALSE, !.status = "idle"]]
  /\ on' = {} /\ readAll' = {} /\ dirWatched' = FALSE /\ cleared' = Sessions
  /\ active' = [s \in Sessions |-> NoFile] /\ off' = [f \in Files |-> 0]
  /\ evq' = {} /\ cands' = {} /\ poke' = FALSE /\ throttle' = FALSE /\ pass' = IdlePass
  /\ UNCHANGED <<fileVars, runVars, saved, dropped>>

(* ApplyPersistedAttributions after the first scan: of each session the    *)
(* newest file, read in full but not marked as read.                       *)
Newest(s) == {f \in Files : attr[f] = s /\ lines[f] # <<>>
                            /\ \A g \in Files : attr[g] = s => mtime[g] <= mtime[f]}

(* syncFileMetadata and reconcileFileStatus.                               *)
Reconciled(s, f) ==
  LET rec == store[s]
      hi  == Len(lines[f])
  IN [live |-> rec.live,
      status |-> StatusAfter(lines[f], 1, hi, rec.status),
      unread |-> rec.unread \/ (Unreads(lines[f], 1, hi) /\ rec.status = "working"),
      title |-> Synced(s, f)]

ScanEnds ==
  LET read == {s \in on : Newest(s) # {}}
      file(s) == CHOOSE f \in Newest(s) : TRUE
  IN
  /\ Unlocked /\ ~scanned /\ \A s \in running : s \in on
  /\ scanned' = TRUE
  /\ store' = [s \in Sessions |-> IF s \in read THEN Reconciled(s, file(s)) ELSE store[s]]
  /\ active' = [s \in Sessions |-> IF s \in read THEN file(s) ELSE active[s]]
  /\ cleared' = cleared \ read
  /\ UNCHANGED <<fileVars, evq, runVars, dirWatched, on, readAll, attr, off, cands, saved, dropped,
                 loopVars, restarts, was, raced>>

-----------------------------------------------------------------------------
MonitorInit ==
  /\ lines = [f \in Files |-> <<>>] /\ mtime = [f \in Files |-> 0] /\ writes = 0
  /\ evq = {} /\ running = {} /\ started = [s \in Sessions |-> 0] /\ starts = 0
  /\ store = [s \in Sessions |-> FreshRecord] /\ dirWatched = FALSE
  /\ on = {} /\ readAll = {} /\ cleared = Sessions
  /\ attr = [f \in Files |-> NoSession] /\ saved = [f \in Files |-> NoSession]
  /\ active = [s \in Sessions |-> NoFile] /\ off = [f \in Files |-> 0]
  /\ cands = {} /\ poke = FALSE /\ throttle = FALSE /\ pass = IdlePass /\ dropped = {}
  /\ scanned = TRUE /\ restarts = 0 /\ was = [f \in Files |-> NoSession] /\ raced = {}

MonitorNext ==
  \/ \E f \in Files : HandleFileChange(f) \/ \E k \in Written : Write(f, k)
  \/ \E s \in Sessions : RunnerStarts(s) \/ NotifyNewSession(s) \/ ExitEvent(s) \/ NotifySessionDied(s)
  \/ TakesPoke \/ PassBegins \/ PassMatches \/ PassEnds \/ RestartDaemon \/ ScanEnds
  \/ \E f \in Files, s \in Sessions : PassGives(f, s)

MonitorSpec == MonitorInit /\ [][MonitorNext]_monitorVars

-----------------------------------------------------------------------------
(* Properties                                                              *)

Title == {"none", "new", "user", "name"} \X Nat
Record == [live : BOOLEAN, status : {"idle", "working", "error"}, unread : BOOLEAN, title : Title]

MonitorTypeOK ==
  /\ lines \in [Files -> Seq(Kinds)] /\ mtime \in [Files -> Nat] /\ off \in [Files -> Nat]
  /\ {evq, cands, dropped, raced} \subseteq SUBSET Files
  /\ {running, on, readAll, cleared} \subseteq SUBSET Sessions
  /\ started \in [Sessions -> Nat] /\ {writes, starts, restarts} \subseteq Nat
  /\ store \in [Sessions -> Record]
  /\ {attr, saved, was} \subseteq [Files -> Sessions \cup {NoSession}]
  /\ active \in [Sessions -> Files \cup {NoFile}]
  /\ {dirWatched, poke, throttle, scanned} \subseteq BOOLEAN
  /\ pass \in [step : {"idle", "fetch", "apply"}, files : SUBSET Files, snaps : SUBSET Sessions,
               matches : SUBSET (Files \X Sessions), given : SUBSET Files]

(* When a live session has one file and all its events are handled, the    *)
(* session has the status and the title of the file read from its start.   *)
(* Excepted are sessions registered again without a word from the file     *)
(* since: Register clears their status.                                    *)
ShowsItsFile ==
  \A f \in Files : LET s == attr[f] IN
    s \in on \ cleared /\ store[s].live /\ f \notin evq /\ (\A g \in Files \ {f} : attr[g] # s) =>
      /\ store[s].status = StatusAfter(lines[f], 1, Len(lines[f]), "idle")
      /\ store[s].title = TitleOf(lines[f])

(* A file written since its session was started is attributed to someone   *)
(* or sought, and then a pass is due.  Excepted are files that had been    *)
(* given to a session which then died, until they are written again.       *)
NoFileOverlooked ==
  \A f \in Files :
    Owner[f] \in on /\ mtime[f] > started[Owner[f]] /\ f \notin evq \cup dropped =>
      attr[f] # NoSession \/ (f \in cands /\ (poke \/ throttle \/ pass.step # "idle"))

(* A restart of the daemon keeps the files of the sessions that run on.    *)
(* Excepted are files that were written or saved without before their      *)
(* session had registered, and those of a pass that had not saved yet.     *)
RestartKeepsFiles ==
  \A f \in Files : restarts > 0 /\ was[f] \in on /\ f \notin raced => attr[f] = was[f]

(* The comment of filemon.go: candidates of an attribution are the live    *)
(* sessions.  They are not: the exit handler leaves the dead ones in the   *)
(* table.                                                                  *)
CandidatesAreLive == [][PassBegins => \A s \in pass'.snaps : store[s].live]_monitorVars
=============================================================================
