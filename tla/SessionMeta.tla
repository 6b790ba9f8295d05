----------------------------- MODULE SessionMeta -----------------------------
(***************************************************************************)
(* The persistence of one local session: jumpd's metadata store            *)
(* (services/jumpd/internal/sessionmeta), the goroutine that feeds it from *)
(* the session store's events, the handlers that write or drop the record  *)
(* directly (main.go, discovery), the retention scanner (sessionfiles) and *)
(* the runner, which keeps its scrollback file in the same directory.      *)
(* jumpd may crash between any two steps; the runner outlives it.          *)
(*                                                                         *)
(* Of a record only what decides its fate is kept: "live", "exited" (dead, *)
(* with exited_at), "lost" (dead, without exited_at), "none".              *)
(***************************************************************************)
EXTENDS Integers, Sequences, FiniteSets

CONSTANTS
  Handlers,   \* goroutines of jumpd that write the session
  Persister,  \* the goroutine of WatchEvents
  PersistCap, \* capacity of its channel (64 in the code)
  MaxRuns,    \* bound on the runners the session has one after the other
  MaxCrashes  \* bound on the crashes of jumpd

Writers == Handlers \cup {Persister}

ASSUME MetaAssumption ==
  /\ Persister \notin Handlers
  /\ PersistCap \in Nat \ {0}
  /\ MaxRuns \in Nat
  /\ MaxCrashes \in Nat

Records == {"none", "live", "exited", "lost"}
Tasks   == {"tell", "write", "temp", "rename", "forget", "remove", "ready"}

VARIABLES
  up,         \* jumpd: "down", "sweeping", "scanning" (first scan), "serving"
  rec,        \* the session in the store
  persistQ,   \* the persister's channel: the record each event carries
  pending,    \* the upsert it has not flushed yet, or "none"
  todo,       \* todo[w]: the steps writer w still has to take
  val,        \* val[w]: the record it takes them with
  dir,        \* the session's directory exists
  meta,       \* the content of meta.json, or "none"
  temps,      \* the writers whose temporary file exists
  scroll,     \* the scrollback file is in the directory
  runner,     \* "idle", "live", "ending" (child dead, still listening), "gone"
  exitEvent,  \* an exit event is on its way to jumpd
  unordered,  \* since jumpd started, an event was dropped or handlers overlapped
  runs, crashes

diskVars   == <<dir, meta, temps, scroll>>
runnerVars == <<runner, exitEvent, runs>>
metaVars   == <<up, rec, persistQ, pending, todo, val, diskVars, runnerVars, unordered, crashes>>

-----------------------------------------------------------------------------
(* Files                                                                   *)

Task(w, t) == todo[w] # <<>> /\ Head(todo[w]) = t

Done(w) == todo' = [todo EXCEPT ![w] = Tail(@)]

(* Write: MkdirAll, then a temporary file, then a rename over meta.json.   *)
(* A Remove in between makes the next of these steps fail, and the writer  *)
(* gives up.                                                               *)
MakeDir(w) ==
  /\ Task(w, "write")
  /\ dir' = TRUE
  /\ todo' = [todo EXCEPT ![w] = <<"temp", "rename">> \o Tail(@)]
  /\ UNCHANGED <<up, rec, persistQ, pending, val, meta, temps, scroll, runnerVars, unordered, crashes>>

MakeTemp(w) ==
  /\ Task(w, "temp")
  /\ temps' = IF dir THEN temps \cup {w} ELSE temps
  /\ Done(w)
  /\ UNCHANGED <<up, rec, persistQ, pending, val, dir, meta, scroll, runnerVars, unordered, crashes>>

Rename(w) ==
  /\ Task(w, "rename")
  /\ meta' = IF w \in temps THEN val[w] ELSE meta
  /\ temps' = temps \ {w}
  /\ Done(w)
  /\ UNCHANGED <<up, rec, persistQ, pending, val, dir, scroll, runnerVars, unordered, crashes>>

RemoveAll ==
  /\ dir' = FALSE
  /\ meta' = "none"
  /\ temps' = {}
  /\ scroll' = FALSE

RemoveFiles(w) ==
  /\ Task(w, "forget")
  /\ RemoveAll
  /\ Done(w)
  /\ UNCHANGED <<up, rec, persistQ, pending, val, runnerVars, unordered, crashes>>

-----------------------------------------------------------------------------
(* WatchEvents                                                             *)

(* Mutant: a removal leaves the coalesced upsert to be flushed.            *)
HandleEventKeepPending ==
  /\ todo[Persister] = <<>>
  /\ persistQ # <<>>
  /\ persistQ' = Tail(persistQ)
  /\ IF Head(persistQ) = "none"
     THEN todo' = [todo EXCEPT ![Persister] = <<"forget">>] /\ UNCHANGED pending
     ELSE pending' = Head(persistQ) /\ UNCHANGED todo
  /\ UNCHANGED <<up, rec, val, diskVars, runnerVars, unordered, crashes>>

(* An upsert replaces the pending one; a removal cancels it and removes    *)
(* the directory at once.                                                  *)
HandleEvent ==
  /\ todo[Persister] = <<>>
  /\ persistQ # <<>>
  /\ persistQ' = Tail(persistQ)
  /\ pending' = Head(persistQ)
  /\ todo' = [todo EXCEPT ![Persister] = IF Head(persistQ) = "none" THEN <<"forget">> ELSE <<>>]
  /\ UNCHANGED <<up, rec, val, diskVars, runnerVars, unordered, crashes>>

(* The ticker (500 ms): flushAll.                                          *)
Flush ==
  /\ todo[Persister] = <<>>
  /\ pending # "none"
  /\ pending' = "none"
  /\ val' = [val EXCEPT ![Persister] = pending]
  /\ todo' = [todo EXCEPT ![Persister] = <<"write">>]
  /\ UNCHANGED <<up, rec, persistQ, diskVars, runnerVars, unordered, crashes>>

-----------------------------------------------------------------------------
(* jumpd's handlers: each writes the store, then takes the steps in todo.  *)

Running == up \in {"scanning", "serving"}
Listening == runner \in {"live", "ending"}

PutRecord(h, r, steps) ==
  /\ rec' = r
  /\ val' = [val EXCEPT ![h] = r]
  /\ todo' = [todo EXCEPT ![h] = steps]
  /\ unordered' = (unordered \/ \E g \in Handlers \ {h} : todo[g] # <<>>)
  /\ UNCHANGED <<up, persistQ, pending, diskVars, runner, runs, crashes>>

(* The store's broadcast, after the write.                                 *)
Tell(h) ==
  /\ Task(h, "tell")
  /\ IF Len(persistQ) < PersistCap
     THEN persistQ' = Append(persistQ, val[h]) /\ UNCHANGED unordered
     ELSE unordered' = TRUE /\ UNCHANGED persistQ
  /\ Done(h)
  /\ UNCHANGED <<up, rec, pending, val, diskVars, runnerVars, crashes>>

(* Register: what /meta reports; a runner whose child has ended lands dead *)
(* and is persisted by onDead.                                             *)
RegisterThen(h, rest) ==
  /\ Listening
  /\ UNCHANGED exitEvent
  /\ IF runner = "live" THEN PutRecord(h, "live", <<"tell">> \o rest)
                        ELSE PutRecord(h, "exited", <<"tell", "write">> \o rest)

Register(h) ==
  /\ Running
  /\ todo[h] = <<>>
  /\ rec # "live"
  /\ RegisterThen(h, <<>>)

(* The exit event of the subscription; a copy of the record is persisted.  *)
(* The event of a session that is gone is ignored.                         *)
Exit(h) ==
  /\ Running
  /\ todo[h] = <<>>
  /\ exitEvent
  /\ exitEvent' = FALSE
  /\ \/ rec # "none" /\ PutRecord(h, "exited", <<"tell", "write">>)
     \/ /\ rec = "none"
        /\ UNCHANGED <<up, rec, persistQ, pending, todo, val, diskVars, runner, runs, unordered,
                       crashes>>

(* Scan, phase 2: the socket is gone and no stream is open.                *)
MarkDead(h) ==
  /\ Running
  /\ todo[h] = <<>>
  /\ rec = "live"
  /\ runner = "gone"
  /\ ~exitEvent
  /\ UNCHANGED exitEvent
  /\ PutRecord(h, "lost", <<"tell", "write">>)

(* Dismiss, once the kill has ended the runner's child.                    *)
Dismiss(h) ==
  /\ Running
  /\ todo[h] = <<>>
  /\ rec # "none"
  /\ runner # "live"
  /\ UNCHANGED exitEvent
  /\ PutRecord(h, "none", <<"tell", "forget">>)

(* Mutant: retention does not wait for the first scan.                     *)
PurgeAtOnce(h) ==
  /\ Running
  /\ todo[h] = <<>>
  /\ rec \in {"exited", "lost"}
  /\ todo' = [todo EXCEPT ![h] = <<"remove">>]
  /\ UNCHANGED <<up, rec, persistQ, pending, val, diskVars, runnerVars, unordered, crashes>>

(* Retention: List, a dead session that has expired (an age the model      *)
(* leaves open) or has no exited_at...                                     *)
Purge(h) ==
  /\ up = "serving"
  /\ todo[h] = <<>>
  /\ rec \in {"exited", "lost"}
  /\ todo' = [todo EXCEPT ![h] = <<"remove">>]
  /\ UNCHANGED <<up, rec, persistQ, pending, val, diskVars, runnerVars, unordered, crashes>>

(* ...then Remove, which announces nothing when the session is gone.       *)
PurgeRemove(h) ==
  /\ Task(h, "remove")
  /\ UNCHANGED exitEvent
  /\ PutRecord(h, "none", IF rec = "none" THEN <<>> ELSE <<"tell">>)

-----------------------------------------------------------------------------
(* Startup, crash                                                          *)

Start ==
  /\ up = "down"
  /\ up' = "sweeping"
  /\ UNCHANGED <<rec, persistQ, pending, todo, val, diskVars, runnerVars, unordered, crashes>>

(* What a sweep makes of a record: it is dead.                             *)
Restored(r) == IF r = "live" THEN "lost" ELSE r

(* Sweep: a directory without meta.json is removed; otherwise the record   *)
(* is restored.                                                            *)
Sweep ==
  /\ up = "sweeping"
  /\ up' = "scanning"
  /\ IF meta = "none" THEN RemoveAll ELSE UNCHANGED diskVars
  /\ rec' = Restored(meta)
  /\ UNCHANGED <<persistQ, pending, todo, val, runnerVars, unordered, crashes>>

(* The first scan registers a runner that listens; then retention starts.  *)
FirstScan(h) ==
  /\ up = "scanning"
  /\ \A g \in Handlers : ~\E i \in DOMAIN todo[g] : todo[g][i] = "ready"
  /\ todo[h] = <<>>
  /\ \/ rec # "live" /\ RegisterThen(h, <<"ready">>)
     \/ /\ ~Listening \/ rec = "live"
        /\ todo' = [todo EXCEPT ![h] = <<"ready">>]
        /\ UNCHANGED <<up, rec, persistQ, pending, val, diskVars, runnerVars, unordered, crashes>>

Ready(h) ==
  /\ Task(h, "ready")
  /\ up' = "serving"
  /\ Done(h)
  /\ UNCHANGED <<rec, persistQ, pending, val, diskVars, runnerVars, unordered, crashes>>

(* jumpd is killed: what was in memory is gone; a temporary file stays     *)
(* behind but nobody will rename it.                                       *)
Crash ==
  /\ up # "down"
  /\ crashes < MaxCrashes
  /\ crashes' = crashes + 1
  /\ up' = "down"
  /\ rec' = "none"
  /\ persistQ' = <<>>
  /\ pending' = "none"
  /\ todo' = [w \in Writers |-> <<>>]
  /\ val' = [w \in Writers |-> "none"]
  /\ temps' = {}
  /\ exitEvent' = FALSE
  /\ unordered' = FALSE
  /\ UNCHANGED <<dir, meta, scroll, runner, runs>>

-----------------------------------------------------------------------------
(* The runner.  A second one is a resume: of a session the store has dead. *)

jumpdVars == <<up, rec, persistQ, pending, todo, val, meta, temps, unordered, crashes>>

RunnerStarts ==
  /\ runs < MaxRuns
  /\ \/ runner = "idle"
     \/ runner = "gone" /\ Running /\ rec \in {"exited", "lost"}
  /\ runs' = runs + 1
  /\ runner' = "live"
  /\ dir' = TRUE
  /\ scroll' = TRUE
  /\ UNCHANGED <<exitEvent, jumpdVars>>

(* The child ends; the exit event goes to the subscription, if any.        *)
ChildExits ==
  /\ runner = "live"
  /\ runner' = "ending"
  /\ exitEvent' = (rec = "live")
  /\ UNCHANGED <<runs, dir, scroll, jumpdVars>>

RunnerGone ==
  /\ runner = "ending"
  /\ runner' = "gone"
  /\ UNCHANGED <<runs, exitEvent, dir, scroll, jumpdVars>>

RunnerCrashes ==
  /\ runner = "live"
  /\ runner' = "gone"
  /\ UNCHANGED <<runs, exitEvent, dir, scroll, jumpdVars>>

-----------------------------------------------------------------------------
MetaInit ==
  /\ up = "down"
  /\ rec = "none"
  /\ persistQ = <<>>
  /\ pending = "none"
  /\ todo = [w \in Writers |-> <<>>]
  /\ val = [w \in Writers |-> "none"]
  /\ dir = FALSE
  /\ meta = "none"
  /\ temps = {}
  /\ scroll = FALSE
  /\ runner = "idle"
  /\ exitEvent = FALSE
  /\ unordered = FALSE
  /\ runs = 0
  /\ crashes = 0

FileStep(w) == MakeDir(w) \/ MakeTemp(w) \/ Rename(w) \/ RemoveFiles(w)

MetaNext ==
  \/ \E h \in Handlers :
       \/ Register(h) \/ Exit(h) \/ MarkDead(h) \/ Dismiss(h) \/ Purge(h)
       \/ Tell(h) \/ PurgeRemove(h) \/ FirstScan(h) \/ Ready(h)
  \/ \E w \in Writers : FileStep(w)
  \/ HandleEvent \/ Flush
  \/ Start \/ Sweep \/ Crash
  \/ RunnerStarts \/ ChildExits \/ RunnerGone \/ RunnerCrashes

MetaSpec == MetaInit /\ [][MetaNext]_metaVars

-----------------------------------------------------------------------------
(* Properties                                                              *)

MetaTypeOK ==
  /\ up \in {"down", "sweeping", "scanning", "serving"}
  /\ rec \in Records
  /\ persistQ \in Seq(Records) /\ Len(persistQ) <= PersistCap
  /\ pending \in Records
  /\ todo \in [Writers -> Seq(Tasks)]
  /\ val \in [Writers -> Records]
  /\ dir \in BOOLEAN
  /\ meta \in Records
  /\ temps \subseteq Writers
  /\ scroll \in BOOLEAN
  /\ runner \in {"idle", "live", "ending", "gone"}
  /\ exitEvent \in BOOLEAN
  /\ unordered \in BOOLEAN
  /\ runs \in 0..MaxRuns
  /\ crashes \in 0..MaxCrashes

HandlersIdle == \A h \in Handlers : todo[h] = <<>>

MetaQuiet ==
  /\ up = "serving"
  /\ HandlersIdle
  /\ todo[Persister] = <<>>
  /\ persistQ = <<>>
  /\ pending = "none"

(* When everything has been written, a restart would restore what the      *)
(* store holds, nothing more and nothing less, however direct writes,      *)
(* removals and flushes interleaved before and whatever an earlier crash   *)
(* left behind - as long as no event was lost and handlers that write the  *)
(* same session did not overlap, for their events may then be out of order.*)
RestartKeeps == MetaQuiet /\ ~unordered => Restored(meta) = Restored(rec)

(* Retention "must not prune them before discovery can resurrect any       *)
(* still-live runner sockets" (startup_order.go): a runner that outlives   *)
(* jumpd is never pruned, whatever handlers are at work.  A resume that    *)
(* races retention is another matter, and not promised there.              *)
RetentionSparesLive ==
  [][\A h \in Handlers :
       Task(h, "remove") /\ todo'[h] = <<"tell">> /\ runs = 1 => runner # "live"]_metaVars

(* The OnDead hook persists every landing as dead, "so dead sessions       *)
(* survive a jumpd restart" (main.go 441): once it has returned, meta.json *)
(* has the exit.  It may not: the flush of an older record may come last.  *)
ExitIsDurable == up = "serving" /\ rec = "exited" /\ HandlersIdle => meta = "exited"
=============================================================================
