------------------------------ MODULE Terminal ------------------------------
(***************************************************************************)
(* A runner's terminal (cli/jump/internal/ptyserver with session, localterm*)
(* and run.go, packages/scrollback) and the proxies between it and the     *)
(* browsers (services/jumpd/internal/wsproxy): the output of a child is    *)
(* read from its PTY, coalesced, and flushed to the virtual screen, the    *)
(* local terminal, the files and a queue per client; a client first gets a *)
(* snapshot of the screen; whoever watches resizes the PTY.                *)
(*                                                                         *)
(* The output is counted in chunks: a stretch of it is <<from, to>>, the   *)
(* chunks from + 1 to to.  Rendering, the modes replayed with a snapshot,  *)
(* input, unread marks and failures of the disk are left out.              *)
(***************************************************************************)
EXTENDS Naturals, Sequences, FiniteSets

CONSTANTS
  Clients,     \* connections, each used once
  Interactive, \* the runner was started from a terminal
  StartCols,   \* the first width
  Widths,      \* what clients and the local terminal resize to
  OutCap,      \* outboundQueueLimit (64 in the code)
  MaxActive,   \* scrollback.MaxBytes, in chunks
  MaxChunks,   \* bound on the output
  MaxResizes   \* bound on the resizes

ASSUME TerminalAssumption ==
  /\ Interactive \in BOOLEAN /\ StartCols \in Nat \ {0} /\ Widths \subseteq Nat \ {0}
  /\ {OutCap, MaxActive} \subseteq Nat \ {0} /\ {MaxChunks, MaxResizes} \subseteq Nat
  /\ Clients \cap {"tty", "main"} = {}

VARIABLES
  kid,      \* the child: "running", "exited"
  made,     \* chunks written by the child
  inCh,     \* chunks that readPTY has got, from the PTY or in readCh
  flushed,
  fl,       \* the flush in progress
  ptyDone,
  proc,     \* runSession: "run", "drain", "shrink", "set", "headless", "exit", "over"
  down,     \* Shutdown has closed the PTY
  pend,     \* chunks the virtual screen has seen or has in screenPending
  scroll,   \* the files: prev <<old, from>>, active <<from, to>>
  wired,    \* Server.localOut is set
  detached, \* Attach.detached
  localTo,  \* chunks the local terminal has got
  clients,  \* Server.clients
  cl,       \* a client's handler and its connection
  wire,     \* frames between the runner and the proxy
  browser,  \* the proxy's handler: "none", "open", "gone"
  view,     \* what the browser has got: [at, torn]
  conns,    \* Proxy.sessions
  size,     \* Server.ptyCols
  winsize,  \* the kernel's
  rz,       \* the resize of each goroutine
  resizes,
  crossed   \* two changes of the size overlapped (history)

childVars  == <<kid, made>>
readVars   == <<inCh, flushed, fl, ptyDone>>
mainVars   == <<proc, down>>
localVars  == <<wired, detached, localTo>>
connVars   == <<clients, cl>>
proxyVars  == <<wire, browser, view, conns>>
sizeVars   == <<size, winsize, rz, crossed>>
netVars    == <<connVars, proxyVars>>
restVars   == <<sizeVars, resizes>>
runnerVars == <<childVars, readVars, mainVars, pend, scroll, localVars>>
beyondRead == <<childVars, mainVars, pend, scroll, localVars, netVars, restVars>>
vars == <<beyondRead, readVars>>

Resizers == Clients \cup {"tty", "main"}
IdleFlush == [step |-> "idle", to |-> 0, local |-> FALSE, cs |-> {}]
IdleResize == [step |-> "idle", cols |-> 0, shrink |-> FALSE]

Frames == [kind : {"snap", "out", "size"}, from : Nat, to : Nat]

-----------------------------------------------------------------------------
(* The child and readPTY                                                   *)

Makes ==
  /\ kid = "running" /\ made < MaxChunks
  /\ made' = made + 1
  /\ UNCHANGED <<kid, readVars, mainVars, pend, scroll, localVars, netVars, restVars>>

Exits ==
  /\ kid = "running"
  /\ kid' = "exited"
  /\ UNCHANGED <<made, readVars, mainVars, pend, scroll, localVars, netVars, restVars>>

(* The goroutine that blocks in Read: what the PTY holds goes to readPTY,   *)
(* until it gets an error.                                                 *)
Reads ==
  /\ ~down /\ inCh < made
  /\ inCh' = inCh + 1
  /\ UNCHANGED <<beyondRead, flushed, fl, ptyDone>>

ReadDone == down \/ (kid = "exited" /\ inCh = made)

(* Mutant: the clients are listed first and the screen is fed later.       *)
FlushLocksTwice ==
  /\ \/ \E n \in flushed + 1 .. inCh :
          /\ fl.step = "idle" /\ ~ptyDone
          /\ fl' = [step |-> "feed", to |-> n, local |-> wired, cs |-> clients]
          /\ UNCHANGED pend
     \/ /\ fl.step = "feed"
        /\ pend' = fl.to
        /\ fl' = [fl EXCEPT !.step = "write"]
  /\ UNCHANGED <<childVars, inCh, flushed, ptyDone, mainVars, scroll, localVars, netVars,
                 restVars>>

(* flush, when the timer fires, enough has accumulated or the last of it   *)
(* has come.  Under the lock: the screen's queue, and who is there to be   *)
(* told.                                                                   *)
FlushLocks ==
  \E n \in flushed + 1 .. inCh :
    /\ fl.step = "idle" /\ ~ptyDone
    /\ pend' = n
    /\ fl' = [step |-> "write", to |-> n, local |-> wired, cs |-> clients]
    /\ UNCHANGED <<childVars, inCh, flushed, ptyDone, mainVars, scroll, localVars, netVars,
                   restVars>>

(* The active file becomes the previous one, over the one before.          *)
Rotated == [scroll EXCEPT !.old = scroll.from, !.from = scroll.to]

(* scrollback.Writer: rotate when the data does not fit; a closed writer   *)
(* drops.                                                                  *)
Persist(to) ==
  IF scroll.closed THEN scroll
  ELSE [(IF to - scroll.from > MaxActive THEN Rotated ELSE scroll) EXCEPT !.to = to]

(* A terminal detached since the flush took its writer swallows.           *)
LocalWrite(to) == localTo' = IF fl.local /\ ~detached THEN to ELSE localTo

FlushWrites ==
  /\ fl.step = "write"
  /\ LocalWrite(fl.to)
  /\ scroll' = Persist(fl.to)
  /\ fl' = [fl EXCEPT !.step = "send"]
  /\ UNCHANGED <<childVars, inCh, flushed, ptyDone, mainVars, pend, wired, detached, connVars,
                 proxyVars, restVars>>

(* enqueue: a client whose queue is full is cancelled.                     *)
Enqueue(c, f) ==
  IF cl[c].cancelled THEN cl[c]
  ELSE IF Len(cl[c].out) < OutCap THEN [cl[c] EXCEPT !.out = Append(@, f)]
       ELSE [cl[c] EXCEPT !.cancelled = TRUE]

EnqueueAll(cs, f) == cl' = [c \in Clients |-> IF c \in cs THEN Enqueue(c, f) ELSE cl[c]]

FlushSends ==
  /\ fl.step = "send"
  /\ EnqueueAll(fl.cs, [kind |-> "out", from |-> flushed, to |-> fl.to])
  /\ flushed' = fl.to
  /\ fl' = IdleFlush
  /\ UNCHANGED <<childVars, inCh, ptyDone, mainVars, pend, scroll, localVars, clients, proxyVars,
                 restVars>>

(* Mutant: the chunks left in readCh are not drained.                      *)
ReadPTYEndsEarly ==
  /\ ReadDone /\ fl.step = "idle" /\ ~ptyDone
  /\ ptyDone' = TRUE
  /\ UNCHANGED <<beyondRead, inCh, flushed, fl>>

(* readPTY returns after the chunks left in readCh and the last flush.     *)
ReadPTYEnds ==
  /\ ReadDone /\ fl.step = "idle" /\ flushed = inCh /\ ~ptyDone
  /\ ptyDone' = TRUE
  /\ UNCHANGED <<beyondRead, inCh, flushed, fl>>

-----------------------------------------------------------------------------
(* Clients of the WebSocket                                                *)

Up == proc # "over"
Lives(c) == cl[c].step \in {"snapshot", "live"}

(* The screen is fed what is pending, then rendered: all chunks up to here.*)
Snapshot == pend

(* wsproxy.Handler dials; handleWS takes the snapshot and registers the    *)
(* client under one lock.                                                  *)
ClientConnects(c) ==
  /\ Up /\ ~down /\ cl[c].step = "none"
  /\ clients' = clients \cup {c}
  /\ cl' = [cl EXCEPT ![c].step = "snapshot", ![c].snap = Snapshot]
  /\ conns' = conns \cup {c} /\ browser' = [browser EXCEPT ![c] = "open"]
  /\ UNCHANGED <<childVars, readVars, mainVars, pend, scroll, localVars, wire, view, sizeVars,
                 resizes>>

(* The snapshot is written outside the lock, before the queue; then the    *)
(* session counts as read.                                                 *)
WritesSnapshot(c) ==
  /\ cl[c].step = "snapshot" /\ browser[c] = "open" /\ ~cl[c].cancelled
  /\ wire' = [wire EXCEPT ![c] = <<[kind |-> "snap", from |-> 0, to |-> cl[c].snap]>>]
  /\ cl' = [cl EXCEPT ![c].step = "live"]
  /\ UNCHANGED <<runnerVars, clients, browser, view, conns, sizeVars, resizes>>

(* runWriter: one frame at a time; a write that fails or takes too long    *)
(* cancels the client.                                                     *)
Writes(c) ==
  /\ cl[c].step = "live" /\ ~cl[c].cancelled /\ ~cl[c].hung
  /\ cl[c].out # <<>> /\ wire[c] = <<>> /\ browser[c] = "open"
  /\ wire' = [wire EXCEPT ![c] = <<Head(cl[c].out)>>]
  /\ cl' = [cl EXCEPT ![c].out = Tail(@)]
  /\ UNCHANGED <<runnerVars, clients, browser, view, conns, restVars>>

WriteFails(c) ==
  /\ Lives(c) /\ ~cl[c].cancelled
  /\ \/ cl[c].step = "live" /\ cl[c].out # <<>> /\ (wire[c] # <<>> \/ browser[c] # "open")
     \/ cl[c].step = "snapshot" /\ browser[c] # "open"
  /\ cl' = [cl EXCEPT ![c].cancelled = TRUE]
  /\ UNCHANGED <<runnerVars, clients, proxyVars, restVars>>

(* The read loop ends with the connection or the context.                  *)
ReadEnds(c) ==
  /\ Lives(c) /\ rz[c].step = "idle"
  /\ cl[c].cancelled \/ cl[c].hung \/ browser[c] # "open"
  /\ cl' = [cl EXCEPT ![c].step = "leaving"]
  /\ UNCHANGED <<runnerVars, clients, proxyVars, restVars>>

(* The deferred function: out of the table, and the connection is closed,  *)
(* before which the last to leave makes the PTY narrower.                  *)
Leaves(c) ==
  LET last == clients = {c} IN
  /\ cl[c].step = "leaving"
  /\ clients' = clients \ {c}
  /\ cl' = [cl EXCEPT ![c].step = IF last /\ ~wired THEN "shrink" ELSE "gone"]
  /\ UNCHANGED <<runnerVars, proxyVars, sizeVars, resizes>>

ClientStep(c) == \/ ClientConnects(c) \/ WritesSnapshot(c) \/ Writes(c) \/ WriteFails(c) \/ ReadEnds(c)
                 \/ Leaves(c)

-----------------------------------------------------------------------------
(* The proxy and the browser                                               *)

Ended(c) == (cl[c].step = "gone" /\ rz[c].step = "idle") \/ cl[c].hung \/ ~Up

(* proxyBackendToClient: a frame, whose size the store is told.            *)
Forwards(c) ==
  LET f == Head(wire[c]) IN
  /\ browser[c] = "open" /\ wire[c] # <<>>
  /\ wire' = [wire EXCEPT ![c] = <<>>]
  /\ view' = [view EXCEPT ![c] =
       IF f.kind = "size" THEN @
       ELSE IF f.kind = "snap" \/ f.from = @.at THEN [@ EXCEPT !.at = f.to]
       ELSE [at |-> f.to, torn |-> TRUE]]
  /\ UNCHANGED <<runnerVars, connVars, browser, conns, sizeVars, resizes>>

(* The browser goes, or its write takes too long, or the runner has ended: *)
(* either copy loop cancels the other.                                     *)
ProxyStops(c) ==
  /\ browser[c] = "open"
  /\ browser' = [browser EXCEPT ![c] = "gone"]
  /\ conns' = conns \ {c}
  /\ UNCHANGED <<runnerVars, connVars, wire, view, restVars>>

RunnerHangsUp(c) == Ended(c) /\ wire[c] = <<>> /\ ProxyStops(c)

ProxyStep(c) == Forwards(c) \/ RunnerHangsUp(c)

-----------------------------------------------------------------------------
(* The size                                                                *)

Halfway == {r \in Resizers : rz[r].step = "set"}
RzTo(r, rec) == rz' = [rz EXCEPT ![r] = rec]

(* What a new width does under the lock.                                   *)
SetSize(r, w) ==
  /\ size' = w
  /\ crossed' = (crossed \/ Halfway \ {r} # {})

(* The proxy passes on what a browser sends to the client's read loop.     *)
FromBrowser(c) == cl[c].step = "live" /\ ~cl[c].cancelled /\ browser[c] = "open"

(* The user's terminal tells its width when it changes or gains the focus. *)
FromTerminal == Interactive /\ ~detached

MayResize(r) ==
  /\ Up /\ rz[r].step = "idle"
  /\ IF r = "tty" THEN FromTerminal ELSE r \in Clients /\ FromBrowser(r)

(* resize: an unchanged width is announced all the same.                   *)
Resize(r, w) ==
  /\ MayResize(r) /\ resizes < MaxResizes
  /\ resizes' = resizes + 1
  /\ \/ /\ w # size /\ SetSize(r, w)
        /\ RzTo(r, [step |-> "set", cols |-> w, shrink |-> FALSE])
     \/ /\ w = size
        /\ RzTo(r, [step |-> "send", cols |-> w, shrink |-> FALSE])
        /\ UNCHANGED <<size, crossed>>
  /\ UNCHANGED <<childVars, readVars, mainVars, pend, scroll, localVars, netVars, winsize>>

Setsize(r) ==
  /\ rz[r].step = "set"
  /\ winsize' = rz[r].cols
  /\ RzTo(r, IF rz[r].shrink THEN IdleResize ELSE [rz[r] EXCEPT !.step = "send"])
  /\ UNCHANGED <<runnerVars, netVars, size, crossed, resizes>>

AnnouncesSize(r) ==
  /\ rz[r].step = "send"
  /\ EnqueueAll(clients, [kind |-> "size", from |-> 0, to |-> rz[r].cols])
  /\ RzTo(r, IdleResize)
  /\ UNCHANGED <<runnerVars, clients, proxyVars, size, winsize, crossed, resizes>>

(* Mutant: the kernel's width shrinks, the recorded one stays.             *)
ShrinkUnrecorded(r, w) ==
  /\ \/ /\ kid = "running" /\ size > 1 /\ clients = {} /\ ~wired
        /\ RzTo(r, [step |-> "set", cols |-> w, shrink |-> TRUE])
     \/ /\ kid = "exited" \/ size <= 1 \/ clients # {} \/ wired
        /\ UNCHANGED rz
  /\ UNCHANGED <<size, crossed, pend, winsize>>

(* shrinkForReconnect, after the last viewer has gone and if none has come *)
(* since: the next one's width then is another.                            *)
ShrinkLocks(r, w) ==
  /\ \/ /\ kid = "running" /\ size > 1 /\ clients = {} /\ ~wired
        /\ SetSize(r, w)
        /\ RzTo(r, [step |-> "set", cols |-> w, shrink |-> TRUE])
     \/ /\ kid = "exited" \/ size <= 1 \/ clients # {} \/ wired
        /\ UNCHANGED <<size, crossed, rz>>
  /\ UNCHANGED <<pend, winsize>>

ClientShrinks(c) ==
  /\ cl[c].step = "shrink"
  /\ ShrinkLocks(c, size - 1)
  /\ cl' = [cl EXCEPT ![c].step = "gone"]
  /\ UNCHANGED <<childVars, readVars, mainVars, scroll, localVars, clients, proxyVars, resizes>>

ResizeStep(r) == Setsize(r) \/ AnnouncesSize(r)

-----------------------------------------------------------------------------
(* waitChild and runSession                                                *)

beyondMain == <<childVars, readVars, proxyVars, restVars>>

(* After the last flush the file is closed and the clients are hung up.    *)
WaitChild ==
  /\ kid = "exited" /\ ptyDone /\ ~scroll.closed
  /\ scroll' = [scroll EXCEPT !.closed = TRUE]
  /\ cl' = [c \in Clients |-> IF c \in clients THEN [cl[c] EXCEPT !.hung = TRUE] ELSE cl[c]]
  /\ UNCHANGED <<beyondMain, clients, mainVars, pend, localVars>>

Goes(p) == proc' = p /\ UNCHANGED <<beyondMain, pend, scroll>>

(* Done: with a terminal the last output is waited for, but not for long.  *)
SeesDone ==
  /\ proc \in {"run", "headless"} /\ kid = "exited"
  /\ Goes(IF proc = "run" /\ Interactive THEN "drain" ELSE "over")
  /\ UNCHANGED <<connVars, down, localVars>>

Drained ==
  /\ proc = "drain"
  /\ Goes("over") /\ detached' = TRUE
  /\ UNCHANGED <<connVars, down, wired, localTo>>

(* readStdin detaches the terminal at the end of its input.                *)
StdinCloses ==
  /\ FromTerminal /\ rz["tty"].step = "idle"
  /\ detached' = TRUE
  /\ UNCHANGED <<beyondMain, connVars, mainVars, pend, scroll, wired, localTo>>

(* stdin has closed, or SIGHUP: the session goes on without the terminal;  *)
(* SetLocalOutput(nil) shrinks like the last client.                       *)
Detaches ==
  /\ proc = "run" /\ Interactive
  /\ Goes(IF clients = {} THEN "shrink" ELSE "headless")
  /\ detached' = TRUE /\ wired' = FALSE
  /\ UNCHANGED <<connVars, down, localTo>>

MainShrinks ==
  /\ proc = "shrink"
  /\ ShrinkLocks("main", size - 1)
  /\ proc' = "set"
  /\ UNCHANGED <<childVars, readVars, down, scroll, localVars, netVars, resizes>>

MainShrunk == proc = "set" /\ rz["main"].step = "idle" /\ Goes("headless")
              /\ UNCHANGED <<connVars, down, localVars>>

(* SIGINT, SIGTERM: Shutdown.                                              *)
ShutsDown ==
  /\ proc = "run"
  /\ Goes("exit")
  /\ down' = TRUE
  /\ detached' = (detached \/ Interactive)
  /\ cl' = [c \in Clients |-> IF c \in clients THEN [cl[c] EXCEPT !.cancelled = TRUE] ELSE cl[c]]
  /\ UNCHANGED <<clients, wired, localTo>>

(* SetExited, the deregistration, os.Exit.                                 *)
ProcessExits == proc = "exit" /\ Goes("over") /\ UNCHANGED <<connVars, down, localVars>>

MainStep == SeesDone \/ Drained \/ MainShrinks \/ MainShrunk \/ ProcessExits
ReadStep == FlushLocks \/ FlushWrites \/ FlushSends \/ ReadPTYEnds

-----------------------------------------------------------------------------
Init ==
  /\ kid = "running" /\ made = 0 /\ inCh = 0 /\ flushed = 0
  /\ fl = IdleFlush /\ ptyDone = FALSE /\ proc = "run" /\ down = FALSE
  /\ pend = 0
  /\ scroll = [old |-> 0, from |-> 0, to |-> 0, closed |-> FALSE]
  /\ wired = Interactive /\ detached = FALSE /\ localTo = 0
  /\ clients = {}
  /\ cl = [c \in Clients |-> [step |-> "none", snap |-> 0, out |-> <<>>, cancelled |-> FALSE,
                              hung |-> FALSE]]
  /\ wire = [c \in Clients |-> <<>>] /\ browser = [c \in Clients |-> "none"]
  /\ view = [c \in Clients |-> [at |-> 0, torn |-> FALSE]] /\ conns = {}
  /\ size = StartCols /\ winsize = StartCols
  /\ rz = [r \in Resizers |-> IdleResize]
  /\ resizes = 0 /\ crossed = FALSE

Next ==
  \/ /\ Up
     /\ \/ Makes \/ Exits \/ Reads \/ ReadStep
        \/ WaitChild \/ MainStep \/ StdinCloses \/ Detaches \/ ShutsDown
        \/ \E c \in Clients : ClientStep(c) \/ ClientShrinks(c)
        \/ \E r \in Resizers : ResizeStep(r) \/ \E w \in Widths : Resize(r, w)
  \/ \E c \in Clients : ProxyStep(c) \/ ProxyStops(c)

Spec == Init /\ [][Next]_vars

(* Goroutines run and writes time out; the child and the browsers do as    *)
(* they like.                                                              *)
FairSpec ==
  /\ Spec
  /\ \A c \in Clients :
       /\ WF_vars(Up /\ (WritesSnapshot(c) \/ WriteFails(c) \/ ReadEnds(c) \/ Leaves(c)
                         \/ ClientShrinks(c)))
       /\ WF_vars(RunnerHangsUp(c))
  /\ \A r \in Resizers : WF_vars(Up /\ ResizeStep(r))

-----------------------------------------------------------------------------
(* Properties                                                              *)

Handlers ==
  [step : {"none", "snapshot", "live", "leaving", "shrink", "gone"}, snap : Nat, out : Seq(Frames),
   cancelled : BOOLEAN, hung : BOOLEAN]

ReadTypes ==
  /\ kid \in {"running", "exited"} /\ ptyDone \in BOOLEAN /\ down \in BOOLEAN
  /\ made \in 0..MaxChunks /\ inCh \in 0..made /\ flushed \in 0..inCh
  /\ pend \in flushed..inCh /\ localTo \in 0..inCh
  /\ fl \in [step : {"idle", "write", "send"}, to : 0..inCh, local : BOOLEAN, cs : SUBSET Clients]
  /\ scroll \in [old : Nat, from : Nat, to : Nat, closed : BOOLEAN]
  /\ scroll.old <= scroll.from /\ scroll.from <= scroll.to /\ scroll.to <= pend
  /\ wired \in BOOLEAN /\ detached \in BOOLEAN

ClientTypes ==
  /\ clients \subseteq Clients /\ cl \in [Clients -> Handlers]
  /\ \A c \in Clients : Len(cl[c].out) <= OutCap
  /\ wire \in [Clients -> Seq(Frames)] /\ \A c \in Clients : Len(wire[c]) <= 1
  /\ browser \in [Clients -> {"none", "open", "gone"}] /\ conns \subseteq Clients
  /\ view \in [Clients -> [at : Nat, torn : BOOLEAN]]

SizeTypes ==
  /\ {size, winsize} \subseteq Nat \ {0} /\ crossed \in BOOLEAN
  /\ rz \in [Resizers -> [step : {"idle", "set", "send"}, cols : Nat, shrink : BOOLEAN]]
  /\ \A r \in Resizers : rz[r].step # "idle" => rz[r].cols # 0
  /\ proc \in {"run", "drain", "shrink", "set", "headless", "exit", "over"} /\ resizes \in Nat

TypeOK == ReadTypes /\ ClientTypes /\ SizeTypes

(* A browser gets every chunk once and in order, the first of them in the  *)
(* snapshot: none is in both the snapshot and the queue, none in neither.  *)
NoGapNoRepeat == \A c \in Clients : ~view[c].torn

(* When the PTY is done the local terminal, if it is attached, has got all *)
(* the output; when the file is closed it ends with the last chunk and     *)
(* holds all of the output or more than MaxBytes.                          *)
OutputSaved ==
  /\ ptyDone /\ ~down /\ wired /\ ~detached => localTo = made
  /\ scroll.closed /\ ~down =>
       scroll.to = made /\ (scroll.old = 0 \/ scroll.to - scroll.old > MaxActive)

(* Kernel, virtual screen and record have the same width whenever nobody   *)
(* is about to set it.  Excepted are changes that overlapped: they reach   *)
(* the kernel in either order.                                             *)
SizesAgree == Halfway = {} /\ ~crossed => winsize = size

(* What a browser leaves behind is removed from the runner's table, unless *)
(* the runner ends, and from the proxy's.                                  *)
LeaversForgotten ==
  \A c \in Clients : browser[c] = "gone" ~> c \notin conns /\ (c \notin clients \/ ~Up)
=============================================================================
