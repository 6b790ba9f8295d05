---------------------------- MODULE RunnerProofs ----------------------------
(***************************************************************************)
(* Proofs about the runner: its terminal (module Terminal) and its life    *)
(* (module SessionLifecycle).                                              *)
(*                                                                         *)
(* For any number of clients, of chunks and of resizes and any capacity of *)
(* a queue and of a file, a browser gets the output once and in order,     *)
(* none of it is lost to the local terminal or the files, and the kernel   *)
(* has the width the server has recorded.                                  *)
(*                                                                         *)
(* For any number of runners, of subscriptions and of requests, a restart  *)
(* launches its runner on a free path.                                     *)
(***************************************************************************)
EXTENDS Terminal, SessionLifecycle, SequenceTheorems, TLAPS

-----------------------------------------------------------------------------
(* The inductive invariant                                                 *)

(* The frames q of a queue take a reader of the chunks up to m to e, each  *)
(* stretch beginning where the last one ended: p says where each ends.     *)
Follows(q, m, e) ==
  \E p \in [0..Len(q) -> 0..MaxChunks] :
    /\ p[0] = m /\ p[Len(q)] = e
    /\ \A i \in 1..Len(q) :
         \/ q[i].kind = "size" /\ p[i] = p[i - 1]
         \/ q[i].kind = "out" /\ q[i].from = p[i - 1] /\ q[i].to = p[i]

(* The flush in progress has fed the screen and not yet told anyone.       *)
FlushInOrder ==
  IF fl.step = "idle" THEN pend = flushed ELSE fl.to = pend

(* Where a client stands when its connection is empty, and where it will   *)
(* stand after its queue: what the flush in progress will add is missing.  *)
Mid(c) ==
  IF cl[c].step = "snapshot" THEN cl[c].snap
  ELSE IF wire[c] = <<>> \/ Head(wire[c]).kind = "size" THEN view[c].at
  ELSE Head(wire[c]).to

Tip(c) == IF fl.step # "idle" /\ c \in fl.cs THEN flushed ELSE pend

Chain(c) ==
  /\ ~view[c].torn
  /\ wire[c] # <<>> /\ Head(wire[c]).kind = "out" => Head(wire[c]).from = view[c].at
  /\ Lives(c) => c \in clients
  /\ Lives(c) /\ ~cl[c].cancelled => Follows(cl[c].out, Mid(c), Tip(c))
  /\ cl[c].step \in {"none", "snapshot"} => wire[c] = <<>>
  /\ cl[c].step = "none" => cl[c].out = <<>> /\ c \notin clients
  /\ cl[c].step = "none" /\ fl.step # "idle" => c \notin fl.cs

ChainInv == \A c \in Clients : Chain(c)

(* Who gets the output, and how much of it is written.                     *)
Written == IF fl.step = "send" THEN fl.to ELSE flushed

OutputInv ==
  /\ wired /\ ~detached => localTo = Written
  /\ wired /\ fl.step # "idle" => fl.local
  /\ ptyDone => fl.step = "idle" /\ ReadDone /\ (flushed = inCh \/ down)
  /\ scroll.closed => ptyDone /\ kid = "exited"
  /\ ptyDone /\ ~down => flushed = made
  /\ scroll.to = Written
  /\ scroll.old = 0 \/ scroll.to - scroll.old > MaxActive

(* One goroutine at a time is about to set the width, to the recorded one. *)
SizeInv ==
  ~crossed =>
    /\ Halfway = {} => winsize = size
    /\ \A r \in Halfway : rz[r].cols = size /\ Halfway \subseteq {r}

TerminalInv == TypeOK /\ FlushInOrder /\ ChainInv /\ OutputInv /\ SizeInv
-----------------------------------------------------------------------------
(* Types                                                                   *)

LEMMA ReadTyped ==
  ASSUME TypeOK, FlushInOrder, Next
  PROVE  ReadTypes' /\ FlushInOrder'
<1> USE TerminalAssumption DEF TypeOK, ReadTypes, FlushInOrder
<1>1. CASE Makes
  BY <1>1 DEF Makes, readVars, mainVars, localVars
<1>2. CASE Exits
  BY <1>2 DEF Exits, readVars, mainVars, localVars
<1>3. CASE Reads
  BY <1>3 DEF Reads, beyondRead, childVars, mainVars, localVars
<1>4. CASE FlushLocks
  BY <1>4 DEF FlushLocks, childVars, mainVars, localVars, ClientTypes
<1>5. CASE FlushWrites
  <2>1. fl.step = "write" /\ fl.to = pend /\ fl.to \in Nat /\ scroll.to <= fl.to
    BY <1>5 DEF FlushWrites
  <2>2. /\ scroll' \in [old : Nat, from : Nat, to : Nat, closed : BOOLEAN]
        /\ scroll'.old <= scroll'.from /\ scroll'.from <= scroll'.to /\ scroll'.to <= pend
    <3>1. CASE scroll.closed
      BY <1>5, <3>1 DEF FlushWrites, Persist
    <3>2. CASE ~scroll.closed /\ fl.to - scroll.from > MaxActive
      <4>1. scroll' = [old |-> scroll.from, from |-> scroll.to, to |-> fl.to, closed |-> FALSE]
        BY <1>5, <3>2 DEF FlushWrites, Persist, Rotated
      <4> QED BY <2>1, <4>1
    <3>3. CASE ~scroll.closed /\ ~(fl.to - scroll.from > MaxActive)
      <4>1. scroll' = [old |-> scroll.old, from |-> scroll.from, to |-> fl.to, closed |-> FALSE]
        BY <1>5, <3>3 DEF FlushWrites, Persist
      <4> QED BY <2>1, <4>1
    <3> QED BY <3>1, <3>2, <3>3
  <2>3. localTo' \in 0..inCh
    BY <1>5 DEF FlushWrites, LocalWrite
  <2> QED BY <1>5, <2>1, <2>2, <2>3 DEF FlushWrites, childVars, mainVars
<1>6. CASE FlushSends
  BY <1>6 DEF FlushSends, IdleFlush, childVars, mainVars, localVars
<1>7. CASE ReadPTYEnds
  BY <1>7 DEF ReadPTYEnds, beyondRead, childVars, mainVars, localVars
<1>8. CASE WaitChild
  BY <1>8 DEF WaitChild, beyondMain, childVars, readVars, mainVars, localVars
<1>9. CASE SeesDone \/ MainShrunk \/ ProcessExits
  BY <1>9 DEF SeesDone, MainShrunk, ProcessExits, Goes, beyondMain, childVars, readVars, localVars
<1>10. CASE Drained \/ Detaches \/ ShutsDown
  BY <1>10 DEF Drained, Detaches, ShutsDown, Goes, beyondMain, childVars, readVars
<1>11. CASE StdinCloses
  BY <1>11 DEF StdinCloses, beyondMain, childVars, readVars, mainVars
<1>12. CASE MainShrinks
  BY <1>12 DEF MainShrinks, ShrinkLocks, childVars, readVars, localVars
<1>13. CASE UNCHANGED <<childVars, readVars, down, pend, scroll, localVars>>
  BY <1>13 DEF childVars, readVars, localVars
<1>14. ASSUME NEW c \in Clients, ClientStep(c) \/ ClientShrinks(c) \/ ProxyStep(c) \/ ProxyStops(c)
       PROVE  UNCHANGED <<childVars, readVars, down, pend, scroll, localVars>>
  BY <1>14
  DEF ClientStep, ClientConnects, WritesSnapshot, Writes, WriteFails, ReadEnds, Leaves, ClientShrinks,
      ShrinkLocks, ProxyStep, Forwards, RunnerHangsUp, ProxyStops, runnerVars, mainVars
<1>15. ASSUME NEW r \in Resizers, ResizeStep(r) \/ \E w \in Widths : Resize(r, w)
       PROVE  UNCHANGED <<childVars, readVars, down, pend, scroll, localVars>>
  BY <1>15 DEF ResizeStep, Setsize, AnnouncesSize, Resize, runnerVars, mainVars
<1> HIDE DEF TypeOK, ReadTypes, FlushInOrder
<1> QED
  BY <1>1, <1>2, <1>3, <1>4, <1>5, <1>6, <1>7, <1>8, <1>9, <1>10, <1>11, <1>12, <1>13, <1>14, <1>15
  DEF Next, ReadStep, MainStep

(* A handler's record, and a change of it.                                 *)
LEMMA HandlerTyped ==
  ASSUME NEW h \in Handlers
  PROVE  /\ \A s \in {"snapshot", "live", "leaving", "shrink", "gone"} :
              [h EXCEPT !.step = s] \in Handlers /\ [h EXCEPT !.step = s].out = h.out
         /\ [h EXCEPT !.cancelled = TRUE] \in Handlers /\ [h EXCEPT !.cancelled = TRUE].out = h.out
         /\ [h EXCEPT !.hung = TRUE] \in Handlers /\ [h EXCEPT !.hung = TRUE].out = h.out
         /\ \A n \in Nat : [h EXCEPT !.snap = n] \in Handlers /\ [h EXCEPT !.snap = n].out = h.out
         /\ \A q \in Seq(Frames) : [h EXCEPT !.out = q] \in Handlers /\ [h EXCEPT !.out = q].out = q
         /\ h.out \in Seq(Frames) /\ Len(h.out) \in Nat
BY LenProperties DEF Handlers

LEMMA HandlerSet ==
  ASSUME TypeOK, NEW c \in Clients, NEW h \in Handlers, Len(h.out) <= OutCap,
         cl' = [cl EXCEPT ![c] = h]
  PROVE  cl' \in [Clients -> Handlers] /\ \A d \in Clients : Len(cl'[d].out) <= OutCap
BY DEF TypeOK, ClientTypes

(* A frame for some of the clients keeps everyone's record.                *)
LEMMA EnqueueTyped ==
  ASSUME TypeOK, NEW cs, NEW f \in Frames, EnqueueAll(cs, f)
  PROVE  cl' \in [Clients -> Handlers] /\ \A c \in Clients : Len(cl'[c].out) <= OutCap
<1>1. ASSUME NEW c \in Clients
      PROVE  Enqueue(c, f) \in Handlers /\ Len(Enqueue(c, f).out) <= OutCap
  <2>1. cl[c] \in Handlers /\ Len(cl[c].out) <= OutCap /\ cl[c].out \in Seq(Frames)
    BY HandlerTyped DEF TypeOK, ClientTypes
  <2>2. Append(cl[c].out, f) \in Seq(Frames) /\ Len(Append(cl[c].out, f)) = Len(cl[c].out) + 1
    BY <2>1, AppendProperties
  <2>3. Len(cl[c].out) \in Nat
    BY <2>1, LenProperties
  <2>4. CASE Enqueue(c, f) = cl[c]
    BY <2>1, <2>4
  <2>5. CASE Enqueue(c, f) = [cl[c] EXCEPT !.cancelled = TRUE]
    BY <2>1, <2>5, HandlerTyped
  <2>6. CASE /\ Enqueue(c, f) = [cl[c] EXCEPT !.out = Append(cl[c].out, f)]
             /\ Len(cl[c].out) < OutCap
    <3> DEFINE q == Append(cl[c].out, f)
    <3>1. q \in Seq(Frames) /\ Len(q) = Len(cl[c].out) + 1
      BY <2>2
    <3> HIDE DEF q
    <3>2. [cl[c] EXCEPT !.out = q] \in Handlers /\ [cl[c] EXCEPT !.out = q].out = q
      BY <2>1, <3>1, HandlerTyped
    <3> QED BY <2>3, <2>6, <3>1, <3>2, TerminalAssumption DEF q
  <2> QED BY <2>4, <2>5, <2>6 DEF Enqueue
<1> QED BY <1>1 DEF EnqueueAll, TypeOK, ClientTypes

LEMMA ClientTyped ==
  ASSUME TypeOK, Next
  PROVE  ClientTypes'
<1> USE DEF TypeOK, ClientTypes
<1>1. ASSUME NEW c \in Clients, ClientConnects(c) PROVE ClientTypes'
  <2> DEFINE g == [cl[c] EXCEPT !.step = "snapshot"]
             h == [g EXCEPT !.snap = pend]
  <2>1. pend \in Nat
    BY DEF ReadTypes
  <2>2. g \in Handlers /\ g.out = cl[c].out
    BY HandlerTyped
  <2> HIDE DEF g
  <2>3. h \in Handlers /\ h.out = cl[c].out
    BY <2>1, <2>2, HandlerTyped
  <2>4. cl' = [cl EXCEPT ![c] = h]
    BY <1>1 DEF ClientConnects, Snapshot, g
  <2> HIDE DEF h
  <2>5. cl' \in [Clients -> Handlers] /\ \A d \in Clients : Len(cl'[d].out) <= OutCap
    BY <2>3, <2>4, HandlerSet
  <2> QED BY <1>1, <2>5 DEF ClientConnects
<1>2. ASSUME NEW c \in Clients, WritesSnapshot(c) PROVE ClientTypes'
  <2> DEFINE f == [kind |-> "snap", from |-> 0, to |-> cl[c].snap]
  <2>1. f \in Frames
    BY DEF Handlers, Frames
  <2>2. <<f>> \in Seq(Frames) /\ Len(<<f>>) = 1
    BY <2>1
  <2>3. wire' = [wire EXCEPT ![c] = <<f>>] /\ cl' = [cl EXCEPT ![c].step = "live"]
    BY <1>2 DEF WritesSnapshot
  <2> HIDE DEF f
  <2>4. cl' = [cl EXCEPT ![c] = [cl[c] EXCEPT !.step = "live"]]
    BY <2>3
  <2>5. cl' \in [Clients -> Handlers] /\ \A d \in Clients : Len(cl'[d].out) <= OutCap
    BY <2>4, HandlerTyped, HandlerSet
  <2> QED BY <1>2, <2>2, <2>3, <2>5 DEF WritesSnapshot
<1>3. ASSUME NEW c \in Clients, Writes(c) PROVE ClientTypes'
  <2>1. cl[c].out \in Seq(Frames) /\ cl[c].out # <<>> /\ Len(cl[c].out) \in Nat
    BY <1>3, LenProperties DEF Writes, Handlers
  <2>2. /\ Head(cl[c].out) \in Frames /\ Tail(cl[c].out) \in Seq(Frames)
        /\ Len(Tail(cl[c].out)) = Len(cl[c].out) - 1
    BY <2>1, HeadTailProperties
  <2>3. <<Head(cl[c].out)>> \in Seq(Frames) /\ Len(<<Head(cl[c].out)>>) = 1
    BY <2>2
  <2>4. wire' \in [Clients -> Seq(Frames)] /\ \A d \in Clients : Len(wire'[d]) <= 1
    BY <1>3, <2>3 DEF Writes
  <2>5. cl' \in [Clients -> Handlers] /\ \A d \in Clients : Len(cl'[d].out) <= OutCap
    <3>1. cl' = [cl EXCEPT ![c] = [cl[c] EXCEPT !.out = Tail(cl[c].out)]]
      BY <1>3 DEF Writes
    <3>2. Len(Tail(cl[c].out)) <= OutCap
      BY <2>1, <2>2, TerminalAssumption
    <3> DEFINE q == Tail(cl[c].out)
               h == [cl[c] EXCEPT !.out = q]
    <3>3. cl[c] \in Handlers /\ q \in Seq(Frames) /\ Len(q) <= OutCap
      BY <2>2, <3>2
    <3> HIDE DEF q
    <3>4. [cl[c] EXCEPT !.out = q] \in Handlers /\ [cl[c] EXCEPT !.out = q].out = q
      BY <3>3, HandlerTyped
    <3>5. h \in Handlers /\ Len(h.out) <= OutCap
      BY <3>3, <3>4
    <3>6. cl' = [cl EXCEPT ![c] = h]
      BY <3>1 DEF q
    <3> HIDE DEF h
    <3> QED BY <3>5, <3>6, HandlerSet
  <2> QED BY <1>3, <2>4, <2>5 DEF Writes
<1>4. ASSUME NEW c \in Clients, WriteFails(c) \/ ReadEnds(c) PROVE ClientTypes'
  <2>1. \/ cl' = [cl EXCEPT ![c] = [cl[c] EXCEPT !.cancelled = TRUE]]
        \/ cl' = [cl EXCEPT ![c] = [cl[c] EXCEPT !.step = "leaving"]]
    BY <1>4 DEF WriteFails, ReadEnds
  <2>2. cl' \in [Clients -> Handlers] /\ \A d \in Clients : Len(cl'[d].out) <= OutCap
    <3>1. cl[c] \in Handlers /\ Len(cl[c].out) <= OutCap
      OBVIOUS
    <3>2. PICK h \in Handlers : Len(h.out) <= OutCap /\ cl' = [cl EXCEPT ![c] = h]
      BY <2>1, <3>1, HandlerTyped
    <3> QED BY <3>2, HandlerSet
  <2> QED BY <1>4, <2>2 DEF WriteFails, ReadEnds, proxyVars
<1>5. ASSUME NEW c \in Clients, Leaves(c) \/ ClientShrinks(c) PROVE ClientTypes'
  <2>1. \E s \in {"shrink", "gone"} : cl' = [cl EXCEPT ![c] = [cl[c] EXCEPT !.step = s]]
    BY <1>5 DEF Leaves, ClientShrinks
  <2>2. cl' \in [Clients -> Handlers] /\ \A d \in Clients : Len(cl'[d].out) <= OutCap
    <3>1. cl[c] \in Handlers /\ Len(cl[c].out) <= OutCap
      OBVIOUS
    <3>2. PICK h \in Handlers : Len(h.out) <= OutCap /\ cl' = [cl EXCEPT ![c] = h]
      BY <2>1, <3>1, HandlerTyped
    <3> QED BY <3>2, HandlerSet
  <2> QED BY <1>5, <2>2 DEF Leaves, ClientShrinks, proxyVars
<1>6. ASSUME NEW c \in Clients, Forwards(c) PROVE ClientTypes'
  <2>1. Head(wire[c]) \in Frames
    BY <1>6, HeadTailProperties DEF Forwards
  <2>2. view' \in [Clients -> [at : Nat, torn : BOOLEAN]]
    BY <1>6, <2>1 DEF Forwards, Frames
  <2>3. wire' \in [Clients -> Seq(Frames)] /\ \A d \in Clients : Len(wire'[d]) <= 1
    BY <1>6, EmptySeq DEF Forwards
  <2> QED BY <1>6, <2>2, <2>3 DEF Forwards, connVars
<1>7. ASSUME NEW c \in Clients, ProxyStops(c) PROVE ClientTypes'
  BY <1>7 DEF ProxyStops, connVars
<1>8. CASE FlushSends
  <2> DEFINE f == [kind |-> "out", from |-> flushed, to |-> fl.to]
  <2>1. f \in Frames
    BY DEF ReadTypes, Frames
  <2>2. EnqueueAll(fl.cs, f)
    BY <1>8 DEF FlushSends
  <2> HIDE DEF f
  <2>3. cl' \in [Clients -> Handlers] /\ \A c \in Clients : Len(cl'[c].out) <= OutCap
    BY <2>1, <2>2, EnqueueTyped
  <2> QED BY <1>8, <2>3 DEF FlushSends, proxyVars
<1>9. ASSUME NEW r \in Resizers, AnnouncesSize(r) PROVE ClientTypes'
  <2> DEFINE f == [kind |-> "size", from |-> 0, to |-> rz[r].cols]
  <2>1. f \in Frames
    BY DEF SizeTypes, Frames
  <2>2. EnqueueAll(clients, f)
    BY <1>9 DEF AnnouncesSize
  <2> HIDE DEF f
  <2>3. cl' \in [Clients -> Handlers] /\ \A c \in Clients : Len(cl'[c].out) <= OutCap
    BY <2>1, <2>2, EnqueueTyped
  <2> QED BY <1>9, <2>3 DEF AnnouncesSize, proxyVars
<1>10. CASE WaitChild
  BY <1>10 DEF WaitChild, beyondMain, Handlers, proxyVars
<1>11. CASE ShutsDown
  BY <1>11 DEF ShutsDown, Goes, beyondMain, Handlers, proxyVars
<1>12. CASE UNCHANGED <<connVars, proxyVars>>
  BY <1>12 DEF connVars, proxyVars
<1>13. CASE Makes \/ Exits \/ Reads \/ FlushLocks \/ FlushWrites \/ ReadPTYEnds \/ StdinCloses
            \/ Detaches \/ MainStep
  BY <1>13
  DEF Makes, Exits, Reads, FlushLocks, FlushWrites, ReadPTYEnds, StdinCloses, Detaches, MainStep,
      SeesDone, Drained, MainShrinks, MainShrunk, ProcessExits, Goes, beyondMain, beyondRead,
      netVars, connVars, proxyVars
<1>14. ASSUME NEW r \in Resizers, Setsize(r) \/ \E w \in Widths : Resize(r, w)
       PROVE  UNCHANGED <<connVars, proxyVars>>
  BY <1>14 DEF Setsize, Resize, netVars
<1> HIDE DEF TypeOK, ClientTypes
<1> QED
  BY <1>1, <1>2, <1>3, <1>4, <1>5, <1>6, <1>7, <1>8, <1>9, <1>10, <1>11, <1>12, <1>13, <1>14
  DEF Next, ReadStep, ClientStep, ProxyStep, RunnerHangsUp, ResizeStep

LEMMA SizeTyped ==
  ASSUME TypeOK, Next
  PROVE  SizeTypes'
<1> USE TerminalAssumption DEF TypeOK, SizeTypes
<1>1. ASSUME NEW r \in Resizers, Setsize(r) PROVE SizeTypes'
  BY <1>1 DEF Setsize, RzTo, IdleResize, runnerVars, mainVars
<1>2. ASSUME NEW r \in Resizers, AnnouncesSize(r) PROVE SizeTypes'
  BY <1>2 DEF AnnouncesSize, RzTo, IdleResize, runnerVars, mainVars
<1>3. ASSUME NEW r \in Resizers, NEW w \in Widths, Resize(r, w) PROVE SizeTypes'
  <2>1. w \in Nat \ {0} /\ (w = size \/ w # size)
    OBVIOUS
  <2>2. \E s \in {"set", "send"} :
          rz' = [rz EXCEPT ![r] = [step |-> s, cols |-> w, shrink |-> FALSE]]
    BY <1>3 DEF Resize, RzTo
  <2>3. /\ rz' \in [Resizers -> [step : {"idle", "set", "send"}, cols : Nat, shrink : BOOLEAN]]
        /\ \A x \in Resizers : rz'[x].step # "idle" => rz'[x].cols # 0
    BY <2>1, <2>2
  <2>4. size' \in Nat \ {0} /\ winsize' = winsize /\ crossed' \in BOOLEAN
    BY <1>3, <2>1 DEF Resize, SetSize
  <2> QED BY <1>3, <2>3, <2>4 DEF Resize, mainVars
<1>4. ASSUME NEW r \in Resizers, ShrinkLocks(r, size - 1)
      PROVE  /\ {size, winsize}' \subseteq Nat \ {0} /\ crossed' \in BOOLEAN
             /\ rz' \in [Resizers -> [step : {"idle", "set", "send"}, cols : Nat, shrink : BOOLEAN]]
             /\ \A x \in Resizers : rz'[x].step # "idle" => rz'[x].cols # 0
  <2>1. CASE UNCHANGED <<size, crossed, rz>>
    BY <1>4, <2>1 DEF ShrinkLocks
  <2>2. CASE /\ size > 1 /\ SetSize(r, size - 1)
             /\ rz' = [rz EXCEPT ![r] = [step |-> "set", cols |-> size - 1, shrink |-> TRUE]]
    <3>1. size - 1 \in Nat \ {0}
      BY <2>2
    <3>2. /\ rz' \in [Resizers -> [step : {"idle", "set", "send"}, cols : Nat, shrink : BOOLEAN]]
          /\ \A x \in Resizers : rz'[x].step # "idle" => rz'[x].cols # 0
      BY <2>2, <3>1
    <3> QED BY <1>4, <2>2, <3>1, <3>2 DEF ShrinkLocks, SetSize
  <2> QED BY <1>4, <2>1, <2>2 DEF ShrinkLocks, RzTo
<1>5. ASSUME NEW c \in Clients, ClientShrinks(c) PROVE SizeTypes'
  BY <1>4, <1>5 DEF ClientShrinks, mainVars, Resizers, ShrinkLocks
<1>6. CASE MainShrinks
  BY <1>4, <1>6 DEF MainShrinks, Resizers
<1>7. CASE SeesDone \/ Drained \/ Detaches \/ MainShrunk \/ ShutsDown \/ ProcessExits
  BY <1>7 DEF SeesDone, Drained, Detaches, MainShrunk, ShutsDown, ProcessExits, Goes, beyondMain,
     restVars, sizeVars
<1>8. CASE UNCHANGED <<restVars, proc>>
  BY <1>8 DEF restVars, sizeVars
<1>9. CASE Makes \/ Exits \/ Reads \/ ReadStep \/ WaitChild \/ StdinCloses
  BY <1>9
  DEF Makes, Exits, Reads, ReadStep, FlushLocks, FlushWrites, FlushSends, ReadPTYEnds, WaitChild,
      StdinCloses, beyondMain, beyondRead, mainVars, restVars, sizeVars
<1>10. ASSUME NEW c \in Clients, ClientStep(c) \/ ProxyStep(c) \/ ProxyStops(c)
       PROVE  UNCHANGED <<restVars, proc>>
  BY <1>10
  DEF ClientStep, ClientConnects, WritesSnapshot, Writes, WriteFails, ReadEnds, Leaves, ProxyStep,
      Forwards, RunnerHangsUp, ProxyStops, runnerVars, mainVars, restVars
<1> HIDE DEF TypeOK, SizeTypes
<1> QED
  BY <1>1, <1>2, <1>3, <1>5, <1>6, <1>7, <1>8, <1>9, <1>10 DEF Next, MainStep, ResizeStep

LEMMA TypesKept == TypeOK /\ FlushInOrder /\ [Next]_vars => TypeOK' /\ FlushInOrder'
<1>1. CASE Next
  BY <1>1, ReadTyped, ClientTyped, SizeTyped DEF TypeOK
<1>2. CASE UNCHANGED vars
  BY <1>2
  DEF vars, beyondRead, childVars, readVars, mainVars, localVars, netVars, connVars, proxyVars,
      restVars, sizeVars, TypeOK, ReadTypes, ClientTypes, SizeTypes, FlushInOrder
<1> QED BY <1>1, <1>2

LEMMA TypesInit == Init => TypeOK /\ FlushInOrder
<1> SUFFICES ASSUME Init PROVE TypeOK /\ FlushInOrder
  OBVIOUS
<1>1. ReadTypes /\ FlushInOrder
  <2>1. IdleFlush \in [step : {"idle", "write", "send"}, to : 0..0, local : BOOLEAN,
                       cs : SUBSET Clients]
    BY DEF IdleFlush
  <2>2. IdleFlush.step = "idle"
    BY DEF IdleFlush
  <2>3. /\ scroll \in [old : Nat, from : Nat, to : Nat, closed : BOOLEAN]
        /\ scroll.old <= scroll.from /\ scroll.from <= scroll.to /\ scroll.to <= 0
    BY DEF Init
  <2>4. /\ kid \in {"running", "exited"} /\ ptyDone \in BOOLEAN /\ down \in BOOLEAN
        /\ wired \in BOOLEAN /\ detached \in BOOLEAN
    BY TerminalAssumption DEF Init
  <2>5. made = 0 /\ inCh = 0 /\ flushed = 0 /\ pend = 0 /\ localTo = 0 /\ fl = IdleFlush
    BY DEF Init
  <2>6. 0 \in 0..MaxChunks /\ 0 \in 0..0
    BY TerminalAssumption
  <2> QED BY <2>1, <2>2, <2>3, <2>4, <2>5, <2>6 DEF ReadTypes, FlushInOrder
<1>2. ClientTypes
  BY EmptySeq, TerminalAssumption DEF Init, ClientTypes, Handlers
<1>3. SizeTypes
  BY TerminalAssumption DEF Init, SizeTypes, IdleResize
<1> QED BY <1>1, <1>2, <1>3 DEF TypeOK

-----------------------------------------------------------------------------
(* The width                                                               *)

(* Who sets the recorded width is the only one to be about to set the      *)
(* kernel's, or the changes have crossed.                                  *)
LEMMA SetsSize ==
  ASSUME TypeOK, SizeInv, NEW r \in Resizers, NEW w, NEW shrink,
         SetSize(r, w), RzTo(r, [step |-> "set", cols |-> w, shrink |-> shrink])
  PROVE  SizeInv'
<1> SUFFICES ASSUME ~crossed' PROVE /\ Halfway' # {}
                                    /\ \A x \in Halfway' : rz'[x].cols = size' /\ Halfway' \subseteq {x}
  BY DEF SizeInv
<1>1. Halfway \ {r} = {} /\ size' = w
  BY DEF SetSize
<1>2. rz'[r].step = "set" /\ rz'[r].cols = w /\ \A x \in Resizers \ {r} : rz'[x] = rz[x]
  BY DEF RzTo, TypeOK, SizeTypes
<1>3. Halfway' = {r}
  BY <1>1, <1>2 DEF Halfway
<1> QED BY <1>1, <1>2, <1>3

LEMMA SizeKept ==
  ASSUME TypeOK, SizeInv, Next
  PROVE  SizeInv'
<1>1. rz \in [Resizers -> [step : {"idle", "set", "send"}, cols : Nat, shrink : BOOLEAN]]
  BY DEF TypeOK, SizeTypes
<1>2. ASSUME NEW r \in Resizers, NEW w \in Widths, Resize(r, w) PROVE SizeInv'
  <2>1. CASE w # size /\ SetSize(r, w) /\ RzTo(r, [step |-> "set", cols |-> w, shrink |-> FALSE])
    BY <2>1, SetsSize
  <2>2. CASE /\ RzTo(r, [step |-> "send", cols |-> w, shrink |-> FALSE])
             /\ UNCHANGED <<size, crossed>>
    <3>1. rz[r].step = "idle" /\ UNCHANGED winsize
      BY <1>2 DEF Resize, MayResize
    <3>2. rz'[r].step = "send" /\ \A x \in Resizers \ {r} : rz'[x] = rz[x]
      BY <1>1, <2>2 DEF RzTo
    <3>3. Halfway' = Halfway
      BY <3>1, <3>2 DEF Halfway
    <3>4. \A x \in Halfway : rz'[x] = rz[x]
      BY <3>1, <3>2 DEF Halfway
    <3> QED BY <2>2, <3>1, <3>3, <3>4 DEF SizeInv
  <2> QED BY <1>2, <2>1, <2>2 DEF Resize
<1>3. ASSUME NEW r \in Resizers, Setsize(r) PROVE SizeInv'
  <2>1. rz[r].step = "set" /\ winsize' = rz[r].cols /\ UNCHANGED <<size, crossed>>
    BY <1>3 DEF Setsize
  <2>2. rz'[r].step # "set" /\ \A x \in Resizers \ {r} : rz'[x] = rz[x]
    BY <1>1, <1>3 DEF Setsize, RzTo, IdleResize
  <2>3. r \in Halfway /\ Halfway' = Halfway \ {r}
    BY <2>1, <2>2 DEF Halfway
  <2> QED BY <2>1, <2>3 DEF SizeInv
<1>4. ASSUME NEW r \in Resizers, AnnouncesSize(r) PROVE SizeInv'
  <2>1. rz[r].step = "send" /\ UNCHANGED <<size, winsize, crossed>>
    BY <1>4 DEF AnnouncesSize
  <2>2. rz'[r].step # "set" /\ \A x \in Resizers \ {r} : rz'[x] = rz[x]
    BY <1>1, <1>4 DEF AnnouncesSize, RzTo, IdleResize
  <2>3. Halfway' = Halfway /\ r \notin Halfway
    BY <2>1, <2>2 DEF Halfway
  <2> QED BY <2>1, <2>2, <2>3 DEF SizeInv, Halfway
<1>5. CASE UNCHANGED sizeVars
  BY <1>5 DEF sizeVars, SizeInv, Halfway
<1>6. ASSUME NEW r \in Resizers, ShrinkLocks(r, size - 1) PROVE SizeInv'
  BY <1>5, <1>6, SetsSize DEF ShrinkLocks, sizeVars
<1>7. ASSUME NEW c \in Clients, ClientShrinks(c) PROVE SizeInv'
  BY <1>6, <1>7 DEF ClientShrinks, Resizers
<1>8. CASE MainShrinks
  BY <1>6, <1>8 DEF MainShrinks, Resizers
<1>9. CASE \/ Makes \/ Exits \/ Reads \/ ReadStep \/ WaitChild \/ SeesDone \/ Drained \/ MainShrunk
           \/ ProcessExits \/ StdinCloses \/ Detaches \/ ShutsDown
  BY <1>5, <1>9
  DEF Makes, Exits, Reads, ReadStep, FlushLocks, FlushWrites, FlushSends, ReadPTYEnds, WaitChild,
      SeesDone, Drained, MainShrunk, ProcessExits, StdinCloses, Detaches, ShutsDown, Goes,
      beyondMain, beyondRead, restVars
<1>10. ASSUME NEW c \in Clients, ClientStep(c) \/ ProxyStep(c) \/ ProxyStops(c)
       PROVE  UNCHANGED sizeVars
  BY <1>10
  DEF ClientStep, ClientConnects, WritesSnapshot, Writes, WriteFails, ReadEnds, Leaves, ProxyStep,
      Forwards, RunnerHangsUp, ProxyStops, restVars
<1> QED
  BY <1>2, <1>3, <1>4, <1>5, <1>7, <1>8, <1>9, <1>10 DEF Next, MainStep, ResizeStep

-----------------------------------------------------------------------------
(* The local terminal and the files                                        *)

LEMMA OutputKept ==
  ASSUME TypeOK, FlushInOrder, OutputInv, Next
  PROVE  OutputInv'
<1> USE TerminalAssumption DEF TypeOK, ReadTypes, FlushInOrder, OutputInv, Written, ReadDone
<1>1. CASE Makes
  BY <1>1 DEF Makes, readVars, mainVars, localVars
<1>2. CASE Exits
  BY <1>2 DEF Exits, readVars, mainVars, localVars
<1>3. CASE Reads
  BY <1>3 DEF Reads, beyondRead, childVars, mainVars, localVars
<1>4. CASE FlushLocks
  BY <1>4 DEF FlushLocks, childVars, mainVars, localVars
<1>5. CASE FlushWrites
  <2>1. fl.step = "write" /\ fl' = [fl EXCEPT !.step = "send"] /\ ~ptyDone /\ ~scroll.closed
    BY <1>5 DEF FlushWrites
  <2>2. /\ scroll'.to = fl.to /\ scroll'.closed = FALSE
        /\ scroll'.old = 0 \/ scroll'.to - scroll'.old > MaxActive
    <3>1. CASE fl.to - scroll.from > MaxActive
      <4>1. scroll' = [old |-> scroll.from, from |-> scroll.to, to |-> fl.to, closed |-> FALSE]
        BY <1>5, <2>1, <3>1 DEF FlushWrites, Persist, Rotated
      <4> QED BY <3>1, <4>1
    <3>2. CASE ~(fl.to - scroll.from > MaxActive)
      <4>1. scroll' = [old |-> scroll.old, from |-> scroll.from, to |-> fl.to, closed |-> FALSE]
        BY <1>5, <2>1, <3>2 DEF FlushWrites, Persist
      <4> QED BY <2>1, <4>1
    <3> QED BY <3>1, <3>2
  <2>3. wired /\ ~detached => localTo' = fl.to
    BY <1>5, <2>1 DEF FlushWrites, LocalWrite
  <2> QED BY <1>5, <2>1, <2>2, <2>3 DEF FlushWrites, childVars, mainVars
<1>6. CASE FlushSends
  BY <1>6 DEF FlushSends, IdleFlush, childVars, mainVars, localVars
<1>7. CASE ReadPTYEnds
  BY <1>7 DEF ReadPTYEnds, beyondRead, childVars, mainVars, localVars
<1>8. CASE WaitChild
  BY <1>8 DEF WaitChild, beyondMain, childVars, readVars, mainVars, localVars
<1>9. CASE SeesDone \/ MainShrunk \/ ProcessExits
  BY <1>9 DEF SeesDone, MainShrunk, ProcessExits, Goes, beyondMain, childVars, readVars, localVars
<1>10. CASE Drained \/ Detaches \/ ShutsDown
  BY <1>10 DEF Drained, Detaches, ShutsDown, Goes, beyondMain, childVars, readVars
<1>11. CASE StdinCloses
  BY <1>11 DEF StdinCloses, beyondMain, childVars, readVars, mainVars
<1>12. CASE MainShrinks
  BY <1>12 DEF MainShrinks, ShrinkLocks, childVars, readVars, localVars
<1>13. CASE UNCHANGED <<childVars, readVars, down, scroll, localVars>>
  BY <1>13 DEF childVars, readVars, localVars
<1>14. ASSUME NEW c \in Clients, ClientStep(c) \/ ClientShrinks(c) \/ ProxyStep(c) \/ ProxyStops(c)
       PROVE  UNCHANGED <<childVars, readVars, down, scroll, localVars>>
  BY <1>14
  DEF ClientStep, ClientConnects, WritesSnapshot, Writes, WriteFails, ReadEnds, Leaves, ClientShrinks,
      ShrinkLocks, ProxyStep, Forwards, RunnerHangsUp, ProxyStops, runnerVars, mainVars
<1>15. ASSUME NEW r \in Resizers, ResizeStep(r) \/ \E w \in Widths : Resize(r, w)
       PROVE  UNCHANGED <<childVars, readVars, down, scroll, localVars>>
  BY <1>15 DEF ResizeStep, Setsize, AnnouncesSize, Resize, runnerVars, mainVars
<1> HIDE DEF TypeOK, ReadTypes, FlushInOrder, OutputInv, Written, ReadDone
<1> QED
  BY <1>1, <1>2, <1>3, <1>4, <1>5, <1>6, <1>7, <1>8, <1>9, <1>10, <1>11, <1>12, <1>13, <1>14, <1>15
  DEF Next, ReadStep, MainStep

-----------------------------------------------------------------------------
(* The chain of frames                                                     *)

LEMMA FollowsEmpty ==
  ASSUME NEW m \in 0..MaxChunks
  PROVE  Follows(<<>>, m, m)
<1>1. Len(<<>>) = 0
  BY EmptySeq
<1> DEFINE p == [i \in 0..0 |-> m]
<1>2. p \in [0..0 -> 0..MaxChunks] /\ p[0] = m
  OBVIOUS
<1> HIDE DEF p
<1> QED BY <1>1, <1>2 DEF Follows

LEMMA FollowsAppend ==
  ASSUME NEW q \in Seq(Frames), NEW f \in Frames, NEW m, NEW e, NEW d \in 0..MaxChunks,
         Follows(q, m, e),
         (f.kind = "size" /\ d = e) \/ (f.kind = "out" /\ f.from = e /\ f.to = d)
  PROVE  Follows(Append(q, f), m, d)
<1> DEFINE n == Len(q)
           t == Append(q, f)
<1>1. n \in Nat
  BY LenProperties
<1>2. Len(t) = n + 1 /\ t[n + 1] = f /\ \A i \in 1..n : t[i] = q[i]
  BY AppendProperties
<1>3. PICK p \in [0..n -> 0..MaxChunks] :
        /\ p[0] = m /\ p[n] = e
        /\ \A i \in 1..n : \/ q[i].kind = "size" /\ p[i] = p[i - 1]
                           \/ q[i].kind = "out" /\ q[i].from = p[i - 1] /\ q[i].to = p[i]
  BY DEF Follows
<1> HIDE DEF n, t
<1> DEFINE r == [i \in 0..(n + 1) |-> IF i = n + 1 THEN d ELSE p[i]]
<1>4. r \in [0..(n + 1) -> 0..MaxChunks]
  BY <1>1
<1>5. r[0] = m /\ r[n + 1] = d /\ \A i \in 0..n : r[i] = p[i]
  BY <1>1, <1>3
<1> HIDE DEF r
<1>6. ASSUME NEW i \in 1..(n + 1)
      PROVE  \/ t[i].kind = "size" /\ r[i] = r[i - 1]
             \/ t[i].kind = "out" /\ t[i].from = r[i - 1] /\ t[i].to = r[i]
  <2>1. CASE i = n + 1
    BY <1>1, <1>2, <1>3, <1>5, <2>1
  <2>2. CASE i \in 1..n
    <3>1. i - 1 \in 0..n /\ i \in 0..n
      BY <1>1, <2>2
    <3>2. t[i] = q[i] /\ r[i] = p[i] /\ r[i - 1] = p[i - 1]
      BY <1>2, <1>5, <2>2, <3>1
    <3> QED BY <1>3, <2>2, <3>2
  <2> QED BY <1>1, <2>1, <2>2
<1>7. Follows(t, m, d)
  <2>1. r \in [0..Len(t) -> 0..MaxChunks] /\ r[0] = m /\ r[Len(t)] = d
    BY <1>2, <1>4, <1>5
  <2>2. \A i \in 1..Len(t) :
          \/ t[i].kind = "size" /\ r[i] = r[i - 1]
          \/ t[i].kind = "out" /\ t[i].from = r[i - 1] /\ t[i].to = r[i]
    BY <1>2, <1>6
  <2> QED BY <2>1, <2>2 DEF Follows
<1> QED BY <1>7 DEF t

LEMMA FollowsTail ==
  ASSUME NEW q \in Seq(Frames), q # <<>>, NEW m, NEW e, Follows(q, m, e)
  PROVE  /\ Head(q).kind \in {"size", "out"} /\ (Head(q).kind = "out" => Head(q).from = m)
         /\ Follows(Tail(q), IF Head(q).kind = "size" THEN m ELSE Head(q).to, e)
<1> DEFINE n == Len(q)
           t == Tail(q)
<1>1. n \in Nat /\ n > 0 /\ Head(q) = q[1]
  BY LenProperties, EmptySeq
<1>2. Len(t) = n - 1 /\ \A i \in 1..(n - 1) : t[i] = q[i + 1]
  BY HeadTailProperties
<1>3. PICK p \in [0..n -> 0..MaxChunks] :
        /\ p[0] = m /\ p[n] = e
        /\ \A i \in 1..n : \/ q[i].kind = "size" /\ p[i] = p[i - 1]
                           \/ q[i].kind = "out" /\ q[i].from = p[i - 1] /\ q[i].to = p[i]
  BY DEF Follows
<1> HIDE DEF n, t
<1>4. \/ q[1].kind = "size" /\ p[1] = m
      \/ q[1].kind = "out" /\ q[1].from = m /\ q[1].to = p[1]
  BY <1>1, <1>3
<1> DEFINE r == [i \in 0..(n - 1) |-> p[i + 1]]
<1>5. r \in [0..(n - 1) -> 0..MaxChunks]
  BY <1>1
<1>6. r[0] = p[1] /\ r[n - 1] = e /\ \A i \in 0..(n - 1) : r[i] = p[i + 1]
  BY <1>1, <1>3
<1> HIDE DEF r
<1>7. ASSUME NEW i \in 1..(n - 1)
      PROVE  \/ t[i].kind = "size" /\ r[i] = r[i - 1]
             \/ t[i].kind = "out" /\ t[i].from = r[i - 1] /\ t[i].to = r[i]
  <2>1. i + 1 \in 1..n /\ (i + 1) - 1 = i /\ i \in 0..(n - 1) /\ i - 1 \in 0..(n - 1)
    BY <1>1
  <2>2. t[i] = q[i + 1] /\ r[i] = p[i + 1] /\ r[i - 1] = p[i]
    BY <1>2, <1>6, <2>1
  <2> QED BY <1>3, <2>1, <2>2
<1>8. Follows(t, p[1], e)
  <2>1. r \in [0..Len(t) -> 0..MaxChunks] /\ r[0] = p[1] /\ r[Len(t)] = e
    BY <1>2, <1>5, <1>6
  <2>2. \A i \in 1..Len(t) :
          \/ t[i].kind = "size" /\ r[i] = r[i - 1]
          \/ t[i].kind = "out" /\ t[i].from = r[i - 1] /\ t[i].to = r[i]
    BY <1>2, <1>7
  <2> QED BY <2>1, <2>2 DEF Follows
<1> QED BY <1>1, <1>4, <1>8 DEF t

(* A step that leaves a client's connection and the flush alone, but may   *)
(* give the client up.                                                     *)
LEMMA ChainSame ==
  ASSUME NEW c \in Clients, Chain(c), UNCHANGED <<fl, flushed, pend>>,
         wire'[c] = wire[c], view'[c] = view[c], c \in clients' <=> c \in clients,
         cl'[c].step = cl[c].step, cl'[c].snap = cl[c].snap, cl'[c].out = cl[c].out,
         ~cl'[c].cancelled => ~cl[c].cancelled
  PROVE  Chain(c)'
BY DEF Chain, Lives, Mid, Tip

LEMMA ChainOver ==
  ASSUME NEW c \in Clients, Chain(c), wire'[c] = wire[c], view'[c] = view[c],
         cl'[c].step \notin {"none", "snapshot", "live"}
  PROVE  Chain(c)'
BY DEF Chain, Lives

(* What the queue of a client gets continues it.                           *)
LEMMA ChainEnqueue ==
  ASSUME TypeOK, NEW c \in Clients, NEW f \in Frames, Lives(c), ~cl[c].cancelled,
         Follows(cl[c].out, Mid(c), Tip(c)), NEW d \in 0..MaxChunks,
         (f.kind = "size" /\ d = Tip(c)) \/ (f.kind = "out" /\ f.from = Tip(c) /\ f.to = d)
  PROVE  /\ Enqueue(c, f).step = cl[c].step /\ Enqueue(c, f).snap = cl[c].snap
         /\ ~Enqueue(c, f).cancelled => Follows(Enqueue(c, f).out, Mid(c), d)
<1>1. cl[c] \in Handlers /\ cl[c].out \in Seq(Frames)
  BY HandlerTyped DEF TypeOK, ClientTypes
<1>2. Follows(Append(cl[c].out, f), Mid(c), d)
  BY <1>1, FollowsAppend
<1>3. CASE Len(cl[c].out) < OutCap
  <2> DEFINE q == Append(cl[c].out, f)
  <2>1. Enqueue(c, f) = [cl[c] EXCEPT !.out = q]
    BY <1>3 DEF Enqueue
  <2>2. Follows(q, Mid(c), d)
    BY <1>2
  <2> HIDE DEF q
  <2> QED BY <1>1, <2>1, <2>2 DEF Handlers
<1>4. CASE ~(Len(cl[c].out) < OutCap)
  <2>1. Enqueue(c, f) = [cl[c] EXCEPT !.cancelled = TRUE]
    BY <1>4 DEF Enqueue
  <2> QED BY <1>1, <2>1 DEF Handlers
<1> QED BY <1>3, <1>4

(* A queue that is not read any more.                                      *)
LEMMA EnqueueFields ==
  ASSUME TypeOK, NEW c \in Clients, NEW f
  PROVE  /\ Enqueue(c, f).step = cl[c].step /\ Enqueue(c, f).snap = cl[c].snap
         /\ cl[c].cancelled => Enqueue(c, f) = cl[c]
<1>1. cl[c] \in Handlers
  BY DEF TypeOK, ClientTypes
<1>2. CASE Enqueue(c, f) = cl[c]
  BY <1>2
<1>3. CASE Enqueue(c, f) = [cl[c] EXCEPT !.out = Append(cl[c].out, f)] /\ ~cl[c].cancelled
  <2> DEFINE q == Append(cl[c].out, f)
  <2>1. Enqueue(c, f) = [cl[c] EXCEPT !.out = q]
    BY <1>3
  <2> HIDE DEF q
  <2> QED BY <1>1, <1>3, <2>1 DEF Handlers
<1>4. CASE Enqueue(c, f) = [cl[c] EXCEPT !.cancelled = TRUE] /\ ~cl[c].cancelled
  BY <1>1, <1>4 DEF Handlers
<1> QED BY <1>2, <1>3, <1>4 DEF Enqueue

LEMMA ChainFlush ==
  ASSUME TypeOK, FlushInOrder, NEW c \in Clients, Chain(c), FlushLocks \/ FlushWrites \/ FlushSends
  PROVE  Chain(c)'
<1>1. /\ flushed \in Nat /\ pend \in 0..MaxChunks
      /\ fl \in [step : {"idle", "write", "send"}, to : 0..inCh, local : BOOLEAN,
                 cs : SUBSET Clients]
  BY TerminalAssumption DEF TypeOK, ReadTypes
<1>2. CASE FlushLocks
  <2>1. /\ fl.step = "idle" /\ fl'.step = "write" /\ fl'.cs = clients
        /\ UNCHANGED <<clients, cl, wire, view, flushed>>
    BY <1>2 DEF FlushLocks, netVars, connVars, proxyVars
  <2>2. pend = flushed
    BY <2>1 DEF FlushInOrder
  <2>3. Mid(c)' = Mid(c) /\ (Lives(c) <=> Lives(c)')
    BY <2>1 DEF Mid, Lives
  <2>4. Lives(c) => Tip(c)' = Tip(c)
    BY <2>1, <2>2 DEF Tip, Chain
  <2> QED BY <2>1, <2>3, <2>4 DEF Chain
<1>3. CASE FlushWrites
  <2>1. /\ fl.step = "write" /\ fl'.step = "send" /\ fl'.cs = fl.cs
        /\ UNCHANGED <<clients, cl, wire, view, flushed, pend>>
    BY <1>1, <1>3 DEF FlushWrites, connVars, proxyVars
  <2> QED BY <2>1 DEF Chain, Lives, Mid, Tip
<1>4. CASE FlushSends
  <2> DEFINE f == [kind |-> "out", from |-> flushed, to |-> fl.to]
  <2>1. f \in Frames /\ f.kind = "out" /\ f.from = flushed /\ f.to = fl.to
    BY <1>1, TerminalAssumption DEF Frames, TypeOK, ReadTypes
  <2>2. /\ fl.step = "send" /\ fl'.step = "idle" /\ flushed' = fl.to /\ fl.to = pend
        /\ UNCHANGED <<clients, wire, view, pend>>
    BY <1>4 DEF FlushSends, IdleFlush, FlushInOrder, proxyVars
  <2>3. cl'[c] = IF c \in fl.cs THEN Enqueue(c, f) ELSE cl[c]
    BY <1>4 DEF FlushSends, EnqueueAll
  <2> HIDE DEF f
  <2>4. cl'[c].step = cl[c].step /\ cl'[c].snap = cl[c].snap
    BY <2>3, EnqueueFields
  <2>5. Mid(c)' = Mid(c) /\ (Lives(c) <=> Lives(c)') /\ Tip(c)' = pend
    BY <2>2, <2>4 DEF Mid, Lives, Tip
  <2>6. ASSUME Lives(c), ~cl'[c].cancelled PROVE Follows(cl'[c].out, Mid(c), pend)
    <3>1. CASE c \notin fl.cs
      BY <2>2, <2>3, <2>6, <3>1 DEF Chain, Tip
    <3>2. CASE c \in fl.cs
      <4>1. ~cl[c].cancelled
        BY <2>3, <2>6, <3>2, EnqueueFields
      <4>2. Tip(c) = flushed /\ Follows(cl[c].out, Mid(c), Tip(c))
        BY <2>2, <2>6, <3>2, <4>1 DEF Tip, Chain
      <4> QED BY <1>1, <2>1, <2>2, <2>3, <2>6, <3>2, <4>1, <4>2, ChainEnqueue
    <3> QED BY <3>1, <3>2
  <2>7. cl[c].step = "none" => cl'[c] = cl[c]
    BY <2>2, <2>3 DEF Chain
  <2> QED BY <2>2, <2>4, <2>5, <2>6, <2>7 DEF Chain
<1> QED BY <1>2, <1>3, <1>4

LEMMA ChainClient ==
  ASSUME TypeOK, FlushInOrder, NEW c \in Clients, Chain(c),
         NEW d \in Clients, ClientStep(d) \/ ClientShrinks(d) \/ ProxyStep(d) \/ ProxyStops(d)
  PROVE  Chain(c)'
<1>1. /\ cl \in [Clients -> Handlers] /\ wire \in [Clients -> Seq(Frames)]
      /\ view \in [Clients -> [at : Nat, torn : BOOLEAN]]
      /\ pend \in 0..MaxChunks /\ cl[c].out \in Seq(Frames)
  <2>1. /\ cl \in [Clients -> Handlers] /\ wire \in [Clients -> Seq(Frames)]
        /\ view \in [Clients -> [at : Nat, torn : BOOLEAN]]
    BY DEF TypeOK, ClientTypes
  <2>2. pend \in 0..MaxChunks
    BY TerminalAssumption DEF TypeOK, ReadTypes
  <2>3. cl[c].out \in Seq(Frames)
    BY <2>1 DEF Handlers
  <2> QED BY <2>1, <2>2, <2>3
<1>2. UNCHANGED <<fl, flushed, pend>>
  BY DEF ClientStep, ClientConnects, WritesSnapshot, Writes, WriteFails, ReadEnds, Leaves, ClientShrinks,
     ShrinkLocks, ProxyStep, Forwards, RunnerHangsUp, ProxyStops, runnerVars, readVars
<1>3. CASE d # c
  <2>1. /\ cl'[c] = cl[c] /\ wire'[c] = wire[c] /\ view'[c] = view[c]
        /\ c \in clients' <=> c \in clients
    BY <1>1, <1>3
    DEF ClientStep, ClientConnects, WritesSnapshot, Writes, WriteFails, ReadEnds, Leaves, ClientShrinks,
        ProxyStep, Forwards, RunnerHangsUp, ProxyStops, connVars, proxyVars
  <2> QED BY <1>2, <2>1, ChainSame
<1>4. CASE ClientConnects(c)
  <2>1. /\ cl[c].step = "none" /\ cl'[c].step = "snapshot" /\ cl'[c].snap = pend
        /\ cl'[c].out = cl[c].out /\ c \in clients' /\ UNCHANGED <<wire, view>>
    BY <1>1, <1>4 DEF ClientConnects, Snapshot, Handlers
  <2>2. cl[c].out = <<>> /\ wire[c] = <<>> /\ (fl.step # "idle" => c \notin fl.cs)
    BY <2>1 DEF Chain
  <2>3. Mid(c)' = pend /\ Tip(c)' = pend
    BY <1>2, <2>1, <2>2 DEF Mid, Tip
  <2>4. Follows(<<>>, pend, pend)
    BY <1>1, FollowsEmpty
  <2> QED BY <2>1, <2>2, <2>3, <2>4 DEF Chain
<1>5. CASE WritesSnapshot(c)
  <2>1. /\ cl[c].step = "snapshot" /\ cl'[c].step = "live" /\ cl'[c].out = cl[c].out
        /\ ~cl[c].cancelled /\ UNCHANGED <<clients, view>>
        /\ wire'[c] = <<[kind |-> "snap", from |-> 0, to |-> cl[c].snap]>>
    BY <1>1, <1>5 DEF WritesSnapshot, Handlers
  <2>2. /\ Head(wire'[c]).kind = "snap" /\ Head(wire'[c]).to = cl[c].snap /\ wire'[c] # <<>>
    BY <2>1
  <2>3. Mid(c)' = Mid(c) /\ Tip(c)' = Tip(c) /\ Lives(c)
    BY <1>2, <2>1, <2>2 DEF Mid, Tip, Lives
  <2> QED BY <2>1, <2>2, <2>3 DEF Chain
<1>6. CASE Writes(c)
  <2>1. /\ cl[c].step = "live" /\ cl'[c].step = "live" /\ ~cl[c].cancelled /\ cl[c].out # <<>>
        /\ cl'[c].out = Tail(cl[c].out) /\ wire[c] = <<>> /\ wire'[c] = <<Head(cl[c].out)>>
        /\ UNCHANGED <<clients, view>>
    BY <1>1, <1>6 DEF Writes, Handlers
  <2>2. Mid(c) = view[c].at /\ Follows(cl[c].out, Mid(c), Tip(c)) /\ Tip(c)' = Tip(c)
    BY <1>2, <2>1 DEF Chain, Lives, Mid, Tip
  <2>3. wire'[c] # <<>> /\ Head(wire'[c]) = Head(cl[c].out)
    BY <2>1
  <2>4. Mid(c)' = IF Head(cl[c].out).kind = "size" THEN view[c].at ELSE Head(cl[c].out).to
    BY <2>1, <2>3 DEF Mid
  <2>5. /\ Head(cl[c].out).kind = "out" => Head(cl[c].out).from = view[c].at
        /\ Follows(cl'[c].out, Mid(c)', Tip(c)')
    BY <1>1, <2>1, <2>2, <2>4, FollowsTail
  <2> QED BY <2>1, <2>3, <2>5 DEF Chain, Lives
<1>7. CASE WriteFails(c)
  <2>1. /\ cl' = [cl EXCEPT ![c] = [cl[c] EXCEPT !.cancelled = TRUE]]
        /\ UNCHANGED <<clients, wire, view>>
    BY <1>7 DEF WriteFails, proxyVars
  <2>2. /\ cl'[c].step = cl[c].step /\ cl'[c].snap = cl[c].snap /\ cl'[c].out = cl[c].out
        /\ cl'[c].cancelled
    BY <1>1, <2>1 DEF Handlers
  <2> QED BY <1>2, <2>1, <2>2, ChainSame
<1>8. CASE ReadEnds(c) \/ Leaves(c) \/ ClientShrinks(c)
  <2>1. cl'[c].step \in {"leaving", "shrink", "gone"} /\ UNCHANGED <<wire, view>>
    BY <1>1, <1>8 DEF ReadEnds, Leaves, ClientShrinks, Handlers, proxyVars
  <2> QED BY <2>1, ChainOver
<1>9. CASE Forwards(c)
  <2> DEFINE f == Head(wire[c])
  <2>1. /\ wire[c] # <<>> /\ wire'[c] = <<>> /\ UNCHANGED <<clients, cl>>
    BY <1>1, <1>9 DEF Forwards, connVars
  <2>2. f.kind = "out" => f.from = view[c].at
    BY <2>1 DEF Chain
  <2>3. f.kind \in {"snap", "out", "size"} /\ f.to \in Nat
    <3>1. wire[c] \in Seq(Frames)
      BY <1>1
    <3>2. f \in Frames
      BY <2>1, <3>1, HeadTailProperties
    <3> QED BY <3>2 DEF Frames
  <2>4. view'[c].torn = view[c].torn /\ view'[c].at = IF f.kind = "size" THEN view[c].at ELSE f.to
    BY <1>1, <1>9, <2>2, <2>3 DEF Forwards
  <2>5. cl[c].step \notin {"none", "snapshot"}
    BY <2>1 DEF Chain
  <2>6. Mid(c)' = Mid(c) /\ Tip(c)' = Tip(c)
    BY <1>2, <2>1, <2>4, <2>5 DEF Mid, Tip
  <2> QED BY <2>1, <2>4, <2>5, <2>6 DEF Chain, Lives
<1>10. CASE ProxyStops(c)
  <2>1. UNCHANGED <<clients, cl, wire, view>>
    BY <1>10 DEF ProxyStops, connVars
  <2> QED BY <1>2, <2>1, ChainSame
<1> QED
  BY <1>3, <1>4, <1>5, <1>6, <1>7, <1>8, <1>9, <1>10 DEF ClientStep, ProxyStep, RunnerHangsUp

LEMMA ChainKept ==
  ASSUME TypeOK, FlushInOrder, ChainInv, Next
  PROVE  ChainInv'
<1> SUFFICES ASSUME NEW c \in Clients PROVE Chain(c)'
  BY DEF ChainInv
<1> USE DEF ChainInv
<1>1. cl \in [Clients -> Handlers] /\ pend \in 0..MaxChunks /\ flushed \in 0..MaxChunks
  BY TerminalAssumption DEF TypeOK, ReadTypes, ClientTypes
<1>2. CASE FlushLocks \/ FlushWrites \/ FlushSends
  BY <1>2, ChainFlush
<1>3. ASSUME NEW d \in Clients, ClientStep(d) \/ ClientShrinks(d) \/ ProxyStep(d) \/ ProxyStops(d)
      PROVE  Chain(c)'
  BY <1>3, ChainClient
<1>4. ASSUME NEW r \in Resizers, AnnouncesSize(r) PROVE Chain(c)'
  <2> DEFINE f == [kind |-> "size", from |-> 0, to |-> rz[r].cols]
  <2>1. f \in Frames /\ f.kind = "size"
    BY DEF Frames, TypeOK, SizeTypes
  <2>2. /\ cl'[c] = IF c \in clients THEN Enqueue(c, f) ELSE cl[c]
        /\ UNCHANGED <<clients, wire, view, fl, flushed, pend>>
    BY <1>4 DEF AnnouncesSize, EnqueueAll, runnerVars, readVars, proxyVars
  <2> HIDE DEF f
  <2>3. cl'[c].step = cl[c].step /\ cl'[c].snap = cl[c].snap
    BY <2>2, EnqueueFields
  <2>4. Mid(c)' = Mid(c) /\ (Lives(c) <=> Lives(c)') /\ Tip(c)' = Tip(c)
    BY <2>2, <2>3 DEF Mid, Lives, Tip
  <2>5. ASSUME Lives(c), ~cl'[c].cancelled PROVE Follows(cl'[c].out, Mid(c), Tip(c))
    <3>1. c \in clients /\ cl'[c] = Enqueue(c, f)
      BY <2>2, <2>5 DEF Chain
    <3>2. ~cl[c].cancelled /\ Follows(cl[c].out, Mid(c), Tip(c))
      BY <2>5, <3>1, EnqueueFields DEF Chain
    <3>3. Tip(c) \in 0..MaxChunks
      BY <1>1 DEF Tip
    <3> QED BY <2>1, <2>5, <3>1, <3>2, <3>3, ChainEnqueue
  <2>6. cl[c].step = "none" => cl'[c] = cl[c]
    BY <2>2 DEF Chain
  <2> QED BY <2>2, <2>3, <2>4, <2>5, <2>6 DEF Chain
<1>5. CASE WaitChild
  <2>1. cl'[c] = cl[c] \/ cl'[c] = [cl[c] EXCEPT !.hung = TRUE]
    BY <1>5 DEF WaitChild
  <2>2. /\ cl'[c].step = cl[c].step /\ cl'[c].snap = cl[c].snap /\ cl'[c].out = cl[c].out
        /\ cl'[c].cancelled = cl[c].cancelled
    BY <1>1, <2>1 DEF Handlers
  <2> QED BY <1>5, <2>2, ChainSame DEF WaitChild, beyondMain, readVars, proxyVars
<1>6. CASE ShutsDown
  <2>1. cl'[c] = cl[c] \/ cl'[c] = [cl[c] EXCEPT !.cancelled = TRUE]
    BY <1>6 DEF ShutsDown
  <2>2. /\ cl'[c].step = cl[c].step /\ cl'[c].snap = cl[c].snap /\ cl'[c].out = cl[c].out
        /\ ~cl'[c].cancelled => ~cl[c].cancelled
    BY <1>1, <2>1 DEF Handlers
  <2> QED BY <1>6, <2>2, ChainSame DEF ShutsDown, Goes, beyondMain, readVars, proxyVars
<1>7. CASE UNCHANGED <<connVars, wire, view, fl, flushed, pend>>
  BY <1>7, ChainSame DEF connVars
<1>8. CASE \/ Makes \/ Exits \/ Reads \/ ReadPTYEnds \/ StdinCloses \/ Detaches \/ MainStep
  BY <1>7, <1>8
  DEF Makes, Exits, Reads, ReadPTYEnds, StdinCloses, Detaches, MainStep, SeesDone, Drained,
      MainShrinks, ShrinkLocks, MainShrunk, ProcessExits, Goes, beyondMain, beyondRead, readVars,
      netVars, proxyVars
<1>9. ASSUME NEW r \in Resizers, Setsize(r) \/ \E w \in Widths : Resize(r, w)
      PROVE  UNCHANGED <<connVars, wire, view, fl, flushed, pend>>
  BY <1>9 DEF Setsize, Resize, runnerVars, readVars, netVars, proxyVars
<1> QED
  BY <1>2, <1>3, <1>4, <1>5, <1>6, <1>7, <1>8, <1>9 DEF Next, ReadStep, ResizeStep

-----------------------------------------------------------------------------
LEMMA TerminalInvInit == Init => TerminalInv
<1> SUFFICES ASSUME Init PROVE TerminalInv
  OBVIOUS
<1>1. TypeOK /\ FlushInOrder
  BY TypesInit
<1>2. ChainInv
  BY DEF Init, ChainInv, Chain, Lives, IdleFlush
<1>3. OutputInv
  BY DEF Init, OutputInv, Written, IdleFlush
<1>4. SizeInv
  BY DEF Init, SizeInv, Halfway, IdleResize
<1> QED BY <1>1, <1>2, <1>3, <1>4 DEF TerminalInv

LEMMA TerminalInvKept == TerminalInv /\ [Next]_vars => TerminalInv'
<1>1. ASSUME TerminalInv, Next PROVE TerminalInv'
  BY <1>1, TypesKept, ChainKept, OutputKept, SizeKept DEF TerminalInv
<1>2. ASSUME TerminalInv, UNCHANGED vars PROVE TerminalInv'
  <2>1. TypeOK' /\ FlushInOrder'
    BY <1>2, TypesKept DEF TerminalInv
  <2>2. ChainInv'
    BY <1>2, ChainSame
    DEF TerminalInv, ChainInv, vars, beyondRead, readVars, netVars, connVars, proxyVars
  <2>3. OutputInv'
    BY <1>2
    DEF TerminalInv, OutputInv, Written, ReadDone, vars, beyondRead, childVars, readVars, mainVars,
        localVars
  <2>4. SizeInv'
    BY <1>2 DEF TerminalInv, SizeInv, Halfway, vars, beyondRead, restVars, sizeVars
  <2> QED BY <2>1, <2>2, <2>3, <2>4 DEF TerminalInv
<1> QED BY <1>1, <1>2

(* The variables of the terminal keep their types.                         *)
THEOREM TerminalTypesHold == Spec => []TypeOK
BY TerminalInvInit, TerminalInvKept, PTL DEF Spec, TerminalInv

(* The inductive invariant holds of every run.                             *)
THEOREM TerminalInvHolds == Spec => []TerminalInv
BY TerminalInvInit, TerminalInvKept, PTL DEF Spec

(* A browser gets every chunk of the output once and in order, the first   *)
(* of them in the snapshot, however connections, flushes, full queues and  *)
(* changes of the size interleave.                                         *)
THEOREM OutputIsInOrder == Spec => []NoGapNoRepeat
<1>1. TerminalInv => NoGapNoRepeat
  BY DEF TerminalInv, ChainInv, Chain, NoGapNoRepeat
<1> QED BY <1>1, TerminalInvHolds, PTL

(* None of the output is lost to the local terminal or to the files.       *)
THEOREM OutputIsSaved == Spec => []OutputSaved
<1>1. TerminalInv => OutputSaved
  BY DEF TerminalInv, OutputInv, Written, OutputSaved
<1> QED BY <1>1, TerminalInvHolds, PTL

(* The kernel has the width the server has recorded, unless two changes    *)
(* overlapped.                                                             *)
THEOREM WidthsAgree == Spec => []SizesAgree
<1>1. TerminalInv => SizesAgree
  BY DEF TerminalInv, SizeInv, SizesAgree
<1> QED BY <1>1, TerminalInvHolds, PTL

-----------------------------------------------------------------------------
(* The life of a session, for any number of runners, of subscription       *)
(* entries and of requests: the types, in the four groups that change      *)
(* together.                                                               *)

(* Of the subscriptions: the table and the streams.                        *)
TableTypes ==
  /\ SubsTypeOK
  /\ conn \in [Entries -> Runners \cup {None}]
  /\ unreadExits \subseteq Entries
  /\ known \in [Entries -> BOOLEAN]

(* Of the runners, their launches and the path.                            *)
RunnerTypes ==
  /\ run \in [Runners -> {"idle", "starting", "clear", "elsewhere", "bound", "running",
                          "exited", "deregistered", "gone"}]
  /\ child \subseteq Runners
  /\ via \in [Runners -> {"user", "dead", "killed"}]
  /\ crowded \in BOOLEAN /\ path \in Runners \cup {None}

(* Of the daemon: store, registrations and scanner.                        *)
DaemonTypes ==
  /\ rec \in {"absent", "alive", "dead"}
  /\ woken \in BOOLEAN
  /\ reg \in [Registrars -> {"none", "posting", "upserting", "subscribing", "done"}]
  /\ meta \in [Registrars -> {"absent", "alive", "dead"}]
  /\ scan \in {"idle", "first", "check", "mark", "unsubscribe"}

(* Of the user's requests.                                                 *)
RequestTypes ==
  /\ req \in (Ops \cup {"none"}) \X {"idle", "killing", "killed", "failed", "unsubscribe", "unlink"}
  /\ target \in Runners \cup {None}
  /\ requests \in 0..MaxRequests

(* The four are the type invariant.                                        *)
LEMMA LifeTypesParts == LifeTypeOK <=> TableTypes /\ RunnerTypes /\ DaemonTypes /\ RequestTypes
BY DEF LifeTypeOK, TableTypes, RunnerTypes, DaemonTypes, RequestTypes

(* Every step keeps the types of the table and the streams.                *)
LEMMA TableSteps ==
  ASSUME LifeTypeOK, [LifeNext]_sessionVars
  PROVE  TableTypes'
<1> USE DEF LifeTypeOK, SubsTypeOK, TableTypes, subsVars, streamVars, lifeVars, Phases
<1> USE LifecycleAssumption
<1>1. ASSUME NEW r \in Runners, Runner(r) \/ ChildExits(r) \/ Crash(r) \/ Register(r) \/ RegisterFails(r)
      PROVE  TableTypes'
  BY <1>1 DEF Runner, Probe, Bind, SetRunning, SetExited, Deregister, RunnerExits, ChildExits, Crash,
     Register, RegisterFails, QueryMeta, RegisterUpsert, RegisterSubscribe, Subscribe, Unsubscribe, Die,
     Registrars
<1>2. ASSUME NEW e \in Entries, Follow(e) PROVE TableTypes'
  <2>1. CASE Dial(e)
    BY <2>1 DEF Dial, Connect, Goto, Listening
  <2>2. CASE DialFails(e)
    BY <2>2 DEF DialFails, ConnectFails, Goto
  <2>3. CASE TakeExit(e)
    BY <2>3 DEF TakeExit, TakeEvent, Goto
  <2>4. CASE ExitUpsert(e)
    BY <2>4 DEF ExitUpsert, EventDone, Goto
  <2>5. CASE Hangup(e)
    BY <2>5 DEF Hangup, StreamEnds, Goto
  <2>6. CASE Leave(e)
    BY <2>6 DEF Leave
  <2> QED BY <1>2, <2>1, <2>2, <2>3, <2>4, <2>5, <2>6 DEF Follow
<1>3. ASSUME NEW c \in Callers, CancelTaken(c) PROVE TableTypes'
  BY <1>3 DEF CancelTaken, CancelRemoved
<1>4. CASE Scanning
  BY <1>4 DEF Scanning, ScanFirst, Register, QueryMeta, RegisterUpsert, RegisterSubscribe, ScanUnlink,
     ScanSecond, ScanCheck, ScanMark, ScanUnsubscribe, Subscribe, Unsubscribe, Registrars
<1>5. CASE Request
  BY <1>5 DEF Request, Kill, Restart, Dismiss, DismissDead, Relaunch, KillRequest
<1>6. CASE Handle
  BY <1>6 DEF Handle, KillAnswer, KillBroken, KillDone, ForceDead, ForceUnsubscribe, ForceUnlink,
     DismissRemove, DismissUnsubscribe, RestartLaunch, RestartGivesUp, Answered, UserStep, Unsubscribe,
     Registrars
<1>7. CASE UNCHANGED sessionVars
  BY <1>7 DEF sessionVars
<1> QED BY <1>1, <1>2, <1>3, <1>4, <1>5, <1>6, <1>7 DEF LifeNext

(* Every step keeps the types of the runners and the path.                 *)
LEMMA RunnerTypeSteps ==
  ASSUME LifeTypeOK, [LifeNext]_sessionVars
  PROVE  RunnerTypes'
<1> USE DEF LifeTypeOK, RunnerTypes, processVars, launchVars, lifeVars
<1>1. ASSUME NEW r \in Runners, Runner(r) \/ ChildExits(r) \/ Crash(r) \/ Register(r) \/ RegisterFails(r)
      PROVE  RunnerTypes'
  BY <1>1 DEF Runner, Probe, Bind, SetRunning, SetExited, Deregister, RunnerExits, ChildExits, Crash,
     Register, RegisterFails, QueryMeta, RegisterUpsert, RegisterSubscribe, Die, RunnerStep
<1>2. ASSUME NEW e \in Entries, Follow(e) PROVE RunnerTypes'
  BY <1>2 DEF Follow, Dial, DialFails, TakeExit, ExitUpsert, Hangup, Leave
<1>3. ASSUME NEW c \in Callers, CancelTaken(c) PROVE RunnerTypes'
  BY <1>3 DEF CancelTaken
<1>4. CASE Scanning
  BY <1>4 DEF Scanning, ScanFirst, Register, QueryMeta, RegisterUpsert, RegisterSubscribe, ScanUnlink,
     ScanSecond, ScanCheck, ScanMark, ScanUnsubscribe
<1>5. CASE Request
  BY <1>5 DEF Request, Kill, Restart, Dismiss, DismissDead, Relaunch, KillRequest, Launched
<1>6. CASE Handle
  BY <1>6 DEF Handle, KillAnswer, KillBroken, KillDone, ForceDead, ForceUnsubscribe, ForceUnlink,
     DismissRemove, DismissUnsubscribe, RestartLaunch, RestartGivesUp, Answered, UserStep, Launched
<1>7. CASE UNCHANGED sessionVars
  BY <1>7 DEF sessionVars
<1> QED BY <1>1, <1>2, <1>3, <1>4, <1>5, <1>6, <1>7 DEF LifeNext

(* Every step keeps the types of the daemon's variables.                   *)
LEMMA DaemonTypeSteps ==
  ASSUME LifeTypeOK, [LifeNext]_sessionVars
  PROVE  DaemonTypes'
<1> USE DEF LifeTypeOK, DaemonTypes, storeVars, regVars, lifeVars, Upsert, Registrars
<1>1. ASSUME NEW r \in Runners, Runner(r) \/ ChildExits(r) \/ Crash(r) \/ Register(r) \/ RegisterFails(r)
      PROVE  DaemonTypes'
  BY <1>1 DEF Runner, Probe, Bind, SetRunning, SetExited, Deregister, RunnerExits, ChildExits, Crash,
     Register, RegisterFails, QueryMeta, RegisterUpsert, RegisterSubscribe, Reg
<1>2. ASSUME NEW e \in Entries, Follow(e) PROVE DaemonTypes'
  BY <1>2 DEF Follow, Dial, DialFails, TakeExit, ExitUpsert, Hangup, Leave
<1>3. ASSUME NEW c \in Callers, CancelTaken(c) PROVE DaemonTypes'
  BY <1>3 DEF CancelTaken
<1>4. CASE Scanning
  BY <1>4 DEF Scanning, ScanFirst, Register, QueryMeta, RegisterUpsert, RegisterSubscribe, ScanUnlink,
     ScanSecond, ScanCheck, ScanMark, ScanUnsubscribe, ScanStep, Reg
<1>5. CASE Request
  BY <1>5 DEF Request, Kill, Restart, Dismiss, DismissDead, Relaunch, KillRequest
<1>6. CASE Handle
  BY <1>6 DEF Handle, KillAnswer, KillBroken, KillDone, ForceDead, ForceUnsubscribe, ForceUnlink,
     DismissRemove, DismissUnsubscribe, RestartLaunch, RestartGivesUp, Answered, UserStep
<1>7. CASE UNCHANGED sessionVars
  BY <1>7 DEF sessionVars
<1> QED BY <1>1, <1>2, <1>3, <1>4, <1>5, <1>6, <1>7 DEF LifeNext

(* Every step keeps the types of the request.                              *)
LEMMA RequestTypeSteps ==
  ASSUME LifeTypeOK, [LifeNext]_sessionVars
  PROVE  RequestTypes'
<1> USE DEF LifeTypeOK, RequestTypes, userVars, lifeVars
<1>1. ASSUME NEW r \in Runners, Runner(r) \/ ChildExits(r) \/ Crash(r) \/ Register(r) \/ RegisterFails(r)
      PROVE  RequestTypes'
  BY <1>1 DEF Runner, Probe, Bind, SetRunning, SetExited, Deregister, RunnerExits, ChildExits, Crash,
     Register, RegisterFails, QueryMeta, RegisterUpsert, RegisterSubscribe
<1>2. ASSUME NEW e \in Entries, Follow(e) PROVE RequestTypes'
  BY <1>2 DEF Follow, Dial, DialFails, TakeExit, ExitUpsert, Hangup, Leave
<1>3. ASSUME NEW c \in Callers, CancelTaken(c) PROVE RequestTypes'
  BY <1>3 DEF CancelTaken
<1>4. CASE Scanning
  BY <1>4 DEF Scanning, ScanFirst, Register, QueryMeta, RegisterUpsert, RegisterSubscribe, ScanUnlink,
     ScanSecond, ScanCheck, ScanMark, ScanUnsubscribe
<1>5. CASE Request
  BY <1>5, LifecycleAssumption DEF Request, Kill, Restart, Dismiss, DismissDead, Relaunch, KillRequest,
     Counted, ReqStep
<1>6. CASE Handle
  BY <1>6, LifecycleAssumption DEF Handle, KillAnswer, KillBroken, KillDone, ForceDead, ForceUnsubscribe,
     ForceUnlink, DismissRemove, DismissUnsubscribe, RestartLaunch, RestartGivesUp, Answered, UserStep,
     ReqStep, NoRequest
<1>7. CASE UNCHANGED sessionVars
  BY <1>7 DEF sessionVars
<1> QED BY <1>1, <1>2, <1>3, <1>4, <1>5, <1>6, <1>7 DEF LifeNext

-----------------------------------------------------------------------------
(* A restart's launch finds the path free                                  *)

(* Once the kill of a restart is answered, nothing is on its way to the    *)
(* path and no file is there, unless crowded says otherwise.               *)
FreeWhenLaunched == req = <<"restart", "killed">> /\ ~crowded => OnTheirWay = {} /\ path = None

(* And so it stays until the runner it launches has probed.                *)
FreeWhileStarting ==
  \A r \in Runners :
    run[r] = "starting" /\ via[r] = "killed" /\ ~crowded => OnTheirWay = {r} /\ ~Listening(path)

(* The inductive invariant.                                                *)
LifeInv == LifeTypeOK /\ FreeWhenLaunched /\ FreeWhileStarting

(* At first the only runner on its way is the user's.                      *)
LEMMA LifeInvInit == LifeInit => LifeInv
<1> SUFFICES ASSUME LifeInit PROVE LifeInv
  OBVIOUS
<1>1. LifeTypeOK
  <2>1. TableTypes
    BY DEF LifeInit, TableTypes, SubsInit, SubsTypeOK, Phases
  <2>2. RunnerTypes
    BY LifecycleAssumption DEF LifeInit, RunnerTypes
  <2>3. DaemonTypes
    BY DEF LifeInit, DaemonTypes
  <2>4. RequestTypes
    BY LifecycleAssumption DEF LifeInit, RequestTypes, NoRequest
  <2> QED BY <2>1, <2>2, <2>3, <2>4, LifeTypesParts
<1>2. FreeWhenLaunched /\ FreeWhileStarting
  BY DEF LifeInit, FreeWhenLaunched, FreeWhileStarting, NoRequest
<1> QED BY <1>1, <1>2 DEF LifeInv

(* A step that launches no runner and brings none to the path leaves the   *)
(* way as free as it was.                                                  *)
LEMMA FreeKept ==
  ASSUME LifeInv,
         \A r \in Runners : run'[r] = "starting" => run[r] = "starting",
         OnTheirWay' \subseteq OnTheirWay,
         \A r \in Runners : Listening(r)' => Listening(r),
         path' \in {path, None}, via' = via, crowded' = crowded,
         req' # req => req' # <<"restart", "killed">>
  PROVE  FreeWhenLaunched' /\ FreeWhileStarting'
<1>1. FreeWhenLaunched'
  BY DEF LifeInv, FreeWhenLaunched
<1>2. ASSUME NEW r \in Runners, run'[r] = "starting", via'[r] = "killed", ~crowded'
      PROVE  OnTheirWay' = {r} /\ ~Listening(path)'
  <2>1. run[r] = "starting" /\ OnTheirWay = {r} /\ ~Listening(path)
    BY <1>2 DEF LifeInv, FreeWhileStarting
  <2>2. r \in OnTheirWay'
    BY <1>2 DEF OnTheirWay
  <2>3. OnTheirWay' = {r}
    BY <2>1, <2>2
  <2>4. CASE path' = None
    BY <2>3, <2>4 DEF Listening
  <2>5. CASE path' = path /\ path \in Runners
    BY <2>1, <2>3, <2>5 DEF Listening
  <2> QED BY <2>3, <2>4, <2>5 DEF LifeInv, LifeTypeOK
<1> QED BY <1>1, <1>2 DEF FreeWhileStarting

(* A step of a runner: it may leave the way, take the path or die.         *)
LEMMA RunnerKeepsFree ==
  ASSUME LifeInv, NEW r \in Runners, Runner(r) \/ ChildExits(r) \/ Crash(r)
  PROVE  FreeWhenLaunched' /\ FreeWhileStarting'
<1> USE DEF processVars, launchVars, userVars
<1>1. CASE Bind(r)
  <2>1. r \in OnTheirWay /\ OnTheirWay # {} /\ run[r] # "starting"
    BY <1>1 DEF Bind, RunnerStep, OnTheirWay
  <2>2. \A q \in Runners : run'[q] = "starting" => run[q] = "starting"
    BY <1>1 DEF Bind, RunnerStep, LifeInv, LifeTypeOK
  <2>3. UNCHANGED <<via, crowded, req>>
    BY <1>1 DEF Bind
  <2>4. FreeWhenLaunched'
    BY <2>1, <2>3 DEF LifeInv, FreeWhenLaunched
  <2>5. ASSUME NEW q \in Runners, run'[q] = "starting", via'[q] = "killed", ~crowded' PROVE FALSE
    BY <2>1, <2>2, <2>3, <2>5 DEF LifeInv, FreeWhileStarting
  <2> QED BY <2>4, <2>5 DEF FreeWhileStarting
<1>2. CASE ~Bind(r)
  <2>1. /\ \A q \in Runners : run'[q] = "starting" => run[q] = "starting"
        /\ OnTheirWay' \subseteq OnTheirWay
        /\ \A q \in Runners : Listening(q)' => Listening(q)
    BY <1>2
    DEF Runner, Probe, SetRunning, SetExited, Deregister, RunnerExits, ChildExits, Crash, RunnerStep,
        Die, LifeInv, LifeTypeOK, OnTheirWay, Listening
  <2>2. UNCHANGED <<path, via, crowded, req>>
    BY <1>2
    DEF Runner, Probe, SetRunning, SetExited, Deregister, RunnerExits, ChildExits, Crash
  <2> QED BY <2>1, <2>2, FreeKept
<1> QED BY <1>1, <1>2

(* The daemon's own steps start no runner and bind no path.                *)
LEMMA DaemonKeepsFree ==
  ASSUME LifeInv,
         \/ \E x \in Registrars : Register(x)
         \/ \E r \in Runners : RegisterFails(r)
         \/ \E e \in Entries : Follow(e)
         \/ \E c \in Callers : CancelTaken(c)
         \/ Scanning
  PROVE  FreeWhenLaunched' /\ FreeWhileStarting'
<1> USE DEF processVars, launchVars, userVars, lifeVars
<1>1. UNCHANGED <<run, via, crowded, req>> /\ path' \in {path, None}
  BY DEF Register, QueryMeta, RegisterUpsert, RegisterSubscribe, RegisterFails, Follow, Dial, DialFails,
     TakeExit, ExitUpsert, Hangup, Leave, CancelTaken, Scanning, ScanFirst, ScanUnlink, ScanSecond,
     ScanCheck, ScanMark, ScanUnsubscribe
<1> QED BY <1>1, FreeKept DEF OnTheirWay, Listening

(* A request is made of a session nobody else asks about: what it launches *)
(* was not launched by a restart.                                          *)
LEMMA RequestKeepsFree ==
  ASSUME LifeInv, Request
  PROVE  FreeWhenLaunched' /\ FreeWhileStarting'
<1>1. CASE \E op \in {"resume", "restart"} : Relaunch(op)
  <2>1. req' = NoRequest /\ path' = path
    BY <1>1 DEF Relaunch
  <2>2. PICK r \in Runners : Launched(r, "dead")
    BY <1>1 DEF Relaunch
  <2>3. FreeWhenLaunched'
    BY <2>1 DEF FreeWhenLaunched, NoRequest
  <2>4. ASSUME NEW q \in Runners, run'[q] = "starting", via'[q] = "killed", ~crowded' PROVE FALSE
    <3>1. q # r /\ run[q] = "starting"
      BY <2>2, <2>4 DEF Launched, LifeInv, LifeTypeOK
    <3>2. q \in OnTheirWay
      BY <3>1 DEF OnTheirWay
    <3> QED BY <2>2, <2>4, <3>2 DEF Launched
  <2> QED BY <2>3, <2>4 DEF FreeWhileStarting
<1>2. CASE Kill \/ Restart \/ Dismiss \/ DismissDead
  <2>1. UNCHANGED <<run, via, crowded, path>>
    BY <1>2 DEF Kill, Restart, Dismiss, DismissDead, KillRequest, processVars, launchVars
  <2>2. req' # <<"restart", "killed">>
    BY <1>2 DEF Kill, Restart, Dismiss, DismissDead, KillRequest, ReqStep
  <2> QED BY <2>1, <2>2, FreeKept DEF OnTheirWay, Listening
<1> QED BY <1>1, <1>2 DEF Request

(* The answer to a restart's kill frees the path, and its launch is the    *)
(* next thing the handler does.                                            *)
LEMMA HandleKeepsFree ==
  ASSUME LifeInv, Handle
  PROVE  FreeWhenLaunched' /\ FreeWhileStarting'
<1> USE DEF processVars, launchVars
<1>1. CASE KillAnswer
  <2>1. run' = run /\ via' = via /\ path' = None
    BY <1>1 DEF KillAnswer, Answered
  <2>2. req' = <<"restart", "killed">> => crowded' = (OnTheirWay # {})
    BY <1>1 DEF KillAnswer, Answered, ReqStep
  <2>3. FreeWhenLaunched'
    BY <2>1, <2>2 DEF FreeWhenLaunched, OnTheirWay
  <2>4. CASE req' = <<"restart", "killed">>
    BY <2>1, <2>2, <2>3, <2>4 DEF FreeWhileStarting, OnTheirWay, Listening
  <2>5. CASE req' # <<"restart", "killed">>
    <3>1. crowded' = crowded
      BY <1>1, <2>5 DEF KillAnswer, Answered, ReqStep
    <3> QED BY <2>1, <2>3, <2>5, <3>1 DEF LifeInv, FreeWhileStarting, OnTheirWay, Listening
  <2> QED BY <2>3, <2>4, <2>5
<1>2. CASE RestartLaunch
  <2>1. req = <<"restart", "killed">> /\ req' = NoRequest /\ path' = path
    BY <1>2 DEF RestartLaunch, UserStep, ReqStep
  <2>2. PICK r \in Runners : Launched(r, "killed")
    BY <1>2 DEF RestartLaunch
  <2>3. FreeWhenLaunched'
    BY <2>1 DEF FreeWhenLaunched, NoRequest
  <2>4. ASSUME ~crowded' PROVE OnTheirWay = {} /\ path = None
    BY <2>1, <2>2, <2>4 DEF Launched, LifeInv, FreeWhenLaunched
  <2>5. ASSUME ~crowded' PROVE OnTheirWay' = {r} /\ ~Listening(path)'
    BY <2>1, <2>2, <2>4, <2>5 DEF Launched, OnTheirWay, LifeInv, LifeTypeOK, Listening
  <2>6. ASSUME NEW q \in Runners, run'[q] = "starting", ~crowded' PROVE q = r
    BY <2>5, <2>6 DEF OnTheirWay
  <2> QED BY <2>3, <2>5, <2>6 DEF FreeWhileStarting
<1>3. CASE ~KillAnswer /\ ~RestartLaunch
  <2>1. UNCHANGED <<run, via>> /\ path' \in {path, None}
    BY <1>3
    DEF Handle, KillBroken, KillDone, ForceDead, ForceUnsubscribe, ForceUnlink, DismissRemove,
        DismissUnsubscribe, RestartGivesUp, Answered
  <2>2. crowded' = crowded /\ req' # <<"restart", "killed">>
    BY <1>3
    DEF Handle, KillBroken, KillDone, ForceDead, ForceUnsubscribe, ForceUnlink, DismissRemove,
        DismissUnsubscribe, RestartGivesUp, Answered, UserStep, ReqStep, NoRequest
  <2> QED BY <2>1, <2>2, FreeKept DEF OnTheirWay, Listening
<1> QED BY <1>1, <1>2, <1>3

(* Every step keeps the invariant.                                         *)
LEMMA LifeInvKept == LifeInv /\ [LifeNext]_sessionVars => LifeInv'
<1> SUFFICES ASSUME LifeInv, [LifeNext]_sessionVars PROVE LifeInv'
  OBVIOUS
<1>1. LifeTypeOK'
  <2>1. TableTypes' /\ RunnerTypes' /\ DaemonTypes' /\ RequestTypes'
    BY TableSteps, RunnerTypeSteps, DaemonTypeSteps, RequestTypeSteps DEF LifeInv
  <2> QED BY <2>1 DEF LifeTypeOK, TableTypes, RunnerTypes, DaemonTypes, RequestTypes
<1>2. FreeWhenLaunched' /\ FreeWhileStarting'
  <2>1. CASE UNCHANGED sessionVars
    BY <2>1, FreeKept DEF sessionVars, lifeVars, processVars, launchVars, userVars, OnTheirWay, Listening
  <2>2. CASE LifeNext
    BY <2>2, RunnerKeepsFree, DaemonKeepsFree, RequestKeepsFree, HandleKeepsFree
    DEF LifeNext, Registrars
  <2> QED BY <2>1, <2>2
<1> QED BY <1>1, <1>2 DEF LifeInv

(* The variables of a session's life keep their types.                     *)
THEOREM LifeTypesHold == LifeSpec => []LifeTypeOK
BY LifeInvInit, LifeInvKept, PTL DEF LifeSpec, LifeInv

(* A restart keeps the session's id: the runner it launches finds the path *)
(* free, unless another launch of the session raced it.                    *)
THEOREM RestartFindsPathFree == LifeSpec => []RestartKeepsId
<1>1. LifeInv => RestartKeepsId
  BY DEF LifeInv, FreeWhileStarting, RestartKeepsId
<1> QED BY <1>1, LifeInvInit, LifeInvKept, PTL DEF LifeSpec
=============================================================================
