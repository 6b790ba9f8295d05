----------------------------- MODULE RelayProofs -----------------------------
(***************************************************************************)
(* Proofs about Relay, for any number of browsers, of connections of the   *)
(* agent, of failures and of data frames: its types, that its steps are    *)
(* steps of RelayService, and that neither end keeps a WebSocket the       *)
(* other has given up.                                                     *)
(***************************************************************************)
EXTENDS Relay, SequenceTheorems, TLAPS

(* The frames of a connection, one direction.                              *)
Held(s) == {s[i] : i \in DOMAIN s}

Starts(f) == f.kind \in {"request", "open"}
Grants(f) == f.kind = "response" /\ f.ok

(* A connection carries at most one frame that starts a browser's request. *)
StartsOnce(s) ==
  \A i, j \in DOMAIN s : Starts(s[i]) /\ Starts(s[j]) /\ s[i].id = s[j].id => i = j

-----------------------------------------------------------------------------
(* The inductive invariant                                                 *)

Early(b) == at[b] \in {"idle", "refused", "picked", "registered"}

(* A browser's frames are on its own connection, and it has sent one that  *)
(* starts its request only once: after that a goroutine takes over.        *)
SentOnce ==
  /\ \A b \in Browsers : Early(b) => job[b] = "none"
  /\ \A a \in Agents : \A f \in Held(toAgent[a]) :
       /\ via[f.id] = a /\ ~Early(f.id)
       /\ Starts(f) => job[f.id] = "none" /\ (f.kind = "open" <=> f.id \in Sockets)
  /\ \A a \in Agents : StartsOnce(toAgent[a])

(* Which goroutine serves whom, and when jumpd has seen the request.       *)
SeenOnce ==
  \A b \in Browsers :
    /\ job[b] \in {"request", "served", "failed"} => b \notin Sockets
    /\ job[b] \in {"open", "dialed", "stored", "reading", "refused"} => b \in Sockets
    /\ job[b] # "none" => via[b] # None
    /\ job[b] \in {"none", "request", "open"} => seen[b] = 0
    /\ job[b] \in {"served", "dialed", "stored", "reading"} => seen[b] = 1
    /\ seen[b] \in {0, 1}

(* A success rests on what jumpd has seen; who waits has no answer.        *)
AnswersRest ==
  /\ \A a \in Agents : \A f \in Held(toRelay[a]) : Grants(f) => seen[f.id] = 1
  /\ \A b \in Browsers : box[b] = "ok" => seen[b] = 1
  /\ \A b \in Browsers : at[b] \notin {"copying", "done"} => out[b] = "none"

(* The agent has the WebSocket in its table, or has closed it.             *)
InTable(b) == b \in cws[via[b]] \/ local[b] = "closed"
Granted(b) == job[b] \in {"reading", "over"} /\ InTable(b)

(* Once a browser may send data, the agent's table has had its WebSocket.  *)
OpenedInOrder ==
  /\ \A a \in Agents : \A f \in Held(toRelay[a]) : Grants(f) /\ f.id \in Sockets => Granted(f.id)
  /\ \A a \in Agents : \A f \in Held(toAgent[a]) : f.kind = "data" => Granted(f.id)
  /\ \A b \in Sockets : box[b] = "ok" \/ at[b] = "copying" => Granted(b)
  /\ \A b \in Browsers : at[b] = "copying" => b \in Sockets
  /\ \A b \in Browsers : job[b] \in {"stored", "reading"} => InTable(b)
  /\ \A b \in lost : job[b] \in {"reading", "over"} /\ local[b] = "closed"

(* An open WebSocket has a goroutine that will close it.                   *)
OpenIsServed == \A b \in Browsers : local[b] = "open" => job[b] \in {"dialed", "stored", "reading"}

RelayInv == TypeOK /\ SentOnce /\ SeenOnce /\ AnswersRest /\ OpenedInOrder /\ OpenIsServed
-----------------------------------------------------------------------------
(* Types.  The variables of a group stay in a step that none of the named  *)
(* actions takes.                                                          *)

LEMMA BrowserTyped ==
  ASSUME TypeOK, Next
  PROVE  BrowserTypes'
<1> USE RelayAssumption DEF TypeOK, BrowserTypes, RelayTypes, Answers, Browsers
<1>1. ASSUME NEW b \in Browsers, Pick(b) PROVE BrowserTypes'
  <2>1. CASE current = None
    BY <1>1, <2>1 DEF Pick, histVars
  <2>2. CASE current # None
    BY <1>1, <2>2 DEF Pick, histVars
  <2> QED BY <2>1, <2>2
<1>2. ASSUME NEW b \in Browsers, Refuse(b) PROVE BrowserTypes'
  BY <1>2 DEF Refuse, histVars
<1>3. ASSUME NEW b \in Browsers, Register(b) PROVE BrowserTypes'
  BY <1>3 DEF Register, histVars
<1>4. ASSUME NEW b \in Browsers, Send(b) PROVE BrowserTypes'
  BY <1>4 DEF Send, histVars
<1>5. ASSUME NEW b \in Browsers, SendFails(b) PROVE BrowserTypes'
  BY <1>5 DEF SendFails, RemoveWS, histVars
<1>6. ASSUME NEW b \in Browsers, Receive(b) PROVE BrowserTypes'
  BY <1>6 DEF Receive, RemoveWS, histVars
<1>7. ASSUME NEW b \in Browsers, Timeout(b) PROVE BrowserTypes'
  BY <1>7 DEF Timeout, RemoveWS, histVars
<1>8. ASSUME NEW b \in Browsers, CopyEnds(b) PROVE BrowserTypes'
  BY <1>8 DEF CopyEnds, RemoveWS, histVars
<1>9. ASSUME NEW b \in Browsers, Stall(b) \/ Leave(b) PROVE BrowserTypes'
  BY <1>9 DEF Stall, Leave, browserVars, histVars
<1>10. ASSUME NEW a \in Agents, DispatchResponse(a) PROVE BrowserTypes'
  BY <1>10 DEF DispatchResponse, histVars
<1>11. ASSUME NEW a \in Agents, DispatchClose(a) PROVE BrowserTypes'
  BY <1>11 DEF DispatchClose, browserVars, histVars
<1>12. ASSUME NEW a \in Agents, FailAll(a) PROVE BrowserTypes'
  BY <1>12 DEF FailAll, histVars
<1>13. CASE UNCHANGED <<browserVars, sock, expired>>
  BY <1>13 DEF browserVars
<1> QED
  BY <1>1, <1>2, <1>3, <1>4, <1>5, <1>6, <1>7, <1>8, <1>9, <1>10, <1>11, <1>12, <1>13
  DEF Next, BrowserStep, RelayStep, AgentStep, JobStep, CopyUp, Serve, Reply, Dial, Store,
      Opened, CopyDown, LocalEnds, ReadEnds, Accept, CloseOld, DispatchData, WriteEnds,
      RelayFails, LoopEnds, ClearAgent, AgentStarts, AgentData, AgentCloses, AgentFails,
      AgentCleans, Cut, browserVars, histVars

LEMMA RelayTyped ==
  ASSUME TypeOK, Next
  PROVE  RelayTypes'
<1> USE RelayAssumption DEF TypeOK, BrowserTypes, RelayTypes, Browsers
<1>1. ASSUME NEW b \in Browsers, Register(b) PROVE RelayTypes'
  BY <1>1 DEF Register
<1>2. ASSUME NEW b \in Browsers, SendFails(b) PROVE RelayTypes'
  BY <1>2 DEF SendFails, RemoveWS
<1>3. ASSUME NEW b \in Browsers, Receive(b) PROVE RelayTypes'
  BY <1>3 DEF Receive, RemoveWS
<1>4. ASSUME NEW b \in Browsers, Timeout(b) PROVE RelayTypes'
  BY <1>4 DEF Timeout, RemoveWS
<1>5. ASSUME NEW b \in Browsers, CopyEnds(b) PROVE RelayTypes'
  BY <1>5 DEF CopyEnds, RemoveWS
<1>6. ASSUME NEW a \in Agents, Accept(a) PROVE RelayTypes'
  BY <1>6 DEF Accept
<1>7. ASSUME NEW a \in Agents, CloseOld(a) PROVE RelayTypes'
  BY <1>7 DEF CloseOld
<1>8. ASSUME NEW a \in Agents, DispatchResponse(a) PROVE RelayTypes'
  BY <1>8 DEF DispatchResponse
<1>9. ASSUME NEW a \in Agents, DispatchData(a) PROVE RelayTypes'
  BY <1>9 DEF DispatchData
<1>10. ASSUME NEW a \in Agents, DispatchClose(a) PROVE RelayTypes'
  BY <1>10 DEF DispatchClose
<1>11. ASSUME NEW a \in Agents, WriteEnds(a) \/ LoopEnds(a) \/ ClearAgent(a) PROVE RelayTypes'
  BY <1>11 DEF WriteEnds, LoopEnds, ClearAgent
<1>12. ASSUME NEW a \in Agents, FailAll(a) PROVE RelayTypes'
  BY <1>12 DEF FailAll
<1>13. CASE UNCHANGED relayVars
  BY <1>13 DEF relayVars
<1> QED
  BY <1>1, <1>2, <1>3, <1>4, <1>5, <1>6, <1>7, <1>8, <1>9, <1>10, <1>11, <1>12, <1>13
  DEF Next, BrowserStep, RelayStep, AgentStep, JobStep, Pick, Refuse, Send, CopyUp, Stall, Leave,
      Serve, Reply, Dial, Store, Opened, CopyDown, LocalEnds, ReadEnds, RelayFails, AgentStarts,
      AgentData, AgentCloses, AgentFails, AgentCleans, Cut

(* Frames sent and taken.                                                  *)
LEMMA FramesTyped ==
  ASSUME NEW b \in Browsers, NEW ok \in BOOLEAN,
         NEW k \in {"request", "open", "response", "data", "close"}
  PROVE  Frame(k, b, ok) \in Frames
BY DEF Frame, Frames

LEMMA SendsTyped ==
  ASSUME WireTypes, NEW a, NEW f \in Frames
  PROVE  /\ SendToAgent(a, f) => toAgent' \in [Agents -> Seq(Frames)]
         /\ SendToRelay(a, f) => toRelay' \in [Agents -> Seq(Frames)]
<1>1. \A s \in Seq(Frames) : Append(s, f) \in Seq(Frames)
  BY AppendProperties
<1>2. ASSUME NEW w \in [Agents -> Seq(Frames)]
      PROVE  [w EXCEPT ![a] = Append(@, f)] \in [Agents -> Seq(Frames)]
  BY <1>1
<1> QED BY <1>2 DEF WireTypes, SendToAgent, SendToRelay

LEMMA TailTyped ==
  ASSUME NEW w \in [Agents -> Seq(Frames)], NEW a \in Agents, w[a] # <<>>
  PROVE  /\ [w EXCEPT ![a] = Tail(@)] \in [Agents -> Seq(Frames)]
         /\ Head(w[a]) \in Frames
<1>1. Tail(w[a]) \in Seq(Frames) /\ Head(w[a]) \in Frames
  BY HeadTailProperties
<1> QED BY <1>1

LEMMA EmptyTyped ==
  ASSUME NEW w \in [Agents -> Seq(Frames)], NEW a
  PROVE  [w EXCEPT ![a] = <<>>] \in [Agents -> Seq(Frames)]
<1>1. <<>> \in Seq(Frames)
  BY EmptySeq
<1> QED BY <1>1

LEMMA WireTyped ==
  ASSUME TypeOK, Next
  PROVE  WireTypes'
<1> USE DEF TypeOK, WireTypes
<1>1. ASSUME NEW b \in Browsers, Send(b) PROVE WireTypes'
  BY <1>1, FramesTyped, SendsTyped DEF Send, connVars, boundVars
<1>2. ASSUME NEW b \in Browsers, SendFails(b) PROVE WireTypes'
  <2>1. toRelay' \in [Agents -> Seq(Frames)]
    BY <1>2, EmptyTyped DEF SendFails
  <2> QED BY <1>2, <2>1 DEF SendFails
<1>3. ASSUME NEW b \in Browsers, CopyUp(b) PROVE WireTypes'
  <2>1. toAgent' \in [Agents -> Seq(Frames)]
    BY <1>3, FramesTyped, SendsTyped DEF CopyUp
  <2> QED BY <1>3, <2>1 DEF CopyUp, connVars
<1>4. ASSUME NEW b \in Browsers, CopyEnds(b) PROVE WireTypes'
  BY <1>4, FramesTyped, SendsTyped DEF CopyEnds, connVars, boundVars
<1>5. ASSUME NEW b \in Browsers, Reply(b) PROVE WireTypes'
  <2>1. (job[b] = "served") \in BOOLEAN
    OBVIOUS
  <2> QED BY <1>5, <2>1, FramesTyped, SendsTyped DEF Reply, connVars, boundVars
<1>6. ASSUME NEW b \in Browsers, Opened(b) PROVE WireTypes'
  BY <1>6, FramesTyped, SendsTyped DEF Opened, connVars, boundVars
<1>7. ASSUME NEW b \in Browsers, CopyDown(b) PROVE WireTypes'
  <2>1. toRelay' \in [Agents -> Seq(Frames)]
    BY <1>7, FramesTyped, SendsTyped DEF CopyDown
  <2> QED BY <1>7, <2>1 DEF CopyDown, connVars
<1>8. ASSUME NEW b \in Browsers, ReadEnds(b) PROVE WireTypes'
  BY <1>8, FramesTyped, SendsTyped DEF ReadEnds, connVars, boundVars
<1>9. ASSUME NEW a \in Agents, Accept(a) PROVE WireTypes'
  BY <1>9 DEF Accept, wireVars, boundVars
<1>10. ASSUME NEW a \in Agents, CloseOld(a) PROVE WireTypes'
  <2>1. toRelay' = toRelay \/ toRelay' = [toRelay EXCEPT ![old[a]] = <<>>]
    BY <1>10 DEF CloseOld
  <2>2. [toRelay EXCEPT ![old[a]] = <<>>] \in [Agents -> Seq(Frames)]
    BY EmptyTyped
  <2>3. toRelay' \in [Agents -> Seq(Frames)]
    BY <2>1, <2>2
  <2>4. rUp' \in [Agents -> BOOLEAN]
    BY <1>10 DEF CloseOld
  <2> QED BY <1>10, <2>3, <2>4 DEF CloseOld, boundVars
<1>11. ASSUME NEW a \in Agents,
              DispatchResponse(a) \/ DispatchData(a) \/ DispatchClose(a) PROVE WireTypes'
  <2>1. toRelay[a] # <<>> /\ toRelay' = [toRelay EXCEPT ![a] = Tail(@)]
    BY <1>11 DEF DispatchResponse, DispatchData, DispatchClose, Reads
  <2> QED
    BY <1>11, <2>1, TailTyped
    DEF DispatchResponse, DispatchData, DispatchClose, connVars, boundVars
<1>12. ASSUME NEW a \in Agents, RelayFails(a) PROVE WireTypes'
  BY <1>12, EmptyTyped DEF RelayFails, boundVars
<1>13. ASSUME NEW a \in Agents, AgentStarts(a) \/ AgentData(a) \/ AgentCloses(a) PROVE WireTypes'
  <2>1. toAgent[a] # <<>> /\ toAgent' = [toAgent EXCEPT ![a] = Tail(@)]
    BY <1>13 DEF AgentStarts, AgentData, AgentCloses, Gets
  <2> QED
    BY <1>13, <2>1, TailTyped DEF AgentStarts, AgentData, AgentCloses, connVars, boundVars
<1>14. ASSUME NEW a \in Agents, AgentCleans(a) PROVE WireTypes'
  BY <1>14, EmptyTyped DEF AgentCleans, boundVars
<1>15. ASSUME NEW a \in Agents, Cut(a) PROVE WireTypes'
  BY <1>15, EmptyTyped DEF Cut
<1>16. CASE UNCHANGED <<connVars, wireVars, boundVars>>
  BY <1>16 DEF connVars, wireVars, boundVars
<1> QED
  BY <1>1, <1>2, <1>3, <1>4, <1>5, <1>6, <1>7, <1>8, <1>9, <1>10, <1>11, <1>12, <1>13, <1>14,
     <1>15, <1>16
  DEF Next, BrowserStep, RelayStep, AgentStep, JobStep, Pick, Refuse, Register, Receive, Timeout,
      Stall, Leave, Serve, Dial, Store, LocalEnds, WriteEnds, LoopEnds, ClearAgent, FailAll,
      AgentFails

LEMMA AgentTyped ==
  ASSUME TypeOK, Next
  PROVE  AgentTypes'
<1> USE DEF TypeOK, AgentTypes
<1>1. ASSUME NEW a \in Agents, Accept(a) \/ AgentFails(a) PROVE AgentTypes'
  BY <1>1 DEF Accept, AgentFails, histVars
<1>2. ASSUME NEW a \in Agents, Gets(a) PROVE Head(toAgent[a]).id \in Browsers
  BY <1>2, TailTyped DEF Gets, WireTypes, Frames
<1>3. ASSUME NEW a \in Agents, AgentStarts(a) PROVE AgentTypes'
  BY <1>2, <1>3 DEF AgentStarts, histVars
<1>4. ASSUME NEW a \in Agents, AgentData(a) PROVE AgentTypes'
  BY <1>2, <1>4 DEF AgentData
<1>5. ASSUME NEW a \in Agents, AgentCloses(a) PROVE AgentTypes'
  BY <1>2, <1>5 DEF AgentCloses, CloseWS, histVars
<1>6. ASSUME NEW a \in Agents, AgentCleans(a) PROVE AgentTypes'
  BY <1>6 DEF AgentCleans, histVars
<1>7. ASSUME NEW b \in Browsers, Serve(b) \/ Reply(b) \/ Dial(b) PROVE AgentTypes'
  BY <1>7 DEF Serve, Reply, Dial, histVars
<1>8. ASSUME NEW b \in Browsers, Store(b) PROVE AgentTypes'
  BY <1>8 DEF Store, histVars
<1>9. ASSUME NEW b \in Browsers, LocalEnds(b) PROVE AgentTypes'
  BY <1>9 DEF LocalEnds, histVars
<1>10. ASSUME NEW b \in Browsers, ReadEnds(b) PROVE AgentTypes'
  BY <1>10 DEF ReadEnds, histVars
<1>11. ASSUME NEW b \in Browsers, Opened(b) PROVE AgentTypes'
  <2>1. cws' = cws \/ cws' = [cws EXCEPT ![via[b]] = @ \ {b}]
    BY <1>11 DEF Opened
  <2>2. cws' \in [Agents -> SUBSET Browsers]
    BY <2>1
  <2> QED BY <1>11, <2>2 DEF Opened, CloseWS, histVars
<1>12. CASE UNCHANGED <<agentVars, lost>>
  BY <1>12 DEF agentVars
<1> HIDE DEF TypeOK, AgentTypes
<1> QED
  BY <1>1, <1>3, <1>4, <1>5, <1>6, <1>7, <1>8, <1>11, <1>12, <1>9, <1>10
  DEF Next, BrowserStep, RelayStep, AgentStep, JobStep, Pick, Refuse, Register, Send, SendFails,
      Receive, Timeout, CopyUp, CopyEnds, Stall, Leave, CopyDown, CloseOld, DispatchResponse,
      DispatchData, DispatchClose, WriteEnds, RelayFails, LoopEnds, ClearAgent, FailAll, Cut,
      histVars, agentVars

LEMMA TypesKept == TypeOK /\ [Next]_vars => TypeOK'
<1>1. CASE Next
  BY <1>1, BrowserTyped, RelayTyped, WireTyped, AgentTyped DEF TypeOK
<1>2. CASE UNCHANGED vars
  BY <1>2 DEF vars, browserVars, relayVars, connVars, wireVars, agentVars, histVars, boundVars,
     TypeOK, BrowserTypes, RelayTypes, WireTypes, AgentTypes
<1> QED BY <1>1, <1>2

LEMMA TypesInit == Init => TypeOK
BY EmptySeq DEF Init, TypeOK, BrowserTypes, RelayTypes, WireTypes, AgentTypes, Answers

-----------------------------------------------------------------------------
(* Sequences of frames, and what a step adds to them.                      *)

LEMMA HeldAppend ==
  ASSUME NEW s \in Seq(Frames), NEW f \in Frames
  PROVE  /\ Held(Append(s, f)) = Held(s) \cup {f}
         /\ StartsOnce(s) /\ (Starts(f) => \A g \in Held(s) : ~(Starts(g) /\ g.id = f.id))
              => StartsOnce(Append(s, f))
<1> DEFINE t == Append(s, f)
<1>1. /\ Len(s) \in Nat /\ DOMAIN s = 1..Len(s) /\ DOMAIN t = 1..(Len(s) + 1)
      /\ \A i \in 1..Len(s) : t[i] = s[i]
      /\ t[Len(s) + 1] = f
  BY AppendProperties, LenProperties
<1> HIDE DEF t
<1>2. \A i \in DOMAIN t : i \in DOMAIN s \/ i = Len(s) + 1
  BY <1>1
<1>3. Held(t) = Held(s) \cup {f}
  BY <1>1, <1>2 DEF Held
<1>4. ASSUME StartsOnce(s), Starts(f) => \A g \in Held(s) : ~(Starts(g) /\ g.id = f.id)
      PROVE  StartsOnce(t)
  BY <1>1, <1>2, <1>4 DEF Held, StartsOnce
<1> QED BY <1>3, <1>4 DEF t

LEMMA HeldTail ==
  ASSUME NEW s \in Seq(Frames), s # <<>>
  PROVE  /\ Head(s) \in Held(s) /\ Held(Tail(s)) \subseteq Held(s)
         /\ StartsOnce(s) => StartsOnce(Tail(s))
         /\ StartsOnce(s) /\ Starts(Head(s))
              => \A g \in Held(Tail(s)) : ~(Starts(g) /\ g.id = Head(s).id)
<1> DEFINE t == Tail(s)
<1>1. /\ Len(s) \in Nat /\ Len(s) > 0 /\ DOMAIN s = 1..Len(s) /\ DOMAIN t = 1..(Len(s) - 1)
      /\ \A i \in DOMAIN t : t[i] = s[i + 1]
  BY HeadTailProperties, LenProperties, EmptySeq
<1>2. Head(s) = s[1] /\ 1 \in DOMAIN s
  BY <1>1
<1> HIDE DEF t
<1>3. \A i \in DOMAIN t : i + 1 \in DOMAIN s /\ i + 1 # 1 /\ i \in Nat
  BY <1>1
<1>4. Held(t) \subseteq Held(s) /\ Head(s) \in Held(s)
  BY <1>1, <1>2, <1>3 DEF Held
<1>5. StartsOnce(s) => StartsOnce(t)
  BY <1>1, <1>3 DEF StartsOnce
<1>6. ASSUME StartsOnce(s), Starts(Head(s)), NEW i \in DOMAIN t, Starts(t[i]), t[i].id = Head(s).id
      PROVE  FALSE
  BY <1>1, <1>2, <1>3, <1>6 DEF StartsOnce
<1> QED BY <1>4, <1>5, <1>6 DEF Held, t

LEMMA HeldEmpty == Held(<<>>) = {} /\ StartsOnce(<<>>)
BY DEF Held, StartsOnce

LEMMA SendHolds ==
  ASSUME TypeOK, NEW c \in Agents \cup {None}, NEW g \in Frames, NEW a \in Agents
  PROVE  /\ SendToAgent(c, g) =>
              \/ toAgent'[a] = toAgent[a]
              \/ a = c /\ toAgent'[a] = Append(toAgent[a], g)
         /\ SendToRelay(c, g) =>
              \/ toRelay'[a] = toRelay[a]
              \/ a = c /\ toRelay'[a] = Append(toRelay[a], g)
BY DEF SendToAgent, SendToRelay, TypeOK, WireTypes

(* What is new on the way to an agent, and to the relay.                   *)
Sent(b, f) ==
  \/ Send(b) /\ f = Frame(IF b \in Sockets THEN "open" ELSE "request", b, TRUE)
  \/ CopyUp(b) /\ f = Frame("data", b, TRUE)
  \/ CopyEnds(b) /\ f = Frame("close", b, TRUE)

ToAgentMoves(a) ==
  \/ toAgent'[a] = toAgent[a]
  \/ toAgent'[a] = <<>>
  \/ Gets(a) /\ toAgent'[a] = Tail(toAgent[a])
  \/ \E b \in Browsers, f \in Frames :
       Sent(b, f) /\ via[b] = a /\ toAgent'[a] = Append(toAgent[a], f)

LEMMA ToAgent ==
  ASSUME TypeOK, Next, NEW a \in Agents
  PROVE  ToAgentMoves(a)
<1> USE DEF ToAgentMoves
<1>1. \A b \in Browsers : via[b] \in Agents \cup {None}
  BY DEF TypeOK, BrowserTypes
<1>2. toAgent \in [Agents -> Seq(Frames)]
  BY DEF TypeOK, WireTypes
<1>3. ASSUME NEW b \in Browsers, Send(b) PROVE ToAgentMoves(a)
  <2> DEFINE f == Frame(IF b \in Sockets THEN "open" ELSE "request", b, TRUE)
  <2>1. f \in Frames /\ SendToAgent(via[b], f) /\ Sent(b, f)
    BY <1>3, FramesTyped DEF Send, Sent
  <2> HIDE DEF f
  <2> QED BY <1>1, <2>1, SendHolds
<1>4. ASSUME NEW b \in Browsers, CopyUp(b) PROVE ToAgentMoves(a)
  <2> DEFINE f == Frame("data", b, TRUE)
  <2>1. f \in Frames /\ SendToAgent(via[b], f) /\ Sent(b, f)
    BY <1>4, FramesTyped DEF CopyUp, Sent
  <2> HIDE DEF f
  <2> QED BY <1>1, <2>1, SendHolds
<1>5. ASSUME NEW b \in Browsers, CopyEnds(b) PROVE ToAgentMoves(a)
  <2> DEFINE f == Frame("close", b, TRUE)
  <2>1. f \in Frames /\ (SendToAgent(via[b], f) \/ toAgent' = toAgent) /\ Sent(b, f)
    BY <1>5, FramesTyped DEF CopyEnds, Sent
  <2> HIDE DEF f
  <2> QED BY <1>1, <2>1, SendHolds
<1>6. ASSUME NEW c \in Agents, AgentStarts(c) \/ AgentData(c) \/ AgentCloses(c)
      PROVE  ToAgentMoves(a)
  BY <1>2, <1>6 DEF AgentStarts, AgentData, AgentCloses
<1>7. ASSUME NEW c \in Agents, AgentCleans(c) \/ Cut(c) PROVE ToAgentMoves(a)
  BY <1>2, <1>7 DEF AgentCleans, Cut
<1>8. CASE UNCHANGED toAgent
  BY <1>8
<1> HIDE DEF ToAgentMoves
<1> QED
  BY <1>3, <1>4, <1>5, <1>6, <1>7, <1>8
  DEF Next, BrowserStep, RelayStep, AgentStep, JobStep, Pick, Refuse, Register, SendFails, Receive,
      Timeout, Stall, Leave, Serve, Reply, Dial, Store, Opened, CopyDown, LocalEnds, ReadEnds,
      Accept, CloseOld, DispatchResponse, DispatchData, DispatchClose, WriteEnds, RelayFails,
      LoopEnds, ClearAgent, FailAll, AgentFails, wireVars

Returned(b, f) ==
  \/ Reply(b) /\ f = Frame("response", b, job[b] = "served")
  \/ Opened(b) /\ job'[b] = "reading" /\ UNCHANGED <<cws, local>> /\ f = Frame("response", b, TRUE)
  \/ f.kind \in {"data", "close"}

ToRelayMoves(a) ==
  \/ toRelay'[a] = toRelay[a]
  \/ toRelay'[a] = <<>>
  \/ Reads(a) /\ toRelay'[a] = Tail(toRelay[a])
  \/ \E b \in Browsers, f \in Frames :
       Returned(b, f) /\ toRelay'[a] = Append(toRelay[a], f)

LEMMA ToRelay ==
  ASSUME TypeOK, Next, NEW a \in Agents
  PROVE  ToRelayMoves(a)
<1> USE DEF ToRelayMoves
<1>1. \A b \in Browsers : via[b] \in Agents \cup {None}
  BY DEF TypeOK, BrowserTypes
<1>2. toRelay \in [Agents -> Seq(Frames)]
  BY DEF TypeOK, WireTypes
<1>3. ASSUME NEW b \in Browsers, Reply(b) PROVE ToRelayMoves(a)
  <2> DEFINE f == Frame("response", b, job[b] = "served")
  <2>1. (job[b] = "served") \in BOOLEAN
    OBVIOUS
  <2>2. f \in Frames /\ (SendToRelay(via[b], f) \/ toRelay' = toRelay) /\ Returned(b, f)
    BY <1>3, <2>1, FramesTyped DEF Reply, Returned
  <2> HIDE DEF f
  <2> QED BY <1>1, <2>2, SendHolds
<1>4. ASSUME NEW b \in Browsers, Opened(b) PROVE ToRelayMoves(a)
  <2> DEFINE f == Frame("response", b, TRUE)
  <2>1. f \in Frames
    BY FramesTyped
  <2>2. (SendToRelay(via[b], f) /\ Returned(b, f)) \/ toRelay' = toRelay
    BY <1>4 DEF Opened, Returned, TypeOK, AgentTypes
  <2> HIDE DEF f
  <2> QED BY <1>1, <2>1, <2>2, SendHolds
<1>5. ASSUME NEW b \in Browsers, CopyDown(b) \/ ReadEnds(b) PROVE ToRelayMoves(a)
  <2>1. \E f \in Frames : /\ f.kind \in {"data", "close"}
                          /\ SendToRelay(via[b], f) \/ toRelay' = toRelay
    <3>1. Frame("data", b, TRUE) \in Frames /\ Frame("close", b, TRUE) \in Frames
      BY FramesTyped
    <3>2. \/ SendToRelay(via[b], Frame("data", b, TRUE))
          \/ SendToRelay(via[b], Frame("close", b, TRUE))
          \/ toRelay' = toRelay
      BY <1>5 DEF CopyDown, ReadEnds
    <3>3. Frame("data", b, TRUE).kind = "data" /\ Frame("close", b, TRUE).kind = "close"
      BY DEF Frame
    <3> QED BY <3>1, <3>2, <3>3
  <2>2. ASSUME NEW f \in Frames, f.kind \in {"data", "close"}, SendToRelay(via[b], f)
        PROVE  ToRelayMoves(a)
    <3>1. Returned(b, f)
      BY <2>2 DEF Returned
    <3>2. via[b] \in Agents \cup {None} /\ SendToRelay(via[b], f)
      BY <1>1, <2>2
    <3> QED BY <3>1, <3>2, SendHolds
  <2> QED BY <2>1, <2>2
<1>6. ASSUME NEW c \in Agents, DispatchResponse(c) \/ DispatchData(c) \/ DispatchClose(c)
      PROVE  ToRelayMoves(a)
  BY <1>2, <1>6 DEF DispatchResponse, DispatchData, DispatchClose
<1>7. ASSUME NEW c \in Agents, RelayFails(c) \/ Cut(c) PROVE ToRelayMoves(a)
  BY <1>2, <1>7 DEF RelayFails, Cut
<1>8. ASSUME NEW b \in Browsers, SendFails(b) PROVE ToRelayMoves(a)
  BY <1>2, <1>8 DEF SendFails
<1>9. ASSUME NEW c \in Agents, CloseOld(c) PROVE ToRelayMoves(a)
  <2>1. toRelay' = toRelay \/ toRelay' = [toRelay EXCEPT ![old[c]] = <<>>]
    BY <1>9 DEF CloseOld
  <2> QED BY <1>2, <2>1
<1>10. CASE UNCHANGED toRelay
  BY <1>10
<1> HIDE DEF ToRelayMoves
<1> QED
  BY <1>3, <1>4, <1>5, <1>6, <1>7, <1>8, <1>9, <1>10
  DEF Next, BrowserStep, RelayStep, AgentStep, JobStep, Pick, Refuse, Register, Send, Receive,
      Timeout, CopyUp, CopyEnds, Stall, Leave, Serve, Dial, Store, LocalEnds, Accept, WriteEnds,
      LoopEnds, ClearAgent, FailAll, AgentStarts, AgentData, AgentCloses, AgentFails, AgentCleans,
      wireVars

(* Whose goroutine moves.                                                  *)
JobMove(b) ==
  \/ job'[b] = job[b] /\ seen'[b] = seen[b]
  \/ \E a \in Agents : AgentStarts(a) /\ Head(toAgent[a]).id = b
  \/ JobStep(b)

LEMMA JobMoves ==
  ASSUME TypeOK, Next, NEW b \in Browsers
  PROVE  JobMove(b)
<1>1. job \in [Browsers -> {"none", "request", "served", "failed", "open", "dialed", "stored",
                            "reading", "refused", "over"}]
  BY DEF TypeOK, AgentTypes
<1>2. seen \in [Browsers -> Nat]
  BY DEF TypeOK, AgentTypes
<1>3. ASSUME NEW c \in Browsers, JobStep(c) PROVE JobMove(b)
  <2>1. c # b => job'[b] = job[b] /\ seen'[b] = seen[b]
    BY <1>1, <1>2, <1>3 DEF JobStep, Serve, Reply, Dial, Store, Opened, ReadEnds
  <2> QED BY <1>3, <2>1 DEF JobMove
<1>4. ASSUME NEW a \in Agents, AgentStarts(a) PROVE JobMove(b)
  <2>1. Head(toAgent[a]).id # b => job'[b] = job[b] /\ seen'[b] = seen[b]
    BY <1>1, <1>2, <1>4 DEF AgentStarts
  <2> QED BY <1>4, <2>1 DEF JobMove
<1>5. CASE UNCHANGED <<job, seen>>
  BY <1>5 DEF JobMove
<1>6. ASSUME NEW c \in Browsers, Pick(c) \/ BrowserStep(c) \/ Timeout(c) \/ CopyUp(c) \/ Stall(c)
                                  \/ Leave(c) \/ CopyDown(c) \/ LocalEnds(c)
      PROVE  UNCHANGED <<job, seen>>
  BY <1>6
  DEF BrowserStep, Pick, Refuse, Register, Send, SendFails, Receive, Timeout, CopyUp, CopyEnds, Stall,
      Leave, CopyDown, LocalEnds, agentVars
<1>7. ASSUME NEW a \in Agents, Accept(a) \/ RelayStep(a) \/ RelayFails(a) \/ Cut(a)
      PROVE  UNCHANGED <<job, seen>>
  BY <1>7
  DEF RelayStep, Accept, CloseOld, DispatchResponse, DispatchData, DispatchClose, WriteEnds,
      RelayFails, LoopEnds, ClearAgent, FailAll, Cut, agentVars
<1>8. ASSUME NEW a \in Agents, AgentData(a) \/ AgentCloses(a) \/ AgentFails(a) \/ AgentCleans(a)
      PROVE  UNCHANGED <<job, seen>>
  BY <1>8 DEF AgentData, AgentCloses, AgentFails, AgentCleans
<1> QED BY <1>3, <1>4, <1>5, <1>6, <1>7, <1>8 DEF Next, AgentStep

(* A handler goes on, and keeps the connection it took.                    *)
LEMMA EarlyBefore ==
  ASSUME TypeOK, Next, NEW b \in Browsers
  PROVE  /\ Early(b)' => Early(b)
         /\ at[b] # "idle" => via'[b] = via[b]
<1> USE DEF Early, TypeOK, BrowserTypes
<1>1. CASE UNCHANGED <<at, via>>
  BY <1>1
<1>2. ASSUME NEW c \in Browsers, Pick(c) PROVE /\ Early(b)' => Early(b)
                                               /\ at[b] # "idle" => via'[b] = via[b]
  BY <1>2 DEF Pick
<1>3. ASSUME NEW c \in Browsers, BrowserStep(c) \/ Timeout(c)
      PROVE  UNCHANGED via /\ (Early(b)' => Early(b))
  BY <1>3 DEF BrowserStep, Refuse, Register, Send, SendFails, Receive, CopyEnds, Timeout
<1> QED
  BY <1>1, <1>2, <1>3
  DEF Next, RelayStep, AgentStep, JobStep, CopyUp, Stall, Leave, Serve, Reply, Dial, Store, Opened,
      CopyDown, LocalEnds, ReadEnds, Accept, CloseOld, DispatchResponse, DispatchData,
      DispatchClose, WriteEnds, RelayFails, LoopEnds, ClearAgent, FailAll, AgentStarts, AgentData,
      AgentCloses, AgentFails, AgentCleans, Cut, browserVars

(* Who sends a frame, and whose frame is taken.                            *)
LEMMA SentBy ==
  ASSUME TypeOK, NEW b \in Browsers, NEW f, Sent(b, f)
  PROVE  /\ f.id = b /\ job' = job /\ via' = via /\ at'[b] # "idle" /\ ~Early(b)'
         /\ Starts(f) => Early(b) /\ (f.kind = "open" <=> b \in Sockets)
         /\ f.kind = "data" => at[b] = "copying"
         /\ UNCHANGED agentVars
<1> USE DEF TypeOK, BrowserTypes, Sent, Frame, Starts, Early
<1>1. CASE Send(b) /\ f = Frame(IF b \in Sockets THEN "open" ELSE "request", b, TRUE)
  BY <1>1 DEF Send, agentVars
<1>2. CASE CopyUp(b) /\ f = Frame("data", b, TRUE)
  BY <1>2 DEF CopyUp, browserVars, agentVars
<1>3. CASE CopyEnds(b) /\ f = Frame("close", b, TRUE)
  BY <1>3 DEF CopyEnds, agentVars
<1> QED BY <1>1, <1>2, <1>3

LEMMA TakenFrom ==
  ASSUME TypeOK, NEW a \in Agents, Gets(a)
  PROVE  /\ toAgent[a] \in Seq(Frames) /\ toAgent[a] # <<>>
         /\ Head(toAgent[a]) \in Held(toAgent[a]) /\ Head(toAgent[a]) \in Frames
<1>1. toAgent[a] \in Seq(Frames) /\ toAgent[a] # <<>>
  BY DEF Gets, TypeOK, WireTypes
<1> QED BY <1>1, HeldTail, HeadTailProperties

LEMMA HeldTyped ==
  ASSUME TypeOK, NEW a \in Agents
  PROVE  /\ \A f \in Held(toAgent[a]) : f \in Frames /\ f.id \in Browsers
         /\ \A f \in Held(toRelay[a]) : f \in Frames /\ f.id \in Browsers
<1>1. \A s \in Seq(Frames) : \A f \in Held(s) : f \in Frames
  BY LenProperties DEF Held
<1>2. toAgent[a] \in Seq(Frames) /\ toRelay[a] \in Seq(Frames)
  BY DEF TypeOK, WireTypes
<1>3. \A f \in Frames : f.id \in Browsers
  BY DEF Frames
<1> QED BY <1>1, <1>2, <1>3

LEMMA SentOnceKept ==
  ASSUME TypeOK, SentOnce, Next
  PROVE  SentOnce'
<1>1. ASSUME NEW b \in Browsers, Early(b)'
      PROVE  job'[b] = "none"
  <2>1. Early(b) /\ job[b] = "none"
    BY <1>1, EarlyBefore DEF SentOnce
  <2>2. ASSUME NEW a \in Agents, AgentStarts(a) PROVE Head(toAgent[a]).id # b
    BY <2>1, <2>2, TakenFrom DEF AgentStarts, SentOnce
  <2> QED BY <2>1, <2>2, JobMoves DEF JobMove, JobStep, Serve, Reply, Dial, Store, Opened, ReadEnds
<1>2. ASSUME NEW a \in Agents, NEW f \in Held(toAgent'[a])
      PROVE  /\ via'[f.id] = a /\ ~Early(f.id)'
             /\ Starts(f) => job'[f.id] = "none" /\ (f.kind = "open" <=> f.id \in Sockets)
  <2>1. ASSUME NEW b \in Browsers, NEW g \in Frames, Sent(b, g), via[b] = a,
               toAgent'[a] = Append(toAgent[a], g), f = g
        PROVE  /\ via'[f.id] = a /\ ~Early(f.id)'
               /\ Starts(f) => job'[f.id] = "none" /\ (f.kind = "open" <=> f.id \in Sockets)
    BY <2>1, SentBy DEF SentOnce
  <2>2. ASSUME f \in Held(toAgent[a])
        PROVE  /\ via'[f.id] = a /\ ~Early(f.id)'
               /\ Starts(f) => job'[f.id] = "none" /\ (f.kind = "open" <=> f.id \in Sockets)
    <3>1. f.id \in Browsers /\ via[f.id] = a /\ ~Early(f.id)
      BY <2>2, HeldTyped DEF SentOnce
    <3>2. via'[f.id] = a /\ ~Early(f.id)'
      BY <3>1, EarlyBefore DEF Early
    <3>3. ASSUME Starts(f) PROVE job[f.id] = "none" /\ (f.kind = "open" <=> f.id \in Sockets)
      BY <2>2, <3>3 DEF SentOnce
    <3>4. ASSUME Starts(f), NEW c \in Agents, AgentStarts(c), Head(toAgent[c]).id = f.id
          PROVE  FALSE
      <4>1. Gets(c) /\ Starts(Head(toAgent[c])) /\ toAgent'[c] = Tail(toAgent[c])
        BY <3>4 DEF AgentStarts, Starts, TypeOK, WireTypes
      <4>2. c = a
        BY <3>1, <3>4, <4>1, TakenFrom DEF SentOnce
      <4> QED BY <3>4, <4>1, <4>2, TakenFrom, HeldTail DEF SentOnce
    <3> QED
      BY <3>1, <3>2, <3>3, <3>4, JobMoves
      DEF JobMove, JobStep, Serve, Reply, Dial, Store, Opened, ReadEnds
  <2>3. toAgent[a] \in Seq(Frames)
    BY DEF TypeOK, WireTypes
  <2>4. CASE toAgent'[a] = toAgent[a] \/ toAgent'[a] = <<>>
    BY <1>2, <2>2, <2>4, HeldEmpty
  <2>5. CASE Gets(a) /\ toAgent'[a] = Tail(toAgent[a])
    BY <1>2, <2>2, <2>5, TakenFrom, HeldTail
  <2>6. ASSUME NEW b \in Browsers, NEW g \in Frames, Sent(b, g), via[b] = a,
               toAgent'[a] = Append(toAgent[a], g)
        PROVE  f \in Held(toAgent[a]) \/ f = g
    BY <1>2, <2>3, <2>6, HeldAppend
  <2> QED BY <2>1, <2>2, <2>4, <2>5, <2>6, ToAgent DEF ToAgentMoves
<1>3. ASSUME NEW a \in Agents PROVE StartsOnce(toAgent'[a])
  <2>1. toAgent[a] \in Seq(Frames) /\ StartsOnce(toAgent[a])
    BY DEF TypeOK, WireTypes, SentOnce
  <2>2. ASSUME NEW b \in Browsers, NEW g \in Frames, Sent(b, g), via[b] = a,
               toAgent'[a] = Append(toAgent[a], g)
        PROVE  StartsOnce(toAgent'[a])
    <3>1. Starts(g) => \A h \in Held(toAgent[a]) : ~(Starts(h) /\ h.id = g.id)
      BY <2>2, SentBy DEF SentOnce
    <3> QED BY <2>1, <2>2, <3>1, HeldAppend
  <2> QED BY <2>1, <2>2, ToAgent, TakenFrom, HeldTail, HeldEmpty DEF ToAgentMoves
<1> QED BY <1>1, <1>2, <1>3 DEF SentOnce

(* A goroutine is started once, by a frame for it.                         *)
LEMMA JobSteps ==
  ASSUME TypeOK, SentOnce, Next, NEW b \in Browsers
  PROVE  \/ job'[b] = job[b] /\ seen'[b] = seen[b]
         \/ /\ job[b] = "none" /\ seen'[b] = seen[b] /\ via[b] \in Agents /\ ~Early(b)
            /\ job'[b] \in {"request", "open"} /\ (job'[b] = "open" <=> b \in Sockets)
         \/ JobStep(b)
<1>1. ASSUME NEW a \in Agents, AgentStarts(a), Head(toAgent[a]).id = b
      PROVE  /\ job[b] = "none" /\ seen'[b] = seen[b] /\ via[b] \in Agents /\ ~Early(b)
             /\ job'[b] \in {"request", "open"} /\ (job'[b] = "open" <=> b \in Sockets)
  <2>1. Gets(a) /\ Starts(Head(toAgent[a])) /\ job'[b] = Head(toAgent[a]).kind /\ seen' = seen
    BY <1>1 DEF AgentStarts, Starts, TypeOK, AgentTypes
  <2> QED BY <1>1, <2>1, TakenFrom DEF SentOnce, Starts
<1> QED BY <1>1, JobMoves DEF JobMove

LEMMA ViaKept ==
  ASSUME TypeOK, SentOnce, Next, NEW b \in Browsers, job[b] # "none"
  PROVE  via'[b] = via[b]
BY EarlyBefore DEF SentOnce, Early

LEMMA SeenOnceKept ==
  ASSUME TypeOK, SentOnce, SeenOnce, Next
  PROVE  SeenOnce'
<1> SUFFICES ASSUME NEW b \in Browsers
             PROVE
               /\ job'[b] \in {"request", "served", "failed"} => b \notin Sockets
               /\ job'[b] \in {"open", "dialed", "stored", "reading", "refused"} => b \in Sockets
               /\ job'[b] # "none" => via'[b] # None
               /\ job'[b] \in {"none", "request", "open"} => seen'[b] = 0
               /\ job'[b] \in {"served", "dialed", "stored", "reading"} => seen'[b] = 1
               /\ seen'[b] \in {0, 1}
  BY DEF SeenOnce
<1>1. job[b] # "none" => via'[b] = via[b]
  BY ViaKept
<1>2. CASE job'[b] = job[b] /\ seen'[b] = seen[b]
  BY <1>1, <1>2 DEF SeenOnce
<1>3. CASE /\ job[b] = "none" /\ seen'[b] = seen[b] /\ via[b] \in Agents /\ ~Early(b)
           /\ job'[b] \in {"request", "open"} /\ (job'[b] = "open" <=> b \in Sockets)
  <2>1. via[b] # None
    BY <1>3, RelayAssumption
  <2>2. via'[b] # None
    BY <1>3, <2>1, EarlyBefore DEF Early
  <2> QED BY <1>3, <2>2 DEF SeenOnce
<1>4. CASE JobStep(b)
  <2>1. /\ job \in [Browsers -> {"none", "request", "served", "failed", "open", "dialed", "stored",
                                 "reading", "refused", "over"}]
        /\ seen \in [Browsers -> Nat]
    BY DEF TypeOK, AgentTypes
  <2>2. job[b] # "none"
    BY <1>4 DEF JobStep, Serve, Reply, Dial, Store, Opened, ReadEnds
  <2>3. CASE Serve(b)
    BY <1>1, <2>1, <2>3 DEF Serve, SeenOnce
  <2>4. CASE Dial(b)
    BY <1>1, <2>1, <2>4 DEF Dial, SeenOnce
  <2>5. CASE Reply(b) \/ Store(b) \/ Opened(b) \/ ReadEnds(b)
    BY <1>1, <2>1, <2>5 DEF Reply, Store, Opened, ReadEnds, SeenOnce
  <2> QED BY <1>4, <2>3, <2>4, <2>5 DEF JobStep
<1> QED BY <1>2, <1>3, <1>4, JobSteps

(* What jumpd has seen it has seen; who has been served has been opened.   *)
LEMMA SeenStays ==
  ASSUME TypeOK, SentOnce, SeenOnce, Next, NEW b \in Browsers
  PROVE  /\ seen[b] = 1 => seen'[b] = 1
         /\ job[b] \in {"reading", "over"} => job'[b] \in {"reading", "over"}
<1>1. CASE JobStep(b)
  <2>1. /\ job \in [Browsers -> {"none", "request", "served", "failed", "open", "dialed", "stored",
                                 "reading", "refused", "over"}]
        /\ seen \in [Browsers -> Nat]
    BY DEF TypeOK, AgentTypes
  <2>2. CASE Serve(b)
    BY <2>1, <2>2 DEF Serve, SeenOnce
  <2>3. CASE Dial(b)
    BY <2>1, <2>3 DEF Dial, SeenOnce
  <2>4. CASE Reply(b) \/ Store(b) \/ Opened(b) \/ ReadEnds(b)
    BY <2>1, <2>4 DEF Reply, Store, Opened, ReadEnds
  <2> QED BY <1>1, <2>2, <2>3, <2>4 DEF JobStep
<1> QED BY <1>1, JobSteps DEF SeenOnce

(* Answers.                                                                *)
Answered(b) == \E a \in Agents : Reads(a) /\ Head(toRelay[a]).id = b /\ Grants(Head(toRelay[a]))

LEMMA BoxMoves ==
  ASSUME TypeOK, Next, NEW b \in Browsers, box'[b] = "ok"
  PROVE  box[b] = "ok" \/ Answered(b)
<1> USE DEF TypeOK, BrowserTypes
<1>1. ASSUME NEW c \in Browsers, Receive(c) PROVE box[b] = "ok"
  BY <1>1 DEF Receive
<1>2. ASSUME NEW a \in Agents, FailAll(a) PROVE box[b] = "ok"
  BY <1>2 DEF FailAll
<1>3. ASSUME NEW a \in Agents, DispatchResponse(a) PROVE box[b] = "ok" \/ Answered(b)
  BY <1>3 DEF DispatchResponse, Answered, Grants
<1>4. CASE UNCHANGED box
  BY <1>4
<1>5. ASSUME NEW c \in Browsers, \/ Pick(c) \/ Refuse(c) \/ Register(c) \/ Send(c) \/ SendFails(c)
                                 \/ CopyEnds(c) \/ Timeout(c) \/ CopyUp(c) \/ Stall(c) \/ Leave(c)
                                 \/ JobStep(c) \/ CopyDown(c) \/ LocalEnds(c)
      PROVE  UNCHANGED box
  BY <1>5
  DEF Pick, Refuse, Register, Send, SendFails, CopyEnds, Timeout, CopyUp, Stall, Leave, JobStep,
      Serve, Reply, Dial, Store, Opened, ReadEnds, CopyDown, LocalEnds, browserVars
<1>6. ASSUME NEW a \in Agents, \/ Accept(a) \/ CloseOld(a) \/ DispatchData(a) \/ DispatchClose(a)
                               \/ WriteEnds(a) \/ LoopEnds(a) \/ ClearAgent(a) \/ RelayFails(a)
                               \/ AgentStep(a) \/ Cut(a)
      PROVE  UNCHANGED box
  BY <1>6
  DEF Accept, CloseOld, DispatchData, DispatchClose, WriteEnds, LoopEnds, ClearAgent, RelayFails,
      AgentStep, AgentStarts, AgentData, AgentCloses, AgentFails, AgentCleans, Cut, browserVars
<1> HIDE DEF TypeOK
<1> QED BY <1>1, <1>2, <1>3, <1>4, <1>5, <1>6 DEF Next, BrowserStep, RelayStep

LEMMA HandlerMoves ==
  ASSUME TypeOK, Next, NEW b \in Browsers
  PROVE  /\ at'[b] = "copying" => at[b] = "copying" \/ (b \in Sockets /\ box[b] = "ok")
         /\ at'[b] \notin {"copying", "done"} => at[b] \notin {"copying", "done"} /\ out'[b] = out[b]
         /\ out'[b] = out[b] \/ (at[b] # "done" /\ at[b] # "copying" /\ out'[b] \in {"fail", box[b]})
<1> DEFINE P == /\ at'[b] = "copying" => at[b] = "copying" \/ (b \in Sockets /\ box[b] = "ok")
                /\ at'[b] \notin {"copying", "done"}
                     => at[b] \notin {"copying", "done"} /\ out'[b] = out[b]
                /\ \/ out'[b] = out[b]
                   \/ at[b] # "done" /\ at[b] # "copying" /\ out'[b] \in {"fail", box[b]}
<1> USE DEF TypeOK, BrowserTypes
<1>1. ASSUME NEW c \in Browsers, Pick(c) \/ Register(c) \/ Send(c) PROVE P
  BY <1>1 DEF Pick, Register, Send
<1>2. ASSUME NEW c \in Browsers, Refuse(c) \/ SendFails(c) \/ Timeout(c) PROVE P
  BY <1>2 DEF Refuse, SendFails, Timeout
<1>3. ASSUME NEW c \in Browsers, Receive(c) PROVE P
  BY <1>3 DEF Receive
<1>4. ASSUME NEW c \in Browsers, CopyEnds(c) PROVE P
  BY <1>4 DEF CopyEnds
<1>5. CASE UNCHANGED <<at, out>>
  BY <1>5
<1>6. ASSUME NEW c \in Browsers,
             CopyUp(c) \/ Stall(c) \/ Leave(c) \/ JobStep(c) \/ CopyDown(c) \/ LocalEnds(c)
      PROVE  UNCHANGED <<at, out>>
  BY <1>6
  DEF CopyUp, Stall, Leave, JobStep, Serve, Reply, Dial, Store, Opened, ReadEnds, CopyDown,
      LocalEnds, browserVars
<1>7. ASSUME NEW a \in Agents, Accept(a) \/ RelayStep(a) \/ RelayFails(a) \/ AgentStep(a) \/ Cut(a)
      PROVE  UNCHANGED <<at, out>>
  BY <1>7
  DEF Accept, RelayStep, CloseOld, DispatchResponse, DispatchData, DispatchClose, WriteEnds,
      LoopEnds, ClearAgent, FailAll, RelayFails, AgentStep, AgentStarts, AgentData, AgentCloses,
      AgentFails, AgentCleans, Cut, browserVars
<1>8. ASSUME NEW c \in Browsers, BrowserStep(c) PROVE P
  BY <1>1, <1>2, <1>3, <1>4, <1>8 DEF BrowserStep
<1> HIDE DEF TypeOK
<1> QED BY <1>1, <1>2, <1>5, <1>6, <1>7, <1>8 DEF Next

(* Who grants a request.                                                   *)
LEMMA GrantedBy ==
  ASSUME NEW b \in Browsers, NEW f, Returned(b, f), Grants(f)
  PROVE  /\ f.id = b
         /\ \/ job[b] = "served"
            \/ /\ Opened(b) /\ job[b] = "stored" /\ job'[b] = "reading"
               /\ UNCHANGED <<via, cws, local>>
<1>1. CASE Reply(b) /\ f = Frame("response", b, job[b] = "served")
  BY <1>1 DEF Grants, Frame
<1>2. CASE /\ Opened(b) /\ job'[b] = "reading" /\ UNCHANGED <<cws, local>>
           /\ f = Frame("response", b, TRUE)
  BY <1>2 DEF Opened, Frame, browserVars
<1>3. CASE f.kind \in {"data", "close"}
  BY <1>3 DEF Grants
<1> QED BY <1>1, <1>2, <1>3 DEF Returned

LEMMA AnswersRestKept ==
  ASSUME TypeOK, SentOnce, SeenOnce, AnswersRest, Next
  PROVE  AnswersRest'
<1>1. ASSUME NEW a \in Agents, NEW f \in Held(toRelay'[a]), Grants(f) PROVE seen'[f.id] = 1
  <2>1. ASSUME f \in Held(toRelay[a]) PROVE seen'[f.id] = 1
    BY <1>1, <2>1, HeldTyped, SeenStays DEF AnswersRest
  <2>2. toRelay[a] \in Seq(Frames)
    BY DEF TypeOK, WireTypes
  <2>3. CASE toRelay'[a] = toRelay[a] \/ toRelay'[a] = <<>>
    BY <1>1, <2>1, <2>3, HeldEmpty
  <2>4. CASE Reads(a) /\ toRelay'[a] = Tail(toRelay[a])
    BY <1>1, <2>1, <2>2, <2>4, HeldTail DEF Reads
  <2>5. ASSUME NEW b \in Browsers, NEW g \in Frames, Returned(b, g),
               toRelay'[a] = Append(toRelay[a], g)
        PROVE  seen'[f.id] = 1
    <3>1. f \in Held(toRelay[a]) \/ f = g
      BY <1>1, <2>2, <2>5, HeldAppend
    <3>2. Grants(g) => g.id = b /\ seen[b] = 1
      BY <2>5, GrantedBy DEF SeenOnce
    <3> QED BY <1>1, <2>1, <3>1, <3>2, SeenStays
  <2> QED BY <2>3, <2>4, <2>5, ToRelay DEF ToRelayMoves
<1>2. ASSUME NEW b \in Browsers, box'[b] = "ok" PROVE seen'[b] = 1
  <2>1. ASSUME NEW a \in Agents, Reads(a) PROVE Head(toRelay[a]) \in Held(toRelay[a])
    BY <2>1, HeldTail DEF Reads, TypeOK, WireTypes
  <2>2. seen[b] = 1
    BY <1>2, <2>1, BoxMoves DEF Answered, AnswersRest
  <2> QED BY <2>2, SeenStays
<1>3. ASSUME NEW b \in Browsers, at'[b] \notin {"copying", "done"} PROVE out'[b] = "none"
  BY <1>3, HandlerMoves DEF AnswersRest
<1> QED BY <1>1, <1>2, <1>3 DEF AnswersRest

(* The agent's table.                                                      *)
LEMMA LocalMoves ==
  ASSUME TypeOK, Next, NEW b \in Browsers
  PROVE  local'[b] \in {local[b], "closed"} \/ Dial(b)
<1> DEFINE P == local'[b] \in {local[b], "closed"} \/ Dial(b)
<1>1. local \in [Browsers -> {"none", "open", "closed"}]
  BY DEF TypeOK, AgentTypes
<1>2. ASSUME NEW c \in Browsers, Dial(c) PROVE P
  BY <1>1, <1>2 DEF Dial
<1>3. ASSUME NEW c \in Browsers, Opened(c) PROVE P
  BY <1>1, <1>3 DEF Opened, CloseWS
<1>4. ASSUME NEW c \in Browsers, LocalEnds(c) \/ ReadEnds(c) PROVE P
  BY <1>1, <1>4 DEF LocalEnds, ReadEnds
<1>5. ASSUME NEW a \in Agents, AgentCloses(a) PROVE P
  BY <1>1, <1>5 DEF AgentCloses, CloseWS
<1>6. ASSUME NEW a \in Agents, AgentCleans(a) PROVE P
  BY <1>1, <1>6 DEF AgentCleans
<1>7. CASE UNCHANGED local
  BY <1>7
<1>8. ASSUME NEW c \in Browsers, \/ Pick(c) \/ BrowserStep(c) \/ Timeout(c) \/ CopyUp(c) \/ Stall(c)
                                 \/ Leave(c) \/ Serve(c) \/ Reply(c) \/ Store(c) \/ CopyDown(c)
      PROVE  UNCHANGED local
  BY <1>8
  DEF Pick, BrowserStep, Refuse, Register, Send, SendFails, Receive, CopyEnds, Timeout, CopyUp,
      Stall, Leave, Serve, Reply, Store, CopyDown, agentVars
<1>9. ASSUME NEW a \in Agents, \/ Accept(a) \/ RelayStep(a) \/ RelayFails(a) \/ AgentStarts(a)
                               \/ AgentData(a) \/ AgentFails(a) \/ Cut(a)
      PROVE  UNCHANGED local
  BY <1>9
  DEF Accept, RelayStep, CloseOld, DispatchResponse, DispatchData, DispatchClose, WriteEnds,
      LoopEnds, ClearAgent, FailAll, RelayFails, AgentStarts, AgentData, AgentFails, Cut, agentVars
<1> QED
  BY <1>2, <1>3, <1>4, <1>5, <1>6, <1>7, <1>8, <1>9 DEF Next, JobStep, AgentStep

LEMMA TableMoves ==
  ASSUME TypeOK, Next, NEW a \in Agents, NEW b \in cws[a]
  PROVE  b \in cws'[a] \/ local'[b] = "closed"
<1> DEFINE P == b \in cws'[a] \/ local'[b] = "closed"
<1>1. /\ local \in [Browsers -> {"none", "open", "closed"}] /\ cws \in [Agents -> SUBSET Browsers]
      /\ b \in Browsers
  BY DEF TypeOK, AgentTypes
<1>2. ASSUME NEW c \in Browsers, Store(c) PROVE P
  BY <1>1, <1>2 DEF Store
<1>3. ASSUME NEW c \in Browsers, Opened(c) PROVE P
  BY <1>1, <1>3 DEF Opened, CloseWS
<1>4. ASSUME NEW c \in Browsers, ReadEnds(c) PROVE P
  BY <1>1, <1>4 DEF ReadEnds
<1>5. ASSUME NEW c \in Agents, AgentCloses(c) PROVE P
  BY <1>1, <1>5 DEF AgentCloses, CloseWS
<1>6. ASSUME NEW c \in Agents, AgentCleans(c) PROVE P
  BY <1>1, <1>6 DEF AgentCleans
<1>7. ASSUME NEW c \in Agents, AgentData(c) PROVE P
  BY <1>1, <1>7 DEF AgentData
<1>8. CASE UNCHANGED cws
  BY <1>8
<1>9. ASSUME NEW c \in Browsers, \/ Pick(c) \/ BrowserStep(c) \/ Timeout(c) \/ CopyUp(c) \/ Stall(c)
                                 \/ Leave(c) \/ Serve(c) \/ Reply(c) \/ Dial(c) \/ CopyDown(c)
                                 \/ LocalEnds(c)
      PROVE  UNCHANGED cws
  BY <1>9
  DEF Pick, BrowserStep, Refuse, Register, Send, SendFails, Receive, CopyEnds, Timeout, CopyUp,
      Stall, Leave, Serve, Reply, Dial, CopyDown, LocalEnds, agentVars
<1>10. ASSUME NEW c \in Agents, \/ Accept(c) \/ RelayStep(c) \/ RelayFails(c) \/ AgentStarts(c)
                                \/ AgentFails(c) \/ Cut(c)
      PROVE  UNCHANGED cws
  BY <1>10
  DEF Accept, RelayStep, CloseOld, DispatchResponse, DispatchData, DispatchClose, WriteEnds,
      LoopEnds, ClearAgent, FailAll, RelayFails, AgentStarts, AgentFails, Cut, agentVars
<1> QED
  BY <1>2, <1>3, <1>4, <1>5, <1>6, <1>7, <1>8, <1>9, <1>10 DEF Next, JobStep, AgentStep

LEMMA InTableKept ==
  ASSUME TypeOK, SentOnce, SeenOnce, Next, NEW b \in Browsers, job[b] \notin {"none", "open"},
         InTable(b)
  PROVE  InTable(b)'
<1>1. via[b] \in Agents /\ via'[b] = via[b]
  BY ViaKept DEF TypeOK, BrowserTypes, SeenOnce
<1>2. local[b] = "closed" => local'[b] = "closed"
  BY LocalMoves DEF Dial
<1> QED BY <1>1, <1>2, TableMoves DEF InTable

LEMMA GrantedKept ==
  ASSUME TypeOK, SentOnce, SeenOnce, Next, NEW b \in Browsers, Granted(b)
  PROVE  Granted(b)'
<1>1. job'[b] \in {"reading", "over"}
  BY SeenStays DEF Granted
<1> QED BY <1>1, InTableKept DEF Granted

LEMMA OpenedInOrderKept ==
  ASSUME TypeOK, SentOnce, SeenOnce, OpenedInOrder, Next
  PROVE  OpenedInOrder'
<1>1. ASSUME NEW a \in Agents, NEW f \in Held(toRelay'[a]), Grants(f), f.id \in Sockets
      PROVE  Granted(f.id)'
  <2>1. ASSUME f \in Held(toRelay[a]) PROVE Granted(f.id)'
    BY <1>1, <2>1, HeldTyped, GrantedKept DEF OpenedInOrder
  <2>2. toRelay[a] \in Seq(Frames)
    BY DEF TypeOK, WireTypes
  <2>3. CASE toRelay'[a] = toRelay[a] \/ toRelay'[a] = <<>>
    BY <1>1, <2>1, <2>3, HeldEmpty
  <2>4. CASE Reads(a) /\ toRelay'[a] = Tail(toRelay[a])
    BY <1>1, <2>1, <2>2, <2>4, HeldTail DEF Reads
  <2>5. ASSUME NEW b \in Browsers, NEW g \in Frames, Returned(b, g),
               toRelay'[a] = Append(toRelay[a], g)
        PROVE  Granted(f.id)'
    <3>1. f \in Held(toRelay[a]) \/ f = g
      BY <1>1, <2>2, <2>5, HeldAppend
    <3>2. ASSUME f = g PROVE Granted(f.id)'
      <4>1. /\ f.id = b /\ job[b] # "served"
        BY <1>1, <2>5, <3>2, GrantedBy DEF SeenOnce
      <4>2. job[b] = "stored" /\ job'[b] = "reading" /\ UNCHANGED <<via, cws, local>>
        BY <1>1, <2>5, <3>2, <4>1, GrantedBy
      <4> QED BY <4>1, <4>2 DEF OpenedInOrder, Granted, InTable
    <3> QED BY <2>1, <3>1, <3>2
  <2> QED BY <2>3, <2>4, <2>5, ToRelay DEF ToRelayMoves
<1>2. ASSUME NEW a \in Agents, NEW f \in Held(toAgent'[a]), f.kind = "data"
      PROVE  Granted(f.id)'
  <2>1. ASSUME f \in Held(toAgent[a]) PROVE Granted(f.id)'
    BY <1>2, <2>1, HeldTyped, GrantedKept DEF OpenedInOrder
  <2>2. toAgent[a] \in Seq(Frames)
    BY DEF TypeOK, WireTypes
  <2>3. CASE toAgent'[a] = toAgent[a] \/ toAgent'[a] = <<>>
    BY <1>2, <2>1, <2>3, HeldEmpty
  <2>4. CASE Gets(a) /\ toAgent'[a] = Tail(toAgent[a])
    BY <1>2, <2>1, <2>4, TakenFrom, HeldTail
  <2>5. ASSUME NEW b \in Browsers, NEW g \in Frames, Sent(b, g), toAgent'[a] = Append(toAgent[a], g)
        PROVE  Granted(f.id)'
    <3>1. f \in Held(toAgent[a]) \/ f = g
      BY <1>2, <2>2, <2>5, HeldAppend
    <3>2. f = g => f.id = b /\ Granted(b)
      BY <1>2, <2>5, SentBy DEF OpenedInOrder
    <3> QED BY <2>1, <3>1, <3>2, GrantedKept
  <2> QED BY <2>3, <2>4, <2>5, ToAgent DEF ToAgentMoves
<1>3. ASSUME NEW b \in Sockets, box'[b] = "ok" \/ at'[b] = "copying" PROVE Granted(b)'
  <2>1. b \in Browsers
    BY DEF Browsers
  <2>2. ASSUME NEW a \in Agents, Reads(a) PROVE Head(toRelay[a]) \in Held(toRelay[a])
    BY <2>2, HeldTail DEF Reads, TypeOK, WireTypes
  <2>3. Answered(b) => Granted(b)
    BY <2>2 DEF Answered, OpenedInOrder
  <2>4. Granted(b)
    BY <1>3, <2>1, <2>3, BoxMoves, HandlerMoves DEF OpenedInOrder
  <2> QED BY <2>1, <2>4, GrantedKept
<1>4. ASSUME NEW b \in Browsers, at'[b] = "copying" PROVE b \in Sockets
  BY <1>4, HandlerMoves DEF OpenedInOrder
<1>5. ASSUME NEW b \in Browsers, job'[b] \in {"stored", "reading"} PROVE InTable(b)'
  <2>1. job \in [Browsers -> {"none", "request", "served", "failed", "open", "dialed", "stored",
                              "reading", "refused", "over"}]
    BY DEF TypeOK, AgentTypes
  <2>2. CASE job[b] \in {"stored", "reading"}
    BY <2>2, InTableKept DEF OpenedInOrder
  <2>3. CASE Store(b)
    <3>1. via[b] \in Agents /\ cws \in [Agents -> SUBSET Browsers]
      BY <2>3 DEF Store, SeenOnce, TypeOK, BrowserTypes, AgentTypes
    <3> QED BY <2>3, <3>1 DEF Store, InTable, browserVars
  <2>4. job[b] \in {"stored", "reading"} \/ Store(b)
    BY <1>5, <2>1, JobSteps DEF JobStep, Serve, Reply, Dial, Opened, ReadEnds
  <2> QED BY <2>2, <2>3, <2>4
<1>6. ASSUME NEW b \in lost' PROVE job'[b] \in {"reading", "over"} /\ local'[b] = "closed"
  <2>1. ASSUME NEW a \in Agents, AgentData(a), b = Head(toAgent[a]).id, b \notin cws[a]
        PROVE  b \in Browsers /\ job[b] \in {"reading", "over"} /\ local[b] = "closed"
    <3>1. Gets(a) /\ Head(toAgent[a]).kind = "data"
      BY <2>1 DEF AgentData
    <3>2. b \in Browsers /\ via[b] = a /\ Granted(b)
      BY <2>1, <3>1, TakenFrom, HeldTyped DEF OpenedInOrder, SentOnce
    <3> QED BY <2>1, <3>2 DEF Granted, InTable
  <2>2. ASSUME b \in lost
        PROVE  b \in Browsers /\ job[b] \in {"reading", "over"} /\ local[b] = "closed"
    BY <2>2 DEF OpenedInOrder, TypeOK, AgentTypes
  <2>3. b \in lost \/ \E a \in Agents : AgentData(a) /\ b = Head(toAgent[a]).id /\ b \notin cws[a]
    <3>1. ASSUME NEW a \in Agents, AgentData(a)
          PROVE  b \in lost \/ (b = Head(toAgent[a]).id /\ b \notin cws[a])
      BY <1>6, <3>1 DEF AgentData
    <3>2. ASSUME NEW c \in Browsers, \/ Pick(c) \/ BrowserStep(c) \/ Timeout(c) \/ CopyUp(c)
                                     \/ Stall(c) \/ Leave(c) \/ JobStep(c) \/ CopyDown(c)
                                     \/ LocalEnds(c)
          PROVE  UNCHANGED lost
      BY <3>2
      DEF Pick, BrowserStep, Refuse, Register, Send, SendFails, Receive, CopyEnds, Timeout, CopyUp,
          Stall, Leave, JobStep, Serve, Reply, Dial, Store, Opened, ReadEnds, CopyDown, LocalEnds,
          histVars
    <3>3. ASSUME NEW a \in Agents, \/ Accept(a) \/ RelayStep(a) \/ RelayFails(a) \/ AgentStarts(a)
                                   \/ AgentCloses(a) \/ AgentFails(a) \/ AgentCleans(a) \/ Cut(a)
          PROVE  UNCHANGED lost
      BY <3>3
      DEF Accept, RelayStep, CloseOld, DispatchResponse, DispatchData, DispatchClose, WriteEnds,
          LoopEnds, ClearAgent, FailAll, RelayFails, AgentStarts, AgentCloses, AgentFails,
          AgentCleans, Cut, histVars
    <3> QED BY <1>6, <3>1, <3>2, <3>3 DEF Next, AgentStep
  <2>4. b \in Browsers /\ job[b] \in {"reading", "over"} /\ local[b] = "closed"
    BY <2>1, <2>2, <2>3
  <2> QED BY <2>4, SeenStays, LocalMoves DEF Dial
<1> QED BY <1>1, <1>2, <1>3, <1>4, <1>5, <1>6 DEF OpenedInOrder

LEMMA OpenIsServedKept ==
  ASSUME TypeOK, SentOnce, SeenOnce, OpenedInOrder, OpenIsServed, Next
  PROVE  OpenIsServed'
<1> SUFFICES ASSUME NEW b \in Browsers, local'[b] = "open"
             PROVE  job'[b] \in {"dialed", "stored", "reading"}
  BY DEF OpenIsServed
<1>1. /\ job \in [Browsers -> {"none", "request", "served", "failed", "open", "dialed", "stored",
                               "reading", "refused", "over"}]
      /\ local \in [Browsers -> {"none", "open", "closed"}]
  BY DEF TypeOK, AgentTypes
<1>2. CASE Dial(b)
  BY <1>1, <1>2 DEF Dial, OpenIsServed
<1>3. CASE local[b] = "open"
  <2>1. job[b] \in {"dialed", "stored", "reading"}
    BY <1>3 DEF OpenIsServed
  <2>2. CASE Store(b)
    BY <1>1, <2>2 DEF Store
  <2>3. CASE Opened(b)
    BY <1>1, <1>3, <2>1, <2>3 DEF Opened, CloseWS, OpenedInOrder, InTable
  <2>4. CASE ReadEnds(b)
    BY <1>1, <2>4 DEF ReadEnds
  <2> QED BY <2>1, <2>2, <2>3, <2>4, JobSteps DEF JobStep, Serve, Reply, Dial
<1> QED BY <1>2, <1>3, LocalMoves

LEMMA RelayInvInit == Init => RelayInv
<1> SUFFICES ASSUME Init PROVE RelayInv
  OBVIOUS
<1>1. TypeOK
  BY TypesInit
<1> QED
  BY <1>1, HeldEmpty
  DEF Init, RelayInv, SentOnce, SeenOnce, AnswersRest, OpenedInOrder, OpenIsServed, Early, Granted,
      InTable, Browsers

LEMMA RelayInvKept == RelayInv /\ [Next]_vars => RelayInv'
<1>1. ASSUME RelayInv, Next PROVE RelayInv'
  BY <1>1, TypesKept, SentOnceKept, SeenOnceKept, AnswersRestKept, OpenedInOrderKept,
     OpenIsServedKept DEF RelayInv
<1>2. ASSUME RelayInv, UNCHANGED vars PROVE RelayInv'
  <2>1. TypeOK'
    BY <1>2, TypesKept DEF RelayInv
  <2> QED
    BY <1>2, <2>1
    DEF vars, browserVars, relayVars, connVars, wireVars, agentVars, histVars, boundVars, RelayInv,
        SentOnce, SeenOnce, AnswersRest, OpenedInOrder, OpenIsServed, Early, Granted, InTable
<1> QED BY <1>1, <1>2

(* The variables of the relay and of the agent keep their types.           *)
THEOREM RelayTypesHold == Spec => []TypeOK
BY TypesInit, TypesKept, PTL DEF Spec

(* The inductive invariant holds of every run.                             *)
THEOREM RelayInvHolds == Spec => []RelayInv
BY RelayInvInit, RelayInvKept, PTL DEF Spec

(* A data frame the agent had no WebSocket for belongs to one it had       *)
(* closed: handleWSOpen tells the relay after the table has the entry.     *)
THEOREM NothingIsLostEarly == Spec => []NothingLostEarly
<1>1. RelayInv => NothingLostEarly
  BY DEF RelayInv, OpenedInOrder, NothingLostEarly
<1> QED BY <1>1, RelayInvHolds, PTL

(* No WebSocket to jumpd outlives its goroutine, even one that was being   *)
(* opened while closeAllWS went through the table.                         *)
THEOREM AgentLeavesNoSocket == Spec => []AgentLeavesNothing
<1>1. RelayInv => AgentLeavesNothing
  BY DEF RelayInv, OpenIsServed, AgentLeavesNothing, Browsers
<1> QED BY <1>1, RelayInvHolds, PTL

-----------------------------------------------------------------------------
(* The refinement of RelayService, without its fairness.                   *)

LEMMA ServiceStep ==
  ASSUME RelayInv, Next
  PROVE  Service!Next \/ UNCHANGED Service!svars
<1> DEFINE asked == {b \in Browsers : at[b] # "idle"}
<1>1. /\ at \in [Browsers -> {"idle", "refused", "picked", "registered", "waiting", "copying", "done"}]
      /\ out \in [Browsers -> Answers] /\ seen \in [Browsers -> Nat] /\ box \in [Browsers -> Answers]
  BY DEF RelayInv, TypeOK, BrowserTypes, AgentTypes
<1>2. ASSUME NEW b \in Browsers, Pick(b) PROVE Service!Next
  <2>1. at[b] = "idle" /\ asked' = asked \cup {b} /\ UNCHANGED <<seen, out>>
    BY <1>1, <1>2 DEF Pick, agentVars
  <2> QED BY <2>1 DEF Service!Next, Service!Ask
<1>3. ASSUME NEW b \in Browsers, Refuse(b) \/ SendFails(b) \/ Receive(b) \/ Timeout(b)
      PROVE  Service!Next
  <2>1. out[b] = "none" /\ at[b] # "idle" /\ asked' = asked /\ UNCHANGED seen
    BY <1>1, <1>3
    DEF Refuse, SendFails, Receive, Timeout, agentVars, RelayInv, AnswersRest
  <2>2. \E v \in {"ok", "fail"} : (v = "ok" => seen[b] = 1) /\ out' = [out EXCEPT ![b] = v]
    <3>1. CASE Receive(b)
      BY <1>1, <3>1 DEF Receive, RelayInv, AnswersRest, Answers
    <3>2. CASE Refuse(b) \/ SendFails(b) \/ Timeout(b)
      BY <3>2 DEF Refuse, SendFails, Timeout
    <3> QED BY <1>3, <3>1, <3>2
  <2> QED BY <2>1, <2>2 DEF Service!Next, Service!Answer
<1>4. ASSUME NEW b \in Browsers, Serve(b) \/ Dial(b)
      PROVE  Service!Next \/ UNCHANGED Service!svars
  <2>1. seen[b] = 0 /\ at[b] # "idle" /\ UNCHANGED <<at, out>>
    BY <1>4 DEF Serve, Dial, RelayInv, SentOnce, SeenOnce, Early, browserVars
  <2>2. seen' = seen \/ seen' = [seen EXCEPT ![b] = 1]
    BY <1>4, <2>1 DEF Serve, Dial
  <2> QED BY <2>1, <2>2 DEF Service!Next, Service!Serve, Service!svars
<1>5. ASSUME NEW b \in Browsers, Register(b) \/ Send(b) \/ CopyEnds(b)
      PROVE  UNCHANGED Service!svars
  BY <1>1, <1>5 DEF Register, Send, CopyEnds, agentVars, Service!svars
<1>6. ASSUME NEW b \in Browsers, \/ CopyUp(b) \/ Stall(b) \/ Leave(b) \/ Reply(b) \/ Store(b)
                                 \/ Opened(b) \/ ReadEnds(b) \/ CopyDown(b) \/ LocalEnds(b)
      PROVE  UNCHANGED <<at, out, seen>>
  BY <1>6
  DEF CopyUp, Stall, Leave, Reply, Store, Opened, ReadEnds, CopyDown, LocalEnds, browserVars,
      agentVars
<1>7. ASSUME NEW a \in Agents, Accept(a) \/ RelayStep(a) \/ RelayFails(a) \/ AgentStep(a) \/ Cut(a)
      PROVE  UNCHANGED <<at, out, seen>>
  BY <1>7
  DEF Accept, RelayStep, CloseOld, DispatchResponse, DispatchData, DispatchClose, WriteEnds,
      LoopEnds, ClearAgent, FailAll, RelayFails, AgentStep, AgentStarts, AgentData, AgentCloses,
      AgentFails, AgentCleans, Cut, browserVars, agentVars
<1>8. CASE UNCHANGED <<at, out, seen>>
  BY <1>8 DEF Service!svars
<1> QED
  BY <1>2, <1>3, <1>4, <1>5, <1>6, <1>7, <1>8 DEF Next, BrowserStep, JobStep

(* The relay takes only the steps its promise allows: it asks jumpd at     *)
(* most once for a browser, answers it once, and never reports a success   *)
(* for a request that jumpd has not seen.                                  *)
THEOREM RelayTakesServiceSteps == Spec => Service!Init /\ [][Service!Next]_(Service!svars)
<1>1. Init => Service!Init
  BY DEF Init, Service!Init
<1>2. RelayInv /\ [Next]_vars => [Service!Next]_(Service!svars)
  <2>1. ASSUME RelayInv, UNCHANGED vars PROVE UNCHANGED Service!svars
    BY <2>1 DEF vars, browserVars, agentVars, Service!svars
  <2> QED BY <2>1, ServiceStep
<1> QED BY <1>1, <1>2, RelayInvHolds, PTL DEF Spec
=============================================================================
