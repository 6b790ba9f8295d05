-------------------------------- MODULE Relay --------------------------------
(* Remote access through a relay: jump-relayd answers browsers by passing  *)
(* their HTTP requests and WebSockets as frames over one WebSocket to the  *)
(* agent, the relay client of a jumpd (services/jump-relayd,               *)
(* services/jumpd/internal/relayclient, packages/relayproto).              *)
(*                                                                         *)
(* An element of Agents is one connection of the agent: the relay's        *)
(* agentConn at one end and the client of one runOnce at the other.  A     *)
(* browser makes one request, so it also stands for the request's id.      *)
EXTENDS Naturals, Sequences, FiniteSets

CONSTANTS
  Https,     \* browsers with an HTTP request
  Sockets,   \* browsers with a WebSocket
  Agents,    \* the connections the agent makes, one after the other
  None,
  MaxBreaks, \* bound on cuts, lost connections and aborted sends
  MaxData    \* bound on the data frames of a WebSocket

Browsers == Https \cup Sockets

ASSUME RelayAssumption ==
  /\ Https \cap Sockets = {} /\ None \notin Agents \cup Browsers
  /\ MaxBreaks \in Nat /\ MaxData \in Nat

VARIABLES
  at,       \* where the browser's handler is
  via,      \* the agentConn it took
  box,      \* the answer in the handler's channel, which holds one
  out,      \* the answer the browser got
  sock,     \* the browser's WebSocket: "none", "open", "stalled", "closed"
  current,  \* relay.agent
  newest,   \* the agent that connected last (history)
  old,      \* old[a]: the agent a has replaced and not yet closed
  loop,     \* handleAgent: "none", "accepted", "reading", "ended", "cleared", "over"
  busy,     \* the browser a read loop is writing to, or None
  pend, ws, \* agentConn.pend, agentConn.ws
  rUp,      \* the relay's end of the connection is open
  cUp,      \* the agent's end is
  cut,      \* the network between them drops everything
  toAgent, toRelay, \* the frames on the way
  cli,      \* runOnce: "none", "up", "cancelled", "over"
  job,      \* the agent's goroutine for a request
  cws,      \* client.ws
  local,    \* the WebSocket to jumpd: "none", "open", "closed"
  seen,     \* how often jumpd has seen the request
  lost,     \* data frames that found no WebSocket (history)
  expired,  \* WebSockets whose opening timed out (history)
  sent,     \* data frames of a WebSocket, both directions
  breaks

browserVars == <<at, via, box, out>>
relayVars   == <<current, newest, old, loop, busy, pend, ws>>
connVars    == <<rUp, cUp, cut>>
wireVars    == <<toAgent, toRelay>>
agentVars   == <<cli, job, cws, local, seen>>
histVars    == <<lost, expired>>
boundVars   == <<sent, breaks>>
vars == <<browserVars, sock, relayVars, connVars, wireVars, agentVars, histVars, boundVars>>

Frame(kind, b, ok) == [kind |-> kind, id |-> b, ok |-> ok]

(* A frame written at an open end arrives if the other end still reads.    *)
SendToAgent(a, f) == toAgent' = IF cUp[a] /\ ~cut[a] THEN [toAgent EXCEPT ![a] = Append(@, f)] ELSE toAgent
SendToRelay(a, f) == toRelay' = IF rUp[a] /\ ~cut[a] THEN [toRelay EXCEPT ![a] = Append(@, f)] ELSE toRelay

-----------------------------------------------------------------------------
(* The relay: a browser's handler                                          *)

(* handleBrowser: the current agent, or 503.                               *)
Pick(b) ==
  /\ at[b] = "idle"
  /\ IF current = None
     THEN /\ at' = [at EXCEPT ![b] = "refused"]
          /\ UNCHANGED <<via, sock>>
     ELSE /\ at' = [at EXCEPT ![b] = "picked"]
          /\ via' = [via EXCEPT ![b] = current]
          /\ sock' = IF b \in Sockets THEN [sock EXCEPT ![b] = "open"] ELSE sock
  /\ UNCHANGED <<box, out, relayVars, connVars, wireVars, agentVars, histVars, boundVars>>

Refuse(b) ==
  /\ at[b] = "refused"
  /\ at' = [at EXCEPT ![b] = "done"]
  /\ out' = [out EXCEPT ![b] = "fail"]
  /\ UNCHANGED <<via, box, sock, relayVars, connVars, wireVars, agentVars, histVars, boundVars>>

(* The channel is entered in pend, the WebSocket in ws.                    *)
Register(b) ==
  /\ at[b] = "picked"
  /\ at' = [at EXCEPT ![b] = "registered"]
  /\ pend' = [pend EXCEPT ![via[b]] = @ \cup {b}]
  /\ ws' = IF b \in Sockets THEN [ws EXCEPT ![via[b]] = @ \cup {b}] ELSE ws
  /\ UNCHANGED <<via, box, out, sock, current, newest, old, loop, busy, connVars, wireVars,
                 agentVars, histVars, boundVars>>

(* removeWS: out of the table, and closed if it was there.                 *)
RemoveWS(b) ==
  /\ ws' = [ws EXCEPT ![via[b]] = @ \ {b}]
  /\ sock' = IF b \in ws[via[b]] THEN [sock EXCEPT ![b] = "closed"] ELSE sock

Send(b) ==
  /\ at[b] = "registered" /\ rUp[via[b]]
  /\ at' = [at EXCEPT ![b] = "waiting"]
  /\ SendToAgent(via[b], Frame(IF b \in Sockets THEN "open" ELSE "request", b, TRUE))
  /\ UNCHANGED <<via, box, out, sock, relayVars, connVars, toRelay, agentVars, histVars, boundVars>>

(* The connection is closed, or it is closed because the browser goes away *)
(* (its context ends) in the middle of the write.                          *)
SendFails(b) ==
  /\ at[b] = "registered"
  /\ IF rUp[via[b]]
     THEN breaks < MaxBreaks /\ breaks' = breaks + 1
     ELSE UNCHANGED breaks
  /\ rUp' = [rUp EXCEPT ![via[b]] = FALSE]
  /\ toRelay' = [toRelay EXCEPT ![via[b]] = <<>>]
  /\ at' = [at EXCEPT ![b] = "done"]
  /\ out' = [out EXCEPT ![b] = "fail"]
  /\ IF b \in Sockets
     THEN RemoveWS(b) /\ UNCHANGED pend
     ELSE pend' = [pend EXCEPT ![via[b]] = @ \ {b}] /\ UNCHANGED <<ws, sock>>
  /\ UNCHANGED <<via, box, current, newest, old, loop, busy, cUp, cut, toAgent, agentVars,
                 histVars, sent>>

(* The channel has the answer: an HTTP response goes to the browser, a     *)
(* WebSocket starts to copy what the browser sends, or is closed.          *)
Receive(b) ==
  /\ at[b] = "waiting" /\ box[b] # "none"
  /\ out' = [out EXCEPT ![b] = box[b]]
  /\ box' = [box EXCEPT ![b] = "none"]
  /\ at' = [at EXCEPT ![b] = IF b \in Sockets /\ box[b] = "ok" THEN "copying" ELSE "done"]
  /\ IF b \in Sockets /\ box[b] = "fail" THEN RemoveWS(b) ELSE UNCHANGED <<ws, sock>>
  /\ UNCHANGED <<via, current, newest, old, loop, busy, pend, connVars, wireVars, agentVars,
                 histVars, boundVars>>

(* 60 s for a response, 15 s for an opening, or the browser has gone.      *)
Timeout(b) ==
  /\ at[b] = "waiting"
  /\ at' = [at EXCEPT ![b] = "done"]
  /\ out' = [out EXCEPT ![b] = "fail"]
  /\ pend' = [pend EXCEPT ![via[b]] = @ \ {b}]
  /\ IF b \in Sockets
     THEN RemoveWS(b) /\ expired' = expired \cup {b}
     ELSE UNCHANGED <<ws, sock, expired>>
  /\ UNCHANGED <<via, box, current, newest, old, loop, busy, connVars, wireVars, agentVars, lost,
                 boundVars>>

CopyUp(b) ==
  /\ at[b] = "copying" /\ sock[b] = "open" /\ rUp[via[b]]
  /\ sent[b] < MaxData
  /\ sent' = [sent EXCEPT ![b] = @ + 1]
  /\ SendToAgent(via[b], Frame("data", b, TRUE))
  /\ UNCHANGED <<browserVars, sock, relayVars, connVars, toRelay, agentVars, histVars, breaks>>

(* Mutant: the agent is not told.                                          *)
CopyEndsSilently(b) ==
  /\ at[b] = "copying"
  /\ sock[b] = "closed" \/ ~rUp[via[b]]
  /\ at' = [at EXCEPT ![b] = "done"]
  /\ RemoveWS(b)
  /\ UNCHANGED <<via, box, out, current, newest, old, loop, busy, pend, connVars, wireVars,
                 agentVars, histVars, boundVars>>

(* The browser has closed, was closed, or sends while the connection is    *)
(* gone: the deferred removeWS and the close frame.                        *)
CopyEnds(b) ==
  /\ at[b] = "copying"
  /\ sock[b] = "closed" \/ ~rUp[via[b]]
  /\ at' = [at EXCEPT ![b] = "done"]
  /\ RemoveWS(b)
  /\ IF rUp[via[b]] THEN SendToAgent(via[b], Frame("close", b, TRUE)) ELSE UNCHANGED toAgent
  /\ UNCHANGED <<via, box, out, current, newest, old, loop, busy, pend, connVars, toRelay,
                 agentVars, histVars, boundVars>>

(* The browser stops reading, or goes.                                     *)
Stall(b) ==
  /\ sock[b] = "open" /\ at[b] = "copying"
  /\ sock' = [sock EXCEPT ![b] = "stalled"]
  /\ UNCHANGED <<browserVars, relayVars, connVars, wireVars, agentVars, histVars, boundVars>>

Leave(b) ==
  /\ sock[b] \in {"open", "stalled"} /\ at[b] = "copying"
  /\ sock' = [sock EXCEPT ![b] = "closed"]
  /\ UNCHANGED <<browserVars, relayVars, connVars, wireVars, agentVars, histVars, boundVars>>

-----------------------------------------------------------------------------
(* The relay: handleAgent                                                  *)

(* Accept takes the place of the agent before, which is closed after the   *)
(* unlock.  The client dials again when its last runOnce has returned.     *)
Accept(a) ==
  /\ cli[a] = "none"
  /\ \A x \in Agents : cli[x] \in {"none", "over"}
  /\ cli' = [cli EXCEPT ![a] = "up"]
  /\ rUp' = [rUp EXCEPT ![a] = TRUE]
  /\ cUp' = [cUp EXCEPT ![a] = TRUE]
  /\ loop' = [loop EXCEPT ![a] = "accepted"]
  /\ old' = [old EXCEPT ![a] = current]
  /\ current' = a
  /\ newest' = a
  /\ UNCHANGED <<browserVars, sock, busy, pend, ws, cut, wireVars, job, cws, local, seen,
                 histVars, boundVars>>

CloseOld(a) ==
  /\ loop[a] = "accepted"
  /\ loop' = [loop EXCEPT ![a] = "reading"]
  /\ old' = [old EXCEPT ![a] = None]
  /\ IF old[a] # None
     THEN /\ rUp' = [rUp EXCEPT ![old[a]] = FALSE]
          /\ toRelay' = [toRelay EXCEPT ![old[a]] = <<>>]
     ELSE UNCHANGED <<rUp, toRelay>>
  /\ UNCHANGED <<browserVars, sock, current, newest, busy, pend, ws, cUp, cut, toAgent,
                 agentVars, histVars, boundVars>>

Reads(a) == loop[a] = "reading" /\ busy[a] = None /\ rUp[a] /\ toRelay[a] # <<>>

(* dispatch: a response leaves pend and goes into the handler's channel... *)
DispatchResponse(a) ==
  /\ Reads(a) /\ Head(toRelay[a]).kind = "response"
  /\ LET f == Head(toRelay[a])
     IN box' = IF f.id \in pend[a] THEN [box EXCEPT ![f.id] = IF f.ok THEN "ok" ELSE "fail"] ELSE box
  /\ pend' = [pend EXCEPT ![a] = @ \ {Head(toRelay[a]).id}]
  /\ toRelay' = [toRelay EXCEPT ![a] = Tail(@)]
  /\ UNCHANGED <<at, via, out, sock, current, newest, old, loop, busy, ws, connVars, toAgent,
                 agentVars, histVars, boundVars>>

(* ...data is written to the browser in the read loop itself, which waits  *)
(* for a browser that does not read...                                     *)
DispatchData(a) ==
  /\ Reads(a) /\ Head(toRelay[a]).kind = "data"
  /\ LET b == Head(toRelay[a]).id
     IN busy' = IF b \in ws[a] /\ sock[b] = "stalled" THEN [busy EXCEPT ![a] = b] ELSE busy
  /\ toRelay' = [toRelay EXCEPT ![a] = Tail(@)]
  /\ UNCHANGED <<browserVars, sock, current, newest, old, loop, pend, ws, connVars, toAgent,
                 agentVars, histVars, boundVars>>

WriteEnds(a) ==
  /\ busy[a] # None /\ sock[busy[a]] = "closed"
  /\ busy' = [busy EXCEPT ![a] = None]
  /\ UNCHANGED <<browserVars, sock, current, newest, old, loop, pend, ws, connVars, wireVars,
                 agentVars, histVars, boundVars>>

(* ...and a close closes the browser.                                      *)
DispatchClose(a) ==
  /\ Reads(a) /\ Head(toRelay[a]).kind = "close"
  /\ LET b == Head(toRelay[a]).id
     IN /\ ws' = [ws EXCEPT ![a] = @ \ {b}]
        /\ sock' = IF b \in ws[a] THEN [sock EXCEPT ![b] = "closed"] ELSE sock
  /\ toRelay' = [toRelay EXCEPT ![a] = Tail(@)]
  /\ UNCHANGED <<browserVars, current, newest, old, loop, busy, pend, connVars, toAgent,
                 agentVars, histVars, boundVars>>

(* The read fails: the other end has closed, or TCP has given up on it.    *)
RelayFails(a) ==
  /\ rUp[a] /\ (~cUp[a] \/ cut[a]) /\ loop[a] # "none"
  /\ rUp' = [rUp EXCEPT ![a] = FALSE]
  /\ toRelay' = [toRelay EXCEPT ![a] = <<>>]
  /\ UNCHANGED <<browserVars, sock, relayVars, cUp, cut, toAgent, agentVars, histVars, boundVars>>

LoopEnds(a) ==
  /\ loop[a] = "reading" /\ busy[a] = None /\ ~rUp[a]
  /\ loop' = [loop EXCEPT ![a] = "ended"]
  /\ UNCHANGED <<browserVars, sock, current, newest, old, busy, pend, ws, connVars, wireVars,
                 agentVars, histVars, boundVars>>

ClearAgent(a) ==
  /\ loop[a] = "ended"
  /\ loop' = [loop EXCEPT ![a] = "cleared"]
  /\ current' = IF current = a THEN None ELSE current
  /\ UNCHANGED <<browserVars, sock, newest, old, busy, pend, ws, connVars, wireVars, agentVars,
                 histVars, boundVars>>

FailAll(a) ==
  /\ loop[a] = "cleared"
  /\ loop' = [loop EXCEPT ![a] = "over"]
  /\ box' = [b \in Browsers |-> IF b \in pend[a] THEN "fail" ELSE box[b]]
  /\ sock' = [b \in Browsers |-> IF b \in ws[a] THEN "closed" ELSE sock[b]]
  /\ pend' = [pend EXCEPT ![a] = {}]
  /\ ws' = [ws EXCEPT ![a] = {}]
  /\ UNCHANGED <<at, via, out, current, newest, old, busy, connVars, wireVars, agentVars,
                 histVars, boundVars>>

-----------------------------------------------------------------------------
(* The agent                                                               *)

(* closeWS                                                                 *)
CloseWS(b, table) == local' = IF b \in table THEN [local EXCEPT ![b] = "closed"] ELSE local

Gets(a) == cli[a] = "up" /\ cUp[a] /\ toAgent[a] # <<>>

(* readLoop: a request gets a goroutine of its own...                      *)
AgentStarts(a) ==
  /\ Gets(a) /\ Head(toAgent[a]).kind \in {"request", "open"}
  /\ job' = [job EXCEPT ![Head(toAgent[a]).id] = Head(toAgent[a]).kind]
  /\ toAgent' = [toAgent EXCEPT ![a] = Tail(@)]
  /\ UNCHANGED <<browserVars, sock, relayVars, connVars, toRelay, cli, cws, local, seen,
                 histVars, boundVars>>

(* ...data goes to the WebSocket of its id, if there is one...             *)
AgentData(a) ==
  /\ Gets(a) /\ Head(toAgent[a]).kind = "data"
  /\ LET b == Head(toAgent[a]).id
     IN /\ lost' = IF b \in cws[a] THEN lost ELSE lost \cup {b}
        /\ cws' = IF local[b] = "closed" THEN [cws EXCEPT ![a] = @ \ {b}] ELSE cws
  /\ toAgent' = [toAgent EXCEPT ![a] = Tail(@)]
  /\ UNCHANGED <<browserVars, sock, relayVars, connVars, toRelay, cli, job, local, seen, expired,
                 boundVars>>

(* ...and a close closes it.                                               *)
AgentCloses(a) ==
  /\ Gets(a) /\ Head(toAgent[a]).kind = "close"
  /\ CloseWS(Head(toAgent[a]).id, cws[a])
  /\ cws' = [cws EXCEPT ![a] = @ \ {Head(toAgent[a]).id}]
  /\ toAgent' = [toAgent EXCEPT ![a] = Tail(@)]
  /\ UNCHANGED <<browserVars, sock, relayVars, connVars, toRelay, cli, job, seen, histVars,
                 boundVars>>

(* Mutant: a failed request is tried again.                                *)
ServeAgain(b) ==
  /\ job[b] = "request"
  /\ \/ /\ seen' = [seen EXCEPT ![b] = @ + 1]
        /\ \/ job' = [job EXCEPT ![b] = "served"]
           \/ seen[b] = 0 /\ UNCHANGED job
     \/ /\ job' = [job EXCEPT ![b] = "failed"]
        /\ UNCHANGED seen
  /\ UNCHANGED <<browserVars, sock, relayVars, connVars, wireVars, cli, cws, local, histVars,
                 boundVars>>

(* handleHTTP: jumpd answers, or the request fails on the way to it.       *)
Serve(b) ==
  /\ job[b] = "request"
  /\ \/ /\ seen' = [seen EXCEPT ![b] = @ + 1]
        /\ job' = [job EXCEPT ![b] = "served"]
     \/ /\ job' = [job EXCEPT ![b] = "failed"]
        /\ UNCHANGED seen
  /\ UNCHANGED <<browserVars, sock, relayVars, connVars, wireVars, cli, cws, local, histVars,
                 boundVars>>

(* Whether a frame is sent: not by a closed end, perhaps by a cancelled one.*)
Sends(a) == cUp[a]
SendFailed(a) == ~cUp[a] \/ cli[a] # "up"

Reply(b) ==
  /\ job[b] \in {"served", "failed", "refused"}
  /\ job' = [job EXCEPT ![b] = "over"]
  /\ \/ Sends(via[b]) /\ SendToRelay(via[b], Frame("response", b, job[b] = "served"))
     \/ SendFailed(via[b]) /\ UNCHANGED toRelay
  /\ UNCHANGED <<browserVars, sock, relayVars, connVars, toAgent, cli, cws, local, seen,
                 histVars, boundVars>>

(* Mutant: the relay is told before the WebSocket is in the table.         *)
DialAndTell(b) ==
  /\ job[b] = "open" /\ cli[via[b]] = "up" /\ cUp[via[b]]
  /\ job' = [job EXCEPT ![b] = "dialed"]
  /\ local' = [local EXCEPT ![b] = "open"]
  /\ seen' = [seen EXCEPT ![b] = @ + 1]
  /\ SendToRelay(via[b], Frame("response", b, TRUE))
  /\ UNCHANGED <<browserVars, sock, relayVars, connVars, toAgent, cli, cws, histVars, boundVars>>

(* handleWSOpen: dial jumpd...                                             *)
Dial(b) ==
  /\ job[b] = "open"
  /\ \/ /\ cli[via[b]] = "up"
        /\ job' = [job EXCEPT ![b] = "dialed"]
        /\ local' = [local EXCEPT ![b] = "open"]
        /\ seen' = [seen EXCEPT ![b] = @ + 1]
     \/ /\ job' = [job EXCEPT ![b] = "refused"]
        /\ UNCHANGED <<local, seen>>
  /\ UNCHANGED <<browserVars, sock, relayVars, connVars, wireVars, cli, cws, histVars, boundVars>>

(* ...enter the WebSocket in the table...                                  *)
Store(b) ==
  /\ job[b] = "dialed"
  /\ job' = [job EXCEPT ![b] = "stored"]
  /\ cws' = [cws EXCEPT ![via[b]] = @ \cup {b}]
  /\ UNCHANGED <<browserVars, sock, relayVars, connVars, wireVars, cli, local, seen, histVars,
                 boundVars>>

(* Mutant: a failed send leaves the WebSocket.                             *)
OpenedOrGivenUp(b) ==
  /\ job[b] = "stored"
  /\ \/ /\ Sends(via[b])
        /\ SendToRelay(via[b], Frame("response", b, TRUE))
        /\ job' = [job EXCEPT ![b] = "reading"]
     \/ /\ SendFailed(via[b])
        /\ job' = [job EXCEPT ![b] = "over"]
        /\ UNCHANGED toRelay
  /\ UNCHANGED <<browserVars, sock, relayVars, connVars, toAgent, cli, cws, local, seen, histVars,
                 boundVars>>

(* ...and only then tell the relay.                                        *)
Opened(b) ==
  /\ job[b] = "stored"
  /\ \/ /\ Sends(via[b])
        /\ SendToRelay(via[b], Frame("response", b, TRUE))
        /\ job' = [job EXCEPT ![b] = "reading"]
        /\ UNCHANGED <<cws, local>>
     \/ /\ SendFailed(via[b])
        /\ CloseWS(b, cws[via[b]])
        /\ cws' = [cws EXCEPT ![via[b]] = @ \ {b}]
        /\ job' = [job EXCEPT ![b] = "over"]
        /\ UNCHANGED toRelay
  /\ UNCHANGED <<browserVars, sock, relayVars, connVars, toAgent, cli, seen, histVars, boundVars>>

(* The goroutine that reads the WebSocket.                                 *)
CopyDown(b) ==
  /\ job[b] = "reading" /\ local[b] = "open" /\ cli[via[b]] = "up" /\ cUp[via[b]]
  /\ sent[b] < MaxData
  /\ sent' = [sent EXCEPT ![b] = @ + 1]
  /\ SendToRelay(via[b], Frame("data", b, TRUE))
  /\ UNCHANGED <<browserVars, sock, relayVars, connVars, toAgent, agentVars, histVars, breaks>>

LocalEnds(b) ==
  /\ job[b] = "reading" /\ local[b] = "open"
  /\ local' = [local EXCEPT ![b] = "closed"]
  /\ UNCHANGED <<browserVars, sock, relayVars, connVars, wireVars, cli, job, cws, seen, histVars,
                 boundVars>>

ReadEnds(b) ==
  /\ job[b] = "reading"
  /\ local[b] = "closed" \/ cli[via[b]] # "up" \/ ~cUp[via[b]]
  /\ job' = [job EXCEPT ![b] = "over"]
  /\ local' = [local EXCEPT ![b] = "closed"]
  /\ cws' = [cws EXCEPT ![via[b]] = @ \ {b}]
  /\ IF cUp[via[b]] THEN SendToRelay(via[b], Frame("close", b, TRUE)) ELSE UNCHANGED toRelay
  /\ UNCHANGED <<browserVars, sock, relayVars, connVars, toAgent, cli, seen, histVars, boundVars>>

(* runOnce: a read or a ping fails, and the context is cancelled...        *)
AgentFails(a) ==
  /\ cli[a] = "up" /\ (~rUp[a] \/ cut[a])
  /\ cli' = [cli EXCEPT ![a] = "cancelled"]
  /\ UNCHANGED <<browserVars, sock, relayVars, connVars, wireVars, job, cws, local, seen,
                 histVars, boundVars>>

(* ...closeAllWS, and the connection is closed.                            *)
AgentCleans(a) ==
  /\ cli[a] = "cancelled"
  /\ cli' = [cli EXCEPT ![a] = "over"]
  /\ local' = [b \in Browsers |-> IF b \in cws[a] THEN "closed" ELSE local[b]]
  /\ cws' = [cws EXCEPT ![a] = {}]
  /\ cUp' = [cUp EXCEPT ![a] = FALSE]
  /\ toAgent' = [toAgent EXCEPT ![a] = <<>>]
  /\ UNCHANGED <<browserVars, sock, relayVars, rUp, cut, toRelay, job, seen, histVars, boundVars>>

(* The network drops what is on the way and everything after it.           *)
Cut(a) ==
  /\ cli[a] = "up" /\ ~cut[a] /\ breaks < MaxBreaks
  /\ breaks' = breaks + 1
  /\ cut' = [cut EXCEPT ![a] = TRUE]
  /\ toAgent' = [toAgent EXCEPT ![a] = <<>>]
  /\ toRelay' = [toRelay EXCEPT ![a] = <<>>]
  /\ UNCHANGED <<browserVars, sock, relayVars, rUp, cUp, agentVars, histVars, sent>>

-----------------------------------------------------------------------------
Init ==
  /\ at = [b \in Browsers |-> "idle"]
  /\ via = [b \in Browsers |-> None]
  /\ box = [b \in Browsers |-> "none"]
  /\ out = [b \in Browsers |-> "none"]
  /\ sock = [b \in Browsers |-> "none"]
  /\ current = None /\ newest = None
  /\ old = [a \in Agents |-> None]
  /\ loop = [a \in Agents |-> "none"]
  /\ busy = [a \in Agents |-> None]
  /\ pend = [a \in Agents |-> {}]
  /\ ws = [a \in Agents |-> {}]
  /\ rUp = [a \in Agents |-> FALSE]
  /\ cUp = [a \in Agents |-> FALSE]
  /\ cut = [a \in Agents |-> FALSE]
  /\ toAgent = [a \in Agents |-> <<>>]
  /\ toRelay = [a \in Agents |-> <<>>]
  /\ cli = [a \in Agents |-> "none"]
  /\ job = [b \in Browsers |-> "none"]
  /\ cws = [a \in Agents |-> {}]
  /\ local = [b \in Browsers |-> "none"]
  /\ seen = [b \in Browsers |-> 0]
  /\ lost = {} /\ expired = {}
  /\ sent = [b \in Browsers |-> 0]
  /\ breaks = 0

BrowserStep(b) == Refuse(b) \/ Register(b) \/ Send(b) \/ SendFails(b) \/ Receive(b) \/ CopyEnds(b)
RelayStep(a) ==
  \/ CloseOld(a) \/ DispatchResponse(a) \/ DispatchData(a) \/ DispatchClose(a) \/ WriteEnds(a)
  \/ LoopEnds(a) \/ ClearAgent(a) \/ FailAll(a)
AgentStep(a) == AgentStarts(a) \/ AgentData(a) \/ AgentCloses(a) \/ AgentFails(a) \/ AgentCleans(a)
JobStep(b) == Serve(b) \/ Reply(b) \/ Dial(b) \/ Store(b) \/ Opened(b) \/ ReadEnds(b)

Next ==
  \/ \E b \in Browsers : Pick(b) \/ BrowserStep(b) \/ Timeout(b) \/ CopyUp(b) \/ Stall(b) \/ Leave(b)
                         \/ JobStep(b) \/ CopyDown(b) \/ LocalEnds(b)
  \/ \E a \in Agents : Accept(a) \/ RelayStep(a) \/ RelayFails(a) \/ AgentStep(a) \/ Cut(a)

Spec == Init /\ [][Next]_vars

(* Goroutines go on, timers fire, a stalled browser goes in the end, a     *)
(* closed connection is noticed, and the agent dials again (Run).          *)
FairSpec ==
  /\ Spec
  /\ \A b \in Browsers : WF_vars(BrowserStep(b) \/ Timeout(b) \/ (sock[b] = "stalled" /\ Leave(b)))
  /\ \A b \in Browsers : WF_vars(JobStep(b))
  /\ \A a \in Agents : WF_vars(RelayStep(a) \/ (~cut[a] /\ RelayFails(a)))
  /\ \A a \in Agents : WF_vars(AgentStep(a))

-----------------------------------------------------------------------------
(* Properties                                                              *)

Answers == {"none", "ok", "fail"}
Frames == [kind : {"request", "open", "response", "data", "close"}, id : Browsers, ok : BOOLEAN]

BrowserTypes ==
  /\ at \in [Browsers -> {"idle", "refused", "picked", "registered", "waiting", "copying", "done"}]
  /\ via \in [Browsers -> Agents \cup {None}]
  /\ \A b \in Browsers : at[b] \notin {"idle", "refused", "done"} => via[b] # None
  /\ box \in [Browsers -> Answers] /\ out \in [Browsers -> Answers]
  /\ sock \in [Browsers -> {"none", "open", "stalled", "closed"}]
  /\ expired \subseteq Sockets

RelayTypes ==
  /\ current \in Agents \cup {None} /\ newest \in Agents \cup {None}
  /\ old \in [Agents -> Agents \cup {None}]
  /\ loop \in [Agents -> {"none", "accepted", "reading", "ended", "cleared", "over"}]
  /\ busy \in [Agents -> Browsers \cup {None}]
  /\ pend \in [Agents -> SUBSET Browsers] /\ ws \in [Agents -> SUBSET Sockets]

WireTypes ==
  /\ rUp \in [Agents -> BOOLEAN] /\ cUp \in [Agents -> BOOLEAN] /\ cut \in [Agents -> BOOLEAN]
  /\ toAgent \in [Agents -> Seq(Frames)] /\ toRelay \in [Agents -> Seq(Frames)]
  /\ sent \in [Browsers -> Nat] /\ breaks \in Nat

AgentTypes ==
  /\ cli \in [Agents -> {"none", "up", "cancelled", "over"}]
  /\ job \in [Browsers -> {"none", "request", "served", "failed",
                           "open", "dialed", "stored", "reading", "refused", "over"}]
  /\ cws \in [Agents -> SUBSET Browsers]
  /\ local \in [Browsers -> {"none", "open", "closed"}]
  /\ seen \in [Browsers -> Nat]
  /\ lost \subseteq Browsers

TypeOK == BrowserTypes /\ RelayTypes /\ WireTypes /\ AgentTypes

(* The relay keeps its promise to a browser.                               *)
Service == INSTANCE RelayService WITH asked <- {b \in Browsers : at[b] # "idle"},
                                      served <- seen, answer <- out
RelaysRequests == Service!Spec

(* A data frame that finds no WebSocket at the agent belongs to one that   *)
(* has been closed: the result is sent after the table has the entry.      *)
NothingLostEarly == \A b \in lost : local[b] = "closed"

(* When an agent's connection is over and so is the goroutine of a         *)
(* WebSocket, its end at jumpd is closed, even if it was being opened when *)
(* closeAllWS went through the table (relayclient.go 216, 250).            *)
AgentLeavesNothing ==
  \A a \in Agents, b \in Sockets :
    cli[a] = "over" /\ via[b] = a /\ job[b] = "over" => local[b] # "open"

(* A WebSocket whose browser has gone is closed at jumpd.  Excepted is one *)
(* whose opening timed out: the relay does not tell the agent (main.go     *)
(* 278-282), which keeps it until jumpd or the connection ends it.         *)
BrowserLeavesNothing ==
  \A b \in Sockets : (at[b] = "done" /\ b \notin expired) ~> (local[b] # "open" \/ b \in expired)
=============================================================================
