----------------------------- MODULE WspTransport -----------------------------
(***************************************************************************)
(* The WSP transport of src/demos/wsp/free.player.1.8.js and the client    *)
(* glue it talks to.  WebsocketTransport keeps this.proxies (one worker)   *)
(* and this.ready, the promise of the last connect(); each WebSocketProxy  *)
(* owns a control socket (INIT, then WRAPped RTSP requests answered by     *)
(* seq) and a data socket (JOIN, then interleaved RTP).  A socket that     *)
(* closes calls whatever onclose handler is installed when its close event *)
(* is dispatched: onDisconnect, close()'s resolver, or nothing.            *)
(*                                                                         *)
(* The client is RTSPClient with BaseClient: 'connected' and 'disconnected'*)
(* events, the connected flag, shouldReconnect, and a request at a time:   *)
(* the handshake's Steps requests, then keepalives.  What each request     *)
(* says is RTSPClient.tla's concern; here a request is its seq.            *)
(***************************************************************************)
EXTENDS Naturals, FiniteSets

CONSTANTS
    MaxProxies,   \* bound on the proxies connect() creates
    MaxSeq,       \* bound on WSPProtocol.seq
    MaxDrops,     \* bound on connection losses
    Steps,        \* requests of the handshake (OPTIONS, DESCRIBE, SETUP)
    InitCodes,    \* status codes the server may answer INIT with
    DropCodes     \* close codes of a lost connection

P == 1..MaxProxies

\* The close codes after which the disconnect handler schedules connect().
ReconnectCodes == {1000, 1006, 1013, 1011}

\* onDisconnect calls disconnect_handler(this): the handler's argument is
\* the proxy, and a WebSocketProxy has no code field.  0 stands for
\* undefined: no close code equals it.
Undefined == 0
HandlerArg(p, code) == [code |-> Undefined]

VARIABLES
    listed,       \* this.proxies
    nextP,        \* the next proxy connect() creates
    readyP,       \* the proxy whose connect() this.ready waits on
    ctrl, data,   \* readyState of each proxy's sockets ("none" before creation)
    ctrlMsg,      \* "init" until INIT is answered, then "seq"
    ctrlEv, dataEv,         \* a close event queued on the socket
    ctrlOnclose, dataOnclose, \* "disc" (onDisconnect), "resolve" or "null"
    conn,         \* proxy.connect(): "pending", "resolved" or "rejected"
    awaiting,     \* the seqs of each proxy's awaitingPromises
    timers,       \* reconnect timeouts scheduled and not yet run
    seq,          \* WSPProtocol.seq
    drops,        \* connection losses so far
    connected,    \* BaseClient.connected
    should,       \* RTSPClientSM.shouldReconnect
    loading,      \* WSPlayer.load's client.start() still awaits the first ready
    hs,           \* "idle", "running" (handshake) or "streaming"
    step,         \* handshake requests answered
    req           \* the client's request in flight

vars == <<listed, nextP, readyP, ctrl, data, ctrlMsg, ctrlEv, dataEv,
          ctrlOnclose, dataOnclose, conn, awaiting, timers, seq, drops,
          connected, should, loading, hs, step, req>>
proxyVars == <<listed, nextP, readyP, ctrl, data, ctrlMsg, ctrlEv, dataEv,
               ctrlOnclose, dataOnclose, conn, awaiting>>
clientVars == <<connected, should, loading, hs, step, req>>

NoReq == [st |-> "none", p |-> 0, s |-> 0, ka |-> FALSE]

\* A new WebSocketProxy and proxy.connect(): the control socket opens.
NewProxy(q) ==
    /\ ctrl' = [ctrl EXCEPT ![q] = "connecting"]
    /\ ctrlOnclose' = [ctrlOnclose EXCEPT ![q] = "disc"]
    /\ conn' = [conn EXCEPT ![q] = "pending"]

\* The transport's constructor: this.ready = this.connect(); WSPlayer then
\* attaches the client and start() waits on ready.
Init ==
    /\ listed = {1} /\ nextP = 2 /\ readyP = 1
    /\ ctrl = [p \in P |-> IF p = 1 THEN "connecting" ELSE "none"]
    /\ data = [p \in P |-> "none"]
    /\ ctrlMsg = [p \in P |-> "init"]
    /\ ctrlEv = [p \in P |-> FALSE] /\ dataEv = [p \in P |-> FALSE]
    /\ ctrlOnclose = [p \in P |-> IF p = 1 THEN "disc" ELSE "null"]
    /\ dataOnclose = [p \in P |-> "null"]
    /\ conn = [p \in P |-> IF p = 1 THEN "pending" ELSE "none"]
    /\ awaiting = [p \in P |-> {}]
    /\ timers = 0 /\ seq = 0 /\ drops = 0
    /\ connected = FALSE /\ should = FALSE
    /\ loading = TRUE /\ hs = "idle" /\ step = 0 /\ req = NoReq

-----------------------------------------------------------------------------
(* Client side (BaseClient, RTSPClient, RTSPClientSM)                       *)

\* RTSPClientSM.onDisconnected: reset() drops streams (their keepalives)
\* and the chains in flight, which are never resumed; shouldReconnect.
ClientReset ==
    /\ should' = TRUE /\ hs' = "idle" /\ step' = 0 /\ req' = NoReq
    /\ UNCHANGED loading

\* 'connected': clientSM.onConnected starts the handshake when
\* shouldReconnect, then BaseClient.onConnected sets connected.
OnConnected ==
    /\ connected' = TRUE
    /\ hs' = IF should /\ hs = "idle" THEN "running" ELSE hs
    /\ step' = IF should /\ hs = "idle" THEN 0 ELSE step
    /\ UNCHANGED <<should, loading, req>>

\* 'disconnected': BaseClient.onDisconnected, then clientSM.onDisconnected.
OnDisconnected == connected' = FALSE /\ ClientReset

\* WSPlayer.load's client.start(): once the first ready settles,
\* clientSM.start() moves an idle client to OPTIONS (a client already in
\* the handshake or streaming is left as it is), or errorHandler gets the
\* rejection.
LoadStart ==
    /\ loading /\ conn[1] \in {"resolved", "rejected"}
    /\ loading' = FALSE
    /\ hs' = IF conn[1] = "resolved" /\ hs = "idle" THEN "running" ELSE hs
    /\ step' = IF conn[1] = "resolved" /\ hs = "idle" THEN 0 ELSE step
    /\ UNCHANGED <<proxyVars, timers, seq, drops, connected, should, req>>

\* sendRequest: the next handshake request or, while streaming, a
\* keepalive; RTSPClientSM.send first awaits this.transport.ready.
Send ==
    /\ hs \in {"running", "streaming"} /\ req.st = "none"
    /\ req' = [st |-> "ready", p |-> readyP, s |-> 0, ka |-> hs = "streaming"]
    /\ UNCHANGED <<proxyVars, timers, seq, drops, connected, should, loading,
                   hs, step>>

\* A request that fails: a keepalive's catch calls client.reconnect()
\* (reset, then OPTIONS); a failed SETUP runs stop() and reset(); any other
\* handshake request rejects its transition and the handshake ends.
Fail ==
    /\ UNCHANGED loading
    /\ IF req.ka THEN hs' = "running" /\ step' = 0 /\ req' = NoReq
                      /\ UNCHANGED should
       ELSE /\ should' = IF step = Steps - 1 THEN FALSE ELSE should
            /\ hs' = "idle" /\ step' = 0 /\ req' = NoReq

\* WebSocketProxy.close(): the control socket's onclose becomes the
\* resolver and the socket is closed (no new event once it is closed).
CloseCtrl(S) ==
    /\ ctrlOnclose' = [p \in P |-> IF p \in S THEN "resolve" ELSE ctrlOnclose[p]]
    /\ ctrl' = [p \in P |-> IF p \in S /\ ctrl[p] # "none" THEN "closed" ELSE ctrl[p]]
    /\ ctrlEv' = [p \in P |-> ctrlEv[p] \/ (p \in S /\ ctrl[p] \in {"connecting", "open"})]

\* The await of ready returns.  Rejected: send calls this.onDisconnected()
\* and throws.  Resolved: WebsocketTransport.send takes socket() (a
\* TypeError when this.proxies is empty) and WebSocketProxy.send, which
\* closes the proxy and throws unless the control socket is OPEN, and
\* otherwise registers the next seq in awaitingPromises and sends.
SendGo ==
    /\ req.st = "ready" /\ conn[req.p] # "pending"
    /\ IF conn[req.p] = "rejected"
       THEN /\ ClientReset
            /\ UNCHANGED <<proxyVars, timers, seq, drops, connected>>
       ELSE \/ /\ listed = {}
               /\ Fail
               /\ UNCHANGED <<proxyVars, timers, seq, drops, connected>>
            \/ \E p \in listed :
                 \/ /\ ctrl[p] # "open"
                    /\ CloseCtrl({p})
                    /\ Fail
                    /\ UNCHANGED <<listed, nextP, readyP, data, ctrlMsg, dataEv,
                                   dataOnclose, conn, awaiting, timers, seq,
                                   drops, connected>>
                 \/ /\ ctrl[p] = "open" /\ seq < MaxSeq
                    /\ seq' = seq + 1
                    /\ awaiting' = [awaiting EXCEPT ![p] = @ \cup {seq + 1}]
                    /\ req' = [req EXCEPT !.st = "reply", !.p = p, !.s = seq + 1]
                    /\ UNCHANGED <<listed, nextP, readyP, ctrl, data, ctrlMsg,
                                   ctrlEv, dataEv, ctrlOnclose, dataOnclose,
                                   conn, timers, drops, connected, should, hs,
                                   loading, step>>

\* The server answers seq s on p's control socket: the awaiting promise is
\* resolved and deleted.  The request it answers goes on: a keepalive is
\* done; a handshake request advances the handshake.  A seq whose chain
\* was dropped by reset() resolves a promise nobody waits on.
Reply(p, s) ==
    /\ s \in awaiting[p] /\ ctrl[p] = "open" /\ ctrlMsg[p] = "seq"
    /\ awaiting' = [awaiting EXCEPT ![p] = @ \ {s}]
    /\ IF req.st = "reply" /\ req.p = p /\ req.s = s
       THEN /\ req' = NoReq
            /\ step' = IF req.ka THEN step ELSE step + 1
            /\ hs' = IF ~req.ka /\ step + 1 = Steps THEN "streaming" ELSE hs
       ELSE UNCHANGED <<req, step, hs>>
    /\ UNCHANGED <<listed, nextP, readyP, ctrl, data, ctrlMsg, ctrlEv, dataEv,
                   ctrlOnclose, dataOnclose, conn, timers, seq, drops,
                   connected, should, loading>>

-----------------------------------------------------------------------------
(* Transport side (WebsocketTransport, WebSocketProxy) and the server       *)

\* The control socket opens; onopen sends INIT.
CtrlOpen(q) ==
    /\ ctrl[q] = "connecting"
    /\ ctrl' = [ctrl EXCEPT ![q] = "open"]
    /\ UNCHANGED <<listed, nextP, readyP, data, ctrlMsg, ctrlEv, dataEv,
                   ctrlOnclose, dataOnclose, conn, awaiting, timers, seq,
                   drops, clientVars>>

\* The server answers INIT.  Below 300 the seq handler is installed and
\* initDataChannel opens the data socket; otherwise connect() rejects, and
\* with it this.ready.
InitReply(q) ==
    /\ ctrl[q] = "open" /\ ctrlMsg[q] = "init"
    /\ \E c \in InitCodes :
         IF c < 300
         THEN /\ ctrlMsg' = [ctrlMsg EXCEPT ![q] = "seq"]
              /\ data' = [data EXCEPT ![q] = "connecting"]
              /\ dataOnclose' = [dataOnclose EXCEPT ![q] = "disc"]
              /\ UNCHANGED conn
         ELSE /\ conn' = [conn EXCEPT ![q] = "rejected"]
              /\ UNCHANGED <<ctrlMsg, data, dataOnclose>>
    /\ UNCHANGED <<listed, nextP, readyP, ctrl, ctrlEv, dataEv, ctrlOnclose,
                   awaiting, timers, seq, drops, clientVars>>

\* The data socket opens; onopen sends JOIN.
DataOpen(q) ==
    /\ data[q] = "connecting"
    /\ data' = [data EXCEPT ![q] = "open"]
    /\ UNCHANGED <<listed, nextP, readyP, ctrl, ctrlMsg, ctrlEv, dataEv,
                   ctrlOnclose, dataOnclose, conn, awaiting, timers, seq,
                   drops, clientVars>>

\* The server answers JOIN: connect() resolves and its then-callback
\* dispatches 'connected' to the client.
JoinReply(q) ==
    /\ data[q] = "open" /\ conn[q] = "pending"
    /\ conn' = [conn EXCEPT ![q] = "resolved"]
    /\ OnConnected
    /\ UNCHANGED <<listed, nextP, readyP, ctrl, data, ctrlMsg, ctrlEv, dataEv,
                   ctrlOnclose, dataOnclose, awaiting, timers, seq, drops>>

Live(s) == s \in {"connecting", "open"}

\* The connection to the server is lost: the browser fails both sockets
\* (readyState CLOSED) and queues their close events with the code.
Drop(q) ==
    /\ drops < MaxDrops /\ (Live(ctrl[q]) \/ Live(data[q]))
    /\ \E code \in DropCodes :
         /\ ctrl' = [ctrl EXCEPT ![q] = IF Live(@) THEN "closed" ELSE @]
         /\ data' = [data EXCEPT ![q] = IF Live(@) THEN "closed" ELSE @]
         /\ ctrlEv' = [ctrlEv EXCEPT ![q] = @ \/ Live(ctrl[q])]
         /\ dataEv' = [dataEv EXCEPT ![q] = @ \/ Live(data[q])]
    /\ drops' = drops + 1
    /\ UNCHANGED <<listed, nextP, readyP, ctrlMsg, ctrlOnclose, dataOnclose,
                   conn, awaiting, timers, seq, clientVars>>

\* WebSocketProxy.onDisconnect: both onclose handlers are cleared, both
\* sockets closed, and disconnect_handler(this) runs: it dispatches
\* 'disconnected' and schedules connect() in 3 s when its argument's code
\* is one of ReconnectCodes.
OnDisconnect(q, code) ==
    /\ ctrlOnclose' = [ctrlOnclose EXCEPT ![q] = "null"]
    /\ dataOnclose' = [dataOnclose EXCEPT ![q] = "null"]
    /\ ctrl' = [ctrl EXCEPT ![q] = IF @ = "none" THEN @ ELSE "closed"]
    /\ data' = [data EXCEPT ![q] = IF @ = "none" THEN @ ELSE "closed"]
    /\ OnDisconnected
    /\ timers' = IF HandlerArg(q, code).code \in ReconnectCodes
                 THEN timers + 1 ELSE timers

\* The control socket's close event runs its onclose as installed now:
\* onDisconnect, close()'s resolver (which then closes the data socket
\* with the resolver as its onclose), or nothing.
CtrlClosed(q) ==
    /\ ctrlEv[q]
    /\ ctrlEv' = [ctrlEv EXCEPT ![q] = FALSE]
    /\ CASE ctrlOnclose[q] = "disc" ->
              /\ \E code \in DropCodes : OnDisconnect(q, code)
              /\ UNCHANGED <<dataEv>>
         [] ctrlOnclose[q] = "resolve" /\ data[q] # "none" ->
              /\ dataOnclose' = [dataOnclose EXCEPT ![q] = "resolve"]
              /\ data' = [data EXCEPT ![q] = "closed"]
              /\ dataEv' = [dataEv EXCEPT ![q] = @ \/ Live(data[q])]
              /\ UNCHANGED <<ctrl, ctrlOnclose, timers, clientVars>>
         [] OTHER -> UNCHANGED <<ctrl, data, dataEv, ctrlOnclose, dataOnclose,
                                 timers, clientVars>>
    /\ UNCHANGED <<listed, nextP, readyP, ctrlMsg, conn, awaiting, seq, drops>>

\* The data socket's close event: onDisconnect, the resolver, or nothing.
DataClosed(q) ==
    /\ dataEv[q]
    /\ dataEv' = [dataEv EXCEPT ![q] = FALSE]
    /\ IF dataOnclose[q] = "disc"
       THEN \E code \in DropCodes : OnDisconnect(q, code)
       ELSE UNCHANGED <<ctrl, data, ctrlOnclose, dataOnclose, timers,
                        clientVars>>
    /\ UNCHANGED <<listed, nextP, readyP, ctrlMsg, ctrlEv, conn, awaiting,
                   seq, drops>>

\* The reconnect timeout: this.ready = this.connect().  disconnect() closes
\* the listed proxies and empties this.proxies; a new proxy connects.
Reconnect ==
    /\ timers > 0 /\ nextP <= MaxProxies
    /\ timers' = timers - 1
    /\ LET q == nextP
       IN  /\ ctrlOnclose' = [p \in P |-> IF p = q THEN "disc"
                                          ELSE IF p \in listed THEN "resolve"
                                          ELSE ctrlOnclose[p]]
           /\ ctrl' = [p \in P |-> IF p = q THEN "connecting"
                                   ELSE IF p \in listed /\ ctrl[p] # "none"
                                        THEN "closed" ELSE ctrl[p]]
           /\ ctrlEv' = [p \in P |-> ctrlEv[p] \/ (p \in listed /\ Live(ctrl[p]))]
           /\ conn' = [conn EXCEPT ![q] = "pending"]
           /\ listed' = {q} /\ nextP' = q + 1 /\ readyP' = q
    /\ UNCHANGED <<data, ctrlMsg, dataEv, dataOnclose, awaiting, seq, drops,
                   clientVars>>

Next ==
    \/ LoadStart \/ Send \/ SendGo
    \/ \E p \in P, s \in 1..MaxSeq : Reply(p, s)
    \/ \E q \in P : \/ CtrlOpen(q) \/ InitReply(q) \/ DataOpen(q)
                    \/ JoinReply(q) \/ Drop(q) \/ CtrlClosed(q)
                    \/ DataClosed(q)
    \/ Reconnect

\* Every step but a connection loss is taken when it stays enabled:
\* promise continuations and queued events run, timers fire, and a server
\* that is reachable answers.
Fairness ==
    /\ WF_vars(LoadStart) /\ WF_vars(Send) /\ WF_vars(SendGo)
    /\ WF_vars(Reconnect)
    /\ \A p \in P : \A s \in 1..MaxSeq : WF_vars(Reply(p, s))
    /\ \A q \in P : /\ WF_vars(CtrlOpen(q)) /\ WF_vars(InitReply(q))
                    /\ WF_vars(DataOpen(q)) /\ WF_vars(JoinReply(q))
                    /\ WF_vars(CtrlClosed(q)) /\ WF_vars(DataClosed(q))

Spec == Init /\ [][Next]_vars /\ Fairness

-----------------------------------------------------------------------------

\* The player is online: the client is marked connected and the proxy of
\* this.proxies has both sockets open.
Online == connected /\ \E p \in listed : ctrl[p] = "open" /\ data[p] = "open"

\* spec 4.4/5: a transport disconnect triggers the automatic reconnect
\* (the disconnect handler's timed connect()), so every connection loss
\* is followed by the player being online again while the server is up.
DropLeadsToOnline == \A n \in 1..MaxDrops : (drops = n) ~> Online

=============================================================================
