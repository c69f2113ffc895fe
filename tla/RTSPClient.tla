----------------------------- MODULE RTSPClient -----------------------------
(***************************************************************************)
(* The RTSP client of src/demos/rtsp/rtsp.dev.js: the promise-driven       *)
(* StateMachine.transitionTo, the RTSPClientSM handshake (OPTIONS,         *)
(* DESCRIBE, SETUP per track, PLAY per session), reset, reconnect and      *)
(* onDisconnected, the RTSPStream keepalive timers, and the FIFO matching  *)
(* of replies in WebsocketTransport, against a server that answers the    *)
(* requests in the order they were sent.                                   *)
(*                                                                         *)
(* JavaScript runs one macrotask (a socket message, a timer) at a time and *)
(* then drains the promise continuations.  Every promise chain or async    *)
(* function that is still running is a "proc"; one step of a proc is one  *)
(* continuation.  Ready continuations may interleave in any order (a      *)
(* superset of the engine's FIFO order); a macrotask is taken only when no *)
(* continuation is ready (Quiescent).  The continuations that run when a   *)
(* reply arrives (send, sendRequest, the RTSPStream and sendSetup .then    *)
(* callbacks) are taken as one step.                                       *)
(***************************************************************************)
EXTENDS Integers, Sequences, FiniteSets, SequencesExt

CONSTANTS
    NTracks,       \* most media blocks in the SDP the server returns
    AuthRequired,  \* the server answers 401 to a request without Authorization
    ServerPause,   \* the server's Public header lists PAUSE
    MaxFaults,     \* error replies and socket closes the environment may cause
    MaxProcs,      \* slots for running promise chains and async functions
    MaxStreams,    \* slots for RTSPStream objects
    MaxSessions    \* session ids the server may hand out

ASSUME /\ NTracks \in 1..3 /\ MaxFaults \in Nat
       /\ AuthRequired \in BOOLEAN /\ ServerPause \in BOOLEAN
       /\ {MaxProcs, MaxStreams, MaxSessions} \subseteq Nat \ {0}

Tracks    == 1..NTracks
ProcId    == 1..MaxProcs
StreamId  == 1..MaxStreams
SessionId == 1..MaxSessions

None == 0    \* a promise nobody awaits (a call whose result is dropped)
User == -1   \* the promise WSPlayer gets from RTSPClient.start

\* RTSPClientSM's states and the transitions its constructor adds.
States == {"INITIAL", "OPTIONS", "DESCRIBE", "SETUP", "STREAMS", "TEARDOWN"}
Transitions ==
    { <<"INITIAL", "OPTIONS">>, <<"INITIAL", "TEARDOWN">>,
      <<"OPTIONS", "DESCRIBE">>, <<"DESCRIBE", "SETUP">>,
      <<"SETUP", "STREAMS">>, <<"TEARDOWN", "INITIAL">>,
      <<"STREAMS", "TEARDOWN">>, <<"SETUP", "TEARDOWN">>,
      <<"DESCRIBE", "TEARDOWN">>, <<"OPTIONS", "TEARDOWN">> }

Methods == {"OPTIONS", "DESCRIBE", "SETUP", "PLAY", "PAUSE", "KEEPALIVE"}
Kinds   == {"free", "tr", "reset", "reconn", "disc"}
Stages  == {"idle", "act", "net", "commit", "finish", "await", "adopt",
            "td", "init", "reset"}

VARIABLES
    cur,          \* currentState.name
    procs,        \* running promise chains and async functions
    wire,         \* requests sent and not yet answered, oldest first
    connected,    \* the websocket is open
    streams,      \* this.streams: track -> RTSPStream (0: none)
    strm,         \* the RTSPStream objects
    chanIdx,      \* this.interleaveChannelIndex
    channels,     \* this.rtp_channels
    sessions,     \* keys of this.sessions
    authn,        \* this.authenticator is set
    methods,      \* this.methods holds the server's Public list
    tracks,       \* this.tracks.length
    flushTimers,  \* flush intervals started by startStreamFlush
    srvNext,      \* the server's last session id
    srvPlays,     \* PLAY requests the server accepted, per session
    faults,       \* faults the environment has caused
    userRes,      \* the outcome of the promise WSPlayer awaits
    sdpTracks     \* media blocks in the server's SDP

vars == <<cur, procs, wire, connected, streams, strm, chanIdx, channels,
          sessions, authn, methods, tracks, flushTimers, srvNext, srvPlays,
          faults, userRes, sdpTracks>>

ProcRec == [k : Kinds, to : States \cup {"none"}, stage : Stages,
            nx : Stages, res : {"ok", "err"}, w : ProcId \cup {None, User},
            todo : Seq(StreamId), plays : 0..MaxSessions, n : 0..NTracks]
ReqRec  == [m : Methods, p : ProcId \cup {None}, s : StreamId \cup {0},
            x : SessionId \cup {0}, auth : BOOLEAN]
StrmRec == [t : Tracks \cup {0}, live : BOOLEAN, ka : BOOLEAN,
            up : BOOLEAN, chan : Nat, sess : SessionId \cup {0}]

FreeProc == [k |-> "free", to |-> "none", stage |-> "idle", nx |-> "idle",
             res |-> "ok", w |-> None, todo |-> <<>>, plays |-> 0, n |-> 0]
\* A transitionTo promise chain for target state s awaited by w.
Chain(s, w) == [FreeProc EXCEPT !.k = "tr", !.to = s, !.stage = "act", !.w = w]
\* RTSPStream's constructor; rtpChannel starts at 1.
NoStream == [t |-> 0, live |-> FALSE, ka |-> FALSE, up |-> FALSE,
             chan |-> 1, sess |-> 0]
Req(m, p, s, x, a) == [m |-> m, p |-> p, s |-> s, x |-> x, auth |-> a]

Ready(p)  == procs[p].k # "free" /\ procs[p].stage \notin {"net", "await"}
Quiescent == \A p \in ProcId : ~Ready(p)

\* The lowest free slot of ps (a new promise chain).
FreeId(ps) == CHOOSE i \in ProcId :
                 ps[i].k = "free" /\ \A j \in 1..(i - 1) : ps[j].k # "free"

\* The elements of a finite set of integers in increasing order.
Ascending(S) ==
    [i \in 1..Cardinality(S) |-> CHOOSE x \in S : Cardinality({y \in S : y < x}) = i - 1]

\* A message is lost when the socket is closed (WebSocket.send after close).
Send(w, r) == IF connected THEN Append(w, r) ELSE w

\* w resumes at stage nx with outcome out; w stops at nx to await a promise.
Wake(ps, w, nx, out) ==
    IF w \in ProcId THEN [ps EXCEPT ![w].stage = nx, ![w].res = out] ELSE ps
Park(ps, w, nx) ==
    IF w \in ProcId THEN [ps EXCEPT ![w].stage = "await", ![w].nx = nx] ELSE ps

\* The chain of p ends with out: p's slot is freed and its waiter resumes.
Settle(ps, p, out) ==
    LET w == ps[p].w
    IN  Wake([ps EXCEPT ![p] = FreeProc], w,
             IF w \in ProcId THEN ps[w].nx ELSE "idle", out)
UserOut(p, out) == IF procs[p].w = User THEN out ELSE userRes

\* StateMachine.transitionTo(s) called by w, which awaits it at stage nx.
TransitionTo(ps, s, w, nx) ==
    IF cur = s THEN Wake(ps, w, nx, "ok")
    ELSE IF <<cur, s>> \in Transitions
         THEN [Park(ps, w, nx) EXCEPT ![FreeId(ps)] = Chain(s, w)]
         ELSE Wake(ps, w, nx, "err")

\* reset() called by w, which awaits it at nx: everything up to the first
\* await runs now; from a state other than INITIAL a "reset" proc then
\* awaits transitionTo(TEARDOWN) and transitionTo(INITIAL).
ResetProcs(ps, w, nx) ==
    IF cur = "INITIAL" THEN Wake(ps, w, nx, "ok")
    ELSE LET r == FreeId(ps)
         IN  TransitionTo([Park(ps, w, nx) EXCEPT
                             ![r] = [FreeProc EXCEPT !.k = "reset", !.w = w]],
                          "TEARDOWN", r, "td")

\* Mutant: RTSPStream.reset without stopKeepAlive.
ResetStreamKeepTimer(rec) == [rec EXCEPT !.live = FALSE]

\* RTSPStream.reset: stopKeepAlive; this.client = null, so later callbacks
\* of the stream throw.
ResetStream(rec) == [rec EXCEPT !.live = FALSE, !.ka = FALSE]

\* Mutant: the channels of reset streams stay registered.
ForgetNoChannels(ch, cs) == ch

\* forgetRTPChannel for each channel of cs.
ForgetRTPChannels(ch, cs) == ch \ cs

\* The synchronous part of reset() applied to stream table st and channel
\* set ch: every stream of this.streams is reset (stopKeepAlive,
\* forgetRTPChannel), streams, sessions, authenticator, methods and tracks
\* are emptied; from INITIAL the tail (interleaveChannelIndex = 0) runs too.
ResetState(st, ch) ==
    LET gone == {streams[t] : t \in Tracks} \ {0}
    IN  /\ strm' = [s \in StreamId |->
                      IF s \in gone THEN ResetStream(st[s]) ELSE st[s]]
        /\ channels' = ForgetRTPChannels(ch, {st[s].chan : s \in gone})
        /\ streams' = [t \in Tracks |-> 0]
        /\ sessions' = {}
        /\ authn' = FALSE
        /\ methods' = FALSE
        /\ tracks' = 0
        /\ chanIdx' = IF cur = "INITIAL" THEN 0 ELSE chanIdx

(***************************************************************************)
(* The transitionTo promise chain: activate, set currentState, then        *)
(* finishTransition (StateMachine.transitionTo).                           *)
(***************************************************************************)
IsChain(p, s, stage) ==
    procs[p].k = "tr" /\ procs[p].to = s /\ procs[p].stage = stage

\* STATE_OPTIONS activate, sendOptions: reset() (not awaited), then OPTIONS.
ActivateOptions(p) ==
    /\ IsChain(p, "OPTIONS", "act")
    /\ ResetState(strm, channels)
    /\ procs' = ResetProcs([procs EXCEPT ![p].stage = "net"], None, "idle")
    /\ wire' = Send(wire, Req("OPTIONS", p, 0, 0, FALSE))
    /\ UNCHANGED <<cur, connected, flushTimers, srvNext, srvPlays, faults, userRes, sdpTracks>>

\* STATE_DESCRIBE activate, sendDescribe.
ActivateDescribe(p) ==
    /\ IsChain(p, "DESCRIBE", "act")
    /\ procs' = [procs EXCEPT ![p].stage = "net"]
    /\ wire' = Send(wire, Req("DESCRIBE", p, 0, 0, authn))
    /\ UNCHANGED <<cur, connected, streams, strm, chanIdx, channels, sessions,
                   authn, methods, tracks, flushTimers, srvNext, srvPlays,
                   faults, userRes, sdpTracks>>

\* A stream slot is in use while an object in the program can reach it.
InUse(s) == \/ strm[s].live
            \/ \E t \in Tracks : streams[t] = s
            \/ \E i \in DOMAIN wire : wire[i].s = s
            \/ \E q \in ProcId : s \in ToSet(procs[q].todo)

\* PLAY for every session of ss (sendSetup's Promise.all(streams).then);
\* with no session, ontracks runs at once and starts a flush interval.
SendPlays(p, ss, w0, a) ==
    IF ss = {}
    THEN /\ flushTimers' = flushTimers + 1
         /\ wire' = w0
         /\ procs' = [procs EXCEPT ![p].stage = "commit", ![p].todo = <<>>]
    ELSE LET q == Ascending(ss)
         IN  /\ flushTimers' = flushTimers
             /\ wire' = IF connected
                        THEN w0 \o [i \in 1..Len(q) |-> Req("PLAY", p, 0, q[i], a)]
                        ELSE w0
             /\ procs' = [procs EXCEPT ![p].stage = "net", ![p].todo = <<>>,
                                       ![p].plays = Len(q)]

\* STATE_SETUP activate, sendSetup: a new RTSPStream per track, the first
\* SETUP sent now (channel interleaveChannelIndex, which advances by 2), the
\* others chained after it.
ActivateSetup(p) ==
    /\ IsChain(p, "SETUP", "act")
    /\ IF tracks = 0
       THEN /\ SendPlays(p, sessions, wire, authn)
            /\ UNCHANGED <<streams, strm, chanIdx>>
       ELSE LET ids == Ascending({s \in StreamId : ~InUse(s)})
                new == {ids[t] : t \in 1..tracks}
                trk(s) == CHOOSE t \in 1..tracks : ids[t] = s
            IN  /\ streams' = [t \in Tracks |-> IF t <= tracks THEN ids[t] ELSE streams[t]]
                /\ strm' = [s \in StreamId |->
                              IF s \notin new THEN strm[s]
                              ELSE [NoStream EXCEPT !.t = trk(s), !.live = TRUE,
                                      !.chan = IF trk(s) = 1 THEN chanIdx ELSE 1]]
                /\ chanIdx' = chanIdx + 2
                /\ wire' = Send(wire, Req("SETUP", p, ids[1], 0, authn))
                /\ procs' = [procs EXCEPT ![p].stage = "net",
                                          ![p].todo = SubSeq(ids, 2, tracks)]
                /\ UNCHANGED flushTimers
    /\ UNCHANGED <<cur, connected, channels, sessions, authn, methods, tracks,
                   srvNext, srvPlays, faults, userRes, sdpTracks>>

\* TEARDOWN, INITIAL and STREAMS: activate resolves at once.
ActivateLocal(p) ==
    /\ procs[p].k = "tr" /\ procs[p].stage = "act"
    /\ procs[p].to \in {"TEARDOWN", "INITIAL", "STREAMS"}
    /\ procs' = [procs EXCEPT ![p].stage = "commit"]
    /\ UNCHANGED <<cur, wire, connected, streams, strm, chanIdx, channels,
                   sessions, authn, methods, tracks, flushTimers, srvNext,
                   srvPlays, faults, userRes, sdpTracks>>

\* this.currentState = state, once activate has resolved.
Commit(p) ==
    /\ procs[p].k = "tr" /\ procs[p].stage = "commit"
    /\ cur' = procs[p].to
    /\ procs' = [procs EXCEPT ![p].stage = "finish"]
    /\ UNCHANGED <<wire, connected, streams, strm, chanIdx, channels, sessions,
                   authn, methods, tracks, flushTimers, srvNext, srvPlays,
                   faults, userRes, sdpTracks>>

\* onOptions: this.methods from Public, transitionTo(DESCRIBE) not awaited.
FinishOptions(p) ==
    /\ IsChain(p, "OPTIONS", "finish")
    /\ methods' = TRUE
    /\ procs' = Settle(TransitionTo(procs, "DESCRIBE", None, "idle"), p, "ok")
    /\ userRes' = UserOut(p, "ok")
    /\ UNCHANGED <<cur, wire, connected, streams, strm, chanIdx, channels,
                   sessions, authn, tracks, flushTimers, srvNext, srvPlays, faults, sdpTracks>>

\* Mutant: onDescribe moves on to SETUP without keeping the SDP's tracks.
FinishDescribeNoTracks(p) ==
    /\ IsChain(p, "DESCRIBE", "finish")
    /\ procs' = IF procs[p].n = 0 THEN Settle(procs, p, "err")
                ELSE Settle(TransitionTo(procs, "SETUP", None, "idle"), p, "ok")
    /\ userRes' = UserOut(p, IF procs[p].n = 0 THEN "err" ELSE "ok")
    /\ UNCHANGED <<cur, wire, connected, streams, strm, chanIdx, channels,
                   sessions, authn, methods, tracks, flushTimers, srvNext, srvPlays, faults, sdpTracks>>

\* onDescribe: this.tracks from the SDP; throws when there is no track,
\* else transitionTo(SETUP) not awaited.
FinishDescribe(p) ==
    /\ IsChain(p, "DESCRIBE", "finish")
    /\ tracks' = procs[p].n
    /\ procs' = IF procs[p].n = 0 THEN Settle(procs, p, "err")
                ELSE Settle(TransitionTo(procs, "SETUP", None, "idle"), p, "ok")
    /\ userRes' = UserOut(p, IF procs[p].n = 0 THEN "err" ELSE "ok")
    /\ UNCHANGED <<cur, wire, connected, streams, strm, chanIdx, channels,
                   sessions, authn, methods, flushTimers, srvNext, srvPlays, faults, sdpTracks>>

\* Mutant: onSetup does not move on to STREAMS.
FinishSetupNoStreams(p) ==
    /\ IsChain(p, "SETUP", "finish")
    /\ procs' = Settle(procs, p, "ok")
    /\ userRes' = UserOut(p, "ok")
    /\ UNCHANGED <<cur, wire, connected, streams, strm, chanIdx, channels,
                   sessions, authn, methods, tracks, flushTimers, srvNext,
                   srvPlays, faults, sdpTracks>>

\* onSetup: transitionTo(STREAMS) not awaited.
FinishSetup(p) ==
    /\ IsChain(p, "SETUP", "finish")
    /\ procs' = Settle(TransitionTo(procs, "STREAMS", None, "idle"), p, "ok")
    /\ userRes' = UserOut(p, "ok")
    /\ UNCHANGED <<cur, wire, connected, streams, strm, chanIdx, channels,
                   sessions, authn, methods, tracks, flushTimers, srvNext,
                   srvPlays, faults, sdpTracks>>

\* STATE_TEARDOWN's finishTransition returns transitionTo(INITIAL): the
\* chain adopts that promise.
FinishTeardown(p) ==
    /\ IsChain(p, "TEARDOWN", "finish")
    /\ procs' = TransitionTo(procs, "INITIAL", p, "adopt")
    /\ UNCHANGED <<cur, wire, connected, streams, strm, chanIdx, channels,
                   sessions, authn, methods, tracks, flushTimers, srvNext,
                   srvPlays, faults, userRes, sdpTracks>>

\* INITIAL and STREAMS have the default finishTransition; a chain that
\* adopted another promise ends with its outcome.
FinishPlain(p) ==
    /\ procs[p].k = "tr"
    /\ \/ procs[p].stage = "finish" /\ procs[p].to \in {"INITIAL", "STREAMS"}
       \/ procs[p].stage = "adopt"
    /\ procs' = Settle(procs, p, procs[p].res)
    /\ userRes' = UserOut(p, procs[p].res)
    /\ UNCHANGED <<cur, wire, connected, streams, strm, chanIdx, channels,
                   sessions, authn, methods, tracks, flushTimers, srvNext,
                   srvPlays, faults, sdpTracks>>

(***************************************************************************)
(* The async functions reset(), reconnect() and onDisconnected() after     *)
(* their first await.                                                      *)
(***************************************************************************)
\* reset() and onDisconnected(): after await transitionTo(TEARDOWN), await
\* transitionTo(INITIAL); a rejection ends the function.
AwaitTeardown(p) ==
    /\ procs[p].k \in {"reset", "disc"} /\ procs[p].stage = "td"
    /\ procs' = IF procs[p].res = "err" THEN Settle(procs, p, "err")
                ELSE TransitionTo(procs, "INITIAL", p, "init")
    /\ UNCHANGED <<cur, wire, connected, streams, strm, chanIdx, channels,
                   sessions, authn, methods, tracks, flushTimers, srvNext,
                   srvPlays, faults, userRes, sdpTracks>>

\* The tail of reset() (interleaveChannelIndex = 0) and the end of
\* onDisconnected().
ResetTail(p) ==
    /\ procs[p].k \in {"reset", "disc"} /\ procs[p].stage = "init"
    /\ chanIdx' = IF procs[p].k = "reset" /\ procs[p].res = "ok" THEN 0 ELSE chanIdx
    /\ procs' = Settle(procs, p, procs[p].res)
    /\ UNCHANGED <<cur, wire, connected, streams, strm, channels, sessions,
                   authn, methods, tracks, flushTimers, srvNext, srvPlays,
                   faults, userRes, sdpTracks>>

\* reconnect(): after await reset(), from a state other than INITIAL await
\* transitionTo(TEARDOWN); then return transitionTo(OPTIONS), whose promise
\* nobody awaits.
ReconnAfterReset(p) ==
    /\ procs[p].k = "reconn" /\ procs[p].stage \in {"reset", "td"}
    /\ procs' = CASE procs[p].res = "err" -> Settle(procs, p, "err")
                  [] procs[p].stage = "reset" /\ cur # "INITIAL" ->
                        TransitionTo(procs, "TEARDOWN", p, "td")
                  [] OTHER -> TransitionTo([procs EXCEPT ![p] = FreeProc],
                                           "OPTIONS", None, "idle")
    /\ UNCHANGED <<cur, wire, connected, streams, strm, chanIdx, channels,
                   sessions, authn, methods, tracks, flushTimers, srvNext,
                   srvPlays, faults, userRes, sdpTracks>>

(***************************************************************************)
(* Replies.  The server answers the oldest request; WebsocketTransport     *)
(* resolves the oldest awaiting promise with it.                           *)
(***************************************************************************)
\* The server's possible answers: 401 to a request without Authorization;
\* otherwise success, or while faults remain an error status, a stale 401,
\* an SDP without media (DESCRIBE), 501 (keepalive).
Outcomes(r) ==
    IF AuthRequired /\ ~r.auth THEN {"unauth"}
    ELSE {"ok"} \cup
         IF faults >= MaxFaults THEN {}
         ELSE {"err"} \cup (IF AuthRequired THEN {"unauth"} ELSE {})
                      \cup (IF r.m = "DESCRIBE" THEN {"empty"} ELSE {})
                      \cup (IF r.m = "KEEPALIVE" THEN {"e501"} ELSE {})

\* Requests of the failed chain p now belong to nobody.
Detach(w, p) == [i \in DOMAIN w |-> IF w[i].p = p THEN [w[i] EXCEPT !.p = None]
                                                  ELSE w[i]]

\* stop(): sendPause for every session when the server supports PAUSE.
Pauses(ss) ==
    LET q == Ascending(ss)
    IN  IF ServerPause /\ methods /\ connected
        THEN [i \in 1..Len(q) |-> Req("PAUSE", None, 0, q[i], authn)]
        ELSE <<>>

\* The .catch of sendSetup: stop(), then reset() not awaited; the catch
\* resolves, so the SETUP chain goes on to commit.
SetupFail(p, st, ch, ss, w0) ==
    /\ ResetState(st, ch)
    /\ wire' = Detach(w0 \o Pauses(ss), p)
    /\ procs' = ResetProcs([procs EXCEPT ![p].stage = "commit", ![p].todo = <<>>,
                                         ![p].plays = 0], None, "idle")
    /\ UNCHANGED flushTimers

\* The awaited OPTIONS or DESCRIBE reply: activate resolves, or the chain
\* rejects.
OnHandshakeReply(r, out, a0) ==
    LET p == r.p
    IN  /\ IF out \in {"ok", "empty"}
           THEN /\ procs' = [procs EXCEPT ![p].stage = "commit",
                                ![p].n = IF out = "empty" THEN 0 ELSE sdpTracks]
                /\ UNCHANGED userRes
           ELSE /\ procs' = Settle(procs, p, "err")
                /\ userRes' = UserOut(p, "err")
        /\ wire' = Tail(wire)
        /\ authn' = a0
        /\ UNCHANGED <<cur, connected, streams, strm, chanIdx, channels,
                       sessions, methods, tracks, flushTimers, srvNext, srvPlays>>

\* Mutant: the next track's SETUP carries no Session header.
SetupNextFresh(w0, p, s, x, a) == Send(w0, Req("SETUP", p, s, 0, a))

\* Mutant: the session is started (PLAY) as soon as a SETUP reports it.
SetupNextEarlyPlay(w0, p, s, x, a) ==
    IF connected THEN w0 \o << Req("PLAY", None, 0, x, a), Req("SETUP", p, s, x, a) >>
    ELSE w0

\* RTSPStream.start(lastSetupPromise): the next stream's sendSetup with the
\* session of the previous SETUP.
SetupNext(w0, p, s, x, a) == Send(w0, Req("SETUP", p, s, x, a))

\* A SETUP reply: RTSPStream.sendSetup's .then (session, useRTPChannel,
\* startKeepAlive; a TypeError when the stream was reset), the session
\* registered in this.sessions, then the next track's SETUP on the same
\* session, or PLAY per session after the last one.
OnSetupReply(r, out, a0) ==
    LET p   == r.p
        s   == r.s
        sid == IF r.x # 0 THEN r.x ELSE srvNext + 1
        st1 == [strm EXCEPT ![s].up = TRUE, ![s].ka = TRUE, ![s].sess = sid]
        ch1 == channels \cup {strm[s].chan}
        ss1 == sessions \cup {sid}
        nxt == Head(procs[p].todo)
    IN  /\ srvNext' = IF out = "ok" /\ r.x = 0 THEN srvNext + 1 ELSE srvNext
        /\ IF out = "ok" /\ strm[s].live
           THEN IF procs[p].todo = <<>>
                THEN /\ strm' = st1
                     /\ channels' = ch1
                     /\ sessions' = ss1
                     /\ SendPlays(p, ss1, Tail(wire), a0)
                     /\ authn' = a0
                     /\ UNCHANGED <<streams, chanIdx, methods, tracks>>
                ELSE IF strm[nxt].live
                THEN /\ strm' = [st1 EXCEPT ![nxt].chan = chanIdx]
                     /\ chanIdx' = chanIdx + 2
                     /\ channels' = ch1
                     /\ sessions' = ss1
                     /\ wire' = SetupNext(Tail(wire), p, nxt, sid, a0)
                     /\ procs' = [procs EXCEPT ![p].todo = Tail(@)]
                     /\ authn' = a0
                     /\ UNCHANGED <<streams, methods, tracks, flushTimers>>
                ELSE SetupFail(p, st1, ch1, ss1, Tail(wire))
           ELSE SetupFail(p, strm, channels, sessions, Tail(wire))
        /\ UNCHANGED <<cur, connected, srvPlays, userRes>>

\* A PLAY reply (RTSPSession.sendPlay): when all PLAYs of the chain have
\* resolved, ontracks starts the flush interval and activate resolves; a
\* failure rejects Promise.all and runs the catch of sendSetup.
OnPlayReply(r, out, a0) ==
    LET p == r.p
    IN  /\ srvPlays' = IF out = "ok" THEN [srvPlays EXCEPT ![r.x] = @ + 1]
                       ELSE srvPlays
        /\ IF p = None
           THEN /\ wire' = Tail(wire)
                /\ authn' = a0
                /\ UNCHANGED <<procs, streams, strm, chanIdx, channels, sessions,
                               methods, tracks, flushTimers>>
           ELSE IF out = "ok"
           THEN /\ procs' = IF procs[p].plays = 1
                            THEN [procs EXCEPT ![p].plays = 0, ![p].stage = "commit"]
                            ELSE [procs EXCEPT ![p].plays = @ - 1]
                /\ flushTimers' = IF procs[p].plays = 1 THEN flushTimers + 1
                                  ELSE flushTimers
                /\ wire' = Tail(wire)
                /\ authn' = a0
                /\ UNCHANGED <<streams, strm, chanIdx, channels, sessions,
                               methods, tracks>>
           ELSE SetupFail(p, strm, channels, sessions, Tail(wire))
        /\ UNCHANGED <<cur, connected, srvNext, userRes>>

\* A keepalive reply: an error other than 501 makes the stream call
\* this.client.reconnect(), whose reset() runs at once; a reset stream has
\* no client any more and the call throws.
OnKeepaliveReply(r, out, a0) ==
    IF out \in {"ok", "e501"} \/ ~strm[r.s].live
    THEN /\ wire' = Tail(wire)
         /\ authn' = a0
         /\ UNCHANGED <<cur, procs, connected, streams, strm, chanIdx, channels,
                        sessions, methods, tracks, flushTimers, srvNext,
                        srvPlays, userRes>>
    ELSE LET q == FreeId(procs)
         IN  /\ ResetState(strm, channels)
             /\ procs' = ResetProcs([procs EXCEPT ![q] = [FreeProc EXCEPT
                                       !.k = "reconn", !.stage = "await"]],
                                    q, "reset")
             /\ wire' = Tail(wire)
             /\ UNCHANGED <<cur, connected, flushTimers, srvNext, srvPlays, userRes>>

\* A PAUSE reply: nobody looks at it.
OnPauseReply(r, out, a0) ==
    /\ wire' = Tail(wire)
    /\ authn' = a0
    /\ UNCHANGED <<cur, procs, connected, streams, strm, chanIdx, channels,
                   sessions, methods, tracks, flushTimers, srvNext, srvPlays,
                   userRes>>

\* The server answers the oldest request; a 401 to a request without
\* Authorization makes sendRequest resend it with the new authenticator.
Respond ==
    /\ Quiescent /\ connected /\ wire # <<>>
    /\ UNCHANGED sdpTracks
    /\ LET r == Head(wire)
       IN  \E out \in Outcomes(r) :
             IF out = "unauth" /\ ~r.auth
             THEN /\ authn' = TRUE
                  /\ wire' = Append(Tail(wire), [r EXCEPT !.auth = TRUE])
                  /\ UNCHANGED <<cur, procs, connected, streams, strm, chanIdx,
                                 channels, sessions, methods, tracks,
                                 flushTimers, srvNext, srvPlays, faults, userRes>>
             ELSE LET a0 == out = "unauth" \/ authn
                  IN  /\ faults' = IF out = "ok" THEN faults ELSE faults + 1
                      /\ CASE r.m \in {"OPTIONS", "DESCRIBE"} -> OnHandshakeReply(r, out, a0)
                           [] r.m = "SETUP"     -> OnSetupReply(r, out, a0)
                           [] r.m = "PLAY"      -> OnPlayReply(r, out, a0)
                           [] r.m = "KEEPALIVE" -> OnKeepaliveReply(r, out, a0)
                           [] r.m = "PAUSE"     -> OnPauseReply(r, out, a0)

\* The keepalive interval of stream s fires (one request in flight at most).
FireKeepalive(s) ==
    /\ Quiescent /\ strm[s].ka /\ connected
    /\ \A i \in DOMAIN wire : ~(wire[i].m = "KEEPALIVE" /\ wire[i].s = s)
    /\ wire' = Append(wire, Req("KEEPALIVE", None, s, strm[s].sess, authn))
    /\ UNCHANGED <<cur, procs, connected, streams, strm, chanIdx, channels,
                   sessions, authn, methods, tracks, flushTimers, srvNext,
                   srvPlays, faults, userRes, sdpTracks>>

\* Mutant: onDisconnected without its reset() call.
DisconnectNoReset ==
    /\ Quiescent /\ connected /\ faults < MaxFaults
    /\ connected' = FALSE
    /\ wire' = <<>>
    /\ faults' = faults + 1
    /\ procs' = LET d == FreeId(procs)
                IN  TransitionTo([procs EXCEPT ![d] = [FreeProc EXCEPT !.k = "disc"]],
                                 "TEARDOWN", d, "td")
    /\ UNCHANGED <<cur, streams, strm, chanIdx, channels, sessions, authn,
                   methods, tracks, flushTimers, srvNext, srvPlays, userRes,
                   sdpTracks>>

\* The socket closes: pending replies never come; RTSPClient.onDisconnected
\* calls clientSM.onDisconnected: reset() not awaited, then await
\* transitionTo(TEARDOWN) and transitionTo(INITIAL).
Disconnect ==
    /\ Quiescent /\ connected /\ faults < MaxFaults
    /\ connected' = FALSE
    /\ wire' = <<>>
    /\ faults' = faults + 1
    /\ ResetState(strm, channels)
    /\ procs' = LET ps1 == ResetProcs(procs, None, "idle")
                    d   == FreeId(ps1)
                IN  TransitionTo([ps1 EXCEPT ![d] = [FreeProc EXCEPT !.k = "disc"]],
                                 "TEARDOWN", d, "td")
    /\ UNCHANGED <<cur, flushTimers, srvNext, srvPlays, userRes, sdpTracks>>

(***************************************************************************)
(* WSPlayer.load: the transport is ready and RTSPClient.start calls        *)
(* clientSM.start(), i.e. transitionTo(OPTIONS) from INITIAL.              *)
(***************************************************************************)
Init ==
    /\ cur = "INITIAL"
    /\ procs = [p \in ProcId |-> IF p = 1 THEN Chain("OPTIONS", User) ELSE FreeProc]
    /\ wire = <<>>
    /\ connected = TRUE
    /\ streams = [t \in Tracks |-> 0]
    /\ strm = [s \in StreamId |-> NoStream]
    /\ chanIdx = 0
    /\ channels = {}
    /\ sessions = {}
    /\ authn = FALSE
    /\ methods = FALSE
    /\ tracks = 0
    /\ flushTimers = 0
    /\ srvNext = 0
    /\ srvPlays = [x \in SessionId |-> 0]
    /\ faults = 0
    /\ userRes = "pending"
    /\ sdpTracks \in Tracks

ProcStep(p) ==
    \/ ActivateOptions(p) \/ ActivateDescribe(p) \/ ActivateSetup(p)
    \/ ActivateLocal(p) \/ Commit(p)
    \/ FinishOptions(p) \/ FinishDescribe(p) \/ FinishSetup(p)
    \/ FinishTeardown(p) \/ FinishPlain(p)
    \/ AwaitTeardown(p) \/ ResetTail(p) \/ ReconnAfterReset(p)

Next ==
    \/ \E p \in ProcId : ProcStep(p)
    \/ Respond
    \/ \E s \in StreamId : FireKeepalive(s)
    \/ Disconnect

\* Promise continuations always run, and a connected server answers.
Fairness == /\ \A p \in ProcId : WF_vars(ProcStep(p))
            /\ WF_vars(Respond)

Spec == Init /\ [][Next]_vars /\ Fairness

(***************************************************************************)
(* Properties                                                              *)
(***************************************************************************)
TypeOK ==
    /\ cur \in States
    /\ procs \in [ProcId -> ProcRec]
    /\ wire \in Seq(ReqRec)
    /\ connected \in BOOLEAN
    /\ streams \in [Tracks -> StreamId \cup {0}]
    /\ strm \in [StreamId -> StrmRec]
    /\ chanIdx \in Nat /\ channels \subseteq Nat
    /\ sessions \subseteq SessionId
    /\ authn \in BOOLEAN /\ methods \in BOOLEAN /\ tracks \in 0..NTracks
    /\ flushTimers \in Nat /\ srvNext \in 0..MaxSessions
    /\ srvPlays \in [SessionId -> Nat] /\ faults \in 0..MaxFaults
    /\ userRes \in {"pending", "ok", "err"}
    /\ sdpTracks \in Tracks

\* The server accepts at most one PLAY per session: sendSetup sends one
\* PLAY per key of this.sessions, although every track's SETUP reports the
\* same session.
OnePlayPerSession == \A x \in SessionId : srvPlays[x] <= 1

\* onData only accepts RTP on a registered channel: every channel in
\* rtp_channels is the channel of a stream that this.streams still lists,
\* that is set up and not reset.  reset() forgets the channels of the
\* streams it finds in this.streams only, so a stream dropped from the map
\* or replaced in it by a later sendSetup would leave its channel behind.
ChannelOwned ==
    \A c \in channels :
        \E t \in Tracks : LET s == streams[t]
                         IN  s # 0 /\ strm[s].live /\ strm[s].up /\ strm[s].chan = c

\* A keepalive interval runs only for a live stream of this.streams:
\* reset() stops the timers of every stream it forgets, and a stream
\* whose SETUP answer comes after a reset starts none (its client is null).
KeepaliveOwned ==
    \A s \in StreamId : strm[s].ka => strm[s].live /\ \E t \in Tracks : streams[t] = s

\* Without faults the handshake of WSPlayer.load ends in STREAMS with every
\* track set up and the promise WSPlayer awaits fulfilled.
HandshakeCompletes ==
    <>[](/\ cur = "STREAMS" /\ userRes = "ok"
         /\ \A t \in 1..sdpTracks : streams[t] # 0 /\ strm[streams[t]].up)

\* currentState only moves along the transitions the constructor declares
\* (transitionTo checks the table when called, and sets currentState when
\* activate resolves).
StateChangesFollowTable ==
    [][cur' # cur => <<cur, cur'>> \in Transitions]_cur

\* When no promise chain is running and no request is pending, the client
\* rests in INITIAL or STREAMS: an error in the handshake is followed by
\* stop() and reset().
SettlesInStableState ==
    (wire = <<>> /\ \A p \in ProcId : procs[p].k = "free")
        => cur \in {"INITIAL", "STREAMS"}

\* At most one handshake (an OPTIONS, DESCRIBE or SETUP chain) runs at a
\* time, although keepalive failures of several streams call reconnect().
HandshakeExclusive ==
    Cardinality({p \in ProcId : procs[p].k = "tr"
                   /\ procs[p].to \in {"OPTIONS", "DESCRIBE", "SETUP"}}) <= 1

\* After the socket closes, onDisconnected's reset() and its TEARDOWN and
\* INITIAL transitions leave the client at rest in INITIAL, with no RTP
\* channel registered and no keepalive interval running, although the
\* promises of the requests that were in flight are never settled and
\* their chains stay suspended.
ClosedRestsInInitial ==
    <>[](~connected => /\ cur = "INITIAL" /\ channels = {}
                       /\ \A s \in StreamId : ~strm[s].ka)

\* startStreamFlush starts one flush interval; the interval of an earlier
\* session is stopped before another starts.
SingleFlushTimer == flushTimers <= 1


\* Tracks of the last DESCRIBE whose SETUP has been answered on a stream
\* that is still in this.streams.
TracksUp == Cardinality({t \in 1..tracks : streams[t] # 0 /\ strm[streams[t]].up})

HS == INSTANCE Handshake WITH MaxTracks <- NTracks, st <- cur, n <- tracks, up <- TracksUp

\* RTSPClientSM implements the abstract handshake: currentState follows the
\* state table, SETUP and STREAMS are committed only once every track of
\* the DESCRIBE is set up, and tracks are set up one by one while the
\* client is at DESCRIBE (activate of SETUP runs before currentState moves).
ImplementsHandshake == HS!Spec

=============================================================================
