------------------------------ MODULE Handshake ------------------------------
(***************************************************************************)
(* What RTSPClientSM promises of its handshake, without promises, the      *)
(* wire or channels: the state the client reports (currentState), the      *)
(* number of tracks the DESCRIBE announced, and how many of them have a    *)
(* SETUP answered.  RTSPClient.tla is shown to implement it (run R1).      *)
(***************************************************************************)
EXTENDS Naturals

CONSTANT MaxTracks

VARIABLES
    st,   \* currentState
    n,    \* tracks of the last DESCRIBE (0 before one)
    up    \* tracks whose SETUP has been answered

vars == <<st, n, up>>

\* The state table of StateMachine.addTransition in RTSPClientSM.
Edges ==
    { <<"INITIAL", "OPTIONS">>, <<"INITIAL", "TEARDOWN">>,
      <<"OPTIONS", "DESCRIBE">>, <<"DESCRIBE", "SETUP">>,
      <<"SETUP", "STREAMS">>, <<"TEARDOWN", "INITIAL">>,
      <<"STREAMS", "TEARDOWN">>, <<"SETUP", "TEARDOWN">>,
      <<"DESCRIBE", "TEARDOWN">>, <<"OPTIONS", "TEARDOWN">> }

Init == st = "INITIAL" /\ n = 0 /\ up = 0

\* A state change along the table; streaming starts only once every
\* announced track is set up.
Move(s) ==
    /\ <<st, s>> \in Edges
    /\ s \in {"SETUP", "STREAMS"} => n >= 1 /\ up = n
    /\ st' = s
    /\ UNCHANGED <<n, up>>

\* The DESCRIBE answer fixes the track count, once per handshake.
Describe ==
    /\ st = "DESCRIBE" /\ n = 0
    /\ n' \in 0..MaxTracks
    /\ UNCHANGED <<st, up>>

\* One more track set up, in order, while the handshake is at DESCRIBE.
SetUp ==
    /\ st = "DESCRIBE" /\ up < n
    /\ up' = up + 1
    /\ UNCHANGED <<st, n>>

\* The handshake state is forgotten (reset) outside streaming.
Forget ==
    /\ st # "STREAMS"
    /\ n' = 0 /\ up' = 0
    /\ UNCHANGED st

Next == \/ \E s \in {e[2] : e \in Edges} : Move(s)
        \/ Describe \/ SetUp \/ Forget

Spec == Init /\ [][Next]_vars

=============================================================================
