---------------------------- MODULE RTPTimestamps ----------------------------
(***************************************************************************)
(* The timestamp path of one RTP payload-type stream in                    *)
(* src/demos/rtsp/rtsp.dev.js: RTPFactory.build unwraps the 32-bit RTP     *)
(* timestamp with the per-payload-type record {last, overflow};            *)
(* RTSPClientSM.onRTP rebases it on the first packet (lastTimestamp) and   *)
(* hands it to the payload parser, where NALUAsm uses it as the NAL unit's *)
(* dts and AACAsm converts it with (Math.round(t/1024) << 10).             *)
(*                                                                         *)
(* The server stamps each packet with a true, unbounded media time; the    *)
(* wire carries it modulo 2^W.  The code's width is 32 (getUint32, the     *)
(* constants 0x7fffffff and 0xffffffff, the int32 of "<<"); W scales all   *)
(* of them together so that TLC reaches several wraps.  Packets arrive in  *)
(* order (RTP interleaved on the websocket) and each one is processed to   *)
(* the end before the next (onmessage, _onData, onData and onRTP are       *)
(* synchronous), so one packet is one step.                                *)
(***************************************************************************)
EXTENDS Integers

CONSTANTS
    W,        \* width of the RTP timestamp and of JavaScript's int32 (32)
    Media,    \* the stream's media type: "video" or "audio"
    StartTs,  \* media times the server may stamp on the first packet
    Steps,    \* media-time steps between consecutive packets
    MaxTs     \* bound on the media time the server reaches

ASSUME /\ W \in Nat /\ W > 11
       /\ Media \in {"video", "audio"}
       /\ StartTs \subseteq 0..(2^W - 1)
       /\ Steps \subseteq Int /\ MaxTs \in Nat

Mod  == 2^W          \* the values getUint32 returns are 0..Mod-1
Half == 2^(W-1) - 1  \* 0x7fffffff
Wrap == 2^W - 1      \* 0xffffffff
Undef == -1          \* a payload type absent from lastTimestamp

VARIABLES
    srcTs,          \* media time of the last packet the server sent
    tsOffset,       \* RTPFactory.tsOffsets[pt]
    rtpTs,          \* rtp.timestamp after RTPFactory.build
    lastTimestamp,  \* RTSPClientSM.lastTimestamp[pt]
    dts             \* the dts the payload parser gives the frame

vars == <<srcTs, tsOffset, rtpTs, lastTimestamp, dts>>

AbsDiff(a, b) == IF a >= b THEN a - b ELSE b - a

\* Math.round(n / d) for d > 0: the nearest integer, halves rounded up.
JsRound(n, d) == (2 * n + d) \div (2 * d)

\* ToInt32: the value of x as a two's complement integer of width W.
ToInt(x) == LET m == x % Mod IN IF m >= 2^(W-1) THEN m - Mod ELSE m

\* (x << 10): the operand and the result are both taken to int32.
ShiftLeft10(x) == ToInt(ToInt(x) * 1024)

\* AACAsm.onAACFragment: ts = (Math.round(t/1024) << 10) * 90000 / rate.
\* The factor 90000/samplerate is positive and the same for every frame of
\* the stream; it does not change the order of two timestamps and is left
\* out.
AacTs(t) == ShiftLeft10(JsRound(t, 1024))

\* A plausible slip: only a forward jump counts as a wrap (no Math.abs).
WrapDetectedForward(ts, last) == last # 0 /\ ts - last > Half

\* RTPFactory.build: a wrap is assumed when a previous timestamp is set
\* (truthy) and the new one is more than 0x7fffffff away from it.
WrapDetected(ts, last) == last # 0 /\ AbsDiff(ts, last) > Half

\* A plausible slip: last keeps the timestamp before the wrap adjustment.
BuildLastBeforeWrap(raw) ==
    LET ts      == raw + tsOffset.overflow
        wrapped == WrapDetected(ts, tsOffset.last)
        out     == IF wrapped THEN ts + Wrap ELSE ts
    IN  [ts  |-> out,
         off |-> [last     |-> ts,
                  overflow |-> IF wrapped THEN tsOffset.overflow + Wrap
                                          ELSE tsOffset.overflow]]

\* RTPFactory.build: add the accumulated overflow; on a wrap add 0xffffffff
\* to the overflow and to the timestamp; remember the result as last.
Build(raw) ==
    LET ts      == raw + tsOffset.overflow
        wrapped == WrapDetected(ts, tsOffset.last)
        out     == IF wrapped THEN ts + Wrap ELSE ts
    IN  [ts  |-> out,
         off |-> [last     |-> out,
                  overflow |-> IF wrapped THEN tsOffset.overflow + Wrap
                                          ELSE tsOffset.overflow]]

\* The RTPFactory that onDescribe creates: {last: 0, overflow: 0} for the
\* payload type; no packet has been seen and timeOffset[pt] is 0 (set by
\* sendSetup before PLAY is sent).
Init ==
    /\ srcTs = Undef
    /\ tsOffset = [last |-> 0, overflow |-> 0]
    /\ rtpTs = 0
    /\ lastTimestamp = Undef
    /\ dts = 0

\* A packet stamped with media time t reaches onRTP: RTPFactory.build,
\* lastTimestamp taken from the first packet, the timestamp rebased to it
\* (timeOffset[pt] is 0), and the payload parser's timestamp: the NAL
\* unit's dts (video) or the AAC frame's ts (audio).
OnRTP(t) ==
    LET b    == Build(t % Mod)
        base == IF lastTimestamp = Undef THEN b.ts - 0 ELSE lastTimestamp
        rel  == b.ts - 0 - base
    IN  /\ t \in 0..MaxTs
        /\ srcTs' = t
        /\ tsOffset' = b.off
        /\ rtpTs' = b.ts
        /\ lastTimestamp' = base
        /\ dts' = IF Media = "video" THEN rel ELSE AacTs(rel)

NextTs == IF srcTs = Undef THEN StartTs ELSE {srcTs + d : d \in Steps}

Next == \E t \in NextTs : OnRTP(t)

Spec == Init /\ [][Next]_vars

-----------------------------------------------------------------------------

TypeOK ==
    /\ srcTs \in {Undef} \cup 0..MaxTs
    /\ tsOffset \in [last : Nat, overflow : Nat]
    /\ rtpTs \in Nat
    /\ lastTimestamp \in {Undef} \cup Nat
    /\ dts \in Int

\* RTPFactory.build keeps the timeline continuous across a wrap: when the
\* server's media time does not go back, the unwrapped rtp.timestamp does
\* not go back either.
UnwrapMonotone ==
    [][srcTs # Undef /\ srcTs' >= srcTs => rtpTs' >= rtpTs]_vars

\* The unwrapped rtp.timestamp stays within one tick per wrap of the media
\* time the server stamped (0xffffffff is added where 2^32 is due): it
\* never jumps by a whole wrap.
UnwrapWithinOneTickPerWrap ==
    srcTs # Undef => AbsDiff(rtpTs, srcTs) <= srcTs \div Mod

\* The AAC frames handed on get non-decreasing timestamps while the
\* stream's media time advances.
AacDtsMonotone ==
    [][srcTs # Undef /\ srcTs' >= srcTs => dts' >= dts]_vars

=============================================================================
