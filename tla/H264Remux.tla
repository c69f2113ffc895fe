------------------------------ MODULE H264Remux ------------------------------
(***************************************************************************)
(* The H.264 path from the RTP payload parser to the media sink in         *)
(* src/demos/rtsp/rtsp.dev.js: RTSPClientSM.onRTP pushes the NAL units of  *)
(* each packet to client.sampleQueues; every flush tick of BaseClient's    *)
(* setInterval runs Remuxer.flush, which drains the queues through         *)
(* H264Remuxer.remux (GOP collection, H264Parser.parseNAL), initialises    *)
(* the track once it can decode, and afterwards takes a fragment with      *)
(* H264Remuxer.getPayload and feeds moof+mdat to MSE.                      *)
(*                                                                         *)
(* A NAL unit is abstracted to its type, its dts (the rebased RTP          *)
(* timestamp; NALU's pts defaults to its dts) and its size in slices.     *)
(* The camera sends frames at a dts step from Intervals; the packets and  *)
(* the flush ticks are macrotasks that interleave in any order, so a      *)
(* flush may find any number of frames queued.  One video track; scale   *)
(* factor 1 (Remuxer.TrackScaleFactor) and timescale 90000.               *)
(***************************************************************************)
EXTENDS Integers, Sequences, SequencesExt, MP4

CONSTANTS
    MaxFrames,     \* frames the camera sends
    Intervals,     \* dts steps between consecutive frames, 90 kHz ticks
    MaxSlices,     \* most slices (NAL units) of one frame
    InbandParams,  \* SPS/PPS precede each IDR in band (else they come in
                   \* the SDP's sprop-parameter-sets)
    GopLen,        \* frames from one IDR to the next
    Jitters,       \* delays of a frame's packets after its dts, in ticks
    FlushPeriod,   \* the flush interval: options.flush = 200 ms
    FirstTicks,    \* times of the first flush tick (the timer's phase)
    FuParts,       \* FU-A fragments per IDR slice (1: single NAL packets)
    StapParams,    \* in-band SPS and PPS travel in one STAP-A packet
    BrowserIsChrome \* navigator.userAgent names Chrome

ASSUME /\ MaxFrames \in Nat /\ MaxSlices \in Nat \ {0}
       /\ Intervals \subseteq Nat \ {0} /\ InbandParams \in BOOLEAN
       /\ GopLen \in Nat \ {0} /\ Jitters \subseteq Nat
       /\ FlushPeriod \in Nat \ {0} /\ FirstTicks \subseteq Nat
       /\ FuParts \in Nat \ {0} /\ StapParams \in BOOLEAN
       /\ BrowserIsChrome \in BOOLEAN

Undef == -1   \* undefined timestamps; every dts of the model is >= 0
NoGop == -1   \* lastGopDTS's initial -99999999999999, below every dts

VARIABLES
    sent,      \* frames the camera has started to send
    srcDts,    \* dts of the camera's current frame
    pending,   \* RTP packets of the current frame not yet received
    fuNalu,    \* NALUAsm.fragmented_nalu (NoUnit for null)
    gopPhase,  \* where in its GOP the camera's first frame lies
    arrAt,     \* when the current frame's packets arrive (90 kHz ticks)
    flushAt,   \* when the flush timer fires next
    queue,     \* client.sampleQueues[PayloadType.H264]
    trk,       \* the H264Remuxer with its H264Parser and mp4track.len
    fed,       \* moof+mdat fragments fed to MSE so far
    frag,      \* the last fragment fed: baseMediaDecodeTime, samples, mdat size
    prevEnd,   \* where the fragment before it ended on MSE's timeline
    firstKey   \* the first sample fed to MSE was a keyframe

vars == <<sent, srcDts, pending, fuNalu, gopPhase, arrAt, flushAt, queue,
          trk, fed, frag, prevEnd, firstKey>>

Unit(kind, d) == [kind |-> kind, dts |-> d, size |-> 1]
NoUnit == [kind |-> "none", dts |-> Undef, size |-> 0]

AbsVal(x) == IF x < 0 THEN -x ELSE x
Min2(a, b) == IF a < b THEN a ELSE b
Max2(a, b) == IF a > b THEN a ELSE b

\* Math.round(n / d) for d > 0: the nearest integer, halves rounded up.
JsRound(n, d) == (2 * n + d) \div (2 * d)

\* "if (this.nextDts)": undefined and 0 are false.
Truthy(x) == x # Undef /\ x # 0

SumSizes(s) == FoldLeft(LAMBDA acc, x : acc + x.size, 0, s)
SumInts(s)  == FoldLeft(LAMBDA acc, x : acc + x, 0, s)

ByDts(a, b) == a.dts < b.dts

\* The decode time MSE gives to sample i of fragment f: the moof's
\* baseMediaDecodeTime plus the durations of the samples before it.
DecodeTime(f, i) == f.base + SumInts([j \in 1..(i - 1) |-> f.smp[j].dur])
FragEnd(f) == DecodeTime(f, Len(f.smp) + 1)

-----------------------------------------------------------------------------
(* NALUAsm.onNALUFragment: RTP payload to NAL units                         *)

\* An RTP payload: a single NAL unit, a STAP-A with several, or one FU-A
\* fragment (start and end bits, the fragment's share of the NAL unit as
\* a one-sized Unit of the original type, which is the FU header's type).
Single(u)        == [pt |-> "single", nals |-> <<u>>, fs |-> FALSE, fe |-> FALSE]
StapA(us)        == [pt |-> "stap", nals |-> us, fs |-> FALSE, fe |-> FALSE]
FuA(u, st, en)   == [pt |-> "fu", nals |-> <<u>>, fs |-> st, fe |-> en]

\* A plausible slip: the start fragment's data is appended a second time.
ParseFUAppendStart(p, fu) ==
    LET x  == p.nals[1]
        f1 == IF p.fs THEN x ELSE fu
        ok == f1 # NoUnit /\ f1.kind = x.kind
        f2 == IF ok THEN [f1 EXCEPT !.size = @ + x.size] ELSE f1
    IN  IF ok /\ p.fe THEN [units |-> <<f2>>, fu |-> NoUnit]
        ELSE [units |-> <<>>, fu |-> f2]

\* parseFragmentationUnit: a start fragment opens a new NALU with the
\* packet's dts; a fragment of the open NALU's type appends its data
\* unless it is the start; the end fragment returns the NALU and clears
\* fragmented_nalu.  A fragment of another type is dropped (null).
ParseFU(p, fu) ==
    LET x  == p.nals[1]
        f1 == IF p.fs THEN x ELSE fu
        ok == f1 # NoUnit /\ f1.kind = x.kind
        f2 == IF ok /\ ~p.fs THEN [f1 EXCEPT !.size = @ + x.size] ELSE f1
    IN  IF ok /\ p.fe THEN [units |-> <<f2>>, fu |-> NoUnit]
        ELSE [units |-> <<>>, fu |-> f2]

\* onNALUFragment: types 1-23 are single NAL units, STAP-A yields every
\* aggregated unit (parseAggregationPacket), FU-A goes through
\* parseFragmentationUnit.
OnNALUFragment(p, fu) ==
    CASE p.pt = "single" -> [units |-> p.nals, fu |-> fu]
      [] p.pt = "stap"   -> [units |-> p.nals, fu |-> fu]
      [] p.pt = "fu"     -> ParseFU(p, fu)

-----------------------------------------------------------------------------
(* H264Parser.parseNAL                                                      *)

IsSlice(u) == u.kind \in {"IDR", "NDR"}

\* firstFound is set by the first keyframe (NALU.isKeyframe: an IDR).
Found(r, u) == r.firstFound \/ (IsSlice(u) /\ u.kind = "IDR")

\* A plausible slip: slices are pushed before the first keyframe.
ParsePushAll(r, u) == IsSlice(u)

\* NDR and IDR are pushed once the first keyframe was seen; SPS and PPS
\* never (they are kept as the track's parameter sets).
ParsePush(r, u) == IsSlice(u) /\ Found(r, u)

\* SPS and PPS are taken once (first occurrence wins); readyToDecode turns
\* on when both are known.
ParseNAL(r, u) ==
    LET sps == r.sps \/ u.kind = "SPS"
        pps == r.pps \/ u.kind = "PPS"
    IN  [r EXCEPT !.firstFound = Found(r, u), !.sps = sps, !.pps = pps,
                  !.readyToDecode = @ \/ (u.kind \in {"SPS", "PPS"} /\ sps /\ pps)]

-----------------------------------------------------------------------------
(* H264Remuxer.remux                                                        *)

\* The GOP sorted by dts and grouped by dts; each group becomes one sample
\* whose unit is the first one with the others' data appended
\* (BaseRemuxer.groupByDts and the reduce over each group).
Coalesce(g) ==
    LET s  == SortSeq(g, ByDts)
        ds == SetToSortSeq({s[i].dts : i \in DOMAIN s}, <)
        Group(d) == SelectSeq(s, LAMBDA x : x.dts = d)
    IN  [i \in DOMAIN ds |->
            [dts  |-> ds[i], pts |-> ds[i],
             key  |-> Head(Group(ds[i])).kind = "IDR",
             size |-> SumSizes(Group(ds[i]))]]

\* A unit with a larger dts than lastGopDTS closes the GOP: its samples go
\* to this.samples (BaseRemuxer.remux) and their sizes to mp4track.len.
\* Then the unit joins the GOP if parseNAL says so.
Remux(r, u) ==
    LET close == r.lastGopDTS < u.dts
        add   == IF close THEN Coalesce(r.gop) ELSE <<>>
        g1    == IF close THEN <<>> ELSE r.gop
        r1    == [r EXCEPT !.samples = @ \o add, !.len = @ + SumSizes(add),
                           !.lastGopDTS = IF close THEN u.dts ELSE @]
    IN  [ParseNAL(r1, u) EXCEPT
            !.gop = IF ParsePush(r1, u) THEN Append(g1, u) ELSE g1]

-----------------------------------------------------------------------------
(* H264Remuxer.getPayload                                                   *)

\* lastDurations keeps the last 100 sample durations.
Last100(s) == IF Len(s) > 100 THEN Tail(s) ELSE s

\* A plausible slip: a later sample with a negative duration is kept.
DroppedFirstOnly(t, last, d) ==
    /\ last = Undef /\ Truthy(t.nextDts)
    /\ AbsVal(JsRound(d - t.nextDts, 90)) >= 600 /\ d < t.nextDts

\* getPayload's two drops: the first sample of a fragment (no lastDTS
\* yet) when it lies 600 ms or more before nextDts, a later one when its
\* duration from the previous sample is negative.
Dropped(t, last, d) ==
    IF last = Undef
    THEN Truthy(t.nextDts) /\ AbsVal(JsRound(d - t.nextDts, 90)) >= 600
                           /\ d < t.nextDts
    ELSE d - last < 0

\* A plausible slip: only a sample that comes late is snapped back.
HealLateOnly(t, delta) ==
    Truthy(t.nextDts) /\ AbsVal(JsRound(delta, 90)) < 600 /\ delta > 0

\* The first sample of a fragment is snapped to nextDts when nextDts is
\* set and the gap, rounded to milliseconds, is under 600 ms and not 0.
Heal(t, delta) ==
    Truthy(t.nextDts) /\ AbsVal(JsRound(delta, 90)) < 600 /\ delta # 0

\* One turn of getPayload's while loop over the dts-sorted samples.  The
\* accumulator carries the loop's locals (lastDTS, dts, pts, the mp4
\* samples) and the fields the loop writes (len, lastDurations, firstDTS).
\* The first sample of a fragment is snapped to nextDts when it is less
\* than 600 ms away and dropped when it lies further in the past; a later
\* sample with a negative duration is dropped.
PayloadStep(t, a, s) ==
    LET pts0  == s.pts - t.initDTS
        dts0  == Min2(pts0, s.dts - t.initDTS)
        first == a.lastDTS = Undef
        delta == dts0 - t.nextDts
        heal  == first /\ Heal(t, delta)
        dts1  == IF heal THEN t.nextDts ELSE dts0
        pts1  == IF heal THEN Max2(pts0 - delta, dts1) ELSE pts0
        drop  == Dropped(t, a.lastDTS, dts0)
        dur   == dts1 - a.lastDTS
        out1  == IF first THEN a.out
                 ELSE [a.out EXCEPT ![Len(a.out)].dur = dur]
    IN  IF drop
        THEN [a EXCEPT !.dts = dts0, !.pts = pts0, !.len = @ - s.size]
        ELSE [a EXCEPT !.dts = dts1, !.pts = pts1, !.lastDTS = dts1,
                 !.out = Append(out1, [dts |-> dts1, dur |-> 0,
                                       cts |-> pts1 - dts1, key |-> s.key,
                                       sync |-> s.key, size |-> s.size]),
                 !.durs = IF first THEN @ ELSE Last100(Append(@, dur)),
                 !.firstDTS = IF first THEN Max2(0, dts1) ELSE @]

\* A plausible slip: the last sample always keeps the previous
\* lastSampleDuration.
LastDurationNoAverage(n, avg, old) == old

\* The last sample's duration: the average of lastDurations when the
\* fragment has two samples or more, else the previous one.
LastDuration(n, avg, old) == IF n >= 2 THEN avg ELSE old

\* getPayloadBase sorts this.samples by dts; the loop empties it.  With no
\* sample left the payload is null and nextDts stays; otherwise the last
\* sample's duration is the average of lastDurations (two samples or
\* more) or the previous lastSampleDuration, and nextDts follows the last
\* dts the loop saw.  The first sample is marked a sync sample when
\* nextDts was unset or the browser is Chrome.
GetPayload(t) ==
    LET Step(a, s) == PayloadStep(t, a, s)
        a   == FoldLeft(Step, [lastDTS |-> Undef, dts |-> Undef,
                               pts |-> Undef, out |-> <<>>,
                               durs |-> t.lastDurations, len |-> t.len,
                               firstDTS |-> t.firstDTS],
                        SortSeq(t.samples, ByDts))
        n   == Len(a.out)
        avg == SumInts(a.durs) \div Max2(Len(a.durs), 1)
        lsd == LastDuration(n, avg, t.lastSampleDuration)
    IN  [trk |-> [t EXCEPT !.samples = <<>>, !.len = a.len,
                           !.lastDurations = a.durs, !.firstDTS = a.firstDTS,
                           !.lastSampleDuration = lsd,
                           !.nextDts = IF n = 0 THEN @ ELSE a.dts + lsd],
         out |-> IF n = 0 THEN <<>>
                 ELSE [a.out EXCEPT ![n].dur = lsd,
                          ![1].sync = @ \/ ~Truthy(t.nextDts) \/ BrowserIsChrome]]

\* A plausible slip: track.flush() leaves mp4track.len as it is.
TrackFlushKeepLen(t) == t

\* BaseRemuxer.flush after a feed: mp4track.len and mp4track.samples are
\* cleared (seq, the moof sequence number, is left out).
TrackFlush(t) == [t EXCEPT !.len = 0]

\* getPayloadBase's guard.
CanPay(t) == t.readyToDecode /\ t.initialized /\ t.samples # <<>>

-----------------------------------------------------------------------------
(* The program                                                              *)

\* The remuxer that onTracks creates: SPS/PPS from the SDP make it ready
\* at once.
InitTrk ==
    [gop |-> <<>>, lastGopDTS |-> NoGop, firstFound |-> FALSE,
     sps |-> ~InbandParams, pps |-> ~InbandParams,
     readyToDecode |-> ~InbandParams,
     samples |-> <<>>, len |-> 0, initialized |-> FALSE, initDTS |-> Undef,
     nextDts |-> Undef, lastSampleDuration |-> 0, lastDurations |-> <<>>,
     firstDTS |-> 0]

NoFrag == [base |-> 0, smp |-> <<>>, len |-> 0]

Init ==
    /\ sent = 0 /\ srcDts = 0 /\ pending = <<>> /\ fuNalu = NoUnit
    /\ gopPhase \in 0..(GopLen - 1)
    /\ arrAt = 0 /\ flushAt \in FirstTicks
    /\ queue = <<>>
    /\ trk = InitTrk
    /\ fed = 0 /\ frag = NoFrag /\ prevEnd = Undef /\ firstKey = TRUE

Done == pending = <<>> /\ sent = MaxFrames

\* The camera encodes its next frame, a step of Intervals after the
\* previous one: every GopLen-th frame is an IDR (SPS and PPS first when
\* they are in band, in one STAP-A if StapParams), in one or more slices;
\* an IDR slice is sent in FuParts FU-A fragments, others as single NAL
\* packets.  The live stream may be joined at any point of the GOP.  The
\* frame's packets arrive Jitters after its dts, never before the
\* previous frame's (one TCP stream).
Packets(key, k, t) ==
    LET ps     == <<Unit("SPS", t), Unit("PPS", t)>>
        params == IF ~(key /\ InbandParams) THEN <<>>
                  ELSE IF StapParams THEN <<StapA(ps)>>
                  ELSE <<Single(ps[1]), Single(ps[2])>>
        slice  == IF key
                  THEN [i \in 1..FuParts |-> FuA(Unit("IDR", t), i = 1,
                                                  i = FuParts)]
                  ELSE <<Single(Unit("NDR", t))>>
    IN  params \o FlattenSeq([i \in 1..k |-> slice])

NewFrame ==
    /\ pending = <<>> /\ sent < MaxFrames
    /\ \E k \in 1..MaxSlices, j \in Jitters,
          d \in IF sent = 0 THEN {0} ELSE Intervals :
         LET t   == srcDts + d
             key == (sent + gopPhase) % GopLen = 0
         IN  /\ srcDts' = t
             /\ arrAt' = Max2(arrAt, t + j)
             /\ pending' = Packets(key, k, t)
    /\ sent' = sent + 1
    /\ UNCHANGED <<fuNalu, gopPhase, flushAt, queue, trk, fed, frag, prevEnd,
                   firstKey>>

\* The next packet reaches onRTP: payParser (RTPH264Parser, NALUAsm)
\* turns its payload into NAL units, pushed to sampleQueues when there are
\* any (no flush tick is due before it).
OnRTP ==
    LET r == OnNALUFragment(Head(pending), fuNalu)
    IN  /\ pending # <<>> /\ arrAt <= flushAt
        /\ queue' = queue \o r.units
        /\ fuNalu' = r.fu
        /\ pending' = Tail(pending)
        /\ UNCHANGED <<sent, srcDts, gopPhase, arrAt, flushAt, trk, fed, frag,
                       prevEnd, firstKey>>

\* The flush tick (the client is not paused): Remuxer.flush.  onSamples
\* drains the queue through remux.  Before initialisation, a track that is
\* ready and has samples dispatches 'ready', whose listener init() sets
\* initDTS from the first queued sample (BaseRemuxer.init with Infinity)
\* and marks the track and the remuxer initialised.  After it,
\* getPayload's fragment is fed to MSE and track.flush() clears
\* mp4track.len.  The tick is due before the next packet, or once after
\* the camera's last frame.
Flush ==
    LET r == FoldLeft(Remux, trk, queue)
        p == GetPayload(r)
        feed == r.initialized /\ CanPay(r) /\ p.out # <<>>
    IN  /\ IF Done THEN flushAt <= arrAt + FlushPeriod
                   ELSE pending # <<>> /\ flushAt <= arrAt
        /\ flushAt' = flushAt + FlushPeriod
        /\ queue' = <<>>
        /\ trk' = CASE ~r.initialized /\ r.readyToDecode /\ r.samples # <<>>
                         -> [r EXCEPT !.initDTS = r.samples[1].dts,
                                      !.initialized = TRUE]
                    [] feed -> TrackFlush(p.trk)
                    [] r.initialized /\ CanPay(r) -> p.trk
                    [] OTHER -> r
        /\ IF feed
           THEN /\ fed' = fed + 1
                /\ frag' = [base |-> p.trk.firstDTS, smp |-> p.out, len |-> p.trk.len]
                /\ prevEnd' = IF fed = 0 THEN Undef ELSE FragEnd(frag)
                /\ firstKey' = IF fed = 0 THEN p.out[1].key ELSE firstKey
           ELSE UNCHANGED <<fed, frag, prevEnd, firstKey>>
        /\ UNCHANGED <<sent, srcDts, pending, fuNalu, gopPhase, arrAt>>

Next == NewFrame \/ OnRTP \/ Flush

Spec == Init /\ [][Next]_vars

-----------------------------------------------------------------------------

Mp4Sample == [dts : Int, dur : Int, cts : Int, key : BOOLEAN, sync : BOOLEAN,
              size : Nat]

TypeOK ==
    /\ sent \in 0..MaxFrames /\ srcDts \in Nat /\ gopPhase \in 0..(GopLen - 1)
    /\ queue \in Seq([kind : {"SPS", "PPS", "IDR", "NDR"}, dts : Nat,
                      size : Nat])
    /\ trk.len \in Nat /\ trk.lastSampleDuration \in Nat
    /\ fed \in Nat /\ frag.smp \in Seq(Mp4Sample)

\* Every NAL unit NALUAsm hands to the remuxer is whole: an FU-A
\* reassembled IDR slice carries the data of all FuParts fragments, once
\* each, and the next fragmented NALU starts empty (parseFragmentationUnit
\* appends only non-start fragments and clears fragmented_nalu at the end).
NalusWhole == \A i \in 1..Len(queue) : queue[i].size = IF queue[i].kind = "IDR"
                                                     THEN FuParts ELSE 1

\* mp4track.len, the size of the next mdat, is the size of the samples
\* waiting in the track: remux adds what it pushes, getPayload subtracts
\* what it drops, track.flush() clears it after the feed.
MdatLenMatchesSamples == trk.len = SumSizes(trk.samples)

\* The first sample MSE receives is a keyframe: parseNAL drops slices
\* before the first IDR and the track is only initialised once it holds
\* samples.
StartsOnKeyframe == firstKey

\* A fragment fed to MSE never starts before the previous one ends:
\* getPayload snaps a first sample up to nextDts or drops it, so the
\* timeline never runs back.
FragmentsDoNotOverlap == fed >= 2 => prevEnd <= frag.base

\* Every sample fed to MSE lasts some time: no two video frames share a
\* decode time.
SamplesHaveDuration == \A i \in DOMAIN frag.smp : frag.smp[i].dur > 0

\* Once parseNAL has taken an SPS, parseSPS has set track.width and
\* track.height from H264Parser.readSPS; for every SPS the camera may send
\* (SpsConfigs) they are its picture's size (SpsDimensionsRecovered, §5a of
\* the README).
TrackSizedFromSps == trk.sps => SpsDimensionsRecovered


\* BaseRemuxer.getTrackID's first id: the video track is the first
\* remuxer created.
VideoTrackId == 1

\* What Remuxer.flush feeds: MP4.moof(track.seq, firstDTS, mp4track) and
\* MP4.mdat(payload) with payload the first mp4track.len bytes; seq
\* starts at 1 and track.flush() counts it up after each feed.
FragmentBytes(f, sn) ==
    Moof(sn, f.base, [id |-> VideoTrackId, samples |-> f.smp]) \o Mdat(Zeros(f.len))

\* Every moof+mdat Remuxer.flush feeds to MSE reads back as the fragment
\* getPayload made: the boxes nest and tile, trun's data_offset (computed
\* in MP4.traf from the sizes of the boxes around it) points at the first
\* byte of the mdat payload, and the mdat, sized by mp4track.len, holds
\* exactly the bytes of the samples trun lists.
FedFragmentWellFormed ==
    [][fed' # fed =>
         \A f \in {frag'}, sn \in {fed'} :
         \A bs \in {FragmentBytes(f, sn)} :
            FragmentDescribes(bs, sn, f.base, VideoTrackId, f.smp)]_vars

\* The PPS the camera sends (its bytes do not enter any size).
PpsBytes == <<104, 206, 60, 128>>

\* AudioSpecificConfigs an SDP may carry (AAC LC and HE-AAC at the usual
\* rates, mono and stereo), with what ISO/IEC 14496-3 says they mean.
AacConfigs ==
    { [prof |-> 2, sfi |-> 3, ch |-> 2, rate |-> 48000],
      [prof |-> 2, sfi |-> 4, ch |-> 2, rate |-> 44100],
      [prof |-> 2, sfi |-> 8, ch |-> 1, rate |-> 16000],
      [prof |-> 2, sfi |-> 11, ch |-> 1, rate |-> 8000],
      [prof |-> 5, sfi |-> 6, ch |-> 2, rate |-> 24000] }
AscBytes(a) == <<a.prof * 8 + a.sfi \div 2, (a.sfi % 2) * 128 + a.ch * 8>>

\* Once Remuxer.init has run, the init segment MP4.initSegment builds for
\* a track declares what its codec configuration says: for H.264 the
\* picture size of the SPS (PictureWidth, PictureHeight, through readSPS
\* in parseSPS) and the SPS and PPS in avcC, for AAC (through
\* parseAudioSpecificConfig and setConfig) the sample rate and channels
\* of the AudioSpecificConfig and the config itself in esds; every box
\* nests and tiles, tkhd and trex carry the track's id.  Remuxer.init
\* passes a NaN duration (H264Remuxer has no duration), written as 0.
TracksDeclared ==
        /\ \A c \in SpsConfigs :
             InitSegmentDescribes(
                 InitSegment(<<H264Track(VideoTrackId, SpsBytes(c), PpsBytes)>>, 0, 90000),
                 [id |-> VideoTrackId, type |-> "video", timescale |-> 90000,
                  width |-> PictureWidth(c), height |-> PictureHeight(c),
                  sps |-> <<SpsBytes(c)>>, pps |-> <<PpsBytes>>])
        /\ \A a \in AacConfigs :
             InitSegmentDescribes(
                 InitSegment(<<AacTrack(2, ParseAudioSpecificConfig(AscBytes(a)))>>, 0, 90000),
                 [id |-> 2, type |-> "audio", timescale |-> a.rate, width |-> 0,
                  height |-> 0, channelCount |-> a.ch, audiosamplerate |-> a.rate,
                  config |-> AscBytes(a)])
InitSegmentsDescribeTracks == trk.initialized => TracksDeclared

=============================================================================
