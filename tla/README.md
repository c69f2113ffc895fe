# TLA+ models of the ipchub browser player

The repository's `src/` holds two browser players that stream RTSP over a
WebSocket into Media Source Extensions:

- `src/demos/rtsp/rtsp.dev.js`, an RTSP client whose WebSocket carries RTSP
  text and interleaved RTP frames directly;
- `src/demos/wsp/free.player.1.8.js`, the same client classes behind the WSP
  proxy protocol, plus crypto libraries.

The RTSP server itself (Go) is not under `src/`. Where a model needs the
server, its behaviour is taken from `spec.md` §4.4 and marked
`spec_modelled` in `PROJECT.json`.

## 1. Survey: components, state, operations and interactions

| Component (rtsp.dev.js lines) | State | Operations | Interacts with |
|---|---|---|---|
| `StateMachine`, `State` (2799-2890) | `currentState`, the transition table | `transitionTo`: checks the table when called, runs `deactivate` then `activate`, sets `currentState` once `activate` resolves, then runs `finishTransition` | every RTSPClientSM handler |
| `RTSPClientSM` (4322-4780) | `streams`, `sessions`, `rtp_channels`, `interleaveChannelIndex`, `authenticator`, `methods`, `tracks`, `cSeq`, `shouldReconnect` | `sendOptions`/`onOptions`, `sendDescribe`/`onDescribe`, `sendSetup`/`onSetup`, `reset`, `reconnect`, `onDisconnected`, `stop`, `start`, `sendRequest`/`send` (401 retry), `onData`/`onRTP` | transport, RTSPStream, RTSPSession, the payload parser |
| `RTSPStream` (3175-3334) | `session`, `rtpChannel`, keepalive interval, `client` | `start` (SETUP, chained after the previous track), `startKeepAlive` (its failure calls `client.reconnect()`), `reset` | RTSPClientSM |
| `RTSPSession` (4159-4237) | `sessionId`, `client` | `sendPlay`, `sendPause`, `sendTeardown` (never called) | RTSPClientSM |
| `WebsocketTransport` (2695-2797) | `awaitingPromises` (FIFO), `dataQueue` | `send` (push a promise, write the socket), `onmessage` ('R': resolve the oldest promise; '$': push to `dataQueue`), `onclose` | BaseClient, RTSPClientSM.send |
| `BaseClient`, `RTSPClient` (3988-4100, 4239-4307) | `flushInterval`, `paused` | `_onData` (drains `dataQueue` with `pop()`), `startStreamFlush`, `ontracks` | Remuxer, transport |
| `WSPlayer` (4783-4862) | | `load`: builds transport, client, remuxer; `client.start().catch(errorHandler)` | everything |
| `RTP`, `RTPFactory` (3583-3691) | per payload type `{last, overflow}` | timestamp unwrap | onRTP |
| `NALUAsm` (3746-3844), `AACAsm` (3846-3943), `RTPPayloadParser` (3945-3986) | fragment in progress | FU-A/STAP reassembly, AU-header slicing | onRTP, sample queues |
| `H264Parser`, `ExpGolomb`, `NALU` (1546-2145), `AACParser` (4102-4157) | SPS/PPS, readyToDecode | parseSPS, parseNAL | remuxers |
| `Remuxer`, `BaseRemuxer`, `H264Remuxer`, `AACRemuxer` (1271-1543, 2147-2627) | sample queues, `nextDts`, `initialized` | `remux`, `getPayload`, `flush`, `init` | MSE, client flush events |
| `MP4` (277-886), `MSE`/`MSEBuffer` (887-1270) | append queue | box serialization, buffer append/cleanup | browser |
| `Url` (64-128), `SDPParser` (2892-3170), MessageBuilder (3693-3745), `MD5` (3339-3580) | none | pure parsing and formatting | handshake |

Interactions that make the client hard:

- **Promise chains as control.** Every handler runs in promise continuations.
  `finishTransition` fires the next `transitionTo` without awaiting it.
  `reset()` is async and is often called without `await` (`sendOptions`,
  `sendSetup`'s catch, `onDisconnected`). Its TEARDOWN → INITIAL transitions
  then run concurrently with whatever transition called it.
- **Timers.** Each RTSPStream owns a keepalive interval. A keepalive error
  calls `reconnect()` at any time, also in the middle of a handshake. Each
  completed SETUP phase starts a flush interval.
- **Transport.** Replies are matched to requests by arrival order only. A
  closed socket never rejects the promises that are waiting.

Hazards are listed, at the line where each one bites, in
`PROJECT.json` → `hazards`.

## 2. Plan

The modules, in order of importance:

1. **`RTSPClient.tla`** (built): the session-control layer. It covers
   StateMachine, RTSPClientSM's handshake, reset, reconnect and
   disconnect, RTSPStream's SETUP and keepalive, RTSPSession's PLAY and
   PAUSE, the FIFO transport, and the server as environment.
2. **`RTPTimestamps.tla`** (built, §4): `RTPFactory.build`'s timestamp
   unwrap, `onRTP`'s rebasing on the first packet and AACAsm's 32-bit
   timestamp.
3. **`H264Remux.tla`** (built, §5): one video track from `onRTP` to MSE:
   `parseNAL`, `H264Remuxer.remux`, `getPayload`'s `nextDts` healing,
   drops and durations, and `Remuxer.flush`'s init gating and feed.
4. **`NALUAsm`** (built, inside §5): FU-A/STAP-A reassembly is the
   payload step of `OnRTP` in `H264Remux`; AACAsm's AU-header slicing is
   still planned.
5. **`WspTransport.tla`** (built, §6): free.player's proxies, sockets,
   close handlers, seq-keyed `awaitingPromises` and the reconnect path.
6. **`Handshake.tla`** (built, §3 Runs): the abstract handshake, which
   `RTSPClient` implements without faults (`ImplementsHandshake` in the run
   `handshake`).
7. **`MSEBuffer.tla`** (built, §7): the media sink's append queue,
   quota cleanup and `updateend` chain.
8. **`H264SPS.tla`** (built, §5a): `ExpGolomb` and `H264Parser.readSPS`
   as operators, checked against an SPS writer; `H264Remux` extends it.
9. **`MP4.tla`** (built, §5b): the MP4 box builders and the AAC config
   parser as operators, checked by an ISO BMFF reader on the fragments
   and init segments `H264Remux` produces.

## 3. `RTSPClient.tla`

### State

| Variable | Code |
|---|---|
| `cur` | `currentState.name` |
| `procs` | running promise chains and suspended async functions: a `transitionTo` chain (`k = "tr"`, target `to`), the rest of `reset()` (`"reset"`), of `reconnect()` (`"reconn"`), of `onDisconnected()` (`"disc"`). `w` is the proc awaiting it (`None`: dropped promise, `User`: WSPlayer.load). `stage` is the next continuation; `"net"` waits for a reply, `"await"` for another proc. |
| `wire` | requests whose reply is pending, in `awaitingPromises` order; `p` is the chain the reply resumes |
| `streams`, `strm` | `this.streams` and the RTSPStream objects: `live` (not reset, `client` set), `ka` (keepalive interval running), `up` (SETUP done), `chan` (`rtpChannel`), `sess` |
| `channels`, `sessions`, `chanIdx`, `authn`, `methods`, `tracks` | `rtp_channels`, keys of `this.sessions`, `interleaveChannelIndex`, `authenticator` set, `methods` known, `tracks.length` |
| `flushTimers` | intervals started by `startStreamFlush` |
| `srvNext`, `srvPlays`, `sdpTracks` | the server: last session id, PLAYs it accepted per session, media blocks in its SDP |
| `faults`, `userRes` | faults caused so far, outcome of the promise `WSPlayer.load` awaits |

### Scheduling

Each proc step is one promise continuation. Ready continuations
interleave in any order. This is a superset of JavaScript's FIFO microtask
order, and it contains the order that produces the `setup_fail_table`
trace. The macrotasks are `Respond` (a socket message), `FireKeepalive` (a
timer) and `Disconnect`. They run only when no continuation is ready
(`Quiescent`).

The continuations that run when one reply arrives are taken as one step:
`send`, `sendRequest`, `RTSPStream.sendSetup`'s `.then` and `sendSetup`'s
per-track `.then`.

### Actions

- `ActivateOptions` (`sendOptions`, including its un-awaited `reset()`)
- `ActivateDescribe`
- `ActivateSetup`: `sendSetup`'s loop, which creates the streams and sends
  the first SETUP
- `ActivateLocal`: TEARDOWN, INITIAL and STREAMS
- `Commit`
- `FinishOptions`, `FinishDescribe`, `FinishSetup`, `FinishTeardown`,
  `FinishPlain`
- `AwaitTeardown`, `ResetTail`: the rest of `reset()` and
  `onDisconnected()`
- `ReconnAfterReset`
- `Respond`: the reply to the oldest request. It dispatches to
  `OnHandshakeReply`, `OnSetupReply`, `OnPlayReply`, `OnKeepaliveReply` or
  `OnPauseReply`. A 401 to a request without Authorization is resent
  (`sendRequest`'s catch).
- `FireKeepalive`
- `Disconnect`

`SetupFail` is `sendSetup`'s catch: `stop()` sends PAUSE per session, then
`reset()` runs without being awaited.

### Faults

`MaxFaults` bounds them. Each of the following uses one:

- an error status;
- a stale 401 to a request that carried Authorization;
- an SDP without media;
- a 501 reply to a keepalive;
- a socket close.

### Runs

| Run | cfg | Bounds | Checks | Result |
|---|---|---|---|---|
| handshake | `R1_handshake.cfg` | no faults, SDP with 1-3 tracks, 401 challenge on | `TypeOK`, `HandshakeCompletes`, `ImplementsHandshake` | pass (221 states) |
| faults | `R2_faults.cfg` | 3 faults, 1-3 tracks, PAUSE supported | `OnePlayPerSession`, `ChannelOwned`, `KeepaliveOwned`, `ClosedRestsInInitial` | pass (~160k states) |
| setup_fail_table | `V1_setup_fail_table.cfg` | 1 fault, 1-2 tracks | `StateChangesFollowTable` | violation |
| describe_error_stuck | `V2_describe_error_stuck.cfg` | 1 fault | `SettlesInStableState` | violation |
| double_handshake | `V3_double_reconnect.cfg` | 1 fault | `HandshakeExclusive` | violation |
| flush_timers | `V4_flush_timers.cfg` | 1 fault | `SingleFlushTimer` | violation |

What the runs show:

- **handshake.** Without faults, the chain of fire-and-forget transitions
  always reaches STREAMS with every track set up, and the caller's promise
  is fulfilled. The 401 challenge and retry are included.
  `ImplementsHandshake` checks the refinement
  `INSTANCE Handshake WITH st <- cur, n <- tracks, up <- TracksUp`.
  `Handshake.tla` is the abstract promise of the handshake:
  - `currentState` moves only along the constructor's table;
  - SETUP and STREAMS are committed only once every track of the DESCRIBE
    is set up;
  - tracks are set up one at a time while the client is still at DESCRIBE,
    because `activate` of SETUP runs before `currentState` moves;
  - the handshake state may be forgotten (`reset()`) outside STREAMS.

  The refinement holds without faults. With faults it fails at the
  TEARDOWN → SETUP commit that `setup_fail_table` reports. That commit
  reaches SETUP with no track set up, so it is the same finding, and
  `faults` does not check the refinement.
- **faults.** Under every interleaving of up to three faults:
  - every registered RTP channel is the channel of a live, set-up stream
    that `this.streams` still lists (`ChannelOwned`), so no stream left
    behind by a reset or replaced by a later `sendSetup` keeps its channel;
  - every running keepalive interval belongs to a live stream that
    `this.streams` lists (`KeepaliveOwned`);
  - no session receives two PLAYs (`OnePlayPerSession`; it is checked
    here only, since this run includes every fault-free behaviour of
    `handshake`);
  - once the socket has closed, the client eventually rests in INITIAL
    with no RTP channel registered and no keepalive running
    (`ClosedRestsInInitial`, a `<>[]` property under the fairness below):
    `onDisconnected`'s `reset()` and its TEARDOWN and INITIAL transitions
    always run to the end. The promises of requests in flight at the close
    are never settled; nothing awaits them afterwards, so no property is
    stated about them.

  With two tracks, two keepalive failures cannot start two reconnects: the
  first `reset()` resets both streams, so the second stream's callback
  finds `client == null` and throws.
- **The violation runs.** Each is a disagreement between the code and
  `spec.md`, recorded in `PROJECT.json` → `findings`:
  - `setup_fail_table`: a failed SETUP makes the client move
    TEARDOWN → SETUP and end in STREAMS with nothing set up.
  - `describe_error_stuck`: a DESCRIBE error leaves it idle in OPTIONS,
    with no cleanup.
  - `double_handshake`: a keepalive failure during the SETUP phase starts
    a second handshake beside the first.
  - `flush_timers`: a reconnect leaves two flush intervals running.

### Bounds

The bounds are as follows:

- **Slots.** `MaxProcs`, `MaxStreams` and `MaxSessions` are slots, not
  limits of the code. The chosen values are never exhausted:
  - a full slot table makes `FreeId`'s CHOOSE fail, and TLC reports that
    as an error rather than cutting behaviours;
  - `TypeOK`, checked in `handshake`, bounds the server's session
    counter; `faults` leaves it out (it would repeat that check), and
    `MaxSessions = 4` there is above the sessions three faults create
    (the SETUP of each attempt opens one).
- **Tracks.** `NTracks = 3` covers one session shared by several SETUPs,
  and a failure of the middle track.
- **Keepalives.** One keepalive per stream is in flight at most. The
  30 s interval is much longer than a reply, so a stream's next keepalive
  fires after its previous reply.

### Fairness

`WF` holds on every proc step, because promise continuations always run.
It also holds on `Respond`, because a connected server answers. Keepalive
timers need no fairness for `HandshakeCompletes` or `ClosedRestsInInitial`.

## 4. `RTPTimestamps.tla`

One payload type's timestamp path. A step is one packet through
`onData` → `onRTP` → `RTPFactory.build` → the payload parser: all of them
are synchronous, and `BaseClient._onData` is called by a synchronous
`dispatchEvent` for each frame, so its `pop()` never sees more than one
queued frame.

- **State.** `srcTs` is the media time the server stamped (unbounded; the
  wire carries it modulo `2^W`). `tsOffset` is `tsOffsets[pt]`,
  `rtpTs` the unwrapped `rtp.timestamp`, `lastTimestamp` is
  `lastTimestamp[pt]`, `dts` the timestamp the payload parser hands on.
- **Width.** `W` stands for 32 everywhere it occurs: `getUint32`,
  `0x7fffffff` (`Half`), `0xffffffff` (`Wrap`) and the int32 of `<<`
  (`ToInt`). `W = 12` lets TLC go through three wraps.
- **Actions.** `OnRTP(t)` for the next packet's media time `t`;
  `Steps` are the media-time steps between packets.

Runs:

- **unwrap** (pass): through three wraps with in-order, increasing
  timestamps the unwrapped timeline never goes back (`UnwrapMonotone`)
  and is at most one tick per wrap away from the media time
  (`UnwrapWithinOneTickPerWrap`). The tick per wrap is a real
  discrepancy: `build` adds `0xffffffff`, not `2^32`. It is left as the
  invariant's slack because it is harmless at 90 kHz.
- **B-frames** (not a run): with a negative step in `Steps`, TLC finds
  `UnwrapWithinOneTickPerWrap` violated: a step back just after a wrap is
  taken as another wrap. spec.md leaves reordering across a wrap open, so
  this stays a hazard.
- **aac_int32** (violation): `(Math.round(t/1024) << 10)` overflows int32
  after `2^31` ticks (about 12.4 h at 48 kHz); the AAC timeline then goes
  negative. The factor `90000/samplerate` is left out because it does not
  change the order of two timestamps.

## 5. `H264Remux.tla`

One H.264 track from the packets to the fragments MSE receives.

- **Environment.** `NewFrame` is the camera: frames `Intervals` apart,
  every `GopLen`-th an IDR (preceded by SPS and PPS when `InbandParams`),
  split into up to `MaxSlices` slices, the stream joined at any phase of
  the GOP. `Packets` sends the parameter sets in one STAP-A when
  `StapParams` and each IDR slice in `FuParts` FU-A fragments. The
  frame's packets arrive `Jitters` after its dts and never
  before the previous frame's (one TCP stream).
- **Time.** `arrAt` is when the current frame's packets arrive, and
  `flushAt` the next tick of `startStreamFlush`'s interval
  (`FlushPeriod`, 200 ms = 18000 ticks of 90 kHz by default). A packet
  is delivered (`OnRTP`) only when no tick is due before it; the tick
  (`Flush`) runs before the next packet that arrives after it.
- **Actions.** `OnRTP` passes the packet's payload through
  `OnNALUFragment` (`NALUAsm.onNALUFragment`: single NAL, STAP-A, or
  `ParseFU` for FU-A, whose open NALU is the variable `fuNalu`,
  `fragmented_nalu`) and appends the units it returns to `sampleQueues`. `Flush` is
  `Remuxer.flush`: `onSamples` runs every queued unit through
  `H264Remuxer.remux` (`Remux`, which closes a GOP on a larger dts,
  coalesces slices of one dts, and adds to `mp4track.len`, then
  `parseNAL`), then either dispatches `ready`, whose `init()` sets
  `initDTS`, or calls `getPayload` and, when it yields a payload, feeds
  the fragment and calls `track.flush()`.
- **getPayload.** `PayloadStep` is one turn of its loop: the first sample
  of a fragment is snapped to `nextDts` (`Heal`) or dropped (`Dropped`)
  when it lies 600 ms or more in the past; a later sample with a negative
  duration is dropped; durations go into `lastDurations` (`Last100`).
  `LastDuration` is the average-or-previous rule for the last sample.
- **Browser.** `BrowserIsChrome` is the code's `chrome` test: on Chrome
  (and whenever `nextDts` is unset) `getPayload` marks the first sample
  of every fragment as a sync sample.
- **Observations.** `fed`, `frag` (the last fragment's `tfdt` base,
  samples with their sync flags, and `mp4track.len`), `prevEnd` (where the fragment before it ended) and `firstKey`
  record what MSE received; the code does not keep them.

Runs:

- **remux** (pass, 821k states, about 1.7 min, about 3 min with TLC's
  coverage report): frames 40 ms or 60 ms
  apart (variable frame rate), two slices per frame, in-band SPS/PPS in
  a STAP-A, IDR slices in two FU-A fragments, 20 ms of jitter, two flush
  phases. Five properties hold:
  - `mp4track.len` always equals the size of the queued samples
    (`MdatLenMatchesSamples`);
  - every NAL unit handed to the remuxer is whole: a reassembled IDR
    slice holds each of its fragments once (`NalusWhole`);
  - the first sample MSE receives is a keyframe (`StartsOnKeyframe`);
  - every fed sample has a positive duration (`SamplesHaveDuration`);
  - consecutive fragments never overlap on MSE's timeline
    (`FragmentsDoNotOverlap`), because `nextDts` healing snaps early and
    late fragments alike.

  The run also checks `TrackSizedFromSps`: once `parseNAL` has taken
  the SPS, the track's size is the one `readSPS` recovers for every SPS
  of §5a (`SpsDimensionsRecovered`, evaluated once, since it is
  constant). Two properties read the bytes of §5b back:
  - every moof+mdat `Remuxer.flush` feeds reads back as the fragment
    `getPayload` made (`FedFragmentWellFormed`, an action property
    checked on the steps that feed): the boxes nest and tile, the
    sequence number, track and `tfdt` are right, `trun`'s
    `data_offset` (the sum of box sizes `MP4.traf` adds up) lands on the
    first byte of the mdat payload, each sample's duration, size, sync
    flag and composition offset are in `trun`, `sdtp` agrees with it,
    and the mdat holds exactly the samples' bytes;
  - once the track is initialized, the init segment `MP4.initSegment`
    builds for the video track of each of the 480 SPSs of §5a, and for
    the AAC track of five AudioSpecificConfigs (LC at 48, 44.1, 16 and
    8 kHz, HE-AAC at 24 kHz), reads back as that track: ids, timescale,
    handler, the size in `tkhd` and `avc1`, `avcC`'s profile bytes and
    parameter sets, `mp4a`'s channels and rate and the `esds`
    descriptors around the config (`InitSegmentsDescribeTracks`, a
    constant evaluated once).
- **low_fps_duration** (violation): at 5 fps every 200 ms flush carries a
  single sample, `lastSampleDuration` is never set from an average, and
  every sample is fed with duration 0.

Bounds: `MaxFrames` = 7 crosses a GOP boundary of 5 and spans two or
three flushes (`low_fps_duration` uses 8 frames at 5 fps, single NAL
packets);
two `FirstTicks` give the two phases of the flush interval against the
frame clock. Time is bounded by `MaxFrames`, so no deadlock check is
meaningful after the last frame (`CHECK_DEADLOCK FALSE`: the stream
ends). No fairness is assumed; the properties are invariants.

## 5a. `H264SPS.tla`

`H264Parser.readSPS` (rtsp.dev.js 1979-2132) and the `ExpGolomb` reader
under it (1546-1675) as pure operators. The track's width and height come
from here (`parseSPS`), and nothing else checks them.

- **Reader.** `ExpGolomb` keeps a 32-bit word and reloads it from the
  data. For reads inside the data this is a cursor over the bit string,
  so every reader operator (`ReadBits`, `SkipBits`, `SkipLZ`, `ReadUEG`,
  `ReadEG`, ...) takes the bits and the cursor and returns the value and
  the new cursor. A read that runs past the end is `Thrown` (`loadWord`
  throws 'no bytes available').
- **readSPS.** `ReadSPS` runs the code's statements in order as a small
  interpreter: the parser state (`ParserStates`) holds the cursor, the
  values the later statements use (picture size, crop offsets, sample
  aspect ratio, loop counters) and `pc`, the next group of statements.
  Each group is one step operator, with the code's branches: `HeaderStep`
  (the profiles of `HighProfiles` go on to `ChromaStep`: chroma format,
  the separate-plane flag for 4:4:4, bit depths, the scaling matrix flag
  with 8 or 12 lists); `ListStep`, one turn of the loop over the lists,
  where `SkipScalingList` reads deltas (`ScalingIteration`) until
  `nextScale` is 0 (`JsMod` is JavaScript's `%`); `FrameNumStep` with POC
  type 0, 1 (`Poc1Step`, then `CycleStep` per cycle entry) or 2;
  `SizeStep`; `FrameStep` (frame/field coding); `CropStep`; `VuiStep`,
  `AspectStep` (`SarTable`, idc 255 with explicit sizes), `SignalStep`
  and `TimingStep` for the skipped VUI fields. The interpreter stops at
  the end or at the first read past the data; `SpsResult` is the return
  statement's width and height.
- **Reference.** A writer of the H.264 syntax (7.3.2.1.1, E.1.1) produces
  the NAL unit for each of 480 parameter sets (`SpsConfigs`): baseline,
  main, high with and without scaling lists (16-entry lists read in full,
  64-entry lists that end early after 21 deltas), high 4:4:4 with 12
  lists; the three POC types; 1080p cropped from 1088, 720p, interlaced
  PAL with and without horizontal cropping; six VUIs. It inserts the
  emulation prevention bytes of 7.4.1, which `readSPS` does not remove;
  240 of the inputs carry one (in the timing fields).
- **Property.** `SpsDimensionsRecovered`: for every input, `readSPS`
  does not throw and returns the width and height of the picture
  (`PictureWidth`, `PictureHeight`, the formulas of spec.md's parseSPS).
  It is checked in the run `remux` through `TrackSizedFromSps`.

Bounds. The inputs cover every branch of `readSPS` before the size and
every VUI field it skips. Two limits: `SarTable`'s 18/11 is left out,
because the code's double arithmetic rounds a few widths up by one pixel
(listed as a hazard) and the model computes exactly; and no 64-entry list
is read in full, because TLC's recursion depth would overflow on it. The
16-entry lists read all 16 deltas, and a 64-entry list reads past 16, so
the 16/64 choice is still exercised.

## 5b. `MP4.tla`

The `MP4` class (rtsp.dev.js 277-886) as operators from tracks to bytes,
with the inputs it is given: `AACParser.parseAudioSpecificConfig` and
`SampleRates` (4102-4144), `AACRemuxer.setConfig`'s mp4track
(`AacTrack`) and `parseSPS`/`parsePPS`'s (`H264Track`, through
`ReadSPS` of §5a). The class holds no state after `MP4.init`, so the
module has no variables; `H264Remux` extends it, and its
`FragmentBytes` is the `MP4.moof(...)`, `MP4.mdat(pay)` pair
`Remuxer.flush` feeds.

- **Boxes.** `Box` is `MP4.box` (size, type, payloads). Each builder is
  one operator: `Mfhd`, `Traf` (with `tfhd`, `tfdt` and the `trun`
  offset it adds up), `Trun`/`TrunEntry`, `Sdtp`, `Moof`, `Mdat`;
  `Ftyp`, `Mvhd`, `Trak` (duration 0 becomes 0xffffffff, -1 in TLC's
  32-bit integers), `Tkhd`, `Mdia`, `Mdhd`, `Hdlr`, `Minf`, `Stbl`,
  `Stsd`, `Avc1` (with `avcC`, profile bytes taken from the
  length-prefixed SPS array), `Mp4a`, `Esds`, `Mvex`, `Trex`, `Moov`,
  `InitSegment`. Bytes are written as the code writes them (`ByteOf` is
  `(x >> k) & 0xff`); fixed fields no reader looks at are kept by their
  length, as zeros.
- **Reference.** An ISO BMFF reader that is not repository code
  (`BoxesIn`, `Children`, `FragmentDescribes`, `InitSegmentDescribes`
  with `AvcCDescribes`, `Avc1Describes`, `Mp4aDescribes`) walks the
  bytes as a demuxer would: boxes must tile their parent exactly.
- **What it finds.** Nothing is wrong in the layouts checked. Two
  numeric limits are listed as hazards: `mp4a` writes the sample rate in
  16 bits, so 88.2 and 96 kHz AAC are declared with a wrong rate (the
  reader rejects the 96 kHz init segment; the run's configs stop at
  48 kHz), and `tfdt` version 0 wraps after 2^32 ticks (about 13 h at
  90 kHz), far beyond the run's bounds.

## 6. `WspTransport.tla`

The WSP transport of `free.player.1.8.js` and the client glue above it.

- **State.** Per proxy: the `readyState` of its control and data sockets
  (`ctrl`, `data`), whether INIT was answered (`ctrlMsg`), a close event
  queued on each socket (`ctrlEv`, `dataEv`), the `onclose` installed on
  each (`"disc"` = `onDisconnect`, `"resolve"` = `close()`'s resolver,
  `"null"`), `proxy.connect()`'s outcome (`conn`) and the seqs of its
  `awaitingPromises`. Per transport: `this.proxies` (`listed`), the proxy
  `this.ready` waits on (`readyP`) and pending reconnect timeouts
  (`timers`). Per client: `BaseClient.connected`, `shouldReconnect`, the
  handshake (`hs`, `step`) and the one request in flight (`req`).
- **Events are separate steps.** A lost connection (`Drop`) fails both
  sockets and queues their close events; each event (`CtrlClosed`,
  `DataClosed`) later runs the `onclose` installed at that time, as the
  browser's task queue does.
- **Requests.** `Send` reads `this.ready`; `SendGo` is the continuation
  after the await: `WebsocketTransport.send` on the proxy listed now, and
  `WebSocketProxy.send`, which closes a proxy whose control socket is not
  OPEN. A request is its seq; what it says is `RTSPClient.tla`'s concern.
  The split over-approximates: when `this.ready` has already settled,
  JavaScript resumes `send` in a microtask, before any timer, so a
  reconnect cannot really run between `Send` and `SendGo` then. The
  violation of `wsp_no_reconnect` does not use such a step.
- **Fairness.** Weak fairness on every step but `Drop`: promise
  continuations and queued events run, timers fire, a reachable server
  answers. Connection losses are bounded by `MaxDrops`.

Run:

- **wsp_no_reconnect** (violation): `DropLeadsToOnline` says that a lost
  connection is followed by the player being online again (spec §4.4 and
  §5: a disconnect triggers the timed reconnect). `onDisconnect` calls
  `disconnect_handler(this)` with the proxy, whose `code` is undefined, so
  the reconnect timeout is never scheduled. With the handler given the
  event's code, the property still fails: a request that awaited the old
  `ready` sends on the new, still connecting proxy, and `send` closes it.
  Both paths are listed as hazards.

## 7. `MSEBuffer.tla`

One `MSEBuffer` (`rtsp.dev.js` 887-1120): the queue that `MSE.feed`
fills, the `SourceBuffer` it appends to, and the quota cleanup cycle.

- **State.** The buffer is one record `m`:
  - `queue`, `cleaning` and `cleanRanges` are the object's own fields;
  - `updating`, `op` and `buf` (the buffered seconds) are the
    `SourceBuffer`'s;
  - `ct` is the video's `currentTime`;
  - `err`, `stopped` and `overflow` record a media error, the client
    stopped by `Remuxer.mseClose`, and the RangeError of the quota
    recursion;
  - `log` lists what reached `appendBuffer`.

  `nFed` counts `MSE.feed` calls and `dead` marks `MSE.reset`.
- **Data.** Media time is in whole seconds. `Remuxer.initMSE` feeds the
  init segment, and each later flush feeds `[moof, mdat]` of the next
  second. The browser's `buffered` ranges are the maximal runs of `buf`
  (`Ranges`).
- **Actions.** Each handler is one step. The calls it makes are
  operators on the record: `FeedNext`, `DoAppend`, `QuotaFail`
  (`unshift` plus `initCleanup`), `CleanRanges`, `DoCleanup` and
  `AfterUpdate` (the `updateend` listener). The actions are:
  - `Feed`: `MSE.feed` → `MSEBuffer.feed`;
  - `UpdateEnd` and `AppendError`: the browser ends an operation;
  - `Play`: the video plays a buffered second;
  - `Destroy`: `MSE.reset`.
- **Quota.** `appendBuffer` throws `QuotaExceededError` when `Quota`
  seconds are buffered. When `initCleanup` finds nothing to remove,
  `doCleanup`/`feedNext` call `doAppend` again on an unchanged buffer,
  and the recursion can only end in a RangeError. The model marks this
  `overflow` instead of recursing.
- **Fairness.** `WF` holds on `UpdateEnd`: the browser completes every
  append and removal it starts. Playback is not fair, because the video
  may be paused.

Run **mse** (pass, 2.2k states): 10 segments, a quota of 4 s.
`CHECK_DEADLOCK FALSE`: the stream ends after the last feed. Three
properties hold:

- `FifoDelivery`: until an error stops the client, what was appended
  followed by what is queued is exactly what was fed. This holds across
  quota requeues and cleanups.
- `PositionBuffered`: the video is never left in a hole in front of
  buffered media. A cleanup may remove the media at the position, and
  the `updateend` listener then moves the position to the buffer's start.
- `QueueDrains`: every queued segment is eventually appended, unless the
  buffer is destroyed, stopped, or in the quota recursion.

TLC reaches the quota recursion (`overflow`), for example with the video
still at second 0 when the buffer is full. Every later flush then throws
again and the queue never drains. `spec.md` (§ error taxonomy, sink
errors) expects "a buffer-cleanup-then-retry cycle". The project's runs
are at their limit, so this is recorded as a hazard
(`rtsp.dev.js:1100`), not as a violation run. `QueueDrains` exempts the
state by name.

Bounds: 10 segments against a quota of 4 give repeated quota failures,
both with the video ahead of the buffer's start (a cleanup) and at its
start (the recursion). The buffer never splits into two ranges, because
appends arrive in order and removals take a prefix. Not modelled: the
`abort` listener, `MSE.play`, `resetBuffers` (never called) and the
`sourceopen` wiring.

## 8. Not modelled

These parts are not modelled, each for the reason given:

- **Pure I/O or formatting:**
  - MessageBuilder;
  - the MSE browser API (it is the environment of §7);
  - the UI.
- **Out of scope (spec §1):** MD5 and the wsp crypto libraries (ASN1,
  BigInteger, RSA, JSEncrypt).
- **Not yet modelled.** These parts come later, in the order of §2:
  - AACAsm's AU-header slicing and AACRemuxer's remux and getPayload
    (its mp4track and `setConfig` are in §5b);
  - NALUAsm under packet loss or across a reconnect (the model's packets
    come over one lossless TCP session; the `payParser` that is never
    reset on reconnect, `rtsp.dev.js:4341`, is listed as a hazard);
  - the WSP text format and the RSA encryption of requests (string and
    crypto work, no control);
  - the text parsers (Url, SDP, RTSP messages), `readSliceType` and the
    `avc1.PPCCLL` codec string of `parseSPS` (hex formatting).
- **Time.** Time is modelled only through the order of events. The
  keepalive period bug (`rtsp.dev.js:3302`) is listed as a hazard without
  a property.
