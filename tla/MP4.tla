-------------------------------- MODULE MP4 ---------------------------------
(***************************************************************************)
(* The ISO BMFF serializer of src/demos/rtsp/rtsp.dev.js (class MP4): the  *)
(* init segment (ftyp+moov) Remuxer.init feeds to MSE once per track, and  *)
(* the moof+mdat Remuxer.flush feeds per fragment.  A byte string is a     *)
(* sequence of integers in 0..255.  The constant tables of MP4.init (the   *)
(* hdlr, dref, vmhd, ... payloads and the fixed parts of mvhd, tkhd and    *)
(* avc1) are abstracted to zero runs of their true lengths: only their     *)
(* lengths enter a box size or an offset.                                  *)
(*                                                                         *)
(* The reference at the end reads the bytes back as ISO/IEC 14496-12       *)
(* defines them; it is not code of the repository.                         *)
(***************************************************************************)
EXTENDS Integers, Sequences, SequencesExt, Bitwise, H264SPS

\* Uint8Array stores ToUint8 of what it is given: (x >> k) & 0xff and
\* x >> k alike are the k-th to (k+7)-th bits of the 32-bit x.
ByteOf(x, k) == (x \div 2^k) % 256
Be16(x) == <<ByteOf(x, 8), ByteOf(x, 0)>>
Be32(x) == <<ByteOf(x, 24), ByteOf(x, 16), ByteOf(x, 8), ByteOf(x, 0)>>
Zeros(n) == [i \in 1..n |-> 0]

\* MP4.init: MP4.types[t] holds the char codes of t.
FourCC ==
    [ftyp |-> <<102, 116, 121, 112>>, moov |-> <<109, 111, 111, 118>>,
     mvhd |-> <<109, 118, 104, 100>>, trak |-> <<116, 114, 97, 107>>,
     tkhd |-> <<116, 107, 104, 100>>, mdia |-> <<109, 100, 105, 97>>,
     mdhd |-> <<109, 100, 104, 100>>, hdlr |-> <<104, 100, 108, 114>>,
     minf |-> <<109, 105, 110, 102>>, vmhd |-> <<118, 109, 104, 100>>,
     smhd |-> <<115, 109, 104, 100>>, dinf |-> <<100, 105, 110, 102>>,
     dref |-> <<100, 114, 101, 102>>, stbl |-> <<115, 116, 98, 108>>,
     stsd |-> <<115, 116, 115, 100>>, avc1 |-> <<97, 118, 99, 49>>,
     avcC |-> <<97, 118, 99, 67>>,    btrt |-> <<98, 116, 114, 116>>,
     mp4a |-> <<109, 112, 52, 97>>,   esds |-> <<101, 115, 100, 115>>,
     stts |-> <<115, 116, 116, 115>>, stsc |-> <<115, 116, 115, 99>>,
     stsz |-> <<115, 116, 115, 122>>, stco |-> <<115, 116, 99, 111>>,
     mvex |-> <<109, 118, 101, 120>>, trex |-> <<116, 114, 101, 120>>,
     moof |-> <<109, 111, 111, 102>>, mfhd |-> <<109, 102, 104, 100>>,
     traf |-> <<116, 114, 97, 102>>,  tfhd |-> <<116, 102, 104, 100>>,
     tfdt |-> <<116, 102, 100, 116>>, trun |-> <<116, 114, 117, 110>>,
     sdtp |-> <<115, 100, 116, 112>>, mdat |-> <<109, 100, 97, 116>>]

\* MP4.box(type, ...payload): the size (8 plus every payload's length)
\* big-endian, the type, then the payloads one after the other.  (The
\* payloads are joined once and bound by \in, so that TLC builds the
\* nested boxes once rather than at every use.)
Box(type, payload) ==
    CHOOSE box \in {Be32(8 + Len(body)) \o FourCC[type] \o body :
                        body \in {FlattenSeq(payload)}} : TRUE

-----------------------------------------------------------------------------
(* The fragment: MP4.moof(seq, firstDTS, mp4track) and MP4.mdat(payload)   *)

\* mfhd: version and flags, sequence_number.
Mfhd(sn) == Box("mfhd", <<Zeros(4) \o Be32(sn)>>)

\* The flags getPayload gives an mp4 sample: a keyframe depends on no
\* other (dependsOn 2) and is a sync sample; paddingValue is never set
\* (undefined << 1 is 0).
SampleFlags(sync) ==
    [isLeading |-> 0, dependsOn |-> IF sync THEN 2 ELSE 1, isDependedOn |-> 0,
     hasRedundancy |-> 0, paddingValue |-> 0, isNonSync |-> IF sync THEN 0 ELSE 1,
     degradPrio |-> 0]

\* sdtp: a zero full-box header and one byte per sample.
Sdtp(samples) ==
    Box("sdtp", <<Zeros(4) \o
          [i \in DOMAIN samples |->
              LET f == SampleFlags(samples[i].sync)
              IN  f.dependsOn * 16 + f.isDependedOn * 4 + f.hasRedundancy]>>)

\* One 16-byte trun entry: duration, size, the four flag bytes (the third
\* is degradPrio & (0xF0 << 8), of which Uint8Array keeps the low byte),
\* composition time offset.
TrunEntry(s) ==
    LET f == SampleFlags(s.sync)
    IN  Be32(s.dur) \o Be32(s.size)
        \o <<f.isLeading * 4 + f.dependsOn,
             f.isDependedOn * 64 + f.hasRedundancy * 16 + f.paddingValue * 2
               + f.isNonSync,
             (f.degradPrio & 61440) % 256, f.degradPrio & 15>>
        \o Be32(s.cts)

\* trun with flags 0x000f01; data_offset is the offset traf passes plus
\* the trun box itself (8 + arraylen).
Trun(samples, offset) ==
    LET len      == Len(samples)
        arraylen == 12 + 16 * len
    IN  Box("trun", <<<<0, 0, 15, 1>> \o Be32(len) \o Be32(offset + 8 + arraylen)
                      \o FlattenSeq([i \in 1..len |-> TrunEntry(samples[i])])>>)

\* A plausible slip: the mdat header is left out of the offset.
TrafNoMdatHeader(samples, base, id) ==
    CHOOSE traf \in {Box("traf", <<Box("tfhd", <<Zeros(4) \o Be32(id)>>),
                      Box("tfdt", <<Zeros(4) \o Be32(base)>>),
                      Trun(samples, Len(sdtp) + 16 + 16 + 8 + 16 + 8),
                      sdtp>>) : sdtp \in {Sdtp(samples)}} : TRUE

\* traf: tfhd (track_ID), tfdt (baseMediaDecodeTime, version 0), trun and
\* sdtp.  trun's offset counts what lies between the start of the moof and
\* the trun box plus what follows it up to the mdat payload: sdtp, tfhd,
\* tfdt, the traf header, mfhd, the moof header and the mdat header.
Traf(samples, base, id) ==
    CHOOSE traf \in {Box("traf", <<Box("tfhd", <<Zeros(4) \o Be32(id)>>),
                      Box("tfdt", <<Zeros(4) \o Be32(base)>>),
                      Trun(samples, Len(sdtp) + 16 + 16 + 8 + 16 + 8 + 8),
                      sdtp>>) : sdtp \in {Sdtp(samples)}} : TRUE

Moof(sn, base, track) == Box("moof", <<Mfhd(sn), Traf(track.samples, base, track.id)>>)

Mdat(data) == Box("mdat", <<data>>)

-----------------------------------------------------------------------------
(* The init segment: MP4.initSegment([mp4track], duration, timescale)      *)

\* Fixed fields no reader of this module looks at (reserved words, the
\* matrices, resolutions, compressor name, depth, bitrates, handler names)
\* are kept by their length, as zeros.  The payloads MP4.init builds once,
\* by length: the handler payloads
\* (with handler_type at bytes 9-12), dref, the empty stts/stsc/stco,
\* stsz, vmhd, smhd and stsd's entry count.
HdlrPayload(type) ==
    Zeros(8) \o (IF type = "video" THEN <<118, 105, 100, 101>> ELSE <<115, 111, 117, 110>>)
    \o Zeros(25)
DrefPayload == Zeros(20)
Stco == Zeros(8)
Stsz == Zeros(12)
Vmhd == Zeros(12)
Smhd == Zeros(8)
StsdHead == Zeros(7) \o <<1>>
Ftyp == Box("ftyp", <<<<105, 115, 111, 109>>, <<0, 0, 0, 1>>, <<105, 115, 111, 109>>,
                      <<97, 118, 99, 49>>>>)
Dinf == Box("dinf", <<Box("dref", <<DrefPayload>>)>>)

Mvhd(timescale, duration) ==
    Box("mvhd", <<Zeros(12) \o Be32(timescale) \o Be32(duration) \o Zeros(80)>>)

\* tkhd: track_ID, duration, the volume as 8.8 fixed point ((volume >> 0)
\* & 0xff, then ((volume % 1) * 10) >> 0; undefined for video, which
\* gives 0) and width and height as 16.16.
Tkhd(track) ==
    Box("tkhd", <<Zeros(12) \o Be32(track.id) \o Zeros(4) \o Be32(track.duration)
                  \o Zeros(12) \o <<track.volume % 256, 0>> \o Zeros(38)
                  \o Be16(track.width) \o Zeros(2) \o Be16(track.height) \o Zeros(2)>>)

Mdhd(timescale, duration) ==
    Box("mdhd", <<Zeros(12) \o Be32(timescale) \o Be32(duration) \o Zeros(4)>>)

Hdlr(type) == Box("hdlr", <<HdlrPayload(type)>>)

\* avcC's parameter set arrays: each set preceded by its 16-bit length.
LengthPrefixed(sets) == FlattenSeq([i \in DOMAIN sets |-> Be16(Len(sets[i])) \o sets[i]])

\* A plausible slip: profile, compatibility and level taken one byte too
\* early from the length-prefixed SPS array.
Avc1ProfileFromLength(track) ==
    LET sps  == LengthPrefixed(track.sps)
        avcc == Box("avcC", <<<<1, sps[2], sps[3], sps[4], 255, 224 + Len(track.sps)>>
                              \o sps \o <<Len(track.pps)>> \o LengthPrefixed(track.pps)>>)
    IN  Box("avc1", <<Zeros(24) \o Be16(track.width) \o Be16(track.height) \o Zeros(50),
                      avcc, Box("btrt", <<Zeros(12)>>)>>)

\* avc1: the sample entry with width and height, avcC (version 1; profile,
\* compatibility and level are sps[3..5] of the length-prefixed array,
\* i.e. bytes 1-3 of the first SPS after its NAL header; 4-byte NAL
\* lengths; the SPS and PPS counts and sets) and btrt.
Avc1(track) ==
    LET sps  == LengthPrefixed(track.sps)
        avcc == Box("avcC", <<<<1, sps[4], sps[5], sps[6], 255, 224 + Len(track.sps)>>
                              \o sps \o <<Len(track.pps)>> \o LengthPrefixed(track.pps)>>)
    IN  Box("avc1", <<Zeros(24) \o Be16(track.width) \o Be16(track.height) \o Zeros(50),
                      avcc, Box("btrt", <<Zeros(12)>>)>>)

\* esds's payload: the full-box header, then the ES_Descriptor (tag 3,
\* length 0x17 + configlen: es_id, priority), holding the
\* DecoderConfigDescriptor (tag 4, length 0x0f + configlen: MPEG-4 audio,
\* stream type, buffer size and bitrates) with the DecoderSpecificInfo
\* (tag 5, the AudioSpecificConfig), and the SLConfigDescriptor (06 01 02).
Esds(track) ==
    LET configlen == Len(track.config)
    IN  Zeros(4) \o <<3, 23 + configlen, 0, 1, 0,
                      4, 15 + configlen, 64, 21>> \o Zeros(11)
        \o <<5, configlen>> \o track.config \o <<6, 1, 2>>

\* mp4a: the audio sample entry with channelcount, 16-bit sample size and
\* the sample rate as 16.16 ((rate >> 8) & 0xff, rate & 0xff, 0, 0), then
\* esds.
Mp4a(track) ==
    Box("mp4a", <<Zeros(17) \o <<track.channelCount, 0, 16>> \o Zeros(4)
                  \o Be16(track.audiosamplerate) \o Zeros(2),
                  Box("esds", <<Esds(track)>>)>>)

Stsd(track) ==
    Box("stsd", <<StsdHead, IF track.type = "audio" THEN Mp4a(track) ELSE Avc1(track)>>)

Stbl(track) ==
    Box("stbl", <<Stsd(track), Box("stts", <<Stco>>), Box("stsc", <<Stco>>),
                  Box("stsz", <<Stsz>>), Box("stco", <<Stco>>)>>)

Minf(track) ==
    Box("minf", <<IF track.type = "audio" THEN Box("smhd", <<Smhd>>)
                                          ELSE Box("vmhd", <<Vmhd>>),
                  Dinf, Stbl(track)>>)

Mdia(track) ==
    Box("mdia", <<Mdhd(track.timescale, track.duration), Hdlr(track.type), Minf(track)>>)

\* MP4.trak sets a zero track.duration to 0xffffffff (-1 as a 32-bit
\* integer) before tkhd and mdhd read it.
Trak(track) ==
    LET t == [track EXCEPT !.duration = IF @ = 0 THEN -1 ELSE @]
    IN  Box("trak", <<Tkhd(t), Mdia(t)>>)

Trex(track) == Box("trex", <<Zeros(4) \o Be32(track.id) \o <<0, 0, 0, 1>> \o Zeros(8)
                             \o <<0, 1, 0, 1>>>>)

Mvex(tracks) == Box("mvex", [i \in DOMAIN tracks |-> Trex(tracks[i])])

Moov(tracks, duration, timescale) ==
    Box("moov", <<Mvhd(timescale, duration)>> \o [i \in DOMAIN tracks |-> Trak(tracks[i])]
                \o <<Mvex(tracks)>>)

InitSegment(tracks, duration, timescale) == Ftyp \o Moov(tracks, duration, timescale)

-----------------------------------------------------------------------------
(* The tracks MP4 is given                                                  *)

\* AACParser.SampleRates: the sampling frequency table (13 entries).
SampleRates == <<96000, 88200, 64000, 48000, 44100, 32000, 24000, 22050,
                 16000, 12000, 11025, 8000, 7350>>

\* AACParser.parseAudioSpecificConfig over the bytes of the SDP's config:
\* audio object type (5 bits), sampling frequency index (4), 24 bits
\* skipped when the index is 15, channel configuration (4); config is the
\* first 16 bits (bitSlice of the source from the start position).
ParseAudioSpecificConfig(bytes) ==
    LET bits == [i \in 1..(8 * Len(bytes)) |->
                    (bytes[(i - 1) \div 8 + 1] \div 2^(7 - ((i - 1) % 8))) % 2]
        prof == ReadBits(bits, 0, 5)
        sfi  == ReadBits(bits, prof.pos, 4)
        chan == ReadBits(bits, sfi.pos + (IF sfi.val = 15 THEN 24 ELSE 0), 4)
    IN  [config |-> SubSeq(bytes, 1, 2), profile |-> prof.val,
         samplerate |-> SampleRates[sfi.val + 1], channels |-> chan.val]

\* AACRemuxer's mp4track after setConfig(config): duration was 0, so it
\* becomes (this.duration || 1) * samplerate, with this.duration the
\* SDP's range or 1 (live).
AacTrack(id, config) ==
    [id |-> id, type |-> "audio", channelCount |-> config.channels,
     audiosamplerate |-> config.samplerate, duration |-> config.samplerate,
     timescale |-> config.samplerate, volume |-> 1, config |-> config.config,
     width |-> 0, height |-> 0]

\* H264Remuxer's mp4track (duration = timescale = 90000, no volume) after
\* H264Parser.parseSPS (width and height from readSPS, sps = [sps]) and
\* parsePPS (pps = [pps]).
H264Track(id, sps, pps) ==
    LET bits == [i \in 1..(8 * Len(sps)) |->
                    (sps[(i - 1) \div 8 + 1] \div 2^(7 - ((i - 1) % 8))) % 2]
        r    == ReadSPS(bits)
    IN  [id |-> id, type |-> "video", duration |-> 90000, timescale |-> 90000,
         volume |-> 0, width |-> r.width, height |-> r.height,
         sps |-> <<sps>>, pps |-> <<pps>>]

(***************************************************************************)
(* The reference: an ISO BMFF reader (ISO/IEC 14496-12 4.2 and 8, 14496-15 *)
(* 5.3.3 for avcC, 14496-1 7.2.6 for the esds descriptors).  None of it is *)
(* code of the repository.                                                 *)
(***************************************************************************)
\* Every size or field read here is below 2^24, inside TLC's integers.
U16At(bs, o) == bs[o] * 256 + bs[o + 1]
U32At(bs, o) == U16At(bs, o) * 65536 + U16At(bs, o + 2)

\* The box whose header starts at o: its type and its payload from..last.
BoxAt(bs, o) == [type |-> SubSeq(bs, o + 4, o + 7), at |-> o, from |-> o + 8,
                 last |-> o + U32At(bs, o) - 1]
Malformed == [type |-> <<>>, at |-> 0, from |-> 0, last |-> 0]

\* The boxes that tile bs[o..last] in order; a header that does not fit,
\* a size below 8 or a box running past last ends the list with Malformed.
RECURSIVE BoxesIn(_, _, _)
BoxesIn(bs, o, last) ==
    IF o > last THEN <<>>
    ELSE IF o + 7 > last \/ U32At(bs, o) < 8 \/ o + U32At(bs, o) - 1 > last
         THEN <<Malformed>>
         ELSE <<BoxAt(bs, o)>> \o BoxesIn(bs, o + U32At(bs, o), last)

\* The child boxes of b, after skip bytes of its own fields.
Children(bs, b, skip) == BoxesIn(bs, b.from + skip, b.last)

IsSeq(boxes, names) ==
    /\ Len(boxes) = Len(names)
    /\ \A i \in DOMAIN names : boxes[i].type = FourCC[names[i]]

\* A moof+mdat as a demuxer reads it: the boxes nest and tile exactly;
\* mfhd, tfhd and tfdt carry the sequence number, track and decode time;
\* trun lists every sample (duration, size, sync flag, composition
\* offset) and its data_offset, counted from the first byte of the moof
\* (tfhd sets no base offset), is the first byte of the mdat payload,
\* which holds exactly the bytes the sample sizes add up to; sdtp has one
\* entry per sample and agrees with trun on what each sample depends on.
FragmentDescribes(bs, sn, base, id, samples) ==
    \A top \in {BoxesIn(bs, 1, Len(bs))} :
    /\ IsSeq(top, <<"moof", "mdat">>)
    /\ \A mc \in {Children(bs, top[1], 0)} :
       /\ IsSeq(mc, <<"mfhd", "traf">>)
       /\ U32At(bs, mc[1].from + 4) = sn
       /\ \A tc \in {Children(bs, mc[2], 0)} :
          LET r == tc[3].from
              n == Len(samples)
              entry(i) == r + 12 + 16 * (i - 1)
          IN  /\ IsSeq(tc, <<"tfhd", "tfdt", "trun", "sdtp">>)
              /\ U32At(bs, tc[1].from + 4) = id
              /\ U32At(bs, tc[2].from + 4) = base
              /\ U32At(bs, r + 4) = n
              /\ tc[3].last = r + 11 + 16 * n
              /\ top[1].at + U32At(bs, r + 8) = top[2].from
              /\ tc[4].last = tc[4].from + 3 + n
              /\ \A i \in 1..n :
                   /\ U32At(bs, entry(i)) = samples[i].dur
                   /\ U32At(bs, entry(i) + 4) = samples[i].size
                   /\ (bs[entry(i) + 9] % 2 = 0) = samples[i].sync
                   /\ bs[entry(i) + 8] % 4 = (bs[tc[4].from + 3 + i] \div 16) % 4
                   /\ U32At(bs, entry(i) + 12) = samples[i].cts
              /\ LET total[i \in 0..n] ==
                       IF i = 0 THEN 0 ELSE total[i - 1] + samples[i].size
                 IN  top[2].last - top[2].from + 1 = total[n]

\* avcC: version 1, profile, compatibility and level equal to the SPS's
\* bytes after its NAL header, 4-byte NAL lengths, then one SPS and one
\* PPS, each with its 16-bit length, ending the box.
AvcCDescribes(bs, c, track) ==
    LET o   == c.from
        sps == track.sps[1]
        pps == track.pps[1]
        q   == o + 8 + Len(sps)
    IN  /\ bs[o] = 1
        /\ SubSeq(bs, o + 1, o + 3) = SubSeq(sps, 2, 4)
        /\ bs[o + 4] % 4 = 3
        /\ bs[o + 5] % 32 = 1 /\ U16At(bs, o + 6) = Len(sps)
        /\ SubSeq(bs, o + 8, q - 1) = sps
        /\ bs[q] = 1 /\ U16At(bs, q + 1) = Len(pps)
        /\ SubSeq(bs, q + 3, q + 2 + Len(pps)) = pps
        /\ c.last = q + 2 + Len(pps)

\* avc1: width and height, then avcC and btrt.
Avc1Describes(bs, e, track) ==
    /\ e.type = FourCC.avc1
    /\ U16At(bs, e.from + 24) = track.width /\ U16At(bs, e.from + 26) = track.height
    /\ \A ch \in {BoxesIn(bs, e.from + 78, e.last)} :
         IsSeq(ch, <<"avcC", "btrt">>) /\ AvcCDescribes(bs, ch[1], track)

\* mp4a: channel count, 16-bit samples and the sample rate (16.16), then
\* esds, whose ES_Descriptor fills the box and holds the
\* DecoderConfigDescriptor (MPEG-4 audio) with the AudioSpecificConfig as
\* its DecoderSpecificInfo, followed by the SLConfigDescriptor.
Mp4aDescribes(bs, e, track) ==
    /\ e.type = FourCC.mp4a
    /\ U16At(bs, e.from + 16) = track.channelCount /\ U16At(bs, e.from + 18) = 16
    /\ U16At(bs, e.from + 24) = track.audiosamplerate
    /\ \A ch \in {BoxesIn(bs, e.from + 28, e.last)} :
         LET es  == ch[1].from + 4
             dc  == es + 5
             dsi == dc + 15
             sl  == dc + 2 + bs[dc + 1]
         IN  /\ IsSeq(ch, <<"esds">>)
             /\ bs[es] = 3 /\ es + 1 + bs[es + 1] = ch[1].last
             /\ bs[dc] = 4 /\ bs[dc + 2] = 64 /\ bs[dc + 3] \div 4 = 5
             /\ bs[dsi] = 5 /\ bs[dsi + 1] = Len(track.config)
             /\ SubSeq(bs, dsi + 2, dsi + 1 + Len(track.config)) = track.config
             /\ sl = dsi + 2 + Len(track.config)
             /\ SubSeq(bs, sl, sl + 2) = <<6, 1, 2>> /\ sl + 2 = ch[1].last

\* An init segment for one track as MSE reads it: ftyp, then moov with
\* mvhd, the trak and mvex; tkhd and trex name the track, tkhd gives its
\* size, mdhd its timescale, hdlr its kind; the media header, dinf and
\* the sample table follow, and stsd's one entry describes the codec.
InitSegmentDescribes(bs, track) ==
    LET audio == track.type = "audio"
    IN  \A top \in {BoxesIn(bs, 1, Len(bs))} :
        /\ IsSeq(top, <<"ftyp", "moov">>)
        /\ \A mv \in {Children(bs, top[2], 0)} :
           /\ IsSeq(mv, <<"mvhd", "trak", "mvex">>)
           /\ \A tk \in {Children(bs, mv[2], 0)}, ex \in {Children(bs, mv[3], 0)} :
              /\ IsSeq(tk, <<"tkhd", "mdia">>) /\ IsSeq(ex, <<"trex">>)
              /\ U32At(bs, tk[1].from + 12) = track.id
              /\ U32At(bs, ex[1].from + 4) = track.id
              /\ U16At(bs, tk[1].from + 76) = track.width
              /\ U16At(bs, tk[1].from + 80) = track.height
              /\ \A md \in {Children(bs, tk[2], 0)} :
                 /\ IsSeq(md, <<"mdhd", "hdlr", "minf">>)
                 /\ U32At(bs, md[1].from + 12) = track.timescale
                 /\ SubSeq(bs, md[2].from + 8, md[2].from + 11)
                      = IF audio THEN <<115, 111, 117, 110>> ELSE <<118, 105, 100, 101>>
                 /\ \A mi \in {Children(bs, md[3], 0)} :
                    /\ IsSeq(mi, <<IF audio THEN "smhd" ELSE "vmhd", "dinf", "stbl">>)
                    /\ \A st \in {Children(bs, mi[3], 0)} :
                       /\ IsSeq(st, <<"stsd", "stts", "stsc", "stsz", "stco">>)
                       /\ U32At(bs, st[1].from + 4) = 1
                       /\ \A en \in {Children(bs, st[1], 8)} :
                          /\ Len(en) = 1
                          /\ IF audio THEN Mp4aDescribes(bs, en[1], track)
                                      ELSE Avc1Describes(bs, en[1], track)

=============================================================================
