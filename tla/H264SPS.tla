------------------------------ MODULE H264SPS --------------------------------
(***************************************************************************)
(* H264Parser.readSPS of src/demos/rtsp/rtsp.dev.js and the ExpGolomb bit  *)
(* reader it runs over the SPS, as pure operators, checked against a       *)
(* reference writer of the H.264 seq_parameter_set_rbsp syntax (7.3.2.1.1) *)
(* over a bounded set of parameter sets.                                   *)
(*                                                                         *)
(* ExpGolomb keeps a 32-bit word and a count of the bits left in it, and   *)
(* reloads the word from data; for reads that stay inside data this is a   *)
(* cursor over the bit string of data, which is how it is modelled: a      *)
(* reader operator takes the bits bs and the number p of bits consumed     *)
(* and returns the value read and the new cursor.  Reading past the end   *)
(* (loadWord throws 'no bytes available') is not reached by the inputs.    *)
(***************************************************************************)
EXTENDS Integers, Sequences, SequencesExt

\* A read: the value and the cursor after it.
Read(v, q) == [val |-> v, pos |-> q]

\* JavaScript's % keeps the sign of the dividend.
JsMod(a, b) == IF a < 0 THEN -((-a) % b) ELSE a % b

\* The cursor has passed the end of data: loadWord has thrown 'no bytes
\* available' and readSPS has not returned.  Reads past it
\* return 0 and the loops below stop there.
Thrown(bs, p) == p > Len(bs)

\* readBits(size): the next size bits, most significant first.  (The word
\* arithmetic is 32-bit; no read below that the result depends on is wider
\* than 16 bits.)
RECURSIVE BitsValue(_, _, _)
BitsValue(bs, p, n) == IF n = 0 THEN 0 ELSE 2 * BitsValue(bs, p, n - 1) + bs[p + n]

ReadBits(bs, p, n) ==
    IF Thrown(bs, p + n) THEN Read(0, p + n) ELSE Read(BitsValue(bs, p, n), p + n)

\* skipBits(count)
SkipBits(bs, p, n) == p + n

\* readBoolean()
ReadBoolean(bs, p) ==
    LET r == ReadBits(bs, p, 1) IN Read(r.val = 1, r.pos)

\* readUByte()
ReadUByte(bs, p) == ReadBits(bs, p, 8)

\* skipLZ(): the number of 0 bits before the next 1, which stays unread
\* (when no 1 is left, loadWord throws: the count takes the cursor past
\* the end).  Counts above 31, which no input has, are not followed.
SkipLZ(bs, p) ==
    LET last == IF Len(bs) - p - 1 < 31 THEN Len(bs) - p - 1 ELSE 31
    IN  Min({k \in 0..last : bs[p + k + 1] = 1} \cup {Len(bs) - p + 1})

\* readUEG(): ue(v).
ReadUEG(bs, p) ==
    LET clz == SkipLZ(bs, p)
        r   == ReadBits(bs, p + clz, clz + 1)
    IN  Read(r.val - 1, r.pos)

\* readEG(): se(v); odd codes are positive.
ReadEG(bs, p) ==
    LET u == ReadUEG(bs, p)
    IN  Read(IF u.val % 2 = 1 THEN (1 + u.val) \div 2 ELSE -(u.val \div 2), u.pos)

\* skipUEG() and skipEG(): skipBits(1 + skipLZ()).
SkipUEG(bs, p) == LET clz == SkipLZ(bs, p) IN SkipBits(bs, p + clz, 1 + clz)
SkipEG(bs, p) == SkipUEG(bs, p)

\* H264Parser.skipScalingList(decoder, count): the loop over j, with its
\* lastScale and nextScale.  Once nextScale is 0 the remaining iterations
\* read nothing and leave lastScale alone, so the loop is modelled as
\* ending there.  t is the loop's state after t.j iterations.
ScalingIteration(bs, t) ==
    LET d    == ReadEG(bs, t.pos)
        next == JsMod(t.lastScale + d.val + 256, 256)
    IN  [j |-> t.j + 1, pos |-> d.pos, nextScale |-> next,
         lastScale |-> IF next = 0 THEN t.lastScale ELSE next]

SkipScalingList(bs, p, count) ==
    LET loop[t \in [j : Int, pos : Int, lastScale : Int, nextScale : Int]] ==
            IF t.j = count \/ t.nextScale = 0 \/ Thrown(bs, t.pos) THEN t.pos
            ELSE loop[ScalingIteration(bs, t)]
    IN  loop[[j |-> 0, pos |-> p, lastScale |-> 8, nextScale |-> 8]]

\* The profiles whose SPS carries chroma, bit depth and scaling fields.
HighProfiles == {100, 110, 122, 244, 44, 83, 86, 118, 128}

\* The aspect_ratio_idc table of readSPS's switch, as <<num, den>>.
SarTable == <<<<1, 1>>, <<12, 11>>, <<10, 11>>, <<16, 11>>, <<40, 33>>,
              <<24, 11>>, <<20, 11>>, <<32, 11>>, <<80, 33>>, <<18, 11>>,
              <<15, 11>>, <<64, 33>>, <<160, 99>>, <<4, 3>>, <<3, 2>>,
              <<2, 1>>>>

\* Math.ceil(x * num / den), computed exactly; the code multiplies by the
\* double num / den, which agrees for every input of SpsConfigs.
CeilDiv(a, b) == -((-a) \div b)

(***************************************************************************)
(* readSPS runs its statements in order over one decoder; s is the state  *)
(* after some of them: the cursor, the values the later statements use,   *)
(* and pc, the next group of statements.  Each step below is one group.  *)
(***************************************************************************)
Pcs == {"header", "chroma", "list", "frameNum", "poc1", "cycle", "size",
        "frame", "crop", "vui", "aspect", "signal", "timing", "done"}

ParserStates ==
    [pc : Pcs, pos : Int, lists : Int, i : Int, cycle : Int, w : Int, h : Int,
     fmo : Int, crop : Int \X Int \X Int \X Int, sar : Int \X Int]

InitParser ==
    [pc |-> "header", pos |-> 0, lists |-> 0, i |-> 0, cycle |-> 0, w |-> 0,
     h |-> 0, fmo |-> 0, crop |-> <<0, 0, 0, 0>>, sar |-> <<1, 1>>]

\* The NAL header byte, profile_idc, the constraint flags, reserved bits,
\* level_idc and seq_parameter_set_id; the high profiles go on to chroma.
HeaderStep(bs, s) ==
    LET prof == ReadUByte(bs, SkipBits(bs, s.pos, 8))
    IN  [s EXCEPT !.pos = SkipUEG(bs, prof.pos + 5 + 3 + 8),
                  !.pc  = IF prof.val \in HighProfiles THEN "chroma" ELSE "frameNum"]

\* chroma_format_idc (separate_colour_plane_flag when 3), the two bit
\* depths, the bypass flag and seq_scaling_matrix_present_flag.
ChromaStep(bs, s) ==
    LET cf == ReadUEG(bs, s.pos)
        sm == ReadBoolean(bs, SkipUEG(bs, SkipUEG(bs, cf.pos + (IF cf.val = 3 THEN 1 ELSE 0))) + 1)
    IN  [s EXCEPT !.pos = sm.pos, !.lists = IF cf.val # 3 THEN 8 ELSE 12, !.i = 0,
                  !.pc = IF sm.val THEN "list" ELSE "frameNum"]

\* Mutant of ListStep: list 6 read with 16 entries instead of 64.
ListStepSixShort(bs, s) ==
    IF s.i = s.lists THEN [s EXCEPT !.pc = "frameNum"]
    ELSE LET f == ReadBoolean(bs, s.pos)
         IN  [s EXCEPT !.i = @ + 1,
                       !.pos = IF f.val
                               THEN SkipScalingList(bs, f.pos, IF s.i <= 6 THEN 16 ELSE 64)
                               ELSE f.pos]

\* One turn of the loop over the scaling lists: lists 0..5 have 16
\* entries, the others 64.
ListStep(bs, s) ==
    IF s.i = s.lists THEN [s EXCEPT !.pc = "frameNum"]
    ELSE LET f == ReadBoolean(bs, s.pos)
         IN  [s EXCEPT !.i = @ + 1,
                       !.pos = IF f.val
                               THEN SkipScalingList(bs, f.pos, IF s.i < 6 THEN 16 ELSE 64)
                               ELSE f.pos]

\* log2_max_frame_num_minus4 and pic_order_cnt_type with the fields of
\* type 0; type 1 goes on to its fields.
FrameNumStep(bs, s) ==
    LET pt == ReadUEG(bs, SkipUEG(bs, s.pos))
    IN  [s EXCEPT !.pos = CASE pt.val = 0 -> ReadUEG(bs, pt.pos).pos
                            [] OTHER      -> pt.pos,
                  !.pc = IF pt.val = 1 THEN "poc1" ELSE "size"]

\* delta_pic_order_always_zero_flag, the two offsets and
\* num_ref_frames_in_pic_order_cnt_cycle.
Poc1Step(bs, s) ==
    LET n == ReadUEG(bs, SkipEG(bs, SkipEG(bs, s.pos + 1)))
    IN  [s EXCEPT !.pos = n.pos, !.cycle = n.val, !.pc = "cycle"]

\* One turn of the loop over offset_for_ref_frame.
CycleStep(bs, s) ==
    IF s.cycle = 0 THEN [s EXCEPT !.pc = "size"]
    ELSE [s EXCEPT !.pos = SkipEG(bs, s.pos), !.cycle = @ - 1]

\* max_num_ref_frames, the gaps flag and the picture size in macroblocks.
SizeStep(bs, s) ==
    LET w == ReadUEG(bs, SkipUEG(bs, s.pos) + 1)
        h == ReadUEG(bs, w.pos)
    IN  [s EXCEPT !.pos = h.pos, !.w = w.val, !.h = h.val, !.pc = "frame"]

\* frame_mbs_only_flag (mb_adaptive_frame_field_flag when 0),
\* direct_8x8_inference_flag and frame_cropping_flag.
FrameStep(bs, s) ==
    LET fmo == ReadBits(bs, s.pos, 1)
        crp == ReadBoolean(bs, fmo.pos + (IF fmo.val = 0 THEN 1 ELSE 0) + 1)
    IN  [s EXCEPT !.pos = crp.pos, !.fmo = fmo.val,
                  !.pc = IF crp.val THEN "crop" ELSE "vui"]

\* The four frame_crop offsets.
CropStep(bs, s) ==
    LET l == ReadUEG(bs, s.pos)
        r == ReadUEG(bs, l.pos)
        t == ReadUEG(bs, r.pos)
        b == ReadUEG(bs, t.pos)
    IN  [s EXCEPT !.pos = b.pos, !.crop = <<l.val, r.val, t.val, b.val>>, !.pc = "vui"]

\* vui_parameters_present_flag
VuiStep(bs, s) ==
    LET v == ReadBoolean(bs, s.pos)
    IN  [s EXCEPT !.pos = v.pos, !.pc = IF v.val THEN "aspect" ELSE "done"]

\* aspect_ratio_info_present_flag, aspect_ratio_idc and the switch: the
\* table, or for 255 sar_width and sar_height (two bytes each); any other
\* idc leaves sarScale at 1.
AspectStep(bs, s) ==
    LET ar  == ReadBoolean(bs, s.pos)
        idc == ReadUByte(bs, ar.pos)
        ext == ReadBits(bs, idc.pos, 32)
    IN  [s EXCEPT !.pc = "signal",
                  !.pos = CASE ~ar.val       -> ar.pos
                            [] idc.val = 255 -> ext.pos
                            [] OTHER         -> idc.pos,
                  !.sar = CASE ~ar.val                      -> <<1, 1>>
                            [] idc.val \in 1..Len(SarTable) -> SarTable[idc.val]
                            [] idc.val = 255 -> <<ext.val \div 65536, ext.val % 65536>>
                            [] OTHER                        -> <<1, 1>>]

\* overscan_info_present_flag (and overscan_appropriate_flag),
\* video_signal_type_present_flag with its 4 bits and, when present, the
\* colour description's 24 bits.
SignalStep(bs, s) ==
    LET os  == ReadBoolean(bs, s.pos)
        vst == ReadBoolean(bs, os.pos + (IF os.val THEN 1 ELSE 0))
        cd  == ReadBoolean(bs, vst.pos + 4)
    IN  [s EXCEPT !.pc = "timing",
                  !.pos = CASE ~vst.val -> vst.pos
                            [] cd.val   -> cd.pos + 24
                            [] OTHER    -> cd.pos]

\* chroma_loc_info_present_flag with its two ue(v), and timing_info,
\* which is read (two 32-bit words and a flag) and only logged.
TimingStep(bs, s) ==
    LET cl == ReadBoolean(bs, s.pos)
        ti == ReadBoolean(bs, IF cl.val THEN SkipUEG(bs, SkipUEG(bs, cl.pos)) ELSE cl.pos)
    IN  [s EXCEPT !.pc = "done",
                  !.pos = IF ti.val THEN ReadBoolean(bs, ti.pos + 64).pos ELSE ti.pos]

ParseStep(bs, s) ==
    CASE s.pc = "header"   -> HeaderStep(bs, s)
      [] s.pc = "chroma"   -> ChromaStep(bs, s)
      [] s.pc = "list"     -> ListStep(bs, s)
      [] s.pc = "frameNum" -> FrameNumStep(bs, s)
      [] s.pc = "poc1"     -> Poc1Step(bs, s)
      [] s.pc = "cycle"    -> CycleStep(bs, s)
      [] s.pc = "size"     -> SizeStep(bs, s)
      [] s.pc = "frame"    -> FrameStep(bs, s)
      [] s.pc = "crop"     -> CropStep(bs, s)
      [] s.pc = "vui"      -> VuiStep(bs, s)
      [] s.pc = "aspect"   -> AspectStep(bs, s)
      [] s.pc = "signal"   -> SignalStep(bs, s)
      [] s.pc = "timing"   -> TimingStep(bs, s)

\* The return statement: width and height from the fields read, or thrown
\* when a read ran past the end of data.
SpsResult(bs, s) ==
    [thrown |-> Thrown(bs, s.pos),
     width  |-> CeilDiv(((s.w + 1) * 16 - s.crop[1] * 2 - s.crop[2] * 2) * s.sar[1],
                        s.sar[2]),
     height |-> (2 - s.fmo) * (s.h + 1) * 16
                - (IF s.fmo = 1 THEN 2 ELSE 4) * (s.crop[3] + s.crop[4])]

\* H264Parser.readSPS(data): the steps from the first group to the return.
ReadSPS(bs) ==
    LET run[s \in ParserStates] ==
            IF s.pc = "done" \/ Thrown(bs, s.pos) THEN s ELSE run[ParseStep(bs, s)]
        result[s \in ParserStates] == SpsResult(bs, s)
    IN  result[run[InitParser]]

(***************************************************************************)
(* The reference: an SPS NAL unit as an encoder writes it (H.264 7.3.2.1.1 *)
(* and E.1.1), with the emulation prevention bytes of 7.4.1.  None of it  *)
(* is code of the repository; it generates the inputs of the check.       *)
(***************************************************************************)
Bits(v, n) == [i \in 1..n |-> (v \div 2^(n - i)) % 2]
Flag(b) == <<IF b THEN 1 ELSE 0>>

RECURSIVE FloorLog2(_)
FloorLog2(x) == IF x < 2 THEN 0 ELSE 1 + FloorLog2(x \div 2)

\* ue(v) and se(v)
UE(v) == [i \in 1..FloorLog2(v + 1) |-> 0] \o Bits(v + 1, FloorLog2(v + 1) + 1)
SE(v) == UE(IF v > 0 THEN 2 * v - 1 ELSE -2 * v)
SEs(s) == FlattenSeq([i \in DOMAIN s |-> SE(s[i])])

\* The scaling matrix: a list is <<>> when absent, else its delta_scales.
ScalingMatrixBits(lists) ==
    IF lists = <<>> THEN <<0>>
    ELSE <<1>> \o FlattenSeq([i \in DOMAIN lists |->
                                 Flag(lists[i] # <<>>) \o SEs(lists[i])])

\* A 32-bit field holding a value below 2^16.
U32(v) == Bits(0, 16) \o Bits(v, 16)

VuiBits(v) ==
    Flag(v.sar # <<>>)
    \o (IF v.sar = <<>> THEN <<>>
        ELSE Bits(v.sar[1], 8)
             \o (IF v.sar[1] = 255 THEN Bits(v.sar[2], 16) \o Bits(v.sar[3], 16)
                 ELSE <<>>))
    \o Flag(v.overscan) \o (IF v.overscan THEN <<1>> ELSE <<>>)
    \o Flag(v.signal > 0)
    \o (IF v.signal > 0 THEN Bits(5, 3) \o <<0>> \o Flag(v.signal = 2) ELSE <<>>)
    \o (IF v.signal = 2 THEN Bits(1, 8) \o Bits(1, 8) \o Bits(1, 8) ELSE <<>>)
    \o Flag(v.chromaLoc) \o (IF v.chromaLoc THEN UE(0) \o UE(0) ELSE <<>>)
    \o Flag(v.timing)
    \o (IF v.timing THEN U32(1) \o U32(50) \o <<1>> ELSE <<>>)
    \o <<0, 0, 0, 0>>   \* no HRD parameters, pic_struct, bitstream_restriction

\* seq_parameter_set_rbsp() after the NAL header, with its trailing bits.
RbspBits(c) ==
    LET body ==
        Bits(c.profile, 8) \o Bits(c.compat, 8) \o Bits(c.level, 8) \o UE(0)
        \o (IF c.profile \in HighProfiles
            THEN UE(c.chroma) \o (IF c.chroma = 3 THEN <<0>> ELSE <<>>)
                 \o UE(0) \o UE(0) \o <<0>> \o ScalingMatrixBits(c.lists)
            ELSE <<>>)
        \o UE(0) \o UE(c.poc)
        \o (CASE c.poc = 0 -> UE(2)
              [] c.poc = 1 -> <<0>> \o SE(0) \o SE(0) \o UE(Len(c.cycle)) \o SEs(c.cycle)
              [] OTHER     -> <<>>)
        \o UE(1) \o <<0>> \o UE(c.w) \o UE(c.h)
        \o Flag(c.fmo = 1) \o (IF c.fmo = 0 THEN <<0>> ELSE <<>>) \o <<1>>
        \o Flag(c.crop # <<>>)
        \o FlattenSeq([i \in DOMAIN c.crop |-> UE(c.crop[i])])
        \o Flag(c.vui # <<>>) \o (IF c.vui = <<>> THEN <<>> ELSE VuiBits(c.vui[1]))
        \o <<1>>
    IN  body \o [i \in 1..((8 - (Len(body) % 8)) % 8) |-> 0]

ToBytes(bits) ==
    [i \in 1..(Len(bits) \div 8) |-> ReadBits(bits, 8 * (i - 1), 8).val]

\* 7.4.1: within the NAL unit no 00 00 is followed by a byte of at most 3;
\* the encoder inserts 0x03 there.  With z the count of zero bytes written
\* since the last insertion, a run of L zeros leaves z at L up to 2 and
\* then at 1 or 2 as L is odd or even, so a 0x03 goes before b[i] exactly
\* when b[i] <= 3 and the zero run right before i has an even length >= 2.
ZeroRun(b, i) == Max({k \in 0..(i - 1) : \A j \in 1..k : b[i - j] = 0})
Escape(b) ==
    LET ins      == {i \in DOMAIN b : b[i] <= 3 /\ ZeroRun(b, i) >= 2
                                      /\ ZeroRun(b, i) % 2 = 0}
        at(i)    == i + Cardinality({j \in ins : j <= i})
        inserted == {at(i) - 1 : i \in ins}
    IN  [k \in 1..(Len(b) + Cardinality(ins)) |->
            IF k \in inserted THEN 3 ELSE b[CHOOSE i \in DOMAIN b : at(i) = k]]

\* The SPS as parseSPS hands it to readSPS: header byte 0x67, then the
\* escaped RBSP; as bytes and as bits.
SpsBytes(c) == <<103>> \o Escape(ToBytes(RbspBits(c)))
SpsNal(c) ==
    LET bytes == SpsBytes(c)
    IN  [i \in 1..(8 * Len(bytes)) |->
            (bytes[(i - 1) \div 8 + 1] \div 2^(7 - ((i - 1) % 8))) % 2]

(***************************************************************************)
(* The parameter sets checked: the headers of baseline, main, high (with  *)
(* and without a scaling matrix, including 64-entry lists and lists that  *)
(* end early on a zero nextScale) and high 4:4:4 (12 lists); the three    *)
(* pic_order_cnt types, type 1 with and without a cycle; 1080p cropped    *)
(* from 1088 rows, 720p, and interlaced PAL with and without horizontal   *)
(* cropping; no VUI and VUIs covering every optional VUI field the reader *)
(* skips, an unspecified, a table and an explicit (255) aspect ratio, and *)
(* timing with num_units_in_tick 1, whose bytes carry an emulation         *)
(* prevention byte.                                                        *)
(***************************************************************************)
\* A 64-entry list that ends after 21 deltas, and a full 16-entry list.
Long64 == [i \in 1..20 |-> 1] \o <<-28>>
Full16 == [i \in 1..16 |-> 1]

Headers ==
    { [profile |-> 66,  compat |-> 192, level |-> 30, chroma |-> 1, lists |-> <<>>],
      [profile |-> 77,  compat |-> 64,  level |-> 31, chroma |-> 1, lists |-> <<>>],
      [profile |-> 100, compat |-> 0,   level |-> 40, chroma |-> 1, lists |-> <<>>],
      [profile |-> 100, compat |-> 0,   level |-> 41, chroma |-> 1,
       lists |-> <<<<-8>>, <<>>, <<2, -10>>, Full16, <<>>, <<>>,
                   Long64, <<-8>>>>],
      [profile |-> 244, compat |-> 0,   level |-> 51, chroma |-> 3,
       lists |-> <<<<>>, <<>>, <<>>, <<>>, <<>>, <<3, -11>>, <<>>, <<>>,
                   <<-8>>, <<>>, Long64, <<>>>>] }

Pocs == { [poc |-> 0, cycle |-> <<>>], [poc |-> 2, cycle |-> <<>>],
          [poc |-> 1, cycle |-> <<>>], [poc |-> 1, cycle |-> <<2, -1, 0>>] }

Sizes == { [w |-> 119, h |-> 67, fmo |-> 1, crop |-> <<0, 0, 0, 4>>],
           [w |-> 79,  h |-> 44, fmo |-> 1, crop |-> <<>>],
           [w |-> 43,  h |-> 17, fmo |-> 0, crop |-> <<>>],
           [w |-> 44,  h |-> 17, fmo |-> 0, crop |-> <<4, 4, 0, 0>>] }

Vuis == { <<>>,
          <<[sar |-> <<>>, overscan |-> FALSE, signal |-> 0, chromaLoc |-> FALSE, timing |-> TRUE]>>,
          <<[sar |-> <<1>>, overscan |-> TRUE, signal |-> 2, chromaLoc |-> TRUE, timing |-> TRUE]>>,
          <<[sar |-> <<14>>, overscan |-> FALSE, signal |-> 1, chromaLoc |-> FALSE, timing |-> FALSE]>>,
          <<[sar |-> <<255, 16, 11>>, overscan |-> TRUE, signal |-> 1, chromaLoc |-> TRUE, timing |-> TRUE]>>,
          <<[sar |-> <<0>>, overscan |-> FALSE, signal |-> 2, chromaLoc |-> FALSE, timing |-> FALSE]>> }

SpsConfigs ==
    { [profile |-> hd.profile, compat |-> hd.compat, level |-> hd.level,
       chroma |-> hd.chroma, lists |-> hd.lists, poc |-> pc.poc, cycle |-> pc.cycle,
       w |-> sz.w, h |-> sz.h, fmo |-> sz.fmo, crop |-> sz.crop, vui |-> v] :
      hd \in Headers, pc \in Pocs, sz \in Sizes, v \in Vuis }

\* The picture an SPS describes: the luma size less the cropping (in units
\* of 2, or of 4 rows for field coding), the width scaled by the sample
\* aspect ratio and rounded up (spec.md, parseSPS).
SarOf(c) ==
    IF c.vui = <<>> \/ c.vui[1].sar = <<>> THEN <<1, 1>>
    ELSE LET s == c.vui[1].sar
         IN  CASE s[1] \in 1..Len(SarTable) -> SarTable[s[1]]
               [] s[1] = 255                -> <<s[2], s[3]>>
               [] OTHER                     -> <<1, 1>>
CropOf(c) == IF c.crop = <<>> THEN <<0, 0, 0, 0>> ELSE c.crop
PictureWidth(c) ==
    CeilDiv(((c.w + 1) * 16 - 2 * CropOf(c)[1] - 2 * CropOf(c)[2]) * SarOf(c)[1],
            SarOf(c)[2])
PictureHeight(c) ==
    (2 - c.fmo) * (c.h + 1) * 16 - (IF c.fmo = 1 THEN 2 ELSE 4) * (CropOf(c)[3] + CropOf(c)[4])

\* readSPS, run over any SPS an encoder writes with these parameters,
\* stays inside the NAL unit (loadWord never throws) and returns the
\* picture's width and height: every optional field of the profile, the
\* POC type, the scaling matrix and the VUI before the size is consumed
\* exactly, and the emulation prevention bytes the reader does not remove
\* come only after it.
SpsDimensionsRecovered ==
    \A c \in SpsConfigs :
        LET bs == SpsNal(c)
            r  == ReadSPS(bs)
        IN  /\ ~r.thrown
            /\ r.width = PictureWidth(c)
            /\ r.height = PictureHeight(c)

=============================================================================
