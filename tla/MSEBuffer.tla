------------------------------ MODULE MSEBuffer ------------------------------
(***************************************************************************)
(* One MSEBuffer of src/demos/rtsp/rtsp.dev.js (887-1120): the queue of    *)
(* segments that Remuxer.flush feeds (MSE.feed), the SourceBuffer it       *)
(* appends them to one at a time, the 'updateend' listener that feeds the  *)
(* next one, and the QuotaExceededError path (initCleanup, doCleanup) that *)
(* removes played media and requeues the segment.                          *)
(*                                                                         *)
(* The SourceBuffer and the video element are the environment: an append  *)
(* or remove runs asynchronously and ends with 'updateend' (UpdateEnd) or  *)
(* with an append error (AppendError); the video plays through buffered    *)
(* media (Play).  Media time is in whole seconds: the segment fed by the   *)
(* n-th flush covers second n-1, and buffered is the set of buffered       *)
(* seconds.  The calls a handler makes run synchronously, so each handler  *)
(* is one step and its nested calls are operators on the buffer's record.  *)
(***************************************************************************)
EXTENDS Integers, Sequences, SequencesExt, FiniteSets

CONSTANTS
    MaxSegs,  \* media segments the remuxer feeds (one second each)
    Quota     \* seconds the SourceBuffer holds before appendBuffer throws

ASSUME MaxSegs \in Nat /\ Quota \in Nat \ {0}

Keep == 2     \* initCleanup keeps the last 2 s before the live edge

\* A queued item: the init segment, or the moof or mdat of second t.
InitSeg   == [k |-> "init", t |-> -1]
Moof(t)   == [k |-> "moof", t |-> t]
Mdat(t)   == [k |-> "mdat", t |-> t]
Items     == {InitSeg} \cup {Moof(t) : t \in 0..(MaxSegs - 1)}
                       \cup {Mdat(t) : t \in 0..(MaxSegs - 1)}
NoOp      == [k |-> "none", s |-> 0, e |-> 0, d |-> InitSeg]

VARIABLES
    m,      \* the MSEBuffer, its SourceBuffer and the video element
    nFed,   \* MSE.feed calls so far (the init segment, then one per flush)
    dead    \* MSE.reset has destroyed the buffer

vars == <<m, nFed, dead>>

\* The argument of the n-th MSE.feed call (from 0): initMSE feeds the init
\* segment, each later Remuxer.flush [moof, mdat] of the next second.
FeedArg(n) == IF n = 0 THEN <<InitSeg>> ELSE <<Moof(n - 1), Mdat(n - 1)>>

\* Everything the first n calls handed over, in order.
FedItems(n) == FlattenSeq([i \in 1..n |-> FeedArg(i - 1)])

FirstOf(S) == CHOOSE x \in S : \A y \in S : x <= y

\* sourceBuffer.buffered: the maximal runs of buffered seconds, ascending,
\* each as <<start, end>> with end exclusive.
Ranges(buf) ==
    LET starts == {t \in buf : t - 1 \notin buf}
        endOf(s) == FirstOf({u \in (s + 1)..(MaxSegs + 1) : u \notin buf})
    IN  [i \in 1..Cardinality(starts) |->
           LET s == FirstOf({x \in starts :
                       Cardinality({y \in starts : y < x}) = i - 1})
           IN  <<s, endOf(s)>>]

\* initCleanup's loop: every range that starts before the position and
\* before removeBound (2 s before the end of the last range) is removed,
\* the range containing removeBound only up to it.
CleanRanges(ct, buf) ==
    LET rs    == Ranges(buf)
        bound == rs[Len(rs)][2] - Keep
        pick(r) == IF ct <= r[1] \/ bound <= r[1] THEN <<>>
                   ELSE IF bound <= r[2] /\ bound >= r[1]
                        THEN IF bound # r[1] THEN << <<r[1], bound>> >> ELSE <<>>
                        ELSE << r >>
    IN  FlattenSeq([i \in 1..Len(rs) |-> pick(rs[i])])

\* sourceBuffer.appendBuffer / remove: the SourceBuffer starts updating.
StartOp(s, o) == [s EXCEPT !.updating = TRUE, !.op = o]

\* doCleanup with a range left: cleaning, remove the first range.
DoCleanup(s) ==
    LET r == Head(s.cleanRanges)
    IN  StartOp([s EXCEPT !.cleanRanges = Tail(@), !.cleaning = TRUE],
                [NoOp EXCEPT !.k = "remove", !.s = r[1], !.e = r[2]])

\* Mutant: the failed segment is requeued at the back (push for unshift).
QuotaFailRequeueLast(s, d) ==
    LET s1 == [s EXCEPT !.queue = @ \o <<d>>]
        rs == IF s1.buf = {} THEN <<>> ELSE CleanRanges(s1.ct, s1.buf)
    IN  IF rs = <<>> THEN [s1 EXCEPT !.cleaning = FALSE, !.overflow = TRUE]
        ELSE DoCleanup([s1 EXCEPT !.cleanRanges = rs])

\* doAppend's QuotaExceededError: queue.unshift(data), then initCleanup.
\* When initCleanup finds nothing to remove, doCleanup (or its else
\* branch) calls feedNext, which calls doAppend with the same segment on
\* the same SourceBuffer: it fails the same way, and the recursion runs
\* until the stack is exhausted (a RangeError thrown out of the handler).
QuotaFail(s, d) ==
    LET s1 == [s EXCEPT !.queue = <<d>> \o @]
        rs == IF s1.buf = {} THEN <<>> ELSE CleanRanges(s1.ct, s1.buf)
    IN  IF rs = <<>> THEN [s1 EXCEPT !.cleaning = FALSE, !.overflow = TRUE]
        ELSE DoCleanup([s1 EXCEPT !.cleanRanges = rs])

\* doAppend: after a media error the players are stopped and 'error'
\* dispatched (Remuxer.mseClose stops the client); the segment is lost.
\* Otherwise appendBuffer, which throws QuotaExceededError when the
\* SourceBuffer is full.
DoAppend(s, d) ==
    IF s.err THEN [s EXCEPT !.stopped = TRUE]
    ELSE IF Cardinality(s.buf) >= Quota THEN QuotaFail(s, d)
    ELSE [StartOp(s, [NoOp EXCEPT !.k = "append", !.d = d]) EXCEPT !.log = Append(@, d)]

\* feedNext: append the head of the queue when the SourceBuffer is idle.
FeedNext(s) ==
    IF ~s.updating /\ ~s.cleaning /\ s.queue # <<>>
    THEN DoAppend([s EXCEPT !.queue = Tail(@)], Head(s.queue))
    ELSE s

\* Mutant: the position is not moved after a removal.
AfterUpdateNoJump(s) ==
    IF s.cleaning
    THEN LET c == [s EXCEPT !.cleaning = FALSE]
         IN  IF c.cleanRanges # <<>> THEN DoCleanup(c) ELSE FeedNext(c)
    ELSE FeedNext(s)

\* Mutant: the listener returns after every removal, without feedNext.
AfterUpdateReturnAfterClean(s) ==
    IF s.cleaning
    THEN LET j == IF s.buf # {} /\ s.ct < FirstOf(s.buf)
                  THEN [s EXCEPT !.ct = FirstOf(s.buf)] ELSE s
             c == [j EXCEPT !.cleaning = FALSE]
         IN  IF c.cleanRanges # <<>> THEN DoCleanup(c) ELSE c
    ELSE FeedNext(s)

\* The 'updateend' listener: after a removal (cleaning) the position is
\* moved to the start of the buffer when it lies before it, the clean
\* resolvers run, cleaning ends and the next range is removed (return);
\* otherwise the next segment is fed.
AfterUpdate(s) ==
    IF s.cleaning
    THEN LET j == IF s.buf # {} /\ s.ct < FirstOf(s.buf)
                  THEN [s EXCEPT !.ct = FirstOf(s.buf)] ELSE s
             c == [j EXCEPT !.cleaning = FALSE]
         IN  IF c.cleanRanges # <<>> THEN DoCleanup(c) ELSE FeedNext(c)
    ELSE FeedNext(s)

\* MSEBuffer's constructor: a new SourceBuffer, nothing queued; its
\* feedNext finds the queue empty.
Init ==
    /\ m = [queue |-> <<>>, buf |-> {}, updating |-> FALSE, op |-> NoOp,
            cleaning |-> FALSE, cleanRanges |-> <<>>, ct |-> 0,
            err |-> FALSE, stopped |-> FALSE, overflow |-> FALSE, log |-> <<>>]
    /\ nFed = 0
    /\ dead = FALSE

\* MSE.feed -> MSEBuffer.feed: queue.concat(data), and feedNext when the
\* SourceBuffer is idle and no cleanup runs.  Remuxer.mseClose stops the
\* client after an error, so nothing is fed then.
Feed ==
    /\ ~dead /\ ~m.stopped /\ nFed <= MaxSegs
    /\ LET s1 == [m EXCEPT !.queue = @ \o FeedArg(nFed)]
       IN  m' = IF ~s1.updating /\ ~s1.cleaning THEN FeedNext(s1) ELSE s1
    /\ nFed' = nFed + 1
    /\ UNCHANGED dead

\* The browser finishes the append or the removal and fires 'updateend'.
UpdateEnd ==
    /\ ~dead /\ m.updating
    /\ LET o  == m.op
           b  == IF o.k = "append" /\ o.d.k = "mdat" THEN m.buf \cup {o.d.t}
                 ELSE IF o.k = "remove" THEN {t \in m.buf : t < o.s \/ t >= o.e}
                 ELSE m.buf
       IN  m' = AfterUpdate([m EXCEPT !.updating = FALSE, !.op = NoOp, !.buf = b])
    /\ UNCHANGED <<nFed, dead>>

\* The append fails to decode: 'error' (removeSourceBuffer and the
\* parent's 'error': the client is stopped), the media element reports
\* the error, then 'updateend'.
AppendError ==
    /\ ~dead /\ m.updating /\ m.op.k = "append"
    /\ m' = AfterUpdate([m EXCEPT !.updating = FALSE, !.op = NoOp,
                                  !.err = TRUE, !.stopped = TRUE])
    /\ UNCHANGED <<nFed, dead>>

\* The video plays one second of buffered media.
Play ==
    /\ ~dead /\ m.ct \in m.buf
    /\ m' = [m EXCEPT !.ct = @ + 1]
    /\ UNCHANGED <<nFed, dead>>

\* MSE.reset (Remuxer.reset on the client's 'clear'): destroy removes the
\* listeners, empties the queue and removes the SourceBuffer.
Destroy ==
    /\ ~dead
    /\ dead' = TRUE
    /\ m' = [m EXCEPT !.queue = <<>>, !.updating = FALSE, !.op = NoOp]
    /\ UNCHANGED nFed

Next == Feed \/ UpdateEnd \/ AppendError \/ Play \/ Destroy

\* The browser completes every started operation.
Spec == Init /\ [][Next]_vars /\ WF_vars(UpdateEnd)

-----------------------------------------------------------------------------

TypeOK ==
    /\ m.queue \in Seq(Items) /\ m.log \in Seq(Items)
    /\ m.buf \subseteq 0..(MaxSegs - 1) /\ m.ct \in 0..MaxSegs
    /\ m.cleanRanges \in Seq((0..MaxSegs) \X (0..MaxSegs))
    /\ m.op.k \in {"none", "append", "remove"}
    /\ {m.updating, m.cleaning, m.err, m.stopped, m.overflow} \subseteq BOOLEAN
    /\ nFed \in 0..(MaxSegs + 1) /\ dead \in BOOLEAN

\* Until an error stops the client, the segments reach appendBuffer in the
\* order MSE.feed handed them over, none lost or repeated: what was
\* appended followed by what is queued is exactly what was fed, across
\* QuotaExceededError requeues and cleanups.
FifoDelivery == (~dead /\ ~m.stopped) => m.log \o m.queue = FedItems(nFed)

\* The video never waits in a hole in front of buffered media: when no
\* removal is pending, its position is buffered or lies after everything
\* buffered.  initCleanup may remove the media at the position; the
\* 'updateend' listener then moves the position to the buffer's start.
PositionBuffered ==
    (~dead /\ ~m.updating) => (m.ct \in m.buf \/ \A t \in m.buf : t < m.ct)

\* Every queued segment is eventually appended, unless the buffer is
\* destroyed, an error stops the client, or the quota recursion has thrown.
QueueDrains == <>[](dead \/ m.stopped \/ m.overflow \/ m.queue = <<>>)

=============================================================================
