----------------------------- MODULE SampleRing -----------------------------
(***************************************************************************)
(* The chunked ring of src/sample_ring.rs: one writer, snapshots that pin  *)
(* chunks, clear and reset.                                                *)
(*                                                                         *)
(* What happens under the write_chunk mutex is one step. The writer takes  *)
(* the mutex once per chunk, clear never takes it, a snapshot is validated *)
(* after the mutex is released and dropped pin by pin. A frame of audio is *)
(* <<era, n>>: the n-th frame written since the era's reset.               *)
(***************************************************************************)
EXTENDS Naturals, Sequences, SequencesExt, FiniteSetsExt

CONSTANTS
    Readers,       \* threads that take snapshots
    MaxSnapshots,  \* max_active_snapshots
    MaxWrite,      \* bound: frames of one write
    MaxHead,       \* bound: write head of a ring
    MaxEras,       \* bound: resets
    MaxDropped     \* bound: no drop begins above it

VARIABLES
    cfg,         \* chunk_frames and chunk_count
    chunks,      \* sequence, state, pin_count, valid_start, valid_count
    data,        \* chunk -> offset -> frame of audio
    writeChunk, head, clearAfter, nextSequence, dropped, activeSnapshots,
    todo,        \* frames left of the writer's call
    clearing,    \* the head that clear loaded, or NoClear
    snap,        \* what each reader holds
    era

ringVars == <<cfg, chunks, data, writeChunk, head, clearAfter, nextSequence, dropped,
              activeSnapshots, todo, clearing, snap, era>>

NoClear == MaxHead + 1
NoSnapshot == [pc |-> "none", from |-> 0, to |-> 0, segments |-> <<>>, guard |-> FALSE, era |-> 0]
Frames == cfg.frames
Count == cfg.count
Indices == 0 .. Count - 1
FreshChunk == [sequence |-> 0, state |-> "writable", pins |-> 0, start |-> 0, count |-> 0]

RingInit(frames, count) ==
    /\ cfg = [frames |-> frames, count |-> count]
    /\ chunks = [i \in 0 .. count - 1 |-> FreshChunk]
    /\ data = [i \in 0 .. count - 1 |-> [o \in 0 .. frames - 1 |-> <<0, 0>>]]
    /\ writeChunk = 0 /\ head = 0 /\ clearAfter = 0 /\ nextSequence = 1
    /\ dropped = 0 /\ activeSnapshots = 0
    /\ todo = 0 /\ clearing = NoClear
    /\ snap = [r \in Readers |-> NoSnapshot]
    /\ era = 0

-----------------------------------------------------------------------------
(* Reading the ring under the mutex                                        *)

ChunkOf(f) == (f \div Frames) % Count
EndOf(c) == c.start + c.count

\* oldest_frame_at: back from the head over published chunks that meet.
Oldest(at) ==
    LET Back(f) == chunks[ChunkOf(f - 1)]
        walk[n \in 0 .. Count] ==
            IF n = 0 THEN at
            ELSE LET f == walk[n - 1]
                 IN IF f = 0 \/ Back(f).state # "published" \/ Back(f).start >= f
                       \/ EndOf(Back(f)) < f
                    THEN f ELSE Back(f).start
    IN Max({walk[Count], clearAfter})

\* status
Retained == IF head > Oldest(head) THEN head - Oldest(head) ELSE 0

\* copy_interleaved_range_into with a destination of room frames: the frames it
\* copies, or "error".
Copy(from, to, room) ==
    LET end == Min({to, from + room})
        oldest == Oldest(head)
        Found(f) ==
            LET c == chunks[ChunkOf(f)]
            IN c.state = "published" /\ f >= c.start /\ f < EndOf(c)
    IN IF from > to \/ from < oldest \/ to > head THEN "error"
       ELSE IF \E f \in from .. end - 1 : ~Found(f) THEN "error"
       ELSE [i \in 1 .. end - from |->
                data[ChunkOf(from + i - 1)][from + i - 1 - chunks[ChunkOf(from + i - 1)].start]]

-----------------------------------------------------------------------------
(* write_interleaved                                                       *)

Write(n) ==
    /\ todo = 0 /\ head + n <= MaxHead /\ dropped <= MaxDropped
    /\ todo' = n
    /\ UNCHANGED <<cfg, chunks, data, writeChunk, head, clearAfter, nextSequence, dropped,
                   activeSnapshots, clearing, snap, era>>

\* record_overrun: the rest of the call is dropped while its chunk is pinned.
WritePinned ==
    /\ todo > 0
    /\ chunks[writeChunk].pins > 0
    /\ dropped' = dropped + todo
    /\ todo' = 0
    /\ UNCHANGED <<cfg, chunks, data, writeChunk, head, clearAfter, nextSequence,
                   activeSnapshots, clearing, snap, era>>

WriteInto ==
    LET offset == head % Frames
        n == Min({Frames - offset, todo})
        c == chunks[writeChunk]
        entered == IF offset = 0 THEN [c EXCEPT !.start = head, !.sequence = nextSequence] ELSE c
    IN /\ chunks' = [chunks EXCEPT ![writeChunk] =
                        [entered EXCEPT !.count = offset + n, !.state = "published"]]
       /\ data' = [data EXCEPT ![writeChunk] =
                    [o \in 0 .. Frames - 1 |->
                        IF o \in offset .. offset + n - 1 THEN <<era, head + o - offset>> ELSE @[o]]]
       /\ nextSequence' = IF offset = 0 THEN nextSequence + 1 ELSE nextSequence
       /\ head' = head + n
       /\ todo' = todo - n
       /\ writeChunk' = IF offset + n >= Frames THEN (writeChunk + 1) % Count ELSE writeChunk
       /\ UNCHANGED <<cfg, clearAfter, dropped, activeSnapshots, clearing, snap, era>>

\* Mutant of WriteChunk: a chunk that is entered anew is taken without a look at
\* its pins.
WriteChunkUnpinned == todo > 0 /\ (head % Frames = 0 \/ chunks[writeChunk].pins = 0) /\ WriteInto

WriteChunk ==
    /\ todo > 0
    /\ chunks[writeChunk].pins = 0
    /\ WriteInto

\* record_dropped_frames: a backend that lost frames says so.
RecordDropped(n) ==
    /\ dropped < MaxDropped
    /\ dropped' = dropped + n
    /\ UNCHANGED <<cfg, chunks, data, writeChunk, head, clearAfter, nextSequence,
                   activeSnapshots, todo, clearing, snap, era>>

-----------------------------------------------------------------------------
(* Snapshots                                                               *)

\* collect_segments: the published chunks that overlap the range, from the chunk
\* of its first frame on.
Segments(from, to) ==
    LET order == [k \in 1 .. Count |-> (ChunkOf(from) + k - 1) % Count]
        Overlaps(i) == /\ chunks[i].state = "published"
                       /\ EndOf(chunks[i]) > from /\ chunks[i].start < to
        Segment(i) == LET a == Max({chunks[i].start, from})
                      IN [chunk |-> i, sequence |-> chunks[i].sequence,
                          offset |-> a - chunks[i].start,
                          n |-> Min({EndOf(chunks[i]), to}) - a]
        chosen == SelectSeq(order, Overlaps)
    IN [k \in DOMAIN chosen |-> Segment(chosen[k])]

\* snapshot_range and pin_snapshot_range, under the mutex. An empty range takes
\* no slot, a full table or a range that is not retained is an error and changes
\* nothing.
Pin(r, from, to) ==
    /\ snap[r].pc = "none"
    /\ from < to => activeSnapshots < MaxSnapshots
    /\ from <= to /\ to <= head /\ from >= Oldest(head)
    /\ LET segments == IF from = to THEN <<>> ELSE Segments(from, to)
       IN /\ chunks' = [i \in Indices |-> [chunks[i] EXCEPT !.pins =
                            @ + Cardinality({k \in DOMAIN segments : segments[k].chunk = i})]]
          /\ snap' = [snap EXCEPT ![r] = [pc |-> "pinned", from |-> from, to |-> to,
                        segments |-> segments, guard |-> from < to, era |-> era]]
    /\ activeSnapshots' = activeSnapshots + (IF from < to THEN 1 ELSE 0)
    /\ UNCHANGED <<cfg, data, writeChunk, head, clearAfter, nextSequence, dropped, todo,
                   clearing, era>>

\* snapshot_last_frames and select_snapshot compute the range under the same lock.
PinLast(r, n) == Pin(r, Max({head - Min({n, head}), Oldest(head)}), head)
PinSelect(r, committed) == Pin(r, Max({committed, Oldest(head)}), head)

\* finish_snapshot, without the mutex: sorted, the segments have to meet from the
\* range's start to its end.
StartOf(s) == chunks[s.chunk].start + s.offset
Sorted(segments) == SortSeq(segments, LAMBDA a, b : StartOf(a) < StartOf(b))
Covered(s) ==
    LET q == Sorted(s.segments)
    IN IF q = <<>> THEN s.from = s.to
       ELSE /\ StartOf(q[1]) = s.from
            /\ \A k \in 1 .. Len(q) - 1 : StartOf(q[k]) + q[k].n = StartOf(q[k + 1])
            /\ StartOf(q[Len(q)]) + q[Len(q)].n = s.to

Finish(r) ==
    /\ snap[r].pc = "pinned"
    /\ snap' = [snap EXCEPT ![r].pc = IF Covered(snap[r]) THEN "live" ELSE "dropping",
                            ![r].segments = Sorted(@)]
    /\ UNCHANGED <<cfg, chunks, data, writeChunk, head, clearAfter, nextSequence, dropped,
                   activeSnapshots, todo, clearing, era>>

\* read_channel_samples: the frames, or "error".
Read(s) ==
    IF \E k \in DOMAIN s.segments :
          LET c == chunks[s.segments[k].chunk]
          IN c.sequence # s.segments[k].sequence \/ c.state # "published"
    THEN "error"
    ELSE FlattenSeq([k \in DOMAIN s.segments |->
            [j \in 1 .. s.segments[k].n |-> data[s.segments[k].chunk][s.segments[k].offset + j - 1]]])

\* Snapshot::drop: the pins one after the other, then the slot.
DropStart(r) ==
    /\ snap[r].pc = "live"
    /\ snap' = [snap EXCEPT ![r].pc = "dropping"]
    /\ UNCHANGED <<cfg, chunks, data, writeChunk, head, clearAfter, nextSequence, dropped,
                   activeSnapshots, todo, clearing, era>>
Unpin(r) ==
    /\ snap[r].pc = "dropping" /\ snap[r].segments # <<>>
    /\ chunks' = [chunks EXCEPT ![Head(snap[r].segments).chunk].pins = @ - 1]
    /\ snap' = [snap EXCEPT ![r].segments = Tail(@)]
    /\ UNCHANGED <<cfg, data, writeChunk, head, clearAfter, nextSequence, dropped,
                   activeSnapshots, todo, clearing, era>>
Dropped(r) ==
    /\ snap[r].pc = "dropping" /\ snap[r].segments = <<>>
    /\ activeSnapshots' = activeSnapshots - (IF snap[r].guard THEN 1 ELSE 0)
    /\ snap' = [snap EXCEPT ![r] = NoSnapshot]
    /\ UNCHANGED <<cfg, chunks, data, writeChunk, head, clearAfter, nextSequence, dropped,
                   todo, clearing, era>>

-----------------------------------------------------------------------------
(* clear loads the head and stores it, without the mutex.                  *)

ClearLoad ==
    /\ clearing = NoClear
    /\ clearing' = head
    /\ UNCHANGED <<cfg, chunks, data, writeChunk, head, clearAfter, nextSequence, dropped,
                   activeSnapshots, todo, snap, era>>
ClearStore ==
    /\ clearing # NoClear
    /\ clearAfter' = clearing /\ clearing' = NoClear
    /\ UNCHANGED <<cfg, chunks, data, writeChunk, head, nextSequence, dropped,
                   activeSnapshots, todo, snap, era>>

\* reset refuses while a snapshot or a pin is there; otherwise everything but the
\* samples goes back to the start. The capture worker, who resets, is the writer
\* and the one who clears.
ResetReady == activeSnapshots = 0 /\ \A i \in Indices : chunks[i].pins = 0
Reset ==
    /\ todo = 0 /\ clearing = NoClear /\ era < MaxEras
    /\ ResetReady
    /\ chunks' = [i \in Indices |-> FreshChunk]
    /\ writeChunk' = 0 /\ head' = 0 /\ clearAfter' = 0 /\ nextSequence' = 1 /\ dropped' = 0
    /\ era' = era + 1
    /\ UNCHANGED <<cfg, data, activeSnapshots, todo, clearing, snap>>

RingNext ==
    \/ \E n \in 1 .. MaxWrite : Write(n) \/ RecordDropped(n)
    \/ WritePinned \/ WriteChunk
    \/ \E r \in Readers :
          \/ \E a, b \in 0 .. MaxHead : Pin(r, a, b)
          \/ \E n \in 1 .. MaxWrite : PinLast(r, n)
          \/ \E n \in 0 .. MaxWrite : PinSelect(r, n)
          \/ Finish(r) \/ DropStart(r) \/ Unpin(r) \/ Dropped(r)
    \/ ClearLoad \/ ClearStore \/ Reset

-----------------------------------------------------------------------------
\* The audio of frames from .. to - 1 of an era.
Audio(e, from, to) == [i \in 1 .. to - from |-> <<e, from + i - 1>>]

\* A snapshot that passed its validation gives the same frames, those of its
\* range, for as long as it lives, whatever the writer, clear and reset do; and
\* the validation never fails, because the range was retained under the mutex.
SnapshotStable ==
    \A r \in Readers :
        /\ snap[r].pc = "pinned" => Covered(snap[r])
        /\ snap[r].pc = "live" => Read(snap[r]) = Audio(snap[r].era, snap[r].from, snap[r].to)

\* All that lies between the oldest frame and the head can be copied and is what
\* was written there, in destinations of any size.
RetainedReadable ==
    LET oldest == Oldest(head)
    IN oldest <= head =>
       \A from \in oldest .. head : \A room \in {Frames, Count * Frames} :
          Copy(from, head, room) = Audio(era, from, Min({head, from + room}))
=============================================================================
