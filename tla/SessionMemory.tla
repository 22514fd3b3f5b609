---------------------------- MODULE SessionMemory ----------------------------
(***************************************************************************)
(* The memory plan of a session: src/memory_plan.rs, the part arithmetic   *)
(* of src/math.rs and plan_runtime of src/capture_runtime.rs, as operators *)
(* over the parameters of a session.                                       *)
(*                                                                         *)
(* A byte count is a natural number no larger than Word, or Over. Beside   *)
(* what the plan computes stands Allocations, the list of what the arena,  *)
(* the rings, the workspace and the detector really ask the allocator for. *)
(* The workspace's two buffers for rendering a name are among them, and no *)
(* component of the plan is.                                               *)
(***************************************************************************)
EXTENDS Integers, Sequences, FiniteSetsExt

CONSTANTS
    Word,      \* the largest u64
    Index,     \* the largest u32
    PageSize   \* system_page_size

Over == -1

\* checked_add and checked_mul, with the error carried along.
Plus(a, b) == IF a = Over \/ b = Over \/ a > Word - b THEN Over ELSE a + b
Times(a, b) ==
    IF a = Over \/ b = Over THEN Over
    ELSE IF b # 0 /\ a > Word \div b THEN Over ELSE a * b
DivCeil(a, b) == (a + b - 1) \div b

\* allocation_budget_bytes: payload and the allocator's header in whole pages.
HeaderReserve == 64
Budget(payload) ==
    LET reserved == Plus(payload, HeaderReserve)
    IN IF reserved = Over THEN Over ELSE Times(DivCeil(reserved, PageSize), PageSize)
Padding(payload) == IF Budget(payload) = Over THEN Over ELSE Budget(payload) - payload

-----------------------------------------------------------------------------
(* src/math.rs                                                             *)

\* derive_chunk_frames: a quarter of a second unless configured.
Unset == -1
ChunkFrames(rate, requested) ==
    IF requested # Unset THEN requested ELSE Max({(rate * 250) \div 1000, 1})

\* wav_frames_per_part and wav_part_count for 24-bit samples.
WavHeader == 44
WavSampleBytes == 3
FramesPerPart(split) == (split - WavHeader) \div WavSampleBytes
SplitOk(split) == split > WavHeader /\ FramesPerPart(split) > 0
PartCount(frames, split) == DivCeil(frames, FramesPerPart(split))

\* wav_parts_for_channel and absolute_split_range: <<first, end>> of every part.
PartRange(first, end, split, i) ==
    LET start == first + i * FramesPerPart(split)
    IN <<start, start + Min({FramesPerPart(split), end - start})>>

\* required_bytes_with_headroom: the ratio of the f64 is exact, the quotient is
\* rounded up.
WithHeadroom(bytes, h) ==
    LET required == DivCeil(bytes * h.num, h.den)
    IN IF required > Word THEN Over ELSE required

-----------------------------------------------------------------------------
(* SessionMemoryPlan::calculate                                            *)

RingCount == 2
SampleBytes == 4
ArtifactSlot == 96      \* size_of CurrentArtifactSlot
FixedPaths == 5         \* MANIFEST_FIXED_PATH_ENTRIES

\* validate_inputs, plan_runtime's own checks and the window geometry.
InputsOk(p) ==
    /\ p.calibration <= 30
    /\ p.seconds > 0 /\ p.rate > 0 /\ p.channels > 0 /\ p.chunk # 0
    /\ p.controls > 0 /\ p.stack > 0 /\ p.queue > 0 /\ p.io > 0 /\ p.path > 0
    /\ p.headroom.num >= p.headroom.den
    /\ SplitOk(p.split)

Retention(p) == Times(p.seconds, p.rate)
ChunkCount(p) == DivCeil(Retention(p), ChunkFrames(p.rate, p.chunk))
AllocatedFrames(p) == Times(ChunkCount(p), ChunkFrames(p.rate, p.chunk))
ChunkBytes(p) == Times(Times(ChunkFrames(p.rate, p.chunk), p.channels), SampleBytes)

CalibrationFrames(p) == Times(p.calibration, p.rate)
WindowFrames(p) == Max({DivCeil(p.rate * 20, 1000), 1})
HopFrames(p) == Max({DivCeil(p.rate * 10, 1000), 1})
CalibrationWindows(p) ==
    IF CalibrationFrames(p) < WindowFrames(p) THEN 0
    ELSE (CalibrationFrames(p) - WindowFrames(p)) \div HopFrames(p) + 1

PartSlots(p) == Times(PartCount(Retention(p), p.split), p.channels)
PathSlots(p) == Plus(Times(PartSlots(p), 2), FixedPaths)
DirectorySlots(p) == Times(PartSlots(p), DivCeil(p.path, 2))
ManifestPaths(p) == Plus(Times(PartSlots(p), 3), FixedPaths)
ManifestBytes(p) ==
    Plus(Plus(1024, Times(ManifestPaths(p), Plus(Times(p.path, 6), 256))),
         Times(DirectorySlots(p), 192))

\* The byte counts of the components vector, in its order.
CalibrationBudget(payload) == IF payload = 0 THEN 0 ELSE Budget(payload)
Components(p) == <<
    Times(Times(Times(AllocatedFrames(p), p.channels), SampleBytes), RingCount),
    Times(Times(ChunkCount(p), Padding(ChunkBytes(p))), RingCount),
    Times(Times(ChunkCount(p), Budget(512)), RingCount),
    Times(Budget(Times(ChunkCount(p), 8)), RingCount),
    Times(Budget(512), RingCount),
    Times(p.queue, Budget(ChunkBytes(p))),
    Budget(Times(p.queue, 64)),
    Budget(512),
    Budget(p.stack),
    CalibrationBudget(Times(CalibrationFrames(p), SampleBytes)),
    CalibrationBudget(Times(CalibrationWindows(p), SampleBytes)),
    CalibrationBudget(Times(CalibrationWindows(p), SampleBytes)),
    Budget(256),
    Plus(ChunkBytes(p), Times(p.channels, p.io)),
    Plus(Padding(ChunkBytes(p)), Times(p.channels, Padding(p.io))),
    Budget(Times(PartSlots(p), 32)),
    Budget(Times(p.channels, 256)),
    Times(PathSlots(p), p.path),
    Times(PathSlots(p), Padding(p.path)),
    Budget(Times(PathSlots(p), 32)),
    Budget(Times(PartSlots(p), 128)),
    Budget(Times(DirectorySlots(p), 64)),
    Plus(Plus(Budget(Times(DirectorySlots(p), 16)), Times(2, Budget(Plus(p.path, 1)))),
         Budget(ArtifactSlot)),
    Budget(ManifestBytes(p)),
    Budget(Times(ManifestPaths(p), p.path)),
    Budget(p.stack),
    Budget(Times(p.controls, 256)),
    Budget(512),
    Budget(Times(p.channels, 24)),
    Plus(Plus(Budget(Times(p.channels, 104)), Budget(Times(p.channels, 24))),
         Budget(ChunkBytes(p))) >>

Committed(p) ==
    LET c == Components(p)
        total[i \in 0 .. Len(c)] == IF i = 0 THEN 0 ELSE Plus(total[i - 1], c[i])
    IN total[Len(c)]

\* calculate and validate_max.
Required(p) == IF Committed(p) = Over THEN Over ELSE WithHeadroom(Committed(p), p.headroom)
PlanOk(p) ==
    /\ InputsOk(p)
    /\ Retention(p) # Over /\ ChunkCount(p) <= Index
    /\ Required(p) # Over
    /\ p.maximum # Unset => Required(p) <= p.maximum

\* What validate_workspace_plan adds.
WorkspaceOk(p) ==
    /\ p.io >= WavSampleBytes
    /\ PartCount(Retention(p), p.split) <= Index /\ PathSlots(p) <= Index

-----------------------------------------------------------------------------
(* What is allocated, as [n blocks, bytes of each], in order. A block of no *)
(* bytes is not allocated. The arithmetic is that of the numbers, not of   *)
(* the machine.                                                            *)

Blocks(n, bytes) == [n |-> n, bytes |-> bytes]
Present(bs) == SelectSeq(bs, LAMBDA b : b.n * b.bytes > 0)

ChunkBlock(p) == ChunkFrames(p.rate, p.chunk) * p.channels * SampleBytes

\* CaptureArena::allocate_runtime.
ArenaBlocks(p) ==
    LET chunks == DivCeil(p.seconds * p.rate, ChunkFrames(p.rate, p.chunk))
        samples == p.calibration * p.rate
        windows == IF samples < WindowFrames(p) THEN 0
                   ELSE (samples - WindowFrames(p)) \div HopFrames(p) + 1
        ring == << Blocks(chunks, ChunkBlock(p)), Blocks(chunks, 512), Blocks(1, chunks * 8),
                   Blocks(1, 512) >>
    IN Present(
       << Blocks(1, samples * SampleBytes), Blocks(2, windows * SampleBytes), Blocks(1, 256),
          Blocks(p.queue, ChunkBlock(p)), Blocks(1, p.queue * 64) >>
       \o ring \o ring \o
       << Blocks(1, 512), Blocks(1, p.stack) >>)

\* render_directory and render_filename of the workspace.
RenderBlocks(p) == Blocks(2, p.path)

\* PersistenceWorkspace::allocate, FrozenExportDecision::new and the operation lane.
WorkspaceBlocks(p) ==
    LET parts == DivCeil(p.seconds * p.rate, FramesPerPart(p.split)) * p.channels
        paths == parts * 2 + FixedPaths
        directories == parts * DivCeil(p.path, 2)
        entries == parts * 3 + FixedPaths
    IN Present(
       << Blocks(1, ChunkBlock(p)),
          Blocks(1, p.channels * 104), Blocks(1, ChunkBlock(p)), Blocks(1, p.channels * 24),
          Blocks(p.channels, p.io), Blocks(1, p.channels * 256),
          Blocks(1, parts * 32), Blocks(paths, p.path), Blocks(1, paths * 32),
          RenderBlocks(p),
          Blocks(1, parts * 128), Blocks(1, directories * 64),
          Blocks(1, entries * p.path),
          Blocks(1, entries * (p.path * 6 + 256) + directories * 192 + 1024),
          Blocks(1, directories * 16), Blocks(1, ArtifactSlot), Blocks(2, p.path + 1),
          Blocks(1, p.channels * 24),
          Blocks(1, p.stack), Blocks(1, p.controls * 256), Blocks(1, 512) >>)

Allocations(p) == ArenaBlocks(p) \o WorkspaceBlocks(p)

\* Whole pages a list of blocks needs, headers included.
Footprint(bs) ==
    LET pages[i \in 0 .. Len(bs)] ==
            IF i = 0 THEN 0
            ELSE pages[i - 1] + bs[i].n * DivCeil(bs[i].bytes + HeaderReserve, PageSize)
    IN pages[Len(bs)] * PageSize
=============================================================================
