--------------------------- MODULE CaptureRuntime ---------------------------
(***************************************************************************)
(* CaptureRuntime::build of src/capture_runtime.rs: the plan, the blocks   *)
(* it allocates one by one, first the arena's and then, if the workspace   *)
(* accepts the plan, the workspace's; the ring of an epoch over the        *)
(* planned geometry, and what the workspace says of a frozen range.        *)
(***************************************************************************)
EXTENDS SessionMemory, SampleRing

CONSTANTS Params   \* CaptureRuntimeParams with a rate and channels

VARIABLES
    params,
    build,    \* "start", "arena", "workspace", "running", "refused", "failed"
    planned,  \* the blocks of the parts under construction
    array,    \* index into planned of the array under construction
    filled,   \* ExactArrayInitGuard.initialized
    blocks    \* blocks held: array -> elements

runtimeVars == <<ringVars, params, build, planned, array, filled, blocks>>

RuntimeInit ==
    /\ params \in Params
    /\ build = "start"
    /\ planned = <<>> /\ array = 1 /\ filled = 0
    /\ blocks = <<>>
    /\ RingInit(1, 1)

\* plan_runtime, before anything is allocated.
Plan ==
    /\ build = "start"
    /\ build' = IF PlanOk(params) THEN "arena" ELSE "refused"
    /\ planned' = IF PlanOk(params) THEN ArenaBlocks(params) ELSE <<>>
    /\ UNCHANGED <<ringVars, params, array, filled, blocks>>

Allocating == build \in {"arena", "workspace"}

\* ExactArray::try_from_fn and MaterializedBuffer::new_zeroed: the next element.
Allocate ==
    /\ Allocating /\ array <= Len(planned)
    /\ LET n == planned[array].n
           whole == filled + 1 = n
       IN /\ blocks' = IF filled = 0 THEN Append(blocks, 1) ELSE [blocks EXCEPT ![array] = @ + 1]
          /\ filled' = IF whole THEN 0 ELSE filled + 1
          /\ array' = IF whole THEN array + 1 ELSE array
    /\ UNCHANGED <<ringVars, params, build, planned>>


\* The guard drops what it initialised, the arrays that were complete drop their
\* elements.
BlocksDropped ==
    [i \in DOMAIN blocks |-> IF i < array THEN blocks[i] - planned[i].n ELSE blocks[i] - filled]

\* An allocation fails.
AllocationFails ==
    /\ Allocating /\ array <= Len(planned)
    /\ build' = "failed"
    /\ blocks' = BlocksDropped
    /\ UNCHANGED <<ringVars, params, planned, array, filled>>

\* validate_workspace_plan, called when the arena is complete: if it refuses, the
\* arena is dropped.
ValidateWorkspace ==
    /\ build = "arena" /\ array > Len(planned)
    /\ \/ /\ WorkspaceOk(params)
          /\ build' = "workspace"
          /\ planned' = planned \o WorkspaceBlocks(params)
          /\ UNCHANGED blocks
       \/ /\ ~WorkspaceOk(params)
          /\ build' = "failed"
          /\ blocks' = BlocksDropped
          /\ UNCHANGED planned
    /\ UNCHANGED <<ringVars, params, array, filled>>

\* Every block is there; the ring has the planned geometry.
Run ==
    /\ build = "workspace" /\ array > Len(planned)
    /\ build' = "running"
    /\ LET f == ChunkFrames(params.rate, params.chunk)
           n == ChunkCount(params)
       IN /\ cfg' = [frames |-> f, count |-> n]
          /\ chunks' = [i \in 0 .. n - 1 |-> FreshChunk]
          /\ data' = [i \in 0 .. n - 1 |-> [o \in 0 .. f - 1 |-> <<0, 0>>]]
    /\ UNCHANGED <<writeChunk, head, clearAfter, nextSequence, dropped, activeSnapshots, todo,
                   clearing, snap, era, params, planned, array, filled, blocks>>

RingStep == build = "running" /\ RingNext /\ UNCHANGED <<params, build, planned, array, filled, blocks>>

RuntimeNext == Plan \/ Allocate \/ AllocationFails \/ ValidateWorkspace \/ Run \/ RingStep

RuntimeSpec == RuntimeInit /\ [][RuntimeNext]_runtimeVars

-----------------------------------------------------------------------------
\* validate_frozen, and the output slots of the workspace, for a freeze now.
ValidateFrozen(frames) ==
    /\ frames > 0
    /\ frames <= Retention(params)
PartsFit(frames) == PartCount(frames, params.split) * params.channels <= PartSlots(params)

\* The plan commits to the whole pages of all the blocks that will be allocated but
\* the two the workspace renders names in, and it reports an overflow only when those
\* pages do not fit a word.
PlanExact ==
    build = "start" /\ InputsOk(params) /\ Retention(params) # Over =>
        LET pages == Footprint(Allocations(params)) - Footprint(<<RenderBlocks(params)>>)
        IN Committed(params) = IF pages > Word THEN Over ELSE pages

\* A start that is refused or that runs out of memory holds no block, one that
\* runs holds each block once.
NothingLeaks ==
    /\ build \in {"refused", "failed"} => \A i \in DOMAIN blocks : blocks[i] = 0
    /\ build = "running" =>
         \A i \in DOMAIN planned : blocks[i] = planned[i].n

\* Where the chunk divides the retention, the workspace has room for whatever the
\* ring of an epoch holds: it accepts the range, a slot exists for each of its
\* parts, and the parts are the range cut without a gap.
RangeFits ==
    (build = "running" /\ Retention(params) % Frames = 0 /\ Retained > 0) =>
        /\ ValidateFrozen(Retained)
        /\ PartsFit(Retained)
        /\ LET n == PartCount(Retained, params.split)
               P(i) == PartRange(Oldest(head), head, params.split, i)
           IN /\ P(0)[1] = Oldest(head) /\ P(n - 1)[2] = head
              /\ \A i \in 0 .. n - 2 : P(i)[2] = P(i + 1)[1]

\* What validate_frozen calls an invariant of the export (persistence_workspace.rs
\* 2762): every range an epoch can hold is accepted by the workspace.
FrozenAccepted == (build = "running" /\ Retained > 0) => ValidateFrozen(Retained)
=============================================================================
