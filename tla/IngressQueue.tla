---------------------------- MODULE IngressQueue ----------------------------
(***************************************************************************)
(* The ingress queue and the calibration slot of src/capture_arena.rs at   *)
(* the grain of their atomics: the realtime producer, the capture worker,  *)
(* a client that calibrates a channel, a daemon stop that cancels it, and  *)
(* the shutdown of the arena.                                              *)
(*                                                                         *)
(* A block is one source frame, numbered as the backend delivers it; a     *)
(* push carries one or two. Of the worker's commands only Shutdown is      *)
(* here, the others are in CaptureArena.                                   *)
(***************************************************************************)
EXTENDS Naturals, Sequences, FiniteSets

CONSTANTS
    Slots,         \* blocks the queue holds
    Window, Hop,   \* frames of a calibration window and between two windows
    MaxFrames,     \* bound: source frames
    MaxCalls,      \* bound: calibrations
    MaxFailures    \* bound: blocks the ring refuses

ASSUME IngressAssumption ==
    /\ Slots \in Nat \ {0} /\ Window \in Nat \ {0} /\ Hop \in Nat \ {0}
    /\ MaxFrames \in Nat /\ MaxCalls \in Nat /\ MaxFailures \in Nat

VARIABLES
    \* IngressQueue
    slot, published, consumed, cumulative, admitted, open, generation,
    \* the producer: where it is, the source frames of its push, what it loaded
    ppc, source, pushEnd,
    \* the worker
    wpc, seen, capture, written, commandTarget, workerDone, failures,
    \* CalibrationSlot
    state, request, metadata, samples,
    \* the calibrating client, the daemon's stop flag, the shutting-down owner
    cpc, calls, stop, spc,
    \* history: source frames counted as dropped, blocks taken from the queue, and
    \* the last source frame before the boundary of the last capture
    lost, drained, boundary

queueVars == <<slot, published, consumed, cumulative, admitted, open, generation>>
producerVars == <<ppc, source, pushEnd>>
workerVars == <<wpc, seen, capture, written, commandTarget, workerDone, failures>>
calibrationVars == <<state, request, metadata, samples>>
clientVars == <<cpc, calls, stop>>
history == <<lost, drained, boundary>>
ingressVars == <<queueVars, producerVars, workerVars, calibrationVars, clientVars, spc, history>>

NoCapture == [on |-> FALSE, from |-> 0, dropped |-> 0]
\* What calibration_boundary read, forgotten when consume_one goes on without it,
\* and as history the source frame it was at.
NothingSeen == [generation |-> 0, published |-> 0, dropped |-> 0, source |-> 0]
NoMetadata == [dropped |-> 0, usable |-> FALSE, partial |-> 0]
NoTarget == MaxFrames + 1
Position(n) == n % Slots
Requests == {Window, Window + Hop}

IngressInit ==
    /\ slot = [i \in 0 .. Slots - 1 |-> 0]
    /\ published = 0 /\ consumed = 0 /\ cumulative = 0
    /\ admitted = FALSE /\ open = TRUE /\ generation = 0
    /\ ppc = "idle" /\ source = 0 /\ pushEnd = 0
    /\ wpc = "top" /\ seen = NothingSeen
    /\ capture = NoCapture /\ written = <<>>
    /\ commandTarget = NoTarget /\ workerDone = FALSE /\ failures = 0
    /\ state = "idle" /\ request = 0 /\ metadata = NoMetadata
    /\ samples = <<>>
    /\ cpc = "idle" /\ calls = 0 /\ stop = FALSE /\ spc = "none"
    /\ lost = {} /\ drained = <<>> /\ boundary = 0

-----------------------------------------------------------------------------
(* try_push_interleaved. source counts the frames handled, pushEnd is the  *)
(* last one of this push.                                                  *)

\* ProducerAdmission::acquire
Admit(n) ==
    /\ ppc = "idle" /\ open /\ source + n <= MaxFrames
    /\ admitted' = TRUE /\ ppc' = "check" /\ pushEnd' = source + n
    /\ UNCHANGED <<slot, published, consumed, cumulative, open, generation, source,
                   workerVars, calibrationVars, clientVars, spc, history>>

\* Mutant: one block too many fits.
CheckTooLate ==
    /\ ppc = "check"
    /\ ppc' = CASE source = pushEnd -> "generation"
                [] source # pushEnd /\ published - consumed > Slots -> "drop"
                [] OTHER -> "copy"
    /\ UNCHANGED <<queueVars, source, pushEnd, workerVars, calibrationVars, clientVars, spc, history>>

\* The loads of the two cursors, and the return when the push is done.
Check ==
    /\ ppc = "check"
    /\ ppc' = CASE source = pushEnd -> "generation"
                [] source # pushEnd /\ published - consumed >= Slots -> "drop"
                [] OTHER -> "copy"
    /\ UNCHANGED <<queueVars, source, pushEnd, workerVars, calibrationVars, clientVars, spc, history>>

CopyBlock ==
    /\ ppc = "copy"
    /\ slot' = [slot EXCEPT ![Position(published)] = source + 1]
    /\ ppc' = "publish"
    /\ UNCHANGED <<published, consumed, cumulative, admitted, open, generation, source,
                   pushEnd, workerVars, calibrationVars, clientVars, spc, history>>

Publish ==
    /\ ppc = "publish"
    /\ published' = published + 1
    /\ source' = source + 1
    /\ ppc' = "check"
    /\ UNCHANGED <<slot, consumed, cumulative, admitted, open, generation, pushEnd,
                   workerVars, calibrationVars, clientVars, spc, history>>

\* add_dropped_frames; the second of its counters is in CaptureArena.
CountDropped ==
    /\ ppc = "drop"
    /\ cumulative' = cumulative + (pushEnd - source)
    /\ lost' = lost \cup (source + 1 .. pushEnd)
    /\ source' = pushEnd
    /\ ppc' = "generation"
    /\ UNCHANGED <<slot, published, consumed, admitted, open, generation, pushEnd,
                   workerVars, calibrationVars, clientVars, spc, drained, boundary>>

\* ProducerAdmission::drop: the generation, then the admission.
NextGeneration ==
    /\ ppc = "generation"
    /\ generation' = generation + 1 /\ ppc' = "leave"
    /\ UNCHANGED <<slot, published, consumed, cumulative, admitted, open, source, pushEnd,
                   workerVars, calibrationVars, clientVars, spc, history>>
Leave ==
    /\ ppc = "leave"
    /\ admitted' = FALSE /\ ppc' = "idle"
    /\ UNCHANGED <<slot, published, consumed, cumulative, open, generation, source, pushEnd,
                   workerVars, calibrationVars, clientVars, spc, history>>

-----------------------------------------------------------------------------
(* The worker                                                              *)

\* cancel_calibration_if_requested at the top of the loop, then the command.
Top ==
    /\ wpc = "top"
    /\ IF state = "cancelled" THEN state' = "idle" /\ capture' = NoCapture
       ELSE UNCHANGED <<state, capture>>
    /\ wpc' = IF commandTarget <= consumed THEN "exit" ELSE "generation"
    /\ UNCHANGED <<queueVars, producerVars, seen, written, commandTarget, workerDone,
                   failures, request, metadata, samples, clientVars, spc, history>>

\* calibration_boundary: the loads in their order, and the two looks at the
\* admission.
Boundary1 ==
    /\ wpc = "generation"
    /\ IF admitted THEN wpc' = "consume" /\ UNCHANGED seen
       ELSE wpc' = "published" /\ seen' = [seen EXCEPT !.generation = generation]
    /\ UNCHANGED <<queueVars, producerVars, capture, written, commandTarget, workerDone, failures,
                   calibrationVars, clientVars, spc, history>>
Boundary2 ==
    /\ wpc = "published"
    /\ seen' = [seen EXCEPT !.published = published]
    /\ wpc' = "dropped"
    /\ UNCHANGED <<queueVars, producerVars, capture, written, commandTarget, workerDone,
                   failures, calibrationVars, clientVars, spc, history>>
Boundary3 ==
    /\ wpc = "dropped"
    /\ seen' = [seen EXCEPT !.dropped = cumulative]
    /\ wpc' = "recheck"
    /\ UNCHANGED <<queueVars, producerVars, capture, written, commandTarget, workerDone,
                   failures, calibrationVars, clientVars, spc, history>>
\* Mutant: no second look at the admission.
Boundary4Unfenced ==
    /\ wpc = "recheck"
    /\ wpc' = "take" /\ seen' = [seen EXCEPT !.source = source]
    /\ UNCHANGED <<queueVars, producerVars, capture, written, commandTarget, workerDone,
                   failures, calibrationVars, clientVars, spc, history>>
Boundary4 ==
    /\ wpc = "recheck"
    /\ IF admitted \/ generation # seen.generation
       THEN wpc' = "consume" /\ seen' = NothingSeen
       ELSE wpc' = "take" /\ seen' = [seen EXCEPT !.source = source]
    /\ UNCHANGED <<queueVars, producerVars, capture, written, commandTarget, workerDone,
                   failures, calibrationVars, clientVars, spc, history>>

\* take_ready, the second look at the state, and the new CalibrationCapture.
TakeReady ==
    /\ wpc = "take"
    /\ IF state = "ready" THEN state' = "capturing" /\ wpc' = "start" /\ UNCHANGED seen
       ELSE wpc' = "consume" /\ seen' = NothingSeen /\ UNCHANGED state
    /\ UNCHANGED <<queueVars, producerVars, capture, written, commandTarget,
                   workerDone, failures, request, metadata, samples, clientVars, spc,
                   history>>
StartCapture ==
    /\ wpc = "start"
    /\ IF state = "capturing"
       THEN /\ capture' = [on |-> TRUE, from |-> seen.published, dropped |-> seen.dropped]
            /\ samples' = <<>> /\ boundary' = seen.source
            /\ UNCHANGED state
       ELSE /\ state' = IF state = "cancelled" THEN "idle" ELSE state
            /\ UNCHANGED <<capture, samples, boundary>>
    /\ wpc' = "consume" /\ seen' = NothingSeen
    /\ UNCHANGED <<queueVars, producerVars, written, commandTarget, workerDone,
                   failures, request, metadata, clientVars, spc, lost, drained>>

\* consume_next: nothing to consume, or the block goes to the ring.
Nothing ==
    /\ wpc = "consume" /\ consumed = published
    /\ wpc' = "top"
    /\ UNCHANGED <<queueVars, producerVars, seen, capture, written, commandTarget,
                   workerDone, failures, calibrationVars, clientVars, spc, history>>
WriteRing ==
    /\ wpc = "consume" /\ consumed < published
    /\ written' = Append(written, slot[Position(consumed)])
    /\ wpc' = "calibrate"
    /\ UNCHANGED <<queueVars, producerVars, seen, capture, commandTarget, workerDone,
                   failures, calibrationVars, clientVars, spc, history>>
\* Mutant: a block the ring refused is consumed without being counted.
RingRefusesUncounted ==
    /\ wpc = "consume" /\ consumed < published /\ failures < MaxFailures
    /\ failures' = failures + 1
    /\ wpc' = "advance"
    /\ UNCHANGED <<queueVars, producerVars, seen, capture, written, commandTarget, workerDone,
                   calibrationVars, clientVars, spc, history>>
\* drop_worker_frames: the ring refused the block.
RingRefuses ==
    /\ wpc = "consume" /\ consumed < published /\ failures < MaxFailures
    /\ failures' = failures + 1
    /\ cumulative' = cumulative + 1
    /\ lost' = lost \cup {slot[Position(consumed)]}
    /\ wpc' = "advance"
    /\ UNCHANGED <<slot, published, consumed, admitted, open, generation, producerVars,
                   seen, capture, written, commandTarget, workerDone, calibrationVars, clientVars,
                   spc, drained, boundary>>

\* The windows that are complete and the frames of the last one that is not, after
\* n samples, from the two accumulators of copy_calibration_samples.
Accumulated(n) ==
    LET Clear == [on |-> FALSE, start |-> 0, count |-> 0]
        acc[i \in 0 .. n] ==
            IF i = 0 THEN [slots |-> <<Clear, Clear>>, done |-> <<>>]
            ELSE LET index == i - 1
                     begun == IF index % Hop = 0
                              THEN [acc[i - 1].slots EXCEPT ![((index \div Hop) % 2) + 1] =
                                        [on |-> TRUE, start |-> index, count |-> 0]]
                              ELSE acc[i - 1].slots
                     fed == [k \in 1 .. 2 |->
                                IF begun[k].on THEN [begun[k] EXCEPT !.count = @ + 1] ELSE begun[k]]
                     full == SelectSeq(fed, LAMBDA s : s.on /\ s.count = Window)
                 IN [slots |-> [k \in 1 .. 2 |->
                                   IF fed[k].count = Window THEN [fed[k] EXCEPT !.on = FALSE] ELSE fed[k]],
                     done |-> acc[i - 1].done \o [k \in DOMAIN full |-> full[k].start]]
    IN acc[n]
\* Mutant: only what lies behind the last whole window, as if windows did not overlap.
PartialBehind(n) == IF n < Window THEN n ELSE (n - Window) % Hop
Partial(n) ==
    LET open_ == {k \in 1 .. 2 : Accumulated(n).slots[k].on /\ Accumulated(n).slots[k].count > 0}
    IN IF open_ = {} THEN 0
       ELSE Accumulated(n).slots[CHOOSE k \in open_ : \A j \in open_ :
                Accumulated(n).slots[j].start <= Accumulated(n).slots[k].start].count

\* copy_calibration_samples, up to the metadata finish_calibration writes.
CopyCalibration ==
    /\ wpc = "calibrate"
    /\ CASE ~capture.on -> UNCHANGED <<capture, state, samples, metadata>> /\ wpc' = "advance"
         [] capture.on /\ state = "cancelled" ->
              /\ capture' = NoCapture /\ state' = "idle" /\ wpc' = "advance"
              /\ UNCHANGED <<samples, metadata>>
         [] capture.on /\ state # "cancelled" /\ consumed < capture.from ->
              UNCHANGED <<capture, state, samples, metadata>> /\ wpc' = "advance"
         [] OTHER ->
              LET copied == Append(samples, slot[Position(consumed)])
                  whole == Len(copied) = request
                  n == cumulative - capture.dropped
              IN /\ samples' = copied
                 /\ metadata' = IF whole THEN [dropped |-> n, usable |-> n = 0 /\ Accumulated(request).done # <<>>,
                                               partial |-> Partial(request)]
                                ELSE metadata
                 /\ capture' = IF whole THEN NoCapture ELSE capture
                 /\ wpc' = IF whole THEN "complete" ELSE "advance"
                 /\ UNCHANGED state
    /\ UNCHANGED <<queueVars, producerVars, seen, written, commandTarget, workerDone,
                   failures, request, clientVars, spc, history>>

\* The last step of finish_calibration.
FinishCalibration ==
    /\ wpc = "complete"
    /\ state' = CASE state = "capturing" -> "complete"
                  [] state = "cancelled" -> "idle"
                  [] OTHER -> state
    /\ wpc' = "advance"
    /\ UNCHANGED <<queueVars, producerVars, seen, capture, written, commandTarget,
                   workerDone, failures, request, metadata, samples, clientVars, spc,
                   history>>

Advance ==
    /\ wpc = "advance"
    /\ consumed' = consumed + 1
    /\ drained' = Append(drained, slot[Position(consumed)])
    /\ wpc' = "top"
    /\ UNCHANGED <<slot, published, cumulative, admitted, open, generation, producerVars,
                   seen, capture, written, commandTarget, workerDone, failures,
                   calibrationVars, clientVars, spc, lost, boundary>>

\* After Shutdown: fail_calibration, then worker_done.
Exit ==
    /\ wpc = "exit"
    /\ capture' = NoCapture
    /\ state' = CASE state \in {"ready", "capturing"} -> "failed"
                  [] state = "cancelled" -> "idle"
                  [] OTHER -> state
    /\ wpc' = "exited"
    /\ UNCHANGED <<queueVars, producerVars, seen, written, commandTarget, workerDone,
                   failures, request, metadata, samples, clientVars, spc, history>>
Done ==
    /\ wpc = "exited"
    /\ workerDone' = TRUE /\ wpc' = "done"
    /\ UNCHANGED <<queueVars, producerVars, seen, capture, written, commandTarget, failures,
                   calibrationVars, clientVars, spc, history>>

-----------------------------------------------------------------------------
(* calibrate_channel_until                                                 *)

ClientKeeps == UNCHANGED <<queueVars, producerVars, workerVars, metadata, samples, spc,
                           history>>

\* CalibrationSlot::begin: PREPARING, the request, and READY unless a cancel won.
BeginCalibration(n) ==
    /\ cpc = "idle" /\ calls < MaxCalls
    /\ calls' = calls + 1
    /\ IF state = "idle" THEN state' = "preparing" /\ cpc' = "begin" /\ request' = n
       ELSE UNCHANGED <<state, cpc, request>>
    /\ ClientKeeps /\ UNCHANGED stop
Ready ==
    /\ cpc = "begin"
    /\ IF state = "preparing" THEN state' = "ready" /\ cpc' = "wait"
       ELSE IF state \in {"cancelled", "idle"} THEN state' = "idle" /\ cpc' = "idle"
       ELSE cpc' = "idle" /\ UNCHANGED state
    /\ ClientKeeps /\ UNCHANGED <<request, calls, stop>>

\* The wait loop: a lease, a failure, a cancelled capture.
TakeLease ==
    /\ cpc = "wait" /\ state = "complete"
    /\ state' = "leased" /\ cpc' = "leased"
    /\ ClientKeeps /\ UNCHANGED <<request, calls, stop>>
TakeFailure ==
    /\ cpc = "wait" /\ state \in {"failed", "idle"}
    /\ state' = "idle" /\ cpc' = "idle"
    /\ ClientKeeps /\ UNCHANGED <<request, calls, stop>>

\* should_abort, then cancel_calibration; a terminal state that won is read again.
Cancelled == CASE state \in {"preparing", "capturing"} -> "cancelled"
               [] state = "ready" -> "idle"
               [] OTHER -> state
Abort ==
    /\ cpc = "wait" /\ stop /\ state \notin {"complete", "failed"}
    /\ Cancelled # state
    /\ state' = Cancelled /\ cpc' = "idle"
    /\ ClientKeeps /\ UNCHANGED <<request, calls, stop>>

\* The deadline of a capture that is ready or under way.
Timeout ==
    /\ cpc = "wait" /\ state \in {"ready", "capturing"}
    /\ state' = Cancelled /\ cpc' = "idle"
    /\ ClientKeeps /\ UNCHANGED <<request, calls, stop>>

\* worker_has_exited
WorkerGone ==
    /\ cpc = "wait" /\ workerDone /\ state \in {"ready", "capturing", "cancelled"}
    /\ state' = "idle" /\ cpc' = "idle"
    /\ ClientKeeps /\ UNCHANGED <<request, calls, stop>>

\* CalibrationLease::drop
DropLease ==
    /\ cpc = "leased"
    /\ state' = "idle" /\ cpc' = "idle"
    /\ ClientKeeps /\ UNCHANGED <<request, calls, stop>>

\* cancel_active_calibration, when the daemon stops.
Stop ==
    /\ ~stop
    /\ stop' = TRUE /\ state' = Cancelled
    /\ ClientKeeps /\ UNCHANGED <<request, cpc, calls>>

-----------------------------------------------------------------------------
(* shutdown and shutdown_for_drop, once the backend is gone for good.      *)

CloseIngress ==
    /\ spc = "none" /\ stop
    /\ open' = FALSE /\ spc' = "producers"
    /\ UNCHANGED <<slot, published, consumed, cumulative, admitted, generation,
                   producerVars, workerVars, calibrationVars, clientVars, history>>
Submit ==
    /\ spc = "producers" /\ ~admitted
    /\ commandTarget' = published /\ spc' = "worker"
    /\ UNCHANGED <<queueVars, producerVars, wpc, seen, capture, written, workerDone,
                   failures, calibrationVars, clientVars, history>>

\* The join, and classify_unconsumed_after_worker block by block. A worker that
\* left through Shutdown has consumed everything: the code has this loop for a
\* worker thread that died, and it finds nothing here.
Classify ==
    /\ spc = "worker" /\ workerDone /\ consumed < published
    /\ cumulative' = cumulative + 1
    /\ lost' = lost \cup {slot[Position(consumed)]}
    /\ drained' = Append(drained, slot[Position(consumed)])
    /\ consumed' = consumed + 1
    /\ UNCHANGED <<slot, published, admitted, open, generation, producerVars, workerVars,
                   calibrationVars, clientVars, spc, boundary>>
Join ==
    /\ spc = "worker" /\ workerDone /\ consumed = published
    /\ spc' = "joined"
    /\ UNCHANGED <<queueVars, producerVars, workerVars, calibrationVars, clientVars, history>>

CaptureWorker ==
    \/ Top \/ Boundary1 \/ Boundary2 \/ Boundary3 \/ Boundary4 \/ TakeReady \/ StartCapture
    \/ Nothing \/ WriteRing \/ RingRefuses \/ CopyCalibration \/ FinishCalibration \/ Advance \/ Exit \/ Done
Push == Check \/ CopyBlock \/ Publish \/ CountDropped \/ NextGeneration \/ Leave
Client == Ready \/ TakeLease \/ TakeFailure \/ Abort \/ Timeout \/ WorkerGone \/ DropLease

IngressNext ==
    \/ \E n \in 1 .. 2 : Admit(n)
    \/ Push \/ CaptureWorker \/ Client
    \/ \E n \in Requests : BeginCalibration(n)
    \/ Stop \/ CloseIngress \/ Submit \/ Classify \/ Join

IngressSpec == IngressInit /\ [][IngressNext]_ingressVars

\* Threads are scheduled: a push that began ends, the worker runs, a deadline
\* passes, a lease is dropped when its request ends, a shutdown goes on.
IngressFairness ==
    /\ WF_ingressVars(Push) /\ WF_ingressVars(CaptureWorker) /\ WF_ingressVars(Client)
    /\ WF_ingressVars(Submit \/ Classify \/ Join)
IngressFairSpec == IngressSpec /\ IngressFairness

-----------------------------------------------------------------------------
\* The queue seen from outside: what lies between the cursors, and what was taken.
Contents == [i \in 1 .. published - consumed |-> slot[Position(consumed + i - 1)]]
Abstract == INSTANCE FrameQueue WITH
    Blocks <- 1 .. MaxFrames, queue <- Contents, delivered <- drained

\* The lock-free queue is a bounded first-in first-out queue: no block is torn,
\* overtaken, lost or taken twice, however the loads and stores of producer and
\* worker interleave.
QueueImplements == Abstract!Spec

\* The samples are in source order; when the capture is usable they begin with the
\* first frame after the boundary and no source frame between them is missing; and
\* drops spoil it only when a frame behind the boundary was lost, or the ring
\* refused one.
CaptureGenuine ==
    /\ Len(samples) = request
    /\ \A i \in 1 .. request - 1 : samples[i] < samples[i + 1]
    /\ metadata.usable => samples = [i \in 1 .. request |-> boundary + i]
    /\ metadata.dropped > 0 => failures > 0 \/ \E f \in lost : f > boundary

\* A calibration that is complete holds the frames behind its boundary, in order
\* and without a gap unless it says that frames were dropped, however the push,
\* the fence of calibration_boundary, a cancel and a second request interleave.
CalibrationSound == state \in {"complete", "leased"} => CaptureGenuine

\* The windows of a usable calibration are all those that fit into its samples, a
\* hop apart, and the rest is reported as partial.
WindowsWhole ==
    state \in {"complete", "leased"} /\ metadata.usable =>
        /\ Accumulated(request).done = [k \in 1 .. (request - Window) \div Hop + 1 |-> (k - 1) * Hop]
        /\ metadata.partial = request - Hop * Len(Accumulated(request).done)

\* Every source frame that was pushed is in the ring or counted as dropped once
\* the arena has been shut down, and the producer is out.
FramesAccounted ==
    spc = "joined" =>
        /\ ~admitted /\ consumed = published
        /\ cumulative = Cardinality(lost)
        /\ LET ring == {written[i] : i \in DOMAIN written}
           IN ring \cup lost = 1 .. source /\ ring \cap lost = {}

\* A calibration ends, by lease, error, deadline or stop, and leaves the slot to
\* the next one.
CalibrationEnds == (state # "idle") ~> (state = "idle")
=============================================================================
