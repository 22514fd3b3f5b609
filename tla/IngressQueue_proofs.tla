------------------------ MODULE IngressQueue_proofs ------------------------
(***************************************************************************)
(* The lock-free ingress queue implements a bounded queue, every source    *)
(* frame is written or counted once, and a calibration holds the frames    *)
(* behind its boundary: for every number of slots, frames, calibrations    *)
(* and refusals of the ring, and every length of a capture.                *)
(***************************************************************************)
EXTENDS IngressQueue, SequenceTheorems, FiniteSetTheorems, TLAPS

\* The worker has handed the block at the cursor to the ring, or counted it.
Handled == {"calibrate", "complete", "advance"}

QueueTypes ==
    /\ slot \in [0 .. Slots - 1 -> Nat]
    /\ published \in Nat /\ consumed \in Nat /\ cumulative \in Nat /\ generation \in Nat
    /\ source \in Nat /\ pushEnd \in Nat /\ failures \in Nat
    /\ written \in Seq(Nat) /\ drained \in Seq(Nat) /\ lost \in SUBSET Nat

ControlTypes ==
    /\ ppc \in {"idle", "check", "copy", "publish", "drop", "generation", "leave"}
    /\ wpc \in {"top", "generation", "published", "dropped", "recheck", "take", "start",
                "consume", "exit", "exited", "done"} \cup Handled
    /\ state \in {"idle", "preparing", "ready", "capturing", "cancelled", "complete",
                  "leased", "failed"}
    /\ cpc \in {"idle", "begin", "wait", "leased"}
    /\ spc \in {"none", "producers", "worker", "joined"}

CaptureTypes ==
    /\ seen \in [generation : Nat, published : Nat, dropped : Nat, source : Nat]
    /\ capture.from \in Nat /\ capture.dropped \in Nat
    /\ samples \in Seq(Nat) /\ request \in Nat /\ boundary \in Nat

IngressTypes == QueueTypes /\ ControlTypes /\ CaptureTypes

\* Where the cursors are while the producer and the worker are inside an operation.
Cursors ==
    /\ admitted <=> ppc # "idle"
    /\ consumed <= published /\ published <= consumed + Slots
    /\ source <= pushEnd /\ pushEnd <= MaxFrames
    /\ ppc \in {"idle", "generation", "leave"} => source = pushEnd
    /\ ppc \in {"copy", "publish", "drop"} => source < pushEnd
    /\ ppc \in {"copy", "publish"} => published < consumed + Slots
    /\ ppc = "publish" => slot[Position(published)] = source + 1
    /\ wpc \in Handled => consumed < published
    /\ workerDone <=> wpc = "done"
    /\ spc # "none" => ~open
    /\ spc \in {"worker", "joined"} => ppc = "idle"
    /\ spc = "joined" => consumed = published /\ workerDone

\* The first block that is neither in the ring nor counted, and all of them.
FirstWaiting == IF wpc \in Handled THEN consumed + 1 ELSE consumed
Waiting == {slot[Position(n)] : n \in FirstWaiting .. published - 1}
Kept == {written[i] : i \in DOMAIN written}

\* Every frame that was pushed is in the ring, counted as dropped, or waits in the
\* queue, which holds them in order.
Frames ==
    /\ \A m, n \in consumed .. published - 1 : m < n => slot[Position(m)] < slot[Position(n)]
    /\ \A n \in consumed .. published - 1 : slot[Position(n)] \in 1 .. source
    /\ Kept \cup lost \cup Waiting = 1 .. source
    /\ Kept \cap lost = {} /\ Kept \cap Waiting = {} /\ lost \cap Waiting = {}
    /\ IsFiniteSet(lost) /\ cumulative = Cardinality(lost)

\* The calibration slot and its one client are in step, and the worker captures
\* only for a slot that is capturing or has been cancelled under it.
SlotStates ==
    /\ state = "preparing" => cpc = "begin"
    /\ state \in {"ready", "capturing", "complete", "failed"} => cpc = "wait"
    /\ state = "leased" <=> cpc = "leased"
    /\ cpc = "begin" => state \in {"preparing", "cancelled", "idle"}
    /\ capture.on \/ wpc \in {"start", "complete"} =>
         state \in {"capturing", "cancelled"} /\ cpc # "begin"
    /\ wpc \in {"start", "complete", "exited", "done"} => ~capture.on
    /\ state # "idle" => request > 0

\* What calibration_boundary has loaded is one state of the queue if the producer
\* is out and the generation is the one it began with.
Fence ==
    /\ wpc \in {"published", "dropped", "recheck"} =>
         /\ seen.generation <= generation
         /\ ppc = "leave" => seen.generation < generation
    /\ wpc \in {"dropped", "recheck"} =>
         /\ consumed <= seen.published
         /\ ppc = "idle" /\ seen.generation = generation => seen.published = published
    /\ wpc = "recheck" /\ ppc = "idle" /\ seen.generation = generation => seen.dropped = cumulative

\* Behind a boundary at frame mark, where `from` blocks were published and `count`
\* frames dropped: unless more have been dropped since, the blocks from there on
\* are the next frames.
Behind(from, count, mark) ==
    /\ mark <= source /\ from <= published /\ count <= cumulative
    /\ count < cumulative => failures > 0 \/ \E f \in lost : f > mark
    /\ count = cumulative =>
         /\ source = mark + (published - from)
         /\ \A n \in consumed .. published - 1 : n >= from => slot[Position(n)] = mark + 1 + (n - from)

\* The next block the capture looks at.
NextSample == IF wpc = "advance" THEN consumed + 1 ELSE consumed

\* The samples so far: in order, all before the next block, and without a gap
\* unless frames were dropped.
SamplesSoFar ==
    /\ Len(samples) < request
    /\ \A i \in 1 .. Len(samples) - 1 : samples[i] < samples[i + 1]
    /\ \A i \in 1 .. Len(samples) : samples[i] <= source
    /\ \A i \in 1 .. Len(samples) : \A n \in NextSample .. published - 1 :
          samples[i] < slot[Position(n)]
    /\ capture.dropped = cumulative =>
         /\ Len(samples) = IF NextSample > capture.from THEN NextSample - capture.from ELSE 0
         /\ \A i \in 1 .. Len(samples) : samples[i] = boundary + i

Taken ==
    wpc \in {"take", "start"} =>
        consumed <= seen.published /\ Behind(seen.published, seen.dropped, seen.source)
Running == capture.on => Behind(capture.from, capture.dropped, boundary) /\ SamplesSoFar
Finished == wpc = "complete" \/ state \in {"complete", "leased"} => CaptureGenuine

Captures == Taken /\ Running /\ Finished

IngressInv ==
    IngressTypes /\ Cursors /\ Frames /\ SlotStates /\ Fence /\ Captures

-----------------------------------------------------------------------------
(* Positions in the slot array                                             *)

\* A multiple of S that lies below another one lies at least S below it.
LEMMA MultiplesApart ==
    ASSUME NEW S \in Nat \ {0}, NEW x \in Int, NEW y \in Int, S * x < S * y
    PROVE  S * x + S <= S * y
<1>1. x < y
  OBVIOUS
<1>2. x + 1 <= y
  BY <1>1
<1>3. S * (x + 1) <= S * y
  BY <1>2
<1>4. S * (x + 1) = S * x + S
  OBVIOUS
<1> QED BY <1>3, <1>4

\* A block's position is one of the array.
LEMMA PositionRange ==
    ASSUME NEW n \in Nat
    PROVE  Position(n) \in 0 .. Slots - 1
BY IngressAssumption DEF Position

\* Blocks less than a whole array apart have different positions.
LEMMA PositionsDiffer ==
    ASSUME NEW m \in Nat, NEW n \in Nat, m < n, n < m + Slots
    PROVE  Position(m) # Position(n)
<1> DEFINE x == m \div Slots
           y == n \div Slots
<1>1. /\ x \in Nat /\ y \in Nat /\ Slots * x \in Nat /\ Slots * y \in Nat
      /\ m = Slots * x + (m % Slots) /\ n = Slots * y + (n % Slots)
      /\ m % Slots \in Nat
  BY IngressAssumption
<1>2. SUFFICES ASSUME m % Slots = n % Slots PROVE FALSE
  BY DEF Position
<1> HIDE DEF x, y
<1>3. Slots * x < Slots * y
  BY <1>1, <1>2
<1>4. Slots * x + Slots <= Slots * y
  BY <1>1, <1>3, IngressAssumption, MultiplesApart
<1> QED BY <1>1, <1>2, <1>4, IngressAssumption

\* Every slot holds a frame number.
LEMMA BlockType ==
    ASSUME IngressTypes, NEW n \in Nat
    PROVE  slot[Position(n)] \in Nat
BY PositionRange DEF IngressTypes, QueueTypes

\* What the producer copies into is not between the cursors.
LEMMA CopyKeeps ==
    ASSUME IngressTypes, Cursors, CopyBlock
    PROVE  /\ \A n \in consumed .. published - 1 : slot'[Position(n)] = slot[Position(n)]
           /\ slot'[Position(published)] = source + 1
           /\ slot' \in [0 .. Slots - 1 -> Nat]
<1>1. /\ published \in Nat /\ consumed \in Nat /\ published < consumed + Slots
      /\ slot \in [0 .. Slots - 1 -> Nat] /\ source + 1 \in Nat
      /\ slot' = [slot EXCEPT ![Position(published)] = source + 1]
  BY DEF IngressTypes, QueueTypes, Cursors, CopyBlock
<1>2. Position(published) \in 0 .. Slots - 1
  BY <1>1, PositionRange
<1>3. ASSUME NEW n \in consumed .. published - 1
      PROVE  slot'[Position(n)] = slot[Position(n)]
  <2>1. n \in Nat /\ n < published /\ published < n + Slots
    BY <1>1, <1>3, IngressAssumption
  <2>2. Position(n) # Position(published) /\ Position(n) \in 0 .. Slots - 1
    BY <1>1, <2>1, PositionsDiffer, PositionRange
  <2> QED BY <1>1, <2>2
<1> QED BY <1>1, <1>2, <1>3

\* What copy_calibration_samples does with a block: nothing, the end of a capture
\* that was cancelled, or one more sample, which may be the last.
Skips ==
    /\ ~capture.on \/ consumed < capture.from
    /\ wpc' = "advance" /\ UNCHANGED <<capture, state, samples, metadata>>
Cancels ==
    /\ capture.on /\ state = "cancelled"
    /\ capture' = NoCapture /\ state' = "idle" /\ wpc' = "advance"
    /\ UNCHANGED <<samples, metadata>>
Copies ==
    /\ capture.on /\ state # "cancelled" /\ ~(consumed < capture.from)
    /\ samples' = Append(samples, slot[Position(consumed)])
    /\ UNCHANGED state
    /\ \/ Len(samples') # request /\ wpc' = "advance" /\ UNCHANGED <<capture, metadata>>
       \/ /\ Len(samples') = request /\ wpc' = "complete" /\ capture' = NoCapture
          /\ metadata'.dropped = cumulative - capture.dropped
          /\ metadata'.usable => cumulative - capture.dropped = 0

LEMMA CopyOutcomes ==
    ASSUME CopyCalibration
    PROVE  Skips \/ Cancels \/ Copies
<1>1. CASE ~capture.on
  BY <1>1 DEF CopyCalibration, Skips
<1>2. CASE capture.on /\ state = "cancelled"
  BY <1>2 DEF CopyCalibration, Cancels
<1>3. CASE capture.on /\ state # "cancelled" /\ consumed < capture.from
  BY <1>3 DEF CopyCalibration, Skips
<1>4. CASE capture.on /\ state # "cancelled" /\ ~(consumed < capture.from)
  <2> DEFINE copied == Append(samples, slot[Position(consumed)])
             whole == Len(copied) = request
             n == cumulative - capture.dropped
  <2>1. /\ samples' = copied /\ UNCHANGED state
        /\ metadata' = IF whole THEN [dropped |-> n, usable |-> n = 0 /\ Accumulated(request).done # <<>>,
                                      partial |-> Partial(request)]
                       ELSE metadata
        /\ capture' = IF whole THEN NoCapture ELSE capture
        /\ wpc' = IF whole THEN "complete" ELSE "advance"
    BY <1>4 DEF CopyCalibration
  <2>2. CASE whole
    <3>1. metadata'.dropped = n /\ (metadata'.usable => n = 0)
      BY <2>1, <2>2
    <3> QED BY <1>4, <2>1, <2>2, <3>1 DEF Copies
  <2>3. CASE ~whole
    BY <1>4, <2>1, <2>3 DEF Copies
  <2> QED BY <2>2, <2>3
<1> QED BY <1>1, <1>2, <1>3, <1>4

\* A waiting client touches the calibration slot only.
LEMMA ClientFrame ==
    ASSUME Client
    PROVE  /\ UNCHANGED <<queueVars, producerVars, workerVars, metadata, samples, spc, history>>
           /\ UNCHANGED request
BY DEF Client, Ready, TakeLease, TakeFailure, Abort, Timeout, WorkerGone, DropLease, ClientKeeps

\* The worker's steps outside of a block leave the queue and the frames alone.
Between == {"top", "generation", "published", "dropped", "recheck", "take", "start", "consume", "exit"}
Looks == Top \/ Boundary1 \/ Boundary2 \/ Boundary3 \/ Boundary4 \/ TakeReady \/ StartCapture \/ Nothing
LEMMA LooksFrame ==
    ASSUME Looks
    PROVE  /\ wpc \in Between /\ wpc' \in Between
           /\ UNCHANGED <<queueVars, producerVars, written, workerDone, failures, request, metadata,
                          clientVars, spc, lost, drained>>
<1>1. CASE Top \/ Nothing
  BY <1>1 DEF Top, Nothing, Between, calibrationVars, history
<1>2. CASE Boundary1 \/ Boundary2 \/ Boundary3 \/ Boundary4
  BY <1>2 DEF Boundary1, Boundary2, Boundary3, Boundary4, Between, calibrationVars, history
<1>3. CASE TakeReady \/ StartCapture
  BY <1>3 DEF TakeReady, StartCapture, Between, calibrationVars, history
<1> QED BY <1>1, <1>2, <1>3 DEF Looks

-----------------------------------------------------------------------------
(* Every step keeps the invariant, part by part                            *)

\* The types.
LEMMA TypesKept ==
    ASSUME IngressInv, IngressNext
    PROVE  IngressTypes'
<1> USE IngressAssumption DEF IngressInv, IngressTypes, queueVars, producerVars, workerVars,
        calibrationVars, clientVars, history
<1>1. ASSUME NEW n \in 1 .. 2, Admit(n) PROVE IngressTypes'
  <2>1. QueueTypes'
    BY <1>1 DEF Admit, QueueTypes
  <2>2. ControlTypes'
    BY <1>1 DEF Admit, ControlTypes, Handled
  <2>3. CaptureTypes'
    BY <1>1 DEF Admit, CaptureTypes
  <2> QED BY <2>1, <2>2, <2>3
<1>2. CASE Check
  <2>1. QueueTypes'
    BY <1>2 DEF Check, QueueTypes
  <2>2. ControlTypes'
    BY <1>2 DEF Check, ControlTypes, Handled
  <2>3. CaptureTypes'
    BY <1>2 DEF Check, CaptureTypes
  <2> QED BY <2>1, <2>2, <2>3
<1>3. CASE CopyBlock
  <2>1. QueueTypes'
    BY <1>3, CopyKeeps DEF CopyBlock, QueueTypes
  <2>2. ControlTypes'
    BY <1>3 DEF CopyBlock, ControlTypes, Handled
  <2>3. CaptureTypes'
    BY <1>3 DEF CopyBlock, CaptureTypes
  <2> QED BY <2>1, <2>2, <2>3
<1>4. CASE Publish
  <2>1. QueueTypes'
    BY <1>4 DEF Publish, QueueTypes
  <2>2. ControlTypes'
    BY <1>4 DEF Publish, ControlTypes, Handled
  <2>3. CaptureTypes'
    BY <1>4 DEF Publish, CaptureTypes
  <2> QED BY <2>1, <2>2, <2>3
<1>5. CASE CountDropped
  <2>0. pushEnd - source \in Nat /\ source + 1 .. pushEnd \subseteq Nat
    BY DEF Cursors, QueueTypes
  <2>1. QueueTypes'
    BY <1>5, <2>0 DEF CountDropped, QueueTypes
  <2>2. ControlTypes'
    BY <1>5 DEF CountDropped, ControlTypes, Handled
  <2>3. CaptureTypes'
    BY <1>5 DEF CountDropped, CaptureTypes
  <2> QED BY <2>1, <2>2, <2>3
<1>6. CASE NextGeneration
  <2>1. QueueTypes'
    BY <1>6 DEF NextGeneration, QueueTypes
  <2>2. ControlTypes'
    BY <1>6 DEF NextGeneration, ControlTypes, Handled
  <2>3. CaptureTypes'
    BY <1>6 DEF NextGeneration, CaptureTypes
  <2> QED BY <2>1, <2>2, <2>3
<1>7. CASE Leave
  <2>1. QueueTypes'
    BY <1>7 DEF Leave, QueueTypes
  <2>2. ControlTypes'
    BY <1>7 DEF Leave, ControlTypes, Handled
  <2>3. CaptureTypes'
    BY <1>7 DEF Leave, CaptureTypes
  <2> QED BY <2>1, <2>2, <2>3
<1>8. CASE Top
  <2>1. QueueTypes'
    BY <1>8 DEF Top, QueueTypes
  <2>2. ControlTypes'
    BY <1>8 DEF Top, ControlTypes, Handled
  <2>3. CaptureTypes'
    BY <1>8 DEF Top, NoCapture, CaptureTypes
  <2> QED BY <2>1, <2>2, <2>3
<1>9. CASE Boundary1
  <2>1. QueueTypes'
    BY <1>9 DEF Boundary1, QueueTypes
  <2>2. ControlTypes'
    BY <1>9 DEF Boundary1, ControlTypes, Handled
  <2>3. CaptureTypes'
    BY <1>9 DEF Boundary1, CaptureTypes, QueueTypes
  <2> QED BY <2>1, <2>2, <2>3
<1>10. CASE Boundary2
  <2>1. QueueTypes'
    BY <1>10 DEF Boundary2, QueueTypes
  <2>2. ControlTypes'
    BY <1>10 DEF Boundary2, ControlTypes, Handled
  <2>3. CaptureTypes'
    BY <1>10 DEF Boundary2, CaptureTypes, QueueTypes
  <2> QED BY <2>1, <2>2, <2>3
<1>11. CASE Boundary3
  <2>1. QueueTypes'
    BY <1>11 DEF Boundary3, QueueTypes
  <2>2. ControlTypes'
    BY <1>11 DEF Boundary3, ControlTypes, Handled
  <2>3. CaptureTypes'
    BY <1>11 DEF Boundary3, CaptureTypes, QueueTypes
  <2> QED BY <2>1, <2>2, <2>3
<1>12. CASE Boundary4
  <2>1. QueueTypes'
    BY <1>12 DEF Boundary4, QueueTypes
  <2>2. ControlTypes'
    BY <1>12 DEF Boundary4, ControlTypes, Handled
  <2>3. CaptureTypes'
    <3>1. CASE seen' = NothingSeen
      BY <1>12, <3>1 DEF Boundary4, NothingSeen, CaptureTypes
    <3>2. CASE seen' = [seen EXCEPT !.source = source]
      BY <1>12, <3>2 DEF Boundary4, CaptureTypes, QueueTypes
    <3> QED BY <1>12, <3>1, <3>2 DEF Boundary4
  <2> QED BY <2>1, <2>2, <2>3
<1>13. CASE TakeReady
  <2>1. QueueTypes'
    BY <1>13 DEF TakeReady, QueueTypes
  <2>2. ControlTypes'
    BY <1>13 DEF TakeReady, ControlTypes, Handled
  <2>3. CaptureTypes'
    BY <1>13 DEF TakeReady, NothingSeen, CaptureTypes
  <2> QED BY <2>1, <2>2, <2>3
<1>14. CASE StartCapture
  <2>1. QueueTypes'
    BY <1>14 DEF StartCapture, QueueTypes
  <2>2. ControlTypes'
    BY <1>14 DEF StartCapture, ControlTypes, Handled
  <2>3. CaptureTypes'
    <3>1. /\ seen.published \in Nat /\ seen.dropped \in Nat /\ seen.source \in Nat
          /\ NothingSeen \in [generation : Nat, published : Nat, dropped : Nat, source : Nat]
      BY DEF CaptureTypes, NothingSeen
    <3>2. CASE state = "capturing"
      BY <1>14, <3>1, <3>2 DEF StartCapture, CaptureTypes
    <3>3. CASE state # "capturing"
      BY <1>14, <3>1, <3>3 DEF StartCapture, CaptureTypes
    <3> QED BY <3>2, <3>3
  <2> QED BY <2>1, <2>2, <2>3
<1>15. CASE Nothing
  <2>1. QueueTypes'
    BY <1>15 DEF Nothing, QueueTypes
  <2>2. ControlTypes'
    BY <1>15 DEF Nothing, ControlTypes, Handled
  <2>3. CaptureTypes'
    BY <1>15 DEF Nothing, CaptureTypes
  <2> QED BY <2>1, <2>2, <2>3
<1>16. CASE WriteRing
  <2>0. slot[Position(consumed)] \in Nat
    BY BlockType DEF QueueTypes
  <2>1. QueueTypes'
    BY <1>16, <2>0 DEF WriteRing, QueueTypes
  <2>2. ControlTypes'
    BY <1>16 DEF WriteRing, ControlTypes, Handled
  <2>3. CaptureTypes'
    BY <1>16 DEF WriteRing, CaptureTypes
  <2> QED BY <2>1, <2>2, <2>3
<1>17. CASE RingRefuses
  <2>0. slot[Position(consumed)] \in Nat
    BY BlockType DEF QueueTypes
  <2>1. QueueTypes'
    <3>1. lost' \in SUBSET Nat
      BY <1>17, <2>0 DEF RingRefuses, QueueTypes
    <3> QED BY <1>17, <2>0, <3>1 DEF RingRefuses, QueueTypes
  <2>2. ControlTypes'
    BY <1>17 DEF RingRefuses, ControlTypes, Handled
  <2>3. CaptureTypes'
    BY <1>17 DEF RingRefuses, CaptureTypes
  <2> QED BY <2>1, <2>2, <2>3
<1>18. CASE CopyCalibration
  <2>1. QueueTypes'
    BY <1>18 DEF CopyCalibration, QueueTypes
  <2>2. ControlTypes'
    BY <1>18 DEF CopyCalibration, ControlTypes, Handled
  <2>3. CaptureTypes'
    <3>1. slot[Position(consumed)] \in Nat
      BY BlockType DEF QueueTypes
    <3>2. samples' = samples \/ samples' = Append(samples, slot[Position(consumed)])
      BY <1>18, CopyOutcomes DEF Skips, Cancels, Copies
    <3>3. capture' = capture \/ capture' = NoCapture
      BY <1>18, CopyOutcomes DEF Skips, Cancels, Copies
    <3>4. samples' \in Seq(Nat)
      BY SMTT(30), <3>1, <3>2 DEF CaptureTypes
    <3>5. capture'.from \in Nat /\ capture'.dropped \in Nat
      BY <3>3 DEF CaptureTypes, NoCapture
    <3>6. UNCHANGED <<seen, request, boundary>>
      BY <1>18 DEF CopyCalibration
    <3> QED BY <3>4, <3>5, <3>6 DEF CaptureTypes
  <2> QED BY <2>1, <2>2, <2>3
<1>19. CASE FinishCalibration
  <2>1. QueueTypes'
    BY <1>19 DEF FinishCalibration, QueueTypes
  <2>2. ControlTypes'
    BY <1>19 DEF FinishCalibration, ControlTypes, Handled
  <2>3. CaptureTypes'
    BY <1>19 DEF FinishCalibration, CaptureTypes
  <2> QED BY <2>1, <2>2, <2>3
<1>20. CASE Advance
  <2>0. slot[Position(consumed)] \in Nat
    BY BlockType DEF QueueTypes
  <2>1. QueueTypes'
    BY <1>20, <2>0 DEF Advance, QueueTypes
  <2>2. ControlTypes'
    BY <1>20 DEF Advance, ControlTypes, Handled
  <2>3. CaptureTypes'
    BY <1>20 DEF Advance, CaptureTypes
  <2> QED BY <2>1, <2>2, <2>3
<1>21. CASE Exit
  <2>1. QueueTypes'
    BY <1>21 DEF Exit, QueueTypes
  <2>2. ControlTypes'
    BY <1>21 DEF Exit, ControlTypes, Handled
  <2>3. CaptureTypes'
    BY <1>21 DEF Exit, NoCapture, CaptureTypes
  <2> QED BY <2>1, <2>2, <2>3
<1>22. CASE Done
  <2>1. QueueTypes'
    BY <1>22 DEF Done, QueueTypes
  <2>2. ControlTypes'
    BY <1>22 DEF Done, ControlTypes, Handled
  <2>3. CaptureTypes'
    BY <1>22 DEF Done, CaptureTypes
  <2> QED BY <2>1, <2>2, <2>3
<1>23. ASSUME NEW n \in Requests, BeginCalibration(n) PROVE IngressTypes'
  <2>0. n \in Nat
    BY DEF Requests
  <2>1. QueueTypes'
    BY <1>23 DEF BeginCalibration, ClientKeeps, QueueTypes
  <2>2. ControlTypes'
    BY <1>23 DEF BeginCalibration, ClientKeeps, ControlTypes, Handled
  <2>3. CaptureTypes'
    BY <1>23, <2>0 DEF BeginCalibration, ClientKeeps, CaptureTypes
  <2> QED BY <2>1, <2>2, <2>3
<1>24. CASE Ready
  <2>1. QueueTypes'
    BY <1>24 DEF Ready, ClientKeeps, QueueTypes
  <2>2. ControlTypes'
    BY <1>24 DEF Ready, ClientKeeps, ControlTypes, Handled
  <2>3. CaptureTypes'
    BY <1>24 DEF Ready, ClientKeeps, CaptureTypes
  <2> QED BY <2>1, <2>2, <2>3
<1>25. CASE TakeLease
  <2>1. QueueTypes'
    BY <1>25 DEF TakeLease, ClientKeeps, QueueTypes
  <2>2. ControlTypes'
    BY <1>25 DEF TakeLease, ClientKeeps, ControlTypes, Handled
  <2>3. CaptureTypes'
    BY <1>25 DEF TakeLease, ClientKeeps, CaptureTypes
  <2> QED BY <2>1, <2>2, <2>3
<1>26. CASE TakeFailure
  <2>1. QueueTypes'
    BY <1>26 DEF TakeFailure, ClientKeeps, QueueTypes
  <2>2. ControlTypes'
    BY <1>26 DEF TakeFailure, ClientKeeps, ControlTypes, Handled
  <2>3. CaptureTypes'
    BY <1>26 DEF TakeFailure, ClientKeeps, CaptureTypes
  <2> QED BY <2>1, <2>2, <2>3
<1>27. CASE Abort
  <2>1. QueueTypes'
    BY <1>27 DEF Abort, ClientKeeps, Cancelled, QueueTypes
  <2>2. ControlTypes'
    BY <1>27 DEF Abort, ClientKeeps, Cancelled, ControlTypes, Handled
  <2>3. CaptureTypes'
    BY <1>27 DEF Abort, ClientKeeps, Cancelled, CaptureTypes
  <2> QED BY <2>1, <2>2, <2>3
<1>28. CASE Timeout
  <2>1. QueueTypes'
    BY <1>28 DEF Timeout, ClientKeeps, Cancelled, QueueTypes
  <2>2. ControlTypes'
    BY <1>28 DEF Timeout, ClientKeeps, Cancelled, ControlTypes, Handled
  <2>3. CaptureTypes'
    BY <1>28 DEF Timeout, ClientKeeps, Cancelled, CaptureTypes
  <2> QED BY <2>1, <2>2, <2>3
<1>29. CASE WorkerGone
  <2>1. QueueTypes'
    BY <1>29 DEF WorkerGone, ClientKeeps, QueueTypes
  <2>2. ControlTypes'
    BY <1>29 DEF WorkerGone, ClientKeeps, ControlTypes, Handled
  <2>3. CaptureTypes'
    BY <1>29 DEF WorkerGone, ClientKeeps, CaptureTypes
  <2> QED BY <2>1, <2>2, <2>3
<1>30. CASE DropLease
  <2>1. QueueTypes'
    BY <1>30 DEF DropLease, ClientKeeps, QueueTypes
  <2>2. ControlTypes'
    BY <1>30 DEF DropLease, ClientKeeps, ControlTypes, Handled
  <2>3. CaptureTypes'
    BY <1>30 DEF DropLease, ClientKeeps, CaptureTypes
  <2> QED BY <2>1, <2>2, <2>3
<1>31. CASE Stop
  <2>1. QueueTypes'
    BY <1>31 DEF Stop, ClientKeeps, Cancelled, QueueTypes
  <2>2. ControlTypes'
    BY <1>31 DEF Stop, ClientKeeps, Cancelled, ControlTypes, Handled
  <2>3. CaptureTypes'
    BY <1>31 DEF Stop, ClientKeeps, Cancelled, CaptureTypes
  <2> QED BY <2>1, <2>2, <2>3
<1>32. CASE CloseIngress
  <2>1. QueueTypes'
    BY <1>32 DEF CloseIngress, QueueTypes
  <2>2. ControlTypes'
    BY <1>32 DEF CloseIngress, ControlTypes, Handled
  <2>3. CaptureTypes'
    BY <1>32 DEF CloseIngress, CaptureTypes
  <2> QED BY <2>1, <2>2, <2>3
<1>33. CASE Submit
  <2>1. QueueTypes'
    BY <1>33 DEF Submit, QueueTypes
  <2>2. ControlTypes'
    BY <1>33 DEF Submit, ControlTypes, Handled
  <2>3. CaptureTypes'
    BY <1>33 DEF Submit, CaptureTypes
  <2> QED BY <2>1, <2>2, <2>3
<1>34. CASE Classify
  <2>0. slot[Position(consumed)] \in Nat
    BY BlockType DEF QueueTypes
  <2>1. QueueTypes'
    <3>1. lost' \in SUBSET Nat
      BY <1>34, <2>0 DEF Classify, QueueTypes
    <3> QED BY <1>34, <2>0, <3>1 DEF Classify, QueueTypes
  <2>2. ControlTypes'
    BY <1>34 DEF Classify, ControlTypes, Handled
  <2>3. CaptureTypes'
    BY <1>34 DEF Classify, CaptureTypes
  <2> QED BY <2>1, <2>2, <2>3
<1>35. CASE Join
  <2>1. QueueTypes'
    BY <1>35 DEF Join, QueueTypes
  <2>2. ControlTypes'
    BY <1>35 DEF Join, ControlTypes, Handled
  <2>3. CaptureTypes'
    BY <1>35 DEF Join, CaptureTypes
  <2> QED BY <2>1, <2>2, <2>3
<1> QED
  BY <1>1, <1>2, <1>3, <1>4, <1>5, <1>6, <1>7, <1>8, <1>9, <1>10, <1>11, <1>12, <1>13, <1>14, <1>15, <1>16, <1>17, <1>18, <1>19, <1>20, <1>21, <1>22, <1>23, <1>24, <1>25, <1>26, <1>27, <1>28, <1>29, <1>30, <1>31, <1>32, <1>33, <1>34, <1>35
     DEF IngressNext, Push, CaptureWorker, Client

\* The cursors.  Only the producer publishes, and only after its copy; only the
\* worker, or who joined it, consumes.
LEMMA CursorsKept ==
    ASSUME IngressInv, IngressNext
    PROVE  Cursors'
<1> USE IngressAssumption DEF IngressInv, IngressTypes, QueueTypes, ControlTypes, Cursors, Handled,
        queueVars, producerVars, workerVars,
        calibrationVars, clientVars, history
<1>1. ASSUME NEW n \in 1 .. 2, Admit(n) PROVE Cursors'
  BY <1>1 DEF Admit
<1>2. CASE Check
  BY SMTT(30), <1>2 DEF Check
<1>3. CASE CopyBlock
  <2>1. slot'[Position(published)] = source + 1
    BY <1>3, CopyKeeps
  <2>2. published' = published
    BY <1>3 DEF CopyBlock
  <2> QED BY <1>3, <2>1, <2>2 DEF CopyBlock
<1>4. CASE Publish
  BY <1>4 DEF Publish
<1>5. CASE CountDropped
  BY <1>5 DEF CountDropped
<1>6. CASE NextGeneration
  BY <1>6 DEF NextGeneration
<1>7. CASE Leave
  BY <1>7 DEF Leave
<1>8. CASE Looks
  BY <1>8, LooksFrame DEF Between
<1>9. CASE WriteRing
  BY <1>9 DEF WriteRing
<1>10. CASE RingRefuses
  BY <1>10 DEF RingRefuses
<1>11. CASE CopyCalibration
  <2>1. wpc' \in {"advance", "complete"}
    BY <1>11, CopyOutcomes DEF Skips, Cancels, Copies
  <2>2. UNCHANGED <<queueVars, producerVars, workerDone, spc>> /\ wpc = "calibrate"
    BY <1>11 DEF CopyCalibration
  <2> QED BY <2>1, <2>2
<1>12. CASE FinishCalibration
  BY <1>12 DEF FinishCalibration
<1>13. CASE Advance
  BY <1>13 DEF Advance
<1>14. CASE Exit
  BY <1>14 DEF Exit
<1>15. CASE Done
  BY <1>15 DEF Done
<1>16. ASSUME NEW n \in Requests, BeginCalibration(n) PROVE Cursors'
  BY <1>16 DEF BeginCalibration, ClientKeeps
<1>17. CASE Client
  BY <1>17, ClientFrame
<1>18. CASE Stop
  BY <1>18 DEF Stop, ClientKeeps, Cancelled
<1>19. CASE CloseIngress
  BY <1>19 DEF CloseIngress
<1>20. CASE Submit
  BY <1>20 DEF Submit
<1>21. CASE Classify
  BY <1>21 DEF Classify
<1>22. CASE Join
  BY <1>22 DEF Join
<1> QED
  BY <1>1, <1>2, <1>3, <1>4, <1>5, <1>6, <1>7, <1>8, <1>9, <1>10, <1>11, <1>12, <1>13, <1>14, <1>15, <1>16, <1>17, <1>18, <1>19, <1>20, <1>21, <1>22
     DEF IngressNext, Push, CaptureWorker, Looks

\* A step that leaves the cursors, the slots and the counts alone and neither
\* begins nor ends the handling of a block keeps the account of the frames.
LEMMA FramesFrame ==
    ASSUME Frames, UNCHANGED <<slot, published, consumed, source, written, lost, cumulative>>,
           FirstWaiting' = FirstWaiting
    PROVE  Frames'
<1>1. Waiting' = Waiting /\ Kept' = Kept
  BY DEF Waiting, Kept
<1> QED BY <1>1 DEF Frames
\* The block at the cursor is one of those that wait, once.
LEMMA BlockTaken ==
    ASSUME IngressInv, wpc \notin Handled, consumed < published
    PROVE  LET b == slot[Position(consumed)]
               rest == {slot[Position(n)] : n \in consumed + 1 .. published - 1}
           IN  /\ b \in 1 .. source /\ Waiting = {b} \cup rest /\ b \notin rest
               /\ b \notin Kept /\ b \notin lost
<1> DEFINE b == slot[Position(consumed)]
           rest == {slot[Position(n)] : n \in consumed + 1 .. published - 1}
<1>1. /\ consumed \in Nat /\ published \in Nat /\ source \in Nat
      /\ consumed \in consumed .. published - 1
  BY DEF IngressInv, IngressTypes, QueueTypes
<1>2. b \in 1 .. source
  BY <1>1 DEF IngressInv, Frames
<1>3. consumed .. published - 1 = {consumed} \cup (consumed + 1 .. published - 1)
  BY <1>1
<1>4. Waiting = {b} \cup rest
  BY <1>3 DEF Waiting, FirstWaiting
<1>5. b \notin rest
  <2> SUFFICES ASSUME NEW n \in consumed + 1 .. published - 1 PROVE b # slot[Position(n)]
    OBVIOUS
  <2>1. b < slot[Position(n)] /\ slot[Position(n)] \in Nat
    BY <1>1, <1>3 DEF IngressInv, Frames
  <2> QED BY <1>2, <2>1
<1>6. b \notin Kept /\ b \notin lost
  BY <1>4 DEF IngressInv, Frames
<1> QED BY <1>2, <1>4, <1>5, <1>6
\* The account of the frames: a push adds frames that wait or are counted, the
\* worker moves the one at the cursor to the ring or to the count.
LEMMA FramesKept ==
    ASSUME IngressInv, IngressNext
    PROVE  Frames'
<1> USE IngressAssumption DEF IngressInv, queueVars, producerVars, workerVars,
        calibrationVars, clientVars, history
<1>1. ASSUME NEW n \in 1 .. 2, Admit(n) PROVE Frames'
  BY <1>1, FramesFrame DEF Admit, FirstWaiting, Handled
<1>2. CASE Check
  BY <1>2, FramesFrame DEF Check, FirstWaiting, Handled
<1>3. CASE CopyBlock
  <2>1. /\ \A n \in consumed .. published - 1 : slot'[Position(n)] = slot[Position(n)]
        /\ UNCHANGED <<published, consumed, source, written, lost, cumulative, wpc>>
        /\ FirstWaiting .. published - 1 \subseteq consumed .. published - 1
    BY <1>3, CopyKeeps DEF CopyBlock, FirstWaiting, IngressTypes, QueueTypes
  <2>2. Waiting' = Waiting /\ Kept' = Kept
    BY <2>1 DEF Waiting, Kept, FirstWaiting
  <2> QED BY <2>1, <2>2 DEF Frames
<1>4. CASE Publish
  <2>1. /\ slot[Position(published)] = source + 1
        /\ published' = published + 1 /\ source' = source + 1
        /\ UNCHANGED <<slot, consumed, written, lost, cumulative, wpc>>
        /\ published \in Nat /\ consumed \in Nat /\ source \in Nat /\ consumed <= published
        /\ FirstWaiting \in Nat /\ FirstWaiting <= published
    BY <1>4 DEF Publish, Cursors, IngressTypes, QueueTypes, FirstWaiting
  <2>2. /\ FirstWaiting .. published = (FirstWaiting .. published - 1) \cup {published}
        /\ consumed .. published = (consumed .. published - 1) \cup {published}
        /\ 1 .. source + 1 = (1 .. source) \cup {source + 1} /\ source + 1 \notin 1 .. source
    BY <2>1
  <2>3. Kept' = Kept /\ Waiting' = Waiting \cup {source + 1}
    BY <2>1, <2>2 DEF Kept, Waiting, FirstWaiting
  <2>4. Kept' \cup lost' \cup Waiting' = 1 .. source'
    BY <2>1, <2>2, <2>3 DEF Frames
  <2>5. Kept' \cap lost' = {} /\ Kept' \cap Waiting' = {} /\ lost' \cap Waiting' = {}
    BY <2>1, <2>2, <2>3 DEF Frames
  <2>6. \A n \in consumed' .. published' - 1 : slot'[Position(n)] \in 1 .. source'
    BY <2>1, <2>2 DEF Frames
  <2>7. ASSUME NEW m \in consumed' .. published' - 1, NEW n \in consumed' .. published' - 1, m < n
        PROVE  slot'[Position(m)] < slot'[Position(n)]
    <3>1. m \in consumed .. published - 1 /\ slot[Position(m)] \in 1 .. source
      BY <2>1, <2>7 DEF Frames
    <3>2. CASE n = published
      BY <2>1, <3>1, <3>2
    <3>3. CASE n # published
      BY <2>1, <2>7, <3>1, <3>3 DEF Frames
    <3> QED BY <3>2, <3>3
  <2> QED BY <2>1, <2>4, <2>5, <2>6, <2>7 DEF Frames
<1>5. CASE CountDropped
  <2> DEFINE gone == source + 1 .. pushEnd
  <2>1. /\ source \in Nat /\ pushEnd \in Nat /\ source < pushEnd
        /\ cumulative' = cumulative + (pushEnd - source) /\ lost' = lost \cup gone /\ source' = pushEnd
        /\ UNCHANGED <<slot, published, consumed, written, wpc>>
    BY <1>5 DEF CountDropped, Cursors, IngressTypes, QueueTypes
  <2>2. Waiting' = Waiting /\ Kept' = Kept
    BY <2>1 DEF Waiting, Kept, FirstWaiting
  <2>3. 1 .. pushEnd = (1 .. source) \cup gone /\ (1 .. source) \cap gone = {}
    BY <2>1
  <2>4. Kept \cup lost \cup Waiting = 1 .. source
    BY DEF Frames
  <2>5. Kept' \cup lost' \cup Waiting' = 1 .. source'
    BY <2>1, <2>2, <2>3, <2>4
  <2>6. Kept' \cap lost' = {} /\ Kept' \cap Waiting' = {} /\ lost' \cap Waiting' = {}
    BY <2>1, <2>2, <2>3, <2>4 DEF Frames
  <2>7. IsFiniteSet(lost') /\ cumulative' = Cardinality(lost')
    <3>1. IsFiniteSet(gone) /\ Cardinality(gone) = pushEnd - source
      BY <2>1, FS_Interval
    <3>2. lost \cap gone = {}
      BY <2>3, <2>4
    <3>3. IsFiniteSet(lost) /\ cumulative = Cardinality(lost) /\ Cardinality({}) = 0
      BY FS_EmptySet DEF Frames
    <3>4. /\ IsFiniteSet(lost \cup gone)
          /\ Cardinality(lost \cup gone) = Cardinality(lost) + Cardinality(gone) - Cardinality(lost \cap gone)
      BY <3>1, <3>3, FS_Union
    <3>5. cumulative \in Nat
      BY DEF IngressTypes, QueueTypes
    <3> HIDE DEF gone
    <3>6. Cardinality(lost \cap gone) = 0
      BY <3>2, <3>3
    <3>7. Cardinality(lost \cup gone) = cumulative + (pushEnd - source) - 0
      BY <3>1, <3>3, <3>4, <3>6
    <3> QED BY <2>1, <3>4, <3>5, <3>7
  <2>8. \A n \in consumed' .. published' - 1 : slot'[Position(n)] \in 1 .. source'
    BY <2>1, <2>3 DEF Frames
  <2> QED BY <2>1, <2>5, <2>6, <2>7, <2>8 DEF Frames
<1>6. CASE NextGeneration
  BY <1>6, FramesFrame DEF NextGeneration, FirstWaiting, Handled
<1>7. CASE Leave
  BY <1>7, FramesFrame DEF Leave, FirstWaiting, Handled
<1>8. CASE Looks
  BY <1>8, LooksFrame, FramesFrame DEF FirstWaiting, Handled, Between
<1>9. CASE WriteRing
  <2> DEFINE b == slot[Position(consumed)]
             rest == {slot[Position(n)] : n \in consumed + 1 .. published - 1}
  <2>1. /\ wpc \notin Handled /\ wpc' \in Handled /\ consumed < published
        /\ written' = Append(written, b) /\ written \in Seq(Nat)
        /\ UNCHANGED <<slot, published, consumed, source, lost, cumulative>>
    BY <1>9 DEF WriteRing, Handled, IngressTypes, QueueTypes
  <2>2. Waiting' = rest
    BY <2>1 DEF Waiting, FirstWaiting
  <2>3. Kept' = Kept \cup {b}
    BY <2>1 DEF Kept
  <2>4. b \in 1 .. source /\ Waiting = {b} \cup rest /\ b \notin rest /\ b \notin Kept /\ b \notin lost
    BY <2>1, BlockTaken
  <2> HIDE DEF b, rest
  <2>5. Kept' \cup lost' \cup Waiting' = 1 .. source'
    BY <2>1, <2>2, <2>3, <2>4 DEF Frames
  <2>6. Kept' \cap lost' = {} /\ Kept' \cap Waiting' = {} /\ lost' \cap Waiting' = {}
    BY <2>1, <2>2, <2>3, <2>4 DEF Frames
  <2> QED BY <2>1, <2>5, <2>6 DEF Frames
<1>10. CASE RingRefuses
  <2> DEFINE b == slot[Position(consumed)]
             rest == {slot[Position(n)] : n \in consumed + 1 .. published - 1}
  <2>1. /\ wpc \notin Handled /\ wpc' \in Handled /\ consumed < published
        /\ lost' = lost \cup {b} /\ cumulative' = cumulative + 1
        /\ UNCHANGED <<slot, published, consumed, source, written>>
    BY <1>10 DEF RingRefuses, Handled
  <2>2. Waiting' = rest /\ Kept' = Kept
    BY <2>1 DEF Waiting, Kept, FirstWaiting
  <2>3. b \in 1 .. source /\ Waiting = {b} \cup rest /\ b \notin rest /\ b \notin Kept /\ b \notin lost
    BY <2>1, BlockTaken
  <2> HIDE DEF b, rest
  <2>4. Kept' \cup lost' \cup Waiting' = 1 .. source'
    BY <2>1, <2>2, <2>3 DEF Frames
  <2>5. Kept' \cap lost' = {} /\ Kept' \cap Waiting' = {} /\ lost' \cap Waiting' = {}
    BY <2>1, <2>2, <2>3 DEF Frames
  <2>6. IsFiniteSet(lost') /\ cumulative' = Cardinality(lost')
    BY <2>1, <2>3, FS_AddElement DEF Frames
  <2> QED BY <2>1, <2>4, <2>5, <2>6 DEF Frames
<1>11. CASE CopyCalibration
  <2>1. wpc' \in {"advance", "complete"}
    BY <1>11, CopyOutcomes DEF Skips, Cancels, Copies
  <2> QED BY <1>11, <2>1, FramesFrame DEF CopyCalibration, FirstWaiting, Handled
<1>12. CASE FinishCalibration
  BY <1>12, FramesFrame DEF FinishCalibration, FirstWaiting, Handled
<1>13. CASE Advance
  <2>1. /\ wpc \in Handled /\ wpc' \notin Handled /\ consumed' = consumed + 1
        /\ UNCHANGED <<slot, published, source, written, lost, cumulative>>
        /\ consumed' .. published - 1 \subseteq consumed .. published - 1
    BY <1>13 DEF Advance, Handled, producerVars, IngressTypes, QueueTypes
  <2>2. Waiting' = Waiting /\ Kept' = Kept
    BY <2>1 DEF Waiting, Kept, FirstWaiting
  <2> QED BY <2>1, <2>2 DEF Frames
<1>14. CASE Exit
  BY <1>14, FramesFrame DEF Exit, FirstWaiting, Handled
<1>15. CASE Done
  BY <1>15, FramesFrame DEF Done, FirstWaiting, Handled
<1>16. ASSUME NEW n \in Requests, BeginCalibration(n) PROVE Frames'
  BY <1>16, FramesFrame DEF BeginCalibration, ClientKeeps, FirstWaiting, Handled
<1>17. CASE Client
  BY <1>17, ClientFrame, FramesFrame DEF FirstWaiting
<1>18. CASE Stop
  BY <1>18, FramesFrame DEF Stop, ClientKeeps, Cancelled, FirstWaiting, Handled
<1>19. CASE CloseIngress
  BY <1>19, FramesFrame DEF CloseIngress, FirstWaiting, Handled
<1>20. CASE Submit
  BY <1>20, FramesFrame DEF Submit, FirstWaiting, Handled
<1>21. CASE Classify
  <2> DEFINE b == slot[Position(consumed)]
             rest == {slot[Position(n)] : n \in consumed + 1 .. published - 1}
  <2>1. /\ wpc \notin Handled /\ wpc' = wpc /\ consumed < published /\ consumed' = consumed + 1
        /\ lost' = lost \cup {b} /\ cumulative' = cumulative + 1
        /\ UNCHANGED <<slot, published, source, written>>
        /\ consumed' .. published - 1 \subseteq consumed .. published - 1
    BY <1>21 DEF Classify, Handled, Cursors, workerVars, producerVars, IngressTypes, QueueTypes
  <2>2. Waiting' = rest /\ Kept' = Kept
    BY <2>1 DEF Waiting, Kept, FirstWaiting
  <2>3. b \in 1 .. source /\ Waiting = {b} \cup rest /\ b \notin rest /\ b \notin Kept /\ b \notin lost
    BY <2>1, BlockTaken
  <2> HIDE DEF b, rest
  <2>4. Kept' \cup lost' \cup Waiting' = 1 .. source'
    BY <2>1, <2>2, <2>3 DEF Frames
  <2>5. Kept' \cap lost' = {} /\ Kept' \cap Waiting' = {} /\ lost' \cap Waiting' = {}
    BY <2>1, <2>2, <2>3 DEF Frames
  <2>6. IsFiniteSet(lost') /\ cumulative' = Cardinality(lost')
    BY <2>1, <2>3, FS_AddElement DEF Frames
  <2> QED BY <2>1, <2>4, <2>5, <2>6 DEF Frames
<1>22. CASE Join
  BY <1>22, FramesFrame DEF Join, FirstWaiting, Handled
<1> QED
  BY <1>1, <1>2, <1>3, <1>4, <1>5, <1>6, <1>7, <1>8, <1>9, <1>10, <1>11, <1>12, <1>13, <1>14, <1>15, <1>16, <1>17, <1>18, <1>19, <1>20, <1>21, <1>22
     DEF IngressNext, Push, CaptureWorker, Looks

\* The producer's steps leave the worker and the calibration alone.
LEMMA ProducerFrame ==
    ASSUME NEW n, Admit(n) \/ Push
    PROVE  UNCHANGED <<workerVars, calibrationVars, clientVars, spc, boundary, drained>>
BY DEF Admit, Push, Check, CopyBlock, Publish, CountDropped, NextGeneration, Leave, history
\* The slot, its client and the worker stay in step.
LEMMA SlotStatesKept ==
    ASSUME IngressInv, IngressNext
    PROVE  SlotStates'
<1> USE DEF IngressInv, IngressTypes, ControlTypes, CaptureTypes, Handled, SlotStates, queueVars, producerVars, workerVars,
        calibrationVars, clientVars, history
<1>1. ASSUME NEW n \in 1 .. 2, Admit(n) PROVE SlotStates'
  BY <1>1, ProducerFrame
<1>2. CASE Push
  BY <1>2, ProducerFrame
<1>3. CASE Top
  BY <1>3 DEF Top, NoCapture
<1>4. CASE Boundary1
  BY <1>4 DEF Boundary1
<1>5. CASE Boundary2
  BY <1>5 DEF Boundary2
<1>6. CASE Boundary3
  BY <1>6 DEF Boundary3
<1>7. CASE Boundary4
  BY <1>7 DEF Boundary4
<1>8. CASE TakeReady
  BY <1>8 DEF TakeReady
<1>9. CASE StartCapture
  BY <1>9 DEF StartCapture
<1>10. CASE Nothing
  BY <1>10 DEF Nothing
<1>11. CASE WriteRing
  BY <1>11 DEF WriteRing
<1>12. CASE RingRefuses
  BY <1>12 DEF RingRefuses
<1>13. CASE CopyCalibration
  <2>1. /\ wpc = "calibrate" /\ UNCHANGED <<cpc, request>>
    BY <1>13 DEF CopyCalibration
  <2>2. CASE Skips
    BY <2>1, <2>2 DEF Skips
  <2>3. CASE Cancels
    BY <2>1, <2>3 DEF Cancels, NoCapture
  <2>4. CASE Copies
    BY <2>1, <2>4 DEF Copies, NoCapture
  <2> QED BY <1>13, <2>2, <2>3, <2>4, CopyOutcomes
<1>14. CASE FinishCalibration
  BY <1>14 DEF FinishCalibration
<1>15. CASE Advance
  BY <1>15 DEF Advance
<1>16. CASE Exit
  BY <1>16 DEF Exit, NoCapture
<1>17. CASE Done
  BY <1>17 DEF Done
<1>18. ASSUME NEW n \in Requests, BeginCalibration(n) PROVE SlotStates'
  <2>1. n \in Nat /\ n > 0
    BY IngressAssumption DEF Requests
  <2> QED BY <1>18, <2>1 DEF BeginCalibration, ClientKeeps
<1>19. CASE Ready
  BY <1>19 DEF Ready, ClientKeeps
<1>20. CASE TakeLease
  BY <1>20 DEF TakeLease, ClientKeeps
<1>21. CASE TakeFailure
  BY <1>21 DEF TakeFailure, ClientKeeps
<1>22. CASE Abort
  BY <1>22 DEF Abort, ClientKeeps, Cancelled
<1>23. CASE Timeout
  BY <1>23 DEF Timeout, ClientKeeps, Cancelled
<1>24. CASE WorkerGone
  <2>1. wpc = "done"
    BY <1>24 DEF WorkerGone, Cursors
  <2> QED BY <1>24, <2>1 DEF WorkerGone, ClientKeeps
<1>25. CASE DropLease
  BY <1>25 DEF DropLease, ClientKeeps
<1>26. CASE Stop
  BY <1>26 DEF Stop, ClientKeeps, Cancelled
<1>27. CASE CloseIngress
  BY <1>27 DEF CloseIngress
<1>28. CASE Submit
  BY <1>28 DEF Submit
<1>29. CASE Classify
  BY <1>29 DEF Classify
<1>30. CASE Join
  BY <1>30 DEF Join
<1> QED
  BY <1>1, <1>2, <1>3, <1>4, <1>5, <1>6, <1>7, <1>8, <1>9, <1>10, <1>11, <1>12, <1>13, <1>14, <1>15, <1>16, <1>17, <1>18, <1>19, <1>20, <1>21, <1>22, <1>23, <1>24, <1>25, <1>26, <1>27, <1>28, <1>29, <1>30
     DEF IngressNext, Push, CaptureWorker, Client

\* A step that leaves the worker outside of calibration_boundary keeps the fence.
LEMMA FenceFrame ==
    ASSUME wpc' \notin {"published", "dropped", "recheck"}
    PROVE  Fence'
BY DEF Fence

\* The fence of calibration_boundary: a push that meets it is seen, by its admission
\* while it is inside and by its generation when it has left.
LEMMA FenceKept ==
    ASSUME IngressInv, IngressNext
    PROVE  Fence'
<1> USE DEF IngressInv, IngressTypes, QueueTypes, CaptureTypes, Cursors, Fence, queueVars, producerVars, workerVars,
        calibrationVars, clientVars, history
<1>1. ASSUME NEW n \in 1 .. 2, Admit(n) PROVE Fence'
  BY <1>1 DEF Admit
<1>2. CASE Check
  BY <1>2 DEF Check
<1>3. CASE CopyBlock
  BY <1>3 DEF CopyBlock
<1>4. CASE Publish
  BY <1>4 DEF Publish
<1>5. CASE CountDropped
  BY <1>5 DEF CountDropped
<1>6. CASE NextGeneration
  BY <1>6 DEF NextGeneration
<1>7. CASE Leave
  BY <1>7 DEF Leave
<1>8. CASE Top
  BY <1>8, FenceFrame DEF Top
<1>9. CASE Boundary1
  <2>1. CASE admitted
    <3>1. wpc' = "consume"
      BY <1>9, <2>1 DEF Boundary1
    <3> QED BY <3>1, FenceFrame
  <2>2. CASE ~admitted
    <3>1. wpc' = "published" /\ seen' = [seen EXCEPT !.generation = generation]
      BY <1>9, <2>2 DEF Boundary1
    <3>2. generation' = generation /\ ppc' = ppc
      BY <1>9 DEF Boundary1
    <3>3. seen'.generation = generation /\ generation \in Nat
      BY <3>1
    <3>4. ppc # "leave"
      BY <2>2
    <3> HIDE DEF IngressInv, IngressTypes, Cursors
    <3> QED BY <3>1, <3>2, <3>3, <3>4
  <2> QED BY <2>1, <2>2
<1>10. CASE Boundary2
  BY <1>10 DEF Boundary2
<1>11. CASE Boundary3
  BY <1>11 DEF Boundary3
<1>12. CASE Boundary4
  BY <1>12, FenceFrame DEF Boundary4
<1>13. CASE TakeReady
  BY <1>13, FenceFrame DEF TakeReady
<1>14. CASE StartCapture
  BY <1>14, FenceFrame DEF StartCapture
<1>15. CASE Nothing
  BY <1>15, FenceFrame DEF Nothing
<1>16. CASE WriteRing
  BY <1>16, FenceFrame DEF WriteRing
<1>17. CASE RingRefuses
  BY <1>17, FenceFrame DEF RingRefuses
<1>18. CASE CopyCalibration
  BY <1>18, CopyOutcomes, FenceFrame DEF Skips, Cancels, Copies
<1>19. CASE FinishCalibration
  BY <1>19, FenceFrame DEF FinishCalibration
<1>20. CASE Advance
  BY <1>20, FenceFrame DEF Advance
<1>21. CASE Exit
  BY <1>21, FenceFrame DEF Exit
<1>22. CASE Done
  BY <1>22, FenceFrame DEF Done
<1>23. ASSUME NEW n \in Requests, BeginCalibration(n) PROVE Fence'
  BY <1>23 DEF BeginCalibration, ClientKeeps
<1>24. CASE Client
  BY <1>24, ClientFrame
<1>25. CASE Stop
  BY <1>25 DEF Stop, ClientKeeps, Cancelled
<1>26. CASE CloseIngress
  BY <1>26 DEF CloseIngress
<1>27. CASE Submit
  BY <1>27 DEF Submit
<1>28. CASE Classify
  BY <1>28, FenceFrame DEF Classify, Cursors
<1>29. CASE Join
  BY <1>29 DEF Join
<1> QED
  BY <1>1, <1>2, <1>3, <1>4, <1>5, <1>6, <1>7, <1>8, <1>9, <1>10, <1>11, <1>12, <1>13, <1>14, <1>15, <1>16, <1>17, <1>18, <1>19, <1>20, <1>21, <1>22, <1>23, <1>24, <1>25, <1>26, <1>27, <1>28, <1>29
     DEF IngressNext, Push, CaptureWorker

\* A step that leaves the queue and the counts alone keeps what lies behind a boundary.
LEMMA BehindFrame ==
    ASSUME NEW from, NEW count, NEW mark, Behind(from, count, mark),
           UNCHANGED <<slot, published, consumed, source, cumulative, lost, failures>>
    PROVE  Behind(from, count, mark)'
BY DEF Behind

\* Behind a boundary the next frames follow one another for as long as no drop is
\* counted, and a drop leaves its mark.
LEMMA BehindKept ==
    ASSUME IngressInv, IngressNext, wpc # "done",
           NEW from \in Nat, NEW count \in Nat, NEW mark \in Nat, Behind(from, count, mark)
    PROVE  Behind(from, count, mark)'
<1>1. ASSUME NEW n \in 1 .. 2, Admit(n) PROVE Behind(from, count, mark)'
  BY <1>1, BehindFrame DEF Admit, queueVars, producerVars, workerVars, history
<1>2. CASE Check
  BY <1>2, BehindFrame DEF Check, queueVars, producerVars, workerVars, history
<1>3. CASE CopyBlock
  <2>1. /\ \A n \in consumed .. published - 1 : slot'[Position(n)] = slot[Position(n)]
        /\ UNCHANGED <<published, consumed, source, cumulative, lost, failures>>
    BY <1>3, CopyKeeps DEF CopyBlock, IngressInv, workerVars, history
  <2> QED BY <2>1 DEF Behind
<1>4. CASE Publish
  <2>1. /\ slot[Position(published)] = source + 1
        /\ published' = published + 1 /\ source' = source + 1
        /\ UNCHANGED <<slot, consumed, cumulative, lost, failures>>
        /\ published \in Nat /\ consumed \in Nat /\ source \in Nat /\ consumed <= published
    BY <1>4 DEF Publish, IngressInv, Cursors, IngressTypes, QueueTypes, workerVars, history
  <2>2. mark <= source' /\ from <= published'
    BY <2>1 DEF Behind
  <2>3. ASSUME count = cumulative, NEW n \in consumed .. published, n >= from
        PROVE  slot[Position(n)] = mark + 1 + (n - from)
    <3>1. CASE n = published
      BY <2>1, <2>3, <3>1 DEF Behind
    <3>2. CASE n # published
      BY <2>1, <2>3, <3>2 DEF Behind
    <3> QED BY <3>1, <3>2
  <2>4. count = cumulative => source' = mark + (published' - from)
    BY <2>1 DEF Behind
  <2> QED BY <2>1, <2>2, <2>3, <2>4 DEF Behind
<1>5. CASE CountDropped
  <2>1. /\ source \in Nat /\ pushEnd \in Nat /\ source < pushEnd /\ cumulative \in Nat
        /\ cumulative' = cumulative + (pushEnd - source) /\ source' = pushEnd
        /\ lost' = lost \cup (source + 1 .. pushEnd) /\ UNCHANGED published
    BY <1>5 DEF CountDropped, IngressInv, Cursors, IngressTypes, QueueTypes
  <2>2. pushEnd \in lost' /\ pushEnd > mark
    BY <2>1 DEF Behind
  <2> QED BY <2>1, <2>2 DEF Behind
<1>6. CASE NextGeneration
  BY <1>6, BehindFrame DEF NextGeneration, queueVars, producerVars, workerVars, history
<1>7. CASE Leave
  BY <1>7, BehindFrame DEF Leave, queueVars, producerVars, workerVars, history
<1>8. CASE Looks
  BY <1>8, LooksFrame, BehindFrame DEF queueVars, producerVars
<1>9. CASE WriteRing
  BY <1>9, BehindFrame DEF WriteRing, queueVars, producerVars, workerVars, history
<1>10. CASE RingRefuses
  <2>1. /\ cumulative \in Nat /\ failures \in Nat
        /\ cumulative' = cumulative + 1 /\ failures' = failures + 1 /\ UNCHANGED <<source, published>>
    BY <1>10 DEF RingRefuses, IngressInv, IngressTypes, QueueTypes, producerVars
  <2> QED BY <2>1 DEF Behind
<1>11. CASE CopyCalibration
  BY <1>11, BehindFrame DEF CopyCalibration, queueVars, producerVars, workerVars, history
<1>12. CASE FinishCalibration
  BY <1>12, BehindFrame DEF FinishCalibration, queueVars, producerVars, workerVars, history
<1>13. CASE Advance
  <2>1. /\ consumed' .. published - 1 \subseteq consumed .. published - 1
        /\ UNCHANGED <<slot, published, source, cumulative, lost, failures>>
    BY <1>13 DEF Advance, IngressInv, IngressTypes, QueueTypes, producerVars
  <2> QED BY <2>1 DEF Behind
<1>14. CASE Exit
  BY <1>14, BehindFrame DEF Exit, queueVars, producerVars, workerVars, history
<1>15. CASE Done
  BY <1>15, BehindFrame DEF Done, queueVars, producerVars, workerVars, history
<1>16. ASSUME NEW n \in Requests, BeginCalibration(n) PROVE Behind(from, count, mark)'
  BY <1>16, BehindFrame DEF BeginCalibration, ClientKeeps, queueVars, producerVars, workerVars, history
<1>17. CASE Client
  BY <1>17, ClientFrame, BehindFrame DEF queueVars, producerVars, workerVars, history
<1>18. CASE Stop
  BY <1>18, BehindFrame DEF Stop, ClientKeeps, Cancelled, queueVars, producerVars, workerVars, history
<1>19. CASE CloseIngress
  BY <1>19, BehindFrame DEF CloseIngress, queueVars, producerVars, workerVars, history
<1>20. CASE Submit
  BY <1>20, BehindFrame DEF Submit, queueVars, producerVars, workerVars, history
<1>21. CASE Classify
  BY <1>21 DEF Classify, IngressInv, Cursors
<1>22. CASE Join
  BY <1>22, BehindFrame DEF Join, queueVars, producerVars, workerVars, history
<1> QED
  BY <1>1, <1>2, <1>3, <1>4, <1>5, <1>6, <1>7, <1>8, <1>9, <1>10, <1>11, <1>12, <1>13, <1>14, <1>15, <1>16, <1>17, <1>18, <1>19, <1>20, <1>21, <1>22
     DEF IngressNext, Push, CaptureWorker, Looks

\* The boundary that calibration_boundary returned holds until the capture starts.
LEMMA TakenKept ==
    ASSUME IngressInv, IngressNext
    PROVE  Taken'
<1> SUFFICES ASSUME wpc' \in {"take", "start"}
             PROVE  consumed' <= seen'.published /\ Behind(seen.published, seen.dropped, seen.source)'
  BY DEF Taken
<1>1. CASE Boundary4
  <2>1. /\ wpc = "recheck" /\ ppc = "idle" /\ generation = seen.generation
        /\ seen' = [seen EXCEPT !.source = source]
        /\ UNCHANGED <<slot, published, consumed, source, cumulative, lost, failures>>
    BY <1>1 DEF Boundary4, IngressInv, Cursors, queueVars, producerVars, history
  <2>2. /\ consumed <= seen.published /\ seen.published = published /\ seen.dropped = cumulative
    BY <2>1 DEF IngressInv, Fence
  <2>3. seen'.published = published /\ seen'.dropped = cumulative /\ seen'.source = source
    BY <2>1, <2>2 DEF IngressInv, IngressTypes, CaptureTypes
  <2>4. source \in Nat /\ published \in Nat /\ consumed \in Nat /\ cumulative \in Nat
    BY DEF IngressInv, IngressTypes, QueueTypes
  <2>5. Behind(seen.published, seen.dropped, seen.source)'
    BY <2>1, <2>3, <2>4 DEF Behind
  <2> QED BY <2>1, <2>2, <2>3, <2>5
<1>2. CASE ~Boundary4
  <2>1. wpc \in {"take", "start"} /\ UNCHANGED <<seen, consumed>>
    <3>1. CASE Looks
      BY <1>2, <3>1, LooksFrame DEF Looks, Top, Boundary1, Boundary2, Boundary3, TakeReady,
         StartCapture, Nothing, queueVars
    <3>2. CASE WriteRing \/ RingRefuses \/ FinishCalibration \/ Advance \/ Exit \/ Done
      BY <3>2 DEF WriteRing, RingRefuses, FinishCalibration, Advance, Exit, Done
    <3>3. CASE CopyCalibration
      BY <3>3, CopyOutcomes DEF Skips, Cancels, Copies
    <3>4. ASSUME NEW n \in 1 .. 2, Admit(n) \/ Push PROVE UNCHANGED <<wpc, seen, consumed>>
      BY <3>4 DEF Admit, Push, Check, CopyBlock, Publish, CountDropped, NextGeneration, Leave,
         workerVars, queueVars
    <3>5. CASE Client
      BY <3>5, ClientFrame DEF workerVars, queueVars
    <3>6. CASE Stop \/ CloseIngress \/ Submit \/ Join \/ \E n \in Requests : BeginCalibration(n)
      BY <3>6 DEF Stop, CloseIngress, Submit, Join, BeginCalibration, ClientKeeps, workerVars, queueVars
    <3>7. CASE Classify
      BY <3>7 DEF Classify, IngressInv, Cursors, workerVars
    <3> QED BY <1>2, <3>1, <3>2, <3>3, <3>4, <3>5, <3>6, <3>7 DEF IngressNext, CaptureWorker, Looks
  <2>2. seen.published \in Nat /\ seen.dropped \in Nat /\ seen.source \in Nat
    BY DEF IngressInv, IngressTypes, CaptureTypes
  <2>3. Behind(seen.published, seen.dropped, seen.source) /\ consumed <= seen.published
    BY <2>1 DEF IngressInv, Captures, Taken
  <2>4. Behind(seen.published, seen.dropped, seen.source)'
    BY SMTT(30), <2>1, <2>2, <2>3, BehindKept DEF Behind
  <2> QED BY <2>1, <2>3, <2>4
<1> QED BY <1>1, <1>2

\* A capture stays what it was when nothing but drops happens to it.
LEMMA GenuineFrame ==
    ASSUME CaptureGenuine, UNCHANGED <<samples, request, metadata, boundary>>,
           failures \in Nat, failures' \in Nat, failures <= failures', lost \subseteq lost'
    PROVE  CaptureGenuine'
BY DEF CaptureGenuine

\* A step that neither adds a sample nor moves the next block keeps the samples.
LEMMA SamplesFrame ==
    ASSUME SamplesSoFar, NextSample' = NextSample,
           UNCHANGED <<slot, published, source, cumulative, samples, request, capture, boundary>>
    PROVE  SamplesSoFar'
BY DEF SamplesSoFar
\* A block that is copied follows the samples before it, and is the next frame
\* behind the boundary unless a drop was counted.
LEMMA SampleAdded ==
    ASSUME IngressInv, wpc = "calibrate", Copies
    PROVE  /\ Len(samples') = Len(samples) + 1
           /\ \A i \in 1 .. Len(samples') - 1 : samples'[i] < samples'[i + 1]
           /\ \A i \in 1 .. Len(samples') : samples'[i] <= source
           /\ \A i \in 1 .. Len(samples') : \A n \in consumed + 1 .. published - 1 :
                 samples'[i] < slot[Position(n)]
           /\ capture.dropped = cumulative =>
                /\ Len(samples') = (consumed + 1) - capture.from
                /\ \A i \in 1 .. Len(samples') : samples'[i] = boundary + i
<1>a. Behind(capture.from, capture.dropped, boundary) /\ SamplesSoFar
  BY DEF IngressInv, Captures, Running, Copies
<1>t. /\ slot \in [0 .. Slots - 1 -> Nat] /\ published \in Nat /\ consumed \in Nat /\ cumulative \in Nat
      /\ source \in Nat /\ pushEnd \in Nat /\ capture.from \in Nat /\ capture.dropped \in Nat
      /\ samples \in Seq(Nat) /\ request \in Nat /\ boundary \in Nat /\ Len(samples) \in Nat
      /\ NextSample \in Nat
  BY DEF IngressInv, IngressTypes, QueueTypes, CaptureTypes, NextSample
<1>s. /\ Len(samples) < request
      /\ \A i \in 1 .. Len(samples) - 1 : samples[i] < samples[i + 1]
      /\ \A i \in 1 .. Len(samples) : samples[i] <= source
      /\ \A i \in 1 .. Len(samples) : \A n \in NextSample .. published - 1 : samples[i] < slot[Position(n)]
      /\ capture.dropped <= cumulative
  BY <1>a DEF SamplesSoFar, Behind
<1>u. \A i \in 1 .. Len(samples) : samples[i] \in Nat
  BY <1>t
<1>c. NextSample = consumed
  BY DEF NextSample
<1> DEFINE b == slot[Position(consumed)]
<1>1. ~(consumed < capture.from) /\ samples' = Append(samples, b)
  BY DEF Copies
<1>2. consumed \in consumed .. published - 1 /\ b \in Nat /\ b <= source
  <2>1. consumed \in consumed .. published - 1
    BY <1>t, <1>c DEF IngressInv, Cursors, Handled
  <2>2. b \in 1 .. source
    BY <2>1 DEF IngressInv, Frames
  <2> QED BY <1>t, <2>1, <2>2
<1>3. /\ samples' \in Seq(Nat) /\ Len(samples') = Len(samples) + 1 /\ samples'[Len(samples) + 1] = b
      /\ \A i \in 1 .. Len(samples) : samples'[i] = samples[i]
  BY <1>t, <1>1, <1>2, AppendProperties
<1>4. \A i \in 1 .. Len(samples) : samples[i] < b
  BY <1>s, <1>c, <1>2
<1> HIDE DEF b
<1>6. ASSUME NEW i \in 1 .. Len(samples') - 1 PROVE samples'[i] < samples'[i + 1]
  <2>1. CASE i = Len(samples)
    <3>1. i \in 1 .. Len(samples)
      BY <1>t, <1>3, <2>1
    <3> QED BY <1>3, <1>4, <2>1, <3>1
  <2>2. CASE i # Len(samples)
    <3>1. i \in 1 .. Len(samples) - 1 /\ i \in 1 .. Len(samples) /\ i + 1 \in 1 .. Len(samples)
      BY <1>t, <1>3, <2>2
    <3> QED BY <1>s, <1>3, <3>1
  <2> QED BY <2>1, <2>2
<1>7. ASSUME NEW i \in 1 .. Len(samples') PROVE samples'[i] <= source
  <2>1. CASE i = Len(samples) + 1
    BY <1>c, <1>2, <1>3, <2>1
  <2>2. CASE i # Len(samples) + 1
    <3>1. i \in 1 .. Len(samples)
      BY <1>t, <1>3, <2>2
    <3> QED BY <1>s, <1>c, <1>3, <3>1
  <2> QED BY <2>1, <2>2
<1>8. ASSUME NEW i \in 1 .. Len(samples'), NEW n \in consumed + 1 .. published - 1
      PROVE  samples'[i] < slot[Position(n)]
  <2>1. n \in consumed .. published - 1 /\ consumed < n
    BY <1>t, <1>c, <1>1
  <2>2. b < slot[Position(n)] /\ slot[Position(n)] \in Nat
    <3>1. b < slot[Position(n)]
      BY <1>2, <2>1 DEF IngressInv, Frames, b
    <3>2. slot[Position(n)] \in 1 .. source
      BY <2>1 DEF IngressInv, Frames
    <3> QED BY <1>t, <3>1, <3>2
  <2>3. CASE i = Len(samples) + 1
    BY <1>c, <1>3, <2>2, <2>3
  <2>4. CASE i # Len(samples) + 1
    <3>1. i \in 1 .. Len(samples) /\ samples[i] \in Nat
      BY <1>t, <1>u, <1>3, <2>4
    <3>2. samples[i] < b
      BY <1>4, <3>1
    <3> QED BY SMTT(30), <1>c, <1>2, <1>3, <2>2, <3>1, <3>2
  <2> QED BY <2>3, <2>4
<1>9. ASSUME capture.dropped = cumulative
      PROVE  /\ Len(samples') = (consumed + 1) - capture.from
             /\ \A i \in 1 .. Len(samples') : samples'[i] = boundary + i
  <2>1. Len(samples) = consumed - capture.from
    BY <1>a, <1>t, <1>c, <1>1, <1>9 DEF SamplesSoFar
  <2>2. b = boundary + 1 + (consumed - capture.from)
    <3>1. \A n \in consumed .. published - 1 :
             n >= capture.from => slot[Position(n)] = boundary + 1 + (n - capture.from)
      BY <1>a, <1>9 DEF Behind
    <3>2. consumed >= capture.from
      BY <1>t, <1>1
    <3> QED BY <1>2, <3>1, <3>2 DEF b
  <2>3. ASSUME NEW i \in 1 .. Len(samples') PROVE samples'[i] = boundary + i
    <3>1. CASE i = Len(samples) + 1
      <4>0. i = (consumed - capture.from) + 1
        BY <2>1, <3>1
      <4>1. b = boundary + i
        <5>1. boundary \in Int /\ consumed - capture.from \in Int
          BY <1>t
        <5>2. boundary + 1 + (consumed - capture.from) = boundary + ((consumed - capture.from) + 1)
          BY <5>1
        <5> QED BY <2>2, <4>0, <5>2
      <4> QED BY <1>3, <3>1, <4>1
    <3>2. CASE i # Len(samples) + 1
      <4>1. i \in 1 .. Len(samples)
        BY <1>t, <1>3, <3>2
      <4> QED BY <1>a, <1>3, <1>9, <4>1 DEF SamplesSoFar
    <3> QED BY <3>1, <3>2
  <2>4. Len(samples') = (consumed + 1) - capture.from
    BY <1>t, <1>1, <1>3, <2>1
  <2> QED BY <2>3, <2>4
<1> QED BY <1>3, <1>6, <1>7, <1>8, <1>9

\* The samples of a capture under way stay in order and before the next block, and
\* the one that is added is the next frame unless a drop was counted.
LEMMA SamplesKept ==
    ASSUME IngressInv, IngressNext, capture.on, capture'.on
    PROVE  SamplesSoFar'
<1> USE DEF queueVars, producerVars, workerVars,
        calibrationVars, clientVars, history
<1>0. Behind(capture.from, capture.dropped, boundary) /\ SamplesSoFar
  BY DEF IngressInv, Captures, Running
<1>t. /\ slot \in [0 .. Slots - 1 -> Nat] /\ published \in Nat /\ consumed \in Nat /\ cumulative \in Nat
      /\ source \in Nat /\ pushEnd \in Nat /\ capture.from \in Nat /\ capture.dropped \in Nat
      /\ samples \in Seq(Nat) /\ request \in Nat /\ boundary \in Nat /\ Len(samples) \in Nat
      /\ NextSample \in Nat
  BY DEF IngressInv, IngressTypes, QueueTypes, CaptureTypes, NextSample
<1>s. /\ Len(samples) < request
      /\ \A i \in 1 .. Len(samples) - 1 : samples[i] < samples[i + 1]
      /\ \A i \in 1 .. Len(samples) : samples[i] <= source
      /\ \A i \in 1 .. Len(samples) : \A n \in NextSample .. published - 1 : samples[i] < slot[Position(n)]
      /\ capture.dropped <= cumulative
  BY <1>0 DEF SamplesSoFar, Behind
<1>u. \A i \in 1 .. Len(samples) : samples[i] \in Nat
  BY <1>t
<1>1. ASSUME NEW n \in 1 .. 2, Admit(n) PROVE SamplesSoFar'
  BY <1>1, <1>0, SamplesFrame DEF Admit, NextSample
<1>2. CASE Check
  BY <1>2, <1>0, SamplesFrame DEF Check, NextSample
<1>3. CASE CopyBlock
  <2>1. /\ \A n \in consumed .. published - 1 : slot'[Position(n)] = slot[Position(n)]
        /\ UNCHANGED <<published, consumed, source, cumulative, wpc, samples, request, capture, boundary>>
        /\ NextSample .. published - 1 \subseteq consumed .. published - 1
    BY <1>3, <1>t, CopyKeeps DEF CopyBlock, IngressInv, NextSample
  <2> QED BY <1>0, <2>1 DEF SamplesSoFar, NextSample
<1>4. CASE Publish
  <2>1. /\ slot[Position(published)] = source + 1
        /\ published' = published + 1 /\ source' = source + 1
        /\ UNCHANGED <<slot, cumulative, samples, request, capture, boundary>> /\ NextSample' = NextSample
    BY <1>4 DEF Publish, IngressInv, Cursors, NextSample
  <2>2. ASSUME NEW i \in 1 .. Len(samples), NEW n \in NextSample .. published
        PROVE  samples[i] < slot[Position(n)]
    <3>1. samples[i] <= source /\ samples[i] \in Nat
      BY <1>s, <1>u
    <3>2. CASE n = published
      BY <1>t, <2>1, <3>1, <3>2
    <3>3. CASE n # published
      <4>1. n \in NextSample .. published - 1
        BY <1>t, <2>2, <3>3
      <4> QED BY <1>s, <4>1
    <3> QED BY <3>2, <3>3
  <2>3. \A i \in 1 .. Len(samples) : samples[i] <= source'
    BY <1>t, <1>s, <1>u, <2>1
  <2>4. published' - 1 = published
    BY <1>t, <2>1
  <2> QED BY <1>0, <2>1, <2>2, <2>3, <2>4 DEF SamplesSoFar
<1>5. CASE CountDropped
  <2>1. /\ cumulative' = cumulative + (pushEnd - source) /\ source' = pushEnd /\ source < pushEnd
        /\ UNCHANGED <<slot, published, samples, request, capture, boundary>> /\ NextSample' = NextSample
    BY <1>5 DEF CountDropped, IngressInv, Cursors, NextSample
  <2>2. capture'.dropped # cumulative'
    BY <1>t, <1>s, <2>1
  <2>3. \A i \in 1 .. Len(samples) : samples[i] <= source'
    BY <1>t, <1>s, <1>u, <2>1
  <2> QED BY <1>s, <2>1, <2>2, <2>3 DEF SamplesSoFar
<1>6. CASE NextGeneration
  BY <1>6, <1>0, SamplesFrame DEF NextGeneration, NextSample
<1>7. CASE Leave
  BY <1>7, <1>0, SamplesFrame DEF Leave, NextSample
<1>8. CASE Top
  BY <1>8, <1>0, SamplesFrame DEF Top, NoCapture, NextSample
<1>9. CASE Boundary1
  BY <1>9, <1>0, SamplesFrame DEF Boundary1, NextSample
<1>10. CASE Boundary2
  BY <1>10, <1>0, SamplesFrame DEF Boundary2, NextSample
<1>11. CASE Boundary3
  BY <1>11, <1>0, SamplesFrame DEF Boundary3, NextSample
<1>12. CASE Boundary4
  BY <1>12, <1>0, SamplesFrame DEF Boundary4, NextSample
<1>13. CASE TakeReady
  BY <1>13, <1>0, SamplesFrame DEF TakeReady, NextSample
<1>14. CASE StartCapture
  BY <1>14 DEF StartCapture, SlotStates, IngressInv
<1>15. CASE Nothing
  BY <1>15, <1>0, SamplesFrame DEF Nothing, NextSample
<1>16. CASE WriteRing
  BY <1>16, <1>0, SamplesFrame DEF WriteRing, NextSample
<1>17. CASE RingRefuses
  <2>1. /\ cumulative' = cumulative + 1 /\ NextSample = consumed /\ NextSample' = consumed + 1
        /\ UNCHANGED <<slot, published, source, samples, request, capture, boundary>>
    BY <1>17 DEF RingRefuses, NextSample
  <2>2. capture'.dropped # cumulative'
    BY <1>t, <1>s, <2>1
  <2>3. NextSample' .. published - 1 \subseteq NextSample .. published - 1
    BY <1>t, <2>1
  <2> QED BY <1>s, <2>1, <2>2, <2>3 DEF SamplesSoFar
<1>18. CASE CopyCalibration
  <2>1. /\ wpc = "calibrate" /\ UNCHANGED <<slot, published, consumed, source, cumulative, request, boundary>>
        /\ NextSample = consumed
    BY <1>18 DEF CopyCalibration, NextSample
  <2>2. CASE Skips
    <3>1. /\ NextSample' = consumed + 1 /\ consumed < capture.from
          /\ UNCHANGED <<samples, capture>>
      BY <1>0, <2>1, <2>2 DEF Skips, NextSample
    <3>2. NextSample' .. published - 1 \subseteq NextSample .. published - 1
      BY <1>t, <2>1, <3>1
    <3>3. capture.dropped = cumulative => Len(samples) = 0 /\ ~(NextSample' > capture.from)
      BY <1>0, <1>t, <2>1, <3>1 DEF SamplesSoFar
    <3>4. capture'.dropped = cumulative' =>
            /\ Len(samples') = IF NextSample' > capture'.from THEN NextSample' - capture'.from ELSE 0
            /\ \A i \in 1 .. Len(samples') : samples'[i] = boundary' + i
      BY <2>1, <3>1, <3>3
    <3> QED BY <1>s, <2>1, <3>1, <3>2, <3>4 DEF SamplesSoFar
  <2>3. CASE Cancels
    BY <2>3 DEF Cancels, NoCapture
  <2>4. CASE Copies
    <3>1. /\ Len(samples') # request /\ wpc' = "advance" /\ UNCHANGED capture
          /\ NextSample' = consumed + 1
      BY <2>1, <2>4 DEF Copies, NoCapture, NextSample
    <3>2. ~(consumed < capture.from)
      BY <2>4 DEF Copies
    <3>3. NextSample' > capture'.from /\ Len(samples') < request'
      BY <1>18, <1>t, <1>s, <2>1, <2>4, <3>1, <3>2, SampleAdded
    <3> QED BY <1>18, <2>1, <2>4, <3>1, <3>3, SampleAdded DEF SamplesSoFar
  <2> QED BY <1>18, <2>2, <2>3, <2>4, CopyOutcomes
<1>19. CASE FinishCalibration
  BY <1>19 DEF FinishCalibration, SlotStates, IngressInv
<1>20. CASE Advance
  <2>1. NextSample' = NextSample
    BY <1>20 DEF Advance, NextSample
  <2> QED BY <1>20, <1>0, <2>1, SamplesFrame DEF Advance
<1>21. CASE Exit
  BY <1>21 DEF Exit, NoCapture
<1>22. CASE Done
  BY <1>22 DEF Done, SlotStates, IngressInv
<1>23. ASSUME NEW n \in Requests, BeginCalibration(n) PROVE SamplesSoFar'
  BY <1>23, <1>0, SamplesFrame DEF BeginCalibration, ClientKeeps, NextSample, SlotStates, IngressInv
<1>24. CASE Client
  BY <1>24, <1>0, ClientFrame, SamplesFrame DEF NextSample
<1>25. CASE Stop
  BY <1>25, <1>0, SamplesFrame DEF Stop, ClientKeeps, Cancelled, NextSample
<1>26. CASE CloseIngress
  BY <1>26, <1>0, SamplesFrame DEF CloseIngress, NextSample
<1>27. CASE Submit
  BY <1>27, <1>0, SamplesFrame DEF Submit, NextSample
<1>28. CASE Classify
  BY <1>28 DEF Classify, SlotStates, IngressInv, Cursors
<1>29. CASE Join
  BY <1>29, <1>0, SamplesFrame DEF Join, NextSample
<1> QED
  BY <1>1, <1>2, <1>3, <1>4, <1>5, <1>6, <1>7, <1>8, <1>9, <1>10, <1>11, <1>12, <1>13, <1>14, <1>15, <1>16, <1>17, <1>18, <1>19, <1>20, <1>21, <1>22, <1>23, <1>24, <1>25, <1>26, <1>27, <1>28, <1>29
     DEF IngressNext, Push, CaptureWorker

\* Only a new capture moves the boundary, and otherwise a capture stays or is over.
LEMMA CaptureFrame ==
    ASSUME IngressNext, ~StartCapture
    PROVE  UNCHANGED boundary /\ (capture' = capture \/ capture' = NoCapture)
<1> USE DEF workerVars, history
<1>1. CASE Top \/ Boundary1 \/ Boundary2 \/ Boundary3 \/ Boundary4 \/ TakeReady \/ Nothing
  BY <1>1 DEF Top, Boundary1, Boundary2, Boundary3, Boundary4, TakeReady, Nothing
<1>2. CASE WriteRing \/ RingRefuses \/ FinishCalibration \/ Advance \/ Exit \/ Done
  BY <1>2 DEF WriteRing, RingRefuses, FinishCalibration, Advance, Exit, Done
<1>3. CASE CopyCalibration
  <2>1. UNCHANGED boundary
    BY <1>3 DEF CopyCalibration
  <2> QED BY <1>3, <2>1, CopyOutcomes DEF Skips, Cancels, Copies
<1>4. CASE Push \/ \E n \in 1 .. 2 : Admit(n)
  BY <1>4 DEF Admit, Push, Check, CopyBlock, Publish, CountDropped, NextGeneration, Leave
<1>5. CASE Client
  BY <1>5, ClientFrame
<1>6. CASE Stop \/ CloseIngress \/ Submit \/ Join \/ Classify \/ \E n \in Requests : BeginCalibration(n)
  BY <1>6 DEF Stop, CloseIngress, Submit, Join, Classify, BeginCalibration, ClientKeeps
<1> QED BY <1>1, <1>2, <1>3, <1>4, <1>5, <1>6 DEF IngressNext, CaptureWorker

\* A capture begins at the boundary that was taken, and goes on from there.
LEMMA RunningKept ==
    ASSUME IngressInv, IngressNext
    PROVE  Running'
<1> SUFFICES ASSUME capture'.on
             PROVE  Behind(capture.from, capture.dropped, boundary)' /\ SamplesSoFar'
  BY DEF Running
<1>1. CASE StartCapture
  <2>1. state = "capturing"
    BY <1>1 DEF StartCapture, IngressInv, SlotStates
  <2>2. /\ capture' = [on |-> TRUE, from |-> seen.published, dropped |-> seen.dropped]
        /\ samples' = <<>> /\ boundary' = seen.source /\ wpc' = "consume"
        /\ UNCHANGED <<slot, published, consumed, cumulative, source, lost, failures, request>>
    BY <1>1, <2>1 DEF StartCapture, queueVars, producerVars
  <2>3. consumed <= seen.published /\ Behind(seen.published, seen.dropped, seen.source)
    BY <1>1 DEF StartCapture, IngressInv, Captures, Taken
  <2>4. capture'.from = seen.published /\ capture'.dropped = seen.dropped
    BY <2>2
  <2>5. Behind(capture.from, capture.dropped, boundary)'
    BY <2>2, <2>3, <2>4 DEF Behind
  <2>6. consumed \in Nat /\ seen.published \in Nat /\ request > 0 /\ request \in Nat
    BY <2>1 DEF IngressInv, IngressTypes, QueueTypes, CaptureTypes, SlotStates
  <2>7. NextSample' = consumed /\ ~(NextSample' > capture'.from) /\ Len(samples') = 0
    BY <2>2, <2>3, <2>4, <2>6 DEF NextSample
  <2>8. SamplesSoFar'
    BY <2>2, <2>6, <2>7 DEF SamplesSoFar
  <2> QED BY <2>5, <2>8
<1>2. CASE ~StartCapture
  <2>1. UNCHANGED <<boundary, capture>> /\ capture.on
    BY <1>2, CaptureFrame DEF NoCapture
  <2>2. wpc # "done"
    BY <2>1 DEF IngressInv, SlotStates
  <2>3. capture.from \in Nat /\ capture.dropped \in Nat /\ boundary \in Nat
    BY DEF IngressInv, IngressTypes, CaptureTypes
  <2>4. Behind(capture.from, capture.dropped, boundary)
    BY <2>1 DEF IngressInv, Captures, Running
  <2>5. Behind(capture.from, capture.dropped, boundary)'
    BY <2>1, <2>2, <2>3, <2>4, BehindKept DEF Behind
  <2> QED BY <2>1, <2>5, SamplesKept
<1> QED BY <1>1, <1>2

\* Drops and refusals are never taken back.
LEMMA CountsGrow ==
    ASSUME IngressInv, IngressNext
    PROVE  failures \in Nat /\ failures' \in Nat /\ failures <= failures' /\ lost \subseteq lost'
<1> USE DEF workerVars, history
<1>0. failures \in Nat
  BY DEF IngressInv, IngressTypes, QueueTypes
<1>1. CASE Looks
  BY <1>0, <1>1, LooksFrame
<1>2. CASE WriteRing \/ RingRefuses \/ CopyCalibration \/ FinishCalibration \/ Advance \/ Exit \/ Done
  BY <1>0, <1>2 DEF WriteRing, RingRefuses, CopyCalibration, FinishCalibration, Advance, Exit, Done
<1>4. CASE Push \/ \E n \in 1 .. 2 : Admit(n)
  BY <1>0, <1>4 DEF Admit, Push, Check, CopyBlock, Publish, CountDropped, NextGeneration, Leave
<1>5. CASE Client
  BY <1>0, <1>5, ClientFrame
<1>6. CASE Stop \/ CloseIngress \/ Submit \/ Join \/ Classify \/ \E n \in Requests : BeginCalibration(n)
  BY <1>0, <1>6 DEF Stop, CloseIngress, Submit, Join, Classify, BeginCalibration, ClientKeeps
<1> QED BY <1>1, <1>2, <1>4, <1>5, <1>6 DEF IngressNext, CaptureWorker, Looks

\* The sample that fills the request ends a genuine capture.
LEMMA LastSample ==
    ASSUME IngressInv, CopyCalibration, Copies, wpc' = "complete"
    PROVE  CaptureGenuine'
<1>1. /\ wpc = "calibrate" /\ UNCHANGED <<request, boundary, lost, failures, cumulative>>
      /\ Len(samples') = request /\ metadata'.dropped = cumulative - capture.dropped
      /\ metadata'.usable => cumulative - capture.dropped = 0
  BY DEF CopyCalibration, Copies, queueVars, history
<1>2. Behind(capture.from, capture.dropped, boundary)
  BY DEF Copies, IngressInv, Captures, Running
<1>3. /\ capture.dropped \in Nat /\ cumulative \in Nat /\ request \in Nat /\ samples' \in Seq(Nat)
  <2>1. /\ capture.dropped \in Nat /\ cumulative \in Nat /\ request \in Nat /\ samples \in Seq(Nat)
        /\ consumed \in Nat
    BY DEF IngressInv, IngressTypes, QueueTypes, CaptureTypes
  <2>2. slot[Position(consumed)] \in Nat
    BY <2>1, BlockType DEF IngressInv
  <2> QED BY <2>1, <2>2 DEF Copies
<1>4. \A i \in 1 .. request' - 1 : samples'[i] < samples'[i + 1]
  BY <1>1, SampleAdded
<1>5. ASSUME metadata'.usable PROVE samples' = [i \in 1 .. request' |-> boundary' + i]
  <2>1. capture.dropped = cumulative
    BY <1>1, <1>3, <1>5
  <2>2. \A i \in 1 .. request : samples'[i] = boundary + i
    BY <1>1, <2>1, SampleAdded
  <2> QED BY <1>1, <1>3, <2>2
<1>6. ASSUME metadata'.dropped > 0 PROVE failures' > 0 \/ \E f \in lost' : f > boundary'
  <2>1. capture.dropped < cumulative
    BY <1>1, <1>3, <1>6
  <2> QED BY <1>1, <1>2, <2>1 DEF Behind
<1> QED BY <1>1, <1>4, <1>5, <1>6 DEF CaptureGenuine

\* No step but the last sample's changes a capture that has ended.
Ended == wpc = "complete" \/ state \in {"complete", "leased"}
LEMMA EndedFrame ==
    ASSUME IngressInv, IngressNext, Ended', ~(CopyCalibration /\ wpc' = "complete")
    PROVE  Ended /\ UNCHANGED <<samples, request, metadata, boundary>>
<1> USE DEF Ended, workerVars, calibrationVars, history
<1>1. CASE Looks
  <2>1. UNCHANGED <<request, metadata>>
    BY <1>1, LooksFrame
  <2> QED BY <1>1, <2>1 DEF Looks, Top, Boundary1, Boundary2, Boundary3, Boundary4, TakeReady, StartCapture, Nothing
<1>2. CASE WriteRing \/ RingRefuses \/ FinishCalibration \/ Advance \/ Exit \/ Done
  BY <1>2 DEF WriteRing, RingRefuses, FinishCalibration, Advance, Exit, Done
<1>3. CASE CopyCalibration
  <2>1. UNCHANGED <<request, boundary>> /\ wpc' # "complete"
    BY <1>3 DEF CopyCalibration
  <2>2. CASE Skips
    BY <2>1, <2>2 DEF Skips
  <2>3. CASE Cancels
    BY <2>1, <2>3 DEF Cancels
  <2>4. CASE Copies
    BY <2>1, <2>4 DEF Copies, IngressInv, SlotStates
  <2> QED BY <1>3, <2>2, <2>3, <2>4, CopyOutcomes
<1>4. CASE Push \/ \E n \in 1 .. 2 : Admit(n)
  BY <1>4 DEF Admit, Push, Check, CopyBlock, Publish, CountDropped, NextGeneration, Leave
<1>5. CASE Client
  <2>1. UNCHANGED <<samples, request, metadata, boundary, wpc>>
    BY <1>5, ClientFrame
  <2> QED BY <1>5, <2>1 DEF Client, Ready, TakeLease, TakeFailure, Abort, Timeout, WorkerGone, DropLease, Cancelled
<1>6. CASE Stop \/ CloseIngress \/ Submit \/ Join \/ Classify
  BY <1>6 DEF Stop, CloseIngress, Submit, Join, Classify, ClientKeeps, Cancelled
<1>7. ASSUME NEW n \in Requests, BeginCalibration(n) PROVE Ended /\ UNCHANGED <<samples, request, metadata, boundary>>
  BY <1>7 DEF BeginCalibration, ClientKeeps, IngressInv, SlotStates
<1> QED BY <1>1, <1>2, <1>3, <1>4, <1>5, <1>6, <1>7 DEF IngressNext, CaptureWorker, Looks

\* A capture that has ended is genuine, and stays it.
LEMMA FinishedKept ==
    ASSUME IngressInv, IngressNext
    PROVE  Finished'
<1> SUFFICES ASSUME Ended' PROVE CaptureGenuine'
  BY DEF Finished, Ended
<1>1. CASE CopyCalibration /\ wpc' = "complete"
  BY <1>1, CopyOutcomes, LastSample DEF Skips, Cancels
<1>2. CASE ~(CopyCalibration /\ wpc' = "complete")
  <2>1. Ended /\ UNCHANGED <<samples, request, metadata, boundary>>
    BY <1>2, EndedFrame
  <2>2. CaptureGenuine
    BY <2>1 DEF IngressInv, Captures, Finished, Ended
  <2> QED BY <2>1, <2>2, CountsGrow, GenuineFrame
<1> QED BY <1>1, <1>2

\* The invariant holds at first.
LEMMA InitIngress ==
    ASSUME IngressInit
    PROVE  IngressInv
<1> USE IngressAssumption DEF IngressInit
<1>1. IngressTypes
  BY DEF IngressTypes, QueueTypes, ControlTypes, CaptureTypes, NothingSeen, NoCapture
<1>2. Cursors
  BY DEF Cursors, Handled
<1>3. Frames
  <2>1. Kept = {} /\ lost = {} /\ Waiting = {} /\ 1 .. source = {} /\ consumed .. published - 1 = {}
    BY DEF Kept, Waiting, FirstWaiting, Handled
  <2>2. IsFiniteSet(lost) /\ cumulative = Cardinality(lost)
    BY <2>1, FS_EmptySet
  <2> QED BY <2>1, <2>2 DEF Frames
<1>4. SlotStates
  BY DEF SlotStates, NoCapture
<1>5. Fence
  BY DEF Fence
<1>6. Captures
  BY DEF Captures, Taken, Running, Finished, NoCapture
<1> QED BY <1>1, <1>2, <1>3, <1>4, <1>5, <1>6 DEF IngressInv

\* The invariant of the ingress queue and the calibration slot.
THEOREM IngressInvariant == IngressSpec => []IngressInv
<1>1. IngressInit => IngressInv
  BY InitIngress
<1>2. IngressInv /\ [IngressNext]_ingressVars => IngressInv'
  <2>1. ASSUME IngressInv, IngressNext PROVE IngressInv'
    BY <2>1, TypesKept, CursorsKept, FramesKept, SlotStatesKept, FenceKept, TakenKept, RunningKept, FinishedKept
       DEF IngressInv, Captures
  <2>2. ASSUME IngressInv, UNCHANGED ingressVars PROVE IngressInv'
    <3> USE <2>2 DEF ingressVars, queueVars, producerVars, workerVars, calibrationVars, clientVars, history
    <3>1. IngressTypes' /\ Cursors'
      BY DEF IngressInv, IngressTypes, QueueTypes, ControlTypes, CaptureTypes, Cursors
    <3>2. Frames' /\ SlotStates'
      BY DEF IngressInv, Frames, Kept, Waiting, FirstWaiting, SlotStates
    <3>3. Fence' /\ Taken'
      BY DEF IngressInv, Fence, Captures, Taken, Behind
    <3>4. Running' /\ Finished'
      BY DEF IngressInv, Captures, Running, Behind, SamplesSoFar, NextSample, Finished, CaptureGenuine
    <3> QED BY <3>1, <3>2, <3>3, <3>4 DEF IngressInv, Captures
  <2> QED BY <2>1, <2>2
<1> QED BY <1>1, <1>2, PTL DEF IngressSpec

\* Once the arena is shut down every frame that was pushed is in the ring or was
\* counted as dropped, once, and the producer is out.
THEOREM FramesAreAccounted == IngressSpec => []FramesAccounted
<1>1. IngressInv => FramesAccounted
  <2> SUFFICES ASSUME IngressInv, spc = "joined"
               PROVE  /\ ~admitted /\ consumed = published
                      /\ cumulative = Cardinality(lost)
                      /\ Kept \cup lost = 1 .. source /\ Kept \cap lost = {}
    BY DEF FramesAccounted, Kept
  <2>1. ~admitted /\ consumed = published /\ wpc = "done"
    BY DEF IngressInv, Cursors
  <2>2. published \in Nat
    BY DEF IngressInv, IngressTypes, QueueTypes
  <2>3. Waiting = {}
    BY <2>1, <2>2 DEF Waiting, FirstWaiting, Handled
  <2> QED BY <2>1, <2>3 DEF IngressInv, Frames
<1> QED BY <1>1, IngressInvariant, PTL

\* A calibration that is complete holds the frames behind its boundary.
THEOREM CalibrationIsSound == IngressSpec => []CalibrationSound
<1>1. IngressInv => CalibrationSound
  BY DEF IngressInv, Captures, Finished, CalibrationSound
<1> QED BY <1>1, IngressInvariant, PTL

-----------------------------------------------------------------------------
(* The queue is a first-in first-out queue                                 *)

\* What lies between the cursors is a sequence of frame numbers, at most Slots long.
Held(s, p, c) == [i \in 1 .. p - c |-> s[Position(c + i - 1)]]
LEMMA ContentsShape ==
    ASSUME NEW s \in [0 .. Slots - 1 -> Nat], NEW p \in Nat, NEW c \in Nat, c <= p
    PROVE  /\ Held(s, p, c) \in Seq(Nat) /\ Len(Held(s, p, c)) = p - c
           /\ \A i \in 1 .. p - c : Held(s, p, c)[i] = s[Position(c + i - 1)]
<1>1. p - c \in Nat
  OBVIOUS
<1>2. ASSUME NEW i \in 1 .. p - c PROVE s[Position(c + i - 1)] \in Nat
  <2>1. c + i - 1 \in Nat
    OBVIOUS
  <2> QED BY <2>1, PositionRange
<1>3. Held(s, p, c) \in [1 .. p - c -> Nat]
  BY <1>2 DEF Held
<1>4. Held(s, p, c) \in Seq(Nat) /\ Len(Held(s, p, c)) = p - c
  BY <1>1, <1>3
<1> QED BY <1>4 DEF Held
\* The store of the published cursor pushes the block that was copied.
LEMMA PublishPushes ==
    ASSUME IngressInv, Publish
    PROVE  Abstract!Push(source + 1)
<1>1. /\ slot[Position(published)] = source + 1 /\ published' = published + 1
      /\ UNCHANGED <<slot, consumed, drained>> /\ published < consumed + Slots
  BY DEF Publish, IngressInv, Cursors, history
<1>2. /\ slot \in [0 .. Slots - 1 -> Nat] /\ published \in Nat /\ consumed \in Nat /\ source + 1 \in Nat
      /\ consumed <= published /\ consumed <= published + 1
  BY DEF IngressInv, IngressTypes, QueueTypes, Cursors
<1> DEFINE k == published - consumed
           a == Append(Contents, source + 1)
<1>3. /\ Contents \in Seq(Nat) /\ Len(Contents) = k
      /\ \A i \in 1 .. k : Contents[i] = slot[Position(consumed + i - 1)]
  BY <1>2, ContentsShape DEF Contents, Held
<1>4. /\ Contents' \in Seq(Nat) /\ Len(Contents') = k + 1
      /\ \A i \in 1 .. k + 1 : Contents'[i] = slot[Position(consumed + i - 1)]
  <2>1. Contents' = Held(slot, published + 1, consumed)
    BY <1>1 DEF Contents, Held
  <2>2. (published + 1) - consumed = k + 1 /\ published + 1 \in Nat
    BY <1>2
  <2>3. /\ Contents' \in Seq(Nat) /\ Len(Contents') = (published + 1) - consumed
        /\ \A i \in 1 .. (published + 1) - consumed : Contents'[i] = slot[Position(consumed + i - 1)]
    BY <1>2, <2>1, <2>2, ContentsShape
  <2> QED BY <2>2, <2>3
<1>5. k \in Nat /\ consumed + (k + 1) - 1 = published
  BY <1>2
<1>6. a \in Seq(Nat) /\ Len(a) = k + 1 /\ a[k + 1] = source + 1 /\ \A i \in 1 .. k : a[i] = Contents[i]
  BY <1>2, <1>3, AppendProperties
<1> HIDE DEF k, a
<1>7. Contents'[k + 1] = source + 1
  BY <1>1, <1>4, <1>5
<1>8. \A i \in 1 .. k : Contents'[i] = a[i]
  <2>1. \A i \in 1 .. k : i \in 1 .. k + 1
    BY <1>5
  <2> QED BY <1>3, <1>4, <1>6, <2>1
<1>9. \A i \in 1 .. k + 1 : Contents'[i] = a[i]
  BY <1>5, <1>6, <1>7, <1>8
<1>10. Contents' = a
  BY <1>4, <1>6, <1>9, SeqEqual
<1>11. Len(Contents) < Slots
  BY <1>1, <1>2, <1>3, IngressAssumption DEF k
<1> QED BY <1>1, <1>10, <1>11 DEF Abstract!Push, a

\* The store of the consumed cursor takes the oldest block, and no other.
LEMMA AdvanceTakes ==
    ASSUME IngressInv, consumed < published, consumed' = consumed + 1,
           drained' = Append(drained, slot[Position(consumed)]), UNCHANGED <<slot, published>>
    PROVE  Abstract!Take
<1>2. /\ slot \in [0 .. Slots - 1 -> Nat] /\ published \in Nat /\ consumed \in Nat
      /\ consumed <= published /\ consumed + 1 <= published
  BY DEF IngressInv, IngressTypes, QueueTypes, Cursors
<1> DEFINE k == published - consumed
<1>3. /\ Contents \in Seq(Nat) /\ Len(Contents) = k
      /\ \A i \in 1 .. k : Contents[i] = slot[Position(consumed + i - 1)]
  BY <1>2, ContentsShape DEF Contents, Held
<1>4. /\ Contents' \in Seq(Nat) /\ Len(Contents') = k - 1
      /\ \A i \in 1 .. k - 1 : Contents'[i] = slot[Position(consumed + i)]
  <2>1. Contents' = Held(slot, published, consumed + 1)
    BY DEF Contents, Held
  <2>2. published - (consumed + 1) = k - 1 /\ consumed + 1 \in Nat
    BY <1>2
  <2>3. /\ Contents' \in Seq(Nat) /\ Len(Contents') = published - (consumed + 1)
        /\ \A i \in 1 .. published - (consumed + 1) : Contents'[i] = slot[Position((consumed + 1) + i - 1)]
    BY <1>2, <2>1, <2>2, ContentsShape
  <2>4. \A i \in 1 .. k - 1 : (consumed + 1) + i - 1 = consumed + i
    BY <1>2
  <2> QED BY <2>2, <2>3, <2>4
<1>5. k \in Nat /\ 1 \in 1 .. k /\ consumed + 1 - 1 = consumed
  BY <1>2
<1> HIDE DEF k
<1>6. Contents # <<>> /\ Head(Contents) = slot[Position(consumed)]
  BY <1>3, <1>5
<1>7. /\ Tail(Contents) \in Seq(Nat) /\ Len(Tail(Contents)) = k - 1
      /\ \A i \in 1 .. k - 1 : Tail(Contents)[i] = Contents[i + 1]
  BY <1>3, <1>6, HeadTailProperties
<1>8. ASSUME NEW i \in 1 .. k - 1 PROVE Contents'[i] = Tail(Contents)[i]
  <2>1. i + 1 \in 1 .. k /\ consumed + (i + 1) - 1 = consumed + i
    BY <1>2, <1>5
  <2> QED BY <1>3, <1>4, <1>7, <2>1
<1>9. Contents' = Tail(Contents)
  BY <1>4, <1>7, <1>8, SeqEqual
<1> QED BY <1>6, <1>9 DEF Abstract!Take

\* A copy into a free slot, and every step that leaves the queue alone, change
\* nothing that the outside sees.
LEMMA ContentsFrame ==
    ASSUME \A n \in consumed .. published - 1 : slot'[Position(n)] = slot[Position(n)],
           UNCHANGED <<published, consumed, drained>>, published \in Nat, consumed \in Nat
    PROVE  UNCHANGED <<Contents, drained>>
<1>1. \A i \in 1 .. published - consumed : consumed + i - 1 \in consumed .. published - 1
  OBVIOUS
<1>2. \A i \in 1 .. published - consumed : slot'[Position(consumed + i - 1)] = slot[Position(consumed + i - 1)]
  BY <1>1
<1>3. Contents' = Contents
  BY <1>2 DEF Contents
<1> QED BY <1>3

\* Every step of the atomics is a push, a take or nothing, seen from outside.
LEMMA QueueSteps ==
    ASSUME IngressInv, IngressNext
    PROVE  Abstract!Next \/ UNCHANGED <<Contents, drained>>
<1> USE DEF queueVars, producerVars, history
<1>0. published \in Nat /\ consumed \in Nat
  BY DEF IngressInv, IngressTypes, QueueTypes
<1>1. CASE Publish
  <2>1. source + 1 \in 1 .. MaxFrames
    BY <1>1, IngressAssumption DEF Publish, IngressInv, IngressTypes, QueueTypes, Cursors
  <2> QED BY <1>1, <2>1, PublishPushes DEF Abstract!Next
<1>2. CASE Advance
  BY <1>2, AdvanceTakes DEF Advance, IngressInv, Cursors, Handled, Abstract!Next
<1>3. CASE Classify
  BY <1>3, AdvanceTakes DEF Classify, Abstract!Next
<1>4. CASE CopyBlock
  BY <1>0, <1>4, CopyKeeps, ContentsFrame DEF CopyBlock, IngressInv
<1>5. CASE Looks
  BY <1>0, <1>5, LooksFrame, ContentsFrame
<1>6. CASE WriteRing \/ RingRefuses \/ CopyCalibration \/ FinishCalibration \/ Exit \/ Done
  BY <1>0, <1>6, ContentsFrame DEF WriteRing, RingRefuses, CopyCalibration, FinishCalibration, Exit, Done
<1>7. CASE Check \/ CountDropped \/ NextGeneration \/ Leave \/ \E n \in 1 .. 2 : Admit(n)
  BY <1>0, <1>7, ContentsFrame DEF Admit, Check, CountDropped, NextGeneration, Leave
<1>8. CASE Client
  BY <1>0, <1>8, ClientFrame, ContentsFrame
<1>9. CASE Stop \/ CloseIngress \/ Submit \/ Join \/ \E n \in Requests : BeginCalibration(n)
  BY <1>0, <1>9, ContentsFrame DEF Stop, CloseIngress, Submit, Join, BeginCalibration, ClientKeeps
<1> QED BY <1>1, <1>2, <1>3, <1>4, <1>5, <1>6, <1>7, <1>8, <1>9 DEF IngressNext, Push, CaptureWorker, Looks

\* The lock-free queue implements the bounded first-in first-out queue.
THEOREM QueueIsFifo == IngressSpec => QueueImplements
<1>1. IngressInit => Abstract!Init
  <2> SUFFICES ASSUME IngressInit PROVE Contents = <<>> /\ drained = <<>>
    BY DEF Abstract!Init
  <2>1. published - consumed = 0 /\ drained = <<>>
    BY DEF IngressInit
  <2>2. Contents = <<>>
    BY <2>1 DEF Contents
  <2> QED BY <2>1, <2>2
<1>2. IngressInv /\ [IngressNext]_ingressVars => [Abstract!Next]_<<Contents, drained>>
  <2>1. ASSUME UNCHANGED ingressVars PROVE UNCHANGED <<Contents, drained>>
    BY <2>1 DEF ingressVars, queueVars, history, Contents
  <2> QED BY <2>1, QueueSteps
<1> QED BY <1>1, <1>2, IngressInvariant, PTL DEF IngressSpec, QueueImplements, Abstract!Spec
=============================================================================
