----------------------------- MODULE FrameQueue -----------------------------
(***************************************************************************)
(* What the ingress queue of src/capture_arena.rs promises: a first-in     *)
(* first-out queue of at most Slots blocks between one producer and one    *)
(* consumer, each operation in one step.                                   *)
(***************************************************************************)
EXTENDS Naturals, Sequences

CONSTANTS Slots, Blocks

VARIABLES queue, delivered

Init == queue = <<>> /\ delivered = <<>>

Push(b) ==
    /\ Len(queue) < Slots
    /\ queue' = Append(queue, b)
    /\ UNCHANGED delivered

Take ==
    /\ queue # <<>>
    /\ delivered' = Append(delivered, Head(queue))
    /\ queue' = Tail(queue)

Next == Take \/ \E b \in Blocks : Push(b)

Spec == Init /\ [][Next]_<<queue, delivered>>
=============================================================================
