------------------------ MODULE OperationLane_proofs ------------------------
(***************************************************************************)
(* The operation lane loses no job and answers none twice, for every set   *)
(* of producers, capacity and number of jobs.                              *)
(***************************************************************************)
EXTENDS OperationLane, SequenceTheorems, TLAPS

\* Appending to the right end of a concatenation.
LEMMA AppendRight ==
    ASSUME NEW S, NEW s \in Seq(S), NEW t \in Seq(S), NEW x \in S
    PROVE  s \o Append(t, x) = Append(s \o t, x)
<1>1. <<x>> \in Seq(S)
    OBVIOUS
<1>2. Append(t, x) = t \o <<x>> /\ Append(s \o t, x) = (s \o t) \o <<x>>
    BY AppendIsConcat, ConcatProperties
<1> QED
    BY <1>1, <1>2, ConcatAssociative

\* Taking the head of a queue moves it to the end of what stands before it.
LEMMA MoveHead ==
    ASSUME NEW S, NEW s \in Seq(S), NEW q \in Seq(S), q # <<>>
    PROVE  (s \o <<Head(q)>>) \o Tail(q) = s \o q
<1>1. Head(q) \in S /\ Tail(q) \in Seq(S) /\ <<Head(q)>> \in Seq(S)
    BY HeadTailProperties
<1>2. q = <<Head(q)>> \o Tail(q)
    BY ConcatSimplifications, HeadTailProperties, SeqEqual
<1> QED
    BY <1>1, <1>2, ConcatAssociative

\* The initial state: nothing accepted, nobody in a critical section.
LEMMA InitLaneInv == Init => LaneInv
<1> SUFFICES ASSUME Init PROVE LaneInv
    OBVIOUS
<1>1. TypeOK
  <2>1. <<>> \in Seq(Jobs) /\ Len(<<>>) = 0
    OBVIOUS
  <2>2. producer \in [Producers -> {"idle", "locked", "open"}]
    BY DEF Init
  <2>3. 0 <= Capacity /\ 0 \in 0 .. MaxJobs
    BY LaneAssumption
  <2> QED
    BY <2>1, <2>2, <2>3 DEF Init, TypeOK, Free
<1>2. AnsweredInOrder
  <2>1. <<>> \in Seq(Jobs)
    OBVIOUS
  <2>2. <<>> \o <<>> = <<>>
    BY <2>1, ConcatEmptySeq
  <2> QED
    BY <2>2 DEF Init, AnsweredInOrder, Answered, InHand
<1> QED
    BY <1>1, <1>2 DEF Init, LaneInv, QueuedAreCancelled

\* The lane's sequences, with their types, that the steps below rearrange.
LEMMA Pieces ==
    ASSUME TypeOK
    PROVE  /\ handled \in Seq(Jobs) /\ cancelled \in Seq(Jobs)
           /\ accepted \in Seq(Jobs) /\ queue \in Seq(Jobs)
           /\ Answered \in Seq(Jobs) /\ InHand \in Seq(Jobs)
           /\ Answered \o InHand \in Seq(Jobs)
<1>1. /\ handled \in Seq(Jobs) /\ cancelled \in Seq(Jobs)
      /\ accepted \in Seq(Jobs) /\ queue \in Seq(Jobs)
    BY DEF TypeOK
<1>2. Answered \in Seq(Jobs)
    BY <1>1, ConcatProperties DEF Answered
<1>3. InHand \in Seq(Jobs)
  <2>1. taken # 0 => taken \in Jobs
    BY LaneAssumption DEF TypeOK, Jobs
  <2> QED
    BY <2>1 DEF InHand
<1> QED
    BY <1>1, <1>2, <1>3, ConcatProperties

\* Neither an enqueue that pushes nothing nor a step of pop that takes no job
\* touches the sequences.
LEMMA QuietStep ==
    ASSUME AnsweredInOrder, UNCHANGED <<queue, taken, accepted, handled, cancelled>>
    PROVE  AnsweredInOrder'
BY DEF AnsweredInOrder, Answered, InHand

\* A job in the worker's hands that is answered goes to the end of the answers.
LEMMA HandedOver ==
    ASSUME TypeOK, AnsweredInOrder, taken \in Jobs, taken' = 0,
           Answered' = Answered \o <<taken>>, UNCHANGED <<queue, accepted>>
    PROVE  AnsweredInOrder'
<1>1. InHand = <<taken>> /\ InHand' = <<>>
    BY DEF InHand, Jobs
<1>2. (Answered \o InHand)' = Answered \o InHand
    BY <1>1, Pieces, ConcatEmptySeq, ConcatProperties
<1> QED
    BY <1>2 DEF AnsweredInOrder

\* try_enqueue preserves the invariant: only the holder of the mutex pushes,
\* and it wakes a worker that waits.
LEMMA EnqueueKeeps ==
    ASSUME LaneInv, NEW p \in Producers, Enqueue(p)
    PROVE  LaneInv'
<1> USE LaneAssumption
<1>1. CASE EnqueueLock(p)
  <2>1. TypeOK'
    BY <1>1 DEF LaneInv, TypeOK, EnqueueLock, fates
  <2>2. AnsweredInOrder'
    BY <1>1, QuietStep DEF LaneInv, EnqueueLock, fates
  <2> QED
    BY <1>1, <2>1, <2>2 DEF LaneInv, TypeOK, QueuedAreCancelled, EnqueueLock, fates, Free
<1>2. CASE EnqueueLoadClosed(p)
  <2>1. TypeOK'
    <3>1. /\ offered' \in 0 .. MaxJobs
          /\ producer' \in [Producers -> {"idle", "locked", "open"}]
          /\ mutex' \in Producers \cup {"worker", Free}
      BY <1>2 DEF LaneInv, TypeOK, EnqueueLoadClosed
    <3> QED
      BY <1>2, <3>1 DEF LaneInv, TypeOK, EnqueueLoadClosed, fates
  <2>2. AnsweredInOrder'
    BY <1>2, QuietStep DEF LaneInv, EnqueueLoadClosed, fates
  <2> QED
    BY <1>2, <2>1, <2>2 DEF LaneInv, TypeOK, QueuedAreCancelled, EnqueueLoadClosed, fates, Free
<1>3. CASE EnqueueAdmit(p)
  <2>1. offered + 1 \in Jobs
    BY <1>3 DEF LaneInv, TypeOK, EnqueueAdmit, Jobs
  <2>2. CASE UNCHANGED <<queue, accepted, worker>>
    <3>1. AnsweredInOrder'
      BY <1>3, <2>2, QuietStep DEF LaneInv, EnqueueAdmit, fates
    <3>2. TypeOK'
      BY <1>3, <2>1, <2>2 DEF LaneInv, TypeOK, EnqueueAdmit, Free, Jobs
    <3> QED
      BY <1>3, <2>2, <3>1, <3>2 DEF LaneInv, TypeOK, QueuedAreCancelled, EnqueueAdmit, Free
  <2>3. CASE /\ Len(queue) < Capacity
             /\ queue' = Append(queue, offered + 1)
             /\ accepted' = Append(accepted, offered + 1)
             /\ NotifyOne
    <3>1. TypeOK'
      BY <1>3, <2>1, <2>3 DEF LaneInv, TypeOK, EnqueueAdmit, NotifyOne, Free, Jobs
    <3>2. AnsweredInOrder'
      <4>1. (Answered \o InHand)' = Answered \o InHand
        BY <1>3 DEF EnqueueAdmit, Answered, InHand
      <4>2. (Answered \o InHand) \o queue' = Append((Answered \o InHand) \o queue, offered + 1)
        <5>1. Answered \o InHand \in Seq(Jobs) /\ queue \in Seq(Jobs)
          BY Pieces DEF LaneInv
        <5>2. (Answered \o InHand) \o Append(queue, offered + 1)
                = Append((Answered \o InHand) \o queue, offered + 1)
          BY <5>1, <2>1, AppendRight
        <5> QED
          BY <5>2, <2>3
      <4> QED
        BY <2>3, <4>1, <4>2 DEF LaneInv, AnsweredInOrder
    <3> QED
      BY <1>3, <2>3, <3>1, <3>2 DEF LaneInv, TypeOK, QueuedAreCancelled, EnqueueAdmit, NotifyOne, Free
  <2> QED
    BY <1>3, <2>2, <2>3 DEF EnqueueAdmit
<1> QED
    BY <1>1, <1>2, <1>3 DEF Enqueue

\* The worker preserves it: a job goes from the head of the queue into its
\* hands and from there to the end of what has been answered.
LEMMA PopKeeps ==
    ASSUME LaneInv, Pop \/ SpuriousWake
    PROVE  LaneInv'
<1> USE LaneAssumption
<1>1. CASE PopLock \/ PopLoadClosed \/ PopWait \/ SpuriousWake
  <2>1. TypeOK'
    BY <1>1 DEF LaneInv, TypeOK, PopLock, PopLoadClosed, PopWait, SpuriousWake,
                fates, lane, Free
  <2>2. AnsweredInOrder'
    BY <1>1, QuietStep DEF LaneInv, PopLock, PopLoadClosed, PopWait,
                           SpuriousWake, lane, fates
  <2> QED
    BY <1>1, <2>1, <2>2 DEF LaneInv, TypeOK, QueuedAreCancelled, PopLock, PopLoadClosed, PopWait,
                            SpuriousWake, fates, lane, Free
<1>2. CASE PopFront
  <2>1. CASE queue = <<>>
    <3>1. TypeOK'
      BY <1>2, <2>1 DEF LaneInv, TypeOK, PopFront, fates
    <3>2. AnsweredInOrder'
      BY <1>2, <2>1, QuietStep DEF LaneInv, PopFront, fates
    <3> QED
      BY <1>2, <2>1, <3>1, <3>2 DEF LaneInv, TypeOK, QueuedAreCancelled, PopFront, fates, Free
  <2>2. CASE queue # <<>>
    <3>1. Head(queue) \in Jobs /\ Tail(queue) \in Seq(Jobs)
          /\ Len(Tail(queue)) = Len(queue) - 1
      BY <2>2, Pieces, HeadTailProperties DEF LaneInv
    <3>2. TypeOK'
      <4>1. queue' \in Seq(Jobs) /\ Len(queue') <= Capacity
        <5>1. Len(queue) \in Nat /\ Len(queue) <= Capacity
          BY LenProperties DEF LaneInv, TypeOK
        <5> QED
          BY <1>2, <2>2, <3>1, <5>1 DEF PopFront
      <4>2. taken' \in 0 .. MaxJobs
        BY <1>2, <2>2, <3>1 DEF PopFront, Jobs
      <4> QED
        BY <1>2, <2>2, <4>1, <4>2 DEF LaneInv, TypeOK, PopFront, fates, Free
    <3>3. AnsweredInOrder'
      <4>1. taken = 0 /\ taken' = Head(queue) /\ taken' # 0 /\ queue' = Tail(queue)
        BY <1>2, <2>2, <3>1 DEF LaneInv, PopFront, Jobs
      <4>2. Answered' = Answered /\ accepted' = accepted
        BY <1>2 DEF PopFront, Answered, fates
      <4>3. Answered \o InHand = Answered
        BY <4>1, Pieces, ConcatEmptySeq DEF InHand, LaneInv
      <4>4. (Answered \o <<Head(queue)>>) \o Tail(queue) = Answered \o queue
        BY <2>2, Pieces, MoveHead DEF LaneInv
      <4> QED
        BY <4>1, <4>2, <4>3, <4>4 DEF LaneInv, AnsweredInOrder, InHand
    <3> QED
      BY <1>2, <2>2, <3>2, <3>3, <3>1 DEF LaneInv, TypeOK, QueuedAreCancelled, PopFront, fates, Free, Jobs
  <2> QED
    BY <2>1, <2>2
<1>3. CASE Dispatch /\ ~closed
  <2>1. worker = "dispatch" /\ worker' = "start"
        /\ UNCHANGED <<queue, closed, mutex, taken, producer, closer, offered, fates>>
    BY <1>3 DEF Dispatch, lane, fates
  <2>2. TypeOK'
    BY <2>1 DEF LaneInv, TypeOK, fates
  <2>3. AnsweredInOrder'
    BY <2>1, QuietStep DEF LaneInv, fates
  <2> QED
    BY <1>3, <2>1, <2>2, <2>3 DEF LaneInv, QueuedAreCancelled, fates
<1>4. CASE Dispatch /\ closed
  <2>1. /\ worker = "dispatch" /\ worker' = "lock" /\ taken' = 0
        /\ cancelled' = Append(cancelled, taken)
        /\ UNCHANGED <<queue, closed, mutex, producer, closer, offered, accepted, handled,
                       departed>>
    BY <1>4 DEF Dispatch, lane
  <2>2. taken \in Jobs /\ <<taken>> \in Seq(Jobs)
    BY <2>1 DEF LaneInv, TypeOK, Jobs
  <2>3. TypeOK'
    <3>1. cancelled' \in Seq(Jobs)
      BY <2>1, <2>2, Pieces, AppendProperties DEF LaneInv
    <3> QED
      BY <2>1, <3>1 DEF LaneInv, TypeOK
  <2>4. Answered' = Answered \o <<taken>>
    <3>1. Answered' = Append(Answered, taken)
      BY <2>1, <2>2, Pieces, AppendRight DEF Answered, LaneInv
    <3> QED
      BY <3>1, <2>2, Pieces, AppendIsConcat DEF LaneInv
  <2>5. AnsweredInOrder'
    BY <2>1, <2>2, <2>4, HandedOver DEF LaneInv
  <2> QED
    BY <1>4, <2>1, <2>3, <2>5 DEF LaneInv, QueuedAreCancelled
<1>5. CASE StartHandler
  <2>1. /\ worker = "start" /\ worker' = "lock" /\ taken' = 0
        /\ handled' = Append(handled, taken)
        /\ UNCHANGED <<queue, closed, mutex, producer, closer, offered, accepted, cancelled,
                       departed>>
    BY <1>5 DEF StartHandler, lane
  <2>2. taken \in Jobs /\ <<taken>> \in Seq(Jobs) /\ cancelled = <<>>
    BY <2>1 DEF LaneInv, TypeOK, Jobs
  <2>3. handled' \in Seq(Jobs) /\ Len(handled') = Len(handled) + 1 /\ Len(handled) \in Nat
    BY <2>1, <2>2, Pieces, AppendProperties, LenProperties DEF LaneInv
  <2>4. TypeOK'
    BY <2>1, <2>3 DEF LaneInv, TypeOK
  <2>5. Answered' = Answered \o <<taken>>
    <3>1. Answered = handled
      BY <2>2, Pieces, ConcatEmptySeq DEF Answered, LaneInv
    <3>2. Answered' = handled'
      BY <2>1, <2>2, <2>3, ConcatEmptySeq DEF Answered
    <3> QED
      BY <2>1, <2>2, <3>1, <3>2, Pieces, AppendIsConcat DEF LaneInv
  <2>6. AnsweredInOrder'
    BY <2>1, <2>2, <2>5, HandedOver DEF LaneInv
  <2>7. QueuedAreCancelled'
    <3>1. closed => Len(handled) < departed /\ departed \in Nat
      BY <2>1 DEF LaneInv, TypeOK
    <3> QED
      BY <2>1, <2>3, <3>1 DEF QueuedAreCancelled
  <2> QED
    BY <2>1, <2>2, <2>4, <2>6, <2>7 DEF LaneInv
<1> QED
    BY <1>1, <1>2, <1>3, <1>4, <1>5 DEF Pop

\* close preserves it: it changes no sequence, and a worker it wakes looks at
\* the queue again.  What has left the queue when `closed` is stored is what has
\* been answered and the job in the worker's hands.
LEMMA CloseKeeps ==
    ASSUME LaneInv, Close
    PROVE  LaneInv'
<1>1. CASE CloseStore
  <2>1. /\ Len(Answered \o InHand) = Len(handled) + Len(cancelled) + Len(InHand)
        /\ Len(handled) \in Nat /\ Len(cancelled) \in Nat /\ Len(InHand) \in Nat
    BY Pieces, ConcatProperties, LenProperties DEF LaneInv, Answered
  <2>2. worker = "start" => Len(InHand) = 1
    BY DEF LaneInv, InHand
  <2>3. /\ departed' \in Nat /\ Len(handled') <= departed'
        /\ worker' = "start" => Len(handled') < departed'
    BY <1>1, <2>1, <2>2 DEF CloseStore
  <2>4. TypeOK'
    BY <1>1, <2>3 DEF LaneInv, TypeOK, CloseStore
  <2>5. AnsweredInOrder'
    BY <1>1, QuietStep DEF LaneInv, CloseStore
  <2> QED
    BY <1>1, <2>3, <2>4, <2>5 DEF LaneInv, QueuedAreCancelled, CloseStore
<1>2. CASE CloseNotify
  <2>1. TypeOK'
    BY <1>2 DEF LaneInv, TypeOK, CloseNotify, NotifyOne, fates, lane
  <2>2. AnsweredInOrder'
    BY <1>2, QuietStep DEF LaneInv, CloseNotify, lane, fates
  <2> QED
    BY <1>2, <2>1, <2>2 DEF LaneInv, TypeOK, QueuedAreCancelled, CloseNotify, NotifyOne,
                            fates, lane
<1> QED
    BY <1>1, <1>2 DEF Close

\* LaneInv holds in every reachable state.
LEMMA LaneInvariant == Spec => []LaneInv
<1>1. LaneInv /\ [Next]_vars => LaneInv'
  <2> SUFFICES ASSUME LaneInv, [Next]_vars PROVE LaneInv'
    OBVIOUS
  <2>1. CASE UNCHANGED vars
    BY <2>1 DEF LaneInv, TypeOK, AnsweredInOrder, QueuedAreCancelled, Answered, InHand, vars, lane, fates
  <2> QED
    BY <2>1, EnqueueKeeps, PopKeeps, CloseKeeps DEF Next, Ended
<1> QED
    BY InitLaneInv, <1>1, PTL DEF Spec

\* Every job try_enqueue accepted is answered once and in order or is still on
\* its way, for any number of producers racing with close.
THEOREM JobsAnsweredInOrder == Spec => []AnsweredInOrder
<1>1. LaneInv => AnsweredInOrder
    BY DEF LaneInv
<1> QED
    BY LaneInvariant, <1>1, PTL

\* A worker that has exited has answered everything that was accepted.
THEOREM WorkerDrains == Spec => []DrainedAtExit
<1>1. LaneInv => DrainedAtExit
  <2> SUFFICES ASSUME LaneInv, worker = "exited" PROVE Answered = accepted
    BY DEF DrainedAtExit
  <2>1. queue = <<>> /\ InHand = <<>>
    BY DEF LaneInv, InHand
  <2>2. (Answered \o <<>>) \o <<>> = Answered
    BY Pieces, ConcatEmptySeq DEF LaneInv
  <2> QED
    BY <2>1, <2>2 DEF LaneInv, AnsweredInOrder
<1> QED
    BY LaneInvariant, <1>1, PTL

\* Jobs that are in the queue when `closed` is stored, or come into it later, are
\* cancelled and never given to the handler.
THEOREM CloseCancelsTheQueue == Spec => []QueuedAreCancelled
<1>1. LaneInv => QueuedAreCancelled
    BY DEF LaneInv
<1> QED
    BY LaneInvariant, <1>1, PTL
=============================================================================
