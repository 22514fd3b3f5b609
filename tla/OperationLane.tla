--------------------------- MODULE OperationLane ---------------------------
(***************************************************************************)
(* The bounded operation lane of control_server.rs and its single worker,  *)
(* at the grain of the queue mutex, the `closed` flag and the `not_empty`  *)
(* condition variable.                                                     *)
(*                                                                         *)
(* Producers call try_enqueue: the accept thread with client requests and  *)
(* the retry scheduler with internal jobs.  One worker loops over pop.     *)
(* The closer is the thread that shuts the daemon down: it stores `closed` *)
(* and then notifies, and holds the queue mutex for neither.               *)
(***************************************************************************)
EXTENDS Naturals, Sequences, FiniteSets

CONSTANTS
    Producers,      \* threads that enqueue
    Capacity,       \* OperationLane::capacity
    MaxJobs         \* bound: jobs offered to the lane, over all producers

ASSUME LaneAssumption ==
    /\ Capacity \in Nat \ {0} /\ MaxJobs \in Nat
    /\ "worker" \notin Producers /\ "free" \notin Producers

VARIABLES
    queue,      \* LaneState.queue: job numbers in order of arrival
    closed,     \* LaneState.closed
    mutex,      \* who holds LaneState.queue's mutex
    worker,     \* where the worker is in pop and in its loop
    taken,      \* the job the worker took from the queue, 0 when none
    producer,   \* where each producer is in try_enqueue
    closer,     \* where the closing thread is in close
    offered,    \* number of jobs offered so far; each has the next number
    accepted,   \* jobs for which try_enqueue returned Ok, in order of push
    handled,    \* jobs given to `handler`, in order
    cancelled,  \* jobs given to `cancel`, in order
    departed    \* history: jobs that had left the queue when `closed` was stored

lane == <<queue, closed, mutex>>
fates == <<accepted, handled, cancelled, departed>>
vars == <<lane, worker, taken, producer, closer, offered, fates>>

Free == "free"
Jobs == 1 .. MaxJobs

TypeOK ==
    /\ queue \in Seq(Jobs) /\ Len(queue) <= Capacity
    /\ closed \in BOOLEAN
    /\ mutex \in Producers \cup {"worker", Free}
    /\ worker \in {"lock", "front", "load", "empty", "waiting", "dispatch",
                  "start", "exited"}
    /\ taken \in 0 .. MaxJobs
    /\ producer \in [Producers -> {"idle", "locked", "open"}]
    /\ closer \in {"serving", "stored", "returned"}
    /\ offered \in 0 .. MaxJobs
    /\ accepted \in Seq(Jobs) /\ handled \in Seq(Jobs) /\ cancelled \in Seq(Jobs)
    /\ departed \in Nat

Init ==
    /\ queue = <<>> /\ closed = FALSE /\ mutex = Free
    /\ worker = "lock" /\ taken = 0
    /\ producer = [p \in Producers |-> "idle"]
    /\ closer = "serving"
    /\ offered = 0
    /\ accepted = <<>> /\ handled = <<>> /\ cancelled = <<>>
    /\ departed = 0

----------------------------------------------------------------------------
(* What has become of the accepted jobs. *)

Answered == handled \o cancelled

\* The job the worker has taken and not yet answered.
InHand == IF taken = 0 THEN <<>> ELSE <<taken>>

----------------------------------------------------------------------------
(* try_enqueue. *)

\* queue.lock()
EnqueueLock(p) ==
    /\ producer[p] = "idle" /\ offered < MaxJobs /\ mutex = Free
    /\ mutex' = p
    /\ producer' = [producer EXCEPT ![p] = "locked"]
    /\ UNCHANGED <<queue, closed, worker, taken, closer, offered, fates>>

\* The load of `closed`: Err(Closed) when it is set.
EnqueueLoadClosed(p) ==
    /\ producer[p] = "locked"
    /\ IF closed
       THEN /\ mutex' = Free
            /\ offered' = offered + 1
            /\ producer' = [producer EXCEPT ![p] = "idle"]
       ELSE /\ producer' = [producer EXCEPT ![p] = "open"]
            /\ UNCHANGED <<mutex, offered>>
    /\ UNCHANGED <<queue, closed, worker, taken, closer, fates>>

\* Mutant of NotifyOne: nobody is notified.
NotifyNobody == UNCHANGED worker

\* notify_one: the worker is the only thread that ever waits.
NotifyOne == worker' = IF worker = "waiting" THEN "lock" ELSE worker

\* Err(Full) at capacity, otherwise push_back and notify_one; the guard goes.
EnqueueAdmit(p) ==
    /\ producer[p] = "open"
    /\ mutex' = Free
    /\ offered' = offered + 1
    /\ producer' = [producer EXCEPT ![p] = "idle"]
    /\ \/ /\ Len(queue) >= Capacity
          /\ UNCHANGED <<queue, accepted, worker>>
       \/ /\ Len(queue) < Capacity
          /\ queue' = Append(queue, offered + 1)
          /\ accepted' = Append(accepted, offered + 1)
          /\ NotifyOne
    /\ UNCHANGED <<closed, taken, closer, handled, cancelled, departed>>

----------------------------------------------------------------------------
(* pop, and the loop of spawn_operation_worker around it. *)

\* The lock of pop, and the lock taken again when a wait returns.
PopLock ==
    /\ worker = "lock" /\ mutex = Free
    /\ mutex' = "worker" /\ worker' = "front"
    /\ UNCHANGED <<queue, closed, taken, producer, closer, offered, fates>>

\* The load of `closed` on an empty queue: None, or on to the wait.
PopLoadClosed ==
    /\ worker = "load"
    /\ IF closed
       THEN mutex' = Free /\ worker' = "exited"
       ELSE worker' = "empty" /\ UNCHANGED mutex
    /\ UNCHANGED <<queue, closed, taken, producer, closer, offered, fates>>

\* Mutant of PopFront: the front job is read and left in the queue.
PopFrontKeeps ==
    /\ worker = "front"
    /\ IF queue # <<>>
       THEN taken' = Head(queue) /\ mutex' = Free /\ worker' = "dispatch"
       ELSE worker' = "load" /\ UNCHANGED <<taken, mutex>>
    /\ UNCHANGED <<queue, closed, producer, closer, offered, fates>>

\* Mutant of PopFront: `closed` is trusted before the queue is looked at.
PopFrontClosedFirst ==
    /\ worker = "front"
    /\ IF closed
       THEN /\ mutex' = Free /\ worker' = "exited"
            /\ UNCHANGED <<queue, taken>>
       ELSE IF queue # <<>>
       THEN /\ taken' = Head(queue) /\ queue' = Tail(queue)
            /\ mutex' = Free /\ worker' = "dispatch"
       ELSE /\ worker' = "load"
            /\ UNCHANGED <<queue, taken, mutex>>
    /\ UNCHANGED <<closed, producer, closer, offered, fates>>

\* pop_front: a job leaves with the guard, an empty queue goes on.
PopFront ==
    /\ worker = "front"
    /\ IF queue # <<>>
       THEN /\ taken' = Head(queue) /\ queue' = Tail(queue)
            /\ mutex' = Free /\ worker' = "dispatch"
       ELSE /\ worker' = "load"
            /\ UNCHANGED <<queue, taken, mutex>>
    /\ UNCHANGED <<closed, producer, closer, offered, fates>>

\* not_empty.wait: the mutex is released and the worker parked in one step.
PopWait ==
    /\ worker = "empty"
    /\ mutex' = Free /\ worker' = "waiting"
    /\ UNCHANGED <<queue, closed, taken, producer, closer, offered, fates>>

\* A condition variable may wake by itself; nothing promises that it does.
SpuriousWake ==
    /\ worker = "waiting"
    /\ worker' = "lock"
    /\ UNCHANGED <<lane, taken, producer, closer, offered, fates>>

\* Mutant of Dispatch: is_closed is not asked.
DispatchUnasked ==
    /\ worker = "dispatch"
    /\ worker' = "start"
    /\ UNCHANGED <<lane, taken, producer, closer, offered, fates>>

\* The worker's loop loads is_closed(), without the mutex: `cancel`, or on to the
\* call of `handler`.
Dispatch ==
    /\ worker = "dispatch"
    /\ IF closed
       THEN /\ cancelled' = Append(cancelled, taken)
            /\ taken' = 0 /\ worker' = "lock"
       ELSE worker' = "start" /\ UNCHANGED <<cancelled, taken>>
    /\ UNCHANGED <<lane, producer, closer, offered, accepted, handled, departed>>

\* The call of `handler`, whatever has been stored since the load.
StartHandler ==
    /\ worker = "start"
    /\ handled' = Append(handled, taken)
    /\ taken' = 0 /\ worker' = "lock"
    /\ UNCHANGED <<lane, producer, closer, offered, accepted, cancelled, departed>>

----------------------------------------------------------------------------
(* close. *)

CloseStore ==
    /\ closer = "serving"
    /\ closed' = TRUE /\ closer' = "stored"
    /\ departed' = Len(Answered \o InHand)
    /\ UNCHANGED <<queue, mutex, worker, taken, producer, offered, accepted, handled, cancelled>>

\* notify_all
CloseNotify ==
    /\ closer = "stored"
    /\ closer' = "returned"
    /\ NotifyOne
    /\ UNCHANGED <<lane, taken, producer, offered, fates>>

\* The shutting-down thread has joined the worker; or no close is needed.
Ended ==
    /\ worker = "exited" /\ \A p \in Producers : producer[p] = "idle"
    /\ UNCHANGED vars

----------------------------------------------------------------------------
Enqueue(p) == EnqueueLock(p) \/ EnqueueLoadClosed(p) \/ EnqueueAdmit(p)
Pop == PopLock \/ PopFront \/ PopLoadClosed \/ PopWait \/ Dispatch \/ StartHandler
Close == CloseStore \/ CloseNotify

Next ==
    \/ \E p \in Producers : Enqueue(p)
    \/ Pop \/ SpuriousWake \/ Close \/ Ended

Spec == Init /\ [][Next]_vars

\* The threads keep running: whoever holds the mutex lets it go, and the
\* worker, whose competitors for the mutex are finitely many jobs, gets it.
FairSpec ==
    /\ Spec
    /\ WF_vars(Pop)
    /\ WF_vars(Close)
    /\ \A p \in Producers : WF_vars(EnqueueLoadClosed(p) \/ EnqueueAdmit(p))

----------------------------------------------------------------------------
(* Properties. *)

\* Every job try_enqueue took is answered or still on its way to an answer,
\* in the order it was taken, and none is answered twice: `handled` first,
\* then `cancelled`, then the one in the worker's hands, then the queue.
\* The push of a producer that loaded `closed` before the store is included.
AnsweredInOrder == (Answered \o InHand) \o queue = accepted

\* pop returns None only when nothing is left for it and nothing can come: a
\* worker that has exited leaves no accepted job unanswered, whatever the
\* race between close and a producer inside try_enqueue.
DrainedAtExit ==
    worker = "exited" => Answered = accepted

\* "Once the lane is closed, jobs that were queued but not yet started are
\* handed to `cancel`": what is in the queue when `closed` is stored, or is pushed
\* later by a producer that loaded it before, never reaches `handler`.  Jobs are
\* answered in order, so it is enough that no more are handled than had left the
\* queue by then.  The one in the worker's hands may still start.
QueuedAreCancelled == closed => Len(handled) <= departed

\* The strengthening the proofs use: who holds the mutex is where its pc says
\* it is; the worker that goes to wait or to exit has seen the queue empty; a
\* worker that has exited left no producer able to push.
LaneInv ==
    /\ TypeOK /\ AnsweredInOrder
    /\ \A p \in Producers :
          producer[p] # "idle" => mutex = p /\ offered < MaxJobs
    /\ worker \in {"front", "load", "empty"} => mutex = "worker"
    /\ worker \in {"load", "empty", "waiting", "exited"} => queue = <<>>
    /\ worker = "exited" => closed /\ \A p \in Producers : producer[p] # "open"
    /\ taken # 0 <=> worker \in {"dispatch", "start"}
    /\ ~closed \/ worker = "start" => cancelled = <<>>
    /\ QueuedAreCancelled
    /\ closed /\ worker = "start" => Len(handled) < departed

\* try_enqueue's job gets its answer while the lane is open: a job in the
\* queue does not stay there.
JobTaken == queue # <<>> ~> queue = <<>>

\* control_server.rs:102: close "wakes the worker so it drains and exits".
CloseEndsWorker == closed ~> worker = "exited"
=============================================================================
