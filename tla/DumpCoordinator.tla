-------------------------- MODULE DumpCoordinator --------------------------
(***************************************************************************)
(* The dump coordinator of src/src/dump.rs over the capture arena: the     *)
(* operation worker runs one persist or clear at a time, each a sequence   *)
(* of mailbox calls that may time out and be retried by a later operation. *)
(* Publication (prepare, publish, recover) is abstracted to its outcomes.  *)
(*                                                                         *)
(* pc is where the current operation is; every rejected or failed step     *)
(* ends the operation and leaves its state for the next one.               *)
(***************************************************************************)
EXTENDS CaptureArena

CONSTANT MaxClears   \* bound: clear transactions ever begun

ASSUME ClearsAssumption == MaxClears \in Nat

VARIABLES
    pc,              \* stage of the operation worker
    op,              \* "persist", "clear", or "cleared": a clear answered by
                     \* the recovered report of its predecessor
    committed,       \* committed_until (None is 0)
    txn,             \* state.frozen
    decision,        \* reusable_decision is present
    pendingClear,    \* state.pending_clear
    pendingRelease,  \* state.pending_release
    completion,      \* pending_completion: "none", "delivering" or "finalized"
    failedRelease,   \* failed_release of a finalized completion
    guard,           \* the transaction the CompletionGuard owns
    indeterminate,   \* indeterminate_publication is present
    acked,           \* acknowledged_dropped_frames
    pendRet,         \* pending_retention_lost_frames
    pendClr,         \* pending_cleared_frames
    nextClearId,     \* next_clear_id
    written,         \* history: frames published in files
    skipped,         \* history: frames consumed by a silence or policy skip
    exported,        \* history: frame counts of every committed range
    repRet,          \* history: retention losses reported
    repClr,          \* history: cleared frames reported
    repDrop          \* history: capture drops reported

stateVars == <<committed, txn, decision, pendingClear, pendingRelease, completion,
               failedRelease, guard, indeterminate, acked, pendRet, pendClr, nextClearId>>
history   == <<written, skipped, exported, repRet, repClr, repDrop>>
vars      == <<arenaVars, pc, op, stateVars, history>>

Stages == {"idle", "recover", "reconcile", "resolve", "freeze", "publish",
           "deliver", "clear", "postRelease"}

Holder == [some : BOOLEAN, desc : Descriptor]
NoHolder == [some |-> FALSE, desc |-> NoDescriptor]

Transaction == [some : BOOLEAN, desc : Descriptor, lost : Nat]
NoTransaction == [some |-> FALSE, desc |-> NoDescriptor, lost |-> 0]

PendingClear == [some : BOOLEAN, acct : Accounting, requested : Nat,
                 frozen : BOOLEAN, frozenEnd : Nat, acked : Nat]
NoPendingClear == [some |-> FALSE, acct |-> NoAccounting, requested |-> 0,
                   frozen |-> FALSE, frozenEnd |-> 0, acked |-> 0]

StateTypeOK ==
    /\ pc \in Stages
    /\ op \in {"persist", "clear", "cleared"}
    /\ committed \in Nat
    /\ txn \in Transaction
    /\ decision \in BOOLEAN
    /\ pendingClear \in PendingClear
    /\ pendingRelease \in Holder
    /\ completion \in {"none", "delivering", "finalized"}
    /\ failedRelease \in Holder
    /\ guard \in Holder
    /\ indeterminate \in BOOLEAN
    /\ acked \in Nat /\ pendRet \in Nat /\ pendClr \in Nat /\ nextClearId \in Nat

HistoryTypeOK ==
    /\ written \subseteq Nat
    /\ skipped \subseteq Nat
    /\ exported \in Nat /\ repRet \in Nat /\ repClr \in Nat /\ repDrop \in Nat

\* Every variable has its type; in particular no counter of the losses is
\* ever taken below zero (CommitLosses and ClearAccounting subtract).
TypeOK == ArenaTypeOK /\ StateTypeOK /\ HistoryTypeOK

Init ==
    /\ ArenaInit
    /\ pc = "idle" /\ op = "persist"
    /\ committed = 0
    /\ txn = NoTransaction
    /\ decision = TRUE
    /\ pendingClear = NoPendingClear
    /\ pendingRelease = NoHolder
    /\ completion = "none"
    /\ failedRelease = NoHolder
    /\ guard = NoHolder
    /\ indeterminate = FALSE
    /\ acked = 0 /\ pendRet = 0 /\ pendClr = 0 /\ nextClearId = 0
    /\ written = {} /\ skipped = {}
    /\ exported = 0 /\ repRet = 0 /\ repClr = 0 /\ repDrop = 0

-----------------------------------------------------------------------------
Frames(d) == {f \in 0 .. head : f >= d.start /\ f < d.end}

Goto(stage) == pc' = stage /\ UNCHANGED op

Replied == rpc["op"] = "done"

\* commit_losses: report what is pending and start counting again.
CommitLosses(lost) ==
    /\ repRet' = repRet + pendRet + lost
    /\ repClr' = repClr + pendClr
    /\ repDrop' = repDrop + (dropCum - acked)
    /\ acked' = dropCum
    /\ pendRet' = 0
    /\ pendClr' = 0

\* validate_clear_report; the arena and coordinator identities always match,
\* there being one of each.
ValidReport(r) ==
    /\ r.id = pendingClear.acct.id
    /\ r.expected = pendingClear.acct.expected
    /\ r.dropped >= pendingClear.acked
    /\ IF pendingClear.frozen THEN txn.some /\ txn.desc.end = pendingClear.frozenEnd
                              ELSE ~txn.some
    /\ pendingClear.requested <= pendingClear.acct.expected
    /\ r.start <= r.end

\* Mutant of DiscardTransaction: the cleared transaction can still be
\* published.
DiscardForgotten ==
    /\ discarded' = discarded \cup Frames(txn.desc)
    /\ UNCHANGED <<txn, decision, pendingRelease>>

\* The transaction a clear covers is gone; its epoch is still to be released.
DiscardTransaction ==
    /\ txn' = NoTransaction
    /\ decision' = TRUE
    /\ pendingRelease' = [some |-> TRUE, desc |-> txn.desc]
    /\ discarded' = discarded \cup Frames(txn.desc)

\* commit_clear_report: the report replaces the pending losses, and a frozen
\* transaction it covers is thrown away.
CommitClear(r) ==
    /\ pendRet' = r.retained
    /\ pendClr' = r.cleared
    /\ committed' = r.end
    /\ pendingClear' = NoPendingClear
    /\ IF pendingClear.frozen
         THEN DiscardTransaction
         ELSE UNCHANGED <<txn, decision, pendingRelease, discarded>>
    /\ UNCHANGED <<completion, failedRelease, guard, indeterminate, acked,
                   nextClearId, history>>

KeepState == UNCHANGED <<stateVars, history, discarded>>

\* Mutant of ForgetPendingClear: the clear stays pending for ever.
RememberPendingClear == KeepState

\* The clear is known not to have run: nothing is pending any more.
ForgetPendingClear ==
    /\ pendingClear' = NoPendingClear
    /\ UNCHANGED <<committed, txn, decision, pendingRelease, completion, failedRelease,
                   guard, indeterminate, acked, pendRet, pendClr, nextClearId, history,
                   discarded>>

-----------------------------------------------------------------------------
(***************************************************************************)
(* Both operations begin by recovering a clear whose report they never saw *)
(* and by reconciling the frozen releases that failed.                     *)
(***************************************************************************)
StartPersist ==
    /\ pc = "idle"
    /\ pc' = "recover" /\ op' = "persist"
    /\ UNCHANGED <<arenaVars, stateVars, history>>

StartClear ==
    /\ pc = "idle"
    /\ nextClearId < MaxClears
    /\ pc' = "recover" /\ op' = "clear"
    /\ UNCHANGED <<arenaVars, stateVars, history>>

NothingToRecover ==
    /\ pc = "recover" /\ ~pendingClear.some
    /\ Goto("reconcile")
    /\ UNCHANGED <<arenaVars, stateVars, history>>

RecoverClear ==
    /\ pc = "recover" /\ pendingClear.some
    /\ Call("op", [kind |-> "recover", committed |-> 0, desc |-> NoDescriptor,
                   acct |-> pendingClear.acct])
    /\ UNCHANGED <<pc, op, stateVars, history>>

RecoverClearReturn ==
    LET r == reply["op"]
    IN  /\ pc = "recover" /\ Replied
        /\ Finish("op")
        /\ \/ /\ r.tag = "cleared" /\ ValidReport(r.report)
              /\ CommitClear(r.report)
              /\ pc' = "reconcile"
              /\ op' = IF op = "clear" THEN "cleared" ELSE op
           \/ /\ r.tag = "none"
              /\ ForgetPendingClear
              /\ Goto("idle")
           \/ /\ r.tag # "none" /\ (r.tag = "cleared" => ~ValidReport(r.report))
              /\ Goto("idle")
              /\ KeepState

ReleaseRequest(d) == [kind |-> "release", committed |-> 0, desc |-> d, acct |-> NoAccounting]

\* Mutant of HeldRelease: a completion's failed release is never retried.
HeldReleaseOfClear == pendingRelease

\* recover_pending_release: first the clear's, then the completion's epoch.
HeldRelease == IF pendingRelease.some THEN pendingRelease ELSE failedRelease

ReconcileRelease ==
    /\ pc = "reconcile" /\ HeldRelease.some
    /\ Call("op", ReleaseRequest(HeldRelease.desc))
    /\ UNCHANGED <<pc, op, stateVars, history>>

DropHeldRelease ==
    /\ IF pendingRelease.some
         THEN pendingRelease' = NoHolder /\ UNCHANGED failedRelease
         ELSE failedRelease' = NoHolder /\ UNCHANGED pendingRelease
    /\ UNCHANGED <<committed, txn, decision, pendingClear, completion, guard,
                   indeterminate, acked, pendRet, pendClr, nextClearId, history, discarded>>

ReconcileReturn ==
    /\ pc = "reconcile" /\ Replied
    /\ Finish("op")
    /\ \/ /\ reply["op"].tag = "released"
          /\ DropHeldRelease
          /\ Goto("reconcile")
       \/ /\ reply["op"].tag # "released"
          /\ KeepState
          /\ Goto("idle")

\* With nothing left to release, a finalized completion gives its decision
\* back.
Reconciled ==
    /\ pc = "reconcile" /\ rpc["op"] = "idle" /\ ~HeldRelease.some
    /\ decision' = (decision \/ completion = "finalized")
    /\ completion' = "none"
    /\ Goto(CASE op = "persist" -> "resolve"
              [] op = "clear" /\ ~indeterminate -> "clear"
              [] OTHER -> "idle")
    /\ UNCHANGED <<arenaVars, committed, txn, pendingClear, pendingRelease, failedRelease,
                   guard, indeterminate, acked, pendRet, pendClr, nextClearId, history>>

-----------------------------------------------------------------------------
(***************************************************************************)
(* Persist.                                                                *)
(***************************************************************************)
\* Mutant of CommitTransaction: the cursor moves to the local end of the
\* range instead of the absolute one.
CommitTransactionLocal ==
    /\ CommitLosses(txn.lost)
    /\ committed' = txn.desc.end - txn.desc.base
    /\ exported' = exported + (txn.desc.end - txn.desc.start)
    /\ completion' = "delivering"
    /\ guard' = [some |-> TRUE, desc |-> txn.desc]
    /\ txn' = NoTransaction
    /\ UNCHANGED <<decision, pendingClear, pendingRelease, failedRelease, nextClearId>>

\* The losses, the cursor and the completion slot are committed together and
\* the transaction moves to the completion guard.
CommitTransaction ==
    /\ CommitLosses(txn.lost)
    /\ committed' = txn.desc.end
    /\ exported' = exported + (txn.desc.end - txn.desc.start)
    /\ completion' = "delivering"
    /\ guard' = [some |-> TRUE, desc |-> txn.desc]
    /\ txn' = NoTransaction
    /\ UNCHANGED <<decision, pendingClear, pendingRelease, failedRelease, nextClearId>>

CommitWritten ==
    /\ CommitTransaction
    /\ written' = written \cup Frames(txn.desc)
    /\ indeterminate' = FALSE
    /\ Goto("deliver")
    /\ UNCHANGED <<arenaVars, skipped>>

NothingIndeterminate ==
    /\ pc = "resolve" /\ ~indeterminate
    /\ Goto("freeze")
    /\ UNCHANGED <<arenaVars, stateVars, history>>

\* recover_indeterminate_publication finds the publication complete ...
ResolveComplete ==
    /\ pc = "resolve" /\ indeterminate
    /\ CommitWritten

\* ... or rolls it back and the same transaction is published again ...
ResolveRolledBack ==
    /\ pc = "resolve" /\ indeterminate
    /\ indeterminate' = FALSE
    /\ Goto("freeze")
    /\ UNCHANGED <<arenaVars, committed, txn, decision, pendingClear, pendingRelease,
                   completion, failedRelease, guard, acked, pendRet, pendClr,
                   nextClearId, history>>

\* ... or cannot tell yet.
ResolvePending ==
    /\ pc = "resolve" /\ indeterminate
    /\ Goto("idle")
    /\ UNCHANGED <<arenaVars, stateVars, history>>

FreezeRetained ==
    /\ pc = "freeze" /\ txn.some
    /\ Goto("publish")
    /\ UNCHANGED <<arenaVars, stateVars, history>>

Freeze ==
    /\ pc = "freeze" /\ ~txn.some /\ decision
    /\ Call("op", [kind |-> "freeze", committed |-> committed, desc |-> NoDescriptor,
                   acct |-> NoAccounting])
    /\ UNCHANGED <<pc, op, stateVars, history>>

FreezeReturn ==
    LET r == reply["op"]
    IN  /\ pc = "freeze" /\ Replied
        /\ Finish("op")
        /\ UNCHANGED discarded
        /\ \/ /\ r.tag = "frozen"
              /\ txn' = [some |-> TRUE, desc |-> r.desc,
                         lost |-> Shortfall(committed, r.desc.start)]
              /\ decision' = FALSE
              /\ Goto("publish")
              /\ UNCHANGED <<committed, pendingClear, pendingRelease, completion,
                             failedRelease, guard, indeterminate, acked, pendRet,
                             pendClr, nextClearId, history>>
           \/ /\ r.tag = "none"
              /\ CommitLosses(0)
              /\ Goto("idle")
              /\ UNCHANGED <<committed, txn, decision, pendingClear, pendingRelease,
                             completion, failedRelease, guard, indeterminate,
                             nextClearId, written, skipped, exported>>
           \/ /\ r.tag \notin {"frozen", "none"}
              /\ Goto("idle")
              /\ UNCHANGED <<stateVars, history>>

PublishWritten ==
    /\ pc = "publish"
    /\ CommitWritten

PublishSkipped ==
    /\ pc = "publish"
    /\ CommitTransaction
    /\ skipped' = skipped \cup Frames(txn.desc)
    /\ Goto("deliver")
    /\ UNCHANGED <<arenaVars, written, indeterminate>>

\* Mutant of PublishFails: the failure consumes the transaction.
PublishFailureConsumes ==
    /\ pc = "publish"
    /\ txn' = NoTransaction
    /\ Goto("idle")
    /\ UNCHANGED <<arenaVars, committed, decision, pendingClear, pendingRelease, completion,
                   failedRelease, guard, indeterminate, acked, pendRet, pendClr,
                   nextClearId, history>>

\* Preparation or publication failed before anything became visible.
PublishFails ==
    /\ pc = "publish"
    /\ Goto("idle")
    /\ UNCHANGED <<arenaVars, stateVars, history>>

PublishIndeterminate ==
    /\ pc = "publish"
    /\ indeterminate' = TRUE
    /\ Goto("idle")
    /\ UNCHANGED <<arenaVars, committed, txn, decision, pendingClear, pendingRelease,
                   completion, failedRelease, guard, acked, pendRet, pendClr,
                   nextClearId, history>>

\* The outcome is delivered, with or without an error, and the completion
\* guard asks for the release of its epoch.
Deliver ==
    /\ pc = "deliver"
    /\ Call("op", ReleaseRequest(guard.desc))
    /\ UNCHANGED <<pc, op, stateVars, history>>

\* finalize_completed_transaction
Finalize ==
    /\ pc = "deliver" /\ Replied
    /\ Finish("op")
    /\ guard' = NoHolder
    /\ IF reply["op"].tag = "released"
         THEN /\ completion' = "none"
              /\ decision' = TRUE
              /\ UNCHANGED failedRelease
         ELSE /\ completion' = "finalized"
              /\ failedRelease' = guard
              /\ UNCHANGED decision
    /\ Goto("idle")
    /\ UNCHANGED <<committed, txn, pendingClear, pendingRelease, indeterminate, acked,
                   pendRet, pendClr, nextClearId, history, discarded>>

-----------------------------------------------------------------------------
(***************************************************************************)
(* Clear.                                                                  *)
(***************************************************************************)
\* Mutant of ClearAccounting: what the transaction lost to retention is
\* forgotten.
ClearAccountingForgets ==
    [id       |-> nextClearId + 1,
     expected |-> IF txn.some THEN txn.desc.end ELSE committed,
     retained |-> pendRet,
     cleared  |-> pendClr + (txn.desc.end - txn.desc.start)]

\* What the coordinator already knows when it asks for a clear: the losses
\* pending and the transaction the clear will discard.
ClearAccounting ==
    [id       |-> nextClearId + 1,
     expected |-> IF txn.some THEN txn.desc.end ELSE committed,
     retained |-> pendRet + txn.lost,
     cleared  |-> pendClr + (txn.desc.end - txn.desc.start)]

Clear ==
    /\ pc = "clear"
    /\ pendingClear' = [some |-> TRUE, acct |-> ClearAccounting, requested |-> committed,
                        frozen |-> txn.some, frozenEnd |-> txn.desc.end, acked |-> acked]
    /\ nextClearId' = nextClearId + 1
    /\ Call("op", [kind |-> "clear", committed |-> 0, desc |-> NoDescriptor,
                   acct |-> ClearAccounting])
    /\ UNCHANGED <<pc, op, committed, txn, decision, pendingRelease, completion,
                   failedRelease, guard, indeterminate, acked, pendRet, pendClr, history>>

\* The error of a clear the arena refused before it submitted the command.
NotSubmitted(tag) == tag = "error"

ClearReturn ==
    LET r == reply["op"]
    IN  /\ pc = "clear" /\ Replied
        /\ Finish("op")
        /\ \/ /\ r.tag = "cleared" /\ ValidReport(r.report)
              /\ CommitClear(r.report)
              /\ Goto(IF pendingClear.frozen THEN "postRelease" ELSE "idle")
           \/ /\ NotSubmitted(r.tag)
              /\ ForgetPendingClear
              /\ Goto("idle")
           \/ /\ ~NotSubmitted(r.tag) /\ (r.tag = "cleared" => ~ValidReport(r.report))
              /\ KeepState
              /\ Goto("idle")

\* A failed release after a committed clear is left to the next operation.
PostRelease ==
    /\ pc = "postRelease"
    /\ Call("op", ReleaseRequest(pendingRelease.desc))
    /\ UNCHANGED <<pc, op, stateVars, history>>

PostReleaseReturn ==
    /\ pc = "postRelease" /\ Replied
    /\ Finish("op")
    /\ IF reply["op"].tag = "released" THEN DropHeldRelease ELSE KeepState
    /\ Goto("idle")

-----------------------------------------------------------------------------
Coordinator ==
    \/ StartPersist \/ StartClear
    \/ NothingToRecover \/ RecoverClear \/ RecoverClearReturn
    \/ ReconcileRelease \/ ReconcileReturn \/ Reconciled
    \/ NothingIndeterminate \/ ResolveComplete \/ ResolveRolledBack \/ ResolvePending
    \/ FreezeRetained \/ Freeze \/ FreezeReturn
    \/ PublishWritten \/ PublishSkipped \/ PublishFails \/ PublishIndeterminate
    \/ Deliver \/ Finalize
    \/ Clear \/ ClearReturn \/ PostRelease \/ PostReleaseReturn

\* The arena's own steps leave the coordinator alone.
ArenaStep ==
    /\ \/ Push \/ DropCumulative \/ DropIngress
       \/ Worker
       \/ \E c \in Clients : Mailbox(c)
       \/ StatusCall \/ StatusDone
    /\ UNCHANGED <<pc, op, stateVars, history>>

Next == Coordinator \/ ArenaStep

Spec == Init /\ [][Next]_vars

-----------------------------------------------------------------------------
(***************************************************************************)
(* Fairness.  The worker thread and the operation worker keep running; a   *)
(* caller that keeps polling a mutex which is released again and again     *)
(* gets it; the operator retries; and a publication retried for ever is    *)
(* not refused for ever.                                                   *)
(***************************************************************************)
Alone(A) == A /\ UNCHANGED <<pc, op, stateVars, history>>

OperationSteps ==
    \/ NothingToRecover \/ RecoverClear \/ RecoverClearReturn
    \/ ReconcileRelease \/ ReconcileReturn \/ Reconciled
    \/ NothingIndeterminate \/ ResolveComplete \/ ResolveRolledBack \/ ResolvePending
    \/ FreezeRetained \/ Freeze \/ FreezeReturn
    \/ PublishWritten \/ PublishSkipped \/ PublishFails \/ PublishIndeterminate
    \/ Deliver \/ Finalize
    \/ Clear \/ ClearReturn \/ PostRelease \/ PostReleaseReturn

Fairness ==
    /\ WF_vars(Alone(Worker))
    /\ \A c \in Clients :
         /\ SF_vars(Alone(LockAndRecover(c) \/ LockAndRecoverClear(c)))
         /\ WF_vars(Alone(TakeStale(c) \/ TakeResult(c)))
    /\ WF_vars(Alone(StatusDone))
    /\ WF_vars(OperationSteps)
    /\ SF_vars(StartPersist)
    /\ SF_vars(ResolveComplete \/ ResolveRolledBack)
    /\ SF_vars(PublishWritten \/ PublishSkipped)

FairSpec == Spec /\ Fairness

\* The same with somebody asking for status again and again.
PolledSpec == FairSpec /\ WF_vars(Alone(StatusCall))

-----------------------------------------------------------------------------
(***************************************************************************)
(* Safety.                                                                 *)
(***************************************************************************)
\* Every frame behind the commit cursor is accounted for in some count the
\* coordinator reported or still holds: nothing between two operations, a
\* timed-out clear or a retried persist is lost from the books or counted
\* twice.
Conservation ==
    committed = exported + repRet + pendRet + repClr + pendClr

\* The fates of frames exclude each other and cover everything behind the
\* cursor: no frame is both written and skipped, or published after it was
\* overwritten or cleared, or published twice by a retry.
ExactlyOnce ==
    /\ written \cap skipped = {}
    /\ (written \cup skipped) \cap (evicted \cup discarded) = {}
    /\ evicted \cap discarded = {}
    /\ 0 .. committed - 1 \subseteq written \cup skipped \cup evicted \cup discarded
    /\ written \cup skipped \subseteq 0 .. committed - 1

\* Loss is reported by cause: behind the cursor, the retention losses are
\* the frames the ring overwrote and the cleared frames those a clear threw
\* away. Once the queue has dropped a block the causes may mix (a clear that
\* runs between the two drop counters), only the books still balance.
LossByCause == dropCum = 0 =>
    /\ repRet + pendRet = Cardinality(evicted \cap 0 .. committed - 1)
    /\ repClr + pendClr = Cardinality(discarded \cap 0 .. committed - 1)

\* Every frame behind the cursor met one fate and is reported under its cause.
FramesByCause == ExactlyOnce /\ LossByCause

\* Whoever may read a frozen epoch finds in it the frames its descriptor
\* names, however far the worker has gone on capturing.
FrozenIntact ==
    \A h \in {[some |-> txn.some, desc |-> txn.desc], guard} :
        h.some => \A f \in h.desc.start .. h.desc.end - 1 :
                      mem[h.desc.index][(f - h.desc.base) % Capacity] = f

\* The places a frozen epoch's capability can be: an unread freeze result,
\* the arena's recovery slot, the reply on its way to the coordinator, the
\* transaction, the completion guard and the two release retries.
Authorities ==
    {a \in {<<"result", slot = "done" /\ result.tag = "frozen", result.desc>>,
           <<"recovered", recoveredFrozen.some, recoveredFrozen.desc>>,
           <<"reply", rpc["op"] = "done" /\ reply["op"].tag = "frozen", reply["op"].desc>>,
           <<"transaction", txn.some, txn.desc>>,
           <<"guard", guard.some, guard.desc>>,
           <<"clear", pendingRelease.some, pendingRelease.desc>>,
           <<"completion", failedRelease.some, failedRelease.desc>>} : a[2]}

\* A frozen epoch has exactly one owner: timeouts, recovery and retries
\* neither leak the worker's only frozen slot nor duplicate the capability.
OneOwner ==
    /\ Cardinality(Authorities) <= 1
    /\ frozenRec.held =>
         \E a \in Authorities : a[3].gen = frozenRec.gen /\ a[3].index = frozenRec.index

\* The coordinator never sends the worker a command it must reject: no
\* freeze while an epoch is frozen, no release of another epoch.
NeverRejected == slot = "done" => result.tag # "error"

\* When a transaction commits, begin_completion cannot refuse: the completion
\* slot is free and no release is outstanding.
CompletionReserved ==
    pc = "publish" \/ indeterminate =>
        /\ txn.some /\ ~decision
        /\ completion = "none" /\ ~pendingRelease.some /\ ~failedRelease.some

\* A frozen epoch is in one hand and keeps its frames, and neither the worker nor
\* the completion of its transaction can refuse it.
FrozenOwned == FrozenIntact /\ OneOwner /\ NeverRejected /\ CompletionReserved

(***************************************************************************)
(* Action properties.                                                      *)
(***************************************************************************)
\* The cursor never moves back, and only commits move it.
CursorMonotone == [][committed' >= committed]_vars

\* A retained transaction is retried as it is until it commits or is
\* cleared: no failure consumes it or replaces it.
RetrySameTransaction ==
    [][txn.some => \/ txn' = txn
                   \/ committed' >= txn.desc.end]_vars

(***************************************************************************)
(* Liveness.                                                               *)
(***************************************************************************)
\* Every operation ends: no wait on the mailbox, the mutex or the worker
\* lasts for ever.
OperationEnds == pc # "idle" ~> pc = "idle"

\* A clear that did not see its report is settled by the operations after
\* it.
ClearSettles == pendingClear.some ~> ~pendingClear.some

\* A frozen epoch goes back to the worker in the end, whatever calls timed
\* out on the way; until then no new freeze is possible.
FrozenReturns == frozenRec.held ~> ~frozenRec.held

-----------------------------------------------------------------------------
(***************************************************************************)
(* The strengthening of Conservation that is inductive.                    *)
(***************************************************************************)
\* The active ring ends at the absolute head and is not the frozen one.
RingAtHead ==
    /\ base[active] + localHead[active] = head
    /\ clearAfter[active] <= localHead[active]
    /\ frozenRec.held => frozenRec.index # active

\* Each client is where its operation's stage says, and holds the mutex
\* while it waits on the slot.
CallsMatchStages ==
    /\ req["st"].kind = "status"
    /\ \A c \in Clients : rpc[c] \in {"stale", "wait"} => lock = c
    /\ pc \in {"idle", "resolve", "publish"} => rpc["op"] = "idle"
    /\ rpc["op"] # "idle" /\ pc = "freeze" =>
         req["op"].kind = "freeze" /\ req["op"].committed = committed /\ ~txn.some
    /\ rpc["op"] # "idle" /\ pc = "clear" =>
         req["op"].kind = "clear" /\ req["op"].acct = pendingClear.acct /\ pendingClear.some
    /\ rpc["op"] # "idle" /\ pc = "recover" => req["op"].kind = "recover" /\ pendingClear.some
    /\ rpc["op"] # "idle" /\ pc \notin {"freeze", "clear", "recover"} =>
         req["op"].kind = "release"
    /\ rpc["op"] = "stale" /\ req["op"].kind # "recover" =>
         ~recoveredFrozen.some /\ ~recoveredClear.some
    /\ pendingClear.some => pc \in {"idle", "recover", "clear"}
    /\ pc = "publish" \/ indeterminate => txn.some
    /\ pc \in {"freeze", "publish", "clear"} \/ pendingClear.some => ~indeterminate

\* A freeze or a clear whose answer the coordinator has not taken yet.
InSlot == \/ slot = "ready" /\ kind \in {"freeze", "clear"}
          \/ slot = "done" /\ result.tag \in {"frozen", "cleared"}
InReply == rpc["op"] = "done" /\ reply["op"].tag \in {"frozen", "cleared"}

\* At most one such answer exists, and a transaction excludes a frozen one.
OneAnswer ==
    /\ InSlot => ~recoveredFrozen.some /\ ~recoveredClear.some /\ ~InReply
    /\ recoveredFrozen.some => ~recoveredClear.some /\ ~InReply
    /\ recoveredClear.some => ~InReply
    /\ txn.some => /\ ~(slot = "ready" /\ kind = "freeze")
                   /\ ~(slot = "done" /\ result.tag = "frozen")
                   /\ ~recoveredFrozen.some
                   /\ ~(rpc["op"] = "done" /\ reply["op"].tag = "frozen")

\* A frozen range begins at the cursor or later and ends by the head.
RangeOK(d) == committed <= d.start /\ d.start <= d.end /\ d.end <= head

RangesOK ==
    /\ committed <= head
    /\ slot = "ready" /\ kind = "freeze" => cmd.call.committed = committed
    /\ slot = "done" /\ result.tag = "frozen" => RangeOK(result.desc)
    /\ recoveredFrozen.some => RangeOK(recoveredFrozen.desc)
    /\ rpc["op"] = "done" /\ reply["op"].tag = "frozen" => RangeOK(reply["op"].desc)
    /\ txn.some => RangeOK(txn.desc) /\ txn.lost = txn.desc.start - committed
    /\ ~txn.some => txn = NoTransaction

\* The report of the pending clear adds the frames up to its end to what the
\* coordinator holds; reports of earlier clears carry other identities.
ReportOK(r) ==
    /\ r.id <= nextClearId
    /\ r.end <= head
    /\ pendingClear.some /\ r.id = pendingClear.acct.id =>
         /\ r.expected = pendingClear.acct.expected
         /\ r.expected <= r.end
         /\ r.retained + r.cleared + r.expected =
              pendingClear.acct.retained + pendingClear.acct.cleared + r.end

ReportsOK ==
    /\ pendingClear.some =>
         /\ pendingClear.acct.id <= nextClearId
         /\ committed <= pendingClear.acct.expected
         /\ pendingClear.acct.expected <= head
         /\ pendingClear.acct.retained + pendingClear.acct.cleared + committed =
              pendRet + pendClr + pendingClear.acct.expected
    /\ slot = "ready" /\ kind = "clear" =>
         /\ cmd.call.acct.id <= nextClearId
         /\ pendingClear.some /\ cmd.call.acct.id = pendingClear.acct.id =>
              cmd.call.acct = pendingClear.acct
    /\ slot = "done" /\ result.tag = "cleared" => ReportOK(result.report)
    /\ recoveredClear.some => ReportOK(recoveredClear.report)
    /\ rpc["op"] = "done" /\ reply["op"].tag = "cleared" => ReportOK(reply["op"].report)

\* The books balance and every answer still under way will keep them so.
BooksBalance ==
    /\ Conservation
    /\ acked <= dropCum
    /\ RingAtHead
    /\ CallsMatchStages
    /\ OneAnswer
    /\ RangesOK
    /\ ReportsOK

=============================================================================
