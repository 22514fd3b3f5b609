---------------------- MODULE DumpCoordinator_proofs ----------------------
(***************************************************************************)
(* TLAPS proofs about DumpCoordinator.                                     *)
(***************************************************************************)
EXTENDS DumpCoordinator, FiniteSetTheorems, TLAPS

(***************************************************************************)
(* A ring never forgets frames it has not written yet.                     *)
(***************************************************************************)
LEMMA OldestBounds ==
    ASSUME NEW h \in Nat
    PROVE  OldestKept(h) \in Nat /\ OldestKept(h) <= h
<1>1. CASE h = 0
  BY <1>1 DEF OldestKept
<1>2. CASE h # 0
  <2> DEFINE q == (h - 1) \div ChunkFrames
             x == (q - (ChunkCount - 1)) * ChunkFrames
  <2>1. q \in Nat /\ q * ChunkFrames <= h - 1
    BY <1>2, ArenaAssumption
  <2>2. x \in Int /\ x <= q * ChunkFrames
    <3>1. q \in Int /\ (ChunkCount - 1) \in Nat /\ ChunkFrames \in Nat
      BY <2>1, ArenaAssumption
    <3> HIDE DEF q
    <3>2. (ChunkCount - 1) * ChunkFrames \in Nat
      BY <3>1
    <3>3. (q - (ChunkCount - 1)) * ChunkFrames = q * ChunkFrames - (ChunkCount - 1) * ChunkFrames
      BY <3>1
    <3> QED BY <3>1, <3>2, <3>3
  <2>3. OldestKept(h) = Larger(0, x)
    BY <1>2 DEF OldestKept
  <2>4. x \in Int /\ x <= h
    BY <2>1, <2>2, ArenaAssumption
  <2> HIDE DEF x
  <2> QED BY <2>3, <2>4 DEF Larger, Shortfall
<1> QED BY <1>1, <1>2

-----------------------------------------------------------------------------
(***************************************************************************)
(* Type correctness of the arena.                                          *)
(***************************************************************************)
\* The values that stand for "nothing" have the types of their fields.
LEMMA NoValueTypes ==
    /\ NoDescriptor \in Descriptor
    /\ NoAccounting \in Accounting
    /\ NoReport \in Report
    /\ StatusRequest \in Request
    /\ NoCommand \in [call : Request, dropped : Nat]
    /\ \A tag \in ReplyTags : Answer(tag) \in Reply
<1>1. /\ NoDescriptor \in Descriptor
      /\ NoAccounting \in Accounting
      /\ NoReport \in Report
  BY DEF NoDescriptor, Descriptor, NoAccounting, Accounting, NoReport, Report, Epochs
<1>2. StatusRequest \in Request
  BY <1>1 DEF StatusRequest, Request, RequestKinds, CommandKinds
<1>3. NoCommand \in [call : Request, dropped : Nat]
  BY <1>2 DEF NoCommand
<1>4. \A tag \in ReplyTags : Answer(tag) \in Reply
  BY <1>1 DEF Answer, Reply
<1> QED BY <1>1, <1>2, <1>3, <1>4

\* The ends of the active range are frames, in order.
LEMMA ActiveRange ==
    ASSUME ArenaTypeOK, RingAtHead
    PROVE  /\ ActiveStart \in Nat /\ ActiveEnd \in Nat
           /\ ActiveStart <= ActiveEnd /\ ActiveEnd = head
<1>1. /\ active \in Epochs /\ base[active] \in Nat
      /\ localHead[active] \in Nat /\ clearAfter[active] \in Nat
  BY DEF ArenaTypeOK, RingTypeOK
<1>2. OldestKept(localHead[active]) \in Nat /\ OldestKept(localHead[active]) <= localHead[active]
  BY <1>1, OldestBounds
<1>3. clearAfter[active] <= localHead[active]
  BY DEF RingAtHead
<1> QED BY <1>1, <1>2, <1>3 DEF ActiveStart, ActiveEnd, LocalOldest, Larger, RingAtHead

\* The ends of the active range are natural numbers.
LEMMA ActiveTypes ==
    ASSUME ArenaTypeOK
    PROVE  ActiveStart \in Nat /\ ActiveEnd \in Nat
<1>1. /\ active \in Epochs /\ base[active] \in Nat
      /\ localHead[active] \in Nat /\ clearAfter[active] \in Nat
  BY DEF ArenaTypeOK, RingTypeOK
<1>2. OldestKept(localHead[active]) \in Nat
  BY <1>1, OldestBounds
<1> QED BY <1>1, <1>2 DEF ActiveStart, ActiveEnd, LocalOldest, Larger

\* A step that leaves a group of variables alone keeps its types.
LEMMA UnchangedTypes ==
    /\ IngressTypeOK /\ UNCHANGED ingressVars => IngressTypeOK'
    /\ RingTypeOK /\ UNCHANGED ringVars => RingTypeOK'
    /\ SlotTypeOK /\ UNCHANGED slotVars => SlotTypeOK'
    /\ ClientTypeOK /\ UNCHANGED clientVars => ClientTypeOK'
    /\ LossTypeOK /\ UNCHANGED <<evicted, discarded>> => LossTypeOK'
<1>1. IngressTypeOK /\ UNCHANGED ingressVars => IngressTypeOK'
  BY DEF IngressTypeOK, ingressVars
<1>2. RingTypeOK /\ UNCHANGED ringVars => RingTypeOK'
  BY DEF RingTypeOK, ringVars
<1>3. SlotTypeOK /\ UNCHANGED slotVars => SlotTypeOK'
  BY DEF SlotTypeOK, slotVars
<1>4. ClientTypeOK /\ UNCHANGED clientVars => ClientTypeOK'
  BY DEF ClientTypeOK, clientVars
<1>5. LossTypeOK /\ UNCHANGED <<evicted, discarded>> => LossTypeOK'
  BY DEF LossTypeOK
<1> QED BY <1>1, <1>2, <1>3, <1>4, <1>5

\* A published reply keeps the mailbox's types.
LEMMA PublishTypes ==
    ASSUME SlotTypeOK, NEW r \in Reply, Publish(r)
    PROVE  SlotTypeOK'
BY DEF SlotTypeOK, Publish

\* Every step of the capture worker keeps the arena's types.
LEMMA WorkerTypes ==
    ASSUME ArenaTypeOK, Worker
    PROVE  ArenaTypeOK'
<1> USE NoValueTypes, ActiveTypes, UnchangedTypes, PublishTypes DEF ArenaTypeOK
<1>a. active \in Epochs /\ base[active] \in Nat /\ head \in Nat
  BY DEF RingTypeOK
<1>1. CASE Consume
  <2>1. LossTypeOK'
    BY <1>1, <1>a DEF Consume, LossTypeOK
  <2>2. RingTypeOK'
    <3>1. localHead' \in [Epochs -> Nat]
      BY <1>1 DEF Consume, RingTypeOK
    <3>2. mem' \in [Epochs -> [0 .. Capacity - 1 -> Nat]]
      BY <1>1 DEF Consume, RingTypeOK
    <3>3. head' \in Nat /\ UNCHANGED <<active, base, clearAfter, frozenRec, nextGen>>
      BY <1>1 DEF Consume, RingTypeOK
    <3> QED BY <3>1, <3>2, <3>3 DEF RingTypeOK
  <2> QED BY <1>1, <2>1, <2>2 DEF Consume
<1>2. CASE ProcessFreeze
  <2> DEFINE start == Larger(cmd.call.committed, ActiveStart)
             d == [index |-> active, gen |-> nextGen + 1, base |-> base[active],
                   start |-> start, end |-> ActiveEnd]
             r == [tag |-> "frozen", report |-> NoReport, desc |-> d]
  <2>1. start \in Nat
    BY DEF Larger, SlotTypeOK, Request
  <2>2. r \in Reply
    <3> HIDE DEF start
    <3>1. d \in Descriptor
      BY <1>a, <2>1 DEF Descriptor, RingTypeOK
    <3> HIDE DEF d
    <3> QED BY <3>1 DEF Reply, ReplyTags
  <2>3. SlotTypeOK'
    <3>1. Answer("error") \in Reply /\ Answer("none") \in Reply
      BY DEF ReplyTags
    <3>2. Publish(r) \/ Publish(Answer("error")) \/ Publish(Answer("none"))
      BY <1>2 DEF ProcessFreeze
    <3> HIDE DEF r
    <3> QED BY <3>1, <3>2, <2>2
  <2>4. RingTypeOK'
    <3>1. CASE frozenRec.held
      BY <1>2, <3>1 DEF ProcessFreeze
    <3>2. CASE ~frozenRec.held
      <4>1. frozenRec' \in [held : BOOLEAN, index : Epochs, gen : Nat] /\ nextGen' \in Nat
        <5>1. nextGen' \in {nextGen, nextGen + 1}
          BY <1>2, <3>2 DEF ProcessFreeze
        <5>2. \/ frozenRec' = frozenRec
              \/ frozenRec' = [held |-> TRUE, index |-> active, gen |-> nextGen + 1]
          BY <1>2, <3>2 DEF ProcessFreeze
        <5>3. CASE frozenRec' = frozenRec
          BY <5>1, <5>3 DEF RingTypeOK
        <5>4. CASE frozenRec' = [held |-> TRUE, index |-> active, gen |-> nextGen + 1]
          BY <5>1, <5>4 DEF RingTypeOK
        <5> QED BY <5>2, <5>3, <5>4
      <4>2. /\ active' \in Epochs /\ base' \in [Epochs -> Nat]
            /\ localHead' \in [Epochs -> Nat] /\ clearAfter' \in [Epochs -> Nat]
        BY <1>2, <3>2 DEF ProcessFreeze, RingTypeOK, Epochs
      <4>3. UNCHANGED <<head, mem>>
        BY <1>2, <3>2 DEF ProcessFreeze
      <4> QED BY <4>1, <4>2, <4>3 DEF RingTypeOK
    <3> QED BY <3>1, <3>2
  <2> QED BY <1>2, <2>3, <2>4 DEF ProcessFreeze
<1>3. CASE ProcessRelease
  <2>1. SlotTypeOK'
    BY <1>3 DEF ProcessRelease, ReplyTags
  <2>2. RingTypeOK'
    <3>1. CASE UNCHANGED ringVars
      BY <3>1
    <3>2. CASE /\ localHead' = [localHead EXCEPT ![cmd.call.desc.index] = 0]
               /\ clearAfter' = [clearAfter EXCEPT ![cmd.call.desc.index] = 0]
               /\ frozenRec' = [frozenRec EXCEPT !.held = FALSE]
               /\ UNCHANGED <<head, active, base, mem, nextGen>>
      BY <3>2 DEF RingTypeOK
    <3> QED BY <1>3, <3>1, <3>2 DEF ProcessRelease
  <2> QED BY <1>3, <2>1, <2>2 DEF ProcessRelease
<1>4. CASE ProcessClear
  <2> DEFINE a == cmd.call.acct
             r == [id |-> a.id, expected |-> a.expected,
                   start |-> ActiveStart, end |-> ActiveEnd,
                   retained |-> a.retained + Shortfall(a.expected, ActiveStart),
                   cleared |-> a.cleared + Shortfall(Larger(a.expected, ActiveStart), ActiveEnd),
                   dropped |-> cmd.dropped]
             p == [tag |-> "cleared", desc |-> NoDescriptor, report |-> r]
  <2>1. a \in Accounting /\ cmd.dropped \in Nat
    BY DEF SlotTypeOK, Request
  <2>2. r \in Report
    <3> HIDE DEF a
    <3> QED BY <2>1 DEF Report, Accounting, Larger, Shortfall
  <2>3. p \in Reply
    <3> HIDE DEF r
    <3> QED BY <2>2 DEF Reply, ReplyTags
  <2>4. Publish(p)
    BY <1>4 DEF ProcessClear
  <2>5. SlotTypeOK'
    <3> HIDE DEF p
    <3> QED BY <2>3, <2>4
  <2>6. LossTypeOK'
    <3>1. evicted' = evicted
      BY <1>4 DEF ProcessClear
    <3>2. discarded' = discarded \cup {f \in base[active] .. head : f >= ActiveStart /\ f < ActiveEnd}
      BY <1>4 DEF ProcessClear
    <3>3. {f \in base[active] .. head : f >= ActiveStart /\ f < ActiveEnd} \subseteq Nat
      BY <1>a
    <3> QED BY <3>1, <3>2, <3>3, Zenon DEF LossTypeOK
  <2>7. RingTypeOK'
    <3>1. /\ clearAfter' = [clearAfter EXCEPT ![active] = localHead[active]]
          /\ UNCHANGED <<head, active, base, localHead, mem, frozenRec, nextGen>>
      BY <1>4 DEF ProcessClear
    <3> QED BY <3>1 DEF RingTypeOK
  <2> QED BY <1>4, <2>5, <2>6, <2>7 DEF ProcessClear
<1>5. CASE ProcessStatus
  BY <1>5 DEF ProcessStatus, ReplyTags
<1> QED BY <1>1, <1>2, <1>3, <1>4, <1>5 DEF Worker

\* Every client step of the mailbox keeps the arena's types.
LEMMA MailboxTypes ==
    ASSUME ArenaTypeOK, NEW c \in Clients, Mailbox(c)
    PROVE  ArenaTypeOK'
<1> USE NoValueTypes, UnchangedTypes DEF ArenaTypeOK
<1>0. /\ req[c] \in Request /\ req[c].kind \in RequestKinds
      /\ published \in Nat /\ dropIng \in Nat /\ lock \in Clients \cup {"free"}
  BY DEF ClientTypeOK, Request, IngressTypeOK
<1>s. Submit(c) => SlotTypeOK' /\ rpc' \in [Clients -> {"idle", "lock", "stale", "wait", "done"}]
                   /\ lock' \in Clients \cup {"free"} /\ UNCHANGED <<req, reply>>
  <2> SUFFICES ASSUME Submit(c) PROVE SlotTypeOK' /\ rpc' \in [Clients -> {"idle", "lock", "stale", "wait", "done"}]
                   /\ lock' \in Clients \cup {"free"} /\ UNCHANGED <<req, reply>>
    OBVIOUS
  <2>1. SlotTypeOK'
    BY <1>0 DEF Submit, SlotTypeOK, ReplyTags
  <2> QED BY <2>1 DEF Submit, ClientTypeOK
<1>a. Await(c) => /\ rpc' \in [Clients -> {"idle", "lock", "stale", "wait", "done"}]
                  /\ lock' \in Clients \cup {"free"} /\ UNCHANGED <<req, reply>>
  BY DEF Await, ClientTypeOK
<1>r. \A r \in Reply : Return(c, r) =>
          /\ rpc' \in [Clients -> {"idle", "lock", "stale", "wait", "done"}]
          /\ reply' \in [Clients -> Reply] /\ lock' = "free" /\ UNCHANGED req
  BY DEF Return, ClientTypeOK
<1>e. EmptySlot => SlotTypeOK'
  <2>1. Answer("none") \in Reply /\ "status" \in RequestKinds
    BY DEF ReplyTags, RequestKinds, CommandKinds
  <2>2. "idle" \in {"idle", "ready", "done"} /\ FALSE \in BOOLEAN /\ 0 \in Nat
    OBVIOUS
  <2> QED BY <2>1, <2>2, Zenon DEF EmptySlot, SlotTypeOK
<1>t. Answer("error") \in Reply /\ Answer("none") \in Reply /\ Answer("timeout") \in Reply
  BY DEF ReplyTags
<1>f. \A d \in Descriptor : [tag |-> "frozen", desc |-> d, report |-> NoReport] \in Reply
  BY DEF Reply, ReplyTags
<1>c. \A r \in Report : [tag |-> "cleared", desc |-> NoDescriptor, report |-> r] \in Reply
  BY DEF Reply, ReplyTags
<1>u. result \in Reply /\ result.desc \in Descriptor /\ result.report \in Report
  BY DEF SlotTypeOK, Reply
<1>v. recoveredFrozen.desc \in Descriptor /\ recoveredClear.report \in Report
  BY DEF ClientTypeOK
<1>1. CASE LockAndRecover(c)
  <2>1. SlotTypeOK'
    BY <1>1, <1>s DEF LockAndRecover
  <2>2. ClientTypeOK'
    <3>1. /\ rpc' \in [Clients -> {"idle", "lock", "stale", "wait", "done"}]
          /\ reply' \in [Clients -> Reply]
          /\ lock' \in Clients \cup {"free"} /\ UNCHANGED req
      BY <1>1, <1>s, <1>a, <1>r, <1>t, <1>f, <1>v DEF LockAndRecover, ClientTypeOK
    <3>2. recoveredFrozen' \in [some : BOOLEAN, desc : Descriptor]
      <4>1. recoveredFrozen' = recoveredFrozen \/ recoveredFrozen' = [some |-> FALSE, desc |-> NoDescriptor]
        BY <1>1 DEF LockAndRecover
      <4>2. CASE recoveredFrozen' = recoveredFrozen
        BY <4>2 DEF ClientTypeOK
      <4>3. CASE recoveredFrozen' = [some |-> FALSE, desc |-> NoDescriptor]
        BY <4>3
      <4> QED BY <4>1, <4>2, <4>3
    <3>3. UNCHANGED <<recoveredClear, timeouts>>
      BY <1>1 DEF LockAndRecover
    <3> QED BY <3>1, <3>2, <3>3 DEF ClientTypeOK
  <2> QED BY <1>1, <2>1, <2>2 DEF LockAndRecover
<1>2. CASE LockAndRecoverClear(c)
  <2>2. ClientTypeOK'
    <3>1. /\ rpc' \in [Clients -> {"idle", "lock", "stale", "wait", "done"}]
          /\ reply' \in [Clients -> Reply]
          /\ lock' \in Clients \cup {"free"} /\ UNCHANGED req
      BY <1>2, <1>a, <1>r, <1>t, <1>c, <1>v DEF LockAndRecoverClear, ClientTypeOK
    <3>2. recoveredClear' \in [some : BOOLEAN, report : Report]
      <4>1. recoveredClear' = recoveredClear \/ recoveredClear' = [some |-> FALSE, report |-> NoReport]
        BY <1>2 DEF LockAndRecoverClear
      <4>2. CASE recoveredClear' = recoveredClear
        BY <4>2 DEF ClientTypeOK
      <4>3. CASE recoveredClear' = [some |-> FALSE, report |-> NoReport]
        BY <4>3
      <4> QED BY <4>1, <4>2, <4>3
    <3>3. UNCHANGED <<recoveredFrozen, timeouts>>
      BY <1>2 DEF LockAndRecoverClear
    <3> QED BY <3>1, <3>2, <3>3 DEF ClientTypeOK
  <2> QED BY <1>2, <2>2 DEF LockAndRecoverClear
<1>3. CASE LockTimeout(c)
  <2>2. ClientTypeOK'
    BY <1>3, <1>t DEF LockTimeout, ClientTypeOK
  <2> QED BY <1>3, <2>2 DEF LockTimeout
<1>4. CASE TakeStale(c)
  <2>1. SlotTypeOK'
    BY <1>4, <1>s, <1>e DEF TakeStale
  <2>2. ClientTypeOK'
    <3>1. /\ rpc' \in [Clients -> {"idle", "lock", "stale", "wait", "done"}]
          /\ reply' \in [Clients -> Reply]
          /\ lock' \in Clients \cup {"free"} /\ UNCHANGED req
      BY <1>4, <1>s, <1>r, <1>t, <1>u DEF TakeStale, ClientTypeOK
    <3>2. recoveredClear' \in [some : BOOLEAN, report : Report]
      <4>1. recoveredClear' = recoveredClear \/ recoveredClear' = [some |-> TRUE, report |-> result.report]
        BY <1>4 DEF TakeStale
      <4>2. CASE recoveredClear' = recoveredClear
        BY <4>2 DEF ClientTypeOK
      <4>3. CASE recoveredClear' = [some |-> TRUE, report |-> result.report]
        BY <4>3, <1>u
      <4> QED BY <4>1, <4>2, <4>3
    <3>3. recoveredFrozen' \in [some : BOOLEAN, desc : Descriptor]
      <4>1. recoveredFrozen' = recoveredFrozen \/ recoveredFrozen' = [some |-> TRUE, desc |-> result.desc]
        BY <1>4 DEF TakeStale
      <4>2. CASE recoveredFrozen' = recoveredFrozen
        BY <4>2 DEF ClientTypeOK
      <4>3. CASE recoveredFrozen' = [some |-> TRUE, desc |-> result.desc]
        BY <4>3, <1>u
      <4> QED BY <4>1, <4>2, <4>3
    <3>4. timeouts' = timeouts
      BY <1>4 DEF TakeStale
    <3> QED BY <3>1, <3>2, <3>3, <3>4 DEF ClientTypeOK
  <2> QED BY <1>4, <2>1, <2>2 DEF TakeStale
<1>5. CASE TakeResult(c)
  <2>2. ClientTypeOK'
    BY <1>5, <1>r, <1>u DEF TakeResult, ClientTypeOK
  <2> QED BY <1>5, <1>e, <2>2 DEF TakeResult
<1>6. CASE ResultTimeout(c)
  <2>1. SlotTypeOK'
    BY <1>6 DEF ResultTimeout, Abandon, SlotTypeOK
  <2>2. ClientTypeOK'
    BY <1>6, <1>r, <1>t DEF ResultTimeout, ClientTypeOK
  <2> QED BY <1>6, <2>1, <2>2 DEF ResultTimeout
<1> QED BY <1>1, <1>2, <1>3, <1>4, <1>5, <1>6 DEF Mailbox

-----------------------------------------------------------------------------
(***************************************************************************)
(* The arena's steps keep the books.                                       *)
(***************************************************************************)
IInv == TypeOK /\ BooksBalance

\* What the arena's steps leave alone.
CoordinatorIdle == UNCHANGED <<pc, op, stateVars, history>>

DescFields(d) == d.start \in Nat /\ d.end \in Nat

AcctFields(a) == a.id \in Nat /\ a.expected \in Nat /\ a.retained \in Nat /\ a.cleared \in Nat

ReportFields(r) ==
    /\ r.id \in Nat /\ r.expected \in Nat /\ r.start \in Nat /\ r.end \in Nat
    /\ r.retained \in Nat /\ r.cleared \in Nat

\* The numbers the books are kept in.
LEMMA FieldTypes ==
    ASSUME TypeOK
    PROVE  /\ DescFields(result.desc) /\ DescFields(recoveredFrozen.desc)
           /\ DescFields(reply["op"].desc) /\ DescFields(txn.desc)
           /\ ReportFields(result.report) /\ ReportFields(recoveredClear.report)
           /\ ReportFields(reply["op"].report)
           /\ AcctFields(pendingClear.acct) /\ AcctFields(cmd.call.acct)
           /\ txn.lost \in Nat /\ cmd.call.committed \in Nat
           /\ head \in Nat /\ committed \in Nat /\ nextClearId \in Nat /\ dropCum \in Nat
           /\ acked \in Nat /\ pendRet \in Nat /\ pendClr \in Nat
           /\ exported \in Nat /\ repRet \in Nat /\ repClr \in Nat /\ repDrop \in Nat
<1> USE DEF TypeOK, ArenaTypeOK
<1>d. \A d \in Descriptor : DescFields(d)
  BY DEF Descriptor, DescFields
<1>a. \A a \in Accounting : AcctFields(a)
  BY DEF Accounting, AcctFields
<1>r. \A r \in Report : ReportFields(r)
  BY DEF Report, ReportFields
<1>1. /\ result.desc \in Descriptor /\ result.report \in Report
      /\ cmd.call.acct \in Accounting /\ cmd.call.committed \in Nat
  BY DEF SlotTypeOK, Reply, Request
<1>2. /\ recoveredFrozen.desc \in Descriptor /\ recoveredClear.report \in Report
      /\ reply["op"].desc \in Descriptor /\ reply["op"].report \in Report
  BY DEF ClientTypeOK, Clients, Reply
<1>3. /\ txn.desc \in Descriptor /\ txn.lost \in Nat
      /\ pendingClear.acct \in Accounting
  BY DEF StateTypeOK, Transaction, PendingClear
<1>4. /\ head \in Nat /\ committed \in Nat /\ nextClearId \in Nat /\ dropCum \in Nat
      /\ acked \in Nat /\ pendRet \in Nat /\ pendClr \in Nat
      /\ exported \in Nat /\ repRet \in Nat /\ repClr \in Nat /\ repDrop \in Nat
  BY DEF RingTypeOK, StateTypeOK, HistoryTypeOK, IngressTypeOK
<1> QED BY <1>d, <1>a, <1>r, <1>1, <1>2, <1>3, <1>4

\* Writing one frame moves the head and every bound under it holds on.
LEMMA ConsumeKeeps ==
    ASSUME IInv, Consume, CoordinatorIdle
    PROVE  BooksBalance'
<1> USE DEF IInv, BooksBalance, TypeOK, ArenaTypeOK
<1>1. /\ head' = head + 1
      /\ localHead' = [localHead EXCEPT ![active] = @ + 1]
      /\ UNCHANGED <<dropCum, active, base, clearAfter, frozenRec, slot, kind, cmd, result, lock,
                     recoveredFrozen, recoveredClear, rpc, req, reply>>
  BY DEF Consume, ingressVars, slotVars, clientVars
<1>2. /\ UNCHANGED <<pc, committed, txn, pendingClear, indeterminate, acked, pendRet, pendClr,
                     nextClearId, exported, repRet, repClr>>
  BY DEF CoordinatorIdle, stateVars, history
<1>3. RingAtHead'
  BY <1>1 DEF RingAtHead, RingTypeOK
<1>4. CallsMatchStages' /\ OneAnswer' /\ Conservation' /\ acked' <= dropCum'
  BY <1>1, <1>2 DEF CallsMatchStages, OneAnswer, InSlot, InReply, Conservation
<1>f. \A n \in Nat : n <= head => n <= head'
  BY <1>1, FieldTypes
<1>5. RangesOK'
  BY <1>1, <1>2, <1>f, FieldTypes DEF RangesOK, RangeOK, DescFields
<1>6. ReportsOK'
  BY <1>1, <1>2, <1>f, FieldTypes DEF ReportsOK, ReportOK, ReportFields, AcctFields
<1> QED BY <1>3, <1>4, <1>5, <1>6

\* Conservation, CallsMatchStages and the parts of the mailbox a worker step
\* does not touch.
LEMMA WorkerFrame ==
    ASSUME IInv, CoordinatorIdle,
           UNCHANGED <<dropCum, lock, recoveredFrozen, recoveredClear, rpc, req, reply>>
    PROVE  /\ Conservation' /\ CallsMatchStages' /\ acked' <= dropCum'
           /\ UNCHANGED <<pc, committed, txn, pendingClear, indeterminate, acked, pendRet,
                          pendClr, nextClearId>>
<1>1. UNCHANGED <<pc, committed, txn, pendingClear, indeterminate, acked, pendRet, pendClr,
                  nextClearId, exported, repRet, repClr>>
  BY DEF CoordinatorIdle, stateVars, history
<1> QED BY <1>1 DEF IInv, BooksBalance, Conservation, CallsMatchStages

\* A freeze carries the cursor its caller still has: its range begins there.
LEMMA FreezeKeeps ==
    ASSUME IInv, ProcessFreeze, CoordinatorIdle
    PROVE  BooksBalance'
<1> USE DEF IInv, BooksBalance, TypeOK, ArenaTypeOK
<1>1. UNCHANGED <<dropCum, lock, recoveredFrozen, recoveredClear, rpc, req, reply>>
  BY DEF ProcessFreeze, ingressVars, clientVars
<1>2. /\ Conservation' /\ CallsMatchStages' /\ acked' <= dropCum'
      /\ UNCHANGED <<pc, committed, txn, pendingClear, indeterminate, acked, pendRet,
                     pendClr, nextClearId>>
  BY <1>1, WorkerFrame
<1>3. /\ slot = "ready" /\ kind = "freeze" /\ slot' = "done"
      /\ head' = head /\ result'.tag # "cleared"
      /\ UNCHANGED <<kind, cmd>>
  BY DEF ProcessFreeze, Take, Publish, Answer, ringVars
<1>4. result'.tag = "frozen" => RangeOK(result'.desc)
  <2> SUFFICES ASSUME result'.tag = "frozen" PROVE RangeOK(result'.desc)
    OBVIOUS
  <2> DEFINE start == Larger(cmd.call.committed, ActiveStart)
  <2>1. /\ start < ActiveEnd
        /\ result'.desc.start = start /\ result'.desc.end = ActiveEnd
    BY DEF ProcessFreeze, Publish, Answer
  <2>2. ActiveStart \in Nat /\ ActiveEnd \in Nat /\ ActiveEnd = head
    BY ActiveRange
  <2>3. cmd.call.committed = committed
    BY <1>3 DEF RangesOK
  <2> QED BY <2>1, <2>2, <2>3, FieldTypes DEF RangeOK, Larger
<1>5. RingAtHead'
  <2>1. CASE frozenRec.held
    BY <2>1 DEF ProcessFreeze, ringVars, RingAtHead
  <2>2. CASE ~frozenRec.held
    <3>1. /\ active' = 1 - active /\ active \in Epochs /\ head \in Nat
          /\ base' = [base EXCEPT ![1 - active] = head] /\ base \in [Epochs -> Nat]
          /\ localHead' = [localHead EXCEPT ![1 - active] = 0] /\ localHead \in [Epochs -> Nat]
          /\ clearAfter' = [clearAfter EXCEPT ![1 - active] = 0] /\ clearAfter \in [Epochs -> Nat]
      BY <2>2 DEF ProcessFreeze, RingTypeOK
    <3>2. base'[active'] = head /\ localHead'[active'] = 0 /\ clearAfter'[active'] = 0
      BY <3>1 DEF Epochs
    <3>3. frozenRec'.held => frozenRec'.index = active
      BY <2>2 DEF ProcessFreeze
    <3> QED BY <1>3, <3>1, <3>2, <3>3 DEF RingAtHead, Epochs
  <2> QED BY <2>1, <2>2
<1>6. OneAnswer'
  BY <1>1, <1>2, <1>3 DEF OneAnswer, InSlot, InReply
<1>7. RangesOK'
  BY <1>1, <1>2, <1>3, <1>4 DEF RangesOK, RangeOK
<1>8. ReportsOK'
  BY <1>1, <1>2, <1>3 DEF ReportsOK, ReportOK
<1> QED BY <1>2, <1>5, <1>6, <1>7, <1>8

\* A release touches the frozen ring only.
LEMMA ReleaseKeeps ==
    ASSUME IInv, ProcessRelease, CoordinatorIdle
    PROVE  BooksBalance'
<1> USE DEF IInv, BooksBalance, TypeOK, ArenaTypeOK
<1>1. UNCHANGED <<dropCum, lock, recoveredFrozen, recoveredClear, rpc, req, reply>>
  BY DEF ProcessRelease, ingressVars, clientVars
<1>2. /\ Conservation' /\ CallsMatchStages' /\ acked' <= dropCum'
      /\ UNCHANGED <<pc, committed, txn, pendingClear, indeterminate, acked, pendRet,
                     pendClr, nextClearId>>
  BY <1>1, WorkerFrame
<1>3. /\ slot' = "done" /\ head' = head
      /\ result'.tag \notin {"frozen", "cleared"}
      /\ UNCHANGED <<kind, cmd>>
  BY DEF ProcessRelease, Take, Publish, Answer, ringVars
<1>5. RingAtHead'
  <2> DEFINE i == cmd.call.desc.index
  <2>1. CASE frozenRec.held /\ frozenRec.index = i /\ frozenRec.gen = cmd.call.desc.gen
    <3>1. i # active /\ active \in Epochs
      BY <2>1 DEF RingAtHead, RingTypeOK
    <3>2. /\ localHead' = [localHead EXCEPT ![i] = 0]
          /\ clearAfter' = [clearAfter EXCEPT ![i] = 0]
          /\ frozenRec' = [frozenRec EXCEPT !.held = FALSE]
          /\ UNCHANGED <<head, active, base>>
      BY <2>1 DEF ProcessRelease
    <3>3. localHead'[active] = localHead[active] /\ clearAfter'[active] = clearAfter[active]
      BY <3>1, <3>2 DEF RingTypeOK
    <3>4. ~frozenRec'.held
      BY <3>2 DEF RingTypeOK
    <3> QED BY <3>2, <3>3, <3>4 DEF RingAtHead
  <2>2. CASE UNCHANGED ringVars
    BY <2>2 DEF ringVars, RingAtHead
  <2> QED BY <2>1, <2>2 DEF ProcessRelease
<1>6. OneAnswer'
  BY <1>1, <1>2, <1>3 DEF OneAnswer, InSlot, InReply
<1>7. RangesOK'
  BY <1>1, <1>2, <1>3 DEF RangesOK, RangeOK
<1>8. ReportsOK'
  BY <1>1, <1>2, <1>3 DEF ReportsOK, ReportOK
<1> QED BY <1>2, <1>5, <1>6, <1>7, <1>8

\* The report of a clear adds up against the accounting the command carried.
LEMMA ClearKeeps ==
    ASSUME IInv, ProcessClear, CoordinatorIdle
    PROVE  BooksBalance'
<1> USE DEF IInv, BooksBalance, TypeOK, ArenaTypeOK
<1>1. UNCHANGED <<dropCum, lock, recoveredFrozen, recoveredClear, rpc, req, reply>>
  BY DEF ProcessClear, ingressVars, clientVars
<1>2. /\ Conservation' /\ CallsMatchStages' /\ acked' <= dropCum'
      /\ UNCHANGED <<pc, committed, txn, pendingClear, indeterminate, acked, pendRet,
                     pendClr, nextClearId>>
  BY <1>1, WorkerFrame
<1>3. /\ slot = "ready" /\ kind = "clear" /\ slot' = "done" /\ head' = head
      /\ result'.tag = "cleared"
      /\ UNCHANGED <<kind, cmd>>
  BY DEF ProcessClear, Take, Publish
<1>4. ReportOK(result'.report)
  <2> DEFINE a == cmd.call.acct
             r == result'.report
  <2>1. /\ r.id = a.id /\ r.expected = a.expected /\ r.end = ActiveEnd
        /\ r.retained = a.retained + Shortfall(a.expected, ActiveStart)
        /\ r.cleared = a.cleared + Shortfall(Larger(a.expected, ActiveStart), ActiveEnd)
    BY DEF ProcessClear, Publish
  <2>2. ActiveStart \in Nat /\ ActiveEnd = head /\ ActiveStart <= head /\ head \in Nat
    BY ActiveRange, FieldTypes
  <2>3. /\ a.id <= nextClearId
        /\ pendingClear.some /\ a.id = pendingClear.acct.id => a = pendingClear.acct
    BY <1>3 DEF ReportsOK
  <2>4. a.expected \in Nat /\ a.retained \in Nat /\ a.cleared \in Nat
    BY FieldTypes DEF AcctFields
  <2>5. a.expected <= head =>
          r.retained + r.cleared + r.expected = a.retained + a.cleared + r.end
    <3> HIDE DEF r, a
    <3> QED BY <2>1, <2>2, <2>4 DEF Larger, Shortfall
  <2>6. pendingClear.some => pendingClear.acct.expected <= head
    BY DEF ReportsOK
  <2> QED BY <2>1, <2>2, <2>3, <2>5, <2>6 DEF ReportOK
<1>5. RingAtHead'
  <2>1. /\ clearAfter' = [clearAfter EXCEPT ![active] = localHead[active]]
        /\ UNCHANGED <<head, active, base, localHead, frozenRec>>
    BY DEF ProcessClear
  <2>2. clearAfter'[active] = localHead[active] /\ localHead[active] \in Nat
    BY <2>1 DEF RingTypeOK
  <2> QED BY <2>1, <2>2 DEF RingAtHead
<1>6. OneAnswer'
  BY <1>1, <1>2, <1>3 DEF OneAnswer, InSlot, InReply
<1>7. RangesOK'
  BY <1>1, <1>2, <1>3 DEF RangesOK, RangeOK
<1>8. ReportsOK'
  BY <1>1, <1>2, <1>3, <1>4 DEF ReportsOK, ReportOK
<1> QED BY <1>2, <1>5, <1>6, <1>7, <1>8

\* A status reply is no answer the books depend on.
LEMMA StatusKeeps ==
    ASSUME IInv, ProcessStatus, CoordinatorIdle
    PROVE  BooksBalance'
<1> USE DEF IInv, BooksBalance, TypeOK, ArenaTypeOK
<1>1. /\ UNCHANGED <<dropCum, lock, recoveredFrozen, recoveredClear, rpc, req, reply>>
      /\ UNCHANGED <<head, active, base, localHead, clearAfter, frozenRec, kind, cmd>>
  BY DEF ProcessStatus, Publish, ingressVars, clientVars, ringVars
<1>2. /\ Conservation' /\ CallsMatchStages' /\ acked' <= dropCum'
      /\ UNCHANGED <<pc, committed, txn, pendingClear, indeterminate, acked, pendRet,
                     pendClr, nextClearId>>
  BY <1>1, WorkerFrame
<1>3. slot' = "done" /\ result'.tag = "status"
  BY DEF ProcessStatus, Publish, Answer
<1>4. RingAtHead' /\ OneAnswer'
  BY <1>1, <1>2, <1>3 DEF RingAtHead, OneAnswer, InSlot, InReply
<1>5. RangesOK' /\ ReportsOK'
  BY <1>1, <1>2, <1>3 DEF RangesOK, RangeOK, ReportsOK, ReportOK
<1> QED BY <1>2, <1>4, <1>5

\* The producer moves only the queue and the drop counters, upwards.
LEMMA ProducerKeeps ==
    ASSUME IInv, Push \/ DropCumulative \/ DropIngress, CoordinatorIdle
    PROVE  IInv'
<1>1. /\ UNCHANGED <<ringVars, slotVars, clientVars, evicted, discarded>>
      /\ dropCum' \in {dropCum, dropCum + 1} /\ IngressTypeOK'
  BY DEF Push, DropCumulative, DropIngress, IInv, TypeOK, ArenaTypeOK, IngressTypeOK
<1>2. UNCHANGED <<pc, op, stateVars, history>>
  BY DEF CoordinatorIdle
<1>3. TypeOK'
  <2>1. ArenaTypeOK'
    BY <1>1, UnchangedTypes DEF IInv, TypeOK, ArenaTypeOK
  <2>2. StateTypeOK' /\ HistoryTypeOK'
    BY <1>2 DEF IInv, TypeOK, StateTypeOK, HistoryTypeOK, stateVars, history
  <2> QED BY <2>1, <2>2 DEF TypeOK
<1>4. acked' <= dropCum'
  BY <1>1, <1>2, FieldTypes DEF IInv, BooksBalance, stateVars
<1>5. Conservation' /\ RingAtHead' /\ CallsMatchStages' /\ OneAnswer'
  BY <1>1, <1>2 DEF IInv, BooksBalance, Conservation, RingAtHead, CallsMatchStages, OneAnswer,
        InSlot, InReply, ringVars, slotVars, clientVars, stateVars, history
<1>6. RangesOK' /\ ReportsOK'
  BY <1>1, <1>2 DEF IInv, BooksBalance, RangesOK, RangeOK, ReportsOK, ReportOK,
        ringVars, slotVars, clientVars, stateVars
<1> QED BY <1>3, <1>4, <1>5, <1>6 DEF IInv, BooksBalance

-----------------------------------------------------------------------------
(***************************************************************************)
(* The client side of the mailbox keeps the books.                         *)
(***************************************************************************)
\* What a returning call changes.
LEMMA ReturnFacts ==
    ASSUME TypeOK, NEW c \in Clients, NEW r, Return(c, r)
    PROVE  /\ rpc'[c] = "done" /\ reply'[c] = r /\ lock' = "free" /\ req' = req
           /\ \A d \in Clients \ {c} : rpc'[d] = rpc[d] /\ reply'[d] = reply[d]
BY DEF Return, TypeOK, ArenaTypeOK, ClientTypeOK

\* What submitting a command changes.
LEMMA SubmitFacts ==
    ASSUME TypeOK, NEW c \in Clients, Submit(c)
    PROVE  /\ rpc'[c] = "wait" /\ lock' = c /\ req' = req /\ reply' = reply
           /\ \A d \in Clients \ {c} : rpc'[d] = rpc[d]
           /\ slot' = "ready" /\ kind' = req[c].kind /\ cmd'.call = req[c]
BY DEF Submit, TypeOK, ArenaTypeOK, ClientTypeOK

\* What waiting for an abandoned command changes.
LEMMA AwaitFacts ==
    ASSUME TypeOK, NEW c \in Clients, Await(c)
    PROVE  /\ rpc'[c] = "stale" /\ lock' = c /\ req' = req /\ reply' = reply
           /\ \A d \in Clients \ {c} : rpc'[d] = rpc[d]
BY DEF Await, TypeOK, ArenaTypeOK, ClientTypeOK

\* What the status caller and the operation worker may ask for.
LEMMA OpKinds ==
    ASSUME CallsMatchStages, rpc["op"] # "idle"
    PROVE  req["op"].kind # "status"
BY DEF CallsMatchStages

\* A mailbox step keeps the books when it keeps these parts of them.
LEMMA MailboxFrame ==
    ASSUME IInv, CoordinatorIdle, UNCHANGED <<ringVars, ingressVars>>,
           CallsMatchStages', OneAnswer', RangesOK', ReportsOK'
    PROVE  BooksBalance'
<1>1. UNCHANGED <<committed, acked, pendRet, pendClr, exported, repRet, repClr, dropCum,
                  head, active, base, localHead, clearAfter, frozenRec>>
  BY DEF CoordinatorIdle, stateVars, history, ringVars, ingressVars
<1> QED BY <1>1 DEF IInv, BooksBalance, Conservation, RingAtHead

\* A call that returns without a freeze's or a clear's answer.
LEMMA PlainReturnKeeps ==
    ASSUME IInv, NEW c \in Clients, NEW r, Return(c, r),
           c = "op" => r.tag \notin {"frozen", "cleared"},
           rpc[c] # "idle",
           rpc[c] \in {"stale", "wait"} \/ lock = "free",
           CoordinatorIdle, UNCHANGED <<ringVars, ingressVars>>,
           recoveredFrozen' = recoveredFrozen, recoveredClear' = recoveredClear,
           \/ UNCHANGED <<slot, kind, cmd, result>>
           \/ slot' = "idle"
    PROVE  BooksBalance'
<1>1. /\ rpc'[c] = "done" /\ reply'[c] = r /\ lock' = "free" /\ req' = req
      /\ \A d \in Clients \ {c} : rpc'[d] = rpc[d] /\ reply'[d] = reply[d]
  BY ReturnFacts DEF IInv
<1>2. UNCHANGED <<pc, committed, txn, pendingClear, indeterminate, pendRet, pendClr,
                  nextClearId, head>>
  BY DEF CoordinatorIdle, stateVars, ringVars
<1>3. "op" \in Clients /\ "st" \in Clients /\ (c = "op" \/ c = "st")
  BY DEF Clients
<1>4. \A d \in Clients : rpc'[d] \notin {"stale", "wait"}
  <2>1. \A d \in Clients : rpc[d] \in {"stale", "wait"} => lock = d
    BY DEF IInv, BooksBalance, CallsMatchStages
  <2> QED BY <1>1, <2>1 DEF Clients
<1>5. CallsMatchStages'
  BY <1>1, <1>2, <1>3, <1>4 DEF IInv, BooksBalance, CallsMatchStages
<1>6. /\ InReply' => InReply
      /\ InSlot' => InSlot
      /\ rpc'["op"] = "done" /\ reply'["op"].tag \in {"frozen", "cleared"} =>
           rpc["op"] = "done" /\ reply'["op"] = reply["op"]
  BY <1>1, <1>3 DEF InReply, InSlot
<1>7. OneAnswer'
  BY <1>2, <1>6 DEF IInv, BooksBalance, OneAnswer
<1>8. RangesOK'
  BY <1>2, <1>6 DEF IInv, BooksBalance, RangesOK, RangeOK
<1>9. ReportsOK'
  BY <1>2, <1>6 DEF IInv, BooksBalance, ReportsOK, ReportOK
<1> QED BY <1>5, <1>7, <1>8, <1>9, MailboxFrame

\* A command goes into a slot that holds no other answer.
LEMMA SubmitKeeps ==
    ASSUME IInv, NEW c \in Clients, Submit(c), rpc[c] \in {"lock", "stale"},
           req[c].kind # "recover",
           rpc[c] = "stale" \/ lock = "free",
           CoordinatorIdle, UNCHANGED <<ringVars, ingressVars>>,
           recoveredFrozen' = recoveredFrozen,
           c = "op" => ~recoveredFrozen.some /\ ~recoveredClear.some
                       /\ recoveredClear' = recoveredClear,
           c = "st" => \/ recoveredClear' = recoveredClear
                       \/ /\ slot = "done" /\ result.tag = "cleared"
                          /\ recoveredClear' = [some |-> TRUE, report |-> result.report]
    PROVE  BooksBalance'
<1>1. /\ rpc'[c] = "wait" /\ lock' = c /\ req' = req /\ reply' = reply
      /\ \A d \in Clients \ {c} : rpc'[d] = rpc[d]
      /\ slot' = "ready" /\ kind' = req[c].kind /\ cmd'.call = req[c]
  BY SubmitFacts DEF IInv
<1>2. UNCHANGED <<pc, committed, txn, pendingClear, indeterminate, pendRet, pendClr,
                  nextClearId, head>>
  BY DEF CoordinatorIdle, stateVars, ringVars
<1>3. "op" \in Clients /\ "st" \in Clients /\ (c = "op" \/ c = "st")
  BY DEF Clients
<1>4. \A d \in Clients : rpc'[d] \in {"stale", "wait"} => lock' = d
  <2>1. \A d \in Clients : rpc[d] \in {"stale", "wait"} => lock = d
    BY DEF IInv, BooksBalance, CallsMatchStages
  <2> QED BY <1>1, <2>1 DEF Clients
<1>5. CallsMatchStages'
  BY <1>1, <1>2, <1>3, <1>4 DEF IInv, BooksBalance, CallsMatchStages
<1>6. CASE c = "op"
  <2>1. ~InReply' /\ ~recoveredFrozen'.some /\ ~recoveredClear'.some
    BY <1>1, <1>6 DEF InReply
  <2>2. /\ kind' = "freeze" => ~txn.some /\ req["op"].committed = committed
        /\ kind' = "clear" => pendingClear.some /\ req["op"].acct = pendingClear.acct
    BY <1>1, <1>6 DEF IInv, BooksBalance, CallsMatchStages
  <2>3. OneAnswer'
    BY <1>1, <1>2, <1>6, <2>1, <2>2 DEF IInv, BooksBalance, OneAnswer, InSlot
  <2>4. RangesOK'
    BY <1>1, <1>2, <1>6, <2>1, <2>2 DEF IInv, BooksBalance, RangesOK, RangeOK
  <2>5. ReportsOK'
    BY <1>1, <1>2, <1>6, <2>1, <2>2 DEF IInv, BooksBalance, ReportsOK, ReportOK
  <2> QED BY <1>5, <2>3, <2>4, <2>5, MailboxFrame
<1>7. CASE c = "st"
  <2>1. kind' = "status"
    BY <1>1, <1>7 DEF IInv, BooksBalance, CallsMatchStages
  <2>2. rpc'["op"] = rpc["op"] /\ reply'["op"] = reply["op"]
    BY <1>1, <1>3, <1>7
  <2>3. OneAnswer'
    BY <1>1, <1>2, <1>7, <2>1, <2>2 DEF IInv, BooksBalance, OneAnswer, InSlot, InReply
  <2>4. RangesOK'
    BY <1>1, <1>2, <2>1, <2>2 DEF IInv, BooksBalance, RangesOK, RangeOK
  <2>5. ReportsOK'
    BY <1>1, <1>2, <1>7, <2>1, <2>2 DEF IInv, BooksBalance, ReportsOK, ReportOK
  <2> QED BY <1>5, <2>3, <2>4, <2>5, MailboxFrame
<1> QED BY <1>3, <1>6, <1>7

\* The operation worker takes a frozen range or a clear report out of the
\* place that held it.
LEMMA AnswerKeeps ==
    ASSUME IInv, NEW r, Return("op", r), rpc["op"] # "idle",
           rpc["op"] \in {"stale", "wait"} \/ lock = "free",
           r.tag \in {"frozen", "cleared"},
           CoordinatorIdle, UNCHANGED <<ringVars, ingressVars>>,
           \/ /\ slot = "done" /\ r = result /\ slot' = "idle"
              /\ UNCHANGED <<recoveredFrozen, recoveredClear>>
           \/ /\ recoveredFrozen.some /\ r.tag = "frozen" /\ r.desc = recoveredFrozen.desc
              /\ ~recoveredFrozen'.some
              /\ UNCHANGED <<slot, kind, cmd, result, recoveredClear>>
           \/ /\ recoveredClear.some /\ r.tag = "cleared" /\ r.report = recoveredClear.report
              /\ ~recoveredClear'.some
              /\ UNCHANGED <<slot, kind, cmd, result, recoveredFrozen>>
    PROVE  BooksBalance'
<1>0. "op" \in Clients /\ "st" \in Clients
  BY DEF Clients
<1>1. /\ rpc'["op"] = "done" /\ reply'["op"] = r /\ lock' = "free" /\ req' = req
      /\ \A d \in Clients \ {"op"} : rpc'[d] = rpc[d] /\ reply'[d] = reply[d]
  BY <1>0, ReturnFacts DEF IInv
<1>2. UNCHANGED <<pc, committed, txn, pendingClear, indeterminate, pendRet, pendClr,
                  nextClearId, head>>
  BY DEF CoordinatorIdle, stateVars, ringVars
<1>4. \A d \in Clients : rpc'[d] \notin {"stale", "wait"}
  <2>1. \A d \in Clients : rpc[d] \in {"stale", "wait"} => lock = d
    BY DEF IInv, BooksBalance, CallsMatchStages
  <2> QED BY <1>0, <1>1, <2>1 DEF Clients
<1>5. CallsMatchStages'
  BY <1>0, <1>1, <1>2, <1>4 DEF IInv, BooksBalance, CallsMatchStages
<1>6. OneAnswer'
  BY <1>1, <1>2 DEF IInv, BooksBalance, OneAnswer, InSlot, InReply
<1>7. RangesOK'
  BY <1>1, <1>2 DEF IInv, BooksBalance, RangesOK, RangeOK
<1>8. ReportsOK'
  BY <1>1, <1>2 DEF IInv, BooksBalance, ReportsOK, ReportOK
<1> QED BY <1>5, <1>6, <1>7, <1>8, MailboxFrame

\* A caller that finds an answer which is not its own keeps it in the arena.
LEMMA KeepKeeps ==
    ASSUME IInv, NEW c \in Clients, Return(c, Answer("error")), rpc[c] = "stale",
           slot = "done", slot' = "idle",
           CoordinatorIdle, UNCHANGED <<ringVars, ingressVars>>,
           \/ /\ result.tag = "frozen"
              /\ recoveredFrozen' = [some |-> TRUE, desc |-> result.desc]
              /\ recoveredClear' = recoveredClear
           \/ /\ result.tag = "cleared"
              /\ recoveredClear' = [some |-> TRUE, report |-> result.report]
              /\ recoveredFrozen' = recoveredFrozen
    PROVE  BooksBalance'
<1>1. /\ rpc'[c] = "done" /\ reply'[c] = Answer("error") /\ lock' = "free" /\ req' = req
      /\ \A d \in Clients \ {c} : rpc'[d] = rpc[d] /\ reply'[d] = reply[d]
  BY ReturnFacts DEF IInv
<1>2. UNCHANGED <<pc, committed, txn, pendingClear, indeterminate, pendRet, pendClr,
                  nextClearId, head>>
  BY DEF CoordinatorIdle, stateVars, ringVars
<1>3. "op" \in Clients /\ "st" \in Clients /\ (c = "op" \/ c = "st")
  BY DEF Clients
<1>4. \A d \in Clients : rpc'[d] \notin {"stale", "wait"}
  <2>1. \A d \in Clients : rpc[d] \in {"stale", "wait"} => lock = d
    BY DEF IInv, BooksBalance, CallsMatchStages
  <2> QED BY <1>1, <2>1 DEF Clients
<1>5. CallsMatchStages'
  BY <1>1, <1>2, <1>3, <1>4 DEF IInv, BooksBalance, CallsMatchStages
<1>6. InReply' => InReply
  BY <1>1, <1>3 DEF InReply, Answer
<1>7. /\ InSlot /\ ~InReply /\ ~recoveredFrozen.some /\ ~recoveredClear.some
      /\ ~InReply' /\ ~InSlot'
  BY <1>6 DEF IInv, BooksBalance, OneAnswer, InSlot
<1>8. OneAnswer'
  BY <1>2, <1>7 DEF IInv, BooksBalance, OneAnswer, InSlot, InReply
<1>9. RangesOK'
  BY <1>2, <1>7 DEF IInv, BooksBalance, RangesOK, RangeOK, InReply
<1>10. ReportsOK'
  BY <1>2, <1>7 DEF IInv, BooksBalance, ReportsOK, ReportOK, InReply
<1> QED BY <1>5, <1>8, <1>9, <1>10, MailboxFrame

\* Waiting for an abandoned command moves no answer.
LEMMA AwaitKeeps ==
    ASSUME IInv, NEW c \in Clients, Await(c), rpc[c] = "lock", lock = "free",
           CoordinatorIdle, UNCHANGED <<ringVars, ingressVars, slotVars>>,
           UNCHANGED <<recoveredFrozen, recoveredClear>>,
           c = "op" /\ req["op"].kind # "recover" => ~recoveredFrozen.some /\ ~recoveredClear.some
    PROVE  BooksBalance'
<1>1. /\ rpc'[c] = "stale" /\ lock' = c /\ req' = req /\ reply' = reply
      /\ \A d \in Clients \ {c} : rpc'[d] = rpc[d]
  BY AwaitFacts DEF IInv
<1>2. UNCHANGED <<pc, committed, txn, pendingClear, indeterminate, pendRet, pendClr,
                  nextClearId, head, slot, kind, cmd, result>>
  BY DEF CoordinatorIdle, stateVars, ringVars, slotVars
<1>3. "op" \in Clients /\ "st" \in Clients /\ (c = "op" \/ c = "st")
  BY DEF Clients
<1>4. \A d \in Clients : rpc'[d] \in {"stale", "wait"} => lock' = d
  <2>1. \A d \in Clients : rpc[d] \in {"stale", "wait"} => lock = d
    BY DEF IInv, BooksBalance, CallsMatchStages
  <2> QED BY <1>1, <2>1 DEF Clients
<1>5. CallsMatchStages'
  BY <1>1, <1>2, <1>3, <1>4 DEF IInv, BooksBalance, CallsMatchStages
<1>6. rpc'["op"] = "done" <=> rpc["op"] = "done"
  BY <1>1, <1>3
<1>7. OneAnswer'
  BY <1>1, <1>2, <1>6 DEF IInv, BooksBalance, OneAnswer, InSlot, InReply
<1>8. RangesOK'
  BY <1>1, <1>2, <1>6 DEF IInv, BooksBalance, RangesOK, RangeOK
<1>9. ReportsOK'
  BY <1>1, <1>2, <1>6 DEF IInv, BooksBalance, ReportsOK, ReportOK
<1> QED BY <1>5, <1>7, <1>8, <1>9, MailboxFrame

\* Giving up on the mutex leaves it with its holder.
LEMMA LockTimeoutKeeps ==
    ASSUME IInv, NEW c \in Clients, LockTimeout(c), CoordinatorIdle
    PROVE  BooksBalance'
<1>1. /\ rpc'[c] = "done" /\ reply'[c].tag = "timeout" /\ lock' = lock /\ req' = req
      /\ \A d \in Clients \ {c} : rpc'[d] = rpc[d] /\ reply'[d] = reply[d]
      /\ rpc[c] = "lock"
  BY DEF LockTimeout, IInv, TypeOK, ArenaTypeOK, ClientTypeOK, Answer
<1>2. UNCHANGED <<pc, committed, txn, pendingClear, indeterminate, pendRet, pendClr,
                  nextClearId, head, slot, kind, cmd, result, recoveredFrozen, recoveredClear>>
  BY DEF LockTimeout, CoordinatorIdle, stateVars, ringVars, slotVars
<1>3. "op" \in Clients /\ "st" \in Clients /\ (c = "op" \/ c = "st")
  BY DEF Clients
<1>4. \A d \in Clients : rpc'[d] \in {"stale", "wait"} => lock' = d
  BY <1>1 DEF IInv, BooksBalance, CallsMatchStages
<1>5. CallsMatchStages'
  BY <1>1, <1>2, <1>3, <1>4 DEF IInv, BooksBalance, CallsMatchStages
<1>6. /\ InReply' => InReply
      /\ rpc'["op"] = "done" /\ reply'["op"].tag \in {"frozen", "cleared"} =>
           rpc["op"] = "done" /\ reply'["op"] = reply["op"]
  BY <1>1, <1>3 DEF InReply
<1>7. OneAnswer'
  BY <1>2, <1>6 DEF IInv, BooksBalance, OneAnswer, InSlot
<1>8. RangesOK'
  BY <1>2, <1>6 DEF IInv, BooksBalance, RangesOK, RangeOK
<1>9. ReportsOK'
  BY <1>2, <1>6 DEF IInv, BooksBalance, ReportsOK, ReportOK
<1>10. UNCHANGED <<ringVars, ingressVars>>
  BY DEF LockTimeout
<1> QED BY <1>5, <1>7, <1>8, <1>9, <1>10, MailboxFrame

\* Every step of the mailbox's client side keeps the books.
LEMMA MailboxKeeps ==
    ASSUME IInv, NEW c \in Clients, Mailbox(c), CoordinatorIdle
    PROVE  BooksBalance'
<1>a. c = "op" \/ c = "st"
  BY DEF Clients
<1>b. req["st"].kind = "status"
  BY DEF IInv, BooksBalance, CallsMatchStages
<1>c. rpc["op"] # "idle" => req["op"].kind # "status"
  BY OpKinds DEF IInv, BooksBalance
<1>d. \A t \in {"error", "none", "timeout"} : Answer(t).tag \notin {"frozen", "cleared"}
  BY DEF Answer
<1>e. EmptySlot => slot' = "idle"
  BY DEF EmptySlot
<1>f. UNCHANGED slotVars => UNCHANGED <<slot, kind, cmd, result>>
  BY DEF slotVars
<1>1. CASE LockAndRecover(c)
  <2>1. /\ rpc[c] = "lock" /\ req[c].kind # "recover" /\ lock = "free"
        /\ UNCHANGED <<ringVars, ingressVars>> /\ recoveredClear' = recoveredClear
    BY <1>1 DEF LockAndRecover
  <2>2. CASE /\ Return(c, Answer("error"))
             /\ UNCHANGED <<slotVars, recoveredFrozen>>
    BY <2>1, <2>2, <1>d, <1>f, PlainReturnKeeps
  <2>3. CASE /\ ~Refused(req[c].kind) /\ recoveredFrozen.some
             /\ Return(c, [tag |-> "frozen", desc |-> recoveredFrozen.desc, report |-> NoReport])
             /\ recoveredFrozen' = [some |-> FALSE, desc |-> NoDescriptor]
             /\ UNCHANGED slotVars
    <3>1. c = "op"
      BY <2>3, <1>a, <1>b DEF Refused
    <3> DEFINE r == [tag |-> "frozen", desc |-> recoveredFrozen.desc, report |-> NoReport]
    <3>2. r.tag = "frozen" /\ r.desc = recoveredFrozen.desc
      OBVIOUS
    <3>3. Return("op", r) /\ ~recoveredFrozen'.some
      BY <2>3, <3>1
    <3> HIDE DEF r
    <3> QED BY <2>1, <2>3, <3>1, <3>2, <3>3, <1>f, AnswerKeeps
  <2>4. CASE /\ ~Refused(req[c].kind) /\ ~recoveredFrozen.some
             /\ Submit(c)
             /\ UNCHANGED recoveredFrozen
    <3>1. c = "op" => ~recoveredClear.some
      BY <2>1, <2>4, <1>c DEF Refused
    <3> QED BY <2>1, <2>4, <3>1, SubmitKeeps
  <2>5. CASE /\ ~Refused(req[c].kind) /\ ~recoveredFrozen.some
             /\ Await(c)
             /\ UNCHANGED <<slotVars, recoveredFrozen>>
    <3>1. c = "op" => ~recoveredClear.some
      BY <2>1, <2>5, <1>c DEF Refused
    <3> QED BY <2>1, <2>5, <3>1, AwaitKeeps
  <2> QED BY <1>1, <2>2, <2>3, <2>4, <2>5 DEF LockAndRecover
<1>2. CASE LockAndRecoverClear(c)
  <2>1. /\ rpc[c] = "lock" /\ req[c].kind = "recover" /\ lock = "free"
        /\ UNCHANGED <<ringVars, ingressVars, slotVars, recoveredFrozen>>
    BY <1>2 DEF LockAndRecoverClear
  <2>2. c = "op"
    BY <2>1, <1>a, <1>b
  <2>3. CASE /\ Return(c, Answer("error")) \/ Return(c, Answer("none"))
             /\ UNCHANGED recoveredClear
    BY <2>1, <2>3, <1>d, <1>f, PlainReturnKeeps
  <2>4. CASE /\ recoveredClear.some
             /\ Return(c, [tag |-> "cleared", desc |-> NoDescriptor, report |-> recoveredClear.report])
             /\ recoveredClear' = [some |-> FALSE, report |-> NoReport]
    <3> DEFINE r == [tag |-> "cleared", desc |-> NoDescriptor, report |-> recoveredClear.report]
    <3>2. r.tag = "cleared" /\ r.report = recoveredClear.report
      OBVIOUS
    <3>3. Return("op", r) /\ ~recoveredClear'.some
      BY <2>4, <2>2
    <3> HIDE DEF r
    <3> QED BY <2>1, <2>2, <2>4, <3>2, <3>3, <1>f, AnswerKeeps
  <2>5. CASE Await(c) /\ UNCHANGED recoveredClear
    BY <2>1, <2>5, AwaitKeeps
  <2> QED BY <1>2, <2>3, <2>4, <2>5 DEF LockAndRecoverClear
<1>3. CASE LockTimeout(c)
  BY <1>3, LockTimeoutKeeps
<1>4. CASE TakeStale(c)
  <2>1. /\ rpc[c] = "stale" /\ slot = "done"
        /\ UNCHANGED <<ringVars, ingressVars>>
    BY <1>4 DEF TakeStale
  <2>2. CASE /\ Return(c, Answer("error")) /\ EmptySlot
             /\ UNCHANGED <<recoveredFrozen, recoveredClear>>
    BY <2>1, <2>2, <1>d, <1>e, PlainReturnKeeps
  <2>3. CASE /\ Return(c, result) /\ EmptySlot
             /\ UNCHANGED <<recoveredFrozen, recoveredClear>>
    <3>1. CASE c = "op" /\ result.tag \in {"frozen", "cleared"}
      BY <2>1, <2>3, <3>1, <1>e, AnswerKeeps
    <3>2. CASE c = "op" => result.tag \notin {"frozen", "cleared"}
      BY <2>1, <2>3, <3>2, <1>e, PlainReturnKeeps
    <3> QED BY <3>1, <3>2
  <2>4. CASE /\ Return(c, Answer("error")) /\ EmptySlot
             /\ result.tag = "cleared"
             /\ recoveredClear' = [some |-> TRUE, report |-> result.report]
             /\ UNCHANGED recoveredFrozen
    BY <2>1, <2>4, <1>e, KeepKeeps
  <2>5. CASE /\ Return(c, Answer("error")) /\ EmptySlot
             /\ result.tag = "frozen"
             /\ recoveredFrozen' = [some |-> TRUE, desc |-> result.desc]
             /\ UNCHANGED recoveredClear
    BY <2>1, <2>5, <1>e, KeepKeeps
  <2>6. CASE /\ Submit(c) /\ req[c].kind = "status" /\ result.tag = "cleared"
             /\ recoveredClear' = [some |-> TRUE, report |-> result.report]
             /\ UNCHANGED recoveredFrozen
    <3>1. c = "st"
      BY <2>1, <2>6, <1>a, <1>c
    <3> QED BY <2>1, <2>6, <3>1, SubmitKeeps
  <2>7. CASE /\ Submit(c) /\ req[c].kind # "recover"
             /\ UNCHANGED <<recoveredFrozen, recoveredClear>>
    <3>1. c = "op" => ~recoveredFrozen.some /\ ~recoveredClear.some
      BY <2>1, <2>7 DEF IInv, BooksBalance, CallsMatchStages
    <3> QED BY <2>1, <2>7, <3>1, SubmitKeeps
  <2> QED BY <1>4, <2>2, <2>3, <2>4, <2>5, <2>6, <2>7 DEF TakeStale
<1>5. CASE TakeResult(c)
  <2>1. /\ rpc[c] = "wait" /\ slot = "done" /\ EmptySlot /\ Return(c, result)
        /\ UNCHANGED <<ringVars, ingressVars>>
        /\ recoveredFrozen' = recoveredFrozen /\ recoveredClear' = recoveredClear
    BY <1>5 DEF TakeResult
  <2>2. CASE c = "op" /\ result.tag \in {"frozen", "cleared"}
    BY <2>1, <2>2, <1>e, AnswerKeeps
  <2>3. CASE c = "op" => result.tag \notin {"frozen", "cleared"}
    BY <2>1, <2>3, <1>e, PlainReturnKeeps
  <2> QED BY <2>2, <2>3
<1>6. CASE ResultTimeout(c)
  <2>1. /\ rpc[c] \in {"stale", "wait"} /\ Return(c, Answer("timeout"))
        /\ UNCHANGED <<ringVars, ingressVars>> /\ UNCHANGED <<slot, kind, cmd, result>>
        /\ recoveredFrozen' = recoveredFrozen /\ recoveredClear' = recoveredClear
    BY <1>6 DEF ResultTimeout
  <2> QED BY <2>1, <1>d, PlainReturnKeeps
<1> QED BY <1>1, <1>2, <1>3, <1>4, <1>5, <1>6 DEF Mailbox

\* Calling, and taking the reply, keep the arena's types.
LEMMA CallTypes ==
    ASSUME ArenaTypeOK, NEW c \in Clients, NEW r \in Request, Call(c, r)
    PROVE  ArenaTypeOK'
<1>1. ClientTypeOK'
  BY DEF Call, ArenaTypeOK, ClientTypeOK
<1>2. UNCHANGED <<ingressVars, ringVars, slotVars, evicted, discarded>>
  BY DEF Call
<1> QED BY <1>1, <1>2, UnchangedTypes DEF ArenaTypeOK

\* Taking a reply keeps the arena's types.
LEMMA FinishTypes ==
    ASSUME ArenaTypeOK, NEW c \in Clients, Finish(c), discarded' \subseteq Nat
    PROVE  ArenaTypeOK'
<1>1. Answer("none") \in Reply /\ StatusRequest \in Request
  BY NoValueTypes DEF ReplyTags
<1>2. ClientTypeOK'
  BY <1>1 DEF Finish, ArenaTypeOK, ClientTypeOK
<1>3. UNCHANGED <<ingressVars, ringVars, slotVars, evicted>>
  BY DEF Finish
<1>4. LossTypeOK'
  BY <1>3 DEF ArenaTypeOK, LossTypeOK
<1> QED BY <1>2, <1>3, <1>4, UnchangedTypes DEF ArenaTypeOK

\* A status caller that calls or takes its reply changes no answer.
LEMMA StatusCallerKeeps ==
    ASSUME IInv, StatusCall \/ StatusDone, CoordinatorIdle
    PROVE  ArenaTypeOK' /\ BooksBalance'
<1>0. "op" \in Clients /\ "st" \in Clients
  BY DEF Clients
<1>1. ArenaTypeOK'
  <2>1. CASE StatusCall
    BY <2>1, <1>0, CallTypes, NoValueTypes DEF StatusCall, IInv, TypeOK
  <2>2. CASE StatusDone
    <3>1. discarded' \subseteq Nat
      BY <2>2 DEF StatusDone, IInv, TypeOK, ArenaTypeOK, LossTypeOK
    <3> QED BY <2>2, <3>1, <1>0, FinishTypes DEF StatusDone, IInv, TypeOK
  <2> QED BY <2>1, <2>2
<1>2. /\ rpc'["op"] = rpc["op"] /\ reply'["op"] = reply["op"] /\ req'["op"] = req["op"]
      /\ rpc'["st"] \in {"lock", "idle"} /\ req'["st"].kind = "status" /\ lock' = lock
      /\ UNCHANGED <<slotVars, recoveredFrozen, recoveredClear, ringVars, ingressVars>>
  BY <1>0 DEF StatusCall, StatusDone, Call, Finish, StatusRequest, IInv, TypeOK,
     ArenaTypeOK, ClientTypeOK
<1>3. UNCHANGED <<pc, committed, txn, pendingClear, indeterminate, pendRet, pendClr,
                  nextClearId, head, slot, kind, cmd, result>>
  BY <1>2 DEF CoordinatorIdle, stateVars, ringVars, slotVars
<1>4. CallsMatchStages'
  BY <1>2, <1>3 DEF IInv, BooksBalance, CallsMatchStages, Clients
<1>5. OneAnswer'
  BY <1>2, <1>3 DEF IInv, BooksBalance, OneAnswer, InSlot, InReply
<1>6. RangesOK'
  BY <1>2, <1>3 DEF IInv, BooksBalance, RangesOK, RangeOK
<1>7. ReportsOK'
  BY <1>2, <1>3 DEF IInv, BooksBalance, ReportsOK, ReportOK
<1> QED BY <1>1, <1>2, <1>4, <1>5, <1>6, <1>7, MailboxFrame

\* Every step of the arena keeps the inductive invariant.
LEMMA ArenaStepKeeps ==
    ASSUME IInv, ArenaStep
    PROVE  IInv'
<1>1. CoordinatorIdle
  BY DEF ArenaStep, CoordinatorIdle
<1>2. StateTypeOK' /\ HistoryTypeOK'
  BY <1>1 DEF IInv, TypeOK, StateTypeOK, HistoryTypeOK, stateVars, history, CoordinatorIdle
<1>3. CASE Push \/ DropCumulative \/ DropIngress
  BY <1>1, <1>3, ProducerKeeps
<1>4. CASE Worker
  <2>1. ArenaTypeOK'
    BY <1>4, WorkerTypes DEF IInv, TypeOK
  <2>2. BooksBalance'
    BY <1>1, <1>4, ConsumeKeeps, FreezeKeeps, ReleaseKeeps, ClearKeeps, StatusKeeps DEF Worker
  <2> QED BY <1>2, <2>1, <2>2 DEF IInv, TypeOK
<1>5. ASSUME NEW c \in Clients, Mailbox(c) PROVE IInv'
  <2>1. ArenaTypeOK'
    BY <1>5, MailboxTypes DEF IInv, TypeOK
  <2>2. BooksBalance'
    BY <1>1, <1>5, MailboxKeeps
  <2> QED BY <1>2, <2>1, <2>2 DEF IInv, TypeOK
<1>6. CASE StatusCall \/ StatusDone
  BY <1>1, <1>2, <1>6, StatusCallerKeeps DEF IInv, TypeOK
<1> QED BY <1>3, <1>4, <1>5, <1>6 DEF ArenaStep

-----------------------------------------------------------------------------
(***************************************************************************)
(* The coordinator keeps its types.                                        *)
(***************************************************************************)
\* The coordinator's empty values have the types of their fields.
LEMMA StateValueTypes ==
    /\ NoHolder \in Holder /\ NoTransaction \in Transaction
    /\ NoPendingClear \in PendingClear
    /\ \A d \in Descriptor : [some |-> TRUE, desc |-> d] \in Holder
    /\ \A d \in Descriptor, n \in Nat : [some |-> TRUE, desc |-> d, lost |-> n] \in Transaction
<1>1. NoHolder \in Holder
  BY NoValueTypes DEF NoHolder, Holder
<1>2. NoTransaction \in Transaction
  BY NoValueTypes DEF NoTransaction, Transaction
<1>3. NoPendingClear \in PendingClear
  BY NoValueTypes DEF NoPendingClear, PendingClear
<1>4. \A d \in Descriptor : [some |-> TRUE, desc |-> d] \in Holder
  BY DEF Holder
<1>5. \A d \in Descriptor, n \in Nat : [some |-> TRUE, desc |-> d, lost |-> n] \in Transaction
  BY DEF Transaction
<1> QED BY <1>1, <1>2, <1>3, <1>4, <1>5

\* The requests the coordinator makes are requests.
LEMMA RequestTypes ==
    ASSUME IInv
    PROVE  /\ \A d \in Descriptor : ReleaseRequest(d) \in Request
           /\ \A a \in Accounting, k \in {"recover", "clear"} :
                [kind |-> k, committed |-> 0, desc |-> NoDescriptor, acct |-> a] \in Request
           /\ [kind |-> "freeze", committed |-> committed, desc |-> NoDescriptor,
               acct |-> NoAccounting] \in Request
           /\ ClearAccounting \in Accounting
<1>1. \A d \in Descriptor : ReleaseRequest(d) \in Request
  BY NoValueTypes DEF ReleaseRequest, Request, RequestKinds, CommandKinds
<1>2. \A a \in Accounting, k \in {"recover", "clear"} :
        [kind |-> k, committed |-> 0, desc |-> NoDescriptor, acct |-> a] \in Request
  BY NoValueTypes DEF Request, RequestKinds, CommandKinds
<1>3. [kind |-> "freeze", committed |-> committed, desc |-> NoDescriptor,
       acct |-> NoAccounting] \in Request
  BY NoValueTypes, FieldTypes DEF Request, RequestKinds, CommandKinds, IInv
<1>4. ClearAccounting \in Accounting
  <2>1. txn.desc.start <= txn.desc.end
    BY DEF IInv, BooksBalance, RangesOK, RangeOK, NoTransaction, NoDescriptor
  <2>2. /\ txn.desc.start \in Nat /\ txn.desc.end \in Nat /\ txn.lost \in Nat
        /\ pendRet \in Nat /\ pendClr \in Nat /\ nextClearId \in Nat /\ committed \in Nat
    BY FieldTypes DEF IInv, DescFields
  <2>3. txn.desc.end - txn.desc.start \in Nat
    BY <2>1, <2>2
  <2> QED BY <2>2, <2>3 DEF ClearAccounting, Accounting
<1> QED BY <1>1, <1>2, <1>3, <1>4

\* Committing the losses keeps every counter a natural number.
LEMMA CommitLossesTypes ==
    ASSUME IInv, NEW lost \in Nat, CommitLosses(lost)
    PROVE  /\ acked' \in Nat /\ pendRet' \in Nat /\ pendClr' \in Nat
           /\ repRet' \in Nat /\ repClr' \in Nat /\ repDrop' \in Nat
<1>1. acked <= dropCum
  BY DEF IInv, BooksBalance
<1> QED BY <1>1, FieldTypes DEF IInv, CommitLosses

\* The frames of a range are natural numbers.
LEMMA FramesTypes ==
    ASSUME TypeOK, NEW d
    PROVE  Frames(d) \subseteq Nat
BY FieldTypes DEF Frames

\* Committing a transaction keeps the types.
LEMMA CommitTransactionTypes ==
    ASSUME IInv, CommitTransaction, txn.some
    PROVE  /\ committed' \in Nat /\ txn' \in Transaction /\ guard' \in Holder
           /\ completion' = "delivering"
           /\ acked' \in Nat /\ pendRet' \in Nat /\ pendClr' \in Nat
           /\ repRet' \in Nat /\ repClr' \in Nat /\ repDrop' \in Nat /\ exported' \in Nat
           /\ UNCHANGED <<decision, pendingClear, pendingRelease, failedRelease, nextClearId>>
<1>1. txn.desc \in Descriptor /\ txn.lost \in Nat
  BY DEF IInv, TypeOK, StateTypeOK, Transaction
<1>2. txn.desc.start \in Nat /\ txn.desc.end \in Nat /\ txn.desc.start <= txn.desc.end /\ exported \in Nat
  BY FieldTypes DEF IInv, DescFields, BooksBalance, RangesOK, RangeOK
<1>3. CommitLosses(txn.lost)
  BY DEF CommitTransaction
<1>4. committed' \in Nat /\ exported' \in Nat
  BY <1>2 DEF CommitTransaction
<1>5. txn' \in Transaction /\ guard' \in Holder
  BY <1>1, StateValueTypes DEF CommitTransaction
<1> QED BY <1>1, <1>3, <1>4, <1>5, CommitLossesTypes DEF CommitTransaction

\* Committing a clear report keeps the types.
LEMMA CommitClearTypes ==
    ASSUME IInv, NEW r \in Report, CommitClear(r)
    PROVE  /\ committed' \in Nat /\ txn' \in Transaction /\ decision' \in BOOLEAN
           /\ pendingClear' \in PendingClear /\ pendingRelease' \in Holder
           /\ pendRet' \in Nat /\ pendClr' \in Nat /\ discarded' \subseteq Nat
           /\ UNCHANGED <<completion, failedRelease, guard, indeterminate, acked,
                          nextClearId, history>>
<1>1. pendRet' \in Nat /\ pendClr' \in Nat /\ committed' \in Nat
  BY DEF CommitClear, Report
<1>2. pendingClear' \in PendingClear
  BY StateValueTypes DEF CommitClear
<1>3. CASE pendingClear.frozen
  <2>1. txn.desc \in Descriptor
    BY DEF IInv, TypeOK, StateTypeOK, Transaction
  <2>2. /\ txn' = NoTransaction /\ decision' = TRUE
        /\ pendingRelease' = [some |-> TRUE, desc |-> txn.desc]
        /\ discarded' = discarded \cup Frames(txn.desc)
    BY <1>3 DEF CommitClear, DiscardTransaction
  <2>3. discarded' \subseteq Nat
    BY <2>2, FramesTypes, Zenon DEF IInv, TypeOK, ArenaTypeOK, LossTypeOK
  <2>4. txn' \in Transaction /\ pendingRelease' \in Holder /\ decision' \in BOOLEAN
    BY <2>1, <2>2, StateValueTypes
  <2> QED BY <1>1, <1>2, <2>3, <2>4 DEF CommitClear
<1>4. CASE ~pendingClear.frozen
  <2>1. UNCHANGED <<txn, decision, pendingRelease, discarded>>
    BY <1>4 DEF CommitClear
  <2>2. txn' \in Transaction /\ decision' \in BOOLEAN /\ pendingRelease' \in Holder
    BY <2>1 DEF IInv, TypeOK, StateTypeOK
  <2>3. discarded' \subseteq Nat
    BY <2>1 DEF IInv, TypeOK, ArenaTypeOK, LossTypeOK
  <2> QED BY <1>1, <1>2, <2>2, <2>3 DEF CommitClear
<1> QED BY <1>3, <1>4

\* Every coordinator step keeps every type.
LEMMA CoordinatorTypes ==
    ASSUME IInv, Coordinator
    PROVE  TypeOK'
<1>a. "op" \in Clients /\ ArenaTypeOK /\ StateTypeOK /\ HistoryTypeOK /\ discarded \subseteq Nat
  BY DEF Clients, IInv, TypeOK, ArenaTypeOK, LossTypeOK
<1>b. UNCHANGED arenaVars => ArenaTypeOK'
  BY UnchangedTypes DEF arenaVars, IInv, TypeOK, ArenaTypeOK
<1>c. /\ txn.desc \in Descriptor /\ guard.desc \in Descriptor
      /\ pendingRelease.desc \in Descriptor /\ failedRelease.desc \in Descriptor
      /\ pendingClear.acct \in Accounting
  BY <1>a DEF StateTypeOK, Transaction, Holder, PendingClear
<1>d. UNCHANGED <<stateVars, history>> /\ pc' \in Stages /\ op' \in {"persist", "clear", "cleared"} =>
        StateTypeOK' /\ HistoryTypeOK'
  BY <1>a DEF StateTypeOK, HistoryTypeOK, stateVars, history
<1>e. UNCHANGED <<pc, op>> => pc' \in Stages /\ op' \in {"persist", "clear", "cleared"}
  BY <1>a DEF StateTypeOK
<1>f. \A s \in Stages : Goto(s) => pc' \in Stages /\ op' \in {"persist", "clear", "cleared"}
  BY <1>a DEF StateTypeOK, Goto
<1>g. reply["op"] \in Reply /\ reply["op"].desc \in Descriptor /\ reply["op"].report \in Report
  BY <1>a DEF ArenaTypeOK, ClientTypeOK, Reply
<1>h. /\ Finish("op") /\ discarded' \subseteq Nat => ArenaTypeOK'
      /\ \A r \in Request : Call("op", r) => ArenaTypeOK'
  BY <1>a, FinishTypes, CallTypes
<1>i. NoPendingClear \in PendingClear /\ NoHolder \in Holder
  BY StateValueTypes
<1>k. pc = "publish" \/ indeterminate => txn.some
  BY DEF IInv, BooksBalance, CallsMatchStages
<1>s. {"idle", "recover", "reconcile", "resolve", "freeze", "publish", "deliver", "clear", "postRelease"}
        = Stages
  BY DEF Stages
<1>1. CASE StartPersist \/ StartClear \/ NothingToRecover \/ NothingIndeterminate
           \/ ResolvePending \/ FreezeRetained \/ PublishFails
  <2>1. UNCHANGED arenaVars /\ UNCHANGED <<stateVars, history>>
        /\ pc' \in Stages /\ op' \in {"persist", "clear", "cleared"}
    BY <1>1, <1>f, <1>s DEF StartPersist, StartClear, NothingToRecover, NothingIndeterminate,
       ResolvePending, FreezeRetained, PublishFails
  <2> QED BY <2>1, <1>b, <1>d DEF TypeOK
<1>2. CASE RecoverClear \/ ReconcileRelease \/ Freeze \/ Deliver \/ PostRelease
  <2>1. UNCHANGED <<pc, op, stateVars, history>>
    BY <1>2 DEF RecoverClear, ReconcileRelease, Freeze, Deliver, PostRelease
  <2>2. HeldRelease.desc \in Descriptor
    BY <1>c DEF HeldRelease
  <2>3. ArenaTypeOK'
    BY <1>2, <1>c, <1>h, <2>2, RequestTypes DEF RecoverClear, ReconcileRelease, Freeze, Deliver, PostRelease
  <2> QED BY <2>1, <2>3, <1>d, <1>e DEF TypeOK
<1>3. CASE RecoverClearReturn \/ ClearReturn
  <2>1. Finish("op")
    BY <1>3 DEF RecoverClearReturn, ClearReturn
  <2>2. pc' \in Stages /\ op' \in {"persist", "clear", "cleared"}
    BY <1>3, <1>a, <1>f, <1>s DEF RecoverClearReturn, ClearReturn, StateTypeOK
  <2>3. CASE CommitClear(reply["op"].report)
    <3>1. StateTypeOK' /\ HistoryTypeOK' /\ discarded' \subseteq Nat
      <4>1. UNCHANGED <<completion, failedRelease, guard, indeterminate, acked, nextClearId, history>>
        BY <2>3, <1>g, CommitClearTypes
      <4>2. /\ committed' \in Nat /\ txn' \in Transaction /\ decision' \in BOOLEAN
            /\ pendingClear' \in PendingClear /\ pendingRelease' \in Holder
            /\ pendRet' \in Nat /\ pendClr' \in Nat /\ discarded' \subseteq Nat
        BY <2>3, <1>g, CommitClearTypes
      <4> QED BY <4>1, <4>2, <1>a, <2>2 DEF StateTypeOK, HistoryTypeOK, history
    <3> QED BY <3>1, <2>1, <1>h DEF TypeOK
  <2>4. CASE /\ pendingClear' = NoPendingClear
             /\ UNCHANGED <<committed, txn, decision, pendingRelease, completion,
                             failedRelease, guard, indeterminate, acked, pendRet,
                             pendClr, nextClearId, history, discarded>>
    <3>1. StateTypeOK' /\ HistoryTypeOK' /\ discarded' \subseteq Nat
      BY <2>4, <2>2, <1>a, <1>i DEF StateTypeOK, HistoryTypeOK, history
    <3> QED BY <3>1, <2>1, <1>h DEF TypeOK
  <2>5. CASE KeepState
    BY <2>5, <2>1, <2>2, <1>a, <1>d, <1>h DEF KeepState, TypeOK
  <2> QED BY <1>3, <2>3, <2>4, <2>5 DEF RecoverClearReturn, ClearReturn, ForgetPendingClear
<1>4. CASE ReconcileReturn \/ PostReleaseReturn
  <2>1. Finish("op") /\ pc' \in Stages /\ op' \in {"persist", "clear", "cleared"}
    BY <1>4, <1>f, <1>s DEF ReconcileReturn, PostReleaseReturn
  <2>2. CASE KeepState
    BY <2>2, <2>1, <1>a, <1>d, <1>h DEF KeepState, TypeOK
  <2>3. CASE DropHeldRelease
    <3>1. /\ pendingRelease' = NoHolder \/ pendingRelease' = pendingRelease
          /\ failedRelease' = NoHolder \/ failedRelease' = failedRelease
          /\ UNCHANGED <<committed, txn, decision, pendingClear, completion, guard,
                   indeterminate, acked, pendRet, pendClr, nextClearId, history, discarded>>
      BY <2>3 DEF DropHeldRelease
    <3>2. StateTypeOK' /\ HistoryTypeOK' /\ discarded' \subseteq Nat
      BY <3>1, <2>1, <1>a, <1>i DEF StateTypeOK, HistoryTypeOK, history
    <3> QED BY <3>2, <2>1, <1>h DEF TypeOK
  <2> QED BY <1>4, <2>2, <2>3 DEF ReconcileReturn, PostReleaseReturn
<1>5. CASE Reconciled
  <2>1. /\ decision' = (decision \/ completion = "finalized") /\ completion' = "none"
        /\ UNCHANGED <<arenaVars, committed, txn, pendingClear, pendingRelease, failedRelease,
                   guard, indeterminate, acked, pendRet, pendClr, nextClearId, history>>
    BY <1>5 DEF Reconciled
  <2>2. pc' \in Stages /\ op' = op
    BY <1>5, <1>s DEF Reconciled, Goto
  <2>3. decision' \in BOOLEAN
    BY <2>1
  <2>4. StateTypeOK' /\ HistoryTypeOK'
    BY <2>1, <2>2, <2>3, <1>a DEF StateTypeOK, HistoryTypeOK, history
  <2> QED BY <2>1, <2>4, <1>b DEF TypeOK
<1>6. CASE ResolveComplete \/ PublishWritten \/ PublishSkipped
  <2>1. UNCHANGED arenaVars /\ CommitTransaction /\ txn.some
        /\ pc' \in Stages /\ op' \in {"persist", "clear", "cleared"}
    BY <1>6, <1>f, <1>s, <1>k DEF ResolveComplete, PublishWritten, PublishSkipped, CommitWritten
  <2>2. written' \subseteq Nat /\ skipped' \subseteq Nat
    <3>1. /\ written' = written \/ written' = written \cup Frames(txn.desc)
          /\ skipped' = skipped \/ skipped' = skipped \cup Frames(txn.desc)
      BY <1>6 DEF ResolveComplete, PublishWritten, PublishSkipped, CommitWritten
    <3> QED BY <3>1, <1>a, FramesTypes, Zenon DEF IInv, HistoryTypeOK
  <2>3. indeterminate' \in BOOLEAN
    BY <1>6, <1>a DEF ResolveComplete, PublishWritten, PublishSkipped, CommitWritten, StateTypeOK
  <2>4. StateTypeOK'
    <3>1. /\ committed' \in Nat /\ txn' \in Transaction /\ guard' \in Holder
          /\ completion' = "delivering"
          /\ acked' \in Nat /\ pendRet' \in Nat /\ pendClr' \in Nat
          /\ UNCHANGED <<decision, pendingClear, pendingRelease, failedRelease, nextClearId>>
      BY <2>1, CommitTransactionTypes
    <3> QED BY <3>1, <2>1, <2>3, <1>a DEF StateTypeOK
  <2>5. HistoryTypeOK'
    <3>1. repRet' \in Nat /\ repClr' \in Nat /\ repDrop' \in Nat /\ exported' \in Nat
      BY <2>1, CommitTransactionTypes
    <3> QED BY <3>1, <2>2 DEF HistoryTypeOK
  <2> QED BY <2>1, <2>4, <2>5, <1>b DEF TypeOK
<1>7. CASE ResolveRolledBack \/ PublishIndeterminate
  <2>1. /\ indeterminate' \in BOOLEAN /\ pc' \in Stages /\ op' \in {"persist", "clear", "cleared"}
        /\ UNCHANGED <<arenaVars, committed, txn, decision, pendingClear, pendingRelease,
                   completion, failedRelease, guard, acked, pendRet, pendClr,
                   nextClearId, history>>
    BY <1>7, <1>f, <1>s DEF ResolveRolledBack, PublishIndeterminate
  <2>2. StateTypeOK' /\ HistoryTypeOK'
    BY <2>1, <1>a DEF StateTypeOK, HistoryTypeOK, history
  <2> QED BY <2>1, <2>2, <1>b DEF TypeOK
<1>8. CASE FreezeReturn
  <2>1. Finish("op") /\ discarded' \subseteq Nat /\ pc' \in Stages /\ op' \in {"persist", "clear", "cleared"}
    BY <1>8, <1>a, <1>f, <1>s DEF FreezeReturn
  <2>2. CASE UNCHANGED <<stateVars, history>>
    BY <2>1, <2>2, <1>d, <1>h DEF TypeOK
  <2>3. CASE /\ txn' = [some |-> TRUE, desc |-> reply["op"].desc,
                        lost |-> Shortfall(committed, reply["op"].desc.start)]
             /\ decision' = FALSE
             /\ UNCHANGED <<committed, pendingClear, pendingRelease, completion,
                             failedRelease, guard, indeterminate, acked, pendRet,
                             pendClr, nextClearId, history>>
    <3>1. Shortfall(committed, reply["op"].desc.start) \in Nat
      BY FieldTypes DEF IInv, DescFields, Larger, Shortfall
    <3>2. txn' \in Transaction
      BY <2>3, <3>1, <1>g, StateValueTypes
    <3>3. StateTypeOK' /\ HistoryTypeOK'
      BY <2>1, <2>3, <3>2, <1>a DEF StateTypeOK, HistoryTypeOK, history
    <3> QED BY <2>1, <3>3, <1>h DEF TypeOK
  <2>4. CASE /\ CommitLosses(0)
             /\ UNCHANGED <<committed, txn, decision, pendingClear, pendingRelease,
                             completion, failedRelease, guard, indeterminate,
                             nextClearId, written, skipped, exported>>
    <3>1. /\ acked' \in Nat /\ pendRet' \in Nat /\ pendClr' \in Nat
          /\ repRet' \in Nat /\ repClr' \in Nat /\ repDrop' \in Nat
      BY <2>4, CommitLossesTypes
    <3>2. StateTypeOK' /\ HistoryTypeOK'
      BY <2>1, <2>4, <3>1, <1>a DEF StateTypeOK, HistoryTypeOK
    <3> QED BY <2>1, <3>2, <1>h DEF TypeOK
  <2> QED BY <1>8, <2>2, <2>3, <2>4 DEF FreezeReturn
<1>9. CASE Finalize
  <2>1. /\ Finish("op") /\ guard' = NoHolder /\ pc' \in Stages /\ op' \in {"persist", "clear", "cleared"}
        /\ UNCHANGED <<committed, txn, pendingClear, pendingRelease, indeterminate, acked,
                   pendRet, pendClr, nextClearId, history, discarded>>
        /\ completion' \in {"none", "finalized"}
    BY <1>9, <1>f, <1>s DEF Finalize
  <2>2. (decision' = TRUE \/ decision' = decision)
        /\ (failedRelease' = guard \/ failedRelease' = failedRelease)
    BY <1>9 DEF Finalize
  <2>3. decision' \in BOOLEAN /\ failedRelease' \in Holder
    BY <2>2, <1>a DEF StateTypeOK
  <2>4. StateTypeOK' /\ HistoryTypeOK' /\ discarded' \subseteq Nat
    BY <2>1, <2>3, <1>a, <1>i DEF StateTypeOK, HistoryTypeOK, history
  <2> QED BY <2>1, <2>4, <1>h DEF TypeOK
<1>10. CASE Clear
  <2>1. /\ nextClearId' = nextClearId + 1
        /\ UNCHANGED <<pc, op, committed, txn, decision, pendingRelease, completion,
                   failedRelease, guard, indeterminate, acked, pendRet, pendClr, history>>
        /\ Call("op", [kind |-> "clear", committed |-> 0, desc |-> NoDescriptor,
                       acct |-> ClearAccounting])
    BY <1>10 DEF Clear
  <2>2. pendingClear' \in PendingClear
    <3>1. pendingClear' = [some |-> TRUE, acct |-> ClearAccounting, requested |-> committed,
                        frozen |-> txn.some, frozenEnd |-> txn.desc.end, acked |-> acked]
      BY <1>10 DEF Clear
    <3>2. /\ ClearAccounting \in Accounting /\ committed \in Nat /\ txn.some \in BOOLEAN
          /\ txn.desc.end \in Nat /\ acked \in Nat
      BY <1>a, RequestTypes, FieldTypes DEF IInv, DescFields, StateTypeOK, Transaction
    <3> HIDE DEF ClearAccounting
    <3> QED BY <3>1, <3>2 DEF PendingClear
  <2>3. StateTypeOK' /\ HistoryTypeOK'
    BY <2>1, <2>2, <1>a DEF StateTypeOK, HistoryTypeOK, history
  <2>4. ArenaTypeOK'
    BY <2>1, <1>h, RequestTypes
  <2> QED BY <2>3, <2>4 DEF TypeOK
<1> QED BY <1>1, <1>2, <1>3, <1>4, <1>5, <1>6, <1>7, <1>8, <1>9, <1>10 DEF Coordinator

-----------------------------------------------------------------------------
(***************************************************************************)
(* The coordinator keeps the books.                                        *)
(***************************************************************************)
\* What a coordinator step never touches.
ArenaFrame ==
    /\ UNCHANGED <<slot, kind, cmd, result, recoveredFrozen, recoveredClear, lock>>
    /\ UNCHANGED <<head, active, base, localHead, clearAfter, frozenRec, dropCum>>
    /\ rpc'["st"] = rpc["st"] /\ req'["st"] = req["st"]

\* What every coordinator step leaves alone in the arena.
LEMMA CoordinatorFrame ==
    ASSUME TypeOK
    PROVE  /\ UNCHANGED arenaVars => ArenaFrame /\ rpc'["op"] = rpc["op"]
                                      /\ reply'["op"] = reply["op"]
           /\ Finish("op") => /\ ArenaFrame /\ rpc'["op"] = "idle"
                              /\ rpc["op"] = "done"
           /\ \A r : Call("op", r) => /\ ArenaFrame /\ rpc'["op"] = "lock" /\ req'["op"] = r
                                      /\ rpc["op"] = "idle"
<1>0. rpc \in [Clients -> {"idle", "lock", "stale", "wait", "done"}] /\ req \in [Clients -> Request]
      /\ "op" \in Clients /\ "st" \in Clients
  BY DEF TypeOK, ArenaTypeOK, ClientTypeOK, Clients
<1>1. UNCHANGED arenaVars => ArenaFrame /\ rpc'["op"] = rpc["op"] /\ reply'["op"] = reply["op"]
  BY DEF arenaVars, ArenaFrame, ingressVars, ringVars, slotVars, clientVars
<1>2. Finish("op") => ArenaFrame /\ rpc'["op"] = "idle" /\ rpc["op"] = "done"
  BY <1>0 DEF Finish, ArenaFrame, ingressVars, ringVars, slotVars
<1>3. \A r : Call("op", r) => ArenaFrame /\ rpc'["op"] = "lock" /\ req'["op"] = r /\ rpc["op"] = "idle"
  BY <1>0 DEF Call, ArenaFrame, ingressVars, ringVars, slotVars
<1> QED BY <1>1, <1>2, <1>3

\* A step that ends outside a call only has its own stage to answer for.
LEMMA StageFrame ==
    ASSUME IInv, ArenaFrame, rpc'["op"] = "idle",
           pendingClear'.some => pc' \in {"idle", "recover", "clear"},
           pc' = "publish" \/ indeterminate' => txn'.some,
           pc' \in {"freeze", "publish", "clear"} \/ pendingClear'.some => ~indeterminate'
    PROVE  CallsMatchStages' /\ RingAtHead' /\ ~InReply'
<1>1. \A d \in Clients : rpc'[d] \in {"stale", "wait"} => lock' = d
  BY DEF ArenaFrame, IInv, BooksBalance, CallsMatchStages, Clients
<1> QED BY <1>1 DEF ArenaFrame, IInv, BooksBalance, CallsMatchStages, RingAtHead, InReply

\* The numbers stay as they are; at most a pending clear is forgotten.
LEMMA QuietKeeps ==
    ASSUME IInv, ArenaFrame, rpc'["op"] = "idle",
           pendingClear'.some => pc' \in {"idle", "recover", "clear"},
           pc' = "publish" \/ indeterminate' => txn'.some,
           pc' \in {"freeze", "publish", "clear"} \/ pendingClear'.some => ~indeterminate',
           UNCHANGED <<committed, txn, acked, pendRet, pendClr, nextClearId,
                       exported, repRet, repClr>>,
           pendingClear' = pendingClear \/ ~pendingClear'.some
    PROVE  BooksBalance'
<1>1. CallsMatchStages' /\ RingAtHead' /\ ~InReply'
  BY StageFrame
<1>2. Conservation' /\ acked' <= dropCum'
  BY DEF IInv, BooksBalance, Conservation, ArenaFrame
<1>3. OneAnswer'
  BY <1>1 DEF IInv, BooksBalance, OneAnswer, InSlot, InReply, ArenaFrame
<1>4. RangesOK'
  BY <1>1 DEF IInv, BooksBalance, RangesOK, RangeOK, ArenaFrame
<1>5. ReportsOK'
  BY <1>1 DEF IInv, BooksBalance, ReportsOK, ReportOK, ArenaFrame
<1> QED BY <1>1, <1>2, <1>3, <1>4, <1>5 DEF BooksBalance

\* A call that only asks.
LEMMA CallKeeps ==
    ASSUME IInv, NEW r, Call("op", r), UNCHANGED <<pc, op, stateVars, history>>,
           pc \notin {"idle", "resolve", "publish", "clear"},
           pc = "freeze" => r.kind = "freeze" /\ r.committed = committed /\ ~txn.some,
           pc = "recover" => r.kind = "recover" /\ pendingClear.some,
           pc \notin {"freeze", "recover"} => r.kind = "release"
    PROVE  BooksBalance'
<1>1. ArenaFrame /\ rpc'["op"] = "lock" /\ req'["op"] = r /\ rpc["op"] = "idle"
  BY CoordinatorFrame DEF IInv
<1>2. UNCHANGED <<committed, txn, acked, pendRet, pendClr, nextClearId, pendingClear,
                  indeterminate, exported, repRet, repClr>>
  BY DEF stateVars, history
<1>3. \A d \in Clients : rpc'[d] \in {"stale", "wait"} => lock' = d
  BY <1>1 DEF ArenaFrame, IInv, BooksBalance, CallsMatchStages, Clients
<1>4. CallsMatchStages' /\ RingAtHead' /\ ~InReply'
  BY <1>1, <1>2, <1>3 DEF ArenaFrame, IInv, BooksBalance, CallsMatchStages, RingAtHead, InReply
<1>5. Conservation' /\ acked' <= dropCum'
  BY <1>1, <1>2 DEF IInv, BooksBalance, Conservation, ArenaFrame
<1>6. OneAnswer'
  BY <1>1, <1>2, <1>4 DEF IInv, BooksBalance, OneAnswer, InSlot, InReply, ArenaFrame
<1>7. RangesOK'
  BY <1>1, <1>2, <1>4 DEF IInv, BooksBalance, RangesOK, RangeOK, ArenaFrame
<1>8. ReportsOK'
  BY <1>1, <1>2, <1>4 DEF IInv, BooksBalance, ReportsOK, ReportOK, ArenaFrame
<1> QED BY <1>4, <1>5, <1>6, <1>7, <1>8 DEF BooksBalance

\* A committed transaction moves the cursor by what it lost and exported.
LEMMA CommitTransactionKeeps ==
    ASSUME IInv, CommitTransaction, txn.some, UNCHANGED arenaVars,
           pc \in {"publish", "resolve"}, pc' = "deliver",
           ~indeterminate'
    PROVE  BooksBalance' /\ committed' >= committed
<1>1. ArenaFrame /\ rpc'["op"] = "idle"
  BY CoordinatorFrame DEF IInv, BooksBalance, CallsMatchStages
<1>2. /\ ~pendingClear.some /\ pendingClear' = pendingClear /\ nextClearId' = nextClearId
      /\ committed' = txn.desc.end /\ txn' = NoTransaction
      /\ pendRet' = 0 /\ pendClr' = 0 /\ acked' = dropCum
      /\ repRet' = repRet + pendRet + txn.lost /\ repClr' = repClr + pendClr
      /\ exported' = exported + (txn.desc.end - txn.desc.start)
  BY DEF CommitTransaction, CommitLosses, IInv, BooksBalance, CallsMatchStages
<1>3. /\ RangeOK(txn.desc) /\ txn.lost = txn.desc.start - committed
      /\ ~(slot = "ready" /\ kind = "freeze") /\ ~(slot = "done" /\ result.tag = "frozen")
      /\ ~recoveredFrozen.some
  BY DEF IInv, BooksBalance, RangesOK, OneAnswer
<1>4. committed' >= committed /\ committed' <= head
  BY <1>2, <1>3, FieldTypes DEF RangeOK, DescFields, IInv
<1>5. ~txn'.some
  BY <1>2 DEF NoTransaction
<1>6. CallsMatchStages' /\ RingAtHead' /\ ~InReply'
  BY <1>1, <1>2, StageFrame
<1>7. Conservation' /\ acked' <= dropCum'
  <2>1. acked' <= dropCum'
    BY <1>1, <1>2, FieldTypes DEF ArenaFrame, IInv
  <2>2. committed = exported + repRet + pendRet + repClr + pendClr
    BY DEF IInv, BooksBalance, Conservation
  <2> QED BY <1>2, <1>3, <2>1, <2>2, FieldTypes DEF Conservation, RangeOK, DescFields, IInv
<1>8. OneAnswer'
  BY <1>1, <1>5, <1>6 DEF IInv, BooksBalance, OneAnswer, InSlot, ArenaFrame
<1>9. RangesOK'
  BY <1>1, <1>2, <1>3, <1>4, <1>5, <1>6 DEF IInv, BooksBalance, RangesOK, ArenaFrame, InReply
<1>10. ReportsOK'
  BY <1>1, <1>2, <1>6 DEF IInv, BooksBalance, ReportsOK, ReportOK, ArenaFrame, InReply
<1> QED BY <1>4, <1>6, <1>7, <1>8, <1>9, <1>10 DEF BooksBalance

\* The arithmetic of a committed clear: what the report says was lost beyond the
\* accounts it started from is exactly the distance the cursor moves.
LEMMA AccountsAddUp ==
    ASSUME NEW end \in Nat, NEW ret \in Nat, NEW clr \in Nat, NEW exp \in Nat,
           NEW pRet \in Nat, NEW pClr \in Nat, NEW pExp \in Nat,
           NEW com \in Nat, NEW out \in Nat, NEW rRet \in Nat, NEW rClr \in Nat,
           NEW qRet \in Nat, NEW qClr \in Nat,
           exp = pExp, ret + clr + exp = pRet + pClr + end,
           pRet + pClr + com = qRet + qClr + pExp,
           com = out + rRet + qRet + rClr + qClr
    PROVE  end = out + rRet + ret + rClr + clr
  OBVIOUS

\* A committed clear moves the cursor by what its report says was lost.
LEMMA CommitClearKeeps ==
    ASSUME IInv, NEW r, r = reply["op"].report, reply["op"].tag = "cleared",
           ValidReport(r), CommitClear(r), Finish("op"),
           pc \in {"recover", "clear"}, pc' \in {"reconcile", "idle", "postRelease"}
    PROVE  BooksBalance' /\ committed' >= committed
<1>1. ArenaFrame /\ rpc'["op"] = "idle" /\ rpc["op"] = "done"
  BY CoordinatorFrame DEF IInv
<1>2. pendingClear.some /\ ~indeterminate /\ InReply
  BY <1>1 DEF IInv, BooksBalance, CallsMatchStages, InReply
<1>3. /\ committed' = r.end /\ pendRet' = r.retained /\ pendClr' = r.cleared
      /\ ~pendingClear'.some /\ ~indeterminate'
      /\ UNCHANGED <<acked, nextClearId, exported, repRet, repClr>>
  BY <1>2 DEF CommitClear, NoPendingClear, history
<1>4. /\ r.expected = pendingClear.acct.expected
      /\ r.expected <= r.end /\ r.end <= head
      /\ r.retained + r.cleared + r.expected =
              pendingClear.acct.retained + pendingClear.acct.cleared + r.end
  BY <1>1, <1>2 DEF ValidReport, IInv, BooksBalance, ReportsOK, ReportOK
<1>5. /\ committed <= pendingClear.acct.expected
      /\ pendingClear.acct.retained + pendingClear.acct.cleared + committed =
              pendRet + pendClr + pendingClear.acct.expected
  BY <1>2 DEF IInv, BooksBalance, ReportsOK
<1>6. committed' >= committed /\ committed' <= head
  BY <1>3, <1>4, <1>5, FieldTypes DEF IInv, ReportFields, AcctFields
<1>7. Conservation' /\ acked' <= dropCum'
  <2>1. acked' <= dropCum'
    BY <1>1, <1>3 DEF ArenaFrame, IInv, BooksBalance
  <2>2. committed = exported + repRet + pendRet + repClr + pendClr
    BY DEF IInv, BooksBalance, Conservation
  <2>3. r.end = exported + repRet + r.retained + repClr + r.cleared
    <3> DEFINE p == pendingClear.acct
    <3>1. /\ r.end \in Nat /\ r.retained \in Nat /\ r.cleared \in Nat /\ r.expected \in Nat
          /\ p.retained \in Nat /\ p.cleared \in Nat /\ p.expected \in Nat
          /\ committed \in Nat /\ exported \in Nat /\ repRet \in Nat /\ pendRet \in Nat
          /\ repClr \in Nat /\ pendClr \in Nat
      BY FieldTypes DEF IInv, ReportFields, AcctFields
    <3>2. r.expected = p.expected /\ r.retained + r.cleared + r.expected = p.retained + p.cleared + r.end
      BY <1>4
    <3>3. p.retained + p.cleared + committed = pendRet + pendClr + p.expected
      BY <1>5
    <3> HIDE DEF p
    <3> QED BY ONLY <3>1, <3>2, <3>3, <2>2, AccountsAddUp
  <2> QED BY <1>3, <2>1, <2>3 DEF Conservation
<1>8. txn' = NoTransaction /\ ~txn'.some
  <2>1. CASE pendingClear.frozen
    BY <2>1 DEF CommitClear, DiscardTransaction, NoTransaction
  <2>2. CASE ~pendingClear.frozen
    BY <2>2 DEF CommitClear, ValidReport, IInv, BooksBalance, RangesOK
  <2> QED BY <2>1, <2>2
<1>9. CallsMatchStages' /\ RingAtHead' /\ ~InReply'
  BY <1>1, <1>3, StageFrame
<1>10. ~InSlot /\ ~recoveredFrozen.some /\ ~recoveredClear.some
  BY <1>2 DEF IInv, BooksBalance, OneAnswer
<1>11. OneAnswer'
  BY <1>1, <1>8, <1>9, <1>10 DEF OneAnswer, InSlot, ArenaFrame
<1>12. RangesOK'
  BY <1>1, <1>6, <1>8, <1>9, <1>10 DEF RangesOK, InSlot, InReply, ArenaFrame
<1>13. ReportsOK'
  BY <1>1, <1>3, <1>9, <1>10 DEF ReportsOK, InSlot, InReply, ArenaFrame
<1> QED BY <1>6, <1>7, <1>9, <1>11, <1>12, <1>13 DEF BooksBalance

\* A frozen range becomes the transaction.
LEMMA FrozenTransactionKeeps ==
    ASSUME IInv, Finish("op"), reply["op"].tag = "frozen", pc = "freeze", pc' = "publish",
           txn' = [some |-> TRUE, desc |-> reply["op"].desc,
                   lost |-> Shortfall(committed, reply["op"].desc.start)],
           UNCHANGED <<committed, pendingClear, indeterminate, acked, pendRet, pendClr,
                       nextClearId, exported, repRet, repClr>>
    PROVE  BooksBalance'
<1>1. ArenaFrame /\ rpc'["op"] = "idle" /\ rpc["op"] = "done"
  BY CoordinatorFrame DEF IInv
<1>2. InReply /\ ~pendingClear.some /\ ~indeterminate
  BY <1>1 DEF IInv, BooksBalance, CallsMatchStages, InReply
<1>3. ~InSlot /\ ~recoveredFrozen.some /\ ~recoveredClear.some
  BY <1>2 DEF IInv, BooksBalance, OneAnswer
<1>4. txn'.some /\ txn'.desc = reply["op"].desc
  OBVIOUS
<1>5. RangeOK(txn'.desc)
  BY <1>1, <1>4 DEF IInv, BooksBalance, RangesOK
<1>6. txn'.lost = txn'.desc.start - committed
  BY <1>5, FieldTypes DEF IInv, DescFields, RangeOK, Larger, Shortfall
<1>7. CallsMatchStages' /\ RingAtHead' /\ ~InReply'
  BY <1>1, <1>2, <1>4, StageFrame
<1>8. Conservation' /\ acked' <= dropCum'
  BY <1>1 DEF IInv, BooksBalance, Conservation, ArenaFrame
<1>9. OneAnswer'
  BY <1>1, <1>3, <1>7 DEF OneAnswer, InSlot, InReply, ArenaFrame
<1>10. RangesOK'
  BY <1>1, <1>3, <1>4, <1>5, <1>6, <1>7 DEF IInv, BooksBalance, RangesOK, RangeOK, InSlot,
     InReply, ArenaFrame
<1>11. ReportsOK'
  BY <1>1, <1>2, <1>3, <1>7 DEF ReportsOK, InSlot, InReply, ArenaFrame
<1> QED BY <1>7, <1>8, <1>9, <1>10, <1>11 DEF BooksBalance

\* Nothing to export: the pending losses are reported by themselves.
LEMMA NothingFrozenKeeps ==
    ASSUME IInv, Finish("op"), pc = "freeze", pc' = "idle", CommitLosses(0),
           UNCHANGED <<committed, txn, pendingClear, indeterminate, nextClearId, exported>>
    PROVE  BooksBalance'
<1>1. ArenaFrame /\ rpc'["op"] = "idle" /\ rpc["op"] = "done"
  BY CoordinatorFrame DEF IInv
<1>2. ~pendingClear.some /\ ~indeterminate
  BY DEF IInv, BooksBalance, CallsMatchStages
<1>3. CallsMatchStages' /\ RingAtHead' /\ ~InReply'
  BY <1>1, <1>2, StageFrame
<1>4. acked' <= dropCum'
  BY <1>1, FieldTypes DEF CommitLosses, ArenaFrame, IInv
<1>5. Conservation'
  BY FieldTypes DEF CommitLosses, Conservation, IInv, BooksBalance
<1>6. OneAnswer'
  BY <1>1, <1>3 DEF IInv, BooksBalance, OneAnswer, InSlot, InReply, ArenaFrame
<1>7. RangesOK'
  BY <1>1, <1>3 DEF IInv, BooksBalance, RangesOK, RangeOK, InReply, ArenaFrame
<1>8. ReportsOK'
  BY <1>1, <1>2, <1>3 DEF IInv, BooksBalance, ReportsOK, ReportOK, InReply, ArenaFrame
<1> QED BY <1>3, <1>4, <1>5, <1>6, <1>7, <1>8 DEF BooksBalance

\* A new clear has an identity no report under way can carry, and its
\* accounting adds up.
LEMMA ClearCallKeeps ==
    ASSUME IInv, Clear
    PROVE  BooksBalance'
<1> DEFINE a == ClearAccounting
           q == [kind |-> "clear", committed |-> 0, desc |-> NoDescriptor, acct |-> a]
<1>1. /\ pc = "clear" /\ nextClearId' = nextClearId + 1
      /\ UNCHANGED <<pc, committed, txn, indeterminate, acked, pendRet, pendClr, exported,
                     repRet, repClr>>
      /\ pendingClear'.some /\ pendingClear'.acct = a
      /\ Call("op", q)
  BY DEF Clear, history
<1>2. ArenaFrame /\ rpc'["op"] = "lock" /\ req'["op"] = q /\ rpc["op"] = "idle"
  BY <1>1, CoordinatorFrame DEF IInv
<1>3. ~indeterminate
  BY <1>1 DEF IInv, BooksBalance, CallsMatchStages
<1>4. q.kind = "clear" /\ q.acct = a
  OBVIOUS
<1>5. /\ a.id = nextClearId + 1
      /\ committed <= a.expected /\ a.expected <= head
      /\ a.retained + a.cleared + committed = pendRet + pendClr + a.expected
  <2>1. CASE txn.some
    <3>1. RangeOK(txn.desc) /\ txn.lost = txn.desc.start - committed
      BY <2>1 DEF IInv, BooksBalance, RangesOK
    <3>2. /\ a.id = nextClearId + 1 /\ a.expected = txn.desc.end
          /\ a.retained = pendRet + txn.lost
          /\ a.cleared = pendClr + (txn.desc.end - txn.desc.start)
      BY <2>1 DEF ClearAccounting
    <3> HIDE DEF a
    <3> QED BY <3>1, <3>2, FieldTypes DEF RangeOK, IInv, DescFields
  <2>2. CASE ~txn.some
    <3>1. txn.lost = 0 /\ txn.desc.end = 0 /\ txn.desc.start = 0 /\ committed <= head
      BY <2>2 DEF IInv, BooksBalance, RangesOK, NoTransaction, NoDescriptor
    <3>2. /\ a.id = nextClearId + 1 /\ a.expected = committed
          /\ a.retained = pendRet /\ a.cleared = pendClr
      BY <2>2, <3>1, FieldTypes DEF ClearAccounting, IInv
    <3> HIDE DEF a
    <3> QED BY <3>1, <3>2, FieldTypes DEF IInv
  <2> QED BY <2>1, <2>2
<1> HIDE DEF a, q
<1>6. \A d \in Clients : rpc'[d] \in {"stale", "wait"} => lock' = d
  BY <1>2 DEF ArenaFrame, IInv, BooksBalance, CallsMatchStages, Clients
<1>7. CallsMatchStages' /\ RingAtHead' /\ ~InReply'
  BY <1>1, <1>2, <1>3, <1>4, <1>6 DEF ArenaFrame, IInv, BooksBalance, CallsMatchStages,
     RingAtHead, InReply
<1>8. Conservation' /\ acked' <= dropCum'
  BY <1>1, <1>2 DEF IInv, BooksBalance, Conservation, ArenaFrame
<1>9. OneAnswer'
  BY <1>1, <1>2, <1>7 DEF IInv, BooksBalance, OneAnswer, InSlot, InReply, ArenaFrame
<1>10. RangesOK'
  BY <1>1, <1>2, <1>7 DEF IInv, BooksBalance, RangesOK, RangeOK, InReply, ArenaFrame
<1>11. ReportsOK'
  <2>1. nextClearId \in Nat /\ head' = head
    BY <1>2, FieldTypes DEF IInv, ArenaFrame
  <2>2. \A n \in Nat : n <= nextClearId => n <= nextClearId' /\ n # a.id
    BY <1>1, <1>5, <2>1
  <2>3. /\ pendingClear'.acct.id <= nextClearId'
        /\ committed' <= pendingClear'.acct.expected
        /\ pendingClear'.acct.expected <= head'
        /\ pendingClear'.acct.retained + pendingClear'.acct.cleared + committed' =
              pendRet' + pendClr' + pendingClear'.acct.expected
    BY <1>1, <1>5, <2>1
  <2>4. slot = "ready" /\ kind = "clear" =>
          cmd.call.acct.id <= nextClearId' /\ cmd.call.acct.id # a.id
    BY <2>2, FieldTypes DEF IInv, BooksBalance, ReportsOK, AcctFields
  <2>5. /\ slot = "done" /\ result.tag = "cleared" => ReportOK(result.report)'
        /\ recoveredClear.some => ReportOK(recoveredClear.report)'
    <3>1. /\ slot = "done" /\ result.tag = "cleared" => ReportOK(result.report)
          /\ recoveredClear.some => ReportOK(recoveredClear.report)
      BY DEF IInv, BooksBalance, ReportsOK
    <3>2. result.report.id \in Nat /\ recoveredClear.report.id \in Nat
      BY FieldTypes DEF IInv, ReportFields
    <3>3. UNCHANGED <<result, recoveredClear>>
      BY <1>2 DEF ArenaFrame
    <3> QED BY <1>1, <2>1, <2>2, <3>1, <3>2, <3>3 DEF ReportOK
  <2> QED BY <1>1, <1>2, <1>7, <2>3, <2>4, <2>5 DEF ReportsOK, ArenaFrame, InReply
<1> QED BY <1>7, <1>8, <1>9, <1>10, <1>11 DEF BooksBalance

\* Every coordinator step keeps the books, and none moves the cursor back.
LEMMA CoordinatorKeeps ==
    ASSUME IInv, Coordinator
    PROVE  BooksBalance' /\ committed' >= committed
<1>a. committed \in Nat
  BY FieldTypes DEF IInv
<1>b. /\ UNCHANGED arenaVars => ArenaFrame /\ rpc'["op"] = rpc["op"]
      /\ Finish("op") => ArenaFrame /\ rpc'["op"] = "idle" /\ rpc["op"] = "done"
  BY CoordinatorFrame DEF IInv
<1>c. /\ pc \in {"idle", "resolve", "publish"} => rpc["op"] = "idle"
      /\ rpc["op"] # "idle" /\ pc = "freeze" => ~txn.some
      /\ rpc["op"] # "idle" /\ pc \in {"recover", "clear"} => pendingClear.some
      /\ pendingClear.some => pc \in {"idle", "recover", "clear"}
      /\ pc = "publish" \/ indeterminate => txn.some
      /\ pc \in {"freeze", "publish", "clear"} \/ pendingClear.some => ~indeterminate
  BY DEF IInv, BooksBalance, CallsMatchStages
<1>d. UNCHANGED <<stateVars, history>> =>
        UNCHANGED <<committed, txn, acked, pendRet, pendClr, nextClearId, exported, repRet,
                    repClr, pendingClear, indeterminate>>
  BY DEF stateVars, history
<1>e. UNCHANGED history => UNCHANGED <<exported, repRet, repClr>>
  BY DEF history
<1>1. CASE StartPersist \/ StartClear \/ NothingToRecover \/ NothingIndeterminate
           \/ ResolvePending \/ FreezeRetained \/ PublishFails
  <2>1. UNCHANGED arenaVars /\ UNCHANGED <<stateVars, history>> /\ rpc["op"] = "idle"
    BY <1>1, <1>c DEF StartPersist, StartClear, NothingToRecover, NothingIndeterminate,
       ResolvePending, FreezeRetained, PublishFails
  <2>2. /\ pendingClear.some => pc' \in {"idle", "recover", "clear"}
        /\ pc' = "publish" \/ indeterminate => txn.some
        /\ pc' \in {"freeze", "publish", "clear"} \/ pendingClear.some => ~indeterminate
    BY <1>1, <1>c DEF StartPersist, StartClear, NothingToRecover, NothingIndeterminate,
       ResolvePending, FreezeRetained, PublishFails, Goto
  <2> QED BY <2>1, <2>2, <1>a, <1>b, <1>d, QuietKeeps
<1>2. CASE RecoverClear \/ ReconcileRelease \/ Freeze \/ Deliver \/ PostRelease
  <2>1. UNCHANGED <<pc, op, stateVars, history>>
    BY <1>2 DEF RecoverClear, ReconcileRelease, Freeze, Deliver, PostRelease
  <2>2. CASE RecoverClear
    BY <2>2, <2>1, CallKeeps, <1>a, <1>d DEF RecoverClear
  <2>3. CASE ReconcileRelease
    BY <2>3, <2>1, CallKeeps, <1>a, <1>d DEF ReconcileRelease, ReleaseRequest
  <2>4. CASE Freeze
    BY <2>4, <2>1, CallKeeps, <1>a, <1>d DEF Freeze
  <2>5. CASE Deliver
    BY <2>5, <2>1, CallKeeps, <1>a, <1>d DEF Deliver, ReleaseRequest
  <2>6. CASE PostRelease
    BY <2>6, <2>1, CallKeeps, <1>a, <1>d DEF PostRelease, ReleaseRequest
  <2> QED BY <1>2, <2>2, <2>3, <2>4, <2>5, <2>6
<1>3. CASE RecoverClearReturn \/ ClearReturn
  <2>1. Finish("op") /\ pc \in {"recover", "clear"}
    BY <1>3 DEF RecoverClearReturn, ClearReturn
  <2>2. CASE /\ CommitClear(reply["op"].report) /\ ValidReport(reply["op"].report)
             /\ reply["op"].tag = "cleared" /\ pc' \in {"reconcile", "idle", "postRelease"}
    BY <2>1, <2>2, CommitClearKeeps
  <2>3. CASE /\ pendingClear' = NoPendingClear /\ pc' = "idle"
             /\ UNCHANGED <<committed, txn, indeterminate, acked, pendRet, pendClr,
                            nextClearId, history>>
    <3>1. ~pendingClear'.some
      BY <2>3 DEF NoPendingClear
    <3> QED BY <2>1, <2>3, <3>1, <1>a, <1>b, <1>c, <1>e, QuietKeeps
  <2>4. CASE KeepState /\ pc' = "idle"
    <3>1. UNCHANGED <<stateVars, history>>
      BY <2>4 DEF KeepState
    <3> QED BY <2>1, <2>4, <3>1, <1>a, <1>b, <1>c, <1>d, QuietKeeps
  <2> QED BY <1>3, <2>2, <2>3, <2>4 DEF RecoverClearReturn, ClearReturn, ForgetPendingClear, Goto
<1>4. CASE ReconcileReturn \/ PostReleaseReturn
  <2>1. Finish("op") /\ pc \in {"reconcile", "postRelease"} /\ pc' \in {"reconcile", "idle"}
    BY <1>4 DEF ReconcileReturn, PostReleaseReturn, Goto
  <2>2. UNCHANGED <<committed, txn, acked, pendRet, pendClr, nextClearId, pendingClear,
                    indeterminate, history>>
    BY <1>4 DEF ReconcileReturn, PostReleaseReturn, KeepState, DropHeldRelease, stateVars
  <2> QED BY <2>1, <2>2, <1>a, <1>b, <1>c, <1>e, QuietKeeps
<1>5. CASE Reconciled
  <2>1. /\ UNCHANGED arenaVars /\ pc = "reconcile" /\ rpc["op"] = "idle"
        /\ UNCHANGED <<committed, txn, acked, pendRet, pendClr, nextClearId, pendingClear,
                       indeterminate, history>>
    BY <1>5 DEF Reconciled
  <2>2. pc' \in {"resolve", "clear", "idle"} /\ (pc' = "clear" => ~indeterminate)
    BY <1>5 DEF Reconciled, Goto
  <2> QED BY <2>1, <2>2, <1>a, <1>b, <1>c, <1>e, QuietKeeps
<1>6. CASE ResolveComplete \/ PublishWritten \/ PublishSkipped
  <2>1. /\ UNCHANGED arenaVars /\ CommitTransaction /\ txn.some
        /\ pc \in {"publish", "resolve"} /\ pc' = "deliver" /\ ~indeterminate'
    BY <1>6, <1>c DEF ResolveComplete, PublishWritten, PublishSkipped, CommitWritten, Goto
  <2> QED BY <2>1, CommitTransactionKeeps
<1>7. CASE ResolveRolledBack \/ PublishIndeterminate
  <2>1. /\ UNCHANGED arenaVars /\ pc \in {"resolve", "publish"}
        /\ UNCHANGED <<committed, txn, acked, pendRet, pendClr, nextClearId, pendingClear, history>>
        /\ \/ pc' = "freeze" /\ indeterminate' = FALSE
           \/ pc' = "idle" /\ pc = "publish"
    BY <1>7 DEF ResolveRolledBack, PublishIndeterminate, Goto
  <2> QED BY <2>1, <1>a, <1>b, <1>c, <1>e, QuietKeeps
<1>8. CASE FreezeReturn
  <2>1. Finish("op") /\ pc = "freeze"
    BY <1>8 DEF FreezeReturn
  <2>2. CASE UNCHANGED <<stateVars, history>> /\ pc' = "idle"
    BY <2>1, <2>2, <1>a, <1>b, <1>c, <1>d, QuietKeeps
  <2>3. CASE /\ reply["op"].tag = "frozen" /\ pc' = "publish"
             /\ txn' = [some |-> TRUE, desc |-> reply["op"].desc,
                        lost |-> Shortfall(committed, reply["op"].desc.start)]
             /\ UNCHANGED <<committed, pendingClear, indeterminate, acked, pendRet, pendClr,
                            nextClearId, history>>
    BY <2>1, <2>3, <1>a, <1>e, FrozenTransactionKeeps
  <2>4. CASE /\ CommitLosses(0) /\ pc' = "idle"
             /\ UNCHANGED <<committed, txn, pendingClear, indeterminate, nextClearId, exported>>
    BY <2>1, <2>4, <1>a, NothingFrozenKeeps
  <2> QED BY <1>8, <2>2, <2>3, <2>4 DEF FreezeReturn, Goto
<1>9. CASE Finalize
  <2>1. /\ Finish("op") /\ pc = "deliver" /\ pc' = "idle"
        /\ UNCHANGED <<committed, txn, acked, pendRet, pendClr, nextClearId, pendingClear,
                       indeterminate, history>>
    BY <1>9 DEF Finalize, Goto
  <2> QED BY <2>1, <1>a, <1>b, <1>c, <1>e, QuietKeeps
<1>10. CASE Clear
  <2>1. committed' = committed
    BY <1>10 DEF Clear
  <2> QED BY <1>10, <2>1, <1>a, ClearCallKeeps
<1> QED BY <1>1, <1>2, <1>3, <1>4, <1>5, <1>6, <1>7, <1>8, <1>9, <1>10 DEF Coordinator

-----------------------------------------------------------------------------
(***************************************************************************)
(* The theorems.                                                           *)
(***************************************************************************)
\* The empty arena with an idle coordinator satisfies the invariant.
LEMMA InitKeeps == Init => IInv
<1> SUFFICES ASSUME Init PROVE IInv
  OBVIOUS
<1> USE NoValueTypes, StateValueTypes DEF Init, ArenaInit
<1>1. IngressTypeOK /\ LossTypeOK
  BY DEF IngressTypeOK, LossTypeOK
<1>2. RingTypeOK
  BY DEF RingTypeOK, Epochs
<1>3. SlotTypeOK
  <2>1. Answer("none") \in Reply /\ "status" \in RequestKinds
    BY DEF ReplyTags, RequestKinds, CommandKinds
  <2> QED BY <2>1 DEF SlotTypeOK
<1>4. ClientTypeOK
  <2>1. Answer("none") \in Reply
    BY DEF ReplyTags
  <2> QED BY <2>1 DEF ClientTypeOK
<1>5. StateTypeOK /\ HistoryTypeOK
  BY DEF StateTypeOK, HistoryTypeOK, Stages
<1>6. Conservation /\ acked <= dropCum
  BY DEF Conservation
<1>7. RingAtHead
  BY DEF RingAtHead, Epochs
<1>8. CallsMatchStages
  BY DEF CallsMatchStages, Clients, StatusRequest, NoPendingClear
<1>9. OneAnswer /\ RangesOK /\ ReportsOK
  BY DEF OneAnswer, InSlot, InReply, RangesOK, ReportsOK, NoTransaction, NoPendingClear, Clients
<1> QED BY <1>1, <1>2, <1>3, <1>4, <1>5, <1>6, <1>7, <1>8, <1>9
        DEF IInv, TypeOK, ArenaTypeOK, BooksBalance

\* Every step keeps the invariant.
LEMMA NextKeeps == IInv /\ [Next]_vars => IInv'
<1> SUFFICES ASSUME IInv, [Next]_vars PROVE IInv'
  OBVIOUS
<1>1. CASE Coordinator
  BY <1>1, CoordinatorTypes, CoordinatorKeeps DEF IInv
<1>2. CASE ArenaStep
  BY <1>2, ArenaStepKeeps
<1>3. CASE UNCHANGED vars
  <2>1. /\ UNCHANGED <<ingressVars, ringVars, slotVars, clientVars, evicted, discarded>>
        /\ UNCHANGED <<pc, op, stateVars, history>>
    BY <1>3 DEF vars, arenaVars
  <2>2. ArenaTypeOK'
    BY <2>1, UnchangedTypes DEF IInv, TypeOK, ArenaTypeOK
  <2>3. StateTypeOK' /\ HistoryTypeOK'
    BY <2>1 DEF IInv, TypeOK, StateTypeOK, HistoryTypeOK, stateVars, history
  <2>4. /\ UNCHANGED <<slot, kind, cmd, result, lock, recoveredFrozen, recoveredClear, rpc, req, reply>>
        /\ UNCHANGED <<head, active, base, localHead, clearAfter, frozenRec, dropCum>>
        /\ UNCHANGED <<pc, committed, txn, acked, pendRet, pendClr, nextClearId, exported,
                       repRet, repClr, pendingClear, indeterminate>>
    BY <2>1 DEF stateVars, history, slotVars, clientVars, ringVars, ingressVars
  <2>5. /\ Conservation' /\ acked' <= dropCum' /\ RingAtHead' /\ CallsMatchStages' /\ OneAnswer'
    BY <2>4 DEF IInv, BooksBalance, Conservation, RingAtHead, CallsMatchStages, OneAnswer,
       InSlot, InReply
  <2>6. RangesOK' /\ ReportsOK'
    BY <2>4 DEF IInv, BooksBalance, RangesOK, RangeOK, ReportsOK, ReportOK
  <2> QED BY <2>2, <2>3, <2>5, <2>6 DEF IInv, TypeOK, BooksBalance
<1> QED BY <1>1, <1>2, <1>3 DEF Next

\* The invariant holds in every state of every behaviour.
LEMMA InvariantHolds == Spec => []IInv
<1>1. Init => IInv
  BY InitKeeps
<1>2. IInv /\ [Next]_vars => IInv'
  BY NextKeeps
<1> QED BY <1>1, <1>2, PTL DEF Spec

\* Type correctness of the arena and the coordinator: in particular the loss
\* counters of commit_losses and clear never go below zero, whatever the
\* ring, the queue and the order of timeouts and retries.
THEOREM TypeCorrect == Spec => []TypeOK
<1>1. IInv => TypeOK
  BY DEF IInv
<1> QED BY <1>1, InvariantHolds, PTL

\* Frame accounting of persist and clear: every frame behind committed_until
\* is in exactly one of the counts that were reported or are still pending.
THEOREM ConservationHolds == Spec => []Conservation
<1>1. IInv => Conservation
  BY DEF IInv, BooksBalance
<1> QED BY <1>1, InvariantHolds, PTL

\* committed_until never moves back.
THEOREM CursorNeverMovesBack == Spec => CursorMonotone
<1>1. IInv /\ [Next]_vars => [committed' >= committed]_vars
  <2> SUFFICES ASSUME IInv, [Next]_vars PROVE [committed' >= committed]_vars
    OBVIOUS
  <2>1. CASE Coordinator
    BY <2>1, CoordinatorKeeps
  <2>2. CASE ArenaStep
    <3>1. committed' = committed /\ committed \in Nat
      BY <2>2, FieldTypes DEF ArenaStep, stateVars, IInv
    <3> QED BY <3>1
  <2> QED BY <2>1, <2>2 DEF Next
<1> QED BY <1>1, InvariantHolds, PTL DEF Spec, CursorMonotone

-----------------------------------------------------------------------------
(***************************************************************************)
(* Who holds the frozen epoch.                                             *)
(***************************************************************************)
\* A freeze result nobody has read, and one on its way to the coordinator.
Unread    == slot = "done" /\ result.tag = "frozen"
Delivered == rpc["op"] = "done" /\ reply["op"].tag = "frozen"

\* The epoch is in the hand of somebody who may still publish its frames ...
AnyFreeze == Unread \/ recoveredFrozen.some \/ Delivered \/ txn.some

FreezeOf(d) ==
    \/ Unread /\ result.desc = d
    \/ recoveredFrozen.some /\ recoveredFrozen.desc = d
    \/ Delivered /\ reply["op"].desc = d
    \/ txn.some /\ txn.desc = d

\* ... or of somebody who only waits for its release.
AnyRelease == guard.some \/ pendingRelease.some \/ failedRelease.some

ReleaseOf(d) ==
    \/ guard.some /\ guard.desc = d
    \/ pendingRelease.some /\ pendingRelease.desc = d
    \/ failedRelease.some /\ failedRelease.desc = d

\* The worker's record is the epoch that d describes.
Holds(d) == frozenRec.held /\ frozenRec.index = d.index /\ frozenRec.gen = d.gen

\* The worker has released the epoch and the coordinator does not know yet.
ReplyReleased == rpc["op"] = "done" /\ reply["op"].tag = "released"
Answered == (slot = "done" /\ kind = "release") \/ ReplyReleased

\* A clear's report nobody has read, and one on its way to the coordinator.
Unclaimed == slot = "done" /\ result.tag = "cleared"
Reported  == rpc["op"] = "done" /\ reply["op"].tag = "cleared"

\* A client that waits on the slot waits for a command it may take the result of.
WaitOK(c) ==
    /\ rpc[c] = "wait" => slot # "idle" /\ kind = req[c].kind
    /\ rpc[c] = "stale" => /\ slot # "idle"
                           /\ kind = "release" => req[c].kind = "release"
                           /\ req[c].kind = "recover" => kind = "clear"

\* Every result answers the command in the slot.
SlotCoherent ==
    /\ slot = "done" => \/ kind = "freeze" /\ result.tag \in {"frozen", "none"}
                        \/ kind = "release" /\ result.tag = "released"
                        \/ kind = "clear" /\ result.tag = "cleared"
                        \/ kind = "status" /\ result.tag = "status"
    /\ WaitOK("op") /\ WaitOK("st")
    /\ ReplyReleased => req["op"].kind = "release"
    /\ Delivered => req["op"].kind = "freeze"
    /\ Reported => req["op"].kind \in {"clear", "recover"}

\* The three release capabilities exclude each other and every use of the frames.
OneHand ==
    /\ AnyRelease => ~AnyFreeze
    /\ guard.some => ~pendingRelease.some /\ ~failedRelease.some
    /\ pendingRelease.some => ~failedRelease.some
    /\ slot = "ready" /\ kind = "freeze" => ~AnyRelease

\* Every capability is backed by the worker's record, or by the answer that
\* the record is gone; and the worker's record is in somebody's hand.
Backed ==
    /\ \A d \in Descriptor : FreezeOf(d) => Holds(d)
    /\ \A d \in Descriptor : ReleaseOf(d) => Holds(d) \/ Answered
    /\ Answered => ~frozenRec.held /\ AnyRelease
    /\ frozenRec.held => AnyFreeze \/ AnyRelease

\* A release under way names the epoch whose release is outstanding.
ReleaseTracked ==
    /\ slot # "idle" /\ kind = "release" => AnyRelease /\ ~ReplyReleased
    /\ slot = "ready" /\ kind = "release" => ReleaseOf(cmd.call.desc)
    /\ rpc["op"] # "idle" /\ req["op"].kind = "release" => ReleaseOf(req["op"].desc)

\* The capabilities an operation can meet at each stage.
HandsByStage ==
    /\ guard.some <=> pc = "deliver"
    /\ pc = "postRelease" => pendingRelease.some
    /\ pc \in {"resolve", "freeze", "publish", "clear"} =>
         completion = "none" /\ ~pendingRelease.some /\ ~failedRelease.some
    /\ pendingClear.some => ~AnyRelease
    /\ txn.some => ~decision /\ completion = "none"

Custody == SlotCoherent /\ OneHand /\ Backed /\ ReleaseTracked /\ HandsByStage

(***************************************************************************)
(* What a client's step of the mailbox can come to.                        *)
(***************************************************************************)
\* The call fails, finds nothing or times out.
Refuses(c) ==
    /\ rpc'[c] = "done"
    /\ reply'[c].tag \in {"error", "none", "timeout"}
    /\ rpc[c] # "lock" => reply'[c].tag = "timeout"
    /\ reply'[c].tag = "none" => slot = "idle" /\ ~recoveredClear.some
    /\ UNCHANGED <<slot, kind, cmd, result, recoveredFrozen, recoveredClear>>

\* The call returns the result in the slot.
Takes(c) ==
    /\ rpc[c] \in {"stale", "wait"} /\ rpc'[c] = "done"
    /\ slot = "done" /\ slot' = "idle" /\ kind' = "status"
    /\ reply'[c] = result
    /\ kind = req[c].kind \/ (req[c].kind = "recover" /\ kind = "clear")
    /\ UNCHANGED <<recoveredFrozen, recoveredClear>>

\* The call fails and keeps the result it found for the caller it belongs to.
Stores(c) ==
    /\ rpc[c] = "stale" /\ rpc'[c] = "done"
    /\ slot = "done" /\ slot' = "idle" /\ kind' = "status"
    /\ reply'[c].tag = "error"
    /\ \/ /\ result.tag = "frozen"
          /\ recoveredFrozen' = [some |-> TRUE, desc |-> result.desc]
          /\ recoveredClear' = recoveredClear
       \/ /\ result.tag = "cleared"
          /\ recoveredClear' = [some |-> TRUE, report |-> result.report]
          /\ recoveredFrozen' = recoveredFrozen

\* The call returns a result that was kept for it.
HandsOver(c) ==
    /\ c = "op" /\ rpc[c] = "lock" /\ rpc'[c] = "done"
    /\ UNCHANGED <<slot, kind, cmd, result>>
    /\ \/ /\ recoveredFrozen.some /\ ~recoveredFrozen'.some
          /\ reply'[c].tag = "frozen" /\ reply'[c].desc = recoveredFrozen.desc
          /\ req[c].kind = "freeze"
          /\ recoveredClear' = recoveredClear
       \/ /\ recoveredClear.some /\ ~recoveredClear'.some
          /\ reply'[c].tag = "cleared" /\ reply'[c].report = recoveredClear.report
          /\ req[c].kind = "recover"
          /\ recoveredFrozen' = recoveredFrozen

\* The call puts its command in the slot.
Submits(c) ==
    /\ rpc[c] = "stale" \/ (rpc[c] = "lock" /\ lock = "free")
    /\ rpc'[c] = "wait"
    /\ slot' = "ready" /\ kind' = req[c].kind /\ cmd'.call = req[c]
    /\ req[c].kind # "recover"
    /\ reply' = reply /\ recoveredFrozen' = recoveredFrozen
    /\ c = "op" => ~recoveredFrozen.some /\ ~recoveredClear.some
    /\ \/ slot = "idle" /\ recoveredClear' = recoveredClear
       \/ /\ slot = "done" /\ result.tag \notin {"frozen", "cleared"}
          /\ kind # req[c].kind /\ rpc[c] = "stale"
          /\ recoveredClear' = recoveredClear
       \/ /\ slot = "done" /\ result.tag = "cleared" /\ c = "st"
          /\ recoveredClear' = [some |-> TRUE, report |-> result.report]

\* The call waits for the result of an abandoned command.
Awaits(c) ==
    /\ rpc[c] = "lock" /\ rpc'[c] = "stale"
    /\ slot # "idle"
    /\ kind = "release" => req[c].kind = "release"
    /\ req[c].kind = "recover" => kind = "clear"
    /\ UNCHANGED <<slot, kind, cmd, result, recoveredFrozen, recoveredClear, reply>>

Outcome(c) == Refuses(c) \/ Takes(c) \/ Stores(c) \/ HandsOver(c) \/ Submits(c) \/ Awaits(c)

OthersWait(c) ==
    /\ req' = req
    /\ \A d \in Clients \ {c} : rpc'[d] = rpc[d] /\ reply'[d] = reply[d]

\* Every step of the mailbox has one of these outcomes.
LEMMA MailboxOutcomes ==
    ASSUME IInv, SlotCoherent, NEW c \in Clients, Mailbox(c)
    PROVE  Outcome(c) /\ OthersWait(c) /\ rpc[c] \in {"lock", "stale", "wait"}
           /\ UNCHANGED <<ringVars, ingressVars, evicted, discarded>>
<1>a. c = "op" \/ c = "st"
  BY DEF Clients
<1>b. req["st"].kind = "status"
  BY DEF IInv, BooksBalance, CallsMatchStages
<1>c. rpc["op"] # "idle" => req["op"].kind # "status"
  BY OpKinds DEF IInv, BooksBalance
<1>d. \A t \in {"error", "none", "timeout"} : Answer(t).tag = t
  BY DEF Answer
<1>e. EmptySlot => slot' = "idle" /\ kind' = "status"
  BY DEF EmptySlot
<1>f. UNCHANGED slotVars => UNCHANGED <<slot, kind, cmd, result>>
  BY DEF slotVars
<1>g. WaitOK(c)
  BY <1>a DEF SlotCoherent
<1>r. ASSUME NEW r, Return(c, r)
      PROVE  OthersWait(c) /\ rpc'[c] = "done" /\ reply'[c] = r
  BY <1>r, ReturnFacts DEF OthersWait, IInv
<1>s. ASSUME Submit(c)
      PROVE  /\ OthersWait(c) /\ rpc'[c] = "wait" /\ reply' = reply
             /\ slot' = "ready" /\ kind' = req[c].kind /\ cmd'.call = req[c]
  BY <1>s, SubmitFacts DEF OthersWait, IInv
<1>w. ASSUME Await(c)
      PROVE  OthersWait(c) /\ rpc'[c] = "stale" /\ reply' = reply
  BY <1>w, AwaitFacts DEF OthersWait, IInv
<1>1. CASE LockAndRecover(c)
  <2>1. /\ rpc[c] = "lock" /\ req[c].kind # "recover" /\ lock = "free"
        /\ UNCHANGED <<ringVars, ingressVars, evicted, discarded>> /\ recoveredClear' = recoveredClear
    BY <1>1 DEF LockAndRecover
  <2>2. CASE /\ Return(c, Answer("error"))
             /\ UNCHANGED <<slotVars, recoveredFrozen>>
    <3>1. Refuses(c)
      BY <2>1, <2>2, <1>d, <1>f, <1>r DEF Refuses
    <3> QED BY <2>1, <2>2, <3>1, <1>r DEF Outcome
  <2>3. CASE /\ ~Refused(req[c].kind) /\ recoveredFrozen.some
             /\ Return(c, [tag |-> "frozen", desc |-> recoveredFrozen.desc, report |-> NoReport])
             /\ recoveredFrozen' = [some |-> FALSE, desc |-> NoDescriptor]
             /\ UNCHANGED slotVars
    <3>1. req[c].kind = "freeze" /\ c = "op"
      BY <2>3, <1>a, <1>b DEF Refused
    <3>2. reply'[c].tag = "frozen" /\ reply'[c].desc = recoveredFrozen.desc /\ rpc'[c] = "done"
          /\ OthersWait(c)
      BY <2>3, <1>r
    <3>3. HandsOver(c)
      BY <2>1, <2>3, <3>1, <3>2, <1>f DEF HandsOver
    <3> QED BY <2>1, <3>2, <3>3 DEF Outcome
  <2>4. CASE /\ ~Refused(req[c].kind) /\ ~recoveredFrozen.some /\ slot = "idle"
             /\ Submit(c)
             /\ UNCHANGED recoveredFrozen
    <3>1. c = "op" => ~recoveredClear.some
      BY <2>1, <2>4, <1>c DEF Refused
    <3>2. Submits(c)
      BY <2>1, <2>4, <3>1, <1>s DEF Submits
    <3> QED BY <2>1, <2>4, <3>2, <1>s DEF Outcome
  <2>5. CASE /\ ~Refused(req[c].kind) /\ ~recoveredFrozen.some /\ slot # "idle"
             /\ Await(c)
             /\ UNCHANGED <<slotVars, recoveredFrozen>>
    <3>1. Awaits(c)
      BY <2>1, <2>5, <1>f, <1>w DEF Awaits, Refused
    <3> QED BY <2>1, <2>5, <3>1, <1>w DEF Outcome
  <2> QED BY <1>1, <2>2, <2>3, <2>4, <2>5 DEF LockAndRecover
<1>2. CASE LockAndRecoverClear(c)
  <2>1. /\ rpc[c] = "lock" /\ req[c].kind = "recover" /\ lock = "free"
        /\ UNCHANGED <<ringVars, ingressVars, evicted, discarded, slotVars, recoveredFrozen>>
    BY <1>2 DEF LockAndRecoverClear
  <2>2. c = "op"
    BY <2>1, <1>a, <1>b
  <2>3. CASE /\ \/ Return(c, Answer("error"))
                \/ Return(c, Answer("none")) /\ slot = "idle" /\ ~recoveredClear.some
             /\ UNCHANGED recoveredClear
    <3>1. Refuses(c)
      BY <2>1, <2>3, <1>d, <1>f, <1>r DEF Refuses
    <3> QED BY <2>1, <2>3, <3>1, <1>r DEF Outcome
  <2>4. CASE /\ recoveredClear.some
             /\ Return(c, [tag |-> "cleared", desc |-> NoDescriptor, report |-> recoveredClear.report])
             /\ recoveredClear' = [some |-> FALSE, report |-> NoReport]
    <3>2. reply'[c].tag = "cleared" /\ reply'[c].report = recoveredClear.report /\ rpc'[c] = "done"
          /\ OthersWait(c)
      BY <2>4, <1>r
    <3>3. HandsOver(c)
      BY <2>1, <2>2, <2>4, <3>2, <1>f DEF HandsOver
    <3> QED BY <2>1, <3>2, <3>3 DEF Outcome
  <2>5. CASE Await(c) /\ UNCHANGED recoveredClear /\ slot # "idle" /\ kind = "clear"
    <3>1. Awaits(c)
      BY <2>1, <2>5, <1>f, <1>w DEF Awaits
    <3> QED BY <2>1, <2>5, <3>1, <1>w DEF Outcome
  <2> QED BY <1>2, <2>3, <2>4, <2>5 DEF LockAndRecoverClear
<1>3. CASE LockTimeout(c)
  <2>1. /\ rpc[c] = "lock" /\ UNCHANGED <<ringVars, ingressVars, evicted, discarded>>
        /\ UNCHANGED <<slot, kind, cmd, result, recoveredFrozen, recoveredClear>>
    BY <1>3, <1>f DEF LockTimeout
  <2>2. /\ rpc'[c] = "done" /\ reply'[c] = Answer("timeout") /\ OthersWait(c)
    BY <1>3 DEF LockTimeout, OthersWait, IInv, TypeOK, ArenaTypeOK, ClientTypeOK
  <2>3. Refuses(c)
    BY <2>1, <2>2, <1>d DEF Refuses
  <2> QED BY <2>1, <2>2, <2>3 DEF Outcome
<1>4. CASE TakeStale(c)
  <2>1. /\ rpc[c] = "stale" /\ slot = "done"
        /\ UNCHANGED <<ringVars, ingressVars, evicted, discarded>>
    BY <1>4 DEF TakeStale
  <2>k. kind = "clear" <=> result.tag = "cleared"
    BY <2>1 DEF SlotCoherent
  <2>f. result.tag = "frozen" => kind = "freeze"
    BY <2>1 DEF SlotCoherent
  <2>q. req[c].kind = "recover" => kind = "clear"
    BY <2>1, <1>g DEF WaitOK
  <2>3. CASE /\ Return(c, result) /\ EmptySlot
             /\ kind = req[c].kind \/ (req[c].kind = "recover" /\ kind = "clear")
             /\ UNCHANGED <<recoveredFrozen, recoveredClear>>
    <3>1. Takes(c)
      BY <2>1, <2>3, <1>e, <1>r DEF Takes
    <3> QED BY <2>1, <2>3, <3>1, <1>r DEF Outcome
  <2>4. CASE /\ Return(c, Answer("error")) /\ EmptySlot
             /\ result.tag = "cleared"
             /\ recoveredClear' = [some |-> TRUE, report |-> result.report]
             /\ UNCHANGED recoveredFrozen
    <3>1. Stores(c)
      BY <2>1, <2>4, <1>d, <1>e, <1>r DEF Stores
    <3> QED BY <2>1, <2>4, <3>1, <1>r DEF Outcome
  <2>5. CASE /\ Return(c, Answer("error")) /\ EmptySlot
             /\ result.tag = "frozen"
             /\ recoveredFrozen' = [some |-> TRUE, desc |-> result.desc]
             /\ UNCHANGED recoveredClear
    <3>1. Stores(c)
      BY <2>1, <2>5, <1>d, <1>e, <1>r DEF Stores
    <3> QED BY <2>1, <2>5, <3>1, <1>r DEF Outcome
  <2>6. CASE /\ Submit(c) /\ req[c].kind = "status" /\ result.tag = "cleared"
             /\ recoveredClear' = [some |-> TRUE, report |-> result.report]
             /\ UNCHANGED recoveredFrozen
    <3>1. c = "st"
      BY <2>1, <2>6, <1>a, <1>c
    <3>2. Submits(c)
      BY <2>1, <2>6, <3>1, <1>s DEF Submits
    <3> QED BY <2>1, <2>6, <3>2, <1>s DEF Outcome
  <2>7. CASE /\ Submit(c) /\ req[c].kind # "recover"
             /\ result.tag \notin {"frozen", "cleared"} /\ kind # req[c].kind
             /\ UNCHANGED <<recoveredFrozen, recoveredClear>>
    <3>1. c = "op" => ~recoveredFrozen.some /\ ~recoveredClear.some
      BY <2>1, <2>7 DEF IInv, BooksBalance, CallsMatchStages
    <3>2. Submits(c)
      BY <2>1, <2>7, <3>1, <1>s DEF Submits
    <3> QED BY <2>1, <2>7, <3>2, <1>s DEF Outcome
  <2> QED BY <1>4, <2>k, <2>f, <2>q, <2>3, <2>4, <2>5, <2>6, <2>7 DEF TakeStale
<1>5. CASE TakeResult(c)
  <2>1. /\ rpc[c] = "wait" /\ slot = "done" /\ EmptySlot /\ Return(c, result)
        /\ UNCHANGED <<ringVars, ingressVars, evicted, discarded, recoveredFrozen, recoveredClear>>
    BY <1>5 DEF TakeResult
  <2>2. Takes(c)
    BY <2>1, <1>e, <1>g, <1>r DEF Takes, WaitOK
  <2> QED BY <2>1, <2>2, <1>r DEF Outcome
<1>6. CASE ResultTimeout(c)
  <2>1. /\ rpc[c] \in {"stale", "wait"} /\ Return(c, Answer("timeout"))
        /\ UNCHANGED <<ringVars, ingressVars, evicted, discarded>> /\ UNCHANGED <<slot, kind, cmd, result>>
        /\ recoveredFrozen' = recoveredFrozen /\ recoveredClear' = recoveredClear
    BY <1>6 DEF ResultTimeout
  <2>2. Refuses(c)
    BY <2>1, <1>d, <1>r DEF Refuses
  <2> QED BY <2>1, <2>2, <1>r DEF Outcome
<1> QED BY <1>1, <1>2, <1>3, <1>4, <1>5, <1>6 DEF Mailbox

ReportOf(r) ==
    \/ Unclaimed /\ result.report = r
    \/ recoveredClear.some /\ recoveredClear.report = r
    \/ Reported /\ reply["op"].report = r

AnyReport == Unclaimed \/ recoveredClear.some \/ Reported

\* A step of the mailbox moves an answer from hand to hand: no timeout, refusal
\* or recovery loses one or makes a second one of it.
AnswersMove ==
    /\ \A d : FreezeOf(d)' <=> FreezeOf(d)
    /\ \A r : ReportOf(r)' <=> ReportOf(r)
    /\ AnyFreeze' <=> AnyFreeze
    /\ AnyReport' <=> AnyReport
    /\ Answered' <=> Answered

\* Every step of the mailbox is such a move.
LEMMA MailboxMoves ==
    ASSUME IInv, SlotCoherent, NEW c \in Clients, Mailbox(c), CoordinatorIdle
    PROVE  AnswersMove
<1>1. /\ Outcome(c) /\ OthersWait(c) /\ rpc[c] \in {"lock", "stale", "wait"}
  BY MailboxOutcomes
<1>2. txn' = txn
  BY DEF CoordinatorIdle, stateVars
<1>3. "op" \in Clients /\ "st" \in Clients /\ (c = "op" \/ c = "st")
  BY DEF Clients
<1>4. OneAnswer /\ req["st"].kind = "status" /\ WaitOK(c)
  BY <1>3 DEF IInv, BooksBalance, CallsMatchStages, SlotCoherent
<1>5. c = "st" => rpc'["op"] = rpc["op"] /\ reply'["op"] = reply["op"]
  BY <1>1, <1>3 DEF OthersWait
<1>6. c = "op" => ~Delivered /\ ~Reported /\ ~ReplyReleased
  BY <1>1 DEF Delivered, Reported, ReplyReleased
<1> USE DEF FreezeOf, ReportOf, AnyFreeze, AnyReport, Unread, Delivered, Unclaimed,
            Reported, ReplyReleased, Answered, AnswersMove
<1>7. CASE Refuses(c)
  BY <1>2, <1>3, <1>5, <1>6, <1>7 DEF Refuses
<1>8. CASE Takes(c)
  <2>1. CASE c = "op"
    <3>1. slot = "done" => (kind = "release" <=> result.tag = "released")
      BY DEF SlotCoherent
    <3> QED BY <1>2, <1>6, <1>8, <2>1, <3>1 DEF Takes
  <2>2. CASE c = "st"
    <3>1. kind = "status" /\ result.tag = "status"
      BY <1>4, <1>8, <2>2 DEF Takes, SlotCoherent
    <3> QED BY <1>2, <1>5, <1>8, <2>2, <3>1 DEF Takes
  <2> QED BY <1>3, <2>1, <2>2
<1>9. CASE Stores(c)
  <2>1. kind # "release" /\ ~recoveredFrozen.some /\ ~recoveredClear.some
    BY <1>4, <1>9 DEF Stores, SlotCoherent, OneAnswer, InSlot
  <2>2. c = "op" => ~Delivered' /\ ~Reported' /\ ~ReplyReleased'
    BY <1>9 DEF Stores
  <2> QED BY <1>2, <1>3, <1>5, <1>6, <1>9, <2>1, <2>2 DEF Stores
<1>10. CASE HandsOver(c)
  BY <1>2, <1>4, <1>6, <1>10 DEF HandsOver
<1>11. CASE Submits(c)
  <2>1. ~Unread /\ ~Unread' /\ ~Unclaimed' /\ ~(slot = "done" /\ kind = "release") /\ slot' # "done"
    BY <1>4, <1>11 DEF Submits, SlotCoherent, WaitOK
  <2>2. c = "op" => ~Delivered' /\ ~Reported' /\ ~ReplyReleased'
    BY <1>11 DEF Submits
  <2>3. CASE recoveredClear' = recoveredClear /\ ~Unclaimed
    BY <1>2, <1>3, <1>5, <1>6, <1>11, <2>1, <2>2, <2>3 DEF Submits
  <2>4. CASE /\ Unclaimed /\ c = "st"
             /\ recoveredClear' = [some |-> TRUE, report |-> result.report]
    <3>1. ~recoveredClear.some
      BY <1>4, <2>4 DEF OneAnswer, InSlot
    <3> QED BY <1>2, <1>5, <1>11, <2>1, <2>4, <3>1 DEF Submits
  <2> QED BY <1>11, <2>3, <2>4 DEF Submits
<1>12. CASE Awaits(c)
  <2>1. c = "op" => ~Delivered' /\ ~Reported' /\ ~ReplyReleased'
    BY <1>12 DEF Awaits
  <2> QED BY <1>2, <1>3, <1>5, <1>6, <1>12, <2>1 DEF Awaits
<1> QED BY <1>1, <1>7, <1>8, <1>9, <1>10, <1>11, <1>12 DEF Outcome

\* Every step of the mailbox keeps the custody of the frozen epoch.
LEMMA MailboxCustody ==
    ASSUME IInv, Custody, NEW c \in Clients, Mailbox(c), CoordinatorIdle
    PROVE  Custody'
<1>0. SlotCoherent /\ OneHand /\ Backed /\ ReleaseTracked /\ HandsByStage
  BY DEF Custody
<1>1. /\ Outcome(c) /\ OthersWait(c) /\ rpc[c] \in {"lock", "stale", "wait"}
      /\ UNCHANGED ringVars
  BY <1>0, MailboxOutcomes
<1>m. AnswersMove
  BY <1>0, MailboxMoves
<1>2. UNCHANGED <<pc, txn, guard, pendingRelease, failedRelease, completion, decision,
                  pendingClear, frozenRec>>
  BY <1>1 DEF CoordinatorIdle, stateVars, ringVars
<1>3. "op" \in Clients /\ "st" \in Clients /\ (c = "op" \/ c = "st") /\ req' = req
  BY <1>1 DEF Clients, OthersWait
<1>4. OneAnswer /\ req["st"].kind = "status" /\ CallsMatchStages
  BY DEF IInv, BooksBalance, CallsMatchStages
<1>5. /\ c = "st" => rpc'["op"] = rpc["op"] /\ reply'["op"] = reply["op"]
      /\ c = "op" => rpc'["st"] = rpc["st"]
  BY <1>1, <1>3 DEF OthersWait
<1>6. (AnyRelease' <=> AnyRelease) /\ (\A d : ReleaseOf(d)' <=> ReleaseOf(d))
      /\ (\A d : Holds(d)' <=> Holds(d))
  BY <1>2 DEF AnyRelease, ReleaseOf, Holds
<1>l. \A d \in Clients : rpc[d] \in {"stale", "wait"} => lock = d
  BY <1>4 DEF CallsMatchStages
<1>7. HandsByStage'
  BY <1>0, <1>2, <1>6 DEF HandsByStage
<1>8. Backed'
  BY <1>0, <1>2, <1>6, <1>m DEF Backed, AnswersMove
<1>9. OneHand'
  <2>1. slot' = "ready" /\ kind' = "freeze" /\ ~(slot = "ready" /\ kind = "freeze") =>
           c = "op" /\ req["op"].kind = "freeze"
    BY <1>1, <1>3, <1>4 DEF Outcome, Refuses, Takes, Stores, HandsOver, Submits, Awaits
  <2>2. c = "op" /\ req["op"].kind = "freeze" => pc = "freeze"
    BY <1>1, <1>4 DEF CallsMatchStages
  <2>3. pc = "freeze" => ~AnyRelease
    BY <1>0 DEF HandsByStage, AnyRelease
  <2> QED BY <1>0, <1>2, <1>6, <1>m, <2>1, <2>2, <2>3 DEF OneHand, AnswersMove
<1>10. SlotCoherent'
  <2> USE DEF WaitOK, Outcome, Refuses, Takes, Stores, HandsOver, Submits, Awaits
  <2>1. slot' = "done" => UNCHANGED <<slot, kind, result>>
    BY <1>1
  <2>2. WaitOK("op")'
    BY <1>0, <1>1, <1>3, <1>5, <1>l DEF SlotCoherent
  <2>3. WaitOK("st")'
    BY <1>0, <1>1, <1>3, <1>5, <1>l DEF SlotCoherent
  <2>4. /\ (ReplyReleased => req["op"].kind = "release")' /\ (Delivered => req["op"].kind = "freeze")'
        /\ (Reported => req["op"].kind \in {"clear", "recover"})'
    BY <1>0, <1>1, <1>3, <1>5 DEF SlotCoherent, ReplyReleased, Delivered, Reported
  <2> QED BY <1>0, <2>1, <2>2, <2>3, <2>4 DEF SlotCoherent
<1>11. ReleaseTracked'
  <2>0. \/ AnyRelease /\ ~ReplyReleased /\ ReleaseOf(req["op"].desc)
        \/ ~(rpc["op"] # "idle" /\ req["op"].kind = "release")
        \/ c = "st"
    BY <1>0, <1>1, <1>3 DEF ReleaseTracked, AnyRelease, ReleaseOf, ReplyReleased
  <2> USE DEF Outcome, Refuses, Takes, Stores, HandsOver, Submits, Awaits
  <2>1. slot' # "idle" /\ kind' = "release" =>
           \/ UNCHANGED <<slot, kind, cmd>>
           \/ c = "op" /\ slot' = "ready" /\ req["op"].kind = "release" /\ cmd'.call = req["op"]
    BY <1>1, <1>3, <1>4
  <2>2. ReplyReleased' => ReplyReleased \/ slot' = "idle"
    BY <1>1, <1>3, <1>5 DEF ReplyReleased
  <2>4. ReplyReleased' /\ slot' = "ready" => ReplyReleased
    BY <1>1, <1>3, <1>5 DEF ReplyReleased
  <2>5. rpc'["op"] # "idle" => rpc["op"] # "idle"
    BY <1>1, <1>3, <1>5
  <2> HIDE DEF Outcome, Refuses, Takes, Stores, HandsOver, Submits, Awaits
  <2> QED BY <1>0, <1>1, <1>3, <1>6, <2>0, <2>1, <2>2, <2>4, <2>5 DEF ReleaseTracked
<1> QED BY <1>7, <1>8, <1>9, <1>10, <1>11 DEF Custody

\* What custody depends on, besides the operation worker's call.
custodyVars == <<slot, kind, result, cmd, recoveredFrozen, recoveredClear, frozenRec, txn, guard,
                 pendingRelease, failedRelease, pc, completion, decision, pendingClear>>

\* A step that leaves these alone keeps custody.
LEMMA CustodyFrame ==
    ASSUME Custody, UNCHANGED custodyVars, rpc'["op"] = rpc["op"], reply'["op"] = reply["op"],
           req'["op"] = req["op"], WaitOK("st")'
    PROVE  Custody' /\ AnswersMove
<1>1. UNCHANGED <<slot, kind, result, cmd, recoveredFrozen, recoveredClear, frozenRec, txn, guard,
                  pendingRelease, failedRelease, pc, completion, decision, pendingClear>>
  BY DEF custodyVars
<1>2. AnswersMove
  BY <1>1 DEF AnswersMove, FreezeOf, ReportOf, AnyFreeze, AnyReport, Unread, Delivered,
     Unclaimed, Reported, Answered, ReplyReleased
<1>3. /\ (AnyRelease' <=> AnyRelease) /\ (\A d : ReleaseOf(d)' <=> ReleaseOf(d))
      /\ (\A d : Holds(d)' <=> Holds(d)) /\ (ReplyReleased' <=> ReplyReleased)
      /\ (Delivered' <=> Delivered) /\ (Reported' <=> Reported)
  BY <1>1 DEF AnyRelease, ReleaseOf, Holds, ReplyReleased, Delivered, Reported
<1>4. SlotCoherent'
  BY <1>1, <1>3 DEF Custody, SlotCoherent, WaitOK
<1>5. OneHand' /\ HandsByStage' /\ ReleaseTracked'
  BY <1>1, <1>2, <1>3 DEF Custody, OneHand, HandsByStage, ReleaseTracked, AnswersMove
<1>6. Backed'
  BY <1>1, <1>2, <1>3 DEF Custody, Backed, AnswersMove
<1> QED BY <1>2, <1>4, <1>5, <1>6 DEF Custody

\* The descriptor a freeze of the active range returns.
FrozenNow == [index |-> active, gen |-> nextGen + 1, base |-> base[active],
              start |-> Larger(cmd.call.committed, ActiveStart), end |-> ActiveEnd]

\* A freeze meets no frozen epoch: it is never rejected, and the range it
\* freezes, if any, is the only one.
LEMMA FreezeFacts ==
    ASSUME IInv, Custody, ProcessFreeze, CoordinatorIdle
    PROVE  /\ ~frozenRec.held /\ ~AnyFreeze /\ ~AnyRelease
           /\ slot' = "done" /\ kind' = "freeze" /\ kind = "freeze" /\ slot = "ready"
           /\ FrozenNow \in Descriptor
           /\ \/ /\ FrozenNow.start < FrozenNow.end
                 /\ result'.tag = "frozen" /\ result'.desc = FrozenNow
                 /\ frozenRec' = [held |-> TRUE, index |-> active, gen |-> nextGen + 1]
                 /\ AnyFreeze' /\ \A d : FreezeOf(d)' <=> d = FrozenNow
              \/ /\ ~(FrozenNow.start < FrozenNow.end)
                 /\ result'.tag = "none" /\ frozenRec' = frozenRec
                 /\ ~AnyFreeze' /\ \A d : ~FreezeOf(d)'
           /\ \A r : ReportOf(r)' <=> ReportOf(r)
           /\ AnyReport' <=> AnyReport
           /\ ~Answered /\ ~Answered'
<1>1. slot = "ready" /\ kind = "freeze" /\ slot' = "done" /\ kind' = kind
  BY DEF ProcessFreeze, Take, Publish
<1>2. UNCHANGED <<rpc, req, reply, recoveredFrozen, recoveredClear, txn>>
  BY DEF ProcessFreeze, clientVars, CoordinatorIdle, stateVars
<1>3. ~AnyFreeze /\ ~AnyRelease /\ ~frozenRec.held
  <2>1. ~AnyFreeze
    BY <1>1 DEF IInv, BooksBalance, OneAnswer, InSlot, InReply, AnyFreeze, Unread, Delivered
  <2>2. ~AnyRelease
    BY <1>1 DEF Custody, OneHand
  <2> QED BY <2>1, <2>2 DEF Custody, Backed
<1>4. ~Answered /\ ~Answered'
  BY <1>1, <1>2, <1>3 DEF Custody, Backed, Answered, ReplyReleased
<1>5. FrozenNow \in Descriptor
  <2>1. active \in Epochs /\ base[active] \in Nat /\ nextGen \in Nat /\ cmd.call.committed \in Nat
    BY FieldTypes DEF IInv, TypeOK, ArenaTypeOK, RingTypeOK
  <2>2. ActiveStart \in Nat /\ ActiveEnd \in Nat
    BY ActiveTypes DEF IInv, TypeOK
  <2>3. Larger(cmd.call.committed, ActiveStart) \in Nat
    BY <2>1, <2>2 DEF Larger
  <2> QED BY <2>1, <2>2, <2>3 DEF FrozenNow, Descriptor
<1>6. result' = IF FrozenNow.start < FrozenNow.end
                  THEN [tag |-> "frozen", report |-> NoReport, desc |-> FrozenNow]
                  ELSE Answer("none")
  BY <1>3 DEF ProcessFreeze, Publish, FrozenNow
<1>7. frozenRec' = IF FrozenNow.start < FrozenNow.end
                     THEN [held |-> TRUE, index |-> active, gen |-> nextGen + 1] ELSE frozenRec
  BY <1>3 DEF ProcessFreeze, FrozenNow
<1>8. (\A r : ReportOf(r)' <=> ReportOf(r)) /\ (AnyReport' <=> AnyReport)
  BY <1>1, <1>2, <1>6 DEF ReportOf, AnyReport, Unclaimed, Reported, Answer
<1>9. CASE FrozenNow.start < FrozenNow.end
  <2>1. result'.tag = "frozen" /\ result'.desc = FrozenNow
    BY <1>6, <1>9
  <2>2. AnyFreeze' /\ \A d : FreezeOf(d)' <=> d = FrozenNow
    BY <1>1, <1>2, <1>3, <2>1 DEF AnyFreeze, FreezeOf, Unread, Delivered
  <2> QED BY <1>1, <1>3, <1>4, <1>5, <1>7, <1>8, <1>9, <2>1, <2>2
<1>10. CASE ~(FrozenNow.start < FrozenNow.end)
  <2>1. result'.tag = "none"
    BY <1>6, <1>10 DEF Answer
  <2>2. ~AnyFreeze' /\ \A d : ~FreezeOf(d)'
    BY <1>1, <1>2, <1>3, <2>1 DEF AnyFreeze, FreezeOf, Unread, Delivered
  <2> QED BY <1>1, <1>3, <1>4, <1>5, <1>7, <1>8, <1>10, <2>1, <2>2
<1> QED BY <1>9, <1>10

\* A freeze puts the new epoch in the hand of whoever reads its result.
LEMMA FreezeCustody ==
    ASSUME IInv, Custody, ProcessFreeze, CoordinatorIdle
    PROVE  Custody'
<1>1. UNCHANGED <<rpc, req, reply, pc, txn, guard, pendingRelease, failedRelease, completion,
                  decision, pendingClear>>
  BY DEF ProcessFreeze, clientVars, CoordinatorIdle, stateVars
<1>2. ~AnyRelease' /\ \A d : ~ReleaseOf(d)'
  BY <1>1, FreezeFacts DEF AnyRelease, ReleaseOf
<1>3. SlotCoherent'
  BY <1>1, FreezeFacts DEF Custody, SlotCoherent, WaitOK, ReplyReleased, Delivered, Reported
<1>4. OneHand'
  BY <1>2, FreezeFacts DEF OneHand, AnyRelease
<1>5. Backed'
  <2>1. frozenRec'.held => AnyFreeze'
    BY FreezeFacts
  <2>2. ASSUME NEW d \in Descriptor, FreezeOf(d)' PROVE Holds(d)'
    <3>1. d = FrozenNow /\ frozenRec' = [held |-> TRUE, index |-> active, gen |-> nextGen + 1]
      BY <2>2, FreezeFacts
    <3>2. frozenRec'.held /\ frozenRec'.index = active /\ frozenRec'.gen = nextGen + 1
      BY <3>1
    <3>3. FrozenNow.index = active /\ FrozenNow.gen = nextGen + 1
      BY DEF FrozenNow
    <3> QED BY <3>1, <3>2, <3>3 DEF Holds
  <2>3. ~Answered'
    BY FreezeFacts
  <2> QED BY <1>2, <2>1, <2>2, <2>3 DEF Backed
<1>6. ReleaseTracked'
  BY <1>1, <1>2, FreezeFacts DEF Custody, ReleaseTracked, ReleaseOf
<1>7. HandsByStage'
  BY <1>1 DEF Custody, HandsByStage, AnyRelease
<1> QED BY <1>3, <1>4, <1>5, <1>6, <1>7 DEF Custody

\* A release names the epoch the worker holds: it is never rejected, and from
\* then on the release counts as answered.
LEMMA ReleaseFacts ==
    ASSUME IInv, Custody, ProcessRelease, CoordinatorIdle
    PROVE  /\ Holds(cmd.call.desc) /\ AnyRelease /\ ~AnyFreeze
           /\ slot = "ready" /\ slot' = "done" /\ kind = "release" /\ kind' = "release"
           /\ result'.tag = "released"
           /\ frozenRec' = [frozenRec EXCEPT !.held = FALSE] /\ ~frozenRec'.held
           /\ localHead' = [localHead EXCEPT ![cmd.call.desc.index] = 0]
           /\ clearAfter' = [clearAfter EXCEPT ![cmd.call.desc.index] = 0]
           /\ UNCHANGED <<head, active, base, mem, nextGen>>
           /\ \A d : FreezeOf(d)' <=> FreezeOf(d)
           /\ \A r : ReportOf(r)' <=> ReportOf(r)
           /\ AnyFreeze' <=> AnyFreeze
           /\ AnyReport' <=> AnyReport
<1>1. slot = "ready" /\ kind = "release" /\ slot' = "done" /\ kind' = kind
  BY DEF ProcessRelease, Take, Publish
<1>2. UNCHANGED <<rpc, req, reply, recoveredFrozen, recoveredClear, txn>>
  BY DEF ProcessRelease, clientVars, CoordinatorIdle, stateVars
<1>3. AnyRelease /\ ~AnyFreeze /\ ~Answered
  BY <1>1 DEF Custody, OneHand, ReleaseTracked, Answered
<1>4. Holds(cmd.call.desc)
  <2>1. cmd.call.desc \in Descriptor
    BY DEF IInv, TypeOK, ArenaTypeOK, SlotTypeOK, Request
  <2> QED BY <1>1, <1>3, <2>1 DEF Custody, ReleaseTracked, Backed
<1>5. /\ result' = Answer("released")
      /\ frozenRec' = [frozenRec EXCEPT !.held = FALSE]
      /\ localHead' = [localHead EXCEPT ![cmd.call.desc.index] = 0]
      /\ clearAfter' = [clearAfter EXCEPT ![cmd.call.desc.index] = 0]
      /\ UNCHANGED <<head, active, base, mem, nextGen>>
  BY <1>4 DEF ProcessRelease, Publish, Holds
<1>6. ~frozenRec'.held /\ result'.tag = "released"
  BY <1>5 DEF IInv, TypeOK, ArenaTypeOK, RingTypeOK, Answer
<1>7. /\ \A d : FreezeOf(d)' <=> FreezeOf(d)
      /\ \A r : ReportOf(r)' <=> ReportOf(r)
      /\ (AnyFreeze' <=> AnyFreeze) /\ (AnyReport' <=> AnyReport)
  BY <1>1, <1>2, <1>6 DEF FreezeOf, ReportOf, AnyFreeze, AnyReport, Unread, Delivered, Unclaimed,
     Reported
<1> QED BY <1>1, <1>3, <1>4, <1>5, <1>6, <1>7

\* A release leaves the capability with its holder until the answer is read.
LEMMA ReleaseCustody ==
    ASSUME IInv, Custody, ProcessRelease, CoordinatorIdle
    PROVE  Custody'
<1>1. UNCHANGED <<rpc, req, reply, cmd, pc, txn, guard, pendingRelease, failedRelease, completion,
                  decision, pendingClear>>
  BY DEF ProcessRelease, Publish, clientVars, CoordinatorIdle, stateVars
<1>2. (AnyRelease' <=> AnyRelease) /\ (\A d : ReleaseOf(d)' <=> ReleaseOf(d))
      /\ (ReplyReleased' <=> ReplyReleased)
  BY <1>1 DEF AnyRelease, ReleaseOf, ReplyReleased
<1>3. SlotCoherent'
  BY <1>1, ReleaseFacts DEF Custody, SlotCoherent, WaitOK, ReplyReleased, Delivered, Reported
<1>4. OneHand'
  BY <1>1, <1>2, ReleaseFacts DEF Custody, OneHand
<1>5. Backed'
  BY <1>2, ReleaseFacts DEF Backed, Answered, AnyFreeze, FreezeOf
<1>6. ReleaseTracked'
  BY <1>1, <1>2, ReleaseFacts DEF Custody, ReleaseTracked
<1>7. HandsByStage'
  BY <1>1 DEF Custody, HandsByStage, AnyRelease
<1> QED BY <1>3, <1>4, <1>5, <1>6, <1>7 DEF Custody

\* Clear and status answer in the slot and touch no capability.
LEMMA AnswerCustody ==
    ASSUME IInv, Custody, ProcessClear \/ ProcessStatus, CoordinatorIdle
    PROVE  /\ Custody'
           /\ \A d : FreezeOf(d)' <=> FreezeOf(d)
           /\ AnyFreeze' <=> AnyFreeze
<1>1. /\ slot = "ready" /\ slot' = "done" /\ kind' = kind
      /\ \/ kind = "clear" /\ result'.tag = "cleared"
         \/ kind = "status" /\ result'.tag = "status"
  BY DEF ProcessClear, ProcessStatus, Take, Publish, Answer
<1>2. UNCHANGED <<rpc, req, reply, cmd, recoveredFrozen, recoveredClear, frozenRec>>
  BY DEF ProcessClear, ProcessStatus, Publish, clientVars, ringVars
<1>3. UNCHANGED <<pc, txn, guard, pendingRelease, failedRelease, completion, decision,
                  pendingClear>>
  BY DEF CoordinatorIdle, stateVars
<1>4. /\ (AnyRelease' <=> AnyRelease) /\ (\A d : ReleaseOf(d)' <=> ReleaseOf(d))
      /\ (\A d : Holds(d)' <=> Holds(d)) /\ (ReplyReleased' <=> ReplyReleased)
      /\ (Delivered' <=> Delivered) /\ (Answered' <=> Answered)
      /\ (\A d : FreezeOf(d)' <=> FreezeOf(d)) /\ (AnyFreeze' <=> AnyFreeze)
  BY <1>1, <1>2, <1>3 DEF AnyRelease, ReleaseOf, Holds, ReplyReleased, Delivered, Answered,
     FreezeOf, AnyFreeze, Unread
<1>5. SlotCoherent'
  BY <1>1, <1>2, <1>4 DEF Custody, SlotCoherent, WaitOK, Reported
<1>6. OneHand' /\ HandsByStage' /\ ReleaseTracked'
  BY <1>1, <1>2, <1>3, <1>4 DEF Custody, OneHand, HandsByStage, ReleaseTracked
<1>7. Backed'
  BY <1>2, <1>4 DEF Custody, Backed
<1> QED BY <1>4, <1>5, <1>6, <1>7 DEF Custody

\* A step of the producer, of a consumed frame or of a status caller leaves every
\* answer and every capability where it is.
LEMMA BystanderCustody ==
    ASSUME IInv, Custody, CoordinatorIdle,
           Push \/ DropCumulative \/ DropIngress \/ Consume \/ StatusCall \/ StatusDone
    PROVE  Custody' /\ AnswersMove
<1>0. "op" \in Clients /\ "st" \in Clients
  BY DEF Clients
<1>1. UNCHANGED <<slot, kind, result, cmd, recoveredFrozen, recoveredClear, frozenRec>>
  BY DEF Push, DropCumulative, DropIngress, Consume, StatusCall, StatusDone, Call, Finish,
     ringVars, slotVars, clientVars
<1>2. UNCHANGED custodyVars
  BY <1>1 DEF CoordinatorIdle, stateVars, custodyVars
<1>3. /\ rpc'["op"] = rpc["op"] /\ reply'["op"] = reply["op"] /\ req'["op"] = req["op"]
      /\ \/ rpc'["st"] = rpc["st"] /\ req'["st"] = req["st"]
         \/ rpc'["st"] \in {"lock", "idle"}
  <2>1. CASE Push \/ DropCumulative \/ DropIngress \/ Consume
    BY <2>1 DEF Push, DropCumulative, DropIngress, Consume, clientVars
  <2>2. CASE StatusCall \/ StatusDone
    BY <2>2, <1>0 DEF StatusCall, StatusDone, Call, Finish, IInv, TypeOK, ArenaTypeOK, ClientTypeOK
  <2> QED BY <2>1, <2>2
<1>4. WaitOK("st")'
  BY <1>1, <1>3 DEF Custody, SlotCoherent, WaitOK
<1> QED BY <1>2, <1>3, <1>4, CustodyFrame

\* Every step of the arena keeps custody.
LEMMA ArenaCustody ==
    ASSUME IInv, Custody, ArenaStep
    PROVE  Custody'
<1>1. CoordinatorIdle
  BY DEF ArenaStep, CoordinatorIdle
<1>2. CASE Push \/ DropCumulative \/ DropIngress \/ Consume \/ StatusCall \/ StatusDone
  BY <1>1, <1>2, BystanderCustody
<1>3. CASE ProcessFreeze \/ ProcessRelease \/ ProcessClear \/ ProcessStatus
  BY <1>1, <1>3, FreezeCustody, ReleaseCustody, AnswerCustody
<1>4. ASSUME NEW c \in Clients, Mailbox(c) PROVE Custody'
  BY <1>1, <1>4, MailboxCustody
<1> QED BY <1>2, <1>3, <1>4 DEF ArenaStep, Worker

\* Between two calls the operation worker holds no answer of the mailbox.
LEMMA IdleCoherent ==
    ASSUME Custody, ArenaFrame, rpc'["op"] \in {"idle", "lock"}
    PROVE  SlotCoherent' /\ ~Delivered' /\ ~ReplyReleased' /\ ~Reported'
<1>1. ~Delivered' /\ ~ReplyReleased' /\ ~Reported'
  BY DEF Delivered, ReplyReleased, Reported
<1> QED BY <1>1 DEF Custody, SlotCoherent, WaitOK, ArenaFrame

\* The capabilities stay where they are.
LEMMA QuietCustody ==
    ASSUME Custody, ArenaFrame, rpc'["op"] \in {"idle", "lock"}, ~Delivered, ~ReplyReleased,
           UNCHANGED <<txn, guard, pendingRelease, failedRelease>>,
           rpc'["op"] = "lock" /\ req'["op"].kind = "release" => ReleaseOf(req'["op"].desc),
           HandsByStage'
    PROVE  /\ Custody'
           /\ \A d : FreezeOf(d)' <=> FreezeOf(d)
           /\ AnyFreeze' <=> AnyFreeze
<1>1. SlotCoherent' /\ ~Delivered' /\ ~ReplyReleased'
  BY IdleCoherent
<1>2. UNCHANGED <<slot, kind, cmd, result, recoveredFrozen, frozenRec>>
  BY DEF ArenaFrame
<1>3. /\ (AnyRelease' <=> AnyRelease) /\ (\A d : ReleaseOf(d)' <=> ReleaseOf(d))
      /\ (\A d : Holds(d)' <=> Holds(d)) /\ (Answered' <=> Answered)
      /\ (\A d : FreezeOf(d)' <=> FreezeOf(d)) /\ (AnyFreeze' <=> AnyFreeze)
  BY <1>1, <1>2 DEF AnyRelease, ReleaseOf, Holds, Answered, FreezeOf, AnyFreeze, Unread
<1>4. OneHand'
  BY <1>2, <1>3 DEF Custody, OneHand
<1>5. Backed'
  BY <1>2, <1>3 DEF Custody, Backed
<1>6. ReleaseTracked'
  BY <1>1, <1>2, <1>3 DEF Custody, ReleaseTracked
<1> QED BY <1>1, <1>3, <1>4, <1>5, <1>6 DEF Custody

\* The coordinator reads that its epoch was released and forgets it.
LEMMA ReleasedCustody ==
    ASSUME IInv, Custody, ArenaFrame, rpc'["op"] = "idle", ReplyReleased,
           txn' = txn, ~AnyRelease', HandsByStage'
    PROVE  /\ Custody' /\ ~AnyFreeze /\ ~AnyFreeze'
<1>1. SlotCoherent' /\ ~Delivered' /\ ~ReplyReleased'
  BY IdleCoherent
<1>2. UNCHANGED <<slot, kind, cmd, result, recoveredFrozen, frozenRec>>
  BY DEF ArenaFrame
<1>3. AnyRelease /\ ~AnyFreeze /\ ~frozenRec.held /\ ~(slot # "idle" /\ kind = "release")
  BY DEF Custody, OneHand, Backed, ReleaseTracked, Answered
<1>4. ~AnyFreeze' /\ ~Answered'
  BY <1>1, <1>2, <1>3 DEF AnyFreeze, Answered, Unread
<1>5. OneHand'
  BY <1>4 DEF OneHand, AnyRelease
<1>6. Backed'
  BY <1>2, <1>3, <1>4 DEF Backed, AnyFreeze, FreezeOf, AnyRelease, ReleaseOf
<1>7. ReleaseTracked'
  BY <1>2, <1>3 DEF ReleaseTracked
<1> QED BY <1>1, <1>3, <1>4, <1>5, <1>6, <1>7 DEF Custody

\* The transaction's epoch passes on to whoever will release it.
LEMMA HandoverCustody ==
    ASSUME IInv, Custody, ArenaFrame, rpc'["op"] = "idle", txn.some, ~txn'.some,
           AnyRelease', \A d : ReleaseOf(d)' => d = txn.desc,
           guard'.some => ~pendingRelease'.some /\ ~failedRelease'.some,
           pendingRelease'.some => ~failedRelease'.some,
           HandsByStage'
    PROVE  Custody' /\ ~AnyFreeze'
<1>1. SlotCoherent' /\ ~Delivered' /\ ~ReplyReleased'
  BY IdleCoherent
<1>2. UNCHANGED <<slot, kind, cmd, result, recoveredFrozen, frozenRec>>
  BY DEF ArenaFrame
<1>3. /\ ~(slot = "ready" /\ kind = "freeze") /\ ~Unread /\ ~recoveredFrozen.some
  BY DEF IInv, BooksBalance, OneAnswer, Unread
<1>4. ~AnyRelease /\ ~Answered /\ ~(slot # "idle" /\ kind = "release")
  BY DEF Custody, OneHand, Backed, ReleaseTracked, AnyFreeze
<1>5. Holds(txn.desc)
  <2>1. txn.desc \in Descriptor
    BY DEF IInv, TypeOK, StateTypeOK, Transaction
  <2> QED BY <2>1 DEF Custody, Backed, FreezeOf
<1>6. ~AnyFreeze' /\ ~Answered' /\ (\A d : Holds(d)' <=> Holds(d))
  BY <1>1, <1>2, <1>3, <1>4 DEF AnyFreeze, Answered, Unread, Holds
<1>7. OneHand'
  BY <1>2, <1>3, <1>6 DEF OneHand
<1>8. Backed'
  BY <1>5, <1>6 DEF Backed, AnyFreeze, FreezeOf
<1>9. ReleaseTracked'
  BY <1>2, <1>4 DEF ReleaseTracked
<1> QED BY <1>1, <1>6, <1>7, <1>8, <1>9 DEF Custody

\* The answers a stage of the operation worker can meet.
LEMMA StageReplies ==
    ASSUME IInv, Custody
    PROVE  /\ Delivered => pc = "freeze"
           /\ ReplyReleased => pc \in {"reconcile", "deliver", "postRelease"}
           /\ Reported => pc \in {"recover", "clear"}
           /\ rpc["op"] = "idle" => ~Delivered /\ ~ReplyReleased /\ ~Reported
           /\ pc \in {"idle", "resolve", "publish"} => rpc["op"] = "idle"
           /\ rpc["op"] # "idle" /\ pc = "freeze" => ~txn.some
           /\ rpc["op"] # "idle" /\ pc \in {"recover", "clear"} => pendingClear.some
           /\ pendingClear.some => pc \in {"idle", "recover", "clear"}
           /\ pc = "publish" \/ indeterminate => txn.some
<1>1. CallsMatchStages /\ SlotCoherent
  BY DEF IInv, BooksBalance, Custody
<1>2. pc \in Stages
  BY DEF IInv, TypeOK, StateTypeOK
<1> QED BY <1>1, <1>2 DEF CallsMatchStages, SlotCoherent, Delivered, ReplyReleased, Reported, Stages

\* A report that is not committed, and a clear that is forgotten, leave every
\* capability alone; a committed one passes the transaction on to its release.
LEMMA ClearReturnCustody ==
    ASSUME IInv, Custody, RecoverClearReturn \/ ClearReturn
    PROVE  Custody'
<1>1. Finish("op") /\ pc \in {"recover", "clear"}
  BY DEF RecoverClearReturn, ClearReturn
<1>2. ArenaFrame /\ rpc'["op"] = "idle" /\ rpc["op"] = "done"
  BY <1>1, CoordinatorFrame DEF IInv
<1>3. ~Delivered /\ ~ReplyReleased /\ pendingClear.some
  BY <1>1, <1>2, StageReplies
<1>4. HandsByStage /\ ~AnyRelease /\ (txn.some => AnyFreeze)
  BY <1>3 DEF Custody, HandsByStage, AnyFreeze
<1>5. CASE /\ UNCHANGED <<txn, guard, pendingRelease, failedRelease, completion, decision>>
           /\ pc' = "idle" /\ pendingClear' \in {pendingClear, NoPendingClear}
  <2>1. HandsByStage'
    BY <1>1, <1>4, <1>5 DEF HandsByStage, AnyRelease, NoPendingClear
  <2> QED BY <1>2, <1>3, <1>5, <2>1, QuietCustody
<1>6. CASE /\ CommitClear(reply["op"].report) /\ ValidReport(reply["op"].report)
           /\ pc' = "reconcile" \/ (pc' = IF pendingClear.frozen THEN "postRelease" ELSE "idle")
  <2>0. pendingClear' = NoPendingClear /\ UNCHANGED <<completion, failedRelease, guard>>
    BY <1>6 DEF CommitClear
  <2>1. CASE pendingClear.frozen
    <3>1. /\ txn.some /\ txn' = NoTransaction /\ decision' = TRUE
          /\ pendingRelease' = [some |-> TRUE, desc |-> txn.desc]
      BY <1>6, <2>1 DEF CommitClear, DiscardTransaction, ValidReport
    <3>2. ~txn'.some /\ pendingRelease'.some /\ pendingRelease'.desc = txn.desc
      BY <3>1 DEF NoTransaction
    <3>3. ~guard'.some /\ ~failedRelease'.some
      BY <1>4, <2>0 DEF AnyRelease
    <3>4. AnyRelease' /\ \A d : ReleaseOf(d)' => d = txn.desc
      BY <3>2, <3>3 DEF AnyRelease, ReleaseOf
    <3>5. HandsByStage'
      BY <1>6, <2>0, <2>1, <3>2, <3>3 DEF HandsByStage, NoPendingClear
    <3> QED BY <1>2, <3>1, <3>2, <3>3, <3>4, <3>5, HandoverCustody
  <2>2. CASE ~pendingClear.frozen
    <3>1. UNCHANGED <<txn, decision, pendingRelease>>
      BY <1>6, <2>2 DEF CommitClear
    <3>2. HandsByStage'
      BY <1>1, <1>4, <1>6, <2>0, <2>2, <3>1 DEF HandsByStage, AnyRelease, NoPendingClear
    <3> QED BY <1>2, <1>3, <2>0, <3>1, <3>2, QuietCustody
  <2> QED BY <2>1, <2>2
<1>7. KeepState => UNCHANGED <<txn, guard, pendingRelease, failedRelease, completion, decision,
                               pendingClear>>
  BY DEF KeepState, stateVars
<1>8. ForgetPendingClear => /\ UNCHANGED <<txn, guard, pendingRelease, failedRelease, completion,
                                           decision>>
                            /\ pendingClear' = NoPendingClear
  BY DEF ForgetPendingClear
<1> QED BY <1>5, <1>6, <1>7, <1>8 DEF RecoverClearReturn, ClearReturn, Goto

\* A release the coordinator reads about is forgotten, every other is kept for
\* the next operation.
LEMMA ReleaseReturnCustody ==
    ASSUME IInv, Custody, ReconcileReturn \/ PostReleaseReturn \/ Finalize
    PROVE  Custody'
<1>1. Finish("op") /\ pc \in {"reconcile", "postRelease", "deliver"}
  BY DEF ReconcileReturn, PostReleaseReturn, Finalize
<1>2. ArenaFrame /\ rpc'["op"] = "idle" /\ rpc["op"] = "done"
  BY <1>1, CoordinatorFrame DEF IInv
<1>3. ~Delivered /\ ~pendingClear.some
  BY <1>1, <1>2, StageReplies
<1>4. HandsByStage /\ OneHand
  BY DEF Custody
<1>5. pc' \in {"idle", "reconcile"} /\ UNCHANGED <<txn, pendingClear>>
      /\ (pc = "deliver" => pc' = "idle")
  BY <1>1 DEF ReconcileReturn, PostReleaseReturn, Finalize, Goto, DropHeldRelease, KeepState, stateVars
<1>6. CASE reply["op"].tag = "released"
  <2>1. ReplyReleased
    BY <1>2, <1>6 DEF ReplyReleased
  <2>2. AnyRelease /\ ~AnyFreeze /\ ~txn.some
    BY <2>1 DEF Custody, Backed, OneHand, Answered, AnyFreeze
  <2>3. CASE pc = "deliver"
    <3>1. guard' = NoHolder /\ UNCHANGED <<failedRelease, pendingRelease>>
      BY <1>6, <2>3 DEF Finalize, ReconcileReturn, PostReleaseReturn
    <3>2. guard.some /\ ~guard'.some
      BY <1>4, <2>3, <3>1 DEF HandsByStage, NoHolder
    <3>3. ~AnyRelease'
      BY <1>4, <3>1, <3>2 DEF AnyRelease, OneHand
    <3>4. HandsByStage'
      BY <1>3, <1>5, <2>2, <2>3, <3>2 DEF HandsByStage
    <3> QED BY <1>2, <1>5, <2>1, <3>3, <3>4, ReleasedCustody
  <2>4. CASE pc # "deliver"
    <3>1. DropHeldRelease
      BY <1>6, <2>4 DEF Finalize, ReconcileReturn, PostReleaseReturn
    <3>2. ~guard.some /\ guard' = guard /\ UNCHANGED completion
      BY <1>4, <2>4, <3>1 DEF HandsByStage, DropHeldRelease
    <3>3. ~pendingRelease'.some /\ ~failedRelease'.some
      BY <1>4, <3>1 DEF DropHeldRelease, NoHolder, OneHand
    <3>4. ~AnyRelease'
      BY <3>2, <3>3 DEF AnyRelease
    <3>5. HandsByStage'
      BY <1>3, <1>5, <2>2, <2>4, <3>2 DEF HandsByStage
    <3> QED BY <1>2, <1>5, <2>1, <3>4, <3>5, ReleasedCustody
  <2> QED BY <2>3, <2>4
<1>7. CASE reply["op"].tag # "released"
  <2>1. ~ReplyReleased
    BY <1>7 DEF ReplyReleased
  <2>2. CASE pc = "deliver"
    <3>1. guard' = NoHolder /\ failedRelease' = guard /\ UNCHANGED pendingRelease
      BY <1>7, <2>2 DEF Finalize, ReconcileReturn, PostReleaseReturn
    <3>2. /\ guard.some /\ ~guard'.some /\ failedRelease'.some /\ failedRelease'.desc = guard.desc
          /\ ~pendingRelease.some /\ ~failedRelease.some /\ ~txn.some
      BY <1>4, <2>2, <3>1 DEF HandsByStage, NoHolder, OneHand, AnyRelease, AnyFreeze
    <3>3. SlotCoherent' /\ ~Delivered' /\ ~ReplyReleased'
      BY <1>2, IdleCoherent
    <3>4. UNCHANGED <<slot, kind, cmd, result, recoveredFrozen, frozenRec>>
      BY <1>2 DEF ArenaFrame
    <3>5. AnyRelease /\ AnyRelease' /\ \A d : ReleaseOf(d)' <=> ReleaseOf(d)
      BY <3>1, <3>2 DEF AnyRelease, ReleaseOf
    <3>6. /\ (\A d : FreezeOf(d)' <=> FreezeOf(d)) /\ (AnyFreeze' <=> AnyFreeze)
          /\ (\A d : Holds(d)' <=> Holds(d)) /\ (Answered' <=> Answered)
      BY <1>3, <1>5, <2>1, <3>3, <3>4 DEF FreezeOf, AnyFreeze, Unread, Holds, Answered
    <3>7. HandsByStage'
      BY <1>3, <1>5, <2>2, <3>2 DEF HandsByStage
    <3>8. OneHand'
      BY <1>4, <3>1, <3>2, <3>4, <3>5, <3>6 DEF OneHand
    <3>9. Backed'
      BY <3>4, <3>5, <3>6 DEF Custody, Backed
    <3>10. ReleaseTracked'
      BY <1>2, <3>3, <3>4, <3>5 DEF Custody, ReleaseTracked
    <3> QED BY <3>3, <3>7, <3>8, <3>9, <3>10 DEF Custody
  <2>3. CASE pc # "deliver"
    <3>1. KeepState
      BY <1>7, <2>3 DEF Finalize, ReconcileReturn, PostReleaseReturn
    <3>2. UNCHANGED <<guard, pendingRelease, failedRelease, completion, decision>>
      BY <3>1 DEF KeepState, stateVars
    <3>3. HandsByStage'
      BY <1>3, <1>4, <1>5, <2>3, <3>2 DEF HandsByStage
    <3> QED BY <1>2, <1>3, <1>5, <2>1, <3>2, <3>3, QuietCustody
  <2> QED BY <2>2, <2>3
<1> QED BY <1>6, <1>7

\* A frozen range becomes the transaction; any other answer to a freeze changes no
\* capability.
LEMMA FreezeReturnCustody ==
    ASSUME IInv, Custody, FreezeReturn
    PROVE  /\ Custody'
           /\ \A d : FreezeOf(d)' <=> FreezeOf(d)
           /\ AnyFreeze' <=> AnyFreeze
<1>1. Finish("op") /\ pc = "freeze" /\ UNCHANGED <<completion, guard, pendingRelease,
                                                   failedRelease, pendingClear>>
  BY DEF FreezeReturn, stateVars
<1>2. ArenaFrame /\ rpc'["op"] = "idle" /\ rpc["op"] = "done"
  BY <1>1, CoordinatorFrame DEF IInv
<1>3. ~ReplyReleased /\ ~pendingClear.some /\ ~txn.some
  BY <1>1, <1>2, StageReplies
<1>4. HandsByStage /\ ~AnyRelease
  BY <1>1 DEF Custody, HandsByStage, AnyRelease
<1>5. CASE reply["op"].tag = "frozen"
  <2>1. /\ txn' = [some |-> TRUE, desc |-> reply["op"].desc,
                   lost |-> Shortfall(committed, reply["op"].desc.start)]
        /\ decision' = FALSE /\ pc' = "publish"
    BY <1>5 DEF FreezeReturn, Goto
  <2>2. Delivered /\ InReply
    BY <1>2, <1>5 DEF Delivered, InReply
  <2>3. SlotCoherent' /\ ~Delivered' /\ ~ReplyReleased'
    BY <1>2, IdleCoherent
  <2>4. UNCHANGED <<slot, kind, cmd, result, recoveredFrozen, frozenRec>>
    BY <1>2 DEF ArenaFrame
  <2>5. (\A d : FreezeOf(d)' <=> FreezeOf(d)) /\ AnyFreeze /\ AnyFreeze'
    BY <1>3, <2>1, <2>2, <2>3, <2>4 DEF FreezeOf, AnyFreeze, Unread
  <2>6. /\ (AnyRelease' <=> AnyRelease) /\ (\A d : ReleaseOf(d)' <=> ReleaseOf(d))
        /\ (\A d : Holds(d)' <=> Holds(d)) /\ (Answered' <=> Answered)
    BY <1>1, <1>3, <2>3, <2>4 DEF AnyRelease, ReleaseOf, Holds, Answered
  <2>7. HandsByStage'
    BY <1>1, <1>3, <1>4, <2>1 DEF HandsByStage
  <2>8. OneHand'
    BY <1>1, <1>4, <2>4, <2>6 DEF OneHand, AnyRelease
  <2>9. Backed'
    BY <2>4, <2>5, <2>6 DEF Custody, Backed
  <2>10. ReleaseTracked'
    BY <1>2, <2>3, <2>4, <2>6 DEF Custody, ReleaseTracked
  <2> QED BY <2>3, <2>5, <2>7, <2>8, <2>9, <2>10 DEF Custody
<1>6. CASE reply["op"].tag # "frozen"
  <2>1. ~Delivered
    BY <1>6 DEF Delivered
  <2>2. UNCHANGED <<txn, decision>> /\ pc' = "idle"
    BY <1>6 DEF FreezeReturn, Goto, stateVars
  <2>3. HandsByStage'
    BY <1>1, <1>3, <1>4, <2>2 DEF HandsByStage
  <2> QED BY <1>1, <1>2, <1>3, <2>1, <2>2, <2>3, QuietCustody
<1> QED BY <1>5, <1>6

\* Every step of the coordinator keeps custody.
LEMMA CoordinatorCustody ==
    ASSUME IInv, Custody, Coordinator
    PROVE  Custody'
<1>b. /\ UNCHANGED arenaVars => ArenaFrame /\ rpc'["op"] = rpc["op"]
      /\ \A r : Call("op", r) => ArenaFrame /\ rpc'["op"] = "lock" /\ req'["op"] = r
                                 /\ rpc["op"] = "idle"
  BY CoordinatorFrame DEF IInv
<1>h. HandsByStage /\ OneHand
  BY DEF Custody
<1>r. rpc["op"] = "idle" => ~Delivered /\ ~ReplyReleased
  BY StageReplies
<1>1. CASE StartPersist \/ StartClear \/ NothingToRecover \/ NothingIndeterminate
           \/ ResolvePending \/ FreezeRetained \/ PublishFails
           \/ ResolveRolledBack \/ PublishIndeterminate \/ Reconciled
  <2>1. /\ UNCHANGED arenaVars /\ rpc["op"] = "idle"
        /\ UNCHANGED <<txn, guard, pendingRelease, failedRelease, pendingClear>>
    BY <1>1, StageReplies DEF StartPersist, StartClear, NothingToRecover, NothingIndeterminate,
       ResolvePending, FreezeRetained, PublishFails, ResolveRolledBack, PublishIndeterminate,
       Reconciled, stateVars
  <2>2. HandsByStage'
    <3>1. CASE Reconciled
      <4>1. /\ pc = "reconcile" /\ completion' = "none"
            /\ ~pendingRelease.some /\ ~failedRelease.some
            /\ (decision' <=> decision \/ completion = "finalized")
            /\ pc' \in {"resolve", "clear", "idle"}
        BY <3>1 DEF Reconciled, Goto, HeldRelease
      <4> QED BY <1>h, <2>1, <4>1 DEF HandsByStage, AnyRelease
    <3>2. CASE ~Reconciled
      <4>1. UNCHANGED <<completion, decision>> /\ pc' \notin {"deliver", "postRelease", "clear"}
            /\ pc # "deliver"
            /\ (pc' \in {"resolve", "freeze", "publish"} => pc \in {"resolve", "freeze"})
        BY <1>1, <3>2 DEF StartPersist, StartClear, NothingToRecover, NothingIndeterminate,
           ResolvePending, FreezeRetained, PublishFails, ResolveRolledBack, PublishIndeterminate,
           stateVars, Goto
      <4> QED BY <1>h, <2>1, <4>1 DEF HandsByStage, AnyRelease
    <3> QED BY <3>1, <3>2
  <2> QED BY <1>b, <1>r, <2>1, <2>2, QuietCustody
<1>2. CASE RecoverClear \/ ReconcileRelease \/ Freeze \/ Deliver \/ PostRelease
  <2>1. UNCHANGED <<pc, txn, guard, pendingRelease, failedRelease, completion, decision, pendingClear>>
    BY <1>2 DEF RecoverClear, ReconcileRelease, Freeze, Deliver, PostRelease, stateVars
  <2>2. HandsByStage'
    BY <1>h, <2>1 DEF HandsByStage, AnyRelease
  <2>3. ASSUME NEW r, Call("op", r), r.kind = "release" => ReleaseOf(r.desc) PROVE Custody'
    BY <1>b, <1>r, <2>1, <2>2, <2>3, QuietCustody
  <2>4. CASE RecoverClear
    BY <2>3, <2>4 DEF RecoverClear
  <2>5. CASE Freeze
    BY <2>3, <2>5 DEF Freeze
  <2>6. CASE ReconcileRelease \/ Deliver \/ PostRelease
    <3>1. PICK d : Call("op", ReleaseRequest(d)) /\ ReleaseOf(d)
      <4>1. CASE ReconcileRelease
        BY <4>1 DEF ReconcileRelease, HeldRelease, ReleaseOf
      <4>2. CASE Deliver
        BY <4>2, <1>h DEF Deliver, HandsByStage, ReleaseOf
      <4>3. CASE PostRelease
        BY <4>3, <1>h DEF PostRelease, HandsByStage, ReleaseOf
      <4> QED BY <2>6, <4>1, <4>2, <4>3
    <3>2. ReleaseRequest(d).desc = d
      BY DEF ReleaseRequest
    <3> QED BY <2>3, <3>1, <3>2
  <2> QED BY <1>2, <2>4, <2>5, <2>6
<1>3. CASE RecoverClearReturn \/ ClearReturn
  BY <1>3, ClearReturnCustody
<1>4. CASE ReconcileReturn \/ PostReleaseReturn \/ Finalize
  BY <1>4, ReleaseReturnCustody
<1>6. CASE ResolveComplete \/ PublishWritten \/ PublishSkipped
  <2>1. /\ UNCHANGED arenaVars /\ CommitTransaction /\ txn.some
        /\ pc \in {"publish", "resolve"} /\ pc' = "deliver"
    BY <1>6, StageReplies DEF ResolveComplete, PublishWritten, PublishSkipped, CommitWritten, Goto
  <2>2. ArenaFrame /\ rpc'["op"] = "idle" /\ ~pendingClear.some
    BY <1>b, <2>1, StageReplies
  <2>3. /\ guard'.some /\ guard'.desc = txn.desc /\ ~txn'.some
        /\ UNCHANGED <<pendingRelease, failedRelease, pendingClear>>
    BY <2>1 DEF CommitTransaction, NoTransaction
  <2>4. ~pendingRelease.some /\ ~failedRelease.some
    BY <1>h, <2>1 DEF OneHand, AnyRelease, AnyFreeze
  <2>5. AnyRelease' /\ \A d : ReleaseOf(d)' => d = txn.desc
    BY <2>3, <2>4 DEF AnyRelease, ReleaseOf
  <2>6. HandsByStage'
    BY <2>1, <2>2, <2>3 DEF HandsByStage
  <2> QED BY <2>1, <2>2, <2>3, <2>4, <2>5, <2>6, HandoverCustody
<1>8. CASE FreezeReturn
  BY <1>8, FreezeReturnCustody
<1>10. CASE Clear
  <2> DEFINE q == [kind |-> "clear", committed |-> 0, desc |-> NoDescriptor, acct |-> ClearAccounting]
  <2>1. /\ pc = "clear" /\ Call("op", q)
        /\ UNCHANGED <<pc, txn, guard, pendingRelease, failedRelease, completion, decision>>
    BY <1>10 DEF Clear
  <2>2. q.kind = "clear"
    OBVIOUS
  <2>3. ArenaFrame /\ rpc'["op"] = "lock" /\ req'["op"] = q /\ rpc["op"] = "idle"
    BY <1>b, <2>1
  <2>4. HandsByStage'
    BY <1>h, <2>1 DEF HandsByStage, AnyRelease
  <2> HIDE DEF q
  <2> QED BY <1>r, <2>1, <2>2, <2>3, <2>4, QuietCustody
<1> QED BY <1>1, <1>2, <1>3, <1>4, <1>6, <1>8, <1>10 DEF Coordinator

-----------------------------------------------------------------------------
(***************************************************************************)
(* The arithmetic of a ring of whole chunks.                               *)
(***************************************************************************)
\* A ring holds at least one frame.
LEMMA CapacityPositive == Capacity \in Nat /\ Capacity > 0
<1>1. ChunkFrames \in Nat /\ ChunkCount \in Nat /\ ChunkFrames > 0 /\ ChunkCount > 0
  BY ArenaAssumption
<1> QED BY <1>1 DEF Capacity

\* Two frames less than a ring apart have different slots.
LEMMA SlotsDiffer ==
    ASSUME NEW n \in Nat, n > 0, NEW a \in Nat, NEW b \in Nat, a < b, b - a < n
    PROVE  a % n # b % n
<1>1. SUFFICES ASSUME a % n = b % n PROVE FALSE
  OBVIOUS
<1> DEFINE p == a \div n
           q == b \div n
<1>2. p \in Int /\ q \in Int
  OBVIOUS
<1>3. a = n * p + (a % n) /\ b = n * q + (b % n) /\ a % n \in Int
  OBVIOUS
<1>4. b - a = n * q - n * p
  BY <1>1, <1>2, <1>3
<1> HIDE DEF p, q
<1>5. n * q - n * p = n * (q - p)
  BY <1>2
<1>6. CASE q - p <= 0
  <2>1. n * (q - p) <= 0
    BY <1>2, <1>6
  <2> QED BY <1>4, <1>5, <2>1
<1>7. CASE q - p >= 1
  <2>1. n * (q - p) >= n
    BY <1>2, <1>7
  <2> QED BY <1>4, <1>5, <2>1
<1> QED BY <1>2, <1>6, <1>7

\* A ring forgets no frame before it must, and never remembers one again.
LEMMA OldestStep ==
    ASSUME NEW h \in Nat
    PROVE  /\ OldestKept(h) <= OldestKept(h + 1)
           /\ h + 1 - Capacity <= OldestKept(h + 1)
           /\ OldestKept(h + 1) \in Nat /\ OldestKept(h + 1) <= h + 1
<1> DEFINE C == ChunkFrames
           m == ChunkCount - 1
           q == h \div C
<1>1. C \in Nat /\ C > 0 /\ m \in Nat /\ Capacity = C * (m + 1)
  BY ArenaAssumption DEF Capacity
<1>2. q \in Nat /\ q * C <= h /\ h < (q + 1) * C
  BY <1>1
<1>3. OldestKept(h + 1) = Larger(0, (q - m) * C)
  BY DEF OldestKept
<1>4. OldestKept(h + 1) \in Nat /\ OldestKept(h + 1) <= h + 1
  BY OldestBounds
<1>5. OldestKept(h) <= OldestKept(h + 1)
  <2>1. CASE h = 0
    BY <1>4, <2>1 DEF OldestKept
  <2>2. CASE h # 0
    <3> DEFINE p == (h - 1) \div C
    <3>1. p \in Nat /\ p * C <= h - 1
      BY <1>1, <2>2
    <3>2. OldestKept(h) = Larger(0, (p - m) * C)
      BY <2>2 DEF OldestKept
    <3> HIDE DEF p, q, C, m
    <3>3. p <= q
      <4>1. SUFFICES ASSUME p >= q + 1 PROVE FALSE
        BY <1>2, <3>1
      <4>2. p * C >= (q + 1) * C
        BY <1>1, <1>2, <3>1, <4>1
      <4> QED BY <1>1, <1>2, <3>1, <4>2
    <3>4. (p - m) * C <= (q - m) * C
      BY <1>1, <1>2, <3>1, <3>3
    <3>5. (p - m) * C \in Int /\ (q - m) * C \in Int
      BY <1>1, <1>2, <3>1
    <3> QED BY <1>3, <3>2, <3>4, <3>5 DEF Larger
  <2> QED BY <2>1, <2>2
<1>6. h + 1 - Capacity <= OldestKept(h + 1)
  <2> HIDE DEF q, C, m
  <2>1. (q - m) * C = (q + 1) * C - C * (m + 1)
    BY <1>1, <1>2
  <2>2. (q - m) * C \in Int /\ C * (m + 1) \in Int /\ (q + 1) * C \in Int
    BY <1>1, <1>2
  <2>3. h + 1 - C * (m + 1) <= (q - m) * C
    BY <1>2, <2>1, <2>2
  <2> QED BY <1>1, <1>3, <2>2, <2>3 DEF Larger
<1> QED BY <1>4, <1>5, <1>6

-----------------------------------------------------------------------------
(***************************************************************************)
(* The active range, step by step.                                         *)
(***************************************************************************)
\* The numbers of the active ring.
LEMMA ActiveNumbers ==
    ASSUME IInv
    PROVE  /\ active \in Epochs /\ base[active] \in Nat /\ localHead[active] \in Nat
           /\ clearAfter[active] \in Nat /\ head \in Nat
           /\ clearAfter[active] <= localHead[active]
           /\ base[active] + localHead[active] = head
           /\ ActiveStart \in Nat /\ ActiveEnd = head
           /\ base[active] <= ActiveStart /\ ActiveStart <= head
<1>1. ArenaTypeOK /\ RingAtHead
  BY DEF IInv, TypeOK, BooksBalance
<1>2. /\ active \in Epochs /\ base[active] \in Nat /\ localHead[active] \in Nat
      /\ clearAfter[active] \in Nat /\ head \in Nat
  BY <1>1 DEF ArenaTypeOK, RingTypeOK
<1>3. /\ clearAfter[active] <= localHead[active]
      /\ base[active] + localHead[active] = head
  BY <1>1 DEF RingAtHead
<1>4. /\ ActiveStart \in Nat /\ ActiveEnd = head /\ ActiveStart <= head
  BY <1>1, ActiveRange
<1>5. base[active] <= ActiveStart
  BY <1>2, <1>4, OldestBounds DEF ActiveStart, LocalOldest, Larger
<1> QED BY <1>2, <1>3, <1>4, <1>5

\* Writing a frame moves the end by one and the start to the oldest frame kept.
LEMMA ConsumeRange ==
    ASSUME IInv, Consume
    PROVE  /\ active' = active /\ base' = base /\ head' = head + 1 /\ ActiveEnd' = head + 1
           /\ ActiveStart' = Larger(ActiveStart, base[active] + OldestKept(localHead[active] + 1))
           /\ base[active] + OldestKept(localHead[active] + 1) \in Nat
           /\ base[active] + OldestKept(localHead[active] + 1) <= head + 1
           /\ ActiveStart' \in Nat /\ ActiveStart <= ActiveStart' /\ ActiveStart' <= head + 1
           /\ head + 1 - Capacity <= ActiveStart'
<1> DEFINE h == localHead[active]
           b == base[active]
           k == clearAfter[active]
<1>1. /\ active \in Epochs /\ b \in Nat /\ h \in Nat /\ k \in Nat /\ head \in Nat
      /\ k <= h /\ b + h = head /\ ActiveStart \in Nat
  BY ActiveNumbers
<1>2. /\ active' = active /\ base' = base /\ head' = head + 1 /\ clearAfter' = clearAfter
      /\ localHead'[active] = h + 1
  BY <1>1 DEF Consume, IInv, TypeOK, ArenaTypeOK, RingTypeOK
<1>3. /\ OldestKept(h) \in Nat /\ OldestKept(h) <= OldestKept(h + 1)
      /\ h + 1 - Capacity <= OldestKept(h + 1)
      /\ OldestKept(h + 1) \in Nat /\ OldestKept(h + 1) <= h + 1
  BY <1>1, OldestStep, OldestBounds
<1>4. /\ ActiveStart = b + Larger(k, OldestKept(h))
      /\ ActiveStart' = b + Larger(k, OldestKept(h + 1))
      /\ ActiveEnd' = b + (h + 1)
  BY <1>2 DEF ActiveStart, ActiveEnd, LocalOldest
<1>5. Capacity \in Nat
  BY CapacityPositive
<1> HIDE DEF h, b, k
<1>6. ActiveEnd' = head + 1
  BY <1>1, <1>4
<1>7. ActiveStart' = Larger(ActiveStart, b + OldestKept(h + 1))
  BY <1>1, <1>3, <1>4 DEF Larger
<1>8. /\ b + OldestKept(h + 1) \in Nat /\ b + OldestKept(h + 1) <= head + 1
      /\ head + 1 - Capacity <= b + OldestKept(h + 1)
  BY <1>1, <1>3, <1>5
<1>9. /\ ActiveStart' \in Nat /\ ActiveStart <= ActiveStart' /\ ActiveStart' <= head + 1
      /\ head + 1 - Capacity <= ActiveStart'
  <2>1. ActiveStart <= head + 1
    BY <1>1, ActiveNumbers
  <2> QED BY <1>1, <1>5, <1>7, <1>8, <2>1 DEF Larger
<1> QED BY <1>2, <1>6, <1>7, <1>8, <1>9 DEF b, h

\* A freeze starts an empty range at the head in the other epoch.
LEMMA FreezeRange ==
    ASSUME IInv, ProcessFreeze, ~frozenRec.held
    PROVE  /\ ActiveStart' = head /\ ActiveEnd' = head /\ base'[active'] = head
           /\ active' # active /\ mem' = mem /\ head' = head
<1>1. /\ active' = 1 - active /\ active \in Epochs /\ head \in Nat
      /\ base' = [base EXCEPT ![1 - active] = head] /\ base \in [Epochs -> Nat]
      /\ localHead' = [localHead EXCEPT ![1 - active] = 0] /\ localHead \in [Epochs -> Nat]
      /\ clearAfter' = [clearAfter EXCEPT ![1 - active] = 0] /\ clearAfter \in [Epochs -> Nat]
      /\ UNCHANGED <<head, mem>>
  BY DEF ProcessFreeze, IInv, TypeOK, ArenaTypeOK, RingTypeOK
<1>2. base'[active'] = head /\ localHead'[active'] = 0 /\ clearAfter'[active'] = 0
  BY <1>1 DEF Epochs
<1>3. active' # active
  BY <1>1 DEF Epochs
<1>4. ActiveStart' = head + Larger(0, OldestKept(0)) /\ ActiveEnd' = head + 0
  BY <1>2 DEF ActiveStart, ActiveEnd, LocalOldest
<1>5. Larger(0, OldestKept(0)) = 0
  BY DEF Larger, OldestKept
<1> QED BY <1>1, <1>2, <1>3, <1>4, <1>5

\* A release resets the frozen ring and leaves the active range alone.
LEMMA ReleaseRange ==
    ASSUME IInv, Custody, ProcessRelease, CoordinatorIdle
    PROVE  /\ ActiveStart' = ActiveStart /\ ActiveEnd' = ActiveEnd
           /\ UNCHANGED <<active, base, mem, head>>
<1>1. cmd.call.desc.index # active /\ active \in Epochs
  BY ReleaseFacts, ActiveNumbers DEF Holds, IInv, BooksBalance, RingAtHead
<1>2. /\ localHead' = [localHead EXCEPT ![cmd.call.desc.index] = 0]
      /\ clearAfter' = [clearAfter EXCEPT ![cmd.call.desc.index] = 0]
      /\ UNCHANGED <<active, base, mem, head>>
  BY ReleaseFacts
<1>3. localHead'[active] = localHead[active] /\ clearAfter'[active] = clearAfter[active]
  BY <1>1, <1>2 DEF IInv, TypeOK, ArenaTypeOK, RingTypeOK
<1> QED BY <1>2, <1>3 DEF ActiveStart, ActiveEnd, LocalOldest

\* A clear empties the active range.
LEMMA ClearRange ==
    ASSUME IInv, ProcessClear
    PROVE  /\ ActiveStart' = head /\ ActiveEnd' = head
           /\ UNCHANGED <<active, base, mem, head>>
<1>1. /\ active \in Epochs /\ base[active] \in Nat /\ localHead[active] \in Nat
      /\ base[active] + localHead[active] = head /\ head \in Nat
  BY ActiveNumbers
<1>2. /\ clearAfter' = [clearAfter EXCEPT ![active] = localHead[active]]
      /\ UNCHANGED <<active, base, mem, head, localHead>>
  BY DEF ProcessClear
<1>3. clearAfter'[active] = localHead[active]
  BY <1>1, <1>2 DEF IInv, TypeOK, ArenaTypeOK, RingTypeOK
<1>4. Larger(localHead[active], OldestKept(localHead[active])) = localHead[active]
  BY <1>1, OldestBounds DEF Larger
<1> QED BY <1>1, <1>2, <1>3, <1>4 DEF ActiveStart, ActiveEnd, LocalOldest

\* Nothing else moves the active range.
LEMMA SameRange ==
    ASSUME UNCHANGED ringVars
    PROVE  /\ ActiveStart' = ActiveStart /\ ActiveEnd' = ActiveEnd
           /\ UNCHANGED <<active, base, mem, head>>
BY DEF ringVars, ActiveStart, ActiveEnd, LocalOldest

-----------------------------------------------------------------------------
(***************************************************************************)
(* The frames of a frozen epoch stay readable.                             *)
(***************************************************************************)
InRange(f, d) == d.start <= f /\ f < d.end

Intact(d) == \A f \in Nat : InRange(f, d) => mem[d.index][(f - d.base) % Capacity] = f

\* Whoever can still read the epoch: the holders of a freeze, and the guard.
Readable(d) == FreezeOf(d) \/ (guard.some /\ guard.desc = d)

ActiveIntact ==
    \A f \in Nat : ActiveStart <= f /\ f < ActiveEnd =>
        mem[active][(f - base[active]) % Capacity] = f

FrozenKept == \A d \in Descriptor : Readable(d) => d.index # active /\ Intact(d)

EpochsIntact == ActiveIntact /\ FrozenKept

\* Writing a frame overwrites only a slot whose frame the ring has forgotten,
\* and never one of the frozen epoch.
LEMMA ConsumeIntact ==
    ASSUME IInv, EpochsIntact, Consume, \A d : Readable(d)' <=> Readable(d)
    PROVE  EpochsIntact'
<1> DEFINE h == localHead[active]
           b == base[active]
<1>1. /\ active \in Epochs /\ b \in Nat /\ h \in Nat /\ head \in Nat /\ b + h = head
      /\ ActiveStart \in Nat /\ b <= ActiveStart /\ ActiveEnd = head
  BY ActiveNumbers
<1>2. /\ active' = active /\ base' = base /\ ActiveEnd' = head + 1
      /\ ActiveStart' \in Nat /\ ActiveStart <= ActiveStart'
      /\ head + 1 - Capacity <= ActiveStart'
  BY ConsumeRange
<1>3. Capacity \in Nat /\ Capacity > 0
  BY CapacityPositive
<1>4. mem' = [mem EXCEPT ![active][h % Capacity] = head]
  BY DEF Consume
<1>5. mem \in [Epochs -> [0 .. Capacity - 1 -> Nat]]
  BY DEF IInv, TypeOK, ArenaTypeOK, RingTypeOK
<1>6. h % Capacity \in 0 .. Capacity - 1
  BY <1>1, <1>3
<1>7. /\ \A e \in Epochs : e # active => mem'[e] = mem[e]
      /\ mem'[active] = [mem[active] EXCEPT ![h % Capacity] = head]
      /\ mem[active] \in [0 .. Capacity - 1 -> Nat]
  BY <1>1, <1>4, <1>5
<1>8. ActiveIntact'
  <2> SUFFICES ASSUME NEW f \in Nat, ActiveStart' <= f, f < ActiveEnd'
               PROVE  mem'[active][(f - b) % Capacity] = f
    BY <1>2 DEF ActiveIntact
  <2> HIDE DEF h, b
  <2>1. f - b \in Nat /\ (f - b) % Capacity \in 0 .. Capacity - 1
    BY <1>1, <1>2, <1>3
  <2>2. CASE f = head
    <3>1. f - b = h
      BY <1>1, <2>2
    <3> QED BY <1>6, <1>7, <2>2, <3>1
  <2>3. CASE f # head
    <3>1. f < head /\ ActiveStart <= f
      BY <1>1, <1>2, <2>3
    <3>2. f - b < h /\ h - (f - b) < Capacity
      BY <1>1, <1>2, <1>3, <3>1
    <3>3. (f - b) % Capacity # h % Capacity
      BY <1>1, <1>3, <2>1, <3>2, SlotsDiffer
    <3>4. mem[active][(f - b) % Capacity] = f
      BY <1>1, <3>1 DEF EpochsIntact, ActiveIntact, b
    <3> QED BY <1>7, <2>1, <3>3, <3>4
  <2> QED BY <2>2, <2>3
<1>9. FrozenKept'
  <2> SUFFICES ASSUME NEW d \in Descriptor, Readable(d)
               PROVE  d.index # active' /\ Intact(d)'
    BY DEF FrozenKept
  <2>1. d.index # active /\ Intact(d) /\ d.index \in Epochs
    BY DEF EpochsIntact, FrozenKept, Descriptor
  <2>2. mem'[d.index] = mem[d.index]
    BY <1>7, <2>1
  <2> QED BY <1>2, <2>1, <2>2 DEF Intact, InRange
<1> QED BY <1>8, <1>9 DEF EpochsIntact

\* A freeze hands on the active range as it is, and the next ring starts empty.
LEMMA FreezeIntact ==
    ASSUME IInv, Custody, EpochsIntact, ProcessFreeze, CoordinatorIdle
    PROVE  EpochsIntact'
<1>1. /\ ~frozenRec.held /\ ~AnyRelease /\ FrozenNow \in Descriptor
      /\ \A d : FreezeOf(d)' => d = FrozenNow
  BY FreezeFacts
<1>2. /\ ActiveStart' = head /\ ActiveEnd' = head /\ active' # active /\ mem' = mem
  BY <1>1, FreezeRange
<1>3. guard' = guard /\ ~guard.some
  BY <1>1 DEF CoordinatorIdle, stateVars, AnyRelease
<1>4. head \in Nat /\ ActiveStart \in Nat /\ ActiveEnd = head /\ cmd.call.committed \in Nat
  BY ActiveNumbers, FieldTypes DEF IInv
<1>5. ActiveIntact'
  BY <1>2, <1>4 DEF ActiveIntact
<1>6. Intact(FrozenNow)
  <2>1. /\ FrozenNow.index = active /\ FrozenNow.base = base[active]
        /\ FrozenNow.start = Larger(cmd.call.committed, ActiveStart)
        /\ FrozenNow.end = ActiveEnd
    BY DEF FrozenNow
  <2>2. \A f \in Nat : InRange(f, FrozenNow) => ActiveStart <= f /\ f < ActiveEnd
    BY <1>4, <2>1 DEF InRange, Larger
  <2> QED BY <2>1, <2>2 DEF Intact, EpochsIntact, ActiveIntact
<1>7. FrozenNow.index # active'
  BY <1>2 DEF FrozenNow
<1>9. FrozenKept'
  <2> SUFFICES ASSUME NEW d \in Descriptor, Readable(d)'
               PROVE  d.index # active' /\ Intact(d)'
    BY DEF FrozenKept
  <2>1. d = FrozenNow
    BY <1>1, <1>3 DEF Readable
  <2>2. d.index # active' /\ Intact(d)
    BY <1>6, <1>7, <2>1
  <2> QED BY <1>2, <2>2 DEF Intact, InRange
<1> QED BY <1>5, <1>9 DEF EpochsIntact

\* A step that writes no frame and swaps no epoch keeps what the epochs hold.
LEMMA QuietIntact ==
    ASSUME EpochsIntact, UNCHANGED <<active, base, mem>>,
           \A d : Readable(d)' => Readable(d),
           \/ ActiveStart' = ActiveStart /\ ActiveEnd' = ActiveEnd
           \/ ActiveStart' = ActiveEnd' /\ ActiveEnd' \in Nat
    PROVE  EpochsIntact'
<1>1. ActiveIntact'
  BY DEF EpochsIntact, ActiveIntact
<1>2. FrozenKept'
  BY DEF EpochsIntact, FrozenKept, Intact, InRange
<1> QED BY <1>1, <1>2 DEF EpochsIntact

\* Every step of the arena keeps what the epochs hold.
LEMMA ArenaIntact ==
    ASSUME IInv, Custody, EpochsIntact, ArenaStep
    PROVE  EpochsIntact'
<1>1. CoordinatorIdle /\ guard' = guard
  BY DEF ArenaStep, CoordinatorIdle, stateVars
<1>2. SlotCoherent
  BY DEF Custody
<1>3. CASE Consume
  <2>1. AnswersMove
    BY <1>1, <1>3, BystanderCustody
  <2> QED BY <1>1, <1>3, <2>1, ConsumeIntact DEF AnswersMove, Readable
<1>4. CASE Push \/ DropCumulative \/ DropIngress \/ StatusCall \/ StatusDone
  <2>1. AnswersMove /\ UNCHANGED ringVars
    BY <1>1, <1>4, BystanderCustody DEF Push, DropCumulative, DropIngress, StatusCall,
       StatusDone, Call, Finish
  <2> QED BY <1>1, <2>1, SameRange, QuietIntact DEF AnswersMove, Readable
<1>5. CASE ProcessFreeze
  BY <1>1, <1>5, FreezeIntact
<1>6. CASE ProcessRelease
  BY <1>1, <1>6, ReleaseFacts, ReleaseRange, QuietIntact DEF Readable
<1>7. CASE ProcessClear
  <2>1. head \in Nat
    BY ActiveNumbers
  <2> QED BY <1>1, <1>7, <2>1, AnswerCustody, ClearRange, QuietIntact DEF Readable
<1>8. CASE ProcessStatus
  <2>1. UNCHANGED ringVars
    BY <1>8 DEF ProcessStatus
  <2> QED BY <1>1, <1>8, <2>1, AnswerCustody, SameRange, QuietIntact DEF Readable
<1>9. ASSUME NEW c \in Clients, Mailbox(c) PROVE EpochsIntact'
  <2>1. AnswersMove /\ UNCHANGED ringVars
    BY <1>1, <1>2, <1>9, MailboxMoves, MailboxOutcomes
  <2> QED BY <1>1, <2>1, SameRange, QuietIntact DEF AnswersMove, Readable
<1> QED BY <1>3, <1>4, <1>5, <1>6, <1>7, <1>8, <1>9 DEF ArenaStep, Worker

-----------------------------------------------------------------------------
(***************************************************************************)
(* What a coordinator step does to the frames.                             *)
(***************************************************************************)
\* It leaves them and the answers under way alone, but for a report it refuses ...
Still ==
    /\ UNCHANGED <<committed, written, skipped, discarded>>
    /\ repRet' + pendRet' = repRet + pendRet
    /\ repClr' + pendClr' = repClr + pendClr
    /\ \A d : FreezeOf(d)' <=> FreezeOf(d)
    /\ txn.some => txn' = txn
    /\ guard' = guard \/ ~guard'.some
    /\ \A r : ReportOf(r)' => ReportOf(r)
    /\ Reported => ~ValidReport(reply["op"].report)
    /\ ~Reported => \A r : ReportOf(r)' <=> ReportOf(r)

\* ... or commits the transaction, written or skipped ...
Committed ==
    /\ txn.some /\ CommitTransaction
    /\ UNCHANGED discarded
    /\ \/ written' = written \cup Frames(txn.desc) /\ skipped' = skipped
       \/ skipped' = skipped \cup Frames(txn.desc) /\ written' = written
    /\ pc \in {"publish", "resolve"}
    /\ \A d : ~FreezeOf(d)'
    /\ \A r : ReportOf(r)' <=> ReportOf(r)

\* ... or commits the report of a clear.
Cleared ==
    /\ Reported /\ ValidReport(reply["op"].report) /\ CommitClear(reply["op"].report)
    /\ pendingClear.some
    /\ \A d : ~FreezeOf(d)'
    /\ \A r : ~ReportOf(r)'

\* Answers the coordinator does not take stay where they are.
LEMMA StillAnswers ==
    ASSUME ArenaFrame, rpc'["op"] \in {"idle", "lock"}, ~Delivered, txn' = txn
    PROVE  /\ \A d : FreezeOf(d)' <=> FreezeOf(d)
           /\ \A r : ReportOf(r)' => ReportOf(r)
           /\ ~Reported => \A r : ReportOf(r)' <=> ReportOf(r)
<1>1. ~Delivered' /\ ~Reported'
  BY DEF Delivered, Reported
<1> QED BY <1>1 DEF FreezeOf, ReportOf, Unread, Unclaimed, ArenaFrame

\* Every step of the coordinator is one of the three.
LEMMA CoordinatorEffects ==
    ASSUME IInv, Custody, Coordinator
    PROVE  /\ UNCHANGED <<ringVars, ingressVars, evicted>>
           /\ Still \/ Committed \/ Cleared
<1>a. /\ repRet \in Nat /\ pendRet \in Nat /\ repClr \in Nat /\ pendClr \in Nat
      /\ dropCum \in Nat /\ acked \in Nat
  BY FieldTypes DEF IInv
<1>b. /\ UNCHANGED arenaVars => ArenaFrame /\ rpc'["op"] = rpc["op"]
      /\ Finish("op") => ArenaFrame /\ rpc'["op"] = "idle" /\ rpc["op"] = "done"
      /\ \A r : Call("op", r) => ArenaFrame /\ rpc'["op"] = "lock" /\ req'["op"] = r
                                 /\ rpc["op"] = "idle"
  BY CoordinatorFrame DEF IInv
<1>c. /\ UNCHANGED arenaVars => UNCHANGED <<ringVars, ingressVars, evicted, discarded>>
      /\ Finish("op") => UNCHANGED <<ringVars, ingressVars, evicted>>
      /\ \A r : Call("op", r) => UNCHANGED <<ringVars, ingressVars, evicted, discarded>>
  BY DEF arenaVars, Finish, Call
<1>q. ASSUME UNCHANGED <<ringVars, ingressVars, evicted, discarded>>,
             UNCHANGED <<committed, written, skipped, repRet, pendRet, repClr, pendClr, txn>>,
             guard' = guard \/ ~guard'.some,
             ArenaFrame, rpc'["op"] \in {"idle", "lock"}, ~Delivered,
             Reported => ~ValidReport(reply["op"].report)
      PROVE  UNCHANGED <<ringVars, ingressVars, evicted>> /\ Still
  BY <1>q, <1>a, StillAnswers DEF Still
<1>1. CASE StartPersist \/ StartClear \/ NothingToRecover \/ NothingIndeterminate
           \/ ResolvePending \/ FreezeRetained \/ PublishFails
           \/ ResolveRolledBack \/ PublishIndeterminate \/ Reconciled
  <2>1. /\ UNCHANGED arenaVars /\ rpc["op"] = "idle"
        /\ UNCHANGED <<committed, written, skipped, repRet, pendRet, repClr, pendClr, txn, guard>>
    BY <1>1, StageReplies DEF StartPersist, StartClear, NothingToRecover, NothingIndeterminate,
       ResolvePending, FreezeRetained, PublishFails, ResolveRolledBack, PublishIndeterminate,
       Reconciled, stateVars, history
  <2>2. ~Delivered /\ ~Reported
    BY <2>1, StageReplies
  <2> QED BY <1>b, <1>c, <1>q, <2>1, <2>2
<1>2. CASE RecoverClear \/ ReconcileRelease \/ Freeze \/ Deliver \/ PostRelease \/ Clear
  <2>1. UNCHANGED <<committed, written, skipped, repRet, pendRet, repClr, pendClr, txn, guard>>
    BY <1>2 DEF RecoverClear, ReconcileRelease, Freeze, Deliver, PostRelease, Clear, stateVars, history
  <2>2. PICK r : Call("op", r)
    BY <1>2 DEF RecoverClear, ReconcileRelease, Freeze, Deliver, PostRelease, Clear
  <2>3. /\ ArenaFrame /\ rpc'["op"] = "lock" /\ rpc["op"] = "idle"
        /\ UNCHANGED <<ringVars, ingressVars, evicted, discarded>>
    BY <1>b, <1>c, <2>2
  <2>4. ~Delivered /\ ~Reported
    BY <2>3, StageReplies
  <2> QED BY <1>q, <2>1, <2>3, <2>4
<1>3. CASE RecoverClearReturn \/ ClearReturn
  <2>1. Finish("op") /\ pc \in {"recover", "clear"}
    BY <1>3 DEF RecoverClearReturn, ClearReturn
  <2>2. /\ ArenaFrame /\ rpc'["op"] = "idle" /\ rpc["op"] = "done"
        /\ UNCHANGED <<ringVars, ingressVars, evicted>>
    BY <1>b, <1>c, <2>1
  <2>3. ~Delivered /\ pendingClear.some
    BY <2>1, <2>2, StageReplies
  <2>4. CASE /\ KeepState \/ ForgetPendingClear
             /\ reply["op"].tag = "cleared" => ~ValidReport(reply["op"].report)
    <3>1. /\ UNCHANGED <<committed, written, skipped, repRet, pendRet, repClr, pendClr, txn, guard>>
          /\ discarded' = discarded
      BY <2>4 DEF KeepState, ForgetPendingClear, stateVars, history
    <3>2. Reported => ~ValidReport(reply["op"].report)
      BY <2>4 DEF Reported
    <3> QED BY <1>q, <2>2, <2>3, <3>1, <3>2
  <2>5. CASE /\ reply["op"].tag = "cleared" /\ ValidReport(reply["op"].report)
             /\ CommitClear(reply["op"].report)
    <3>1. Reported /\ InReply
      BY <2>2, <2>5 DEF Reported, InReply
    <3>2. /\ ~InSlot /\ ~recoveredFrozen.some /\ ~recoveredClear.some
      BY <3>1 DEF IInv, BooksBalance, OneAnswer
    <3>3. ~txn'.some
      BY <2>5 DEF CommitClear, DiscardTransaction, NoTransaction, ValidReport
    <3>4. (\A d : ~FreezeOf(d)') /\ (\A r : ~ReportOf(r)')
      BY <2>2, <3>2, <3>3 DEF FreezeOf, ReportOf, Unread, Delivered, Unclaimed, Reported,
         ArenaFrame, InSlot
    <3> QED BY <2>2, <2>3, <2>5, <3>1, <3>4 DEF Cleared
  <2> QED BY <1>3, <2>4, <2>5 DEF RecoverClearReturn, ClearReturn, NotSubmitted
<1>4. CASE ReconcileReturn \/ PostReleaseReturn \/ Finalize
  <2>1. Finish("op") /\ pc \in {"reconcile", "postRelease", "deliver"}
    BY <1>4 DEF ReconcileReturn, PostReleaseReturn, Finalize
  <2>2. /\ ArenaFrame /\ rpc'["op"] = "idle" /\ rpc["op"] = "done"
        /\ UNCHANGED <<ringVars, ingressVars, evicted>>
    BY <1>b, <1>c, <2>1
  <2>3. /\ UNCHANGED <<committed, written, skipped, repRet, pendRet, repClr, pendClr, txn>>
        /\ discarded' = discarded /\ guard' \in {guard, NoHolder}
    BY <1>4 DEF ReconcileReturn, PostReleaseReturn, Finalize, DropHeldRelease, KeepState,
       stateVars, history
  <2>4. guard' = guard \/ ~guard'.some
    BY <2>3 DEF NoHolder
  <2>5. ~Delivered
    BY <2>1, StageReplies
  <2>6. ~Reported
    BY <2>1, StageReplies
  <2> QED BY <1>q, <2>2, <2>3, <2>4, <2>5, <2>6
<1>6. CASE ResolveComplete \/ PublishWritten \/ PublishSkipped
  <2>1. /\ UNCHANGED arenaVars /\ CommitTransaction /\ txn.some
        /\ pc \in {"publish", "resolve"}
        /\ \/ written' = written \cup Frames(txn.desc) /\ skipped' = skipped
           \/ skipped' = skipped \cup Frames(txn.desc) /\ written' = written
    BY <1>6, StageReplies DEF ResolveComplete, PublishWritten, PublishSkipped, CommitWritten
  <2>2. ArenaFrame /\ rpc'["op"] = "idle" /\ rpc["op"] = "idle"
    BY <1>b, <2>1, StageReplies
  <2>3. ~txn'.some
    BY <2>1 DEF CommitTransaction, NoTransaction
  <2>4. ~Unread /\ ~recoveredFrozen.some
    BY <2>1 DEF IInv, BooksBalance, OneAnswer, Unread
  <2>5. \A d : ~FreezeOf(d)'
    BY <2>2, <2>3, <2>4 DEF FreezeOf, Unread, Delivered, ArenaFrame
  <2>6. \A r : ReportOf(r)' <=> ReportOf(r)
    BY <2>2 DEF ReportOf, Unclaimed, Reported, ArenaFrame
  <2> QED BY <1>c, <2>1, <2>5, <2>6 DEF Committed
<1>8. CASE FreezeReturn
  <2>1. Finish("op") /\ pc = "freeze" /\ discarded' = discarded
        /\ UNCHANGED <<committed, written, skipped, guard>>
    BY <1>8 DEF FreezeReturn, stateVars, history
  <2>2. /\ ArenaFrame /\ rpc'["op"] = "idle" /\ rpc["op"] = "done"
        /\ UNCHANGED <<ringVars, ingressVars, evicted>>
    BY <1>b, <1>c, <2>1
  <2>3. \A d : FreezeOf(d)' <=> FreezeOf(d)
    BY <1>8, FreezeReturnCustody
  <2>4. /\ repRet' + pendRet' = repRet + pendRet /\ repClr' + pendClr' = repClr + pendClr
    BY <1>8, <1>a DEF FreezeReturn, CommitLosses, stateVars, history
  <2>5. ~Reported /\ ~txn.some
    BY <2>1, <2>2, StageReplies
  <2>6. \A r : ReportOf(r)' <=> ReportOf(r)
    BY <2>2, <2>5 DEF ReportOf, Unclaimed, Reported, ArenaFrame
  <2> QED BY <2>1, <2>2, <2>3, <2>4, <2>5, <2>6 DEF Still
<1> QED BY <1>1, <1>2, <1>3, <1>4, <1>6, <1>8 DEF Coordinator

\* No step of the coordinator takes a frame away from a reader.
LEMMA CoordinatorIntact ==
    ASSUME IInv, Custody, EpochsIntact, Coordinator
    PROVE  EpochsIntact'
<1>1. UNCHANGED ringVars /\ (Still \/ Committed \/ Cleared)
  BY CoordinatorEffects
<1>2. \A d : Readable(d)' => Readable(d)
  <2>1. CASE Still
    BY <2>1 DEF Still, Readable
  <2>2. CASE Committed
    <3>1. guard'.desc = txn.desc /\ txn.some /\ \A d : ~FreezeOf(d)'
      BY <2>2 DEF Committed, CommitTransaction
    <3> QED BY <3>1 DEF Readable, FreezeOf
  <2>3. CASE Cleared
    BY <2>3 DEF Cleared, CommitClear, Readable
  <2> QED BY <1>1, <2>1, <2>2, <2>3
<1> QED BY <1>1, <1>2, SameRange, QuietIntact

-----------------------------------------------------------------------------
(***************************************************************************)
(* A frozen epoch is in one hand and keeps its frames.                     *)
(***************************************************************************)
EpochInv == IInv /\ Custody /\ EpochsIntact

\* Nothing is frozen to begin with.
LEMMA InitEpochs == Init => EpochInv
<1> SUFFICES ASSUME Init PROVE EpochInv
  OBVIOUS
<1>1. IInv
  BY InitKeeps
<1>2. /\ slot = "idle" /\ rpc = [c \in Clients |-> "idle"] /\ pc = "idle"
      /\ ~recoveredFrozen.some /\ ~txn.some /\ ~guard.some /\ ~pendingRelease.some
      /\ ~failedRelease.some /\ ~pendingClear.some /\ ~frozenRec.held
  BY DEF Init, ArenaInit, NoTransaction, NoHolder, NoPendingClear
<1>3. rpc["op"] = "idle" /\ rpc["st"] = "idle"
  BY <1>2 DEF Clients
<1>4. ~AnyFreeze /\ ~AnyRelease /\ ~Answered /\ (\A d : ~FreezeOf(d) /\ ~ReleaseOf(d))
  BY <1>2, <1>3 DEF AnyFreeze, AnyRelease, Answered, FreezeOf, ReleaseOf, Unread, Delivered,
     ReplyReleased
<1>5. SlotCoherent
  BY <1>2, <1>3 DEF SlotCoherent, WaitOK, ReplyReleased, Delivered, Reported
<1>6. OneHand /\ Backed /\ ReleaseTracked /\ HandsByStage
  BY <1>2, <1>3, <1>4 DEF OneHand, Backed, ReleaseTracked, HandsByStage
<1>7. head = 0 /\ ActiveEnd = head /\ ActiveStart \in Nat
  BY <1>1, ActiveNumbers DEF Init, ArenaInit
<1>8. EpochsIntact
  BY <1>2, <1>4, <1>7 DEF EpochsIntact, ActiveIntact, FrozenKept, Readable
<1> QED BY <1>1, <1>5, <1>6, <1>8 DEF EpochInv, Custody

\* Every step keeps the epoch in one hand and its frames where they are.
LEMMA NextEpochs == EpochInv /\ [Next]_vars => EpochInv'
<1> SUFFICES ASSUME EpochInv, [Next]_vars PROVE EpochInv'
  OBVIOUS
<1>0. IInv /\ Custody /\ EpochsIntact
  BY DEF EpochInv
<1>1. IInv'
  BY <1>0, NextKeeps
<1>2. CASE Coordinator
  BY <1>0, <1>1, <1>2, CoordinatorCustody, CoordinatorIntact DEF EpochInv
<1>3. CASE ArenaStep
  BY <1>0, <1>1, <1>3, ArenaCustody, ArenaIntact DEF EpochInv
<1>4. CASE UNCHANGED vars
  <2>1. UNCHANGED <<ringVars, slotVars, clientVars, pc, stateVars>>
    BY <1>4 DEF vars, arenaVars
  <2>2. /\ UNCHANGED custodyVars /\ UNCHANGED <<rpc, req, reply, guard>>
    BY <2>1 DEF custodyVars, slotVars, clientVars, stateVars, ringVars
  <2>3. WaitOK("st")'
    BY <1>0, <2>2 DEF Custody, SlotCoherent, WaitOK, custodyVars
  <2>4. Custody' /\ AnswersMove
    BY <1>0, <2>2, <2>3, CustodyFrame
  <2>5. EpochsIntact'
    BY <1>0, <2>1, <2>2, <2>4, SameRange, QuietIntact DEF AnswersMove, Readable
  <2> QED BY <1>1, <2>4, <2>5 DEF EpochInv
<1> QED BY <1>2, <1>3, <1>4 DEF Next

\* The strengthened invariant holds in every state of every behaviour.
LEMMA EpochInvHolds == Spec => []EpochInv
<1> QED BY InitEpochs, NextEpochs, PTL DEF Spec

\* A set of flagged candidates of which no two are flagged has one element at most.
LEMMA AtMostOne ==
    ASSUME NEW S, \A a, b \in S : a = b
    PROVE  Cardinality(S) <= 1
<1>1. CASE S = {}
  BY <1>1, FS_EmptySet
<1>2. CASE S # {}
  <2>1. PICK x : x \in S
    BY <1>2
  <2>2. S = {x}
    BY <2>1
  <2> QED BY <2>2, FS_Singleton
<1> QED BY <1>1, <1>2

\* The capability of an epoch is in one place at most, and in one that names the
\* worker's record when the worker holds one.
LEMMA OneOwnerKept == EpochInv => OneOwner
<1> SUFFICES ASSUME EpochInv PROVE OneOwner
  OBVIOUS
<1> DEFINE r1 == slot = "done" /\ result.tag = "frozen"
           r2 == recoveredFrozen.some
           r3 == rpc["op"] = "done" /\ reply["op"].tag = "frozen"
           r4 == txn.some
           r5 == guard.some
           r6 == pendingRelease.some
           r7 == failedRelease.some
           t1 == <<"result", r1, result.desc>>
           t2 == <<"recovered", r2, recoveredFrozen.desc>>
           t3 == <<"reply", r3, reply["op"].desc>>
           t4 == <<"transaction", r4, txn.desc>>
           t5 == <<"guard", r5, guard.desc>>
           t6 == <<"clear", r6, pendingRelease.desc>>
           t7 == <<"completion", r7, failedRelease.desc>>
<1>1. Authorities = {a \in {t1, t2, t3, t4, t5, t6, t7} : a[2]}
  BY DEF Authorities
<1>2. /\ t1[2] = r1 /\ t2[2] = r2 /\ t3[2] = r3 /\ t4[2] = r4
      /\ t5[2] = r5 /\ t6[2] = r6 /\ t7[2] = r7
  OBVIOUS
<1>3. /\ t1[3] = result.desc /\ t2[3] = recoveredFrozen.desc /\ t3[3] = reply["op"].desc
      /\ t4[3] = txn.desc /\ t5[3] = guard.desc /\ t6[3] = pendingRelease.desc
      /\ t7[3] = failedRelease.desc
  OBVIOUS
<1>4. /\ r1 => ~r2 /\ ~r3 /\ ~r4
      /\ r2 => ~r3 /\ ~r4
      /\ r3 => ~r4
  BY DEF EpochInv, IInv, BooksBalance, OneAnswer, InSlot, InReply
<1>5. /\ r5 \/ r6 \/ r7 => ~r1 /\ ~r2 /\ ~r3 /\ ~r4
      /\ r5 => ~r6 /\ ~r7
      /\ r6 => ~r7
  BY DEF EpochInv, Custody, OneHand, AnyRelease, AnyFreeze, Unread, Delivered
<1>6. frozenRec.held =>
        \/ r1 /\ Holds(result.desc)
        \/ r2 /\ Holds(recoveredFrozen.desc)
        \/ r3 /\ Holds(reply["op"].desc)
        \/ r4 /\ Holds(txn.desc)
        \/ r5 /\ Holds(guard.desc)
        \/ r6 /\ Holds(pendingRelease.desc)
        \/ r7 /\ Holds(failedRelease.desc)
  <2>1. /\ result.desc \in Descriptor /\ recoveredFrozen.desc \in Descriptor
        /\ reply["op"].desc \in Descriptor /\ txn.desc \in Descriptor /\ guard.desc \in Descriptor
        /\ pendingRelease.desc \in Descriptor /\ failedRelease.desc \in Descriptor
    <3>1. "op" \in Clients
      BY DEF Clients
    <3> QED BY <3>1 DEF EpochInv, IInv, TypeOK, ArenaTypeOK, SlotTypeOK, ClientTypeOK, StateTypeOK,
               Reply, Transaction, Holder
  <2>2. Backed
    BY DEF EpochInv, Custody
  <2>3. frozenRec.held => AnyFreeze \/ AnyRelease
    BY <2>2 DEF Backed
  <2>4. frozenRec.held => ~Answered
    BY <2>2 DEF Backed
  <2>5. \A d \in Descriptor : FreezeOf(d) \/ (ReleaseOf(d) /\ frozenRec.held) => Holds(d)
    BY <2>2, <2>4 DEF Backed
  <2> QED BY <2>1, <2>3, <2>5 DEF AnyFreeze, AnyRelease, FreezeOf, ReleaseOf, Unread, Delivered
<1> HIDE DEF t1, t2, t3, t4, t5, t6, t7, r1, r2, r3, r4, r5, r6, r7
<1>7. \A a, b \in Authorities : a = b
  BY <1>1, <1>2, <1>4, <1>5
<1>8. Cardinality(Authorities) <= 1
  BY <1>7, AtMostOne
<1>9. frozenRec.held =>
         \E a \in Authorities : a[3].gen = frozenRec.gen /\ a[3].index = frozenRec.index
  <2> SUFFICES ASSUME frozenRec.held, NEW a \in {t1, t2, t3, t4, t5, t6, t7}, a[2], Holds(a[3])
               PROVE  \E b \in Authorities : b[3].gen = frozenRec.gen /\ b[3].index = frozenRec.index
    BY <1>2, <1>3, <1>6
  <2>1. a \in Authorities
    BY <1>1
  <2> QED BY <2>1 DEF Holds
<1> QED BY <1>8, <1>9 DEF OneOwner

\* The frozen epoch of capture_arena.rs across freeze, publish, release, timeouts
\* and retries: its one capability is never leaked or duplicated, its frames stay
\* readable while the worker goes on capturing, the worker rejects no command of
\* the coordinator, and begin_completion finds its slot free.
THEOREM EpochOwnership == Spec => []FrozenOwned
<1>1. EpochInv => FrozenOwned
  <2> SUFFICES ASSUME EpochInv PROVE FrozenOwned
    OBVIOUS
  <2>0. IInv /\ Custody /\ EpochsIntact
    BY DEF EpochInv
  <2>1. FrozenIntact
    <3>1. txn.desc \in Descriptor /\ guard.desc \in Descriptor
      BY <2>0 DEF IInv, TypeOK, StateTypeOK, Transaction, Holder
    <3>2. ASSUME NEW d \in Descriptor, Readable(d), NEW f \in d.start .. d.end - 1
          PROVE  mem[d.index][(f - d.base) % Capacity] = f
      <4>1. d.start \in Nat /\ d.end \in Nat
        BY DEF Descriptor
      <4>2. f \in Nat /\ InRange(f, d)
        BY <4>1, <3>2 DEF InRange
      <4> QED BY <2>0, <3>2, <4>2 DEF EpochsIntact, FrozenKept, Intact
    <3>3. (txn.some => Readable(txn.desc)) /\ (guard.some => Readable(guard.desc))
      BY DEF Readable, FreezeOf
    <3> QED BY <3>1, <3>2, <3>3 DEF FrozenIntact
  <2>2. NeverRejected
    BY <2>0 DEF Custody, SlotCoherent, NeverRejected
  <2>3. CompletionReserved
    BY <2>0, StageReplies DEF CompletionReserved, Custody, HandsByStage, OneHand, AnyFreeze, AnyRelease
  <2> QED BY <2>1, <2>2, <2>3, OneOwnerKept DEF FrozenOwned
<1> QED BY <1>1, EpochInvHolds, PTL

-----------------------------------------------------------------------------
(***************************************************************************)
(* What an arena step does to the frames.                                  *)
(***************************************************************************)
\* The cursor and the frozen range lie behind the active range.
CursorBehind ==
    /\ committed <= ActiveStart
    /\ \A d \in Descriptor : FreezeOf(d) => d.end <= base[active]

AnswersKept ==
    /\ \A d : FreezeOf(d)' <=> FreezeOf(d)
    /\ \A r : ReportOf(r)' <=> ReportOf(r)

\* An arena step leaves the frames alone ...
ArenaRests ==
    /\ AnswersKept
    /\ ActiveStart' = ActiveStart /\ base'[active'] = base[active]
    /\ UNCHANGED <<evicted, discarded>>

\* ... or writes one and forgets the oldest it has no room for ...
ArenaWrites ==
    /\ AnswersKept
    /\ ActiveStart' \in Nat /\ ActiveStart <= ActiveStart' /\ base'[active'] = base[active]
    /\ \A f \in Nat : f \in evicted' <=> f \in evicted \/ (ActiveStart <= f /\ f < ActiveStart')
    /\ UNCHANGED discarded

\* ... or freezes the active range ...
ArenaFreezes ==
    /\ \A d : ~FreezeOf(d)
    /\ \A r : ReportOf(r)' <=> ReportOf(r)
    /\ ActiveStart' = head /\ base'[active'] = head
    /\ \/ /\ FrozenNow \in Descriptor /\ FrozenNow.start = ActiveStart /\ FrozenNow.end = head
          /\ \A d : FreezeOf(d)' <=> d = FrozenNow
       \/ /\ ActiveStart = head
          /\ \A d : ~FreezeOf(d)'
    /\ UNCHANGED <<evicted, discarded>>

\* ... or throws it away and reports so.
ArenaClears ==
    /\ slot = "ready" /\ kind = "clear"
    /\ \A d : FreezeOf(d)' <=> FreezeOf(d)
    /\ \A r : ~ReportOf(r)
    /\ \A r : ReportOf(r)' <=> r = result'.report
    /\ ActiveStart' = head /\ base'[active'] = base[active]
    /\ \A f \in Nat : f \in discarded' <=> f \in discarded \/ (ActiveStart <= f /\ f < head)
    /\ UNCHANGED evicted
    /\ result'.report.id = cmd.call.acct.id
    /\ result'.report.expected = cmd.call.acct.expected
    /\ result'.report.start = ActiveStart /\ result'.report.end = head
    /\ cmd.call.acct.expected <= ActiveStart =>
         /\ result'.report.retained =
              cmd.call.acct.retained + (ActiveStart - cmd.call.acct.expected)
         /\ result'.report.cleared = cmd.call.acct.cleared + (head - ActiveStart)

\* Writing a frame.
LEMMA ConsumeEffects ==
    ASSUME IInv, Custody, Consume, CoordinatorIdle
    PROVE  ArenaWrites
<1>1. AnswersKept
  BY BystanderCustody DEF AnswersMove, AnswersKept
<1> DEFINE o == base[active] + OldestKept(localHead[active] + 1)
<1>2. /\ active' = active /\ base' = base
      /\ ActiveStart' = Larger(ActiveStart, o) /\ o \in Nat /\ o <= head + 1
      /\ ActiveStart' \in Nat /\ ActiveStart <= ActiveStart'
  BY ConsumeRange
<1>3. ActiveStart \in Nat /\ base[active] \in Nat /\ base[active] <= ActiveStart /\ head \in Nat
  BY ActiveNumbers
<1>4. /\ evicted' = evicted \cup {f \in base[active] .. head : f >= ActiveStart /\ f < o}
      /\ discarded' = discarded
  BY DEF Consume
<1> HIDE DEF o
<1>5. ASSUME NEW f \in Nat
      PROVE  f \in evicted' <=> f \in evicted \/ (ActiveStart <= f /\ f < ActiveStart')
  <2>1. f \in {g \in base[active] .. head : g >= ActiveStart /\ g < o} <=>
           ActiveStart <= f /\ f < ActiveStart'
    BY <1>2, <1>3 DEF Larger
  <2> QED BY <1>4, <2>1
<1> QED BY <1>1, <1>2, <1>4, <1>5 DEF ArenaWrites

\* Freezing.
LEMMA FreezeEffects ==
    ASSUME IInv, Custody, CursorBehind, ProcessFreeze, CoordinatorIdle
    PROVE  ArenaFreezes
<1>1. ~frozenRec.held /\ ~AnyFreeze
  BY FreezeFacts
<1>2. ActiveStart' = head /\ base'[active'] = head
  BY <1>1, FreezeRange
<1>3. \A d : ~FreezeOf(d)
  BY <1>1 DEF AnyFreeze, FreezeOf
<1>4. UNCHANGED <<evicted, discarded>> /\ slot = "ready" /\ kind = "freeze"
  BY DEF ProcessFreeze, Take
<1>5. cmd.call.committed = committed
  BY <1>4 DEF IInv, BooksBalance, RangesOK
<1>6. ActiveStart \in Nat /\ ActiveEnd = head /\ ActiveStart <= head /\ head \in Nat /\ committed \in Nat
  BY ActiveNumbers, FieldTypes DEF IInv
<1>7. FrozenNow.start = ActiveStart /\ FrozenNow.end = head
  <2>1. Larger(cmd.call.committed, ActiveStart) = ActiveStart
    BY <1>5, <1>6 DEF Larger, CursorBehind
  <2> QED BY <1>6, <2>1 DEF FrozenNow
<1>8. CASE FrozenNow.start < FrozenNow.end
  <2>1. /\ FrozenNow \in Descriptor /\ \A d : FreezeOf(d)' <=> d = FrozenNow
        /\ \A r : ReportOf(r)' <=> ReportOf(r)
    BY <1>8, FreezeFacts
  <2> QED BY <1>2, <1>3, <1>4, <1>7, <2>1 DEF ArenaFreezes
<1>9. CASE ~(FrozenNow.start < FrozenNow.end)
  <2>1. (\A d : ~FreezeOf(d)') /\ \A r : ReportOf(r)' <=> ReportOf(r)
    BY <1>9, FreezeFacts
  <2>2. ActiveStart = head
    BY <1>6, <1>7, <1>9
  <2> QED BY <1>2, <1>3, <1>4, <2>1, <2>2 DEF ArenaFreezes
<1> QED BY <1>8, <1>9

\* Clearing.
LEMMA ClearEffects ==
    ASSUME IInv, Custody, ProcessClear, CoordinatorIdle
    PROVE  ArenaClears
<1> DEFINE a == cmd.call.acct
           r == result'.report
<1>1. /\ slot = "ready" /\ kind = "clear" /\ slot' = "done" /\ result'.tag = "cleared"
      /\ r.id = a.id /\ r.expected = a.expected /\ r.start = ActiveStart /\ r.end = ActiveEnd
      /\ r.retained = a.retained + Shortfall(a.expected, ActiveStart)
      /\ r.cleared = a.cleared + Shortfall(Larger(a.expected, ActiveStart), ActiveEnd)
  BY DEF ProcessClear, Take, Publish
<1>2. UNCHANGED <<rpc, reply, recoveredClear, evicted>>
  BY DEF ProcessClear, clientVars
<1>3. /\ ActiveStart \in Nat /\ ActiveEnd = head /\ ActiveStart <= head /\ head \in Nat
      /\ base[active] \in Nat /\ base[active] <= ActiveStart
      /\ a.expected \in Nat /\ a.retained \in Nat /\ a.cleared \in Nat
  BY ActiveNumbers, FieldTypes DEF IInv, AcctFields
<1>4. ActiveStart' = head /\ UNCHANGED <<active, base>>
  BY ClearRange
<1>5. ~recoveredClear.some /\ ~Reported /\ ~Unclaimed
  BY <1>1 DEF IInv, BooksBalance, OneAnswer, InSlot, InReply, Reported, Unclaimed
<1>6. (\A q : ~ReportOf(q)) /\ \A q : ReportOf(q)' <=> q = r
  BY <1>1, <1>2, <1>5 DEF ReportOf, Reported, Unclaimed
<1>7. \A d : FreezeOf(d)' <=> FreezeOf(d)
  BY AnswerCustody
<1>8. discarded' = discarded \cup {f \in base[active] .. head : f >= ActiveStart /\ f < ActiveEnd}
  BY DEF ProcessClear
<1>9. \A f \in Nat : f \in discarded' <=> f \in discarded \/ (ActiveStart <= f /\ f < head)
  BY <1>3, <1>8
<1> HIDE DEF a, r
<1>10. a.expected <= ActiveStart =>
         r.retained = a.retained + (ActiveStart - a.expected) /\ r.cleared = a.cleared + (head - ActiveStart)
  BY <1>1, <1>3 DEF Shortfall, Larger
<1> QED BY <1>1, <1>2, <1>3, <1>4, <1>6, <1>7, <1>9, <1>10 DEF ArenaClears, a, r

\* Every step of the arena is one of the four.
LEMMA ArenaEffects ==
    ASSUME IInv, Custody, CursorBehind, ArenaStep
    PROVE  /\ CoordinatorIdle
           /\ ArenaRests \/ ArenaWrites \/ ArenaFreezes \/ ArenaClears
<1>1. CoordinatorIdle
  BY DEF ArenaStep, CoordinatorIdle
<1>2. CASE Consume
  BY <1>1, <1>2, ConsumeEffects
<1>3. CASE ProcessFreeze
  BY <1>1, <1>3, FreezeEffects
<1>4. CASE ProcessClear
  BY <1>1, <1>4, ClearEffects
<1>5. CASE Push \/ DropCumulative \/ DropIngress \/ StatusCall \/ StatusDone
  <2>1. AnswersMove /\ UNCHANGED <<ringVars, evicted, discarded>>
    BY <1>1, <1>5, BystanderCustody DEF Push, DropCumulative, DropIngress, StatusCall,
       StatusDone, Call, Finish
  <2> QED BY <1>1, <2>1, SameRange DEF AnswersMove, AnswersKept, ArenaRests
<1>6. CASE ProcessRelease
  <2>1. UNCHANGED <<evicted, discarded>>
    BY <1>6 DEF ProcessRelease
  <2> QED BY <1>1, <1>6, <2>1, ReleaseFacts, ReleaseRange DEF AnswersKept, ArenaRests
<1>7. CASE ProcessStatus
  <2>1. /\ UNCHANGED <<ringVars, evicted, discarded, rpc, reply, recoveredClear>>
        /\ slot = "ready" /\ slot' = "done" /\ result'.tag = "status"
    BY <1>7 DEF ProcessStatus, clientVars, Take, Publish, Answer
  <2>2. \A r : ReportOf(r)' <=> ReportOf(r)
    BY <2>1 DEF ReportOf, Unclaimed, Reported
  <2> QED BY <1>1, <1>7, <2>1, <2>2, AnswerCustody, SameRange DEF AnswersKept, ArenaRests
<1>8. ASSUME NEW c \in Clients, Mailbox(c) PROVE ArenaRests
  <2>1. AnswersMove /\ UNCHANGED <<ringVars, evicted, discarded>>
    BY <1>1, <1>8, MailboxMoves, MailboxOutcomes DEF Custody
  <2> QED BY <2>1, SameRange DEF AnswersMove, AnswersKept, ArenaRests
<1> QED BY <1>1, <1>2, <1>3, <1>4, <1>5, <1>6, <1>7, <1>8 DEF ArenaStep, Worker

-----------------------------------------------------------------------------
(***************************************************************************)
(* A clear and its report.                                                 *)
(***************************************************************************)
ClearUnderWay == slot = "ready" /\ kind = "clear"

ClearOutstanding == ClearUnderWay \/ \E r : ReportOf(r)

\* The pending clear describes the coordinator's state: nothing it was
\* submitted with has moved since.
ClearMatches ==
    pendingClear.some =>
        /\ pendingClear.frozen = txn.some
        /\ pendingClear.frozenEnd = txn.desc.end
        /\ pendingClear.requested = committed
        /\ pendingClear.acked <= dropCum
        /\ pendingClear.acct.expected = IF txn.some THEN txn.desc.end ELSE committed
        /\ pendingClear.acct.retained = pendRet + txn.lost
        /\ pendingClear.acct.cleared = pendClr + (txn.desc.end - txn.desc.start)

\* A report belongs to the pending clear and counts the frames between the
\* expected cursor and its own end.
ReportTracked(r) ==
    /\ pendingClear.some /\ r.id = pendingClear.acct.id
    /\ r.expected = pendingClear.acct.expected
    /\ r.expected <= r.start /\ r.start <= r.end /\ r.end <= ActiveStart
    /\ r.retained = pendingClear.acct.retained + (r.start - r.expected)
    /\ r.cleared = pendingClear.acct.cleared + (r.end - r.start)

\* A clear that was refused before it was submitted, or of which recovery finds
\* nothing, has not run.
ClearKnownUnrun ==
    \/ /\ pc = "clear"
       /\ \/ rpc["op"] \in {"idle", "lock", "stale"}
          \/ rpc["op"] = "done" /\ reply["op"].tag = "error"
    \/ pc = "recover" /\ rpc["op"] = "done" /\ reply["op"].tag = "none"

ClearsTracked ==
    /\ ClearMatches
    /\ ClearUnderWay => pendingClear.some /\ cmd.call.acct = pendingClear.acct
    /\ \A r : ReportOf(r) => ReportTracked(r)
    /\ ClearKnownUnrun => ~ClearOutstanding

\* The numbers of a report.
LEMMA ReportNumbers ==
    ASSUME IInv, NEW r, ReportOf(r)
    PROVE  ReportFields(r)
BY FieldTypes DEF IInv, ReportOf

\* The arena's range and the report's end.
LEMMA TrackedFrame ==
    ASSUME IInv, ClearsTracked, UNCHANGED pendingClear, ActiveStart' \in Nat, ActiveStart <= ActiveStart',
           NEW r, ReportOf(r)
    PROVE  ReportTracked(r)'
<1>1. ReportTracked(r) /\ r.end \in Nat /\ ActiveStart \in Nat
  BY ReportNumbers, ActiveNumbers DEF ClearsTracked, ReportFields
<1>2. r.end <= ActiveStart'
  BY <1>1 DEF ReportTracked
<1> QED BY <1>1, <1>2 DEF ReportTracked

\* A mailbox step submits the clear the operation worker asks for, or starts none.
LEMMA MailboxClears ==
    ASSUME IInv, Custody, ClearsTracked, NEW c \in Clients, Mailbox(c), CoordinatorIdle
    PROVE  /\ ClearUnderWay' => \/ ClearUnderWay /\ cmd' = cmd
                                \/ /\ rpc'["op"] = "wait" /\ pendingClear.some
                                   /\ cmd'.call.acct = pendingClear.acct
           /\ ClearKnownUnrun' => ~ClearOutstanding'
<1>0. SlotCoherent /\ CallsMatchStages /\ OneAnswer /\ req["st"].kind = "status"
  BY DEF Custody, IInv, BooksBalance, CallsMatchStages
<1>1. /\ Outcome(c) /\ OthersWait(c) /\ rpc[c] \in {"lock", "stale", "wait"}
  BY <1>0, MailboxOutcomes
<1>2. AnswersMove
  BY <1>0, MailboxMoves
<1>3. "op" \in Clients /\ "st" \in Clients /\ (c = "op" \/ c = "st")
  BY DEF Clients
<1>4. UNCHANGED <<pc, pendingClear>>
  BY DEF CoordinatorIdle, stateVars
<1>5. c = "st" => rpc'["op"] = rpc["op"] /\ reply'["op"] = reply["op"]
  BY <1>1, <1>3 DEF OthersWait
<1>6. ClearUnderWay' => \/ ClearUnderWay /\ cmd' = cmd
                        \/ /\ c = "op" /\ Submits("op") /\ req["op"].kind = "clear"
  BY <1>0, <1>1, <1>3 DEF Outcome, Refuses, Takes, Stores, HandsOver, Submits, Awaits, ClearUnderWay
<1>7. ASSUME c = "op", Submits("op"), req["op"].kind = "clear"
      PROVE  /\ rpc'["op"] = "wait" /\ pendingClear.some
             /\ cmd'.call.acct = pendingClear.acct
  <2>1. rpc["op"] # "idle" /\ rpc'["op"] = "wait" /\ cmd'.call = req["op"]
    BY <1>7 DEF Submits
  <2>2. pc = "clear"
    BY <1>0, <1>7, <2>1 DEF CallsMatchStages
  <2> QED BY <1>0, <2>1, <2>2 DEF CallsMatchStages
<1>8. ClearKnownUnrun' => ~ClearOutstanding'
  <2> SUFFICES ASSUME ClearKnownUnrun' PROVE ~ClearOutstanding'
    OBVIOUS
  <2>1. rpc'["op"] # "wait"
    BY DEF ClearKnownUnrun
  <2>2. ClearOutstanding' => ClearOutstanding
    BY <1>2, <1>6, <1>7, <2>1 DEF ClearOutstanding, AnswersMove
  <2>3. CASE c = "st"
    BY <1>4, <1>5, <2>2, <2>3 DEF ClearKnownUnrun, ClearsTracked
  <2>4. CASE c = "op"
    <3> USE DEF Outcome, Refuses, Takes, Stores, HandsOver, Submits, Awaits
    <3>1. CASE pc = "clear"
      <4>1. req["op"].kind = "clear"
        BY <1>0, <1>1, <2>4, <3>1 DEF CallsMatchStages
      <4>2. rpc["op"] # "wait"
        <5>1. SUFFICES ASSUME rpc["op"] = "wait" PROVE FALSE
          OBVIOUS
        <5>2. Refuses("op") \/ Takes("op")
          BY <1>1, <2>4, <5>1
        <5>3. rpc'["op"] = "done" /\ reply'["op"].tag # "error"
          BY <1>0, <5>1, <5>2 DEF SlotCoherent
        <5> QED BY <1>4, <3>1, <5>3 DEF ClearKnownUnrun
      <4>3. ClearKnownUnrun
        BY <1>1, <2>4, <3>1, <4>2 DEF ClearKnownUnrun
      <4> QED BY <2>2, <4>3 DEF ClearsTracked
    <3>2. CASE pc = "recover"
      <4>1. rpc'["op"] = "done" /\ reply'["op"].tag = "none"
        BY <1>4, <3>2 DEF ClearKnownUnrun
      <4>2. req["op"].kind = "recover"
        BY <1>0, <1>1, <2>4, <3>2 DEF CallsMatchStages
      <4>3. ~Takes("op")
        BY <1>0, <4>1, <4>2 DEF SlotCoherent
      <4>4. Refuses("op")
        BY <1>1, <2>4, <4>1, <4>3
      <4>5. rpc["op"] = "lock" /\ slot = "idle" /\ ~recoveredClear.some
        BY <1>1, <2>4, <4>1, <4>4
      <4>6. ~ClearOutstanding
        BY <4>5 DEF ClearOutstanding, ClearUnderWay, ReportOf, Unclaimed, Reported
      <4> QED BY <2>2, <4>6
    <3> QED BY <1>4, <3>1, <3>2 DEF ClearKnownUnrun
  <2> QED BY <1>3, <2>3, <2>4
<1> QED BY <1>6, <1>7, <1>8

\* The drop counter moves by one, upwards.
LEMMA DropsGrow ==
    ASSUME IInv, Custody, ArenaStep
    PROVE  dropCum' = dropCum \/ dropCum' = dropCum + 1
<1>1. CASE \E c \in Clients : Mailbox(c)
  BY <1>1, MailboxOutcomes DEF Custody, ingressVars
<1>2. CASE Push \/ DropCumulative \/ DropIngress \/ Worker \/ StatusCall \/ StatusDone
  BY <1>2 DEF Push, DropCumulative, DropIngress, Worker, Consume, ProcessFreeze,
     ProcessRelease, ProcessClear, ProcessStatus, StatusCall, StatusDone, Call, Finish, ingressVars
<1> QED BY <1>1, <1>2 DEF ArenaStep

\* Every step of the arena keeps the pending clear and its report together.
LEMMA ArenaTracks ==
    ASSUME IInv, Custody, CursorBehind, ClearsTracked, ArenaStep
    PROVE  ClearsTracked'
<1>1. CoordinatorIdle /\ (ArenaRests \/ ArenaWrites \/ ArenaFreezes \/ ArenaClears)
  BY ArenaEffects
<1>2. UNCHANGED <<pc, pendingClear, txn, committed, pendRet, pendClr>>
  BY <1>1 DEF CoordinatorIdle, stateVars
<1>3. dropCum' >= dropCum /\ dropCum' \in Nat /\ dropCum \in Nat /\ pendingClear.acked \in Nat
  <2>1. dropCum \in Nat /\ pendingClear.acked \in Nat
    BY FieldTypes DEF IInv, TypeOK, StateTypeOK, PendingClear
  <2>2. dropCum' = dropCum \/ dropCum' = dropCum + 1
    BY DropsGrow
  <2> QED BY <2>1, <2>2
<1>4. ClearMatches'
  BY <1>2, <1>3 DEF ClearsTracked, ClearMatches
<1>5. ActiveStart \in Nat /\ head \in Nat /\ ActiveStart <= head
  BY ActiveNumbers
<1>6. \A r : ReportOf(r)' => ReportTracked(r)'
  <2>1. CASE ArenaRests \/ ArenaWrites \/ ArenaFreezes
    <3>1. /\ \A r : ReportOf(r)' => ReportOf(r)
          /\ ActiveStart' \in Nat /\ ActiveStart <= ActiveStart'
      BY <1>5, <2>1 DEF ArenaRests, ArenaWrites, ArenaFreezes, AnswersKept
    <3> QED BY <1>2, <3>1, TrackedFrame
  <2>2. CASE ArenaClears
    <3> SUFFICES ASSUME NEW q, q = result'.report PROVE ReportTracked(q)'
      BY <2>2 DEF ArenaClears
    <3> DEFINE a == pendingClear.acct
    <3>1. pendingClear.some /\ cmd.call.acct = a
      BY <2>2 DEF ArenaClears, ClearsTracked, ClearUnderWay
    <3>2. /\ txn.desc \in Descriptor /\ base[active] \in Nat /\ base[active] <= ActiveStart
          /\ DescFields(txn.desc) /\ committed \in Nat
      BY ActiveNumbers, FieldTypes DEF IInv, TypeOK, StateTypeOK, Transaction
    <3>3. a.expected \in Nat /\ a.expected <= ActiveStart
      <4>1. CASE txn.some
        <5>1. a.expected = txn.desc.end /\ txn.desc.end <= base[active]
          BY <3>1, <3>2, <4>1 DEF ClearsTracked, ClearMatches, CursorBehind, FreezeOf
        <5> QED BY <1>5, <3>2, <5>1 DEF DescFields
      <4>2. CASE ~txn.some
        BY <3>1, <3>2, <4>2 DEF ClearsTracked, ClearMatches, CursorBehind
      <4> QED BY <4>1, <4>2
    <3> QED BY <1>2, <1>5, <2>2, <3>1, <3>3 DEF ArenaClears, ReportTracked
  <2> QED BY <1>1, <2>1, <2>2
<1>7. CASE \E c \in Clients : Mailbox(c)
  BY <1>1, <1>2, <1>4, <1>6, <1>7, MailboxClears DEF ClearsTracked
<1>8. CASE ~\E c \in Clients : Mailbox(c)
  <2>1. Push \/ DropCumulative \/ DropIngress \/ Worker \/ StatusCall \/ StatusDone
    BY <1>8 DEF ArenaStep
  <2>0. "op" \in Clients
    BY DEF Clients
  <2>2. /\ rpc'["op"] = rpc["op"] /\ reply'["op"] = reply["op"]
        /\ ClearUnderWay' => ClearUnderWay
        /\ cmd' = cmd
    <3>1. CASE Push \/ DropCumulative \/ DropIngress \/ Consume
      BY <3>1 DEF Push, DropCumulative, DropIngress, Consume, clientVars, slotVars, ClearUnderWay
    <3>2. CASE ProcessFreeze \/ ProcessRelease \/ ProcessClear \/ ProcessStatus
      <4>1. UNCHANGED <<clientVars, cmd>> /\ slot' = "done"
        BY <3>2 DEF ProcessFreeze, ProcessRelease, ProcessClear, ProcessStatus, Publish
      <4> QED BY <4>1 DEF clientVars, ClearUnderWay
    <3>3. CASE StatusCall \/ StatusDone
      BY <2>0, <3>3 DEF StatusCall, StatusDone, Call, Finish, IInv, TypeOK, ArenaTypeOK, ClientTypeOK,
         slotVars, ClearUnderWay
    <3> QED BY <2>1, <3>1, <3>2, <3>3 DEF Worker
  <2>3. ClearKnownUnrun' => ClearKnownUnrun
    BY <1>2, <2>2 DEF ClearKnownUnrun
  <2>4. ClearOutstanding' => ClearOutstanding
    BY <1>1, <2>2 DEF ClearOutstanding, ArenaRests, ArenaWrites, ArenaFreezes, ArenaClears, AnswersKept,
       ClearUnderWay
  <2> QED BY <1>2, <1>4, <1>6, <2>2, <2>3, <2>4 DEF ClearsTracked
<1> QED BY <1>7, <1>8

\* Only Clear submits a clear, and while one is pending nothing it was submitted
\* with changes.
LEMMA PendingClearMoves ==
    ASSUME IInv, Custody, Coordinator
    PROVE  \/ ~pendingClear'.some
           \/ pendingClear.some /\ UNCHANGED <<pendingClear, committed, txn, pendRet, pendClr>>
           \/ Clear
<1>1. pendingClear.some => pc \in {"idle", "recover", "clear"}
  BY StageReplies
<1>2. CASE StartPersist \/ StartClear \/ NothingToRecover \/ RecoverClear
  <2>1. UNCHANGED <<pendingClear, committed, txn, pendRet, pendClr>>
    BY <1>2 DEF StartPersist, StartClear, NothingToRecover, RecoverClear, stateVars
  <2> QED BY <2>1
<1>3. CASE RecoverClearReturn \/ ClearReturn
  <2>1. \/ UNCHANGED <<pendingClear, committed, txn, pendRet, pendClr>>
        \/ pendingClear' = NoPendingClear
    BY <1>3 DEF RecoverClearReturn, ClearReturn, CommitClear, KeepState, ForgetPendingClear, stateVars
  <2> QED BY <2>1 DEF NoPendingClear
<1>4. CASE Clear
  BY <1>4
<1>5. CASE \/ ReconcileRelease \/ ReconcileReturn \/ Reconciled
           \/ NothingIndeterminate \/ ResolveComplete \/ ResolveRolledBack \/ ResolvePending
           \/ FreezeRetained \/ Freeze \/ FreezeReturn
           \/ PublishWritten \/ PublishSkipped \/ PublishFails \/ PublishIndeterminate
           \/ Deliver \/ Finalize \/ PostRelease \/ PostReleaseReturn
  <2>1. pc \notin {"idle", "recover", "clear"}
    BY <1>5 DEF ReconcileRelease, ReconcileReturn, Reconciled, NothingIndeterminate, ResolveComplete,
       ResolveRolledBack, ResolvePending, FreezeRetained, Freeze, FreezeReturn, PublishWritten,
       PublishSkipped, PublishFails, PublishIndeterminate, Deliver, Finalize, PostRelease,
       PostReleaseReturn
  <2>2. pendingClear' = pendingClear
    BY <1>5 DEF ReconcileRelease, ReconcileReturn, Reconciled, NothingIndeterminate, ResolveComplete,
       ResolveRolledBack, ResolvePending, FreezeRetained, Freeze, FreezeReturn, PublishWritten,
       PublishSkipped, PublishFails, PublishIndeterminate, Deliver, Finalize, PostRelease,
       PostReleaseReturn, CommitWritten, CommitTransaction, DropHeldRelease, KeepState, stateVars
  <2> QED BY <1>1, <2>1, <2>2
<1> QED BY <1>2, <1>3, <1>4, <1>5 DEF Coordinator

\* A coordinator step starts no clear of the worker's and makes no report.
LEMMA NothingOutstanding ==
    ASSUME IInv, Custody, Coordinator, ~ClearOutstanding
    PROVE  ~ClearOutstanding'
<1>1. Still \/ Committed \/ Cleared
  BY CoordinatorEffects
<1>2. \A r : ReportOf(r)' => ReportOf(r)
  BY <1>1 DEF Still, Committed, Cleared
<1>3. UNCHANGED <<slot, kind>>
  <2>1. /\ UNCHANGED arenaVars => ArenaFrame
        /\ Finish("op") => ArenaFrame
        /\ \A r : Call("op", r) => ArenaFrame
    BY CoordinatorFrame DEF IInv
  <2>2. UNCHANGED arenaVars \/ Finish("op") \/ \E r : Call("op", r)
    BY DEF Coordinator, StartPersist, StartClear, NothingToRecover, RecoverClear, RecoverClearReturn,
       ReconcileRelease, ReconcileReturn, Reconciled, NothingIndeterminate, ResolveComplete,
       ResolveRolledBack, ResolvePending, FreezeRetained, Freeze, FreezeReturn, PublishWritten,
       PublishSkipped, PublishFails, PublishIndeterminate, Deliver, Finalize, Clear, ClearReturn,
       PostRelease, PostReleaseReturn, CommitWritten
  <2> QED BY <2>1, <2>2 DEF ArenaFrame
<1> QED BY <1>2, <1>3 DEF ClearOutstanding, ClearUnderWay

\* Every step of the coordinator keeps the pending clear and its report together.
LEMMA CoordinatorTracks ==
    ASSUME IInv, Custody, ClearsTracked, Coordinator
    PROVE  ClearsTracked'
<1>1. ClearMatches'
  <2>1. CASE ~pendingClear'.some
    BY <2>1 DEF ClearMatches
  <2>2. CASE pendingClear.some /\ UNCHANGED <<pendingClear, committed, txn, pendRet, pendClr>>
    <3>1. dropCum' = dropCum
      BY CoordinatorEffects DEF ingressVars
    <3> QED BY <2>2, <3>1 DEF ClearsTracked, ClearMatches
  <2>3. CASE Clear
    <3>1. /\ pendingClear' = [some |-> TRUE, acct |-> ClearAccounting, requested |-> committed,
                              frozen |-> txn.some, frozenEnd |-> txn.desc.end, acked |-> acked]
          /\ UNCHANGED <<committed, txn, pendRet, pendClr>>
      BY <2>3 DEF Clear
    <3>2. dropCum' = dropCum /\ acked <= dropCum
      BY CoordinatorEffects DEF ingressVars, IInv, BooksBalance
    <3> QED BY <3>1, <3>2 DEF ClearMatches, ClearAccounting
  <2> QED BY <2>1, <2>2, <2>3, PendingClearMoves
<1>2. CASE ~ClearOutstanding
  BY <1>1, <1>2, NothingOutstanding DEF ClearsTracked, ClearOutstanding
<1>3. CASE ClearOutstanding
  <2>1. pendingClear.some /\ ~ClearKnownUnrun
    BY <1>3 DEF ClearsTracked, ClearOutstanding, ReportTracked
  <2>2. pc \in {"idle", "recover", "clear"}
    BY <2>1, StageReplies
  <2>c. /\ UNCHANGED arenaVars => ArenaFrame /\ rpc'["op"] = rpc["op"]
        /\ Finish("op") => ArenaFrame
        /\ \A r : Call("op", r) => ArenaFrame /\ rpc'["op"] = "lock"
    BY CoordinatorFrame DEF IInv
  <2>3. ASSUME pendingClear' = pendingClear, ArenaFrame, ~ClearKnownUnrun',
               \A r : ReportOf(r)' => ReportOf(r)
        PROVE  ClearsTracked'
    <3>1. UNCHANGED <<slot, kind, cmd>> /\ ActiveStart' = ActiveStart /\ ActiveStart \in Nat
      BY <2>3, ActiveNumbers DEF ArenaFrame, ActiveStart, LocalOldest
    <3>2. \A r : ReportOf(r)' => ReportTracked(r)'
      BY <2>3, <3>1, TrackedFrame
    <3> QED BY <1>1, <2>3, <3>1, <3>2 DEF ClearsTracked, ClearUnderWay
  <2>4. \A r : ReportOf(r)' => ReportOf(r)
    BY CoordinatorEffects DEF Still, Committed, Cleared
  <2>5. CASE StartPersist \/ StartClear
    <3>1. UNCHANGED arenaVars /\ pendingClear' = pendingClear /\ pc' = "recover" /\ pc = "idle"
      BY <2>5 DEF StartPersist, StartClear, stateVars
    <3>2. rpc["op"] = "idle"
      BY <3>1, StageReplies
    <3> QED BY <2>3, <2>4, <2>c, <3>1, <3>2 DEF ClearKnownUnrun
  <2>6. CASE RecoverClear
    <3>1. pendingClear' = pendingClear /\ pc' = "recover" /\ \E r : Call("op", r)
      BY <2>6 DEF RecoverClear, stateVars
    <3> QED BY <2>3, <2>4, <2>c, <3>1 DEF ClearKnownUnrun
  <2>7. CASE Clear
    <3>1. pc = "clear" /\ rpc["op"] = "idle"
      BY <2>7 DEF Clear, Call
    <3> QED BY <2>1, <3>1 DEF ClearKnownUnrun
  <2>8. CASE RecoverClearReturn \/ ClearReturn
    <3>1. Finish("op") /\ ArenaFrame /\ rpc["op"] = "done"
      BY <2>8, <2>c DEF RecoverClearReturn, ClearReturn, Finish
    <3>2. CASE KeepState /\ pc' = "idle"
      BY <2>3, <2>4, <3>1, <3>2 DEF KeepState, stateVars, ClearKnownUnrun
    <3>3. CASE Cleared
      <4>1. ~ClearUnderWay /\ \A r : ~ReportOf(r)'
        BY <3>3 DEF Cleared, Reported, ClearUnderWay, IInv, BooksBalance, OneAnswer, InSlot, InReply
      <4>2. ~ClearOutstanding'
        BY <3>1, <4>1 DEF ClearOutstanding, ClearUnderWay, ArenaFrame
      <4> QED BY <1>1, <4>2 DEF ClearsTracked, ClearOutstanding
    <3>4. CASE /\ CommitClear(reply["op"].report) /\ reply["op"].tag = "cleared"
               /\ ValidReport(reply["op"].report)
      <4>1. Reported
        BY <3>1, <3>4 DEF Reported
      <4>2. Still \/ Committed \/ Cleared
        BY CoordinatorEffects
      <4>3. ~Still
        BY <3>4, <4>1 DEF Still
      <4>4. ~Committed
        BY <2>2 DEF Committed
      <4> QED BY <3>3, <4>2, <4>3, <4>4
    <3>5. CASE /\ ForgetPendingClear
               /\ \/ pc = "recover" /\ reply["op"].tag = "none"
                  \/ pc = "clear" /\ reply["op"].tag = "error"
      BY <2>1, <3>1, <3>5 DEF ClearKnownUnrun
    <3> QED BY <2>8, <3>2, <3>4, <3>5 DEF RecoverClearReturn, ClearReturn, NotSubmitted, Goto
  <2> QED BY <2>1, <2>2, <2>5, <2>6, <2>7, <2>8 DEF Coordinator, NothingToRecover, ReconcileRelease,
             ReconcileReturn, Reconciled, NothingIndeterminate, ResolveComplete, ResolveRolledBack,
             ResolvePending, FreezeRetained, Freeze, FreezeReturn, PublishWritten, PublishSkipped,
             PublishFails, PublishIndeterminate, Deliver, Finalize, PostRelease, PostReleaseReturn
<1> QED BY <1>2, <1>3

\* A committed clear ends where the active range begins, or before.
LEMMA ClearedReport ==
    ASSUME IInv, ClearsTracked, Cleared
    PROVE  /\ ReportOf(reply["op"].report) /\ ReportFields(reply["op"].report)
           /\ ReportTracked(reply["op"].report)
           /\ \A r : ReportOf(r) => r = reply["op"].report
           /\ \A d : FreezeOf(d) <=> txn.some /\ d = txn.desc
           /\ pendingClear.frozen = txn.some
           /\ committed' = reply["op"].report.end
<1>1. Reported /\ InReply /\ CommitClear(reply["op"].report)
  BY DEF Cleared, Reported, InReply
<1>2. ~InSlot /\ ~recoveredFrozen.some /\ ~recoveredClear.some
  BY <1>1 DEF IInv, BooksBalance, OneAnswer
<1>3. ReportOf(reply["op"].report) /\ \A r : ReportOf(r) => r = reply["op"].report
  BY <1>1, <1>2 DEF ReportOf, InSlot, Unclaimed
<1>4. \A d : FreezeOf(d) <=> txn.some /\ d = txn.desc
  BY <1>1, <1>2 DEF FreezeOf, Unread, Delivered, Reported, InSlot
<1>5. ReportTracked(reply["op"].report)
  BY <1>3 DEF ClearsTracked
<1>6. pendingClear.frozen = txn.some
  BY <1>5 DEF ReportTracked, ClearsTracked, ClearMatches
<1>7. committed' = reply["op"].report.end
  BY <1>1 DEF CommitClear
<1> QED BY <1>3, <1>4, <1>5, <1>6, <1>7, ReportNumbers

\* No step moves the cursor or a frozen range past the start of the active range.
LEMMA BehindKept ==
    ASSUME IInv, Custody, CursorBehind, ClearsTracked, Coordinator \/ ArenaStep
    PROVE  CursorBehind'
<1>0. /\ ActiveStart \in Nat /\ base[active] \in Nat /\ base[active] <= ActiveStart /\ committed \in Nat
      /\ head \in Nat /\ committed <= head
  BY ActiveNumbers, FieldTypes DEF IInv, BooksBalance, RangesOK
<1>1. CASE ArenaStep
  <2>1. CoordinatorIdle /\ (ArenaRests \/ ArenaWrites \/ ArenaFreezes \/ ArenaClears)
    BY <1>1, ArenaEffects
  <2>2. committed' = committed
    BY <2>1 DEF CoordinatorIdle, stateVars
  <2>3. CASE ArenaRests \/ ArenaWrites \/ ArenaClears
    <3>1. /\ ActiveStart' \in Nat /\ ActiveStart <= ActiveStart' /\ base'[active'] = base[active]
          /\ \A d : FreezeOf(d)' <=> FreezeOf(d)
      BY <1>0, <2>3, ActiveNumbers DEF ArenaRests, ArenaWrites, ArenaClears, AnswersKept
    <3>2. committed <= ActiveStart'
      BY <1>0, <3>1 DEF CursorBehind
    <3> QED BY <2>2, <3>1, <3>2 DEF CursorBehind
  <2>4. CASE ArenaFreezes
    BY <1>0, <2>2, <2>4 DEF ArenaFreezes, CursorBehind
  <2> QED BY <2>1, <2>3, <2>4
<1>2. CASE Coordinator
  <2>1. UNCHANGED ringVars /\ (Still \/ Committed \/ Cleared)
    BY <1>2, CoordinatorEffects
  <2>2. ActiveStart' = ActiveStart /\ base'[active'] = base[active]
    BY <2>1, SameRange
  <2>3. CASE Still
    BY <2>2, <2>3 DEF Still, CursorBehind
  <2>4. CASE Committed
    <3>1. committed' = txn.desc.end /\ txn.some /\ txn.desc \in Descriptor /\ DescFields(txn.desc)
      BY <2>4, FieldTypes DEF Committed, CommitTransaction, IInv, TypeOK, StateTypeOK, Transaction
    <3>2. txn.desc.end <= base[active]
      BY <3>1 DEF CursorBehind, FreezeOf
    <3>3. committed' <= ActiveStart
      BY <1>0, <3>1, <3>2 DEF DescFields
    <3> QED BY <2>2, <2>4, <3>3 DEF Committed, CursorBehind
  <2>5. CASE Cleared
    <3>1. committed' <= ActiveStart
      BY <2>5, ClearedReport DEF ReportTracked
    <3> QED BY <2>2, <2>5, <3>1 DEF Cleared, CursorBehind
  <2> QED BY <2>1, <2>3, <2>4, <2>5
<1> QED BY <1>1, <1>2

-----------------------------------------------------------------------------
(***************************************************************************)
(* The fate of every frame.                                                *)
(***************************************************************************)
\* A frame that is frozen and neither committed nor cleared yet.
Suspended(f) == \E d \in Descriptor : FreezeOf(d) /\ InRange(f, d)

OneFate(f) ==
    /\ f \in written => f \notin skipped /\ f \notin evicted /\ f \notin discarded
    /\ f \in skipped => f \notin evicted /\ f \notin discarded
    /\ f \in evicted => f \notin discarded

Gone(f) == f \in written \/ f \in skipped \/ f \in evicted \/ f \in discarded

\* A frame the active range has passed has met its fate, unless it is frozen.
Fates ==
    \A f \in Nat :
        /\ OneFate(f)
        /\ f \in written \/ f \in skipped => f < committed
        /\ Gone(f) <=> f < ActiveStart /\ ~Suspended(f)

\* What is suspended lies behind the active range.
LEMMA SuspendedBehind ==
    ASSUME IInv, CursorBehind, NEW f \in Nat, Suspended(f)
    PROVE  committed <= f /\ f < ActiveStart
<1>1. PICK d \in Descriptor : FreezeOf(d) /\ InRange(f, d)
  BY DEF Suspended
<1>2. d.start \in Nat /\ d.end \in Nat /\ committed \in Nat
  BY FieldTypes DEF Descriptor, IInv
<1>3. d.end <= base[active] /\ base[active] \in Nat /\ base[active] <= ActiveStart /\ ActiveStart \in Nat
  BY <1>1, ActiveNumbers DEF CursorBehind
<1>4. committed <= d.start
  BY <1>1 DEF FreezeOf, Unread, Delivered, IInv, BooksBalance, RangesOK, RangeOK
<1> QED BY <1>1, <1>2, <1>3, <1>4 DEF InRange

\* The transaction's frames are those suspended.
LEMMA SuspendedTransaction ==
    ASSUME IInv, txn.some
    PROVE  /\ \A d : FreezeOf(d) <=> d = txn.desc
           /\ txn.desc \in Descriptor /\ DescFields(txn.desc)
           /\ \A f \in Nat : Suspended(f) <=> InRange(f, txn.desc)
           /\ \A f \in Nat : f \in Frames(txn.desc) <=> InRange(f, txn.desc)
<1>1. txn.desc \in Descriptor /\ DescFields(txn.desc) /\ head \in Nat
  BY FieldTypes DEF IInv, TypeOK, StateTypeOK, Transaction
<1>2. \A d : FreezeOf(d) <=> d = txn.desc
  BY DEF FreezeOf, Unread, Delivered, IInv, BooksBalance, OneAnswer
<1>3. \A f \in Nat : Suspended(f) <=> InRange(f, txn.desc)
  BY <1>1, <1>2 DEF Suspended
<1>4. txn.desc.end <= head
  BY DEF IInv, BooksBalance, RangesOK, RangeOK
<1>5. ASSUME NEW f \in Nat PROVE f \in Frames(txn.desc) <=> InRange(f, txn.desc)
  BY <1>1, <1>4 DEF Frames, InRange, DescFields
<1> QED BY <1>1, <1>2, <1>3, <1>5

\* A frame that is written, forgotten, frozen or cleared meets one fate.
LEMMA ArenaFates ==
    ASSUME IInv, Custody, CursorBehind, Fates, ArenaStep
    PROVE  Fates'
<1>1. CoordinatorIdle /\ (ArenaRests \/ ArenaWrites \/ ArenaFreezes \/ ArenaClears)
  BY ArenaEffects
<1>2. UNCHANGED <<committed, written, skipped>>
  BY <1>1 DEF CoordinatorIdle, stateVars, history
<1>3. ActiveStart \in Nat /\ head \in Nat /\ ActiveStart <= head /\ committed \in Nat
      /\ committed <= ActiveStart
  BY ActiveNumbers, FieldTypes DEF IInv, CursorBehind
<1> SUFFICES ASSUME NEW f \in Nat
             PROVE  /\ OneFate(f)'
                    /\ (f \in written \/ f \in skipped => f < committed)'
                    /\ Gone(f)' <=> f < ActiveStart' /\ ~Suspended(f)'
  BY DEF Fates
<1>4. /\ OneFate(f)
      /\ f \in written \/ f \in skipped => f < committed
      /\ Gone(f) <=> f < ActiveStart /\ ~Suspended(f)
  BY DEF Fates
<1>5. Suspended(f) => f < ActiveStart
  BY SuspendedBehind
<1>6. CASE ArenaRests
  <2>1. UNCHANGED <<evicted, discarded>> /\ ActiveStart' = ActiveStart
    BY <1>6 DEF ArenaRests
  <2>2. Suspended(f)' <=> Suspended(f)
    BY <1>6 DEF ArenaRests, AnswersKept, Suspended, InRange
  <2> QED BY <1>2, <1>4, <2>1, <2>2 DEF OneFate, Gone
<1>7. CASE ArenaWrites
  <2>1. /\ f \in evicted' <=> f \in evicted \/ (ActiveStart <= f /\ f < ActiveStart')
        /\ discarded' = discarded /\ ActiveStart' \in Nat /\ ActiveStart <= ActiveStart'
    BY <1>7 DEF ArenaWrites
  <2>2. Suspended(f)' <=> Suspended(f)
    BY <1>7 DEF ArenaWrites, AnswersKept, Suspended, InRange
  <2> QED BY <1>2, <1>3, <1>4, <1>5, <2>1, <2>2 DEF OneFate, Gone
<1>8. CASE ArenaClears
  <2>1. /\ f \in discarded' <=> f \in discarded \/ (ActiveStart <= f /\ f < head)
        /\ evicted' = evicted /\ ActiveStart' = head
    BY <1>8 DEF ArenaClears
  <2>2. Suspended(f)' <=> Suspended(f)
    BY <1>8 DEF ArenaClears, Suspended, InRange
  <2> QED BY <1>2, <1>3, <1>4, <1>5, <2>1, <2>2 DEF OneFate, Gone
<1>9. CASE ArenaFreezes
  <2>1. UNCHANGED <<evicted, discarded>> /\ ActiveStart' = head /\ ~Suspended(f)
    BY <1>9 DEF ArenaFreezes, Suspended
  <2>2. Suspended(f)' <=> ActiveStart <= f /\ f < head
    <3>1. CASE /\ FrozenNow \in Descriptor /\ FrozenNow.start = ActiveStart /\ FrozenNow.end = head
               /\ \A d : FreezeOf(d)' <=> d = FrozenNow
      BY <3>1 DEF Suspended, InRange
    <3>2. CASE ActiveStart = head /\ \A d : ~FreezeOf(d)'
      BY <1>3, <3>2 DEF Suspended
    <3> QED BY <1>9, <3>1, <3>2 DEF ArenaFreezes
  <2> QED BY <1>2, <1>3, <1>4, <2>1, <2>2 DEF OneFate, Gone
<1> QED BY <1>1, <1>6, <1>7, <1>8, <1>9

\* A committed transaction is written or skipped, a cleared one discarded, and
\* nothing else decides a frame's fate.
LEMMA CoordinatorFates ==
    ASSUME IInv, Custody, CursorBehind, ClearsTracked, Fates, Coordinator
    PROVE  Fates'
<1>1. UNCHANGED <<ringVars, evicted>> /\ (Still \/ Committed \/ Cleared)
  BY CoordinatorEffects
<1>2. ActiveStart' = ActiveStart
  BY <1>1, SameRange
<1>3. ActiveStart \in Nat /\ committed \in Nat /\ committed <= ActiveStart /\ committed' \in Nat
      /\ committed' >= committed
  <2>1. committed' \in Nat
    BY CoordinatorTypes DEF IInv, TypeOK, StateTypeOK
  <2> QED BY <2>1, ActiveNumbers, FieldTypes, CoordinatorKeeps DEF IInv, CursorBehind
<1> SUFFICES ASSUME NEW f \in Nat
             PROVE  /\ OneFate(f)'
                    /\ (f \in written \/ f \in skipped => f < committed)'
                    /\ Gone(f)' <=> f < ActiveStart' /\ ~Suspended(f)'
  BY DEF Fates
<1>4. /\ OneFate(f)
      /\ f \in written \/ f \in skipped => f < committed
      /\ Gone(f) <=> f < ActiveStart /\ ~Suspended(f)
  BY DEF Fates
<1>5. Suspended(f) => f < ActiveStart
  BY SuspendedBehind
<1>6. CASE Still
  <2>1. UNCHANGED <<committed, written, skipped, discarded>>
    BY <1>6 DEF Still
  <2>2. Suspended(f)' <=> Suspended(f)
    BY <1>6 DEF Still, Suspended, InRange
  <2> QED BY <1>1, <1>2, <1>4, <2>1, <2>2 DEF OneFate, Gone
<1>7. CASE Committed
  <2>1. /\ txn.some /\ committed' = txn.desc.end /\ discarded' = discarded
        /\ \/ written' = written \cup Frames(txn.desc) /\ skipped' = skipped
           \/ skipped' = skipped \cup Frames(txn.desc) /\ written' = written
    BY <1>7 DEF Committed, CommitTransaction
  <2>2. ~Suspended(f)'
    BY <1>7 DEF Committed, Suspended
  <2>3. (f \in Frames(txn.desc) <=> Suspended(f)) /\ (Suspended(f) => f < committed')
    BY <2>1, SuspendedTransaction DEF InRange
  <2> QED BY <1>1, <1>2, <1>3, <1>4, <1>5, <2>1, <2>2, <2>3 DEF OneFate, Gone
<1>8. CASE Cleared
  <2>1. UNCHANGED <<written, skipped>>
    BY <1>8 DEF Cleared, CommitClear, history
  <2>2. ~Suspended(f)'
    BY <1>8 DEF Cleared, Suspended
  <2>3. CASE txn.some
    <3>1. discarded' = discarded \cup Frames(txn.desc)
      BY <1>8, <2>3, ClearedReport DEF Cleared, CommitClear, DiscardTransaction
    <3>2. f \in Frames(txn.desc) <=> Suspended(f)
      BY <2>3, SuspendedTransaction
    <3> QED BY <1>1, <1>2, <1>3, <1>4, <1>5, <2>1, <2>2, <3>1, <3>2 DEF OneFate, Gone
  <2>4. CASE ~txn.some
    <3>1. discarded' = discarded
      BY <1>8, <2>4, ClearedReport DEF Cleared, CommitClear
    <3>2. ~Suspended(f)
      BY <1>8, <2>4, ClearedReport DEF Suspended
    <3> QED BY <1>1, <1>2, <1>3, <1>4, <2>1, <2>2, <3>1, <3>2 DEF OneFate, Gone
  <2> QED BY <2>3, <2>4
<1> QED BY <1>1, <1>6, <1>7, <1>8

-----------------------------------------------------------------------------
(***************************************************************************)
(* Losses by cause.                                                        *)
(***************************************************************************)
\* While nothing was dropped, the counts behind the cursor are those of the
\* causes, and a frame discarded beyond it is in the report under way.
Causes == dropCum = 0 =>
    /\ LossByCause
    /\ \A f \in Nat : f \in discarded /\ f >= committed =>
         \E r : ReportOf(r) /\ r.start <= f /\ f < r.end
    /\ \A f \in Nat : \A r : ReportOf(r) /\ r.start <= f /\ f < r.end => f \in discarded

\* T is S up to d: what lay behind c, and the runs from a to b and from x to y.
Runs(S, T, c, d, a, b, x, y) ==
    /\ c \in Nat /\ d \in Nat /\ a \in Nat /\ b \in Nat /\ x \in Nat /\ y \in Nat
    /\ c <= a /\ a <= b /\ b <= x /\ x <= y /\ y <= d
    /\ \A f \in Nat : f \in T /\ f < d <=>
          (f \in S /\ f < c) \/ (a <= f /\ f < b) \/ (x <= f /\ f < y)

\* Two runs of frames beyond the cursor, added to what lies behind it.
LEMMA RunsAdded ==
    ASSUME NEW S, NEW T, NEW c, NEW d, NEW a, NEW b, NEW x, NEW y, Runs(S, T, c, d, a, b, x, y)
    PROVE  Cardinality(T \cap 0 .. d - 1) = Cardinality(S \cap 0 .. c - 1) + (b - a) + (y - x)
<1> USE DEF Runs
<1> DEFINE A == S \cap 0 .. c - 1
           B == a .. b - 1
           X == x .. y - 1
<1>1. IsFiniteSet(0 .. c - 1)
  BY FS_Interval
<1>2. IsFiniteSet(A) /\ Cardinality(A) \in Nat
  <2>1. A \in SUBSET (0 .. c - 1)
    OBVIOUS
  <2>2. IsFiniteSet(A)
    BY <1>1, <2>1, FS_Subset
  <2> QED BY <2>2, FS_CardinalityType
<1>3. IsFiniteSet(B) /\ Cardinality(B) = b - a
  <2>1. a \in Int /\ b - 1 \in Int
    OBVIOUS
  <2>2. IsFiniteSet(B) /\ Cardinality(B) = IF a > b - 1 THEN 0 ELSE (b - 1) - a + 1
    BY <2>1, FS_Interval
  <2> QED BY <2>2
<1>4. IsFiniteSet(X) /\ Cardinality(X) = y - x
  <2>1. x \in Int /\ y - 1 \in Int
    OBVIOUS
  <2>2. IsFiniteSet(X) /\ Cardinality(X) = IF x > y - 1 THEN 0 ELSE (y - 1) - x + 1
    BY <2>1, FS_Interval
  <2> QED BY <2>2
<1>5. T \cap 0 .. d - 1 = (A \cup B) \cup X
  <2>1. ASSUME NEW f \in T \cap 0 .. d - 1 PROVE f \in (A \cup B) \cup X
    <3>1. f \in Nat /\ f \in T /\ f < d
      BY <2>1
    <3>2. (f \in S /\ f < c) \/ (a <= f /\ f < b) \/ (x <= f /\ f < y)
      BY <3>1
    <3> QED BY <3>1, <3>2
  <2>2. ASSUME NEW f \in (A \cup B) \cup X PROVE f \in T \cap 0 .. d - 1
    <3>1. f \in Nat /\ ((f \in S /\ f < c) \/ (a <= f /\ f < b) \/ (x <= f /\ f < y))
      BY <2>2
    <3>2. f \in T /\ f < d
      BY <3>1
    <3> QED BY <3>1, <3>2
  <2> QED BY <2>1, <2>2
<1>6. A \cap B = {} /\ (A \cup B) \cap X = {}
  OBVIOUS
<1> HIDE DEF A, B, X
<1>7. IsFiniteSet(A \cup B) /\ Cardinality(A \cup B) = Cardinality(A) + (b - a)
  BY <1>2, <1>3, <1>6, FS_Union, FS_EmptySet
<1>8. Cardinality((A \cup B) \cup X) = Cardinality(A) + (b - a) + (y - x)
  <2> DEFINE U == A \cup B
  <2>1. IsFiniteSet(U) /\ Cardinality(U) = Cardinality(A) + (b - a) /\ U \cap X = {}
    BY <1>6, <1>7
  <2> HIDE DEF U
  <2>2. Cardinality(U \cup X) = Cardinality(U) + Cardinality(X) - Cardinality({})
    BY <1>4, <2>1, FS_Union
  <2>3. Cardinality(U \cup X) = Cardinality(A) + (b - a) + (y - x)
    BY <1>2, <1>4, <2>1, <2>2, FS_EmptySet
  <2> QED BY <2>3 DEF U
<1> QED BY <1>2, <1>5, <1>8 DEF A

\* What happens at or beyond the cursor changes no count behind it.
LEMMA SameBehind ==
    ASSUME NEW S, NEW T, NEW c \in Nat, \A f \in Nat : f < c => (f \in T <=> f \in S)
    PROVE  T \cap 0 .. c - 1 = S \cap 0 .. c - 1
<1>1. \A f \in 0 .. c - 1 : f \in Nat /\ f < c
  OBVIOUS
<1> QED BY <1>1

\* The arena decides the fate of frames beyond the cursor only, and reports what
\* it clears.
LEMMA ArenaCauses ==
    ASSUME IInv, Custody, CursorBehind, ClearsTracked, Causes, ArenaStep
    PROVE  Causes'
<1>1. CoordinatorIdle /\ (ArenaRests \/ ArenaWrites \/ ArenaFreezes \/ ArenaClears)
  BY ArenaEffects
<1>2. UNCHANGED <<committed, repRet, pendRet, repClr, pendClr>>
  BY <1>1 DEF CoordinatorIdle, stateVars, history
<1>3. ActiveStart \in Nat /\ head \in Nat /\ ActiveStart <= head /\ committed \in Nat
      /\ committed <= ActiveStart
  BY ActiveNumbers, FieldTypes DEF IInv, CursorBehind
<1> SUFFICES ASSUME dropCum' = 0
             PROVE  (/\ LossByCause
                     /\ \A f \in Nat : f \in discarded /\ f >= committed =>
                          \E r : ReportOf(r) /\ r.start <= f /\ f < r.end
                     /\ \A f \in Nat : \A r :
                          ReportOf(r) /\ r.start <= f /\ f < r.end => f \in discarded)'
  BY DEF Causes
<1>4. dropCum = 0
  <2>1. dropCum \in Nat
    BY FieldTypes DEF IInv
  <2>2. dropCum' = dropCum \/ dropCum' = dropCum + 1
    BY DropsGrow
  <2> QED BY <2>1, <2>2
<1>5. /\ repRet + pendRet = Cardinality(evicted \cap 0 .. committed - 1)
      /\ repClr + pendClr = Cardinality(discarded \cap 0 .. committed - 1)
      /\ \A f \in Nat : f \in discarded /\ f >= committed =>
           \E r : ReportOf(r) /\ r.start <= f /\ f < r.end
      /\ \A f \in Nat : \A r : ReportOf(r) /\ r.start <= f /\ f < r.end => f \in discarded
  BY <1>4 DEF Causes, LossByCause
<1>6. ASSUME NEW f \in Nat, f < committed
      PROVE  (f \in evicted' <=> f \in evicted) /\ (f \in discarded' <=> f \in discarded)
  <2>1. f < ActiveStart
    BY <1>3, <1>6
  <2> QED BY <1>1, <1>3, <2>1 DEF ArenaRests, ArenaWrites, ArenaFreezes, ArenaClears
<1>7. LossByCause'
  <2>1. /\ evicted' \cap 0 .. committed - 1 = evicted \cap 0 .. committed - 1
        /\ discarded' \cap 0 .. committed - 1 = discarded \cap 0 .. committed - 1
    BY <1>3, <1>6, SameBehind
  <2> QED BY <1>2, <1>5, <2>1 DEF LossByCause
<1>8. CASE ArenaRests \/ ArenaWrites \/ ArenaFreezes
  <2>1. discarded' = discarded /\ \A r : ReportOf(r)' <=> ReportOf(r)
    BY <1>8 DEF ArenaRests, ArenaWrites, ArenaFreezes, AnswersKept
  <2> QED BY <1>2, <1>5, <1>7, <2>1
<1>9. CASE ArenaClears
  <2>1. /\ \A r : ~ReportOf(r)
        /\ \A r : ReportOf(r)' <=> r = result'.report
        /\ result'.report.start = ActiveStart /\ result'.report.end = head
        /\ \A f \in Nat : f \in discarded' <=> f \in discarded \/ (ActiveStart <= f /\ f < head)
    BY <1>9 DEF ArenaClears
  <2>2. ASSUME NEW f \in Nat, f \in discarded', f >= committed'
        PROVE  (\E r : ReportOf(r) /\ r.start <= f /\ f < r.end)'
    <3>1. ActiveStart <= f /\ f < head
      BY <1>2, <1>5, <2>1, <2>2
    <3> QED BY <2>1, <3>1
  <2>3. ASSUME NEW f \in Nat, NEW r, ReportOf(r)', r.start <= f, f < r.end
        PROVE  f \in discarded'
    <3>1. r.start = ActiveStart /\ r.end = head
      BY <2>1, <2>3
    <3> QED BY <2>1, <2>3, <3>1
  <2> QED BY <1>7, <2>2, <2>3
<1> QED BY <1>1, <1>8, <1>9

\* Without drops the coordinator accepts the report of its clear.
LEMMA ReportAccepted ==
    ASSUME IInv, ClearsTracked, CursorBehind, dropCum = 0, Reported
    PROVE  ValidReport(reply["op"].report)
<1> DEFINE r == reply["op"].report
<1>1. ReportOf(r) /\ ReportTracked(r)
  BY DEF ReportOf, ClearsTracked
<1>2. /\ pendingClear.frozen = txn.some /\ pendingClear.frozenEnd = txn.desc.end
      /\ pendingClear.requested = committed /\ pendingClear.acked <= dropCum
      /\ pendingClear.acct.expected = IF txn.some THEN txn.desc.end ELSE committed
  BY <1>1 DEF ReportTracked, ClearsTracked, ClearMatches
<1>3. r.dropped \in Nat /\ pendingClear.acked \in Nat /\ committed \in Nat
  <2>1. "op" \in Clients
    BY DEF Clients
  <2> QED BY <2>1 DEF IInv, TypeOK, ArenaTypeOK, ClientTypeOK, StateTypeOK, Reply, Report, PendingClear
<1>4. r.dropped >= pendingClear.acked
  BY <1>2, <1>3
<1>5. committed <= pendingClear.acct.expected
  BY <1>1 DEF ReportTracked, IInv, BooksBalance, ReportsOK
<1> QED BY <1>1, <1>2, <1>4, <1>5 DEF ValidReport, ReportTracked

\* The losses of a committed transaction are the frames the ring overwrote
\* before the freeze.
LEMMA CommittedCauses ==
    ASSUME IInv, Custody, CursorBehind, ClearsTracked, Fates, Causes, Committed,
           dropCum = 0, UNCHANGED <<dropCum, evicted>>
    PROVE  Causes'
<1> DEFINE s == txn.desc.start
           e == txn.desc.end
<1>1. /\ txn.some /\ CommitTransaction /\ discarded' = discarded /\ committed' = e
      /\ pc \in {"publish", "resolve"} /\ \A r : ReportOf(r)' <=> ReportOf(r)
  BY DEF Committed, CommitTransaction
<1>2. /\ committed \in Nat /\ s \in Nat /\ e \in Nat /\ committed <= s /\ s <= e
      /\ txn.lost = s - committed
      /\ repRet \in Nat /\ pendRet \in Nat /\ repClr \in Nat /\ pendClr \in Nat
  BY <1>1, FieldTypes DEF IInv, BooksBalance, RangesOK, RangeOK, DescFields
<1>3. \A r : ~ReportOf(r)
  <2>1. ~pendingClear.some
    BY <1>1, StageReplies
  <2> QED BY <2>1 DEF ClearsTracked, ReportTracked
<1>4. /\ repRet + pendRet = Cardinality(evicted \cap 0 .. committed - 1)
      /\ repClr + pendClr = Cardinality(discarded \cap 0 .. committed - 1)
      /\ \A f \in Nat : f \in discarded => ~(f >= committed)
  BY <1>3 DEF Causes, LossByCause
<1>5. \A f \in Nat : Suspended(f) <=> s <= f /\ f < e
  BY <1>1, SuspendedTransaction DEF InRange
<1>6. e <= ActiveStart /\ ActiveStart \in Nat
  <2>1. e <= base[active]
    BY <1>1, SuspendedTransaction DEF CursorBehind
  <2> QED BY <1>2, <2>1, ActiveNumbers
<1> HIDE DEF s, e
<1>7. ASSUME NEW f \in Nat
      PROVE  f \in evicted /\ f < e <=>
               (f \in evicted /\ f < committed) \/ (committed <= f /\ f < s) \/ (e <= f /\ f < e)
  <2>1. /\ OneFate(f)
        /\ f \in written \/ f \in skipped => f < committed
        /\ Gone(f) <=> f < ActiveStart /\ ~Suspended(f)
    BY DEF Fates
  <2>2. CASE f < committed
    BY <1>2, <2>2
  <2>3. CASE committed <= f /\ f < s
    <3>1. f < ActiveStart /\ ~Suspended(f) /\ f \notin discarded /\ f < e
      BY <1>2, <1>4, <1>5, <1>6, <2>3
    <3>2. f \in evicted
      BY <1>2, <2>1, <2>3, <3>1 DEF Gone
    <3> QED BY <2>3, <3>1, <3>2
  <2>4. CASE s <= f /\ f < e
    <3>1. f \notin evicted
      BY <1>5, <2>1, <2>4 DEF Gone
    <3> QED BY <1>2, <2>4, <3>1
  <2>5. CASE e <= f
    BY <1>2, <2>5
  <2> QED BY <1>2, <2>2, <2>3, <2>4, <2>5
<1>8. Cardinality(evicted \cap 0 .. e - 1) = repRet + pendRet + (s - committed)
  <2>0. Runs(evicted, evicted, committed, e, committed, s, e, e)
    BY <1>2, <1>7 DEF Runs
  <2>1. Cardinality(evicted \cap 0 .. e - 1) =
          Cardinality(evicted \cap 0 .. committed - 1) + (s - committed) + (e - e)
    BY <2>0, RunsAdded
  <2> QED BY <1>2, <1>4, <2>1
<1>9. Cardinality(discarded \cap 0 .. e - 1) = repClr + pendClr
  <2>1. discarded \cap 0 .. e - 1 = discarded \cap 0 .. committed - 1
    <3>1. \A f \in 0 .. e - 1 : f \in discarded => f \in Nat /\ f \in 0 .. committed - 1
      BY <1>2, <1>4
    <3>2. \A f \in 0 .. committed - 1 : f \in 0 .. e - 1
      BY <1>2
    <3> QED BY <3>1, <3>2
  <2> QED BY <1>4, <2>1
<1>10. /\ repRet' + pendRet' = repRet + pendRet + (s - committed)
       /\ repClr' + pendClr' = repClr + pendClr
  BY <1>1, <1>2 DEF CommitTransaction, CommitLosses
<1>11. LossByCause'
  BY <1>1, <1>8, <1>9, <1>10 DEF LossByCause
<1>12. \A f \in Nat : f \in discarded' => ~(f >= committed')
  BY <1>1, <1>2, <1>4
<1> QED BY <1>1, <1>3, <1>11, <1>12 DEF Causes

\* The losses of a committed clear are the frames the ring overwrote up to the
\* cleared range, and its cleared frames are the transaction's and that range.
LEMMA ClearedCauses ==
    ASSUME IInv, Custody, CursorBehind, ClearsTracked, Fates, Causes, Cleared,
           dropCum = 0, UNCHANGED <<dropCum, evicted>>
    PROVE  Causes'
<1> DEFINE r == reply["op"].report
           s == IF txn.some THEN txn.desc.start ELSE committed
           e == r.expected
<1>1. /\ ReportOf(r) /\ ReportFields(r) /\ ReportTracked(r)
      /\ \A q : ReportOf(q) => q = r
      /\ \A d : FreezeOf(d) <=> txn.some /\ d = txn.desc
      /\ pendingClear.frozen = txn.some
      /\ committed' = r.end
  BY ClearedReport
<1>2. /\ CommitClear(r) /\ \A q : ~ReportOf(q)'
  BY DEF Cleared
<1>3. /\ committed \in Nat /\ DescFields(txn.desc) /\ txn.lost \in Nat
      /\ repRet \in Nat /\ pendRet \in Nat /\ repClr \in Nat /\ pendClr \in Nat
      /\ txn.some => /\ committed <= txn.desc.start /\ txn.desc.start <= txn.desc.end
                     /\ txn.lost = txn.desc.start - committed
      /\ ~txn.some => txn.lost = 0 /\ txn.desc.end - txn.desc.start = 0
  BY FieldTypes DEF IInv, BooksBalance, RangesOK, RangeOK, NoTransaction, NoDescriptor
<1>4. /\ pendingClear.acct.expected = IF txn.some THEN txn.desc.end ELSE committed
      /\ pendingClear.acct.retained = pendRet + txn.lost
      /\ pendingClear.acct.cleared = pendClr + (txn.desc.end - txn.desc.start)
  BY <1>1 DEF ReportTracked, ClearsTracked, ClearMatches
<1>5. /\ s \in Nat /\ e \in Nat /\ r.start \in Nat /\ r.end \in Nat /\ ActiveStart \in Nat
      /\ committed <= s /\ s <= e /\ e <= r.start /\ r.start <= r.end /\ r.end <= ActiveStart
      /\ txn.lost = s - committed /\ txn.desc.end - txn.desc.start = e - s
      /\ e = IF txn.some THEN txn.desc.end ELSE committed
  <2>1. r.start \in Nat /\ r.end \in Nat /\ e \in Nat /\ ActiveStart \in Nat
    BY <1>1, ActiveNumbers DEF ReportFields
  <2>2. /\ e <= r.start /\ r.start <= r.end /\ r.end <= ActiveStart
        /\ e = IF txn.some THEN txn.desc.end ELSE committed
    BY <1>1, <1>4 DEF ReportTracked
  <2> QED BY <1>3, <2>1, <2>2 DEF DescFields
<1>6. pendRet' = pendRet + (s - committed) + (r.start - e) /\ pendClr' = pendClr + (e - s) + (r.end - r.start)
  <2>1. /\ pendRet' = r.retained /\ pendClr' = r.cleared
        /\ r.retained = pendingClear.acct.retained + (r.start - e)
        /\ r.cleared = pendingClear.acct.cleared + (r.end - r.start)
    BY <1>1, <1>2 DEF CommitClear, ReportTracked
  <2> QED BY <1>4, <1>5, <2>1
<1>7. UNCHANGED <<repRet, repClr>>
  BY <1>2 DEF CommitClear, history
<1>8. /\ repRet + pendRet = Cardinality(evicted \cap 0 .. committed - 1)
      /\ repClr + pendClr = Cardinality(discarded \cap 0 .. committed - 1)
      /\ \A f \in Nat : f \in discarded /\ f >= committed => r.start <= f /\ f < r.end
      /\ \A f \in Nat : r.start <= f /\ f < r.end => f \in discarded
  BY <1>1 DEF Causes, LossByCause
<1>9. \A f \in Nat : Suspended(f) <=> s <= f /\ f < e
  <2>1. CASE txn.some
    BY <1>5, <2>1, SuspendedTransaction DEF InRange
  <2>2. CASE ~txn.some
    <3>1. s = e
      BY <1>5, <2>2
    <3>2. \A f : ~Suspended(f)
      BY <1>1, <2>2 DEF Suspended
    <3> QED BY <1>5, <3>1, <3>2
  <2> QED BY <2>1, <2>2
<1>10. \A f \in Nat : f \in discarded' <=> f \in discarded \/ (s <= f /\ f < e)
  <2>1. CASE txn.some
    <3>1. discarded' = discarded \cup Frames(txn.desc)
      BY <1>1, <1>2, <2>1 DEF CommitClear, DiscardTransaction
    <3> QED BY <1>5, <2>1, <3>1, SuspendedTransaction DEF InRange
  <2>2. CASE ~txn.some
    <3>1. discarded' = discarded /\ s = e
      BY <1>1, <1>2, <1>5, <2>2 DEF CommitClear
    <3> QED BY <1>5, <3>1
  <2> QED BY <2>1, <2>2
<1> HIDE DEF s, e
<1>11. ASSUME NEW f \in Nat, committed <= f, f < r.end
       PROVE  /\ f \in evicted <=> f < s \/ (e <= f /\ f < r.start)
              /\ f \in discarded' <=> (s <= f /\ f < e) \/ r.start <= f
  <2>1. /\ OneFate(f)
        /\ f \in written \/ f \in skipped => f < committed
        /\ Gone(f) <=> f < ActiveStart /\ ~Suspended(f)
    BY DEF Fates
  <2>2. f < ActiveStart /\ f \notin written /\ f \notin skipped
    BY <1>3, <1>5, <1>11, <2>1
  <2>3. f \in discarded <=> r.start <= f
    BY <1>8, <1>11
  <2>4. f \in evicted \/ f \in discarded <=> ~(s <= f /\ f < e)
    BY <1>9, <2>1, <2>2 DEF Gone
  <2>5. f \in evicted => f \notin discarded
    BY <2>1 DEF OneFate
  <2>6. f \in discarded' <=> (s <= f /\ f < e) \/ r.start <= f
    BY <1>10, <2>3
  <2> QED BY <1>5, <2>3, <2>4, <2>5, <2>6
<1>12. Runs(evicted, evicted, committed, r.end, committed, s, e, r.start)
  BY <1>3, <1>5, <1>11 DEF Runs
<1>13. Runs(discarded, discarded', committed, r.end, s, e, r.start, r.end)
  <2>1. ASSUME NEW f \in Nat, f < committed PROVE f \in discarded' <=> f \in discarded
    BY <1>3, <1>5, <1>10, <2>1
  <2> QED BY <1>3, <1>5, <1>11, <2>1 DEF Runs
<1>14. /\ Cardinality(evicted \cap 0 .. r.end - 1) = repRet + pendRet + (s - committed) + (r.start - e)
       /\ Cardinality(discarded' \cap 0 .. r.end - 1) = repClr + pendClr + (e - s) + (r.end - r.start)
  BY <1>8, <1>12, <1>13, RunsAdded
<1>15. LossByCause'
  <2>1. /\ repRet' + pendRet' = repRet + pendRet + (s - committed) + (r.start - e)
        /\ repClr' + pendClr' = repClr + pendClr + (e - s) + (r.end - r.start)
    <3>1. /\ s \in Nat /\ e \in Nat /\ r.start \in Nat /\ r.end \in Nat
          /\ committed \in Nat /\ repRet \in Nat /\ pendRet \in Nat /\ repClr \in Nat /\ pendClr \in Nat
      BY <1>3, <1>5
    <3> QED BY <1>6, <1>7, <3>1
  <2> QED BY <1>1, <1>14, <2>1 DEF LossByCause
<1>16. ASSUME NEW f \in Nat, f \in discarded' PROVE ~(f >= committed')
  BY <1>1, <1>3, <1>5, <1>8, <1>10, <1>16
<1> QED BY <1>2, <1>15, <1>16 DEF Causes

\* Every step of the coordinator keeps the causes apart.
LEMMA CoordinatorCauses ==
    ASSUME IInv, Custody, CursorBehind, ClearsTracked, Fates, Causes, Coordinator
    PROVE  Causes'
<1>1. UNCHANGED <<dropCum, evicted>> /\ (Still \/ Committed \/ Cleared)
  BY CoordinatorEffects DEF ingressVars
<1>2. CASE dropCum # 0
  BY <1>1, <1>2 DEF Causes
<1>3. CASE dropCum = 0 /\ Still
  <2>1. ~Reported
    BY <1>3, ReportAccepted DEF Still
  <2>2. /\ UNCHANGED <<committed, discarded>>
        /\ repRet' + pendRet' = repRet + pendRet /\ repClr' + pendClr' = repClr + pendClr
        /\ \A r : ReportOf(r)' <=> ReportOf(r)
    BY <1>3, <2>1 DEF Still
  <2>3. LossByCause'
    BY <1>1, <1>3, <2>2 DEF Causes, LossByCause
  <2> QED BY <1>1, <1>3, <2>2, <2>3 DEF Causes
<1>4. CASE dropCum = 0 /\ Committed
  BY <1>1, <1>4, CommittedCauses
<1>5. CASE dropCum = 0 /\ Cleared
  BY <1>1, <1>5, ClearedCauses
<1> QED BY <1>1, <1>2, <1>3, <1>4, <1>5

-----------------------------------------------------------------------------
(***************************************************************************)
(* Every frame behind the cursor met one fate, under its cause.            *)
(***************************************************************************)
FateInv == EpochInv /\ CursorBehind /\ ClearsTracked /\ Fates /\ Causes

\* Nothing is captured, reported or pending to begin with.
LEMMA InitFates == Init => FateInv
<1> SUFFICES ASSUME Init PROVE FateInv
  OBVIOUS
<1>1. EpochInv /\ IInv
  BY InitEpochs DEF EpochInv
<1>2. /\ slot = "idle" /\ rpc = [c \in Clients |-> "idle"] /\ pc = "idle" /\ head = 0
      /\ ~recoveredFrozen.some /\ ~recoveredClear.some /\ ~txn.some /\ ~pendingClear.some
      /\ committed = 0 /\ written = {} /\ skipped = {} /\ evicted = {} /\ discarded = {}
      /\ repRet = 0 /\ pendRet = 0 /\ repClr = 0 /\ pendClr = 0
  BY DEF Init, ArenaInit, NoTransaction, NoPendingClear
<1>3. rpc["op"] = "idle"
  BY <1>2 DEF Clients
<1>4. (\A d : ~FreezeOf(d)) /\ (\A r : ~ReportOf(r)) /\ ~ClearUnderWay
  BY <1>2, <1>3 DEF FreezeOf, ReportOf, Unread, Delivered, Unclaimed, Reported, ClearUnderWay
<1>5. ActiveStart = 0
  BY <1>1, <1>2, ActiveNumbers
<1>6. CursorBehind
  BY <1>2, <1>4, <1>5 DEF CursorBehind
<1>7. ClearsTracked
  BY <1>2, <1>4 DEF ClearsTracked, ClearMatches, ClearKnownUnrun
<1>8. Fates
  BY <1>2, <1>4, <1>5 DEF Fates, OneFate, Gone, Suspended
<1>9. Causes
  <2>1. {} \cap 0 .. 0 - 1 = {}
    OBVIOUS
  <2>2. LossByCause
    BY <1>2, <2>1, FS_EmptySet DEF LossByCause
  <2> QED BY <1>2, <1>4, <2>2 DEF Causes
<1> QED BY <1>1, <1>6, <1>7, <1>8, <1>9 DEF FateInv

\* Every step keeps the fates and their causes.
LEMMA NextFates == FateInv /\ [Next]_vars => FateInv'
<1> SUFFICES ASSUME FateInv, [Next]_vars PROVE FateInv'
  OBVIOUS
<1>0. IInv /\ Custody /\ EpochsIntact /\ CursorBehind /\ ClearsTracked /\ Fates /\ Causes
  BY DEF FateInv, EpochInv
<1>1. EpochInv'
  BY NextEpochs DEF FateInv
<1>2. CASE Coordinator
  BY <1>0, <1>1, <1>2, BehindKept, CoordinatorTracks, CoordinatorFates, CoordinatorCauses DEF FateInv
<1>3. CASE ArenaStep
  BY <1>0, <1>1, <1>3, BehindKept, ArenaTracks, ArenaFates, ArenaCauses DEF FateInv
<1>4. CASE UNCHANGED vars
  <2>1. UNCHANGED <<ringVars, slotVars, clientVars, ingressVars, evicted, discarded, pc, stateVars, history>>
    BY <1>4 DEF vars, arenaVars
  <2>2. /\ UNCHANGED <<slot, kind, cmd, result, recoveredFrozen, recoveredClear, rpc, reply, txn, pc>>
        /\ UNCHANGED <<pendingClear, committed, pendRet, pendClr, repRet, repClr, dropCum>>
        /\ UNCHANGED <<written, skipped, evicted, discarded>>
    BY <2>1 DEF slotVars, clientVars, stateVars, history, ingressVars
  <2>3. ActiveStart' = ActiveStart /\ UNCHANGED <<base, active>>
    BY <2>1, SameRange
  <2>4. (\A d : FreezeOf(d)' <=> FreezeOf(d)) /\ (\A r : ReportOf(r)' <=> ReportOf(r))
    BY <2>2 DEF FreezeOf, ReportOf, Unread, Delivered, Unclaimed, Reported
  <2>5. CursorBehind'
    BY <1>0, <2>2, <2>3, <2>4 DEF CursorBehind
  <2>6. ClearsTracked'
    <3>1. ClearMatches' /\ (ClearUnderWay' <=> ClearUnderWay) /\ (ClearKnownUnrun' <=> ClearKnownUnrun)
      BY <1>0, <2>2 DEF ClearsTracked, ClearMatches, ClearUnderWay, ClearKnownUnrun
    <3>2. \A r : ReportTracked(r)' <=> ReportTracked(r)
      BY <2>2, <2>3 DEF ReportTracked
    <3> QED BY <1>0, <2>2, <2>4, <3>1, <3>2 DEF ClearsTracked, ClearOutstanding
  <2>7. Fates'
    <3>1. \A f : (Suspended(f)' <=> Suspended(f)) /\ (OneFate(f)' <=> OneFate(f)) /\ (Gone(f)' <=> Gone(f))
      BY <2>2, <2>4 DEF Suspended, InRange, OneFate, Gone
    <3> QED BY <1>0, <2>2, <2>3, <3>1 DEF Fates
  <2>8. Causes'
    BY <1>0, <2>2, <2>4 DEF Causes, LossByCause
  <2> QED BY <1>1, <2>5, <2>6, <2>7, <2>8 DEF FateInv
<1> QED BY <1>2, <1>3, <1>4 DEF Next

\* The strengthened invariant holds in every state of every behaviour.
LEMMA FateInvHolds == Spec => []FateInv
<1> QED BY InitFates, NextFates, PTL DEF Spec

\* Exactly-once delivery of persist and clear: a frame behind committed_until was
\* written, skipped, overwritten or cleared, and only one of these, whatever timed
\* out or was retried; while the queue has dropped nothing, the reported and
\* pending losses are the overwritten and the cleared frames.
THEOREM EveryFrameOnce == Spec => []FramesByCause
<1>1. FateInv => FramesByCause
  <2> SUFFICES ASSUME FateInv PROVE FramesByCause
    OBVIOUS
  <2>0. IInv /\ CursorBehind /\ Fates /\ Causes
    BY DEF FateInv, EpochInv
  <2>1. /\ written \subseteq Nat /\ skipped \subseteq Nat /\ evicted \subseteq Nat /\ discarded \subseteq Nat
        /\ committed \in Nat /\ ActiveStart \in Nat
    BY <2>0, ActiveNumbers DEF IInv, TypeOK, HistoryTypeOK, StateTypeOK, ArenaTypeOK, LossTypeOK
  <2>2. /\ written \cap skipped = {} /\ (written \cup skipped) \cap (evicted \cup discarded) = {}
        /\ evicted \cap discarded = {}
    BY <2>0, <2>1 DEF Fates, OneFate
  <2>3. ASSUME NEW f \in 0 .. committed - 1
        PROVE  f \in written \cup skipped \cup evicted \cup discarded
    <3>1. f \in Nat /\ f < committed /\ f < ActiveStart
      BY <2>0, <2>1 DEF CursorBehind
    <3>2. ~Suspended(f)
      BY <2>0, <2>1, <3>1, SuspendedBehind
    <3> QED BY <2>0, <3>1, <3>2 DEF Fates, Gone
  <2>4. written \cup skipped \subseteq 0 .. committed - 1
    BY <2>0, <2>1 DEF Fates
  <2>5. ExactlyOnce
    BY <2>2, <2>3, <2>4 DEF ExactlyOnce
  <2>6. LossByCause
    BY <2>0 DEF Causes, LossByCause
  <2> QED BY <2>5, <2>6 DEF FramesByCause
<1> QED BY <1>1, FateInvHolds, PTL

\* A frozen transaction that was not committed is retried as it is: a failed
\* publication, a timed-out call or a refused report never consumes or replaces
\* it, and only a commit or a clear that covers it takes it away.
THEOREM TransactionKept == Spec => RetrySameTransaction
<1>1. FateInv /\ [Next]_vars => [txn.some => txn' = txn \/ committed' >= txn.desc.end]_vars
  <2> SUFFICES ASSUME FateInv, Next, txn.some, txn' # txn
               PROVE  committed' >= txn.desc.end
    OBVIOUS
  <2>0. IInv /\ Custody /\ CursorBehind /\ ClearsTracked
    BY DEF FateInv, EpochInv
  <2>1. Coordinator
    BY DEF Next, ArenaStep, stateVars
  <2>2. txn.desc.end \in Nat
    BY <2>0, FieldTypes DEF IInv, DescFields
  <2>3. CASE Committed
    BY <2>2, <2>3 DEF Committed, CommitTransaction
  <2>4. CASE Cleared
    <3> DEFINE r == reply["op"].report
    <3>1. ReportTracked(r) /\ ReportFields(r) /\ committed' = r.end
      BY <2>0, <2>4, ClearedReport
    <3>2. r.expected = txn.desc.end
      BY <2>0, <3>1 DEF ReportTracked, ClearsTracked, ClearMatches
    <3> QED BY <2>2, <3>1, <3>2 DEF ReportTracked, ReportFields
  <2>5. CASE Still
    BY <2>5 DEF Still
  <2> QED BY <2>0, <2>1, <2>3, <2>4, <2>5, CoordinatorEffects
<1> QED BY <1>1, FateInvHolds, PTL DEF Spec, RetrySameTransaction

=============================================================================
