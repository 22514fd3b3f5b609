---------------------------- MODULE CaptureArena ----------------------------
(***************************************************************************)
(* The capture arena of src/src/capture_arena.rs: the realtime producer,   *)
(* the bounded ingress queue, the capture worker with its two epochs (the  *)
(* active ring and the standby that a freeze swaps in), and the one        *)
(* command mailbox through which non-realtime clients talk to the worker.  *)
(*                                                                         *)
(* One block of the real queue is one frame here.  Absolute frame numbers  *)
(* count the frames the worker consumed, so frame f is the f-th consumed   *)
(* frame whatever epoch it was written to.  Deadlines are nondeterministic *)
(* (a wait may expire whenever it has not been answered), bounded by       *)
(* MaxTimeouts.                                                            *)
(***************************************************************************)
EXTENDS Integers, FiniteSets

CONSTANTS
    QueueSlots,   \* blocks the ingress queue can hold (IngressQueue.slots)
    ChunkFrames,  \* frames of one chunk of a ring
    ChunkCount,   \* chunks of a ring
    MaxFrames,    \* bound: frames the producer ever publishes
    MaxDrops,     \* bound: frames the producer ever drops
    MaxTimeouts   \* bound: deadlines that ever expire

ASSUME ArenaAssumption ==
    /\ QueueSlots \in Nat \ {0}
    /\ ChunkFrames \in Nat \ {0}
    /\ ChunkCount \in Nat \ {0}
    /\ MaxFrames \in Nat
    /\ MaxDrops \in Nat
    /\ MaxTimeouts \in Nat

Capacity == ChunkFrames * ChunkCount

Epochs == {0, 1}

\* "op" is the operation worker, "st" a control thread asking for status.
Clients == {"op", "st"}

CommandKinds == {"freeze", "release", "clear", "status"}

\* "recover" is recover_clear_result, which uses the mailbox without a
\* command of its own.
RequestKinds == CommandKinds \cup {"recover"}

(***************************************************************************)
(* Option types carry a flag beside a value that is meaningless when the   *)
(* flag is FALSE; every value has all its fields.                          *)
(***************************************************************************)
Descriptor == [index : Epochs, gen : Nat, base : Nat, start : Nat, end : Nat]
NoDescriptor == [index |-> 0, gen |-> 0, base |-> 0, start |-> 0, end |-> 0]

Accounting == [id : Nat, expected : Nat, retained : Nat, cleared : Nat]
NoAccounting == [id |-> 0, expected |-> 0, retained |-> 0, cleared |-> 0]

Report == [id : Nat, expected : Nat, start : Nat, end : Nat,
           retained : Nat, cleared : Nat, dropped : Nat]
NoReport == [id |-> 0, expected |-> 0, start |-> 0, end |-> 0,
             retained |-> 0, cleared |-> 0, dropped |-> 0]

Request == [kind : RequestKinds, committed : Nat, desc : Descriptor,
            acct : Accounting]

ReplyTags == {"frozen", "none", "cleared", "released", "status",
              "timeout", "error"}
Reply == [tag : ReplyTags, desc : Descriptor, report : Report]

Answer(tag) == [tag |-> tag, desc |-> NoDescriptor, report |-> NoReport]

StatusRequest == [kind |-> "status", committed |-> 0, desc |-> NoDescriptor,
                  acct |-> NoAccounting]

NoCommand == [call |-> StatusRequest, dropped |-> 0]

VARIABLES
    published,       \* frames published into the ingress queue
    dropCum,         \* IngressQueue.cumulative_dropped_frames
    dropIng,         \* IngressQueue.dropped_frames
    head,            \* frames consumed: absolute_head, and consumed_head
    active,          \* index of the active epoch
    base,            \* absolute frame of each epoch's local frame 0
    localHead,       \* write_head_frame of each epoch's ring
    clearAfter,      \* clear_after of each epoch's ring
    mem,             \* the frame each ring slot holds
    frozenRec,       \* the worker's FrozenRecord
    nextGen,         \* the worker's next_generation
    slot,            \* CommandSlot.state: "idle", "ready" or "done"
    kind,            \* CommandSlot.kind
    abandoned,       \* CommandSlot.abandoned
    target,          \* target_sequence of the command in the slot
    cmd,             \* the command in the slot, with the ingress drops it read
    result,          \* the result in the slot
    lock,            \* holder of the command_client mutex
    recoveredFrozen, \* CommandClientState.recovered_frozen
    recoveredClear,  \* CommandClientState.recovered_clear
    rpc,             \* where each client is in its call
    req,             \* the call each client makes
    reply,           \* what the call returned
    timeouts,        \* deadlines that expired so far
    evicted,         \* history: frames the active ring overwrote
    discarded        \* history: frames a clear threw away

ingressVars == <<published, dropCum, dropIng>>
ringVars    == <<head, active, base, localHead, clearAfter, mem, frozenRec, nextGen>>
slotVars    == <<slot, kind, abandoned, target, cmd, result>>
clientVars  == <<lock, recoveredFrozen, recoveredClear, rpc, req, reply, timeouts>>
arenaVars   == <<ingressVars, ringVars, slotVars, clientVars, evicted, discarded>>

IngressTypeOK ==
    /\ published \in Nat /\ dropCum \in Nat /\ dropIng \in Nat

RingTypeOK ==
    /\ head \in Nat
    /\ active \in Epochs
    /\ base \in [Epochs -> Nat]
    /\ localHead \in [Epochs -> Nat]
    /\ clearAfter \in [Epochs -> Nat]
    /\ mem \in [Epochs -> [0 .. Capacity - 1 -> Nat]]
    /\ frozenRec \in [held : BOOLEAN, index : Epochs, gen : Nat]
    /\ nextGen \in Nat

SlotTypeOK ==
    /\ slot \in {"idle", "ready", "done"}
    /\ kind \in RequestKinds
    /\ abandoned \in BOOLEAN
    /\ target \in Nat
    /\ cmd \in [call : Request, dropped : Nat]
    /\ result \in Reply

ClientTypeOK ==
    /\ lock \in Clients \cup {"free"}
    /\ recoveredFrozen \in [some : BOOLEAN, desc : Descriptor]
    /\ recoveredClear \in [some : BOOLEAN, report : Report]
    /\ rpc \in [Clients -> {"idle", "lock", "stale", "wait", "done"}]
    /\ req \in [Clients -> Request]
    /\ reply \in [Clients -> Reply]
    /\ timeouts \in Nat

LossTypeOK == evicted \subseteq Nat /\ discarded \subseteq Nat

ArenaTypeOK ==
    IngressTypeOK /\ RingTypeOK /\ SlotTypeOK /\ ClientTypeOK /\ LossTypeOK

ArenaInit ==
    /\ published = 0 /\ dropCum = 0 /\ dropIng = 0
    /\ head = 0 /\ active = 0
    /\ base = [e \in Epochs |-> 0]
    /\ localHead = [e \in Epochs |-> 0]
    /\ clearAfter = [e \in Epochs |-> 0]
    /\ mem = [e \in Epochs |-> [i \in 0 .. Capacity - 1 |-> 0]]
    /\ frozenRec = [held |-> FALSE, index |-> 0, gen |-> 0]
    /\ nextGen = 0
    /\ slot = "idle" /\ kind = "status" /\ abandoned = FALSE /\ target = 0
    /\ cmd = NoCommand
    /\ result = Answer("none")
    /\ lock = "free"
    /\ recoveredFrozen = [some |-> FALSE, desc |-> NoDescriptor]
    /\ recoveredClear = [some |-> FALSE, report |-> NoReport]
    /\ rpc = [c \in Clients |-> "idle"]
    /\ req = [c \in Clients |-> StatusRequest]
    /\ reply = [c \in Clients |-> Answer("none")]
    /\ timeouts = 0
    /\ evicted = {} /\ discarded = {}

-----------------------------------------------------------------------------
(***************************************************************************)
(* The realtime producer.  A full queue drops the block; the two drop      *)
(* counters are separate atomics and the cumulative one moves first.       *)
(***************************************************************************)
Push ==
    /\ dropCum = dropIng
    /\ published < MaxFrames
    /\ published - head < QueueSlots
    /\ published' = published + 1
    /\ UNCHANGED <<dropCum, dropIng, ringVars, slotVars, clientVars, evicted, discarded>>

DropCumulative ==
    /\ dropCum = dropIng
    /\ dropCum < MaxDrops
    /\ published - head >= QueueSlots
    /\ dropCum' = dropCum + 1
    /\ UNCHANGED <<published, dropIng, ringVars, slotVars, clientVars, evicted, discarded>>

DropIngress ==
    /\ dropIng < dropCum
    /\ dropIng' = dropIng + 1
    /\ UNCHANGED <<published, dropCum, ringVars, slotVars, clientVars, evicted, discarded>>

-----------------------------------------------------------------------------
(***************************************************************************)
(* The rings.  A ring keeps whole chunks: writing the first frame of a     *)
(* chunk evicts the oldest one.                                            *)
(***************************************************************************)
Larger(a, b) == IF a >= b THEN a ELSE b

\* Mutant of Shortfall: the operands are swapped and nothing saturates.
ShortfallSwapped(a, b) == a - b

\* saturating_sub: how far b is past a.
Shortfall(a, b) == Larger(0, b - a)

OldestKept(h) ==
    IF h = 0 THEN 0
             ELSE Larger(0, (((h - 1) \div ChunkFrames) - (ChunkCount - 1)) * ChunkFrames)

LocalOldest(e) == Larger(clearAfter[e], OldestKept(localHead[e]))

ActiveStart == base[active] + LocalOldest(active)
ActiveEnd   == base[active] + localHead[active]

\* One block of the queue goes to the active ring.  A command that is ready
\* holds back every block behind its target sequence.
Consume ==
    /\ head < published
    /\ slot = "ready" => head < target
    /\ head' = head + 1
    /\ localHead' = [localHead EXCEPT ![active] = @ + 1]
    /\ mem' = [mem EXCEPT ![active][localHead[active] % Capacity] = head]
    /\ evicted' = evicted \cup
         {f \in base[active] .. head : /\ f >= ActiveStart
                                       /\ f < base[active] + OldestKept(localHead[active] + 1)}
    /\ UNCHANGED <<ingressVars, active, base, clearAfter, frozenRec, nextGen,
                   slotVars, clientVars, discarded>>

Publish(r) ==
    /\ slot' = "done"
    /\ result' = r
    /\ UNCHANGED <<kind, abandoned, target, cmd>>

\* Mutant of Take: waits for one block more than the command's target.
TakeLate(k) ==
    /\ slot = "ready"
    /\ kind = k
    /\ head > target

\* take_command: the command is ready and its target has been consumed.
Take(k) ==
    /\ slot = "ready"
    /\ kind = k
    /\ head >= target

\* Freeze swaps the epochs even when there is nothing to freeze.
ProcessFreeze ==
    LET start == Larger(cmd.call.committed, ActiveStart)
        some  == start < ActiveEnd
        fresh == 1 - active
    IN  /\ Take("freeze")
        /\ IF frozenRec.held
             THEN /\ Publish(Answer("error"))
                  /\ UNCHANGED ringVars
             ELSE /\ base' = [base EXCEPT ![fresh] = head]
                  /\ localHead' = [localHead EXCEPT ![fresh] = 0]
                  /\ clearAfter' = [clearAfter EXCEPT ![fresh] = 0]
                  /\ active' = fresh
                  /\ nextGen' = IF some THEN nextGen + 1 ELSE nextGen
                  /\ frozenRec' = IF some
                       THEN [held |-> TRUE, index |-> active, gen |-> nextGen + 1]
                       ELSE frozenRec
                  /\ Publish(IF some
                       THEN [tag |-> "frozen", report |-> NoReport,
                             desc |-> [index |-> active, gen |-> nextGen + 1,
                                       base |-> base[active],
                                       start |-> start, end |-> ActiveEnd]]
                       ELSE Answer("none"))
                  /\ UNCHANGED <<head, mem>>
        /\ UNCHANGED <<ingressVars, clientVars, evicted, discarded>>

\* A release must name the worker's own record; it resets the frozen ring.
ProcessRelease ==
    LET d == cmd.call.desc
        owned == /\ frozenRec.held
                 /\ frozenRec.index = d.index
                 /\ frozenRec.gen = d.gen
    IN  /\ Take("release")
        /\ IF owned
             THEN /\ localHead' = [localHead EXCEPT ![d.index] = 0]
                  /\ clearAfter' = [clearAfter EXCEPT ![d.index] = 0]
                  /\ frozenRec' = [frozenRec EXCEPT !.held = FALSE]
                  /\ Publish(Answer("released"))
                  /\ UNCHANGED <<head, active, base, mem, nextGen>>
             ELSE /\ Publish(Answer("error"))
                  /\ UNCHANGED ringVars
        /\ UNCHANGED <<ingressVars, clientVars, evicted, discarded>>

\* Clear reports the active range against the client's accounting and then
\* forgets it.  worker_dropped_frames is always 0 here: the active ring is
\* never pinned, so every write to it succeeds.
ProcessClear ==
    LET a == cmd.call.acct
        kept == Larger(a.expected, ActiveStart)
    IN  /\ Take("clear")
        /\ clearAfter' = [clearAfter EXCEPT ![active] = localHead[active]]
        /\ discarded' = discarded \cup {f \in base[active] .. head : /\ f >= ActiveStart
                                                                    /\ f < ActiveEnd}
        /\ Publish([tag |-> "cleared", desc |-> NoDescriptor,
                    report |-> [id |-> a.id, expected |-> a.expected,
                                start |-> ActiveStart, end |-> ActiveEnd,
                                retained |-> a.retained + Shortfall(a.expected, ActiveStart),
                                cleared |-> a.cleared + Shortfall(kept, ActiveEnd),
                                dropped |-> cmd.dropped]])
        /\ UNCHANGED <<ingressVars, head, active, base, localHead, mem, frozenRec,
                       nextGen, clientVars, evicted>>

ProcessStatus ==
    /\ Take("status")
    /\ Publish(Answer("status"))
    /\ UNCHANGED <<ingressVars, ringVars, clientVars, evicted, discarded>>

Worker == Consume \/ ProcessFreeze \/ ProcessRelease \/ ProcessClear \/ ProcessStatus

-----------------------------------------------------------------------------
(***************************************************************************)
(* The client side of the mailbox.  A call takes the command_client mutex, *)
(* settles whatever an earlier call abandoned (recover_before), submits    *)
(* its command and waits for the result.                                   *)
(***************************************************************************)
Call(c, r) ==
    /\ rpc[c] = "idle"
    /\ rpc' = [rpc EXCEPT ![c] = "lock"]
    /\ req' = [req EXCEPT ![c] = r]
    /\ UNCHANGED <<reply, ingressVars, ringVars, slotVars, lock, recoveredFrozen,
                   recoveredClear, timeouts, evicted, discarded>>

\* The call returns r and lets go of the mutex.
Return(c, r) ==
    /\ rpc' = [rpc EXCEPT ![c] = "done"]
    /\ reply' = [reply EXCEPT ![c] = r]
    /\ lock' = "free"
    /\ UNCHANGED req

\* submit_locked: begin, read the published head, publish the command.
Submit(c) ==
    /\ slot' = "ready"
    /\ kind' = req[c].kind
    /\ abandoned' = FALSE
    /\ target' = published
    /\ cmd' = [call |-> req[c], dropped |-> dropIng]
    /\ rpc' = [rpc EXCEPT ![c] = "wait"]
    /\ lock' = c
    /\ result' = Answer("none")
    /\ UNCHANGED <<req, reply>>

Await(c) ==
    /\ rpc' = [rpc EXCEPT ![c] = "stale"]
    /\ lock' = c
    /\ UNCHANGED <<req, reply>>

\* take_result empties the slot; what it held is dead from here on.
EmptySlot ==
    /\ slot' = "idle"
    /\ kind' = "status"
    /\ abandoned' = FALSE
    /\ target' = 0
    /\ cmd' = NoCommand
    /\ result' = Answer("none")

\* Mutant of Refused: a recovered freeze refuses nobody.
RefusedForgetsFrozen(k) ==
    \/ recoveredClear.some /\ k # "status"
    \/ /\ slot # "idle" /\ ~recoveredFrozen.some
       /\ ~abandoned \/ (kind = "release" /\ k # "release")

\* Results kept for another caller refuse every other command.
Refused(k) ==
    \/ recoveredClear.some /\ k # "status"
    \/ recoveredFrozen.some /\ k # "freeze"
    \/ /\ slot # "idle" /\ ~recoveredFrozen.some
       /\ ~abandoned \/ (kind = "release" /\ k # "release")

LockAndRecover(c) ==
    LET k == req[c].kind
    IN  /\ rpc[c] = "lock" /\ k # "recover"
        /\ lock = "free"
        /\ \/ /\ Refused(k)
              /\ Return(c, Answer("error"))
              /\ UNCHANGED <<slotVars, recoveredFrozen>>
           \/ /\ ~Refused(k) /\ recoveredFrozen.some
              /\ Return(c, [tag |-> "frozen", desc |-> recoveredFrozen.desc,
                            report |-> NoReport])
              /\ recoveredFrozen' = [some |-> FALSE, desc |-> NoDescriptor]
              /\ UNCHANGED slotVars
           \/ /\ ~Refused(k) /\ ~recoveredFrozen.some /\ slot = "idle"
              /\ Submit(c)
              /\ UNCHANGED recoveredFrozen
           \/ /\ ~Refused(k) /\ ~recoveredFrozen.some /\ slot # "idle"
              /\ Await(c)
              /\ UNCHANGED <<slotVars, recoveredFrozen>>
        /\ UNCHANGED <<ingressVars, ringVars, recoveredClear, timeouts, evicted, discarded>>

\* recover_clear_result: the retained report, else nothing when the slot is
\* idle, else the result of an abandoned clear.
LockAndRecoverClear(c) ==
    /\ rpc[c] = "lock" /\ req[c].kind = "recover"
    /\ lock = "free"
    /\ \/ /\ recoveredClear.some
          /\ IF recoveredClear.report.id = req[c].acct.id
               THEN /\ Return(c, [tag |-> "cleared", desc |-> NoDescriptor,
                                  report |-> recoveredClear.report])
                    /\ recoveredClear' = [some |-> FALSE, report |-> NoReport]
               ELSE /\ Return(c, Answer("error"))
                    /\ UNCHANGED recoveredClear
       \/ /\ ~recoveredClear.some /\ slot = "idle"
          /\ Return(c, Answer("none"))
          /\ UNCHANGED recoveredClear
       \/ /\ ~recoveredClear.some /\ slot # "idle"
          /\ IF abandoned /\ kind = "clear" THEN Await(c) ELSE Return(c, Answer("error"))
          /\ UNCHANGED recoveredClear
    /\ UNCHANGED <<ingressVars, ringVars, slotVars, recoveredFrozen, timeouts, evicted, discarded>>

LockTimeout(c) ==
    /\ rpc[c] = "lock"
    /\ lock # "free"
    /\ timeouts < MaxTimeouts
    /\ timeouts' = timeouts + 1
    /\ rpc' = [rpc EXCEPT ![c] = "done"]
    /\ reply' = [reply EXCEPT ![c] = Answer("timeout")]
    /\ UNCHANGED <<ingressVars, ringVars, slotVars, lock, recoveredFrozen,
                   recoveredClear, req, evicted, discarded>>

\* The wait for an abandoned command's result: keep it for the caller it
\* belongs to, answer with it, or go on with the command asked for.
TakeStale(c) ==
    LET k == req[c].kind
        clear  == kind = "clear" /\ result.tag = "cleared"
        frozen == kind = "freeze" /\ result.tag = "frozen"
    IN  /\ rpc[c] = "stale"
        /\ slot = "done"
        /\ \/ /\ k = "recover"
              /\ IF clear /\ result.report.id = req[c].acct.id
                   THEN /\ Return(c, result)
                        /\ UNCHANGED recoveredClear
                   ELSE /\ Return(c, Answer("error"))
                        /\ recoveredClear' = IF clear THEN [some |-> TRUE, report |-> result.report]
                                                      ELSE recoveredClear
              /\ EmptySlot
              /\ UNCHANGED recoveredFrozen
           \/ /\ k # "recover" /\ clear
              /\ recoveredClear' = [some |-> TRUE, report |-> result.report]
              /\ IF k = "status" THEN Submit(c)
                                 ELSE EmptySlot /\ Return(c, Answer("error"))
              /\ UNCHANGED recoveredFrozen
           \/ /\ frozen /\ k \notin {"freeze", "recover"}
              /\ recoveredFrozen' = [some |-> TRUE, desc |-> result.desc]
              /\ EmptySlot
              /\ Return(c, Answer("error"))
              /\ UNCHANGED recoveredClear
           \/ /\ ~clear /\ (frozen => k = "freeze") /\ k = kind
              /\ EmptySlot
              /\ Return(c, result)
              /\ UNCHANGED <<recoveredFrozen, recoveredClear>>
           \/ /\ ~clear /\ ~frozen /\ k # kind /\ k # "recover"
              /\ Submit(c)
              /\ UNCHANGED <<recoveredFrozen, recoveredClear>>
        /\ UNCHANGED <<ingressVars, ringVars, timeouts, evicted, discarded>>

TakeResult(c) ==
    /\ rpc[c] = "wait"
    /\ slot = "done"
    /\ EmptySlot
    /\ Return(c, result)
    /\ UNCHANGED <<ingressVars, ringVars, recoveredFrozen, recoveredClear, timeouts,
                   evicted, discarded>>

\* wait_slot_result marks the command of a timed-out wait.
Abandon == abandoned' = TRUE

\* The deadline passes before the result is seen: the command stays in the
\* slot, marked abandoned, and the worker will still run it.
ResultTimeout(c) ==
    /\ rpc[c] \in {"stale", "wait"}
    /\ timeouts < MaxTimeouts
    /\ timeouts' = timeouts + 1
    /\ Abandon
    /\ Return(c, Answer("timeout"))
    /\ UNCHANGED <<ingressVars, ringVars, slot, kind, target, cmd, result,
                   recoveredFrozen, recoveredClear, evicted, discarded>>

\* The caller takes the reply and goes on.
Finish(c) ==
    /\ rpc[c] = "done"
    /\ rpc' = [rpc EXCEPT ![c] = "idle"]
    /\ req' = [req EXCEPT ![c] = StatusRequest]
    /\ reply' = [reply EXCEPT ![c] = Answer("none")]
    /\ UNCHANGED <<ingressVars, ringVars, slotVars, lock, recoveredFrozen, recoveredClear,
                   timeouts, evicted>>

Mailbox(c) ==
    \/ LockAndRecover(c) \/ LockAndRecoverClear(c) \/ LockTimeout(c)
    \/ TakeStale(c) \/ TakeResult(c) \/ ResultTimeout(c)

\* A status request from a control thread.
StatusCall == Call("st", StatusRequest)
StatusDone == Finish("st") /\ UNCHANGED discarded

=============================================================================
