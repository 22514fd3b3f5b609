-------------------------- MODULE DaemonSupervisor --------------------------
(***************************************************************************)
(* The daemon's supervisor (daemon.rs, daemon_lifecycle.rs and the         *)
(* PipeWireHealth of capture_pipewire.rs): one operation worker executes   *)
(* client commands and internal jobs in turn, a retry scheduler submits    *)
(* retries and runtime faults, each PipeWire thread reports its fault, and *)
(* the accept thread answers Stop by itself and then shuts the rest down.  *)
(*                                                                         *)
(* What keeps them apart are three numbers: the operation epoch (a token   *)
(* each operation checks), the lifecycle generation (carried by retries    *)
(* and faults) and the attempt id of a capture (carried by faults).        *)
(*                                                                         *)
(* A step is what happens under one hold of a lock.  `operation_authority` *)
(* is held by the worker between the steps whose pc is in Authority.  The  *)
(* lane is the coarse one: OperationLane has its mutex and its condvar.    *)
(* Panics and the poisoned locks they leave are not modelled, nor is what  *)
(* Dump, Recall, Clear and Threshold do: they leave this state alone.      *)
(***************************************************************************)
EXTENDS Integers, Sequences, FiniteSets

CONSTANTS
    Capacity,       \* DEFAULT_CONTROL_QUEUE_CAPACITY
    MaxCommands,    \* bound: client commands accepted
    MaxFaults,      \* bound: captures whose backend fails while it runs
    MaxFailures     \* bound: operations that fail

ASSUME SupervisorAssumption ==
    /\ Capacity \in Nat \ {0}
    /\ MaxCommands \in Nat /\ MaxFaults \in Nat /\ MaxFailures \in Nat

VARIABLES
    life,       \* LifecycleState: generation, capture state, error class
    capture,    \* attempt id of runtime.{capture, session, capture_health}
    health,     \* PipeWireHealthState of every attempt so far, by attempt id
    calls,      \* fault notifications a PipeWire thread is about to make
    epoch,      \* operation_epoch
    stop,       \* IdleDaemonContext.stop
    sched,      \* SchedulerState, and whether its thread waits for a lane slot
    lane,       \* the operation lane's queue
    worker,     \* the operation worker: pc and the locals of the operation
    accept,     \* the accept thread: serving, or a stage of the shutdown
    commands,   \* client commands accepted so far
    faults,     \* backend faults so far
    failures    \* failed operations so far

vars == <<life, capture, health, calls, epoch, stop, sched, lane, worker,
          accept, commands, faults, failures>>

None == 0                               \* no capture, no attempt
Unbound == -1                           \* no generation
Nothing == [kind |-> "none", gen |-> 0, attempt |-> 0]
Requests == {"start", "stop", "reload"}
Attempts == 1 .. Len(health)

Client(request) == [kind |-> request, gen |-> 0, attempt |-> 0]
Retry(g) == [kind |-> "retry", gen |-> g, attempt |-> 0]
RuntimeFault(g, a) == [kind |-> "fault", gen |-> g, attempt |-> a]

----------------------------------------------------------------------------
(* RetrySchedulerHandle: every operation holds the scheduler's mutex and    *)
(* notifies its condition variable, so a waiting scheduler looks again.     *)

Woken(s) == [s EXCEPT !.waiting = FALSE]

\* schedule_retry and notify_fault
Pend(s, job) ==
    IF s.stopped \/ job.gen < s.gen THEN s
    ELSE Woken([s EXCEPT !.gen = job.gen, !.pending = job])

Invalidated(s, g) ==
    IF g < s.gen THEN s
    ELSE Woken([s EXCEPT !.gen = g, !.pending = Nothing])

SchedulerStopped(s) == Woken([s EXCEPT !.stopped = TRUE, !.pending = Nothing])

----------------------------------------------------------------------------
(* PipeWireHealth. *)

\* A capture's health before its publication: bound to a generation, unarmed.
Unarmed(g) ==
    [fault |-> FALSE, sink |-> g, notified |-> Unbound, armed |-> FALSE,
     normalStop |-> FALSE]

\* A capture that has just been started: unarmed_with_fault_sink.
Started(g) == Unarmed(g)

\* pending_notification: once for each binding of the sink
Notifies(h) ==
    h.armed /\ ~h.normalStop /\ h.sink # Unbound /\ h.fault /\ h.notified # h.sink

\* arm and rebind_and_arm, whose notification is made before they return.
Arm(h) == IF h.normalStop THEN h ELSE [h EXCEPT !.armed = TRUE]
Rebound(h, g) == IF h.normalStop THEN h ELSE [h EXCEPT !.sink = g, !.armed = TRUE]

Settle(a, h) ==
    /\ health' = [health EXCEPT ![a] =
                     IF Notifies(h) THEN [h EXCEPT !.notified = h.sink] ELSE h]
    /\ sched' = IF Notifies(h) THEN Pend(sched, RuntimeFault(h.sink, a)) ELSE sched

\* mark_normal_stop, and the join of the PipeWire thread: a drop of attempt a
\* returns when no notification of that thread is outstanding.
Joinable(a) == \A n \in calls : n.attempt # a
Dropped(a) ==
    IF a = None THEN health
    ELSE [health EXCEPT ![a].normalStop = TRUE, ![a].armed = FALSE,
                        ![a].sink = Unbound]

\* record_fatal on a PipeWire thread: the fault is noted under the health's
\* lock and notified after it.
BackendFault(a) ==
    /\ faults < MaxFaults
    /\ ~health[a].fault /\ ~health[a].normalStop
    /\ LET h == [health[a] EXCEPT !.fault = TRUE]
       IN IF Notifies(h)
          THEN /\ health' = [health EXCEPT ![a] = [h EXCEPT !.notified = h.sink]]
               /\ calls' = calls \cup {RuntimeFault(h.sink, a)}
          ELSE health' = [health EXCEPT ![a] = h] /\ UNCHANGED calls
    /\ faults' = faults + 1
    /\ UNCHANGED <<life, capture, epoch, stop, sched, lane, worker, accept,
                   commands, failures>>

\* sink.notify, on the same thread
NotifyFault(n) ==
    /\ calls' = calls \ {n}
    /\ sched' = Pend(sched, n)
    /\ UNCHANGED <<life, capture, health, epoch, stop, lane, worker, accept,
                   commands, faults, failures>>

----------------------------------------------------------------------------
(* The thread of spawn_retry_scheduler.  It submits with its mutex held.    *)

SchedulerIdle == UNCHANGED <<life, capture, health, calls, epoch, stop, worker,
                             accept, commands, faults, failures>>

SchedulerRuns == ~sched.exited /\ ~sched.stopped /\ ~sched.waiting

\* A pending operation is due (a fault at once, a retry after its delay).
SchedulerSubmit ==
    /\ SchedulerRuns /\ sched.pending # Nothing
    /\ sched.pending.gen = sched.gen
    /\ Len(lane) < Capacity
    /\ lane' = Append(lane, sched.pending)
    /\ sched' = [sched EXCEPT !.pending = Nothing]
    /\ SchedulerIdle

\* Mutant of SchedulerFull: a full lane is treated like a closed one.
FullForgets ==
    /\ SchedulerRuns /\ sched.pending # Nothing
    /\ Len(lane) >= Capacity
    /\ sched' = [sched EXCEPT !.pending = Nothing]
    /\ UNCHANGED lane /\ SchedulerIdle

\* EnqueueError::Full: the operation stays pending until somebody notifies.
SchedulerFull ==
    /\ SchedulerRuns /\ sched.pending # Nothing
    /\ sched.pending.gen = sched.gen
    /\ Len(lane) >= Capacity
    /\ sched' = [sched EXCEPT !.waiting = TRUE]
    /\ UNCHANGED lane /\ SchedulerIdle

SchedulerExit ==
    /\ ~sched.exited /\ sched.stopped
    /\ sched' = [sched EXCEPT !.exited = TRUE]
    /\ UNCHANGED lane /\ SchedulerIdle

----------------------------------------------------------------------------
(* The operation worker. *)

Idle == [pc |-> "pop", job |-> Nothing, token |-> 0, gen |-> Unbound,
         cand |-> None, old |-> None, class |-> "none", keep |-> FALSE,
         next |-> "pop"]

Authority == {"rebind", "arm", "schedule"}

At(pc) == worker.pc = pc
Goto(pc) == worker' = [worker EXCEPT !.pc = pc]
Return == worker' = Idle

\* Mutant of ThenDrop: the attempt is forgotten.
ThenForget(a, pc) == worker' = [worker EXCEPT !.pc = pc, !.cand = None]

\* Drops attempt a after the step, then goes on at pc.
ThenDrop(a, pc) ==
    worker' = IF a = None THEN [worker EXCEPT !.pc = pc, !.cand = None]
              ELSE [worker EXCEPT !.pc = "drop", !.old = a, !.cand = None,
                                  !.next = pc]

\* operation_is_current
IsCurrent == ~stop /\ epoch = worker.token

\* scheduled_generation_decision = Current
ScheduledIsCurrent(job) == life.gen = job.gen /\ ~sched.stopped

Env == <<commands, faults, failures>>

\* OperationLane::close has been called.
Closed == accept \in {"joinWorker", "done"}

\* pop, and is_closed in spawn_operation_worker's loop
WorkerPop ==
    /\ At("pop") /\ lane # <<>>
    /\ lane' = Tail(lane)
    /\ worker' = IF Closed THEN Idle
                 ELSE [Idle EXCEPT !.pc = "admit", !.job = Head(lane)]
    /\ UNCHANGED <<life, capture, health, calls, epoch, stop, sched, accept, Env>>

WorkerExit ==
    /\ At("pop") /\ lane = <<>> /\ accept = "joinWorker"
    /\ Goto("exited")
    /\ UNCHANGED <<life, capture, health, calls, epoch, stop, sched, lane,
                   accept, Env>>

\* Mutant of Admit: notify_lane_available is left out.
AdmitSilently ==
    /\ At("admit")
    /\ IF stop THEN Return
       ELSE Goto(CASE worker.job.kind \in Requests -> "begin"
                   [] worker.job.kind = "retry" -> "decide"
                   [] worker.job.kind = "fault" -> "fault")
    /\ UNCHANGED <<life, capture, health, calls, epoch, stop, lane, sched,
                   accept, Env>>

\* notify_lane_available, and the dispatch of execute_operation_job
Admit ==
    /\ At("admit")
    /\ sched' = Woken(sched)
    /\ IF stop THEN Return
       ELSE Goto(CASE worker.job.kind \in Requests -> "begin"
                   [] worker.job.kind = "retry" -> "decide"
                   [] worker.job.kind = "fault" -> "fault")
    /\ UNCHANGED <<life, capture, health, calls, epoch, stop, lane, accept, Env>>

\* begin_new_operation_generation(Command), up to the release of the runtime
Begin ==
    /\ At("begin")
    /\ \/ stop /\ Return /\ UNCHANGED <<life, epoch, sched>>
       \/ /\ ~stop
          /\ epoch' = epoch + 1
          /\ life' = [life EXCEPT !.gen = @ + 1]
          /\ sched' = Invalidated(sched, life.gen + 1)
          /\ worker' = [worker EXCEPT !.pc = "rebind", !.token = epoch + 1,
                                      !.gen = life.gen + 1,
                                      !.keep = (worker.job.kind = "reload")]
    /\ UNCHANGED <<capture, health, calls, stop, lane, accept, Env>>

AfterRebind == CASE worker.job.kind = "start" -> "check"
                 [] worker.job.kind = "reload" -> "prepare"
                 [] worker.job.kind = "stop" -> "halt"

\* Mutant of Rebind: the running capture stays bound to the old generation.
RebindForgotten ==
    /\ At("rebind")
    /\ Goto(AfterRebind)
    /\ UNCHANGED <<life, capture, health, sched, calls, epoch, stop, lane,
                   accept, Env>>

\* rebind_and_arm for the capture that was running at entry
Rebind ==
    /\ At("rebind")
    /\ IF capture = None \/ health[capture].sink = Unbound
       THEN UNCHANGED <<health, sched>>
       ELSE Settle(capture, Rebound(health[capture], worker.gen))
    /\ Goto(AfterRebind)
    /\ UNCHANGED <<life, capture, calls, epoch, stop, lane, accept, Env>>

\* StartCapture finds a capture running and leaves it alone.
Check ==
    /\ At("check")
    /\ IF IsCurrent /\ ~(capture # None /\ life.state = "running")
       THEN Goto("prepare") ELSE Return
    /\ UNCHANGED <<life, capture, health, calls, epoch, stop, sched, lane,
                   accept, Env>>

\* prepare_config_from_disk and validate_candidate_socket succeed
Prepare ==
    /\ At("prepare")
    /\ IF IsCurrent /\ (worker.job.kind = "retry" => ScheduledIsCurrent(worker.job))
       THEN Goto(IF worker.job.kind = "start" THEN "detach" ELSE "launch")
       ELSE Return
    /\ UNCHANGED <<life, capture, health, calls, epoch, stop, sched, lane,
                   accept, Env>>

\* ... or fail.  A retry's failure has no generation of its own yet.
PrepareFails(class) ==
    /\ At("prepare") /\ failures < MaxFailures
    /\ failures' = failures + 1
    /\ worker' = [worker EXCEPT !.pc = "fail", !.class = class]
    /\ UNCHANGED <<life, capture, health, calls, epoch, stop, sched, lane,
                   accept, commands, faults>>

\* start_capture_transaction takes what is left of an earlier capture.
Detach ==
    /\ At("detach")
    /\ \/ ~IsCurrent /\ Return /\ UNCHANGED <<life, capture>>
       \/ /\ IsCurrent
          /\ capture' = None
          /\ life' = [life EXCEPT !.state = "starting", !.class = "none"]
          /\ ThenDrop(capture, "launch")
    /\ UNCHANGED <<health, calls, epoch, stop, sched, lane, accept, Env>>

\* drop_capture_then_session
Drop ==
    /\ At("drop") /\ Joinable(worker.old)
    /\ health' = Dropped(worker.old)
    /\ worker' = IF worker.next = "pop" THEN Idle
                 ELSE [worker EXCEPT !.pc = worker.next, !.old = None,
                                     !.next = "pop"]
    /\ UNCHANGED <<life, capture, calls, epoch, stop, sched, lane, accept, Env>>

\* The generation an attempt's sink is bound to: the operation's, or the one
\* its publication will begin.
SinkGen == IF worker.gen = Unbound THEN life.gen + 1 ELSE worker.gen

\* install_prepared_then_follow_start_mode starts a backend.
Launch ==
    /\ At("launch")
    /\ IF IsCurrent
       THEN /\ health' = Append(health, Started(SinkGen))
            /\ worker' = [worker EXCEPT !.pc = "publish", !.cand = Len(health) + 1]
       ELSE Return /\ UNCHANGED health
    /\ UNCHANGED <<life, capture, calls, epoch, stop, sched, lane, accept, Env>>

\* A manual start mode on reload, or no active profile: nothing to start.
LaunchIdle ==
    /\ At("launch") /\ IsCurrent
    /\ Goto("publish")
    /\ UNCHANGED <<life, capture, health, calls, epoch, stop, sched, lane,
                   accept, Env>>

\* The backend does not start, or something after its start fails (session,
\* activity policy, startup recovery, the save of an activated profile) and
\* the attempt is dropped.  One of the paths forgets the operation's
\* generation and the failure begins a new one.
LaunchFails(class, forget) ==
    /\ At("launch") \/ (At("publish") /\ worker.cand # None)
    /\ failures < MaxFailures
    /\ failures' = failures + 1
    /\ Joinable(worker.cand)
    /\ health' = Dropped(worker.cand)
    /\ worker' = [worker EXCEPT !.pc = "fail", !.class = class, !.cand = None,
                     !.gen = IF forget THEN Unbound ELSE @,
                     !.keep = (worker.job.kind # "start")]
    /\ UNCHANGED <<life, capture, calls, epoch, stop, sched, lane, accept,
                   commands, faults>>

\* the final publication, under operation_authority and the runtime's lock
Publish ==
    /\ At("publish")
    /\ \/ /\ ~IsCurrent \/ (worker.gen # Unbound /\ worker.gen # life.gen)
          /\ ThenDrop(worker.cand, "pop")
          /\ UNCHANGED <<life, capture, sched>>
       \/ /\ IsCurrent /\ worker.gen \in {Unbound, life.gen}
          /\ capture' = worker.cand
          /\ life' = [gen |-> IF worker.gen = Unbound THEN life.gen + 1
                              ELSE life.gen,
                      state |-> IF worker.cand = None THEN "stopped"
                                ELSE "running",
                      class |-> "none", stopping |-> FALSE]
          /\ sched' = Invalidated(sched, life'.gen)
          /\ worker' = [worker EXCEPT !.pc = "arm", !.old = capture]
    /\ UNCHANGED <<health, calls, epoch, stop, lane, accept, Env>>

\* health.arm(), still under operation_authority
ArmPublished ==
    /\ At("arm")
    /\ IF worker.cand = None THEN UNCHANGED <<health, sched>>
       ELSE Settle(worker.cand, Arm(health[worker.cand]))
    /\ IF worker.old = None THEN Return
       ELSE worker' = [worker EXCEPT !.pc = "drop", !.cand = None, !.next = "pop"]
    /\ UNCHANGED <<life, capture, calls, epoch, stop, lane, accept, Env>>

\* command_attempt_failure_with_generation
FailedGen == IF worker.gen = Unbound THEN life.gen + 1 ELSE worker.gen

\* schedule_retry for a transient error, invalidate for a permanent one
AfterFailure(class, g) ==
    IF class = "transient" THEN Pend(sched, Retry(g)) ELSE Invalidated(sched, g)

Fail ==
    /\ At("fail")
    /\ \/ /\ \/ ~IsCurrent
             \/ /\ worker.class # "fatal" /\ worker.keep
                /\ capture # None /\ life.state = "running"
          /\ Return
          /\ UNCHANGED <<life, stop, sched>>
       \/ /\ IsCurrent /\ worker.class = "fatal"        \* signal_fatal
          /\ stop' = TRUE
          /\ sched' = SchedulerStopped(sched)
          /\ Return /\ UNCHANGED life
       \/ /\ IsCurrent /\ worker.class # "fatal"
          /\ ~(worker.keep /\ capture # None /\ life.state = "running")
          /\ life' = [life EXCEPT !.gen = FailedGen, !.state = "faulted",
                                  !.class = worker.class]
          /\ sched' = AfterFailure(worker.class, FailedGen)
          /\ Return /\ UNCHANGED stop
    /\ UNCHANGED <<capture, health, calls, epoch, lane, accept, Env>>

\* stop_capture_transaction
Halt ==
    /\ At("halt")
    /\ \/ ~IsCurrent /\ Return /\ UNCHANGED <<life, capture>>
       \/ /\ IsCurrent
          /\ capture' = None
          /\ life' = [life EXCEPT !.state = "stopped", !.class = "none"]
          /\ ThenDrop(capture, "pop")
    /\ UNCHANGED <<health, calls, epoch, stop, sched, lane, accept, Env>>

\* execute_retry_operation: the first decision, then begin_command_operation
Decide ==
    /\ At("decide")
    /\ IF ScheduledIsCurrent(worker.job) THEN Goto("token") ELSE Return
    /\ UNCHANGED <<life, capture, health, calls, epoch, stop, sched, lane,
                   accept, Env>>

Token ==
    /\ At("token")
    /\ \/ stop /\ Return /\ UNCHANGED epoch
       \/ /\ ~stop
          /\ epoch' = epoch + 1
          /\ worker' = [worker EXCEPT !.pc = "prepare", !.token = epoch + 1]
    /\ UNCHANGED <<life, capture, health, calls, stop, sched, lane, accept, Env>>

\* Mutant of Fault: the attempt ids are not compared.
FaultOfAnyAttempt ==
    /\ At("fault")
    /\ IF /\ ScheduledIsCurrent(worker.job) /\ ~stop
          /\ capture # None
       THEN /\ capture' = None
            /\ life' = [life EXCEPT !.state = "faulted", !.class = "transient"]
            /\ worker' = [worker EXCEPT !.pc = "schedule", !.old = capture]
       ELSE Return /\ UNCHANGED <<life, capture>>
    /\ UNCHANGED <<health, calls, epoch, stop, sched, lane, accept, Env>>

\* publish_runtime_fault: the job's generation and attempt are the running
\* capture's, or the job is stale
Fault ==
    /\ At("fault")
    /\ IF /\ ScheduledIsCurrent(worker.job) /\ ~stop
          /\ capture # None /\ capture = worker.job.attempt
       THEN /\ capture' = None
            /\ life' = [life EXCEPT !.state = "faulted", !.class = "transient"]
            /\ worker' = [worker EXCEPT !.pc = "schedule", !.old = capture]
       ELSE Return /\ UNCHANGED <<life, capture>>
    /\ UNCHANGED <<health, calls, epoch, stop, sched, lane, accept, Env>>

\* ... drops the capture and schedules its retry before it lets go
ScheduleRetry ==
    /\ At("schedule") /\ Joinable(worker.old)
    /\ health' = Dropped(worker.old)
    /\ sched' = Pend(sched, Retry(worker.job.gen))
    /\ Return
    /\ UNCHANGED <<life, capture, calls, epoch, stop, lane, accept, Env>>

----------------------------------------------------------------------------
(* The accept thread: route_idle_stream, and finish_idle_listener once it   *)
(* has seen `stop`.                                                         *)

\* A request for the lane: queued, or answered busy when there is no room.
\* The accept loop looks at `stop` after every connection.
AcceptRequest(request) ==
    /\ accept = "serve" /\ commands < MaxCommands
    /\ commands' = commands + 1
    /\ lane' = IF Len(lane) < Capacity THEN Append(lane, Client(request)) ELSE lane
    /\ accept' = IF stop THEN "scheduler" ELSE "serve"
    /\ UNCHANGED <<life, capture, health, calls, epoch, stop, sched, worker,
                   faults, failures>>

\* Stop: begin_shutdown under operation_authority, with its fallback when a
\* fatal error has set `stop` already.
AcceptStop ==
    /\ accept = "serve" /\ worker.pc \notin Authority
    /\ \/ /\ ~stop
          /\ epoch' = epoch + 1
          /\ life' = [life EXCEPT !.gen = @ + 1, !.class = "none", !.stopping = TRUE]
          /\ sched' = SchedulerStopped(Invalidated(sched, life.gen + 1))
       \/ /\ stop
          /\ life' = [life EXCEPT !.class = "none", !.stopping = TRUE]
          /\ sched' = SchedulerStopped(sched)
          /\ UNCHANGED epoch
    /\ stop' = TRUE
    /\ accept' = "scheduler"
    /\ UNCHANGED <<capture, health, calls, lane, worker, Env>>

\* nonblocking_control_wake of signal_fatal: accept returns, `stop` is seen.
FatalWake ==
    /\ accept = "serve" /\ stop
    /\ accept' = "scheduler"
    /\ UNCHANGED <<life, capture, health, calls, epoch, stop, sched, lane,
                   worker, Env>>

\* finish_idle_listener_with_probe, one step for each call that waits
StopScheduler ==
    /\ accept = "scheduler"
    /\ sched' = SchedulerStopped(sched)
    /\ accept' = "joinScheduler"
    /\ UNCHANGED <<life, capture, health, calls, epoch, stop, lane, worker, Env>>

CloseLane ==
    /\ accept = "joinScheduler" /\ sched.exited
    /\ accept' = "joinWorker"
    /\ UNCHANGED <<life, capture, health, calls, epoch, stop, sched, lane,
                   worker, Env>>

\* release_capture_for_shutdown, after the join of the worker
ReleaseCapture ==
    /\ accept = "joinWorker" /\ At("exited")
    /\ capture = None \/ Joinable(capture)
    /\ health' = Dropped(capture)
    /\ capture' = None
    /\ life' = [life EXCEPT !.class = "none", !.stopping = TRUE]
    /\ accept' = "done"
    /\ UNCHANGED <<calls, epoch, stop, sched, lane, worker, Env>>

----------------------------------------------------------------------------
\* build_idle_context and attempt_configured_start leave one of these: no
\* capture wanted, a configuration that cannot start, a start that failed and
\* has its retry scheduled, or a capture published and armed.
Bootstrap(state, class, g) ==
    /\ life = [gen |-> g, state |-> state, class |-> class, stopping |-> FALSE]
    /\ capture = IF state = "running" THEN 1 ELSE None
    /\ health = IF state = "running" THEN <<Arm(Unarmed(g))>> ELSE <<>>
    /\ sched = [gen |-> g, stopped |-> FALSE, waiting |-> FALSE, exited |-> FALSE,
                pending |-> IF class = "transient" THEN Retry(g) ELSE Nothing]

Init ==
    /\ \/ Bootstrap("stopped", "none", 0)
       \/ Bootstrap("faulted", "permanent", 0)
       \/ Bootstrap("faulted", "transient", 1)
       \/ Bootstrap("running", "none", 1)
    /\ calls = {} /\ epoch = 0 /\ stop = FALSE
    /\ lane = <<>> /\ worker = Idle /\ accept = "serve"
    /\ commands = 0 /\ faults = 0 /\ failures = 0

Fails ==
    \E class \in {"transient", "permanent", "fatal"} :
        PrepareFails(class) \/ \E forget \in BOOLEAN : LaunchFails(class, forget)

Works == \/ WorkerPop \/ WorkerExit \/ Admit \/ Begin \/ Rebind \/ Check
         \/ Prepare \/ Detach \/ Drop \/ Launch \/ LaunchIdle \/ Fails
         \/ Publish \/ ArmPublished \/ Fail \/ Halt \/ Decide \/ Token
         \/ Fault \/ ScheduleRetry

Schedules == SchedulerSubmit \/ SchedulerFull \/ SchedulerExit

Finishes == FatalWake \/ StopScheduler \/ CloseLane \/ ReleaseCapture

\* The process has returned from run_idle_listener.
Ended == accept = "done" /\ UNCHANGED vars

Next ==
    \/ \E a \in Attempts : BackendFault(a)
    \/ \E n \in calls : NotifyFault(n)
    \/ \E request \in Requests : AcceptRequest(request)
    \/ AcceptStop \/ Works \/ Schedules \/ Finishes \/ Ended

Spec == Init /\ [][Next]_vars

\* Every thread runs: the worker, the scheduler (whose delays end), a PipeWire
\* thread with a notification to make, and the accept thread once it has to
\* shut down.  Nobody has to send a request and no backend has to fail.
FairSpec ==
    /\ Spec
    /\ WF_vars(Works) /\ WF_vars(Schedules) /\ WF_vars(Finishes)
    /\ WF_vars(\E n \in calls : NotifyFault(n))

----------------------------------------------------------------------------
(* Properties. *)

Queued == {lane[i] : i \in DOMAIN lane}
Starting(job) == worker.job = job /\ worker.pc \in {"admit", "decide", "token",
                                                    "prepare", "fault"}
OnItsWay(job) == job \in calls \cup {sched.pending} \cup Queued \/ Starting(job)

\* A backoff always has its retry: while the lifecycle reports a transient
\* error and the worker is between operations, a retry of the current
\* generation is pending, queued or in the worker's hands.  Invalidation at
\* the entry of a command, a full lane and a stale job never leave the daemon
\* degraded with nothing scheduled.
RetryOnItsWay ==
    life.class = "transient" /\ ~stop /\ worker.pc \in {"pop", "admit", "decide", "token"}
        => OnItsWay(Retry(life.gen))

\* A running capture whose backend has failed has its fault on its way under
\* the current generation and its own attempt id, through every command that
\* advances the generation and every publication (outside the two windows in
\* which operation_authority is held to rebind or arm it).  It can be lost to
\* one thing only: the fault of another attempt that was bound to the same
\* generation, which takes its place in the scheduler's single slot.
FaultOnItsWay ==
    capture # None /\ ~stop /\ worker.pc \notin {"rebind", "arm"}
        /\ (\A a \in Attempts \ {capture} : health[a].notified # life.gen)
        => (health[capture].fault => OnItsWay(RuntimeFault(life.gen, capture)))

\* Stop-capture, success and permanent faults end the backoff for good: no
\* retry of the current generation exists unless the lifecycle is transient.
NoUnwantedRetry ==
    life.class # "transient" /\ worker.pc = "pop"
        => ~OnItsWay(Retry(life.gen))

\* The scheduler's single slot, the lane and the calls into it lose no retry and no
\* fault, and keep no retry that a command has made unwanted.
NotificationsKept == RetryOnItsWay /\ FaultOnItsWay /\ NoUnwantedRetry

\* Every backend that was started and not stopped has exactly one owner that
\* will stop it, and none is left when the daemon has returned.
NoOrphans ==
    /\ \A a \in Attempts :
          ~health[a].normalStop => a \in {capture, worker.cand, worker.old}
    /\ accept = "done" => capture = None

\* A retry installs a capture only into the backoff it was scheduled for: a
\* retry queued behind a stop-capture, start or reload is a no-op.
RetryOnlyWhenWanted ==
    [][capture' \notin {capture, None} /\ worker.job.kind = "retry"
          => life.class = "transient" /\ life.gen = worker.job.gen]_vars

\* A fault removes only the capture whose backend failed, never the one that
\* a reload put in its place under the same generation.
FaultHitsItsOwn ==
    [][capture' # capture /\ worker.pc = "fault" => health[capture].fault]_vars

\* Once Stop has published `stopping`, no operation that was under way puts
\* the lifecycle back or installs a capture.
StoppingForever ==
    [][life.stopping => life'.stopping /\ capture' \in {capture, None}]_vars

\* What was queued before a command, a reload or a stop does nothing after it.
StaleJobsHarmless == RetryOnlyWhenWanted /\ FaultHitsItsOwn /\ StoppingForever

\* A failed backend is removed (or the daemon stops): the fault reaches the
\* worker whatever commands it meets on its way.
Failed == capture # None /\ health[capture].fault
FaultRecovered == Failed ~> ~Failed

\* A backoff ends: its retry runs, and again, until one succeeds, the error
\* is reclassified, a command intervenes or the daemon stops.
BackoffEnds == life.class = "transient" ~> life.class # "transient" \/ stop
=============================================================================
