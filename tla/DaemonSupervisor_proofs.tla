---------------------- MODULE DaemonSupervisor_proofs ----------------------
(***************************************************************************)
(* What the supervisor's three numbers are worth, for every capacity of    *)
(* the lane and any number of commands, backend faults and failures: no    *)
(* backend without an owner, no backoff without its retry, no fault lost   *)
(* but to another of its generation, nothing done by a job that is stale.  *)
(***************************************************************************)
EXTENDS DaemonSupervisor, SequenceTheorems, TLAPS

Classes == {"transient", "permanent", "fatal"}
Jobs == [kind : {"none", "start", "stop", "reload", "retry", "fault"}, gen : Nat, attempt : Nat]
Health == [fault : BOOLEAN, sink : Int, notified : Int, armed : BOOLEAN, normalStop : BOOLEAN]

\* A capture, if there is one, is one of the attempts.
IsAttempt(a) == a \in Nat /\ a <= Len(health)

Places == {"pop", "admit", "begin", "rebind", "check", "prepare", "detach", "drop", "launch", "publish",
           "arm", "fail", "halt", "decide", "token", "fault", "schedule", "exited"}

LifeFields == {"gen", "state", "class", "stopping"}
LifeIs(l, gen, state, class, stopping) ==
    /\ DOMAIN l = LifeFields
    /\ l.gen = gen /\ l.state = state /\ l.class = class /\ (l.stopping <=> stopping)
LifeTypes ==
    /\ DOMAIN life = LifeFields /\ life.gen \in Nat
    /\ epoch \in Nat
    /\ accept \in {"serve", "scheduler", "joinScheduler", "joinWorker", "done"}

HealthTypes ==
    /\ health \in Seq(Health) /\ Len(health) \in Nat
    /\ IsAttempt(capture) /\ IsAttempt(worker.cand) /\ IsAttempt(worker.old)

IsSched(s) ==
    /\ DOMAIN s = {"gen", "stopped", "waiting", "exited", "pending"}
    /\ s.gen \in Nat /\ s.pending \in Jobs
SchedIs(s, gen, stopped, pending) ==
    IsSched(s) /\ s.gen = gen /\ (s.stopped <=> stopped) /\ s.pending = pending
JobTypes ==
    /\ calls \subseteq Jobs /\ lane \in Seq(Jobs)
    /\ IsSched(sched)

WorkerFields == {"pc", "job", "token", "gen", "cand", "old", "class", "keep", "next"}
WorkerIs(w, pc, job, token, gen, cand, old, keep, next) ==
    /\ DOMAIN w = WorkerFields
    /\ w.pc = pc /\ w.job = job /\ w.token = token /\ w.gen = gen /\ w.cand = cand /\ w.old = old
    /\ (w.keep <=> keep) /\ w.next = next
AtRest(w) == WorkerIs(w, "pop", Nothing, 0, Unbound, None, None, FALSE, "pop")
Moves(pc) ==
    WorkerIs(worker', pc, worker.job, worker.token, worker.gen, worker.cand, worker.old, worker.keep, worker.next)
WorkerTypes ==
    /\ DOMAIN worker = WorkerFields
    /\ worker.pc \in Places /\ worker.job \in Jobs /\ worker.gen \in Int
    /\ worker.next \in {"pop", "launch"}

SupervisorTypes == LifeTypes /\ HealthTypes /\ JobTypes /\ WorkerTypes

\* Who has been told that the daemon stops, and what the scheduler still does.
Stopping ==
    /\ accept # "serve" => stop
    /\ life.stopping => stop
    /\ stop <=> sched.stopped
    /\ stop => sched.pending = Nothing
    /\ sched.gen <= life.gen
    /\ sched.pending # Nothing => sched.pending.gen = sched.gen
    /\ accept = "done" => worker.pc = "exited" /\ capture = None

\* The operations of a client command and of a retry.
OfRequest == worker.job.kind \in Requests
OfRetry == worker.job.kind = "retry"

\* Where the worker is in the operation of its job, and for which epoch and
\* generation.
Operation ==
    /\ worker.pc = "admit" => worker.job.kind # "none"
    /\ worker.pc \in {"begin", "rebind"} => OfRequest
    /\ worker.pc \in {"check", "detach"} => worker.job.kind = "start"
    /\ worker.pc = "halt" => worker.job.kind = "stop"
    /\ worker.pc \in {"prepare", "launch", "publish", "fail"} => OfRetry \/ worker.job.kind \in {"start", "reload"}
    /\ worker.pc \in {"decide", "token"} => OfRetry
    /\ worker.pc \in {"fault", "schedule"} => worker.job.kind = "fault"
    /\ worker.pc = "drop" => worker.next = "pop"
    /\ worker.pc \in {"rebind", "check", "prepare", "detach", "launch", "publish", "fail", "halt"}
          /\ ~stop => worker.token = epoch
    /\ worker.pc \in {"rebind", "check", "detach", "prepare", "launch", "publish", "halt"} /\ OfRequest /\ ~stop =>
          worker.gen = life.gen
    /\ worker.pc \in {"admit", "decide", "token", "prepare", "launch", "publish", "fail"} /\ OfRetry =>
          worker.gen = Unbound
    /\ worker.pc = "fail" /\ ~stop => worker.gen \in {Unbound, life.gen}
    /\ worker.pc \in {"rebind", "schedule", "arm"} => ~stop
    /\ worker.pc = "schedule" => worker.job.gen = life.gen /\ life.class = "transient"
    /\ worker.pc \in {"arm", "drop"} /\ ~stop => life.class = "none"

\* Who owns a backend.
Owners ==
    /\ worker.cand # None => worker.pc \in {"publish", "arm"}
    /\ worker.old # None => worker.pc \in {"drop", "arm", "schedule"}
    /\ worker.pc = "arm" => worker.cand = capture
    /\ capture # None /\ worker.pc # "arm" => capture # worker.cand
    /\ capture # None => capture # worker.old
    /\ \A a \in Attempts : ~health[a].normalStop => a \in {capture, worker.cand, worker.old}

\* The lifecycle tells of a capture.
Running ==
    capture # None => life.state = "running" /\ life.class = "none" /\ ~health[capture].normalStop

\* An operation that is to start a capture has none to replace, a reload aside.
NothingYet ==
    /\ OfRetry /\ worker.pc \in {"token", "prepare", "launch", "publish", "fail"} => capture = None
    /\ worker.job.kind = "start" /\ worker.pc \in {"prepare", "detach", "launch", "publish", "fail"} => capture = None
    /\ worker.job.kind = "reload" /\ worker.pc \in {"rebind", "prepare", "fail"} => worker.keep

Ownership == Owners /\ Running /\ NothingYet

\* A retry of the current generation: where it is, and when there can be one.
Now == Retry(life.gen)
Waits == sched.pending = Now \/ Now \in Queued
Holds == worker.job = Now /\ worker.pc \in {"admit", "decide", "token", "prepare", "launch", "publish", "fail"}

\* No job is of a generation to come.
Timely == \A j \in calls \cup {sched.pending, worker.job} \cup Queued : j.gen <= life.gen

\* There is a retry of the current generation only in a backoff, only one, and none
\* once a command has begun its generation.
RetryOnce ==
    /\ Waits \/ Holds => life.class = "transient" /\ ~stop
    /\ OfRetry /\ worker.pc \in {"token", "prepare", "launch", "publish", "fail"} /\ ~stop => worker.job = Now
    /\ Holds \/ worker.pc = "schedule" => ~Waits
    /\ OfRequest /\ worker.pc \notin {"pop", "exited", "admit", "begin"} => ~Waits
    /\ sched.pending = Now => Now \notin Queued
    /\ \A i, k \in DOMAIN lane : lane[i] = Now /\ lane[k] = Now => i = k

\* A backoff between two operations has its retry.
RetryThere ==
    life.class = "transient" /\ ~stop /\ worker.pc \in {"pop", "admit", "begin", "decide", "token", "fault"}
        => Waits \/ Holds

Retries == Timely /\ RetryOnce /\ RetryThere

\* A job says what is so: the fault of an attempt that failed, or a plain retry.
Genuine(j) ==
    CASE j.kind = "fault" -> j.attempt \in Attempts /\ health[j.attempt].fault
      [] j.kind = "retry" -> j.attempt = 0
      [] j.kind = "none" -> j = Nothing
      [] OTHER -> j.gen = 0 /\ j.attempt = 0

\* The jobs on their way are genuine, wherever they are.
Honest ==
    /\ \A j \in calls \cup {sched.pending, worker.job} \cup Queued : Genuine(j)
    /\ \A j \in Queued : j.kind # "none"

\* What a sink was told: a call into the scheduler is of a backend that failed and was
\* not stopped, and no notification is of a generation the lifecycle has not reached.
Told ==
    /\ \A n \in calls : n.kind = "fault" /\ ~health[n.attempt].normalStop /\ n.gen <= health[n.attempt].notified
    /\ \A a \in Attempts :
          /\ ~health[a].fault => health[a].notified = Unbound
          /\ health[a].notified <= life.gen
          /\ health[a].sink >= Unbound
          /\ health[a].armed => health[a].sink <= life.gen
          /\ health[a].normalStop => ~health[a].armed

Notified == Honest /\ Told

\* The sink of a capture that is started, published, armed and rebound.
Bound ==
    /\ worker.pc = "publish" /\ worker.cand # None =>
         LET h == health[worker.cand]
         IN /\ ~h.armed /\ ~h.normalStop /\ h.notified = Unbound
            /\ ~stop => h.sink = IF worker.gen = Unbound THEN life.gen + 1 ELSE life.gen
    /\ worker.pc = "arm" /\ worker.cand # None =>
         LET h == health[worker.cand]
         IN ~h.armed /\ ~h.normalStop /\ h.notified = Unbound /\ h.sink = life.gen
    /\ worker.pc # "arm" /\ capture # None => health[capture].armed /\ health[capture].sink >= 0
    /\ worker.pc = "rebind" =>
         /\ \A a \in Attempts : health[a].notified < life.gen
         /\ capture # None => health[capture].sink < life.gen
    /\ worker.pc \notin {"rebind", "arm"} /\ capture # None /\ ~stop =>
         health[capture].sink = life.gen

SupervisorInv == SupervisorTypes /\ Stopping /\ Operation /\ Ownership /\ Retries /\ Notified /\ Bound /\ FaultOnItsWay

-----------------------------------------------------------------------------
(* Helpers                                                                 *)

\* The generation of no binding is below every generation.
LEMMA UnboundFacts == Unbound \in Int /\ \A g \in Nat : Unbound < g /\ g + 1 # Unbound /\ g # Unbound
BY DEF Unbound

\* The health of one attempt is set, and the others stay.
LEMMA HealthSet ==
    ASSUME health \in Seq(Health), NEW a \in Attempts, NEW h \in Health,
           health' = [health EXCEPT ![a] = h]
    PROVE  /\ health' \in Seq(Health) /\ Len(health') = Len(health) /\ Attempts' = Attempts
           /\ health'[a] = h /\ \A b \in Attempts : b # a => health'[b] = health[b]
<1>1. a \in 1 .. Len(health)
  BY DEF Attempts
<1>2. health' \in Seq(Health) /\ Len(health') = Len(health)
  BY <1>1, ExceptSeq
<1> QED BY <1>1, <1>2 DEF Attempts

\* A drop marks its attempt as stopped, and leaves the others and every fault alone.
LEMMA HealthDropped ==
    ASSUME HealthTypes, NEW a, IsAttempt(a), health' = Dropped(a)
    PROVE  /\ health' \in Seq(Health) /\ Len(health') = Len(health) /\ Attempts' = Attempts
           /\ \A b \in Attempts : b # a => health'[b] = health[b]
           /\ a # None => /\ a \in Attempts /\ health'[a].normalStop /\ ~health'[a].armed /\ health'[a].sink = Unbound
                           /\ health'[a].fault = health[a].fault /\ health'[a].notified = health[a].notified
<1>1. CASE a = None
  BY <1>1 DEF Dropped, Attempts, HealthTypes, None
<1>2. CASE a # None
  <2>1. a \in Attempts /\ health \in Seq(Health)
    BY <1>2 DEF IsAttempt, None, HealthTypes, Attempts
  <2>2. health[a] \in Health
    BY <2>1 DEF Attempts
  <2> DEFINE h == [health[a] EXCEPT !.normalStop = TRUE, !.armed = FALSE, !.sink = Unbound]
  <2>3. /\ h \in Health /\ h.normalStop /\ ~h.armed /\ h.sink = Unbound
        /\ h.fault = health[a].fault /\ h.notified = health[a].notified
    BY <2>2, UnboundFacts DEF Health
  <2>4. health' = [health EXCEPT ![a] = h]
    BY <1>2, <2>1, <2>2 DEF Dropped, Health
  <2> HIDE DEF h
  <2>5. /\ health' \in Seq(Health) /\ Len(health') = Len(health) /\ Attempts' = Attempts
        /\ health'[a] = h /\ \A b \in Attempts : b # a => health'[b] = health[b]
    BY <2>1, <2>3, <2>4, HealthSet
  <2> QED BY <2>1, <2>3, <2>5
<1> QED BY <1>1, <1>2

\* The jobs of the lane.
LEMMA JobKinds ==
    /\ Nothing \in Jobs /\ \A r \in Requests : Client(r) \in Jobs
    /\ \A g \in Nat : Retry(g) \in Jobs /\ \A a \in Nat : RuntimeFault(g, a) \in Jobs
BY DEF Nothing, Client, Requests, Retry, RuntimeFault, Jobs

\* arm and rebind_and_arm set one health, and pend its fault if there is one to notify.
LEMMA SettleEffect ==
    ASSUME health \in Seq(Health), NEW a \in Attempts, NEW h \in Health, Settle(a, h)
    PROVE  /\ health' \in Seq(Health) /\ Len(health') = Len(health) /\ Attempts' = Attempts
           /\ \A b \in Attempts : b # a => health'[b] = health[b]
           /\ health'[a].fault = h.fault /\ health'[a].sink = h.sink /\ health'[a].armed = h.armed
           /\ health'[a].normalStop = h.normalStop
           /\ Notifies(h) => health'[a].notified = h.sink /\ sched' = Pend(sched, RuntimeFault(h.sink, a))
           /\ ~Notifies(h) => health'[a] = h /\ sched' = sched
<1>1. CASE Notifies(h)
  <2> DEFINE k == [h EXCEPT !.notified = h.sink]
  <2>1. /\ k \in Health /\ k.notified = h.sink /\ k.fault = h.fault /\ k.sink = h.sink /\ k.armed = h.armed
        /\ k.normalStop = h.normalStop
    BY DEF Health
  <2>2. health' = [health EXCEPT ![a] = k] /\ sched' = Pend(sched, RuntimeFault(h.sink, a))
    BY <1>1 DEF Settle
  <2> HIDE DEF k
  <2> QED BY <1>1, <2>1, <2>2, HealthSet
<1>2. CASE ~Notifies(h)
  <2>1. health' = [health EXCEPT ![a] = h] /\ sched' = sched
    BY <1>2 DEF Settle
  <2> QED BY <1>2, <2>1, HealthSet
<1> QED BY <1>1, <1>2

\* A backend that fails notes it, and is about to notify it if its sink is bound
\* and armed.
LEMMA FaultEffect ==
    ASSUME health \in Seq(Health), NEW a \in Attempts, BackendFault(a)
    PROVE  /\ health' \in Seq(Health) /\ Len(health') = Len(health) /\ Attempts' = Attempts
           /\ \A b \in Attempts : b # a => health'[b] = health[b]
           /\ health'[a].fault /\ health'[a].sink = health[a].sink /\ health'[a].armed = health[a].armed
           /\ ~health[a].normalStop /\ ~health'[a].normalStop /\ ~health[a].fault
           /\ \/ /\ health[a].armed /\ health[a].sink # Unbound /\ health[a].notified # health[a].sink
                 /\ health'[a].notified = health[a].sink
                 /\ calls' = calls \cup {RuntimeFault(health[a].sink, a)}
              \/ /\ ~(health[a].armed /\ health[a].sink # Unbound /\ health[a].notified # health[a].sink)
                 /\ health'[a].notified = health[a].notified /\ UNCHANGED calls
<1> DEFINE h == [health[a] EXCEPT !.fault = TRUE]
           k == [h EXCEPT !.notified = h.sink]
<1>0. health[a] \in Health
  BY DEF Attempts
<1>1. /\ h \in Health /\ h.fault /\ h.sink = health[a].sink /\ h.armed = health[a].armed
      /\ h.normalStop = health[a].normalStop /\ h.notified = health[a].notified
  BY <1>0 DEF Health
<1>2. /\ k \in Health /\ k.notified = h.sink /\ k.fault = h.fault /\ k.sink = h.sink /\ k.armed = h.armed
      /\ k.normalStop = h.normalStop
  BY <1>1 DEF Health
<1>3. ~health[a].normalStop /\ ~health[a].fault
  BY DEF BackendFault
<1>4. IF Notifies(h) THEN /\ health' = [health EXCEPT ![a] = k] /\ calls' = calls \cup {RuntimeFault(h.sink, a)}
      ELSE health' = [health EXCEPT ![a] = h] /\ UNCHANGED calls
  BY DEF BackendFault
<1> HIDE DEF h, k
<1>5. CASE Notifies(h)
  <2>1. health' = [health EXCEPT ![a] = k] /\ calls' = calls \cup {RuntimeFault(h.sink, a)}
    BY <1>4, <1>5
  <2>2. /\ health' \in Seq(Health) /\ Len(health') = Len(health) /\ Attempts' = Attempts
        /\ health'[a] = k /\ \A b \in Attempts : b # a => health'[b] = health[b]
    BY <1>2, <2>1, HealthSet
  <2>3. health[a].armed /\ health[a].sink # Unbound /\ health[a].notified # health[a].sink
    BY <1>1, <1>5 DEF Notifies
  <2> QED BY <1>1, <1>2, <1>3, <2>1, <2>2, <2>3
<1>6. CASE ~Notifies(h)
  <2>1. health' = [health EXCEPT ![a] = h] /\ UNCHANGED calls
    BY <1>4, <1>6
  <2>2. /\ health' \in Seq(Health) /\ Len(health') = Len(health) /\ Attempts' = Attempts
        /\ health'[a] = h /\ \A b \in Attempts : b # a => health'[b] = health[b]
    BY <1>1, <2>1, HealthSet
  <2>3. ~(health[a].armed /\ health[a].sink # Unbound /\ health[a].notified # health[a].sink)
    BY <1>1, <1>3, <1>6 DEF Notifies
  <2> QED BY <1>1, <1>3, <2>1, <2>2, <2>3
<1> QED BY <1>5, <1>6

\* schedule_retry and notify_fault replace what is pending unless it is newer.
LEMMA PendEffect ==
    ASSUME NEW s, NEW j \in Jobs, IsSched(s)
    PROVE  /\ IsSched(Pend(s, j)) /\ (Pend(s, j).stopped <=> s.stopped)
           /\ \/ (s.stopped \/ j.gen < s.gen) /\ Pend(s, j) = s
              \/ ~s.stopped /\ j.gen >= s.gen /\ Pend(s, j).pending = j /\ Pend(s, j).gen = j.gen
<1>1. j.gen \in Nat /\ s.gen \in Nat
  BY DEF Jobs, IsSched
<1>2. CASE s.stopped \/ j.gen < s.gen
  BY <1>2 DEF Pend
<1>3. CASE ~(s.stopped \/ j.gen < s.gen)
  <2>1. j.gen >= s.gen /\ ~s.stopped
    BY <1>1, <1>3
  <2>2. Pend(s, j) = [[s EXCEPT !.gen = j.gen, !.pending = j] EXCEPT !.waiting = FALSE]
    BY <1>3 DEF Pend, Woken
  <2>3. /\ DOMAIN Pend(s, j) = DOMAIN s /\ Pend(s, j).pending = j /\ Pend(s, j).gen = j.gen
        /\ Pend(s, j).stopped <=> s.stopped
    BY <2>2 DEF IsSched
  <2> QED BY <1>1, <2>1, <2>3 DEF IsSched
<1> QED BY <1>2, <1>3

\* invalidate drops what is pending and takes the generation on.
LEMMA InvalidatedEffect ==
    ASSUME NEW s, NEW g \in Nat, IsSched(s), s.gen <= g
    PROVE  /\ IsSched(Invalidated(s, g)) /\ (Invalidated(s, g).stopped <=> s.stopped)
           /\ Invalidated(s, g).gen = g /\ Invalidated(s, g).pending = Nothing
<1>1. ~(g < s.gen)
  BY DEF IsSched
<1>2. Invalidated(s, g) = [[s EXCEPT !.gen = g, !.pending = Nothing] EXCEPT !.waiting = FALSE]
  BY <1>1 DEF Invalidated, Woken
<1>3. /\ DOMAIN Invalidated(s, g) = DOMAIN s /\ Invalidated(s, g).pending = Nothing
      /\ Invalidated(s, g).gen = g /\ (Invalidated(s, g).stopped <=> s.stopped)
  BY <1>2 DEF IsSched
<1> QED BY <1>3, JobKinds DEF IsSched

\* stop drops what is pending for good.
LEMMA StoppedEffect ==
    ASSUME NEW s, IsSched(s)
    PROVE  /\ IsSched(SchedulerStopped(s)) /\ SchedulerStopped(s).stopped
           /\ SchedulerStopped(s).gen = s.gen /\ SchedulerStopped(s).pending = Nothing
<1>1. SchedulerStopped(s) = [[s EXCEPT !.stopped = TRUE, !.pending = Nothing] EXCEPT !.waiting = FALSE]
  BY DEF SchedulerStopped, Woken
<1>2. /\ DOMAIN SchedulerStopped(s) = DOMAIN s /\ SchedulerStopped(s).pending = Nothing
      /\ SchedulerStopped(s).gen = s.gen /\ SchedulerStopped(s).stopped
  BY <1>1 DEF IsSched
<1> QED BY <1>2, JobKinds DEF IsSched

\* A wake-up changes nothing else.
LEMMA WokenEffect ==
    ASSUME NEW s, IsSched(s)
    PROVE  /\ IsSched(Woken(s)) /\ (Woken(s).stopped <=> s.stopped)
           /\ Woken(s).gen = s.gen /\ Woken(s).pending = s.pending
BY DEF Woken, IsSched

\* The worker between two operations.
LEMMA IdleIs ==
    ASSUME TRUE
    PROVE  WorkerIs(Idle, "pop", Nothing, 0, Unbound, None, None, FALSE, "pop")
BY DEF Idle, WorkerIs, WorkerFields

\* The fields of a job.
LEMMA JobFields ==
    ASSUME NEW g, NEW a
    PROVE  /\ Retry(g).kind = "retry" /\ Retry(g).gen = g /\ Retry(g).attempt = 0
           /\ RuntimeFault(g, a).kind = "fault" /\ RuntimeFault(g, a).gen = g /\ RuntimeFault(g, a).attempt = a
           /\ Client(g).kind = g /\ Client(g).gen = 0 /\ Client(g).attempt = 0
           /\ Nothing.kind = "none" /\ Nothing.gen = 0 /\ Nothing.attempt = 0
BY DEF Retry, RuntimeFault, Client, Nothing

-----------------------------------------------------------------------------
(* What a step does, with the invariant used to leave out what cannot be.  *)

SchedSame == SchedIs(sched', sched.gen, sched.stopped, sched.pending)
Quiet == UNCHANGED <<life, capture, health, calls, epoch, stop, lane, accept>> /\ SchedSame
OthersKeep(a) ==
    /\ health' \in Seq(Health) /\ Len(health') = Len(health) /\ Attempts' = Attempts
    /\ \A b \in Attempts : b # a => health'[b] = health[b]
Marked(a) ==
    OthersKeep(a)
    /\ (a # None => /\ a \in Attempts /\ health'[a].normalStop /\ ~health'[a].armed /\ health'[a].sink = Unbound
                    /\ health'[a].fault = health[a].fault /\ health'[a].notified = health[a].notified)

\* An operation gives up: the daemon stops, or there is nothing to do.
Quits ==
    /\ Quiet /\ AtRest(worker')
    /\ worker.pc \in {"admit", "begin", "check", "prepare", "detach", "launch", "fail", "halt", "decide", "token", "fault"}
    /\ \/ stop
       \/ worker.pc = "check" /\ capture # None
       \/ worker.pc = "decide" /\ worker.job.gen # life.gen
       \/ worker.pc = "fault" /\ ~(worker.job.gen = life.gen /\ capture # None /\ capture = worker.job.attempt)
       \/ worker.pc = "fail" /\ worker.keep /\ capture # None

\* An operation goes on and changes nothing yet.
GoesOn ==
    Quiet
    /\ \/ worker.pc = "pop" /\ Moves("exited")
       \/ /\ ~stop
          /\ \/ worker.pc = "admit" /\ OfRequest /\ Moves("begin")
             \/ worker.pc = "admit" /\ OfRetry /\ Moves("decide")
             \/ worker.pc = "admit" /\ worker.job.kind = "fault" /\ Moves("fault")
             \/ worker.pc = "check" /\ capture = None /\ Moves("prepare")
             \/ worker.pc = "prepare" /\ worker.job.kind = "start" /\ Moves("detach")
             \/ worker.pc = "prepare" /\ worker.job.kind # "start" /\ Moves("launch")
             \/ worker.pc = "launch" /\ Moves("publish")
             \/ worker.pc = "decide" /\ worker.job.gen = life.gen /\ Moves("token")
       \/ worker.pc = "prepare" /\ Moves("fail")

Popped ==
    /\ worker.pc = "pop" /\ lane # <<>> /\ lane' = Tail(lane)
    /\ UNCHANGED <<life, capture, health, calls, epoch, stop, sched, accept>>
    /\ \/ stop /\ AtRest(worker')
       \/ WorkerIs(worker', "admit", Head(lane), 0, Unbound, None, None, FALSE, "pop")

Begun ==
    /\ worker.pc = "begin" /\ ~stop
    /\ UNCHANGED <<capture, health, calls, stop, lane, accept>> /\ epoch' = epoch + 1
    /\ LifeIs(life', life.gen + 1, life.state, life.class, life.stopping)
    /\ SchedIs(sched', life.gen + 1, sched.stopped, Nothing)
    /\ WorkerIs(worker', "rebind", worker.job, epoch + 1, life.gen + 1, worker.cand, worker.old,
                worker.job.kind = "reload", worker.next)

\* The capture is bound to the generation and armed, and its fault told if it has one.
Armed ==
    \/ capture = None /\ UNCHANGED <<health, sched>>
    \/ /\ capture # None /\ capture \in Attempts /\ OthersKeep(capture)
       /\ (health'[capture].fault <=> health[capture].fault) /\ health'[capture].sink = life.gen
       /\ health'[capture].armed /\ ~health'[capture].normalStop
       /\ \/ /\ health[capture].fault /\ health'[capture].notified = life.gen
             /\ SchedIs(sched', life.gen, FALSE, RuntimeFault(life.gen, capture))
          \/ /\ ~health[capture].fault /\ health'[capture].notified = health[capture].notified
             /\ UNCHANGED sched

Reboundings ==
    /\ worker.pc = "rebind" /\ UNCHANGED <<life, capture, calls, epoch, stop, lane, accept>>
    /\ \/ worker.job.kind = "start" /\ Moves("check")
       \/ worker.job.kind = "reload" /\ Moves("prepare")
       \/ worker.job.kind = "stop" /\ Moves("halt")
    /\ Armed

Tokened ==
    /\ worker.pc = "token" /\ ~stop /\ epoch' = epoch + 1
    /\ UNCHANGED <<life, capture, health, calls, stop, sched, lane, accept>>
    /\ WorkerIs(worker', "prepare", worker.job, epoch + 1, worker.gen, worker.cand, worker.old, worker.keep, worker.next)

Detached ==
    /\ worker.pc = "detach" /\ ~stop /\ capture = None
    /\ UNCHANGED <<capture, health, calls, epoch, stop, sched, lane, accept>>
    /\ LifeIs(life', life.gen, "starting", "none", life.stopping)
    /\ WorkerIs(worker', "launch", worker.job, worker.token, worker.gen, None, worker.old, worker.keep, worker.next)

DropDone ==
    /\ worker.pc = "drop" /\ (\A n \in calls : n.attempt # worker.old)
    /\ UNCHANGED <<life, capture, calls, epoch, stop, sched, lane, accept>>
    /\ Marked(worker.old) /\ AtRest(worker')

Launched ==
    /\ worker.pc = "launch" /\ ~stop
    /\ UNCHANGED <<life, capture, calls, epoch, stop, sched, lane, accept>>
    /\ health' \in Seq(Health) /\ Len(health') = Len(health) + 1 /\ Attempts' = Attempts \cup {Len(health) + 1}
    /\ \A b \in Attempts : health'[b] = health[b]
    /\ LET h == health'[Len(health) + 1]
       IN /\ ~h.fault /\ ~h.armed /\ ~h.normalStop /\ h.notified = Unbound
          /\ h.sink = IF worker.gen = Unbound THEN life.gen + 1 ELSE worker.gen
    /\ WorkerIs(worker', "publish", worker.job, worker.token, worker.gen, Len(health) + 1, worker.old, worker.keep,
                worker.next)

LaunchFailed ==
    /\ worker.pc \in {"launch", "publish"} /\ (\A n \in calls : n.attempt # worker.cand)
    /\ UNCHANGED <<life, capture, calls, epoch, stop, sched, lane, accept>>
    /\ Marked(worker.cand)
    /\ \E gen \in {Unbound, worker.gen} :
          WorkerIs(worker', "fail", worker.job, worker.token, gen, None, worker.old, worker.job.kind # "start", worker.next)

Abandoned ==
    /\ worker.pc = "publish" /\ stop
    /\ UNCHANGED <<life, capture, health, calls, epoch, stop, sched, lane, accept>>
    /\ \/ /\ worker.cand = None
          /\ WorkerIs(worker', "pop", worker.job, worker.token, worker.gen, None, worker.old, worker.keep, worker.next)
       \/ /\ worker.cand # None
          /\ WorkerIs(worker', "drop", worker.job, worker.token, worker.gen, None, worker.cand, worker.keep, "pop")

Published ==
    /\ worker.pc = "publish" /\ ~stop /\ capture' = worker.cand
    /\ UNCHANGED <<health, calls, epoch, stop, lane, accept>>
    /\ LET g == IF worker.gen = Unbound THEN life.gen + 1 ELSE life.gen
       IN LifeIs(life', g, IF worker.cand = None THEN "stopped" ELSE "running", "none", FALSE)
          /\ SchedIs(sched', g, FALSE, Nothing)
    /\ WorkerIs(worker', "arm", worker.job, worker.token, worker.gen, worker.cand, capture, worker.keep, worker.next)

ArmDone ==
    /\ worker.pc = "arm" /\ UNCHANGED <<life, capture, calls, epoch, stop, lane, accept>>
    /\ Armed
    /\ \/ worker.old = None /\ AtRest(worker')
       \/ /\ worker.old # None
          /\ WorkerIs(worker', "drop", worker.job, worker.token, worker.gen, None, worker.old, worker.keep, "pop")

Fatal ==
    /\ worker.pc = "fail" /\ ~stop /\ stop'
    /\ UNCHANGED <<life, capture, health, calls, epoch, lane, accept>>
    /\ SchedIs(sched', sched.gen, TRUE, Nothing) /\ AtRest(worker')

Faulted ==
    /\ worker.pc = "fail" /\ ~stop /\ capture = None
    /\ UNCHANGED <<capture, health, calls, epoch, stop, lane, accept>> /\ AtRest(worker')
    /\ \E g \in {life.gen, life.gen + 1} :
          /\ OfRetry => g = life.gen + 1
          /\ LifeIs(life', g, "faulted", worker.class, life.stopping)
          /\ SchedIs(sched', g, FALSE, IF worker.class = "transient" THEN Retry(g) ELSE Nothing)

Halted ==
    /\ worker.pc = "halt" /\ ~stop /\ capture' = None
    /\ UNCHANGED <<health, calls, epoch, stop, sched, lane, accept>>
    /\ LifeIs(life', life.gen, "stopped", "none", life.stopping)
    /\ \/ /\ capture = None
          /\ WorkerIs(worker', "pop", worker.job, worker.token, worker.gen, None, worker.old, worker.keep, worker.next)
       \/ /\ capture # None
          /\ WorkerIs(worker', "drop", worker.job, worker.token, worker.gen, None, capture, worker.keep, "pop")

Removed ==
    /\ worker.pc = "fault" /\ ~stop /\ worker.job.gen = life.gen /\ capture # None /\ capture = worker.job.attempt
    /\ capture' = None /\ UNCHANGED <<health, calls, epoch, stop, sched, lane, accept>>
    /\ LifeIs(life', life.gen, "faulted", "transient", life.stopping)
    /\ WorkerIs(worker', "schedule", worker.job, worker.token, worker.gen, worker.cand, capture, worker.keep, worker.next)

RetryScheduled ==
    /\ worker.pc = "schedule" /\ (\A n \in calls : n.attempt # worker.old)
    /\ UNCHANGED <<life, capture, calls, epoch, stop, lane, accept>>
    /\ Marked(worker.old) /\ AtRest(worker') /\ SchedIs(sched', life.gen, FALSE, Now)

FaultNoted(a) ==
    /\ a \in Attempts /\ UNCHANGED <<life, capture, epoch, stop, sched, lane, worker, accept>>
    /\ OthersKeep(a)
    /\ health'[a].fault /\ health'[a].sink = health[a].sink /\ health'[a].armed = health[a].armed
    /\ ~health[a].normalStop /\ ~health'[a].normalStop /\ ~health[a].fault
    /\ \/ /\ health[a].armed /\ health[a].sink # Unbound /\ health'[a].notified = health[a].sink
          /\ calls' = calls \cup {RuntimeFault(health[a].sink, a)}
       \/ /\ ~(health[a].armed /\ health[a].sink # Unbound)
          /\ health'[a].notified = health[a].notified /\ UNCHANGED calls

FaultTold(n) ==
    /\ n \in calls /\ calls' = calls \ {n}
    /\ UNCHANGED <<life, capture, health, epoch, stop, lane, worker, accept>>
    /\ \/ (stop \/ n.gen < sched.gen) /\ UNCHANGED sched
       \/ ~stop /\ n.gen >= sched.gen /\ SchedIs(sched', n.gen, FALSE, n)

Submitted ==
    /\ sched.pending # Nothing /\ lane' = Append(lane, sched.pending)
    /\ SchedIs(sched', sched.gen, sched.stopped, Nothing)
    /\ UNCHANGED <<life, capture, health, calls, epoch, stop, worker, accept>>

\* The scheduler waits or ends, and the accept thread goes on with its shutdown.
Elsewhere ==
    /\ UNCHANGED <<life, capture, health, calls, epoch, stop, lane, worker>> /\ SchedSame
    /\ accept' \in {accept} \cup (IF stop THEN {"scheduler", "joinScheduler", "joinWorker"} ELSE {})
    /\ accept' # accept => accept # "done"

Queues ==
    /\ accept = "serve" /\ UNCHANGED <<life, capture, health, calls, epoch, stop, sched, worker>>
    /\ lane' = lane \/ \E request \in Requests : lane' = Append(lane, Client(request))
    /\ accept' = IF stop THEN "scheduler" ELSE "serve"

StopTaken ==
    /\ accept = "serve" /\ accept' = "scheduler" /\ stop' /\ worker.pc \notin Authority
    /\ UNCHANGED <<capture, health, calls, lane, worker>>
    /\ epoch' \in Nat
    /\ \E g \in {life.gen, life.gen + 1} : (g = life.gen => stop) /\ LifeIs(life', g, life.state, "none", TRUE)
    /\ \E g \in {sched.gen, life.gen + 1} : g <= life'.gen /\ SchedIs(sched', g, TRUE, Nothing)

Released ==
    /\ accept = "joinWorker" /\ accept' = "done" /\ worker.pc = "exited" /\ capture' = None
    /\ (\A n \in calls : n.attempt # capture) \/ capture = None
    /\ UNCHANGED <<calls, epoch, stop, sched, lane, worker>>
    /\ Marked(capture) /\ LifeIs(life', life.gen, life.state, "none", TRUE)

\* Where an operation returns.
LEMMA RestIs ==
    ASSUME Return
    PROVE  AtRest(worker')
BY IdleIs DEF Return, AtRest

\* Where an operation goes on.
LEMMA GotoIs ==
    ASSUME NEW pc, DOMAIN worker = WorkerFields, Goto(pc)
    PROVE  Moves(pc)
BY DEF Goto, Moves, WorkerIs, WorkerFields

\* A health that is bound to a generation and armed.
LEMMA Rearmed ==
    ASSUME NEW r \in Health, NEW g \in Int
    PROVE  /\ [r EXCEPT !.sink = g, !.armed = TRUE] \in Health
           /\ [r EXCEPT !.sink = g, !.armed = TRUE].sink = g /\ [r EXCEPT !.sink = g, !.armed = TRUE].armed
           /\ [r EXCEPT !.sink = g, !.armed = TRUE].fault = r.fault
           /\ [r EXCEPT !.sink = g, !.armed = TRUE].normalStop = r.normalStop
           /\ [r EXCEPT !.sink = g, !.armed = TRUE].notified = r.notified
           /\ [r EXCEPT !.armed = TRUE] \in Health
           /\ [r EXCEPT !.armed = TRUE].sink = r.sink /\ [r EXCEPT !.armed = TRUE].armed
           /\ [r EXCEPT !.armed = TRUE].fault = r.fault
           /\ [r EXCEPT !.armed = TRUE].normalStop = r.normalStop
           /\ [r EXCEPT !.armed = TRUE].notified = r.notified
BY DEF Health

\* The epoch tells an operation that the daemon stops, and nothing else.
LEMMA CurrentWhile ==
    ASSUME SupervisorInv, worker.pc \in {"check", "prepare", "detach", "launch", "publish", "fail", "halt"}
    PROVE  IsCurrent <=> ~stop
BY DEF SupervisorInv, Operation, IsCurrent

\* A scheduler that stays.
LEMMA SchedIsSame ==
    ASSUME SupervisorInv, UNCHANGED sched
    PROVE  SchedSame
BY DEF SupervisorInv, SupervisorTypes, JobTypes, SchedSame, SchedIs

\* pop.
LEMMA PopEffect ==
    ASSUME SupervisorInv, WorkerPop
    PROVE  Popped
<1>t. /\ DOMAIN worker = WorkerFields /\ DOMAIN life = LifeFields /\ IsSched(sched) /\ life.gen \in Nat
      /\ worker.job \in Jobs /\ epoch \in Nat /\ sched.gen \in Nat /\ sched.gen <= life.gen /\ (stop <=> sched.stopped)
  BY DEF SupervisorInv, SupervisorTypes, LifeTypes, JobTypes, WorkerTypes, IsSched, Stopping
<1>1. worker' = Idle \/ worker' = [Idle EXCEPT !.pc = "admit", !.job = Head(lane)]
  BY DEF WorkerPop
<1>2. WorkerIs([Idle EXCEPT !.pc = "admit", !.job = Head(lane)], "admit", Head(lane), 0, Unbound, None, None, FALSE, "pop")
  BY DEF Idle, WorkerIs, WorkerFields
<1>3. AtRest(Idle)
  BY IdleIs DEF AtRest
<1>4. Closed => stop
  BY DEF Closed, SupervisorInv, Stopping
<1> QED BY <1>2, <1>3, <1>4 DEF WorkerPop, At, Popped

\* The worker ends.
LEMMA ExitEffect ==
    ASSUME SupervisorInv, WorkerExit
    PROVE  GoesOn
<1>t. /\ DOMAIN worker = WorkerFields /\ DOMAIN life = LifeFields /\ IsSched(sched) /\ life.gen \in Nat
      /\ worker.job \in Jobs /\ epoch \in Nat /\ sched.gen \in Nat /\ sched.gen <= life.gen /\ (stop <=> sched.stopped)
  BY DEF SupervisorInv, SupervisorTypes, LifeTypes, JobTypes, WorkerTypes, IsSched, Stopping
<1>q. SchedSame
  BY SchedIsSame DEF WorkerExit
<1> QED BY <1>t, <1>q, GotoIs DEF WorkerExit, At, GoesOn, Quiet

\* notify_lane_available and the dispatch.
LEMMA AdmitEffect ==
    ASSUME SupervisorInv, Admit
    PROVE  Quits \/ GoesOn
<1>t. /\ DOMAIN worker = WorkerFields /\ DOMAIN life = LifeFields /\ IsSched(sched) /\ life.gen \in Nat
      /\ worker.job \in Jobs /\ epoch \in Nat /\ sched.gen \in Nat /\ sched.gen <= life.gen /\ (stop <=> sched.stopped)
  BY DEF SupervisorInv, SupervisorTypes, LifeTypes, JobTypes, WorkerTypes, IsSched, Stopping
<1>1. SchedSame
  BY <1>t, WokenEffect DEF Admit, SchedIs, SchedSame
<1>0. Quiet /\ worker.pc = "admit"
  BY <1>1 DEF Admit, Quiet, At
<1>2. CASE stop
  BY <1>0, <1>2, RestIs DEF Admit, Quits
<1>3. CASE ~stop
  <2>1. worker.job.kind \in Requests \cup {"retry", "fault"}
    BY <1>t DEF Admit, At, SupervisorInv, Operation, Jobs, Requests
  <2>2. CASE worker.job.kind \in Requests
    <3>1. Goto("begin")
      BY <1>3, <2>2 DEF Admit, Requests
    <3> QED BY <1>t, <1>0, <1>3, <2>2, <3>1, GotoIs DEF GoesOn, OfRequest
  <2>3. CASE worker.job.kind = "retry"
    <3>1. Goto("decide")
      BY <1>3, <2>3 DEF Admit, Requests
    <3> QED BY <1>t, <1>0, <1>3, <2>3, <3>1, GotoIs DEF GoesOn, OfRetry
  <2>4. CASE worker.job.kind = "fault"
    <3>1. Goto("fault")
      BY <1>3, <2>4 DEF Admit, Requests
    <3> QED BY <1>t, <1>0, <1>3, <2>4, <3>1, GotoIs DEF GoesOn
  <2> QED BY <2>1, <2>2, <2>3, <2>4
<1> QED BY <1>2, <1>3

\* begin_new_operation_generation.
LEMMA BeginEffect ==
    ASSUME SupervisorInv, Begin
    PROVE  Quits \/ Begun
<1>t. /\ DOMAIN worker = WorkerFields /\ DOMAIN life = LifeFields /\ IsSched(sched) /\ life.gen \in Nat
      /\ worker.job \in Jobs /\ epoch \in Nat /\ sched.gen \in Nat /\ sched.gen <= life.gen /\ (stop <=> sched.stopped)
  BY DEF SupervisorInv, SupervisorTypes, LifeTypes, JobTypes, WorkerTypes, IsSched, Stopping
<1>1. CASE stop
  <2>1. Return /\ UNCHANGED <<life, epoch, sched>> /\ worker.pc = "begin"
    BY <1>1 DEF Begin, At
  <2>2. Quiet
    BY <2>1, SchedIsSame DEF Begin, Quiet
  <2> QED BY <1>1, <2>1, <2>2, RestIs DEF Quits
<1>2. CASE ~stop
  <2>1. sched' = Invalidated(sched, life.gen + 1) /\ life' = [life EXCEPT !.gen = @ + 1]
    BY <1>2 DEF Begin
  <2>2. SchedIs(sched', life.gen + 1, sched.stopped, Nothing)
    BY <1>t, <2>1, InvalidatedEffect DEF SchedIs
  <2>3. LifeIs(life', life.gen + 1, life.state, life.class, life.stopping)
    BY <1>t, <2>1 DEF LifeIs, LifeFields
  <2>4. WorkerIs(worker', "rebind", worker.job, epoch + 1, life.gen + 1, worker.cand, worker.old,
                 worker.job.kind = "reload", worker.next)
    BY <1>t, <1>2 DEF Begin, WorkerIs, WorkerFields
  <2> QED BY <1>2, <2>2, <2>3, <2>4 DEF Begin, At, Begun
<1> QED BY <1>1, <1>2

\* A health that is set to armed under the current generation.
LEMMA ArmEffect ==
    ASSUME SupervisorInv, capture # None, ~stop, NEW r \in Health, Settle(capture, r),
           r.sink = life.gen, r.armed, ~r.normalStop, r.notified # life.gen,
           r.fault = health[capture].fault, r.notified = health[capture].notified
    PROVE  Armed
<1>t. /\ DOMAIN worker = WorkerFields /\ DOMAIN life = LifeFields /\ IsSched(sched) /\ life.gen \in Nat
      /\ worker.job \in Jobs /\ epoch \in Nat /\ sched.gen \in Nat /\ sched.gen <= life.gen /\ (stop <=> sched.stopped)
  BY DEF SupervisorInv, SupervisorTypes, LifeTypes, JobTypes, WorkerTypes, IsSched, Stopping
<1>1. capture \in Attempts /\ health \in Seq(Health)
  BY DEF SupervisorInv, SupervisorTypes, HealthTypes, IsAttempt, Attempts, None
<1>2. r.sink # Unbound
  BY <1>t, UnboundFacts
<1>3. OthersKeep(capture) /\ (health'[capture].fault <=> health[capture].fault) /\ health'[capture].sink = life.gen
      /\ health'[capture].armed /\ ~health'[capture].normalStop
  BY <1>1, SettleEffect DEF OthersKeep
<1>4. CASE health[capture].fault
  <2>1. Notifies(r)
    BY <1>2, <1>4 DEF Notifies
  <2>2. sched' = Pend(sched, RuntimeFault(life.gen, capture)) /\ health'[capture].notified = life.gen
    BY <1>1, <2>1, SettleEffect
  <2>3. RuntimeFault(life.gen, capture) \in Jobs /\ RuntimeFault(life.gen, capture).gen = life.gen
    BY <1>t, <1>1, JobKinds, JobFields DEF Attempts
  <2>4. ~(life.gen < sched.gen)
    BY <1>t
  <2>5. SchedIs(sched', life.gen, FALSE, RuntimeFault(life.gen, capture))
    BY <1>t, <2>2, <2>3, <2>4, PendEffect DEF SchedIs
  <2> QED BY <1>1, <1>3, <1>4, <2>2, <2>5 DEF Armed
<1>5. CASE ~health[capture].fault
  <2>1. ~Notifies(r)
    BY <1>5 DEF Notifies
  <2>2. health'[capture].notified = health[capture].notified /\ UNCHANGED sched
    BY <1>1, <2>1, SettleEffect
  <2> QED BY <1>1, <1>3, <1>5, <2>2 DEF Armed
<1> QED BY <1>4, <1>5

\* rebind_and_arm.
LEMMA RebindEffect ==
    ASSUME SupervisorInv, Rebind
    PROVE  Reboundings
<1>t. /\ DOMAIN worker = WorkerFields /\ DOMAIN life = LifeFields /\ IsSched(sched) /\ life.gen \in Nat
      /\ worker.job \in Jobs /\ epoch \in Nat /\ sched.gen \in Nat /\ sched.gen <= life.gen /\ (stop <=> sched.stopped)
  BY DEF SupervisorInv, SupervisorTypes, LifeTypes, JobTypes, WorkerTypes, IsSched, Stopping
<1>0. /\ worker.pc = "rebind" /\ UNCHANGED <<life, capture, calls, epoch, stop, lane, accept>>
      /\ worker.job.kind \in Requests /\ ~stop /\ worker.gen = life.gen
  BY DEF Rebind, At, SupervisorInv, Operation, Stopping, OfRequest
<1>1. \/ worker.job.kind = "start" /\ Moves("check")
      \/ worker.job.kind = "reload" /\ Moves("prepare")
      \/ worker.job.kind = "stop" /\ Moves("halt")
  <2>1. Goto(AfterRebind)
    BY DEF Rebind
  <2>2. Moves(AfterRebind)
    BY <1>t, <2>1, GotoIs
  <2> QED BY <1>0, <2>2 DEF AfterRebind, Requests
<1>2. CASE capture = None
  BY <1>0, <1>1, <1>2 DEF Rebind, Reboundings, Armed
<1>3. CASE capture # None
  <2>1. capture \in Attempts /\ health \in Seq(Health)
    BY <1>3 DEF SupervisorInv, SupervisorTypes, HealthTypes, IsAttempt, Attempts, None
  <2>2. health[capture] \in Health
    BY <2>1 DEF Attempts
  <2>3. /\ ~health[capture].normalStop /\ health[capture].sink >= 0 /\ health[capture].notified < life.gen
    BY <1>0, <1>3, <2>1 DEF SupervisorInv, Ownership, Owners, Running, NothingYet, Bound
  <2>4. health[capture].sink # Unbound
    BY <2>2, <2>3 DEF Unbound, Health
  <2>5. health[capture].notified # life.gen
    BY <1>t, <2>2, <2>3 DEF Health
  <2>6. Settle(capture, [health[capture] EXCEPT !.sink = life.gen, !.armed = TRUE])
    BY <1>0, <1>3, <2>3, <2>4 DEF Rebind, Rebound
  <2>7. life.gen \in Int
    BY <1>t
  <2> DEFINE r == [health[capture] EXCEPT !.sink = life.gen, !.armed = TRUE]
  <2>9. /\ r \in Health /\ r.sink = life.gen /\ r.armed /\ r.normalStop = health[capture].normalStop
        /\ r.fault = health[capture].fault /\ r.notified = health[capture].notified /\ Settle(capture, r)
    BY <2>2, <2>6, <2>7, Rearmed
  <2> HIDE DEF r
  <2>8. Armed
    BY <1>0, <1>3, <2>3, <2>5, <2>9, ArmEffect
  <2> QED BY <1>0, <1>1, <2>8 DEF Reboundings
<1> QED BY <1>2, <1>3

\* StartCapture looks for a running capture.
LEMMA CheckEffect ==
    ASSUME SupervisorInv, Check
    PROVE  Quits \/ GoesOn
<1>t. /\ DOMAIN worker = WorkerFields /\ DOMAIN life = LifeFields /\ IsSched(sched) /\ life.gen \in Nat
      /\ worker.job \in Jobs /\ epoch \in Nat /\ sched.gen \in Nat /\ sched.gen <= life.gen /\ (stop <=> sched.stopped)
  BY DEF SupervisorInv, SupervisorTypes, LifeTypes, JobTypes, WorkerTypes, IsSched, Stopping
<1>q. SchedSame
  BY SchedIsSame DEF Check
<1>0. Quiet /\ worker.pc = "check"
  BY <1>q DEF Check, Quiet, At
<1>1. IsCurrent <=> ~stop
  BY <1>0, CurrentWhile
<1>2. capture # None => life.state = "running"
  BY DEF SupervisorInv, Ownership, Owners, Running, NothingYet
<1>3. CASE ~stop /\ capture = None
  <2>1. Goto("prepare")
    BY <1>1, <1>3 DEF Check
  <2> QED BY <1>t, <1>0, <1>3, <2>1, GotoIs DEF GoesOn
<1>4. CASE stop \/ capture # None
  <2>1. Return
    BY <1>1, <1>2, <1>4 DEF Check
  <2> QED BY <1>0, <1>4, <2>1, RestIs DEF Quits
<1> QED BY <1>3, <1>4

\* prepare_config_from_disk: only the stop of the daemon overtakes it.
LEMMA PrepareEffect ==
    ASSUME SupervisorInv, Prepare
    PROVE  Quits \/ GoesOn
<1>t. /\ DOMAIN worker = WorkerFields /\ DOMAIN life = LifeFields /\ IsSched(sched) /\ life.gen \in Nat
      /\ worker.job \in Jobs /\ epoch \in Nat /\ sched.gen \in Nat /\ sched.gen <= life.gen /\ (stop <=> sched.stopped)
  BY DEF SupervisorInv, SupervisorTypes, LifeTypes, JobTypes, WorkerTypes, IsSched, Stopping
<1>q. SchedSame
  BY SchedIsSame DEF Prepare
<1>0. Quiet /\ worker.pc = "prepare"
  BY <1>q DEF Prepare, Quiet, At
<1>1. IsCurrent <=> ~stop
  BY <1>0, CurrentWhile
<1>2. worker.job.kind = "retry" /\ ~stop => ScheduledIsCurrent(worker.job)
  BY <1>t, <1>0, JobFields DEF SupervisorInv, Retries, Timely, RetryOnce, RetryThere, Now, OfRetry, ScheduledIsCurrent
<1>3. CASE stop
  BY <1>0, <1>1, <1>3, RestIs DEF Quits, Prepare
<1>4. CASE ~stop /\ worker.job.kind = "start"
  <2>1. Goto("detach")
    BY <1>1, <1>2, <1>4 DEF Prepare
  <2> QED BY <1>t, <1>0, <1>4, <2>1, GotoIs DEF GoesOn
<1>5. CASE ~stop /\ worker.job.kind # "start"
  <2>1. Goto("launch")
    BY <1>1, <1>2, <1>5 DEF Prepare
  <2> QED BY <1>t, <1>0, <1>5, <2>1, GotoIs DEF GoesOn
<1> QED BY <1>3, <1>4, <1>5

\* A configuration that does not prepare.
LEMMA PrepareFailsEffect ==
    ASSUME SupervisorInv, NEW class, PrepareFails(class)
    PROVE  GoesOn
<1>t. /\ DOMAIN worker = WorkerFields /\ DOMAIN life = LifeFields /\ IsSched(sched) /\ life.gen \in Nat
      /\ worker.job \in Jobs /\ epoch \in Nat /\ sched.gen \in Nat /\ sched.gen <= life.gen /\ (stop <=> sched.stopped)
  BY DEF SupervisorInv, SupervisorTypes, LifeTypes, JobTypes, WorkerTypes, IsSched, Stopping
<1>q. SchedSame
  BY SchedIsSame DEF PrepareFails
<1>1. Moves("fail")
  BY <1>t DEF PrepareFails, Moves, WorkerIs, WorkerFields
<1> QED BY <1>q, <1>1 DEF PrepareFails, At, GoesOn, Quiet

\* A drop follows, if there is something to drop.
LEMMA DropIs ==
    ASSUME NEW a, NEW pc, DOMAIN worker = WorkerFields, ThenDrop(a, pc)
    PROVE  \/ a = None /\ WorkerIs(worker', pc, worker.job, worker.token, worker.gen, None, worker.old, worker.keep, worker.next)
           \/ a # None /\ WorkerIs(worker', "drop", worker.job, worker.token, worker.gen, None, a, worker.keep, pc)
<1>1. CASE a = None
  BY <1>1 DEF ThenDrop, WorkerIs, WorkerFields
<1>2. CASE a # None
  BY <1>2 DEF ThenDrop, WorkerIs, WorkerFields
<1> QED BY <1>1, <1>2

\* A start that has been admitted finds no capture left.
LEMMA DetachEffect ==
    ASSUME SupervisorInv, Detach
    PROVE  Quits \/ Detached
<1>t. /\ DOMAIN worker = WorkerFields /\ DOMAIN life = LifeFields /\ IsSched(sched) /\ life.gen \in Nat
      /\ worker.job \in Jobs /\ epoch \in Nat /\ sched.gen \in Nat /\ sched.gen <= life.gen /\ (stop <=> sched.stopped)
  BY DEF SupervisorInv, SupervisorTypes, LifeTypes, JobTypes, WorkerTypes, IsSched, Stopping
<1>0. worker.pc = "detach" /\ worker.job.kind = "start" /\ capture = None
  BY DEF Detach, At, SupervisorInv, Operation, Ownership, Owners, Running, NothingYet
<1>1. IsCurrent <=> ~stop
  BY <1>0, CurrentWhile
<1>2. CASE stop
  <2>1. Return /\ UNCHANGED <<life, capture, health, calls, epoch, stop, sched, lane, accept>>
    BY <1>1, <1>2 DEF Detach
  <2> QED BY <1>0, <1>2, <2>1, RestIs, SchedIsSame DEF Quits, Quiet
<1>3. CASE ~stop
  <2>1. /\ capture' = None /\ life' = [life EXCEPT !.state = "starting", !.class = "none"] /\ ThenDrop(capture, "launch")
        /\ UNCHANGED <<health, calls, epoch, stop, sched, lane, accept>>
    BY <1>1, <1>3 DEF Detach
  <2>2. LifeIs(life', life.gen, "starting", "none", life.stopping)
    BY <1>t, <2>1 DEF LifeIs, LifeFields
  <2>3. WorkerIs(worker', "launch", worker.job, worker.token, worker.gen, None, worker.old, worker.keep, worker.next)
    BY <1>t, <1>0, <2>1, DropIs
  <2> QED BY <1>0, <1>3, <2>1, <2>2, <2>3 DEF Detached
<1> QED BY <1>2, <1>3

\* drop_capture_then_session.
LEMMA DropEffect ==
    ASSUME SupervisorInv, Drop
    PROVE  DropDone
<1>t. /\ DOMAIN worker = WorkerFields /\ DOMAIN life = LifeFields /\ IsSched(sched) /\ life.gen \in Nat
      /\ worker.job \in Jobs /\ epoch \in Nat /\ sched.gen \in Nat /\ sched.gen <= life.gen /\ (stop <=> sched.stopped)
  BY DEF SupervisorInv, SupervisorTypes, LifeTypes, JobTypes, WorkerTypes, IsSched, Stopping
<1>0. worker.pc = "drop" /\ worker.next = "pop" /\ HealthTypes /\ IsAttempt(worker.old)
  BY DEF Drop, At, SupervisorInv, SupervisorTypes, HealthTypes, Operation
<1>1. AtRest(worker')
  BY <1>0, RestIs DEF Drop, Return
<1>2. Marked(worker.old)
  BY <1>0, HealthDropped DEF Drop, Marked, OthersKeep
<1> QED BY <1>0, <1>1, <1>2 DEF Drop, DropDone, Joinable

\* A backend is started.
LEMMA LaunchEffect ==
    ASSUME SupervisorInv, Launch
    PROVE  Quits \/ Launched
<1>t. /\ DOMAIN worker = WorkerFields /\ DOMAIN life = LifeFields /\ IsSched(sched) /\ life.gen \in Nat
      /\ worker.job \in Jobs /\ epoch \in Nat /\ sched.gen \in Nat /\ sched.gen <= life.gen /\ (stop <=> sched.stopped)
  BY DEF SupervisorInv, SupervisorTypes, LifeTypes, JobTypes, WorkerTypes, IsSched, Stopping
<1>0. worker.pc = "launch" /\ health \in Seq(Health) /\ worker.gen \in Int
  BY DEF Launch, At, SupervisorInv, SupervisorTypes, HealthTypes, WorkerTypes
<1>1. IsCurrent <=> ~stop
  BY <1>0, CurrentWhile
<1>2. CASE stop
  <2>1. Return /\ UNCHANGED <<life, capture, health, calls, epoch, stop, sched, lane, accept>>
    BY <1>1, <1>2 DEF Launch
  <2> QED BY <1>0, <1>2, <2>1, RestIs, SchedIsSame DEF Quits, Quiet
<1>3. CASE ~stop
  <2> DEFINE h == Started(SinkGen)
  <2>1. health' = Append(health, h) /\ worker' = [worker EXCEPT !.pc = "publish", !.cand = Len(health) + 1]
    BY <1>1, <1>3 DEF Launch
  <2>2. SinkGen \in Int /\ SinkGen = IF worker.gen = Unbound THEN life.gen + 1 ELSE worker.gen
    BY <1>t, <1>0 DEF SinkGen
  <2>3. /\ h \in Health /\ ~h.fault /\ ~h.armed /\ ~h.normalStop /\ h.notified = Unbound /\ h.sink = SinkGen
    BY <2>2, UnboundFacts DEF Started, Unarmed, Health
  <2> HIDE DEF h
  <2>4. health' \in Seq(Health) /\ Len(health') = Len(health) + 1 /\ health'[Len(health) + 1] = h
        /\ (\A b \in 1 .. Len(health) : health'[b] = health[b]) /\ Len(health) \in Nat
    BY <1>0, <2>1, <2>3, AppendProperties, LenProperties
  <2>5. Attempts' = Attempts \cup {Len(health) + 1}
    BY <2>4 DEF Attempts
  <2>6. WorkerIs(worker', "publish", worker.job, worker.token, worker.gen, Len(health) + 1, worker.old, worker.keep,
                 worker.next)
    BY <1>t, <2>1 DEF WorkerIs, WorkerFields
  <2> QED BY <1>0, <1>3, <2>2, <2>3, <2>4, <2>5, <2>6 DEF Launch, Launched, Attempts
<1> QED BY <1>2, <1>3

\* There is no backend to start.
LEMMA LaunchIdleEffect ==
    ASSUME SupervisorInv, LaunchIdle
    PROVE  GoesOn
<1>t. /\ DOMAIN worker = WorkerFields /\ DOMAIN life = LifeFields /\ IsSched(sched) /\ life.gen \in Nat
      /\ worker.job \in Jobs /\ epoch \in Nat /\ sched.gen \in Nat /\ sched.gen <= life.gen /\ (stop <=> sched.stopped)
  BY DEF SupervisorInv, SupervisorTypes, LifeTypes, JobTypes, WorkerTypes, IsSched, Stopping
<1>q. SchedSame
  BY SchedIsSame DEF LaunchIdle
<1>0. Quiet /\ worker.pc = "launch" /\ ~stop /\ Goto("publish")
  BY <1>q DEF LaunchIdle, Quiet, At, IsCurrent
<1> QED BY <1>t, <1>0, GotoIs DEF GoesOn

\* A backend that does not start is dropped.
LEMMA LaunchFailsEffect ==
    ASSUME SupervisorInv, NEW class, NEW forget, LaunchFails(class, forget)
    PROVE  LaunchFailed
<1>t. /\ DOMAIN worker = WorkerFields /\ DOMAIN life = LifeFields /\ IsSched(sched) /\ life.gen \in Nat
      /\ worker.job \in Jobs /\ epoch \in Nat /\ sched.gen \in Nat /\ sched.gen <= life.gen /\ (stop <=> sched.stopped)
  BY DEF SupervisorInv, SupervisorTypes, LifeTypes, JobTypes, WorkerTypes, IsSched, Stopping
<1>0. HealthTypes /\ IsAttempt(worker.cand) /\ worker.pc \in {"launch", "publish"}
  BY DEF LaunchFails, At, SupervisorInv, SupervisorTypes, HealthTypes
<1>1. Marked(worker.cand)
  BY <1>0, HealthDropped DEF LaunchFails, Marked, OthersKeep
<1> DEFINE g == IF forget THEN Unbound ELSE worker.gen
<1>2. WorkerIs(worker', "fail", worker.job, worker.token, g, None, worker.old, worker.job.kind # "start", worker.next)
  BY <1>t DEF LaunchFails, WorkerIs, WorkerFields
<1>3. g \in {Unbound, worker.gen}
  OBVIOUS
<1> QED BY <1>0, <1>1, <1>2, <1>3 DEF LaunchFails, LaunchFailed, Joinable

\* The final publication: only the stop of the daemon prevents it.
LEMMA PublishEffect ==
    ASSUME SupervisorInv, Publish
    PROVE  Abandoned \/ Published
<1>t. /\ DOMAIN worker = WorkerFields /\ DOMAIN life = LifeFields /\ IsSched(sched) /\ life.gen \in Nat
      /\ worker.job \in Jobs /\ epoch \in Nat /\ sched.gen \in Nat /\ sched.gen <= life.gen /\ (stop <=> sched.stopped)
  BY DEF SupervisorInv, SupervisorTypes, LifeTypes, JobTypes, WorkerTypes, IsSched, Stopping
<1>0. worker.pc = "publish" /\ (~stop => worker.gen \in {Unbound, life.gen})
  BY DEF Publish, At, SupervisorInv, Operation, OfRequest, OfRetry, Requests
<1>1. IsCurrent <=> ~stop
  BY <1>0, CurrentWhile
<1>2. CASE stop
  <2>1. ThenDrop(worker.cand, "pop") /\ UNCHANGED <<life, capture, health, calls, epoch, stop, sched, lane, accept>>
    BY <1>1, <1>2 DEF Publish
  <2> QED BY <1>t, <1>0, <1>2, <2>1, DropIs DEF Abandoned
<1>3. CASE ~stop
  <2> DEFINE g == IF worker.gen = Unbound THEN life.gen + 1 ELSE life.gen
             st == IF worker.cand = None THEN "stopped" ELSE "running"
  <2>1. /\ capture' = worker.cand /\ UNCHANGED <<health, calls, epoch, stop, lane, accept>>
        /\ life' = [gen |-> g, state |-> st, class |-> "none", stopping |-> FALSE]
        /\ sched' = Invalidated(sched, life'.gen)
        /\ worker' = [worker EXCEPT !.pc = "arm", !.old = capture]
    BY <1>0, <1>1, <1>3 DEF Publish
  <2>2. LifeIs(life', g, st, "none", FALSE) /\ life'.gen = g
    BY <2>1 DEF LifeIs, LifeFields
  <2>3. g \in Nat /\ sched.gen <= g
    BY <1>t
  <2>4. SchedIs(sched', g, FALSE, Nothing)
    BY <1>t, <1>3, <2>1, <2>2, <2>3, InvalidatedEffect DEF SchedIs
  <2>5. WorkerIs(worker', "arm", worker.job, worker.token, worker.gen, worker.cand, capture, worker.keep, worker.next)
    BY <1>t, <2>1 DEF WorkerIs, WorkerFields
  <2> QED BY <1>0, <1>3, <2>1, <2>2, <2>4, <2>5 DEF Published
<1> QED BY <1>2, <1>3

\* arm.
LEMMA ArmPublishedEffect ==
    ASSUME SupervisorInv, ArmPublished
    PROVE  ArmDone
<1>t. /\ DOMAIN worker = WorkerFields /\ DOMAIN life = LifeFields /\ IsSched(sched) /\ life.gen \in Nat
      /\ worker.job \in Jobs /\ epoch \in Nat /\ sched.gen \in Nat /\ sched.gen <= life.gen /\ (stop <=> sched.stopped)
  BY DEF SupervisorInv, SupervisorTypes, LifeTypes, JobTypes, WorkerTypes, IsSched, Stopping
<1>0. worker.pc = "arm" /\ worker.cand = capture /\ ~stop
  BY DEF ArmPublished, At, SupervisorInv, Operation, Ownership, Owners, Running, NothingYet
<1>1. \/ worker.old = None /\ AtRest(worker')
      \/ /\ worker.old # None
         /\ WorkerIs(worker', "drop", worker.job, worker.token, worker.gen, None, worker.old, worker.keep, "pop")
  <2>1. CASE worker.old = None
    BY <2>1, RestIs DEF ArmPublished
  <2>2. CASE worker.old # None
    BY <1>t, <2>2 DEF ArmPublished, WorkerIs, WorkerFields
  <2> QED BY <2>1, <2>2
<1>2. CASE capture = None
  BY <1>0, <1>1, <1>2 DEF ArmPublished, ArmDone, Armed
<1>3. CASE capture # None
  <2>1. capture \in Attempts /\ health \in Seq(Health)
    BY <1>3 DEF SupervisorInv, SupervisorTypes, HealthTypes, IsAttempt, Attempts, None
  <2>2. health[capture] \in Health
    BY <2>1 DEF Attempts
  <2>3. /\ ~health[capture].normalStop /\ health[capture].sink = life.gen /\ health[capture].notified = Unbound
    BY <1>0, <1>3, <2>1 DEF SupervisorInv, Bound
  <2>5. health[capture].notified # life.gen
    BY <1>t, <2>3, UnboundFacts
  <2>6. Settle(capture, [health[capture] EXCEPT !.armed = TRUE])
    BY <1>0, <1>3, <2>3 DEF ArmPublished, Arm
  <2>7. life.gen \in Int
    BY <1>t
  <2> DEFINE r == [health[capture] EXCEPT !.armed = TRUE]
  <2>9. /\ r \in Health /\ r.sink = life.gen /\ r.armed /\ r.normalStop = health[capture].normalStop
        /\ r.fault = health[capture].fault /\ r.notified = health[capture].notified /\ Settle(capture, r)
    BY <2>2, <2>3, <2>6, <2>7, Rearmed
  <2> HIDE DEF r
  <2>8. Armed
    BY <1>0, <1>3, <2>3, <2>5, <2>9, ArmEffect
  <2> QED BY <1>0, <1>1, <2>8 DEF ArmDone, ArmPublished
<1> QED BY <1>2, <1>3

\* command_attempt_failure and signal_fatal.
LEMMA FailEffect ==
    ASSUME SupervisorInv, Fail
    PROVE  Quits \/ Fatal \/ Faulted
<1>t. /\ DOMAIN worker = WorkerFields /\ DOMAIN life = LifeFields /\ IsSched(sched) /\ life.gen \in Nat
      /\ worker.job \in Jobs /\ epoch \in Nat /\ sched.gen \in Nat /\ sched.gen <= life.gen /\ (stop <=> sched.stopped)
  BY DEF SupervisorInv, SupervisorTypes, LifeTypes, JobTypes, WorkerTypes, IsSched, Stopping
<1>0. /\ worker.pc = "fail" /\ (~stop => worker.gen \in {Unbound, life.gen}) /\ (OfRetry => worker.gen = Unbound)
      /\ (capture # None => life.state = "running")
  BY DEF Fail, At, SupervisorInv, Operation, Ownership, Owners, Running, NothingYet
<1>1. IsCurrent <=> ~stop
  BY <1>0, CurrentWhile
<1>a. worker.job.kind \in {"start", "retry", "reload"} /\ (worker.job.kind = "reload" => worker.keep)
      /\ (worker.job.kind # "reload" => capture = None)
  BY <1>0 DEF SupervisorInv, Operation, Ownership, Owners, Running, NothingYet, OfRetry
<1>2. CASE stop \/ (worker.class # "fatal" /\ worker.keep /\ capture # None)
  <2>1. Return /\ UNCHANGED <<life, capture, health, calls, epoch, stop, sched, lane, accept>>
    BY <1>0, <1>1, <1>2 DEF Fail
  <2> QED BY <1>0, <1>2, <2>1, RestIs, SchedIsSame DEF Quits, Quiet
<1>3. CASE ~stop /\ worker.class = "fatal"
  <2>1. Return /\ stop' /\ sched' = SchedulerStopped(sched) /\ UNCHANGED <<life, capture, health, calls, epoch, lane, accept>>
    BY <1>1, <1>3 DEF Fail
  <2>2. SchedIs(sched', sched.gen, TRUE, Nothing)
    BY <1>t, <2>1, StoppedEffect DEF SchedIs
  <2> QED BY <1>0, <1>3, <2>1, <2>2, RestIs DEF Fatal
<1>4. CASE ~stop /\ worker.class # "fatal" /\ ~(worker.keep /\ capture # None)
  <2> DEFINE g == FailedGen
  <2>1. /\ life' = [life EXCEPT !.gen = g, !.state = "faulted", !.class = worker.class]
        /\ sched' = AfterFailure(worker.class, g)
        /\ Return /\ UNCHANGED <<capture, health, calls, epoch, stop, lane, accept>>
    BY <1>1, <1>4 DEF Fail
  <2>2. g \in {life.gen, life.gen + 1} /\ (OfRetry => g = life.gen + 1)
    BY <1>0, <1>4 DEF FailedGen
  <2>3. g \in Nat /\ sched.gen <= g
    BY <1>t, <2>2
  <2> HIDE DEF g
  <2>4. LifeIs(life', g, "faulted", worker.class, life.stopping)
    BY <1>t, <2>1 DEF LifeIs, LifeFields
  <2>5. capture = None
    BY <1>a, <1>4
  <2>6. SchedIs(sched', g, FALSE, IF worker.class = "transient" THEN Retry(g) ELSE Nothing)
    <3>1. CASE worker.class = "transient"
      <4>1. sched' = Pend(sched, Retry(g))
        BY <2>1, <3>1 DEF AfterFailure
      <4>2. Retry(g) \in Jobs /\ Retry(g).gen = g /\ ~(g < sched.gen)
        BY <1>t, <2>3, JobKinds, JobFields
      <4> QED BY <1>t, <1>4, <3>1, <4>1, <4>2, PendEffect DEF SchedIs
    <3>2. CASE worker.class # "transient"
      <4>1. sched' = Invalidated(sched, g)
        BY <2>1, <3>2 DEF AfterFailure
      <4> QED BY <1>t, <1>4, <2>3, <3>2, <4>1, InvalidatedEffect DEF SchedIs
    <3> QED BY <3>1, <3>2
  <2> QED BY <1>0, <1>4, <2>1, <2>2, <2>4, <2>5, <2>6, RestIs DEF Faulted
<1> QED BY <1>2, <1>3, <1>4

\* stop_capture_transaction.
LEMMA HaltEffect ==
    ASSUME SupervisorInv, Halt
    PROVE  Quits \/ Halted
<1>t. /\ DOMAIN worker = WorkerFields /\ DOMAIN life = LifeFields /\ IsSched(sched) /\ life.gen \in Nat
      /\ worker.job \in Jobs /\ epoch \in Nat /\ sched.gen \in Nat /\ sched.gen <= life.gen /\ (stop <=> sched.stopped)
  BY DEF SupervisorInv, SupervisorTypes, LifeTypes, JobTypes, WorkerTypes, IsSched, Stopping
<1>0. worker.pc = "halt"
  BY DEF Halt, At
<1>1. IsCurrent <=> ~stop
  BY <1>0, CurrentWhile
<1>2. CASE stop
  <2>1. Return /\ UNCHANGED <<life, capture, health, calls, epoch, stop, sched, lane, accept>>
    BY <1>1, <1>2 DEF Halt
  <2> QED BY <1>0, <1>2, <2>1, RestIs, SchedIsSame DEF Quits, Quiet
<1>3. CASE ~stop
  <2>1. /\ capture' = None /\ life' = [life EXCEPT !.state = "stopped", !.class = "none"] /\ ThenDrop(capture, "pop")
        /\ UNCHANGED <<health, calls, epoch, stop, sched, lane, accept>>
    BY <1>1, <1>3 DEF Halt
  <2>2. LifeIs(life', life.gen, "stopped", "none", life.stopping)
    BY <1>t, <2>1 DEF LifeIs, LifeFields
  <2> QED BY <1>t, <1>0, <1>3, <2>1, <2>2, DropIs DEF Halted
<1> QED BY <1>2, <1>3

\* The first decision of a retry.
LEMMA DecideEffect ==
    ASSUME SupervisorInv, Decide
    PROVE  Quits \/ GoesOn
<1>t. /\ DOMAIN worker = WorkerFields /\ DOMAIN life = LifeFields /\ IsSched(sched) /\ life.gen \in Nat
      /\ worker.job \in Jobs /\ epoch \in Nat /\ sched.gen \in Nat /\ sched.gen <= life.gen /\ (stop <=> sched.stopped)
  BY DEF SupervisorInv, SupervisorTypes, LifeTypes, JobTypes, WorkerTypes, IsSched, Stopping
<1>q. SchedSame
  BY SchedIsSame DEF Decide
<1>0. Quiet /\ worker.pc = "decide"
  BY <1>q DEF Decide, Quiet, At
<1>1. CASE ScheduledIsCurrent(worker.job)
  BY <1>t, <1>0, <1>1, GotoIs DEF Decide, GoesOn, ScheduledIsCurrent
<1>2. CASE ~ScheduledIsCurrent(worker.job)
  BY <1>t, <1>0, <1>2, RestIs DEF Decide, Quits, ScheduledIsCurrent
<1> QED BY <1>1, <1>2

\* begin_command_operation of a retry.
LEMMA TokenEffect ==
    ASSUME SupervisorInv, Token
    PROVE  Quits \/ Tokened
<1>t. /\ DOMAIN worker = WorkerFields /\ DOMAIN life = LifeFields /\ IsSched(sched) /\ life.gen \in Nat
      /\ worker.job \in Jobs /\ epoch \in Nat /\ sched.gen \in Nat /\ sched.gen <= life.gen /\ (stop <=> sched.stopped)
  BY DEF SupervisorInv, SupervisorTypes, LifeTypes, JobTypes, WorkerTypes, IsSched, Stopping
<1>0. worker.pc = "token"
  BY DEF Token, At
<1>1. CASE stop
  <2>1. Return /\ UNCHANGED <<life, capture, health, calls, epoch, stop, sched, lane, accept>>
    BY <1>1 DEF Token
  <2> QED BY <1>0, <1>1, <2>1, RestIs, SchedIsSame DEF Quits, Quiet
<1>2. CASE ~stop
  <2>1. WorkerIs(worker', "prepare", worker.job, epoch + 1, worker.gen, worker.cand, worker.old, worker.keep, worker.next)
    BY <1>t, <1>2 DEF Token, WorkerIs, WorkerFields
  <2> QED BY <1>0, <1>2, <2>1 DEF Token, Tokened
<1> QED BY <1>1, <1>2

\* publish_runtime_fault.
LEMMA FaultJobEffect ==
    ASSUME SupervisorInv, Fault
    PROVE  Quits \/ Removed
<1>t. /\ DOMAIN worker = WorkerFields /\ DOMAIN life = LifeFields /\ IsSched(sched) /\ life.gen \in Nat
      /\ worker.job \in Jobs /\ epoch \in Nat /\ sched.gen \in Nat /\ sched.gen <= life.gen /\ (stop <=> sched.stopped)
  BY DEF SupervisorInv, SupervisorTypes, LifeTypes, JobTypes, WorkerTypes, IsSched, Stopping
<1>0. worker.pc = "fault"
  BY DEF Fault, At
<1>1. CASE worker.job.gen = life.gen /\ ~stop /\ capture # None /\ capture = worker.job.attempt
  <2>1. /\ capture' = None /\ life' = [life EXCEPT !.state = "faulted", !.class = "transient"]
        /\ worker' = [worker EXCEPT !.pc = "schedule", !.old = capture]
        /\ UNCHANGED <<health, calls, epoch, stop, sched, lane, accept>>
    BY <1>t, <1>1 DEF Fault, ScheduledIsCurrent
  <2>2. LifeIs(life', life.gen, "faulted", "transient", life.stopping)
    BY <1>t, <2>1 DEF LifeIs, LifeFields
  <2>3. WorkerIs(worker', "schedule", worker.job, worker.token, worker.gen, worker.cand, capture, worker.keep, worker.next)
    BY <1>t, <2>1 DEF WorkerIs, WorkerFields
  <2> QED BY <1>0, <1>1, <2>1, <2>2, <2>3 DEF Removed
<1>2. CASE ~(worker.job.gen = life.gen /\ ~stop /\ capture # None /\ capture = worker.job.attempt)
  <2>1. Return /\ UNCHANGED <<life, capture, health, calls, epoch, stop, sched, lane, accept>>
    BY <1>t, <1>2 DEF Fault, ScheduledIsCurrent
  <2> QED BY <1>0, <1>2, <2>1, RestIs, SchedIsSame DEF Quits, Quiet
<1> QED BY <1>1, <1>2

\* The retry of a removed capture.
LEMMA ScheduleRetryEffect ==
    ASSUME SupervisorInv, ScheduleRetry
    PROVE  RetryScheduled
<1>t. /\ DOMAIN worker = WorkerFields /\ DOMAIN life = LifeFields /\ IsSched(sched) /\ life.gen \in Nat
      /\ worker.job \in Jobs /\ epoch \in Nat /\ sched.gen \in Nat /\ sched.gen <= life.gen /\ (stop <=> sched.stopped)
  BY DEF SupervisorInv, SupervisorTypes, LifeTypes, JobTypes, WorkerTypes, IsSched, Stopping
<1>0. worker.pc = "schedule" /\ HealthTypes /\ IsAttempt(worker.old) /\ worker.job.gen = life.gen /\ ~stop
  BY DEF ScheduleRetry, At, SupervisorInv, SupervisorTypes, HealthTypes, Operation
<1>1. Marked(worker.old)
  BY <1>0, HealthDropped DEF ScheduleRetry, Marked, OthersKeep
<1>2. sched' = Pend(sched, Now)
  BY <1>0 DEF ScheduleRetry, Now
<1>3. Now \in Jobs /\ Now.gen = life.gen /\ ~(life.gen < sched.gen)
  BY <1>t, JobKinds, JobFields DEF Now
<1>4. SchedIs(sched', life.gen, FALSE, Now)
  BY <1>t, <1>0, <1>2, <1>3, PendEffect DEF SchedIs
<1> QED BY <1>0, <1>1, <1>4, RestIs DEF ScheduleRetry, RetryScheduled, Joinable

\* record_fatal.
LEMMA BackendEffect ==
    ASSUME SupervisorInv, NEW a \in Attempts, BackendFault(a)
    PROVE  FaultNoted(a)
<1>t. /\ DOMAIN worker = WorkerFields /\ DOMAIN life = LifeFields /\ IsSched(sched) /\ life.gen \in Nat
      /\ worker.job \in Jobs /\ epoch \in Nat /\ sched.gen \in Nat /\ sched.gen <= life.gen /\ (stop <=> sched.stopped)
  BY DEF SupervisorInv, SupervisorTypes, LifeTypes, JobTypes, WorkerTypes, IsSched, Stopping
<1>1. health \in Seq(Health) /\ health[a] \in Health
  BY DEF SupervisorInv, SupervisorTypes, HealthTypes, Attempts
<1>2. ~health[a].fault
  BY DEF BackendFault
<1>3. health[a].notified = Unbound
  BY <1>2 DEF SupervisorInv, Notified, Honest, Told
<1> QED BY <1>1, <1>3, FaultEffect DEF BackendFault, FaultNoted, OthersKeep

\* sink.notify.
LEMMA NotifyEffect ==
    ASSUME SupervisorInv, NEW n \in calls, NotifyFault(n)
    PROVE  FaultTold(n)
<1>t. /\ DOMAIN worker = WorkerFields /\ DOMAIN life = LifeFields /\ IsSched(sched) /\ life.gen \in Nat
      /\ worker.job \in Jobs /\ epoch \in Nat /\ sched.gen \in Nat /\ sched.gen <= life.gen /\ (stop <=> sched.stopped)
  BY DEF SupervisorInv, SupervisorTypes, LifeTypes, JobTypes, WorkerTypes, IsSched, Stopping
<1>1. n \in Jobs /\ sched' = Pend(sched, n)
  BY DEF NotifyFault, SupervisorInv, SupervisorTypes, JobTypes
<1>2. CASE stop \/ n.gen < sched.gen
  <2>1. UNCHANGED sched
    BY <1>t, <1>1, <1>2 DEF Pend
  <2> QED BY <1>2, <2>1 DEF NotifyFault, FaultTold
<1>3. CASE ~(stop \/ n.gen < sched.gen)
  <2>1. n.gen >= sched.gen
    BY <1>t, <1>1, <1>3 DEF Jobs
  <2>2. SchedIs(sched', n.gen, FALSE, n)
    BY <1>t, <1>1, <1>3, PendEffect DEF SchedIs
  <2> QED BY <1>3, <2>1, <2>2 DEF NotifyFault, FaultTold
<1> QED BY <1>2, <1>3

\* A due operation is queued.
LEMMA SubmitEffect ==
    ASSUME SupervisorInv, SchedulerSubmit
    PROVE  Submitted
<1>t. /\ DOMAIN worker = WorkerFields /\ DOMAIN life = LifeFields /\ IsSched(sched) /\ life.gen \in Nat
      /\ worker.job \in Jobs /\ epoch \in Nat /\ sched.gen \in Nat /\ sched.gen <= life.gen /\ (stop <=> sched.stopped)
  BY DEF SupervisorInv, SupervisorTypes, LifeTypes, JobTypes, WorkerTypes, IsSched, Stopping
<1>1. SchedIs(sched', sched.gen, sched.stopped, Nothing)
  BY <1>t, JobKinds DEF SchedulerSubmit, SchedIs, IsSched
<1> QED BY <1>1 DEF SchedulerSubmit, SchedulerIdle, Submitted

\* The lane is full.
LEMMA FullEffect ==
    ASSUME SupervisorInv, SchedulerFull
    PROVE  Elsewhere
<1>t. /\ DOMAIN worker = WorkerFields /\ DOMAIN life = LifeFields /\ IsSched(sched) /\ life.gen \in Nat
      /\ worker.job \in Jobs /\ epoch \in Nat /\ sched.gen \in Nat /\ sched.gen <= life.gen /\ (stop <=> sched.stopped)
  BY DEF SupervisorInv, SupervisorTypes, LifeTypes, JobTypes, WorkerTypes, IsSched, Stopping
<1>1. SchedSame
  BY <1>t DEF SchedulerFull, SchedSame, SchedIs, IsSched
<1> QED BY <1>1 DEF SchedulerFull, SchedulerIdle, Elsewhere

\* The scheduler ends.
LEMMA SchedulerExitEffect ==
    ASSUME SupervisorInv, SchedulerExit
    PROVE  Elsewhere
<1>t. /\ DOMAIN worker = WorkerFields /\ DOMAIN life = LifeFields /\ IsSched(sched) /\ life.gen \in Nat
      /\ worker.job \in Jobs /\ epoch \in Nat /\ sched.gen \in Nat /\ sched.gen <= life.gen /\ (stop <=> sched.stopped)
  BY DEF SupervisorInv, SupervisorTypes, LifeTypes, JobTypes, WorkerTypes, IsSched, Stopping
<1>1. SchedSame
  BY <1>t DEF SchedulerExit, SchedSame, SchedIs, IsSched
<1> QED BY <1>1 DEF SchedulerExit, SchedulerIdle, Elsewhere

\* The accept thread sees the stop.
LEMMA WakeEffect ==
    ASSUME SupervisorInv, FatalWake
    PROVE  Elsewhere
<1>t. /\ DOMAIN worker = WorkerFields /\ DOMAIN life = LifeFields /\ IsSched(sched) /\ life.gen \in Nat
      /\ worker.job \in Jobs /\ epoch \in Nat /\ sched.gen \in Nat /\ sched.gen <= life.gen /\ (stop <=> sched.stopped)
  BY DEF SupervisorInv, SupervisorTypes, LifeTypes, JobTypes, WorkerTypes, IsSched, Stopping
<1>q. SchedSame
  BY SchedIsSame DEF FatalWake
<1> QED BY <1>q DEF FatalWake, Elsewhere, Env

\* The scheduler is stopped, again.
LEMMA StopSchedulerEffect ==
    ASSUME SupervisorInv, StopScheduler
    PROVE  Elsewhere
<1>t. /\ DOMAIN worker = WorkerFields /\ DOMAIN life = LifeFields /\ IsSched(sched) /\ life.gen \in Nat
      /\ worker.job \in Jobs /\ epoch \in Nat /\ sched.gen \in Nat /\ sched.gen <= life.gen /\ (stop <=> sched.stopped)
  BY DEF SupervisorInv, SupervisorTypes, LifeTypes, JobTypes, WorkerTypes, IsSched, Stopping
<1>1. stop /\ sched.pending = Nothing
  BY DEF StopScheduler, SupervisorInv, Stopping
<1>2. SchedSame
  BY <1>t, <1>1, StoppedEffect DEF StopScheduler, SchedSame, SchedIs
<1> QED BY <1>1, <1>2 DEF StopScheduler, Elsewhere

\* The lane is closed.
LEMMA CloseEffect ==
    ASSUME SupervisorInv, CloseLane
    PROVE  Elsewhere
<1>t. /\ DOMAIN worker = WorkerFields /\ DOMAIN life = LifeFields /\ IsSched(sched) /\ life.gen \in Nat
      /\ worker.job \in Jobs /\ epoch \in Nat /\ sched.gen \in Nat /\ sched.gen <= life.gen /\ (stop <=> sched.stopped)
  BY DEF SupervisorInv, SupervisorTypes, LifeTypes, JobTypes, WorkerTypes, IsSched, Stopping
<1>q. SchedSame
  BY SchedIsSame DEF CloseLane
<1>1. stop
  BY DEF CloseLane, SupervisorInv, Stopping
<1> QED BY <1>q, <1>1 DEF CloseLane, Elsewhere

\* A request.
LEMMA AcceptEffect ==
    ASSUME SupervisorInv, NEW request \in Requests, AcceptRequest(request)
    PROVE  Queues
<1>t. /\ DOMAIN worker = WorkerFields /\ DOMAIN life = LifeFields /\ IsSched(sched) /\ life.gen \in Nat
      /\ worker.job \in Jobs /\ epoch \in Nat /\ sched.gen \in Nat /\ sched.gen <= life.gen /\ (stop <=> sched.stopped)
  BY DEF SupervisorInv, SupervisorTypes, LifeTypes, JobTypes, WorkerTypes, IsSched, Stopping
<1> QED BY DEF AcceptRequest, Queues

\* begin_shutdown.
LEMMA StopEffect ==
    ASSUME SupervisorInv, AcceptStop
    PROVE  StopTaken
<1>t. /\ DOMAIN worker = WorkerFields /\ DOMAIN life = LifeFields /\ IsSched(sched) /\ life.gen \in Nat
      /\ worker.job \in Jobs /\ epoch \in Nat /\ sched.gen \in Nat /\ sched.gen <= life.gen /\ (stop <=> sched.stopped)
  BY DEF SupervisorInv, SupervisorTypes, LifeTypes, JobTypes, WorkerTypes, IsSched, Stopping
<1>0. /\ accept = "serve" /\ accept' = "scheduler" /\ stop' /\ worker.pc \notin Authority
      /\ UNCHANGED <<capture, health, calls, lane, worker>>
  BY DEF AcceptStop
<1>1. CASE ~stop
  <2>1. /\ epoch' = epoch + 1
        /\ life' = [life EXCEPT !.gen = @ + 1, !.class = "none", !.stopping = TRUE]
        /\ sched' = SchedulerStopped(Invalidated(sched, life.gen + 1))
    BY <1>1 DEF AcceptStop
  <2>2. LifeIs(life', life.gen + 1, life.state, "none", TRUE)
    BY <1>t, <2>1 DEF LifeIs, LifeFields
  <2>3. IsSched(Invalidated(sched, life.gen + 1)) /\ Invalidated(sched, life.gen + 1).gen = life.gen + 1
    BY <1>t, InvalidatedEffect
  <2>4. SchedIs(sched', life.gen + 1, TRUE, Nothing)
    BY <2>1, <2>3, StoppedEffect DEF SchedIs
  <2>5. epoch' \in Nat /\ life'.gen = life.gen + 1 /\ life.gen + 1 <= life'.gen /\ life.gen + 1 # life.gen
    BY <1>t, <2>1, <2>2 DEF LifeIs
  <2> QED BY <1>0, <1>1, <2>2, <2>4, <2>5 DEF StopTaken
<1>2. CASE stop
  <2>1. /\ epoch' = epoch
        /\ life' = [life EXCEPT !.class = "none", !.stopping = TRUE]
        /\ sched' = SchedulerStopped(sched)
    BY <1>2 DEF AcceptStop
  <2>2. LifeIs(life', life.gen, life.state, "none", TRUE)
    BY <1>t, <2>1 DEF LifeIs, LifeFields
  <2>4. SchedIs(sched', sched.gen, TRUE, Nothing)
    BY <1>t, <2>1, StoppedEffect DEF SchedIs
  <2>5. epoch' \in Nat /\ life'.gen = life.gen /\ sched.gen <= life'.gen
    BY <1>t, <2>1, <2>2 DEF LifeIs
  <2> QED BY <1>0, <1>2, <2>2, <2>4, <2>5 DEF StopTaken
<1> QED BY <1>1, <1>2

\* release_capture_for_shutdown.
LEMMA ReleaseEffect ==
    ASSUME SupervisorInv, ReleaseCapture
    PROVE  Released
<1>t. /\ DOMAIN worker = WorkerFields /\ DOMAIN life = LifeFields /\ IsSched(sched) /\ life.gen \in Nat
      /\ worker.job \in Jobs /\ epoch \in Nat /\ sched.gen \in Nat /\ sched.gen <= life.gen /\ (stop <=> sched.stopped)
  BY DEF SupervisorInv, SupervisorTypes, LifeTypes, JobTypes, WorkerTypes, IsSched, Stopping
<1>0. HealthTypes /\ IsAttempt(capture)
  BY DEF SupervisorInv, SupervisorTypes, HealthTypes
<1>1. Marked(capture)
  BY <1>0, HealthDropped DEF ReleaseCapture, Marked, OthersKeep
<1>2. LifeIs(life', life.gen, life.state, "none", TRUE)
  BY <1>t DEF ReleaseCapture, LifeIs, LifeFields
<1> QED BY <1>1, <1>2 DEF ReleaseCapture, Released, At, Joinable, Env

\* Every step is one of these.
Outcome ==
    \/ Quits
    \/ GoesOn
    \/ Popped
    \/ Begun
    \/ Reboundings
    \/ Tokened
    \/ Detached
    \/ DropDone
    \/ Launched
    \/ LaunchFailed
    \/ Abandoned
    \/ Published
    \/ ArmDone
    \/ Fatal
    \/ Faulted
    \/ Halted
    \/ Removed
    \/ RetryScheduled
    \/ \E a \in Attempts : FaultNoted(a)
    \/ \E n \in calls : FaultTold(n)
    \/ Submitted
    \/ Elsewhere
    \/ Queues
    \/ StopTaken
    \/ Released

\* Every step has one of the outcomes.
LEMMA StepOutcome ==
    ASSUME SupervisorInv, Next
    PROVE  Outcome
<1>1. ASSUME NEW a \in Attempts, BackendFault(a) PROVE Outcome
  BY <1>1, BackendEffect DEF Outcome
<1>2. ASSUME NEW n \in calls, NotifyFault(n) PROVE Outcome
  BY <1>2, NotifyEffect DEF Outcome
<1>3. ASSUME NEW request \in Requests, AcceptRequest(request) PROVE Outcome
  BY <1>3, AcceptEffect DEF Outcome
<1>4. CASE AcceptStop
  BY <1>4, StopEffect DEF Outcome
<1>5. CASE WorkerPop
  BY <1>5, PopEffect DEF Outcome
<1>6. CASE WorkerExit
  BY <1>6, ExitEffect DEF Outcome
<1>7. CASE Admit
  BY <1>7, AdmitEffect DEF Outcome
<1>8. CASE Begin
  BY <1>8, BeginEffect DEF Outcome
<1>9. CASE Rebind
  BY <1>9, RebindEffect DEF Outcome
<1>10. CASE Check
  BY <1>10, CheckEffect DEF Outcome
<1>11. CASE Prepare
  BY <1>11, PrepareEffect DEF Outcome
<1>12. ASSUME NEW class \in Classes, PrepareFails(class) PROVE Outcome
  BY <1>12, PrepareFailsEffect DEF Outcome
<1>13. CASE Detach
  BY <1>13, DetachEffect DEF Outcome
<1>14. CASE Drop
  BY <1>14, DropEffect DEF Outcome
<1>15. CASE Launch
  BY <1>15, LaunchEffect DEF Outcome
<1>16. CASE LaunchIdle
  BY <1>16, LaunchIdleEffect DEF Outcome
<1>17. ASSUME NEW class \in Classes, NEW forget \in BOOLEAN, LaunchFails(class, forget) PROVE Outcome
  BY <1>17, LaunchFailsEffect DEF Outcome
<1>18. CASE Publish
  BY <1>18, PublishEffect DEF Outcome
<1>19. CASE ArmPublished
  BY <1>19, ArmPublishedEffect DEF Outcome
<1>20. CASE Fail
  BY <1>20, FailEffect DEF Outcome
<1>21. CASE Halt
  BY <1>21, HaltEffect DEF Outcome
<1>22. CASE Decide
  BY <1>22, DecideEffect DEF Outcome
<1>23. CASE Token
  BY <1>23, TokenEffect DEF Outcome
<1>24. CASE Fault
  BY <1>24, FaultJobEffect DEF Outcome
<1>25. CASE ScheduleRetry
  BY <1>25, ScheduleRetryEffect DEF Outcome
<1>26. CASE SchedulerSubmit
  BY <1>26, SubmitEffect DEF Outcome
<1>27. CASE SchedulerFull
  BY <1>27, FullEffect DEF Outcome
<1>28. CASE SchedulerExit
  BY <1>28, SchedulerExitEffect DEF Outcome
<1>29. CASE FatalWake
  BY <1>29, WakeEffect DEF Outcome
<1>30. CASE StopScheduler
  BY <1>30, StopSchedulerEffect DEF Outcome
<1>31. CASE CloseLane
  BY <1>31, CloseEffect DEF Outcome
<1>32. CASE ReleaseCapture
  BY <1>32, ReleaseEffect DEF Outcome
<1>e. CASE Ended
  BY <1>e, SchedIsSame DEF Ended, vars, Elsewhere, Outcome
<1>f. CASE Fails
  BY <1>f, <1>12, <1>17 DEF Fails, Classes
<1>w. CASE Works
  BY <1>w, <1>5, <1>6, <1>7, <1>8, <1>9, <1>10, <1>11, <1>13, <1>14, <1>15, <1>16, <1>18, <1>19, <1>20, <1>21, <1>22, <1>23, <1>24, <1>25, <1>f DEF Works
<1> QED BY <1>1, <1>2, <1>3, <1>4, <1>26, <1>27, <1>28, <1>29, <1>30, <1>31, <1>32, <1>w, <1>e
     DEF Next, Schedules, Finishes

\* A stutter is one of the outcomes too.
LEMMA StutterOutcome == ASSUME SupervisorInv, UNCHANGED vars PROVE Outcome
BY SchedIsSame DEF vars, Elsewhere, Outcome

\* A job is queued.
LEMMA LaneGrows ==
    ASSUME NEW j \in Jobs, lane \in Seq(Jobs), lane' = Append(lane, j)
    PROVE  /\ lane' \in Seq(Jobs) /\ Queued' = Queued \cup {j}
           /\ \A x : (j # x \/ x \notin Queued) /\ (\A i, k \in DOMAIN lane : lane[i] = x /\ lane[k] = x => i = k)
                 => \A i, k \in DOMAIN lane' : lane'[i] = x /\ lane'[k] = x => i = k
<1>1. /\ lane' \in Seq(Jobs) /\ Len(lane') = Len(lane) + 1 /\ Len(lane) \in Nat
      /\ lane'[Len(lane) + 1] = j /\ \A i \in 1 .. Len(lane) : lane'[i] = lane[i]
  BY AppendProperties, LenProperties
<1>2. DOMAIN lane = 1 .. Len(lane) /\ DOMAIN lane' = 1 .. Len(lane) + 1
  BY <1>1
<1>3. DOMAIN lane' = DOMAIN lane \cup {Len(lane) + 1} /\ \A i \in DOMAIN lane : i # Len(lane) + 1
  BY <1>1, <1>2
<1>4. Queued' = Queued \cup {j}
  BY <1>1, <1>2, <1>3 DEF Queued
<1> QED BY <1>1, <1>2, <1>3, <1>4 DEF Queued

\* A job is taken.
LEMMA LaneShrinks ==
    ASSUME lane \in Seq(Jobs), lane # <<>>, lane' = Tail(lane)
    PROVE  /\ lane' \in Seq(Jobs) /\ Head(lane) \in Jobs /\ Queued = Queued' \cup {Head(lane)}
           /\ \A x : (\A i, k \in DOMAIN lane : lane[i] = x /\ lane[k] = x => i = k)
                 => /\ \A i, k \in DOMAIN lane' : lane'[i] = x /\ lane'[k] = x => i = k
                    /\ Head(lane) = x => x \notin Queued'
<1>1. /\ lane' \in Seq(Jobs) /\ Len(lane') = Len(lane) - 1 /\ Len(lane) \in Nat /\ Len(lane) > 0
      /\ Head(lane) = lane[1] /\ \A i \in 1 .. Len(lane) - 1 : lane'[i] = lane[i + 1]
  BY EmptySeq, HeadTailProperties, LenProperties
<1>2. DOMAIN lane = 1 .. Len(lane) /\ DOMAIN lane' = 1 .. Len(lane) - 1
  BY <1>1
<1>3. 1 \in DOMAIN lane /\ \A i \in DOMAIN lane' : i + 1 \in DOMAIN lane /\ i + 1 # 1 /\ i \in Nat
  BY <1>1, <1>2
<1>4. \A i \in DOMAIN lane : i # 1 => i - 1 \in DOMAIN lane' /\ lane'[i - 1] = lane[i]
  <2> TAKE i \in DOMAIN lane
  <2> HAVE i # 1
  <2>1. i - 1 \in 1 .. Len(lane) - 1 /\ (i - 1) + 1 = i
    BY <1>1, <1>2
  <2> QED BY <1>1, <1>2, <2>1
<1>5. \A i \in DOMAIN lane' : lane'[i] = lane[i + 1]
  BY <1>1, <1>2
<1>6. Queued = Queued' \cup {Head(lane)} /\ Head(lane) \in Jobs
  <2>1. Head(lane) \in Queued /\ Head(lane) \in Jobs
    BY <1>1, <1>2, <1>3 DEF Queued
  <2>2. ASSUME NEW x \in Queued' PROVE x \in Queued
    BY <1>3, <1>5, <2>2 DEF Queued
  <2>3. ASSUME NEW x \in Queued, x # Head(lane) PROVE x \in Queued'
    <3>1. PICK i \in DOMAIN lane : lane[i] = x
      BY DEF Queued
    <3>2. i - 1 \in DOMAIN lane' /\ lane'[i - 1] = x
      BY <1>1, <1>4, <2>3, <3>1
    <3> QED BY <3>2 DEF Queued
  <2> QED BY <2>1, <2>2, <2>3
<1>7. ASSUME NEW x, \A i, k \in DOMAIN lane : lane[i] = x /\ lane[k] = x => i = k
      PROVE  /\ \A i, k \in DOMAIN lane' : lane'[i] = x /\ lane'[k] = x => i = k
             /\ Head(lane) = x => x \notin Queued'
  <2>1. ASSUME NEW i \in DOMAIN lane', NEW k \in DOMAIN lane', lane'[i] = x, lane'[k] = x PROVE i = k
    <3>1. i + 1 = k + 1
      BY <1>3, <1>5, <1>7, <2>1
    <3> QED BY <1>3, <3>1
  <2>2. ASSUME Head(lane) = x, NEW i \in DOMAIN lane', lane'[i] = x PROVE FALSE
    BY <1>1, <1>3, <1>5, <1>7, <2>2
  <2> QED BY <2>1, <2>2 DEF Queued
<1> QED BY <1>1, <1>6, <1>7

\* No attempt is added or dropped.
LEMMA SameAttempts ==
    ASSUME UNCHANGED health
    PROVE  Attempts' = Attempts
BY DEF Attempts

\* The lifecycle keeps its type.
LEMMA LifeTyped ==
    ASSUME SupervisorInv, Outcome
    PROVE  LifeTypes'
<1>t. LifeTypes
  BY DEF SupervisorInv, SupervisorTypes
<1>1. CASE Quits
  BY <1>1, <1>t DEF Quits, Quiet, SchedSame, AtRest, WorkerIs, SchedIs, LifeTypes
<1>2. CASE GoesOn
  BY <1>2, <1>t DEF GoesOn, Quiet, SchedSame, Moves, WorkerIs, SchedIs, LifeTypes
<1>3. CASE Popped
  BY <1>3, <1>t DEF Popped, AtRest, WorkerIs, LifeTypes
<1>4. CASE Begun
  BY <1>4, <1>t DEF Begun, LifeIs, SchedIs, WorkerIs, LifeTypes
<1>5. CASE Reboundings
  BY <1>5, <1>t DEF Reboundings, Moves, WorkerIs, Armed, OthersKeep, SchedIs, LifeTypes
<1>6. CASE Tokened
  BY <1>6, <1>t DEF Tokened, WorkerIs, LifeTypes
<1>7. CASE Detached
  BY <1>7, <1>t DEF Detached, LifeIs, WorkerIs, LifeTypes
<1>8. CASE DropDone
  BY <1>8, <1>t DEF DropDone, Marked, OthersKeep, AtRest, WorkerIs, LifeTypes
<1>9. CASE Launched
  BY <1>9, <1>t DEF Launched, WorkerIs, LifeTypes
<1>10. CASE LaunchFailed
  BY <1>10, <1>t DEF LaunchFailed, Marked, OthersKeep, WorkerIs, LifeTypes
<1>11. CASE Abandoned
  BY <1>11, <1>t DEF Abandoned, WorkerIs, LifeTypes
<1>12. CASE Published
  BY <1>12, <1>t DEF Published, LifeIs, SchedIs, WorkerIs, LifeTypes
<1>13. CASE ArmDone
  BY <1>13, <1>t DEF ArmDone, Armed, OthersKeep, SchedIs, AtRest, WorkerIs, LifeTypes
<1>14. CASE Fatal
  BY <1>14, <1>t DEF Fatal, SchedIs, AtRest, WorkerIs, LifeTypes
<1>15. CASE Faulted
  BY <1>15, <1>t DEF Faulted, LifeIs, SchedIs, AtRest, WorkerIs, LifeTypes
<1>16. CASE Halted
  BY <1>16, <1>t DEF Halted, LifeIs, WorkerIs, LifeTypes
<1>17. CASE Removed
  BY <1>17, <1>t DEF Removed, LifeIs, WorkerIs, LifeTypes
<1>18. CASE RetryScheduled
  BY <1>18, <1>t DEF RetryScheduled, Marked, OthersKeep, SchedIs, AtRest, WorkerIs, LifeTypes
<1>19. ASSUME NEW a \in Attempts, FaultNoted(a) PROVE LifeTypes'
  BY <1>19, <1>t DEF FaultNoted, OthersKeep, LifeTypes
<1>20. ASSUME NEW n \in calls, FaultTold(n) PROVE LifeTypes'
  BY <1>20, <1>t DEF FaultTold, SchedIs, LifeTypes
<1>21. CASE Submitted
  BY <1>21, <1>t DEF Submitted, SchedIs, LifeTypes
<1>22. CASE Elsewhere
  BY <1>22, <1>t DEF Elsewhere, SchedSame, SchedIs, LifeTypes
<1>23. CASE Queues
  BY <1>23, <1>t DEF Queues, LifeTypes
<1>24. CASE StopTaken
  BY <1>24, <1>t DEF StopTaken, LifeIs, SchedIs, LifeTypes
<1>25. CASE Released
  BY <1>25, <1>t DEF Released, Marked, OthersKeep, LifeIs, LifeTypes
<1> QED BY <1>1, <1>2, <1>3, <1>4, <1>5, <1>6, <1>7, <1>8, <1>9, <1>10, <1>11, <1>12, <1>13, <1>14, <1>15, <1>16, <1>17, <1>18, <1>19, <1>20, <1>21, <1>22, <1>23, <1>24, <1>25 DEF Outcome

\* The worker keeps its type.
LEMMA WorkerTyped ==
    ASSUME SupervisorInv, Outcome
    PROVE  WorkerTypes'
<1>t. WorkerTypes /\ lane \in Seq(Jobs) /\ Nothing \in Jobs /\ Unbound \in Int /\ life.gen + 1 \in Int
  BY JobKinds, UnboundFacts DEF SupervisorInv, SupervisorTypes, LifeTypes, JobTypes
<1>1. CASE Quits
  BY <1>1, <1>t DEF Quits, Quiet, SchedSame, AtRest, WorkerIs, SchedIs, WorkerTypes, Places
<1>2. CASE GoesOn
  BY <1>2, <1>t DEF GoesOn, Quiet, SchedSame, Moves, WorkerIs, SchedIs, WorkerTypes, Places
<1>3. CASE Popped
  BY <1>3, <1>t, LaneShrinks DEF Popped, AtRest, WorkerIs, WorkerTypes, Places
<1>4. CASE Begun
  BY <1>4, <1>t DEF Begun, LifeIs, SchedIs, WorkerIs, WorkerTypes, Places
<1>5. CASE Reboundings
  BY <1>5, <1>t DEF Reboundings, Moves, WorkerIs, Armed, OthersKeep, SchedIs, WorkerTypes, Places
<1>6. CASE Tokened
  BY <1>6, <1>t DEF Tokened, WorkerIs, WorkerTypes, Places
<1>7. CASE Detached
  BY <1>7, <1>t DEF Detached, LifeIs, WorkerIs, WorkerTypes, Places
<1>8. CASE DropDone
  BY <1>8, <1>t DEF DropDone, Marked, OthersKeep, AtRest, WorkerIs, WorkerTypes, Places
<1>9. CASE Launched
  BY <1>9, <1>t DEF Launched, WorkerIs, WorkerTypes, Places
<1>10. CASE LaunchFailed
  BY <1>10, <1>t DEF LaunchFailed, Marked, OthersKeep, WorkerIs, WorkerTypes, Places
<1>11. CASE Abandoned
  BY <1>11, <1>t DEF Abandoned, WorkerIs, WorkerTypes, Places
<1>12. CASE Published
  BY <1>12, <1>t DEF Published, LifeIs, SchedIs, WorkerIs, WorkerTypes, Places
<1>13. CASE ArmDone
  BY <1>13, <1>t DEF ArmDone, Armed, OthersKeep, SchedIs, AtRest, WorkerIs, WorkerTypes, Places
<1>14. CASE Fatal
  BY <1>14, <1>t DEF Fatal, SchedIs, AtRest, WorkerIs, WorkerTypes, Places
<1>15. CASE Faulted
  BY <1>15, <1>t DEF Faulted, LifeIs, SchedIs, AtRest, WorkerIs, WorkerTypes, Places
<1>16. CASE Halted
  BY <1>16, <1>t DEF Halted, LifeIs, WorkerIs, WorkerTypes, Places
<1>17. CASE Removed
  BY <1>17, <1>t DEF Removed, LifeIs, WorkerIs, WorkerTypes, Places
<1>18. CASE RetryScheduled
  BY <1>18, <1>t DEF RetryScheduled, Marked, OthersKeep, SchedIs, AtRest, WorkerIs, WorkerTypes, Places
<1>19. ASSUME NEW a \in Attempts, FaultNoted(a) PROVE WorkerTypes'
  BY <1>19, <1>t DEF FaultNoted, OthersKeep, WorkerTypes, Places
<1>20. ASSUME NEW n \in calls, FaultTold(n) PROVE WorkerTypes'
  BY <1>20, <1>t DEF FaultTold, SchedIs, WorkerTypes, Places
<1>21. CASE Submitted
  BY <1>21, <1>t DEF Submitted, SchedIs, WorkerTypes, Places
<1>22. CASE Elsewhere
  BY <1>22, <1>t DEF Elsewhere, SchedSame, SchedIs, WorkerTypes, Places
<1>23. CASE Queues
  BY <1>23, <1>t DEF Queues, WorkerTypes, Places
<1>24. CASE StopTaken
  BY <1>24, <1>t DEF StopTaken, LifeIs, SchedIs, WorkerTypes, Places
<1>25. CASE Released
  BY <1>25, <1>t DEF Released, Marked, OthersKeep, LifeIs, WorkerTypes, Places
<1> QED BY <1>1, <1>2, <1>3, <1>4, <1>5, <1>6, <1>7, <1>8, <1>9, <1>10, <1>11, <1>12, <1>13, <1>14, <1>15, <1>16, <1>17, <1>18, <1>19, <1>20, <1>21, <1>22, <1>23, <1>24, <1>25 DEF Outcome

\* Every owner owns an attempt.
LEMMA HealthTyped ==
    ASSUME SupervisorInv, Outcome
    PROVE  HealthTypes'
<1>t. HealthTypes
  BY DEF SupervisorInv, SupervisorTypes
<1>1. CASE Quits
  BY <1>1, <1>t DEF Quits, Quiet, SchedSame, AtRest, WorkerIs, SchedIs, HealthTypes, IsAttempt, None
<1>2. CASE GoesOn
  BY <1>2, <1>t DEF GoesOn, Quiet, SchedSame, Moves, WorkerIs, SchedIs, HealthTypes, IsAttempt, None
<1>3. CASE Popped
  BY <1>3, <1>t DEF Popped, AtRest, WorkerIs, HealthTypes, IsAttempt, None
<1>4. CASE Begun
  BY <1>4, <1>t DEF Begun, LifeIs, SchedIs, WorkerIs, HealthTypes, IsAttempt, None
<1>5. CASE Reboundings
  BY <1>5, <1>t DEF Reboundings, Moves, WorkerIs, Armed, OthersKeep, SchedIs, HealthTypes, IsAttempt, None
<1>6. CASE Tokened
  BY <1>6, <1>t DEF Tokened, WorkerIs, HealthTypes, IsAttempt, None
<1>7. CASE Detached
  BY <1>7, <1>t DEF Detached, LifeIs, WorkerIs, HealthTypes, IsAttempt, None
<1>8. CASE DropDone
  BY <1>8, <1>t DEF DropDone, Marked, OthersKeep, AtRest, WorkerIs, HealthTypes, IsAttempt, None
<1>9. CASE Launched
  BY <1>9, <1>t DEF Launched, WorkerIs, HealthTypes, IsAttempt, None
<1>10. CASE LaunchFailed
  BY <1>10, <1>t DEF LaunchFailed, Marked, OthersKeep, WorkerIs, HealthTypes, IsAttempt, None
<1>11. CASE Abandoned
  BY <1>11, <1>t DEF Abandoned, WorkerIs, HealthTypes, IsAttempt, None
<1>12. CASE Published
  BY <1>12, <1>t DEF Published, LifeIs, SchedIs, WorkerIs, HealthTypes, IsAttempt, None
<1>13. CASE ArmDone
  BY <1>13, <1>t DEF ArmDone, Armed, OthersKeep, SchedIs, AtRest, WorkerIs, HealthTypes, IsAttempt, None
<1>14. CASE Fatal
  BY <1>14, <1>t DEF Fatal, SchedIs, AtRest, WorkerIs, HealthTypes, IsAttempt, None
<1>15. CASE Faulted
  BY <1>15, <1>t DEF Faulted, LifeIs, SchedIs, AtRest, WorkerIs, HealthTypes, IsAttempt, None
<1>16. CASE Halted
  BY <1>16, <1>t DEF Halted, LifeIs, WorkerIs, HealthTypes, IsAttempt, None
<1>17. CASE Removed
  BY <1>17, <1>t DEF Removed, LifeIs, WorkerIs, HealthTypes, IsAttempt, None
<1>18. CASE RetryScheduled
  BY <1>18, <1>t DEF RetryScheduled, Marked, OthersKeep, SchedIs, AtRest, WorkerIs, HealthTypes, IsAttempt, None
<1>19. ASSUME NEW a \in Attempts, FaultNoted(a) PROVE HealthTypes'
  BY <1>19, <1>t DEF FaultNoted, OthersKeep, HealthTypes, IsAttempt, None
<1>20. ASSUME NEW n \in calls, FaultTold(n) PROVE HealthTypes'
  BY <1>20, <1>t DEF FaultTold, SchedIs, HealthTypes, IsAttempt, None
<1>21. CASE Submitted
  BY <1>21, <1>t DEF Submitted, SchedIs, HealthTypes, IsAttempt, None
<1>22. CASE Elsewhere
  BY <1>22, <1>t DEF Elsewhere, SchedSame, SchedIs, HealthTypes, IsAttempt, None
<1>23. CASE Queues
  BY <1>23, <1>t DEF Queues, HealthTypes, IsAttempt, None
<1>24. CASE StopTaken
  BY <1>24, <1>t DEF StopTaken, LifeIs, SchedIs, HealthTypes, IsAttempt, None
<1>25. CASE Released
  BY <1>25, <1>t DEF Released, Marked, OthersKeep, LifeIs, HealthTypes, IsAttempt, None
<1> QED BY <1>1, <1>2, <1>3, <1>4, <1>5, <1>6, <1>7, <1>8, <1>9, <1>10, <1>11, <1>12, <1>13, <1>14, <1>15, <1>16, <1>17, <1>18, <1>19, <1>20, <1>21, <1>22, <1>23, <1>24, <1>25 DEF Outcome

\* The jobs and the scheduler keep their types.
LEMMA JobsTyped ==
    ASSUME SupervisorInv, Outcome
    PROVE  JobTypes'
<1>t. JobTypes /\ Nothing \in Jobs /\ (\A r \in Requests : Client(r) \in Jobs)
  BY JobKinds DEF SupervisorInv, SupervisorTypes
<1>1. CASE Quits
  BY <1>1, <1>t DEF Quits, Quiet, SchedSame, AtRest, WorkerIs, SchedIs, JobTypes
<1>2. CASE GoesOn
  BY <1>2, <1>t DEF GoesOn, Quiet, SchedSame, Moves, WorkerIs, SchedIs, JobTypes
<1>3. CASE Popped
  BY <1>3, <1>t, LaneShrinks DEF Popped, JobTypes
<1>4. CASE Begun
  BY <1>4, <1>t DEF Begun, LifeIs, SchedIs, WorkerIs, JobTypes
<1>5. CASE Reboundings
  BY <1>5, <1>t DEF Reboundings, Moves, WorkerIs, Armed, OthersKeep, SchedIs, JobTypes
<1>6. CASE Tokened
  BY <1>6, <1>t DEF Tokened, WorkerIs, JobTypes
<1>7. CASE Detached
  BY <1>7, <1>t DEF Detached, LifeIs, WorkerIs, JobTypes
<1>8. CASE DropDone
  BY <1>8, <1>t DEF DropDone, Marked, OthersKeep, AtRest, WorkerIs, JobTypes
<1>9. CASE Launched
  BY <1>9, <1>t DEF Launched, WorkerIs, JobTypes
<1>10. CASE LaunchFailed
  BY <1>10, <1>t DEF LaunchFailed, Marked, OthersKeep, WorkerIs, JobTypes
<1>11. CASE Abandoned
  BY <1>11, <1>t DEF Abandoned, WorkerIs, JobTypes
<1>12. CASE Published
  BY <1>12, <1>t DEF Published, LifeIs, SchedIs, WorkerIs, JobTypes
<1>13. CASE ArmDone
  BY <1>13, <1>t DEF ArmDone, Armed, OthersKeep, SchedIs, AtRest, WorkerIs, JobTypes
<1>14. CASE Fatal
  BY <1>14, <1>t DEF Fatal, SchedIs, AtRest, WorkerIs, JobTypes
<1>15. CASE Faulted
  BY <1>15, <1>t DEF Faulted, LifeIs, SchedIs, AtRest, WorkerIs, JobTypes
<1>16. CASE Halted
  BY <1>16, <1>t DEF Halted, LifeIs, WorkerIs, JobTypes
<1>17. CASE Removed
  BY <1>17, <1>t DEF Removed, LifeIs, WorkerIs, JobTypes
<1>18. CASE RetryScheduled
  BY <1>18, <1>t DEF RetryScheduled, Marked, OthersKeep, SchedIs, AtRest, WorkerIs, JobTypes
<1>19. ASSUME NEW a \in Attempts, FaultNoted(a) PROVE JobTypes'
  <2>1. health[a] \in Health /\ health[a].sink >= Unbound /\ a \in Nat
    BY DEF SupervisorInv, SupervisorTypes, HealthTypes, Notified, Honest, Told, Attempts
  <2>2. health[a].sink # Unbound => health[a].sink \in Nat
    BY <2>1 DEF Health, Unbound
  <2> QED BY <1>19, <1>t, <2>1, <2>2, JobKinds DEF FaultNoted, JobTypes
<1>20. ASSUME NEW n \in calls, FaultTold(n) PROVE JobTypes'
  BY <1>20, <1>t DEF FaultTold, SchedIs, JobTypes
<1>21. CASE Submitted
  BY <1>21, <1>t, LaneGrows DEF Submitted, SchedIs, IsSched, JobTypes
<1>22. CASE Elsewhere
  BY <1>22, <1>t DEF Elsewhere, SchedSame, SchedIs, JobTypes
<1>23. CASE Queues
  BY <1>23, <1>t, LaneGrows DEF Queues, JobTypes
<1>24. CASE StopTaken
  BY <1>24, <1>t DEF StopTaken, LifeIs, SchedIs, JobTypes
<1>25. CASE Released
  BY <1>25, <1>t DEF Released, Marked, OthersKeep, LifeIs, JobTypes
<1> QED BY <1>1, <1>2, <1>3, <1>4, <1>5, <1>6, <1>7, <1>8, <1>9, <1>10, <1>11, <1>12, <1>13, <1>14, <1>15, <1>16, <1>17, <1>18, <1>19, <1>20, <1>21, <1>22, <1>23, <1>24, <1>25 DEF Outcome

\* Who knows of the stop, and what is pending.
LEMMA StoppingKept ==
    ASSUME SupervisorInv, Outcome
    PROVE  Stopping'
<1>t. Stopping /\ IsSched(sched) /\ life.gen \in Nat /\ sched.gen \in Nat
      /\ (worker.pc \in {"rebind", "arm", "schedule"} => ~stop) /\ (\A n \in calls : n.gen <= life.gen /\ n.gen \in Nat)
  BY DEF SupervisorInv, SupervisorTypes, JobTypes, LifeTypes, IsSched, Operation, Retries, Timely, RetryOnce, RetryThere, Jobs
<1>j. /\ RuntimeFault(life.gen, capture).gen = life.gen /\ Retry(life.gen).gen = life.gen /\ Now.gen = life.gen
      /\ Retry(life.gen + 1).gen = life.gen + 1
  BY JobFields DEF Now
<1>1. CASE Quits
  BY <1>1, <1>t DEF Quits, Quiet, SchedSame, AtRest, WorkerIs, SchedIs, Stopping
<1>2. CASE GoesOn
  BY <1>2, <1>t DEF GoesOn, Quiet, SchedSame, Moves, WorkerIs, SchedIs, Stopping
<1>3. CASE Popped
  BY <1>3, <1>t DEF Popped, AtRest, WorkerIs, Stopping
<1>4. CASE Begun
  BY <1>4, <1>t DEF Begun, LifeIs, SchedIs, WorkerIs, Stopping
<1>5. CASE Reboundings
  BY <1>5, <1>t, <1>j DEF Reboundings, Moves, WorkerIs, Armed, OthersKeep, SchedIs, Stopping
<1>6. CASE Tokened
  BY <1>6, <1>t DEF Tokened, WorkerIs, Stopping
<1>7. CASE Detached
  BY <1>7, <1>t DEF Detached, LifeIs, WorkerIs, Stopping
<1>8. CASE DropDone
  BY <1>8, <1>t DEF DropDone, Marked, OthersKeep, AtRest, WorkerIs, Stopping
<1>9. CASE Launched
  BY <1>9, <1>t DEF Launched, WorkerIs, Stopping
<1>10. CASE LaunchFailed
  BY <1>10, <1>t DEF LaunchFailed, Marked, OthersKeep, WorkerIs, Stopping
<1>11. CASE Abandoned
  BY <1>11, <1>t DEF Abandoned, WorkerIs, Stopping
<1>12. CASE Published
  BY <1>12, <1>t DEF Published, LifeIs, SchedIs, WorkerIs, Stopping
<1>13. CASE ArmDone
  BY <1>13, <1>t, <1>j DEF ArmDone, Armed, OthersKeep, SchedIs, AtRest, WorkerIs, Stopping
<1>14. CASE Fatal
  BY <1>14, <1>t DEF Fatal, SchedIs, AtRest, WorkerIs, Stopping
<1>15. CASE Faulted
  BY <1>15, <1>t, <1>j DEF Faulted, LifeIs, SchedIs, AtRest, WorkerIs, Stopping
<1>16. CASE Halted
  BY <1>16, <1>t DEF Halted, LifeIs, WorkerIs, Stopping
<1>17. CASE Removed
  BY <1>17, <1>t DEF Removed, LifeIs, WorkerIs, Stopping
<1>18. CASE RetryScheduled
  BY <1>18, <1>t, <1>j DEF RetryScheduled, Marked, OthersKeep, SchedIs, AtRest, WorkerIs, Stopping
<1>19. ASSUME NEW a \in Attempts, FaultNoted(a) PROVE Stopping'
  BY <1>19, <1>t DEF FaultNoted, OthersKeep, Stopping
<1>20. ASSUME NEW n \in calls, FaultTold(n) PROVE Stopping'
  BY <1>20, <1>t, <1>j DEF FaultTold, SchedIs, Stopping
<1>21. CASE Submitted
  BY <1>21, <1>t DEF Submitted, SchedIs, Stopping
<1>22. CASE Elsewhere
  BY <1>22, <1>t DEF Elsewhere, SchedSame, SchedIs, Stopping
<1>23. CASE Queues
  BY <1>23, <1>t DEF Queues, Stopping
<1>24. CASE StopTaken
  BY <1>24, <1>t DEF StopTaken, LifeIs, SchedIs, Stopping
<1>25. CASE Released
  BY <1>25, <1>t DEF Released, Marked, OthersKeep, LifeIs, Stopping
<1> QED BY <1>1, <1>2, <1>3, <1>4, <1>5, <1>6, <1>7, <1>8, <1>9, <1>10, <1>11, <1>12, <1>13, <1>14, <1>15, <1>16, <1>17, <1>18, <1>19, <1>20, <1>21, <1>22, <1>23, <1>24, <1>25 DEF Outcome

\* Where the worker is in its operation.
LEMMA OperationKept ==
    ASSUME SupervisorInv, Outcome
    PROVE  Operation'
<1>t. Operation /\ WorkerTypes /\ (worker.pc = "arm" \/ worker.pc = "schedule" => ~stop)
  BY DEF SupervisorInv, SupervisorTypes, Operation
<1>1. CASE Quits
  BY <1>1, <1>t DEF Quits, Quiet, SchedSame, AtRest, WorkerIs, SchedIs, Operation, OfRequest, OfRetry, Requests, Nothing
<1>2. CASE GoesOn
  BY <1>2, <1>t DEF GoesOn, Quiet, SchedSame, Moves, WorkerIs, SchedIs, Operation, OfRequest, OfRetry, Requests, Nothing
<1>3. CASE Popped
  <2>1. Head(lane).kind # "none"
    BY <1>3, LaneShrinks DEF Popped, SupervisorInv, SupervisorTypes, JobTypes, Notified, Honest
  <2> QED BY <1>3, <1>t, <2>1 DEF Popped, AtRest, WorkerIs, Operation, OfRequest, OfRetry, Requests, Nothing
<1>4. CASE Begun
  BY <1>4, <1>t DEF Begun, LifeIs, SchedIs, WorkerIs, Operation, OfRequest, OfRetry, Requests, Nothing
<1>5. CASE Reboundings
  BY <1>5, <1>t DEF Reboundings, Moves, WorkerIs, Armed, OthersKeep, SchedIs, Operation, OfRequest, OfRetry, Requests, Nothing
<1>6. CASE Tokened
  BY <1>6, <1>t DEF Tokened, WorkerIs, Operation, OfRequest, OfRetry, Requests, Nothing
<1>7. CASE Detached
  BY <1>7, <1>t DEF Detached, LifeIs, WorkerIs, Operation, OfRequest, OfRetry, Requests, Nothing
<1>8. CASE DropDone
  BY <1>8, <1>t DEF DropDone, Marked, OthersKeep, AtRest, WorkerIs, Operation, OfRequest, OfRetry, Requests, Nothing
<1>9. CASE Launched
  BY <1>9, <1>t DEF Launched, WorkerIs, Operation, OfRequest, OfRetry, Requests, Nothing
<1>10. CASE LaunchFailed
  BY <1>10, <1>t DEF LaunchFailed, Marked, OthersKeep, WorkerIs, Operation, OfRequest, OfRetry, Requests, Nothing
<1>11. CASE Abandoned
  BY <1>11, <1>t DEF Abandoned, WorkerIs, Operation, OfRequest, OfRetry, Requests, Nothing
<1>12. CASE Published
  BY <1>12, <1>t DEF Published, LifeIs, SchedIs, WorkerIs, Operation, OfRequest, OfRetry, Requests, Nothing
<1>13. CASE ArmDone
  BY <1>13, <1>t DEF ArmDone, Armed, OthersKeep, SchedIs, AtRest, WorkerIs, Operation, OfRequest, OfRetry, Requests, Nothing
<1>14. CASE Fatal
  BY <1>14, <1>t DEF Fatal, SchedIs, AtRest, WorkerIs, Operation, OfRequest, OfRetry, Requests, Nothing
<1>15. CASE Faulted
  BY <1>15, <1>t DEF Faulted, LifeIs, SchedIs, AtRest, WorkerIs, Operation, OfRequest, OfRetry, Requests, Nothing
<1>16. CASE Halted
  BY <1>16, <1>t DEF Halted, LifeIs, WorkerIs, Operation, OfRequest, OfRetry, Requests, Nothing
<1>17. CASE Removed
  BY <1>17, <1>t DEF Removed, LifeIs, WorkerIs, Operation, OfRequest, OfRetry, Requests, Nothing
<1>18. CASE RetryScheduled
  BY <1>18, <1>t DEF RetryScheduled, Marked, OthersKeep, SchedIs, AtRest, WorkerIs, Operation, OfRequest, OfRetry, Requests, Nothing
<1>19. ASSUME NEW a \in Attempts, FaultNoted(a) PROVE Operation'
  BY <1>19, <1>t DEF FaultNoted, OthersKeep, Operation, OfRequest, OfRetry, Requests, Nothing
<1>20. ASSUME NEW n \in calls, FaultTold(n) PROVE Operation'
  BY <1>20, <1>t DEF FaultTold, SchedIs, Operation, OfRequest, OfRetry, Requests, Nothing
<1>21. CASE Submitted
  BY <1>21, <1>t DEF Submitted, SchedIs, Operation, OfRequest, OfRetry, Requests, Nothing
<1>22. CASE Elsewhere
  BY <1>22, <1>t DEF Elsewhere, SchedSame, SchedIs, Operation, OfRequest, OfRetry, Requests, Nothing
<1>23. CASE Queues
  BY <1>23, <1>t DEF Queues, Operation, OfRequest, OfRetry, Requests, Nothing
<1>24. CASE StopTaken
  BY <1>24, <1>t DEF StopTaken, LifeIs, SchedIs, Operation, OfRequest, OfRetry, Requests, Nothing, Authority
<1>25. CASE Released
  BY <1>25, <1>t DEF Released, Marked, OthersKeep, LifeIs, Operation, OfRequest, OfRetry, Requests, Nothing
<1> QED BY <1>1, <1>2, <1>3, <1>4, <1>5, <1>6, <1>7, <1>8, <1>9, <1>10, <1>11, <1>12, <1>13, <1>14, <1>15, <1>16, <1>17, <1>18, <1>19, <1>20, <1>21, <1>22, <1>23, <1>24, <1>25 DEF Outcome

\* Every backend keeps an owner.
LEMMA OwnersKept ==
    ASSUME SupervisorInv, Outcome
    PROVE  Owners'
<1>t. Owners /\ IsAttempt(capture) /\ Len(health) \in Nat /\ (\A a \in Attempts : a \in Nat /\ a # None /\ a # Len(health) + 1)
  BY DEF SupervisorInv, SupervisorTypes, HealthTypes, Ownership, Attempts, None
<1>o. IsAttempt(capture) /\ IsAttempt(worker.cand) /\ IsAttempt(worker.old) /\ (capture # None => capture \in Attempts) /\ capture # Len(health) + 1
      /\ (worker.pc = "drop" => worker.cand = None) /\ (worker.pc \in {"launch", "publish", "fault"} => worker.old = None)
      /\ (worker.pc = "arm" => ~stop)
  BY DEF SupervisorInv, SupervisorTypes, HealthTypes, Ownership, Owners, IsAttempt, Attempts, None, Operation
<1>1. CASE Quits
  BY <1>1, <1>t, <1>o, SameAttempts DEF Quits, Quiet, SchedSame, AtRest, WorkerIs, SchedIs, Owners, None
<1>2. CASE GoesOn
  BY <1>2, <1>t, <1>o, SameAttempts DEF GoesOn, Quiet, SchedSame, Moves, WorkerIs, SchedIs, Owners, None
<1>3. CASE Popped
  BY <1>3, <1>t, <1>o, SameAttempts DEF Popped, AtRest, WorkerIs, Owners, None
<1>4. CASE Begun
  BY <1>4, <1>t, <1>o, SameAttempts DEF Begun, LifeIs, SchedIs, WorkerIs, Owners, None
<1>5. CASE Reboundings
  BY <1>5, <1>t, <1>o, SameAttempts DEF Reboundings, Moves, WorkerIs, Armed, OthersKeep, SchedIs, Owners, None
<1>6. CASE Tokened
  BY <1>6, <1>t, <1>o, SameAttempts DEF Tokened, WorkerIs, Owners, None
<1>7. CASE Detached
  BY <1>7, <1>t, <1>o, SameAttempts DEF Detached, LifeIs, WorkerIs, Owners, None
<1>8. CASE DropDone
  BY <1>8, <1>t, <1>o, SameAttempts DEF DropDone, Marked, OthersKeep, AtRest, WorkerIs, Owners, None
<1>9. CASE Launched
  BY <1>9, <1>t, <1>o, SameAttempts DEF Launched, WorkerIs, Owners, None
<1>10. CASE LaunchFailed
  BY <1>10, <1>t, <1>o, SameAttempts DEF LaunchFailed, Marked, OthersKeep, WorkerIs, Owners, None
<1>11. CASE Abandoned
  BY <1>11, <1>t, <1>o, SameAttempts DEF Abandoned, WorkerIs, Owners, None
<1>12. CASE Published
  <2>1. /\ capture' = worker.cand /\ worker'.cand = worker.cand /\ worker'.old = capture /\ worker'.pc = "arm"
        /\ UNCHANGED health /\ worker.pc = "publish"
    BY <1>12 DEF Published, WorkerIs
  <2>2. \A a \in Attempts' : ~health'[a].normalStop => a \in {capture', worker'.cand, worker'.old}
    BY <1>t, <1>o, <2>1, SameAttempts DEF Owners, None
  <2>3. capture' # None => capture' # worker'.old
    BY <1>t, <2>1 DEF Owners
  <2> QED BY <2>1, <2>2, <2>3 DEF Owners
<1>13. CASE ArmDone
  BY <1>13, <1>t, <1>o, SameAttempts DEF ArmDone, Armed, OthersKeep, SchedIs, AtRest, WorkerIs, Owners, None
<1>14. CASE Fatal
  BY <1>14, <1>t, <1>o, SameAttempts DEF Fatal, SchedIs, AtRest, WorkerIs, Owners, None
<1>15. CASE Faulted
  BY <1>15, <1>t, <1>o, SameAttempts DEF Faulted, LifeIs, SchedIs, AtRest, WorkerIs, Owners, None
<1>16. CASE Halted
  BY <1>16, <1>t, <1>o, SameAttempts DEF Halted, LifeIs, WorkerIs, Owners, None
<1>17. CASE Removed
  BY <1>17, <1>t, <1>o, SameAttempts DEF Removed, LifeIs, WorkerIs, Owners, None
<1>18. CASE RetryScheduled
  BY <1>18, <1>t, <1>o, SameAttempts DEF RetryScheduled, Marked, OthersKeep, SchedIs, AtRest, WorkerIs, Owners, None
<1>19. ASSUME NEW a \in Attempts, FaultNoted(a) PROVE Owners'
  BY <1>19, <1>t, <1>o, SameAttempts DEF FaultNoted, OthersKeep, Owners, None
<1>20. ASSUME NEW n \in calls, FaultTold(n) PROVE Owners'
  BY <1>20, <1>t, <1>o, SameAttempts DEF FaultTold, SchedIs, Owners, None
<1>21. CASE Submitted
  BY <1>21, <1>t, <1>o, SameAttempts DEF Submitted, SchedIs, Owners, None
<1>22. CASE Elsewhere
  BY <1>22, <1>t, <1>o, SameAttempts DEF Elsewhere, SchedSame, SchedIs, Owners, None
<1>23. CASE Queues
  BY <1>23, <1>t, <1>o, SameAttempts DEF Queues, Owners, None
<1>24. CASE StopTaken
  BY <1>24, <1>t, <1>o, SameAttempts DEF StopTaken, LifeIs, SchedIs, Owners, None
<1>25. CASE Released
  BY <1>25, <1>t, <1>o, SameAttempts DEF Released, Marked, OthersKeep, LifeIs, Owners, None
<1> QED BY <1>1, <1>2, <1>3, <1>4, <1>5, <1>6, <1>7, <1>8, <1>9, <1>10, <1>11, <1>12, <1>13, <1>14, <1>15, <1>16, <1>17, <1>18, <1>19, <1>20, <1>21, <1>22, <1>23, <1>24, <1>25 DEF Outcome

\* The lifecycle tells of the capture.
LEMMA RunningKept ==
    ASSUME SupervisorInv, Outcome
    PROVE  Running'
<1>t. Running /\ Owners /\ (capture # None => capture \in Attempts /\ capture \in Nat)
      /\ (worker.pc = "publish" /\ worker.cand # None => ~health[worker.cand].normalStop)
  BY DEF SupervisorInv, SupervisorTypes, HealthTypes, Ownership, IsAttempt, Attempts, None, Bound
<1>1. CASE Quits
  BY <1>1, <1>t, SameAttempts DEF Quits, Quiet, SchedSame, AtRest, WorkerIs, SchedIs, Running
<1>2. CASE GoesOn
  BY <1>2, <1>t, SameAttempts DEF GoesOn, Quiet, SchedSame, Moves, WorkerIs, SchedIs, Running
<1>3. CASE Popped
  BY <1>3, <1>t, SameAttempts DEF Popped, AtRest, WorkerIs, Running
<1>4. CASE Begun
  BY <1>4, <1>t, SameAttempts DEF Begun, LifeIs, SchedIs, WorkerIs, Running
<1>5. CASE Reboundings
  BY <1>5, <1>t, SameAttempts DEF Reboundings, Moves, WorkerIs, Armed, OthersKeep, SchedIs, Running
<1>6. CASE Tokened
  BY <1>6, <1>t, SameAttempts DEF Tokened, WorkerIs, Running
<1>7. CASE Detached
  BY <1>7, <1>t, SameAttempts DEF Detached, LifeIs, WorkerIs, Running
<1>8. CASE DropDone
  BY <1>8, <1>t, SameAttempts DEF DropDone, Marked, OthersKeep, AtRest, WorkerIs, Running, Owners
<1>9. CASE Launched
  BY <1>9, <1>t, SameAttempts DEF Launched, WorkerIs, Running
<1>10. CASE LaunchFailed
  BY <1>10, <1>t, SameAttempts DEF LaunchFailed, Marked, OthersKeep, WorkerIs, Running, Owners
<1>11. CASE Abandoned
  BY <1>11, <1>t, SameAttempts DEF Abandoned, WorkerIs, Running
<1>12. CASE Published
  BY <1>12, <1>t, SameAttempts DEF Published, LifeIs, SchedIs, WorkerIs, Running
<1>13. CASE ArmDone
  BY <1>13, <1>t, SameAttempts DEF ArmDone, Armed, OthersKeep, SchedIs, AtRest, WorkerIs, Running
<1>14. CASE Fatal
  BY <1>14, <1>t, SameAttempts DEF Fatal, SchedIs, AtRest, WorkerIs, Running
<1>15. CASE Faulted
  BY <1>15, <1>t, SameAttempts DEF Faulted, LifeIs, SchedIs, AtRest, WorkerIs, Running
<1>16. CASE Halted
  BY <1>16, <1>t, SameAttempts DEF Halted, LifeIs, WorkerIs, Running
<1>17. CASE Removed
  BY <1>17, <1>t, SameAttempts DEF Removed, LifeIs, WorkerIs, Running
<1>18. CASE RetryScheduled
  BY <1>18, <1>t, SameAttempts DEF RetryScheduled, Marked, OthersKeep, SchedIs, AtRest, WorkerIs, Running, Owners
<1>19. ASSUME NEW a \in Attempts, FaultNoted(a) PROVE Running'
  BY <1>19, <1>t, SameAttempts DEF FaultNoted, OthersKeep, Running
<1>20. ASSUME NEW n \in calls, FaultTold(n) PROVE Running'
  BY <1>20, <1>t, SameAttempts DEF FaultTold, SchedIs, Running
<1>21. CASE Submitted
  BY <1>21, <1>t, SameAttempts DEF Submitted, SchedIs, Running
<1>22. CASE Elsewhere
  BY <1>22, <1>t, SameAttempts DEF Elsewhere, SchedSame, SchedIs, Running
<1>23. CASE Queues
  BY <1>23, <1>t, SameAttempts DEF Queues, Running
<1>24. CASE StopTaken
  BY <1>24, <1>t, SameAttempts DEF StopTaken, LifeIs, SchedIs, Running
<1>25. CASE Released
  BY <1>25, <1>t, SameAttempts DEF Released, Marked, OthersKeep, LifeIs, Running
<1> QED BY <1>1, <1>2, <1>3, <1>4, <1>5, <1>6, <1>7, <1>8, <1>9, <1>10, <1>11, <1>12, <1>13, <1>14, <1>15, <1>16, <1>17, <1>18, <1>19, <1>20, <1>21, <1>22, <1>23, <1>24, <1>25 DEF Outcome

\* A retry that is decided to be current is the one of the backoff.
LEMMA RetryNow ==
    ASSUME SupervisorInv, OfRetry, worker.pc = "decide", worker.job.gen = life.gen
    PROVE  worker.job = Now /\ capture = None
<1>1. worker.job \in Jobs /\ worker.job.attempt = 0 /\ worker.job.kind = "retry"
  BY DEF SupervisorInv, SupervisorTypes, WorkerTypes, Notified, Honest, Genuine, OfRetry
<1>2. worker.job = Now
  BY <1>1 DEF Now, Retry, Jobs
<1>3. life.class = "transient"
  BY <1>2 DEF SupervisorInv, Retries, RetryOnce, Holds
<1> QED BY <1>2, <1>3 DEF SupervisorInv, Ownership, Running

\* An operation that is to start a capture has none to replace.
LEMMA NothingYetKept ==
    ASSUME SupervisorInv, Outcome
    PROVE  NothingYet'
<1>t. NothingYet /\ (worker.pc = "check" => worker.job.kind = "start") /\ (worker.pc \in {"decide", "token"} => worker.job.kind = "retry")
  BY DEF SupervisorInv, SupervisorTypes, Ownership, Operation, OfRetry
<1>d. OfRetry /\ worker.pc = "decide" /\ worker.job.gen = life.gen => capture = None
  BY RetryNow
<1>1. CASE Quits
  BY <1>1, <1>t DEF Quits, Quiet, SchedSame, AtRest, WorkerIs, SchedIs, NothingYet, OfRetry, Nothing
<1>2. CASE GoesOn
  BY <1>2, <1>t, <1>d DEF GoesOn, Quiet, SchedSame, Moves, WorkerIs, SchedIs, NothingYet, OfRetry, OfRequest, Requests
<1>3. CASE Popped
  BY <1>3, <1>t DEF Popped, AtRest, WorkerIs, NothingYet, OfRetry, Nothing
<1>4. CASE Begun
  BY <1>4, <1>t DEF Begun, LifeIs, SchedIs, WorkerIs, NothingYet, OfRetry, Nothing
<1>5. CASE Reboundings
  BY <1>5, <1>t, <1>d DEF Reboundings, Moves, WorkerIs, Armed, OthersKeep, SchedIs, NothingYet, OfRetry, OfRequest, Requests
<1>6. CASE Tokened
  BY <1>6, <1>t DEF Tokened, WorkerIs, NothingYet, OfRetry, Nothing
<1>7. CASE Detached
  BY <1>7, <1>t DEF Detached, LifeIs, WorkerIs, NothingYet, OfRetry, Nothing
<1>8. CASE DropDone
  BY <1>8, <1>t DEF DropDone, Marked, OthersKeep, AtRest, WorkerIs, NothingYet, OfRetry, Nothing
<1>9. CASE Launched
  BY <1>9, <1>t DEF Launched, WorkerIs, NothingYet, OfRetry, Nothing
<1>10. CASE LaunchFailed
  BY <1>10, <1>t DEF LaunchFailed, Marked, OthersKeep, WorkerIs, NothingYet, OfRetry, Nothing
<1>11. CASE Abandoned
  BY <1>11, <1>t DEF Abandoned, WorkerIs, NothingYet, OfRetry, Nothing
<1>12. CASE Published
  BY <1>12, <1>t DEF Published, LifeIs, SchedIs, WorkerIs, NothingYet, OfRetry, Nothing
<1>13. CASE ArmDone
  BY <1>13, <1>t DEF ArmDone, Armed, OthersKeep, SchedIs, AtRest, WorkerIs, NothingYet, OfRetry, Nothing
<1>14. CASE Fatal
  BY <1>14, <1>t DEF Fatal, SchedIs, AtRest, WorkerIs, NothingYet, OfRetry, Nothing
<1>15. CASE Faulted
  BY <1>15, <1>t DEF Faulted, LifeIs, SchedIs, AtRest, WorkerIs, NothingYet, OfRetry, Nothing
<1>16. CASE Halted
  BY <1>16, <1>t DEF Halted, LifeIs, WorkerIs, NothingYet, OfRetry, Nothing
<1>17. CASE Removed
  BY <1>17, <1>t DEF Removed, LifeIs, WorkerIs, NothingYet, OfRetry, Nothing
<1>18. CASE RetryScheduled
  BY <1>18, <1>t DEF RetryScheduled, Marked, OthersKeep, SchedIs, AtRest, WorkerIs, NothingYet, OfRetry, Nothing
<1>19. ASSUME NEW a \in Attempts, FaultNoted(a) PROVE NothingYet'
  BY <1>19, <1>t DEF FaultNoted, OthersKeep, NothingYet, OfRetry, Nothing
<1>20. ASSUME NEW n \in calls, FaultTold(n) PROVE NothingYet'
  BY <1>20, <1>t DEF FaultTold, SchedIs, NothingYet, OfRetry, Nothing
<1>21. CASE Submitted
  BY <1>21, <1>t DEF Submitted, SchedIs, NothingYet, OfRetry, Nothing
<1>22. CASE Elsewhere
  BY <1>22, <1>t DEF Elsewhere, SchedSame, SchedIs, NothingYet, OfRetry, Nothing
<1>23. CASE Queues
  BY <1>23, <1>t DEF Queues, NothingYet, OfRetry, Nothing
<1>24. CASE StopTaken
  BY <1>24, <1>t DEF StopTaken, LifeIs, SchedIs, NothingYet, OfRetry, Nothing
<1>25. CASE Released
  BY <1>25, <1>t DEF Released, Marked, OthersKeep, LifeIs, NothingYet, OfRetry, Nothing
<1> QED BY <1>1, <1>2, <1>3, <1>4, <1>5, <1>6, <1>7, <1>8, <1>9, <1>10, <1>11, <1>12, <1>13, <1>14, <1>15, <1>16, <1>17, <1>18, <1>19, <1>20, <1>21, <1>22, <1>23, <1>24, <1>25 DEF Outcome

\* The lane stays.
LEMMA SameQueue ==
    ASSUME UNCHANGED lane
    PROVE  Queued' = Queued
BY DEF Queued

\* Jobs of different kinds, generations or attempts differ.
LEMMA JobsDiffer ==
    /\ \A g : Retry(g) # Nothing /\ (\A r \in Requests : Retry(g) # Client(r))
    /\ \A g, k, a : Retry(g) # RuntimeFault(k, a)
    /\ \A g, a : RuntimeFault(g, a) # Nothing /\ (\A r \in Requests : RuntimeFault(g, a) # Client(r))
    /\ \A g, k : Retry(g) = Retry(k) => g = k
    /\ \A g, k, a, b : RuntimeFault(g, a) = RuntimeFault(k, b) => g = k /\ a = b
    /\ \A r \in Requests : Client(r) # Nothing
BY DEF Retry, RuntimeFault, Client, Nothing, Requests

\* Generations only grow.
LEMMA GenGrows ==
    ASSUME SupervisorInv, Outcome
    PROVE  (life'.gen \in Nat /\ life'.gen >= life.gen)
<1>t. life.gen \in Nat
  BY DEF SupervisorInv, SupervisorTypes, LifeTypes
<1>1. CASE Quits
  BY <1>1, <1>t DEF Quits, Quiet, SchedSame, AtRest, WorkerIs, SchedIs
<1>2. CASE GoesOn
  BY <1>2, <1>t DEF GoesOn, Quiet, SchedSame, Moves, WorkerIs, SchedIs
<1>3. CASE Popped
  BY <1>3, <1>t DEF Popped, AtRest, WorkerIs
<1>4. CASE Begun
  BY <1>4, <1>t DEF Begun, LifeIs, SchedIs, WorkerIs
<1>5. CASE Reboundings
  BY <1>5, <1>t DEF Reboundings, Moves, WorkerIs, Armed, OthersKeep, SchedIs
<1>6. CASE Tokened
  BY <1>6, <1>t DEF Tokened, WorkerIs
<1>7. CASE Detached
  BY <1>7, <1>t DEF Detached, LifeIs, WorkerIs
<1>8. CASE DropDone
  BY <1>8, <1>t DEF DropDone, Marked, OthersKeep, AtRest, WorkerIs
<1>9. CASE Launched
  BY <1>9, <1>t DEF Launched, WorkerIs
<1>10. CASE LaunchFailed
  BY <1>10, <1>t DEF LaunchFailed, Marked, OthersKeep, WorkerIs
<1>11. CASE Abandoned
  BY <1>11, <1>t DEF Abandoned, WorkerIs
<1>12. CASE Published
  BY <1>12, <1>t DEF Published, LifeIs, SchedIs, WorkerIs
<1>13. CASE ArmDone
  BY <1>13, <1>t DEF ArmDone, Armed, OthersKeep, SchedIs, AtRest, WorkerIs
<1>14. CASE Fatal
  BY <1>14, <1>t DEF Fatal, SchedIs, AtRest, WorkerIs
<1>15. CASE Faulted
  BY <1>15, <1>t DEF Faulted, LifeIs, SchedIs, AtRest, WorkerIs
<1>16. CASE Halted
  BY <1>16, <1>t DEF Halted, LifeIs, WorkerIs
<1>17. CASE Removed
  BY <1>17, <1>t DEF Removed, LifeIs, WorkerIs
<1>18. CASE RetryScheduled
  BY <1>18, <1>t DEF RetryScheduled, Marked, OthersKeep, SchedIs, AtRest, WorkerIs
<1>19. ASSUME NEW a \in Attempts, FaultNoted(a) PROVE (life'.gen \in Nat /\ life'.gen >= life.gen)
  BY <1>19, <1>t DEF FaultNoted, OthersKeep
<1>20. ASSUME NEW n \in calls, FaultTold(n) PROVE (life'.gen \in Nat /\ life'.gen >= life.gen)
  BY <1>20, <1>t DEF FaultTold, SchedIs
<1>21. CASE Submitted
  BY <1>21, <1>t DEF Submitted, SchedIs
<1>22. CASE Elsewhere
  BY <1>22, <1>t DEF Elsewhere, SchedSame, SchedIs
<1>23. CASE Queues
  BY <1>23, <1>t DEF Queues
<1>24. CASE StopTaken
  BY <1>24, <1>t DEF StopTaken, LifeIs, SchedIs
<1>25. CASE Released
  BY <1>25, <1>t DEF Released, Marked, OthersKeep, LifeIs
<1> QED BY <1>1, <1>2, <1>3, <1>4, <1>5, <1>6, <1>7, <1>8, <1>9, <1>10, <1>11, <1>12, <1>13, <1>14, <1>15, <1>16, <1>17, <1>18, <1>19, <1>20, <1>21, <1>22, <1>23, <1>24, <1>25 DEF Outcome

\* A fault is not forgotten.
LEMMA FaultsStay ==
    ASSUME SupervisorInv, Outcome
    PROVE  (\A b \in Attempts : b \in Attempts' /\ (health[b].fault => health'[b].fault))
<1>t. \A b \in Attempts : b # None
  BY DEF Attempts, None
<1>1. CASE Quits
  BY <1>1, <1>t, SameAttempts DEF Quits, Quiet, SchedSame, AtRest, WorkerIs, SchedIs
<1>2. CASE GoesOn
  BY <1>2, <1>t, SameAttempts DEF GoesOn, Quiet, SchedSame, Moves, WorkerIs, SchedIs
<1>3. CASE Popped
  BY <1>3, <1>t, SameAttempts DEF Popped, AtRest, WorkerIs
<1>4. CASE Begun
  BY <1>4, <1>t, SameAttempts DEF Begun, LifeIs, SchedIs, WorkerIs
<1>5. CASE Reboundings
  BY <1>5, <1>t, SameAttempts DEF Reboundings, Moves, WorkerIs, Armed, OthersKeep, SchedIs
<1>6. CASE Tokened
  BY <1>6, <1>t, SameAttempts DEF Tokened, WorkerIs
<1>7. CASE Detached
  BY <1>7, <1>t, SameAttempts DEF Detached, LifeIs, WorkerIs
<1>8. CASE DropDone
  BY <1>8, <1>t, SameAttempts DEF DropDone, Marked, OthersKeep, AtRest, WorkerIs
<1>9. CASE Launched
  BY <1>9, <1>t, SameAttempts DEF Launched, WorkerIs
<1>10. CASE LaunchFailed
  BY <1>10, <1>t, SameAttempts DEF LaunchFailed, Marked, OthersKeep, WorkerIs
<1>11. CASE Abandoned
  BY <1>11, <1>t, SameAttempts DEF Abandoned, WorkerIs
<1>12. CASE Published
  BY <1>12, <1>t, SameAttempts DEF Published, LifeIs, SchedIs, WorkerIs
<1>13. CASE ArmDone
  BY <1>13, <1>t, SameAttempts DEF ArmDone, Armed, OthersKeep, SchedIs, AtRest, WorkerIs
<1>14. CASE Fatal
  BY <1>14, <1>t, SameAttempts DEF Fatal, SchedIs, AtRest, WorkerIs
<1>15. CASE Faulted
  BY <1>15, <1>t, SameAttempts DEF Faulted, LifeIs, SchedIs, AtRest, WorkerIs
<1>16. CASE Halted
  BY <1>16, <1>t, SameAttempts DEF Halted, LifeIs, WorkerIs
<1>17. CASE Removed
  BY <1>17, <1>t, SameAttempts DEF Removed, LifeIs, WorkerIs
<1>18. CASE RetryScheduled
  BY <1>18, <1>t, SameAttempts DEF RetryScheduled, Marked, OthersKeep, SchedIs, AtRest, WorkerIs
<1>19. ASSUME NEW a \in Attempts, FaultNoted(a) PROVE (\A b \in Attempts : b \in Attempts' /\ (health[b].fault => health'[b].fault))
  BY <1>19, <1>t, SameAttempts DEF FaultNoted, OthersKeep
<1>20. ASSUME NEW n \in calls, FaultTold(n) PROVE (\A b \in Attempts : b \in Attempts' /\ (health[b].fault => health'[b].fault))
  BY <1>20, <1>t, SameAttempts DEF FaultTold, SchedIs
<1>21. CASE Submitted
  BY <1>21, <1>t, SameAttempts DEF Submitted, SchedIs
<1>22. CASE Elsewhere
  BY <1>22, <1>t, SameAttempts DEF Elsewhere, SchedSame, SchedIs
<1>23. CASE Queues
  BY <1>23, <1>t, SameAttempts DEF Queues
<1>24. CASE StopTaken
  BY <1>24, <1>t, SameAttempts DEF StopTaken, LifeIs, SchedIs
<1>25. CASE Released
  BY <1>25, <1>t, SameAttempts DEF Released, Marked, OthersKeep, LifeIs
<1> QED BY <1>1, <1>2, <1>3, <1>4, <1>5, <1>6, <1>7, <1>8, <1>9, <1>10, <1>11, <1>12, <1>13, <1>14, <1>15, <1>16, <1>17, <1>18, <1>19, <1>20, <1>21, <1>22, <1>23, <1>24, <1>25 DEF Outcome

-----------------------------------------------------------------------------
(* The jobs                                                                *)

AllJobs == calls \cup {sched.pending, worker.job} \cup Queued

\* What a step may add to the jobs.
Fresh(j) ==
    \/ j = Nothing
    \/ \E r \in Requests : j = Client(r)
    \/ j = Retry(life'.gen)
    \/ \E g \in Nat, a \in Attempts : g <= life'.gen /\ health'[a].fault /\ j = RuntimeFault(g, a)

\* Where jobs come from.
LEMMA JobSources ==
    ASSUME SupervisorInv, Outcome
    PROVE  (\A j \in AllJobs' : j \in AllJobs \/ Fresh(j))
<1>t. lane \in Seq(Jobs) /\ sched.pending \in Jobs /\ (\A r \in Requests : Client(r) \in Jobs) /\ life.gen \in Nat /\ life.gen <= life.gen
  BY JobKinds DEF SupervisorInv, SupervisorTypes, JobTypes, IsSched, LifeTypes
<1>1. CASE Quits
  BY <1>1, <1>t, SameQueue DEF Quits, Quiet, SchedSame, AtRest, WorkerIs, SchedIs, AllJobs, Fresh
<1>2. CASE GoesOn
  BY <1>2, <1>t, SameQueue DEF GoesOn, Quiet, SchedSame, Moves, WorkerIs, SchedIs, AllJobs, Fresh
<1>3. CASE Popped
  BY <1>3, <1>t, LaneShrinks DEF Popped, AtRest, WorkerIs, AllJobs, Fresh
<1>4. CASE Begun
  BY <1>4, <1>t, SameQueue DEF Begun, LifeIs, SchedIs, WorkerIs, AllJobs, Fresh
<1>5. CASE Reboundings
  BY <1>5, <1>t, SameQueue DEF Reboundings, Moves, WorkerIs, Armed, OthersKeep, SchedIs, AllJobs, Fresh
<1>6. CASE Tokened
  BY <1>6, <1>t, SameQueue DEF Tokened, WorkerIs, AllJobs, Fresh
<1>7. CASE Detached
  BY <1>7, <1>t, SameQueue DEF Detached, LifeIs, WorkerIs, AllJobs, Fresh
<1>8. CASE DropDone
  BY <1>8, <1>t, SameQueue DEF DropDone, Marked, OthersKeep, AtRest, WorkerIs, AllJobs, Fresh
<1>9. CASE Launched
  BY <1>9, <1>t, SameQueue DEF Launched, WorkerIs, AllJobs, Fresh
<1>10. CASE LaunchFailed
  BY <1>10, <1>t, SameQueue DEF LaunchFailed, Marked, OthersKeep, WorkerIs, AllJobs, Fresh
<1>11. CASE Abandoned
  BY <1>11, <1>t, SameQueue DEF Abandoned, WorkerIs, AllJobs, Fresh
<1>12. CASE Published
  BY <1>12, <1>t, SameQueue DEF Published, LifeIs, SchedIs, WorkerIs, AllJobs, Fresh
<1>13. CASE ArmDone
  BY <1>13, <1>t, SameQueue DEF ArmDone, Armed, OthersKeep, SchedIs, AtRest, WorkerIs, AllJobs, Fresh
<1>14. CASE Fatal
  BY <1>14, <1>t, SameQueue DEF Fatal, SchedIs, AtRest, WorkerIs, AllJobs, Fresh
<1>15. CASE Faulted
  BY <1>15, <1>t, SameQueue DEF Faulted, LifeIs, SchedIs, AtRest, WorkerIs, AllJobs, Fresh
<1>16. CASE Halted
  BY <1>16, <1>t, SameQueue DEF Halted, LifeIs, WorkerIs, AllJobs, Fresh
<1>17. CASE Removed
  BY <1>17, <1>t, SameQueue DEF Removed, LifeIs, WorkerIs, AllJobs, Fresh
<1>18. CASE RetryScheduled
  BY <1>18, <1>t, SameQueue DEF RetryScheduled, Marked, OthersKeep, SchedIs, AtRest, WorkerIs, AllJobs, Fresh, Now
<1>19. ASSUME NEW a \in Attempts, FaultNoted(a) PROVE (\A j \in AllJobs' : j \in AllJobs \/ Fresh(j))
  <2>1. health[a] \in Health /\ health[a].sink >= Unbound
    BY DEF SupervisorInv, SupervisorTypes, HealthTypes, Notified, Told, Attempts
  <2>2. health[a].sink # Unbound => health[a].sink \in Nat
    BY <2>1 DEF Health, Unbound
  <2>3. health[a].armed => health[a].sink <= life.gen
    BY DEF SupervisorInv, Notified, Told
  <2> QED BY <1>19, <1>t, <2>2, <2>3, SameQueue DEF FaultNoted, OthersKeep, AllJobs, Fresh
<1>20. ASSUME NEW n \in calls, FaultTold(n) PROVE (\A j \in AllJobs' : j \in AllJobs \/ Fresh(j))
  BY <1>20, <1>t, SameQueue DEF FaultTold, SchedIs, AllJobs, Fresh
<1>21. CASE Submitted
  BY <1>21, <1>t, LaneGrows DEF Submitted, SchedIs, AllJobs, Fresh
<1>22. CASE Elsewhere
  BY <1>22, <1>t, SameQueue DEF Elsewhere, SchedSame, SchedIs, AllJobs, Fresh
<1>23. CASE Queues
  BY <1>23, <1>t, SameQueue, LaneGrows DEF Queues, AllJobs, Fresh
<1>24. CASE StopTaken
  BY <1>24, <1>t, SameQueue DEF StopTaken, LifeIs, SchedIs, AllJobs, Fresh
<1>25. CASE Released
  BY <1>25, <1>t, SameQueue DEF Released, Marked, OthersKeep, LifeIs, AllJobs, Fresh
<1> QED BY <1>1, <1>2, <1>3, <1>4, <1>5, <1>6, <1>7, <1>8, <1>9, <1>10, <1>11, <1>12, <1>13, <1>14, <1>15, <1>16, <1>17, <1>18, <1>19, <1>20, <1>21, <1>22, <1>23, <1>24, <1>25 DEF Outcome

\* No job is ahead of its time.
LEMMA TimelyKept == ASSUME SupervisorInv, Outcome PROVE Timely'
<1>1. life'.gen \in Nat /\ life'.gen >= life.gen /\ life.gen \in Nat
  BY GenGrows DEF SupervisorInv, SupervisorTypes, LifeTypes
<1>2. \A j \in AllJobs : j.gen \in Nat /\ j.gen <= life.gen
  <2>1. \A j \in AllJobs : j \in Jobs
    BY DEF AllJobs, SupervisorInv, SupervisorTypes, JobTypes, WorkerTypes, IsSched, Queued
  <2> QED BY <2>1 DEF AllJobs, SupervisorInv, Retries, Timely, Jobs
<1>3. ASSUME NEW j \in AllJobs' PROVE j.gen <= life'.gen
  <2>1. CASE j \in AllJobs
    BY <1>1, <1>2, <2>1
  <2>2. CASE Fresh(j)
    BY <1>1, <2>2, JobFields DEF Fresh
  <2> QED BY <2>1, <2>2, JobSources
<1> QED BY <1>3 DEF Timely, AllJobs

\* Every job says what is so.
LEMMA HonestKept == ASSUME SupervisorInv, Outcome PROVE Honest'
<1>1. ASSUME NEW j \in AllJobs' PROVE Genuine(j)'
  <2>1. CASE j \in AllJobs
    <3>1. Genuine(j)
      BY <2>1 DEF AllJobs, SupervisorInv, Notified, Honest
    <3> QED BY <3>1, FaultsStay DEF Genuine
  <2>2. CASE Fresh(j)
    BY <2>2, JobFields, FaultsStay DEF Fresh, Genuine, Requests
  <2> QED BY <2>1, <2>2, JobSources
<1>2. \A j \in Queued' : j.kind # "none"
  <2>1. /\ \A j \in Queued : j.kind # "none"
        /\ sched.pending # Nothing => sched.pending.kind # "none"
        /\ lane \in Seq(Jobs) /\ sched.pending \in Jobs
    BY DEF SupervisorInv, SupervisorTypes, JobTypes, IsSched, Notified, Honest, Genuine
  <2>2. CASE UNCHANGED lane
    BY <2>1, <2>2, SameQueue
  <2>3. CASE Popped
    BY <2>1, <2>3, LaneShrinks DEF Popped
  <2>4. CASE Submitted
    BY <2>1, <2>4, LaneGrows DEF Submitted
  <2>5. CASE Queues
    <3>1. \A r \in Requests : Client(r) \in Jobs /\ Client(r).kind # "none"
      BY JobKinds, JobFields DEF Requests
    <3> QED BY <2>1, <2>5, <3>1, LaneGrows, SameQueue DEF Queues
  <2> QED BY <2>2, <2>3, <2>4, <2>5 DEF Outcome, Quits, GoesOn, Begun, Reboundings, Tokened, Detached, DropDone, Launched, LaunchFailed, Abandoned, Published, ArmDone, Fatal, Faulted, Halted, Removed, RetryScheduled, FaultNoted, FaultTold, Elsewhere, StopTaken, Released, Quiet
<1> QED BY <1>1, <1>2 DEF Honest, AllJobs

\* There is no retry of the next generation.
LEMMA NoFuture ==
    ASSUME SupervisorInv
    PROVE  /\ Retry(life.gen + 1) \notin Queued /\ sched.pending # Retry(life.gen + 1) /\ worker.job # Retry(life.gen + 1)
           /\ life.gen \in Nat
<1>1. life.gen \in Nat /\ ~(life.gen + 1 <= life.gen) /\ Retry(life.gen + 1).gen = life.gen + 1
  BY JobFields DEF SupervisorInv, SupervisorTypes, LifeTypes
<1> QED BY <1>1 DEF SupervisorInv, Retries, Timely

\* There is at most one retry of a generation, and only in its backoff.
LEMMA RetryOnceKept ==
    ASSUME SupervisorInv, Outcome
    PROVE  RetryOnce'
<1>t. RetryOnce /\ RetryThere /\ Operation /\ Running /\ Stopping
  BY DEF SupervisorInv, Retries, Ownership
<1>n. /\ Retry(life.gen + 1) \notin Queued /\ sched.pending # Retry(life.gen + 1) /\ worker.job # Retry(life.gen + 1)
      /\ lane \in Seq(Jobs) /\ sched.pending \in Jobs /\ (\A r \in Requests : Client(r) \in Jobs)
  BY NoFuture, JobKinds DEF SupervisorInv, SupervisorTypes, JobTypes, IsSched
<1>k. /\ \A g : Retry(g) # Nothing /\ (\A r \in Requests : Retry(g) # Client(r))
      /\ \A g, k, a : Retry(g) # RuntimeFault(k, a)
      /\ \A g : Retry(g).kind = "retry"
  BY JobsDiffer, JobFields
<1>s. UNCHANGED lane => Queued' = Queued
  BY SameQueue
<1>u. /\ \A i \in DOMAIN lane : lane[i] # Retry(life.gen + 1)
      /\ \A n \in calls : n.kind = "fault"
  BY <1>n DEF Queued, SupervisorInv, Notified, Told
<1>d. OfRetry /\ worker.pc = "decide" /\ worker.job.gen = life.gen => worker.job = Now
  BY RetryNow
<1>1. CASE Quits
  BY <1>1, <1>t, <1>n, <1>k, <1>s DEF Quits, Quiet, SchedSame, AtRest, WorkerIs, SchedIs, RetryOnce, Operation, Now, Waits, Holds, OfRetry, OfRequest, Requests
<1>2. CASE GoesOn
  BY <1>2, <1>t, <1>n, <1>k, <1>s, <1>d DEF GoesOn, Quiet, SchedSame, Moves, WorkerIs, SchedIs, RetryOnce, Operation, Now, Waits, Holds, OfRetry, OfRequest, Requests
<1>3. CASE Popped
  <2>1. /\ Queued = Queued' \cup {Head(lane)} /\ Now' = Now
        /\ \A i, k \in DOMAIN lane' : lane'[i] = Now /\ lane'[k] = Now => i = k
        /\ Head(lane) = Now => Now \notin Queued'
    BY <1>3, <1>t, <1>n, LaneShrinks DEF Popped, RetryOnce, Now
  <2>2. CASE stop
    BY <1>3, <1>t, <1>k, <2>1, <2>2 DEF Popped, AtRest, WorkerIs, RetryOnce, Waits, Holds, OfRetry, OfRequest, Now, Requests
  <2>3. CASE ~stop
    BY <1>3, <1>t, <1>k, <2>1, <2>3 DEF Popped, AtRest, WorkerIs, RetryOnce, Waits, Holds, OfRetry, OfRequest
  <2> QED BY <2>2, <2>3
<1>4. CASE Begun
  <2>1. Now' = Retry(life.gen + 1) /\ worker'.pc = "rebind" /\ worker'.job = worker.job /\ UNCHANGED lane /\ sched'.pending = Nothing
    BY <1>4 DEF Begun, LifeIs, WorkerIs, SchedIs, Now
  <2>2. ~Waits' /\ ~Holds'
    BY <1>n, <1>k, <1>s, <2>1 DEF Waits, Holds
  <2> QED BY <1>u, <1>k, <2>1, <2>2 DEF RetryOnce, OfRetry
<1>5. CASE Reboundings
  BY <1>5, <1>t, <1>n, <1>k, <1>s DEF Reboundings, Moves, WorkerIs, Armed, OthersKeep, SchedIs, RetryOnce, Operation, Now, Waits, Holds, OfRetry, OfRequest, Requests
<1>6. CASE Tokened
  BY <1>6, <1>t, <1>n, <1>k, <1>s DEF Tokened, WorkerIs, RetryOnce, Operation, Now, Waits, Holds, OfRetry, OfRequest, Requests
<1>7. CASE Detached
  BY <1>7, <1>t, <1>n, <1>k, <1>s DEF Detached, LifeIs, WorkerIs, RetryOnce, Operation, Now, Waits, Holds, OfRetry, OfRequest, Requests
<1>8. CASE DropDone
  BY <1>8, <1>t, <1>n, <1>k, <1>s DEF DropDone, Marked, OthersKeep, AtRest, WorkerIs, RetryOnce, Operation, Now, Waits, Holds, OfRetry, OfRequest, Requests
<1>9. CASE Launched
  BY <1>9, <1>t, <1>n, <1>k, <1>s DEF Launched, WorkerIs, RetryOnce, Operation, Now, Waits, Holds, OfRetry, OfRequest, Requests
<1>10. CASE LaunchFailed
  BY <1>10, <1>t, <1>n, <1>k, <1>s DEF LaunchFailed, Marked, OthersKeep, WorkerIs, RetryOnce, Operation, Now, Waits, Holds, OfRetry, OfRequest, Requests
<1>11. CASE Abandoned
  BY <1>11, <1>t, <1>n, <1>k, <1>s DEF Abandoned, WorkerIs, RetryOnce, Operation, Now, Waits, Holds, OfRetry, OfRequest, Requests
<1>12. CASE Published
  <2>1. worker'.pc = "arm" /\ worker'.job = worker.job /\ UNCHANGED lane /\ sched'.pending = Nothing /\ worker.pc = "publish" /\ ~stop
    BY <1>12 DEF Published, WorkerIs, SchedIs
  <2>2. CASE worker.gen = Unbound
    <3>1. Now' = Retry(life.gen + 1)
      BY <1>12, <2>2 DEF Published, LifeIs, Now
    <3>2. ~Waits' /\ ~Holds'
      BY <1>n, <1>k, <1>s, <2>1, <3>1 DEF Waits, Holds
    <3> QED BY <1>u, <1>k, <2>1, <3>1, <3>2 DEF RetryOnce
  <2>3. CASE worker.gen # Unbound
    <3>1. Now' = Now
      BY <1>12, <2>3 DEF Published, LifeIs, Now
    <3>2. OfRequest
      BY <1>t, <2>1, <2>3 DEF Operation, OfRequest, OfRetry, Requests
    <3>3. ~Waits' /\ ~Holds'
      BY <1>t, <1>k, <1>s, <2>1, <3>1, <3>2 DEF Waits, Holds, RetryOnce, Now
    <3> QED BY <1>t, <1>k, <2>1, <3>1, <3>3 DEF RetryOnce, Waits
  <2> QED BY <2>2, <2>3
<1>13. CASE ArmDone
  BY <1>13, <1>t, <1>n, <1>k, <1>s DEF ArmDone, Armed, OthersKeep, SchedIs, AtRest, WorkerIs, RetryOnce, Operation, Now, Waits, Holds, OfRetry, OfRequest, Requests
<1>14. CASE Fatal
  BY <1>14, <1>t, <1>n, <1>k, <1>s DEF Fatal, SchedIs, AtRest, WorkerIs, RetryOnce, Operation, Now, Waits, Holds, OfRetry, OfRequest, Requests
<1>15. CASE Faulted
  <2>0. PICK g \in {life.gen, life.gen + 1} :
               /\ OfRetry => g = life.gen + 1
               /\ LifeIs(life', g, "faulted", worker.class, life.stopping)
               /\ SchedIs(sched', g, FALSE, IF worker.class = "transient" THEN Retry(g) ELSE Nothing)
    BY <1>15 DEF Faulted
  <2>1. /\ worker'.pc = "pop" /\ worker'.job = Nothing /\ UNCHANGED <<lane, stop>> /\ worker.pc = "fail" /\ ~stop
        /\ Now' = Retry(g) /\ life'.class = worker.class
        /\ sched'.pending = IF worker.class = "transient" THEN Retry(g) ELSE Nothing
    BY <1>15, <2>0 DEF Faulted, AtRest, WorkerIs, LifeIs, SchedIs, Now
  <2>2. g = life.gen => OfRequest
    BY <1>t, <1>n, <2>0, <2>1, NoFuture DEF Operation, OfRequest, OfRetry, Requests
  <2>3. Retry(g) \notin Queued /\ \A i \in DOMAIN lane : lane[i] # Retry(g)
    <3>1. CASE g = life.gen
      BY <1>t, <2>1, <2>2, <3>1 DEF RetryOnce, Waits, Now, Queued
    <3>2. CASE g = life.gen + 1
      BY <1>n, <1>u, <3>2
    <3> QED BY <2>0, <3>1, <3>2
  <2> QED BY <1>k, <1>s, <2>1, <2>3 DEF RetryOnce, Waits, Holds, OfRetry, OfRequest, Nothing, Requests
<1>16. CASE Halted
  BY <1>16, <1>t, <1>n, <1>k, <1>s DEF Halted, LifeIs, WorkerIs, RetryOnce, Operation, Now, Waits, Holds, OfRetry, OfRequest, Requests
<1>17. CASE Removed
  <2>1. ~Waits /\ ~Holds /\ Now' = Now /\ UNCHANGED <<sched, lane, stop>> /\ worker'.pc = "schedule" /\ worker'.job = worker.job
        /\ worker.job.kind = "fault"
    BY <1>17, <1>t DEF Removed, LifeIs, WorkerIs, RetryOnce, Running, Now, Operation
  <2>2. ~Waits' /\ ~Holds'
    BY <1>s, <2>1 DEF Waits, Holds
  <2> QED BY <1>t, <2>1, <2>2 DEF RetryOnce, OfRetry, OfRequest, Requests, Waits
<1>18. CASE RetryScheduled
  BY <1>18, <1>t, <1>n, <1>k, <1>s DEF RetryScheduled, Marked, OthersKeep, SchedIs, AtRest, WorkerIs, RetryOnce, Operation, Now, Waits, Holds, OfRetry, OfRequest, Requests
<1>19. ASSUME NEW a \in Attempts, FaultNoted(a) PROVE RetryOnce'
  BY <1>19, <1>t, <1>n, <1>k, <1>s DEF FaultNoted, OthersKeep, RetryOnce, Operation, Now, Waits, Holds, OfRetry, OfRequest, Requests
<1>20. ASSUME NEW n \in calls, FaultTold(n) PROVE RetryOnce'
  <2>1. /\ Now' = Now /\ UNCHANGED <<life, worker, lane, stop>> /\ (sched'.pending = sched.pending \/ sched'.pending = n)
        /\ n # Now
    BY <1>20, <1>u, <1>k DEF FaultTold, SchedIs, Now
  <2>2. Waits' => Waits
    BY <1>s, <2>1 DEF Waits
  <2>3. Holds' <=> Holds
    BY <2>1 DEF Holds
  <2>4. sched'.pending = Now => sched.pending = Now
    BY <2>1
  <2> QED BY <1>t, <1>s, <2>1, <2>2, <2>3, <2>4 DEF RetryOnce, OfRetry, OfRequest
<1>21. CASE Submitted
  <2>1. \A j : lane' = Append(lane, j) /\ j \in Jobs => Queued' = Queued \cup {j}
             /\ ((j # Now \/ Now \notin Queued) => \A i, k \in DOMAIN lane' : lane'[i] = Now /\ lane'[k] = Now => i = k)
    BY <1>t, <1>n, LaneGrows DEF RetryOnce
  <2>2. /\ Queued' = Queued \cup {sched.pending} /\ Now' = Now /\ UNCHANGED <<life, worker, stop>> /\ sched'.pending = Nothing
    BY <1>21, <1>n, <2>1 DEF Submitted, SchedIs, Now
  <2>3. \A i, k \in DOMAIN lane' : lane'[i] = Now /\ lane'[k] = Now => i = k
    BY <1>21, <1>t, <1>n, <2>1 DEF Submitted, RetryOnce
  <2>4. (Waits' <=> Waits) /\ (Holds' <=> Holds) /\ sched'.pending # Now
    BY <1>k, <2>2 DEF Waits, Holds, Now
  <2> QED BY <1>t, <2>2, <2>3, <2>4 DEF RetryOnce, OfRetry, OfRequest
<1>22. CASE Elsewhere
  BY <1>22, <1>t, <1>n, <1>k, <1>s DEF Elsewhere, SchedSame, SchedIs, RetryOnce, Operation, Now, Waits, Holds, OfRetry, OfRequest, Requests
<1>23. CASE Queues
  <2>1. \A j : lane' = Append(lane, j) /\ j \in Jobs => Queued' = Queued \cup {j}
             /\ ((j # Now \/ Now \notin Queued) => \A i, k \in DOMAIN lane' : lane'[i] = Now /\ lane'[k] = Now => i = k)
    BY <1>t, <1>n, LaneGrows DEF RetryOnce
  <2>2. /\ (Now \in Queued' <=> Now \in Queued) /\ Now' = Now /\ UNCHANGED <<life, worker, stop, sched>>
        /\ \A i, k \in DOMAIN lane' : lane'[i] = Now /\ lane'[k] = Now => i = k
    BY <1>23, <1>t, <1>n, <1>k, <1>s, <2>1 DEF Queues, RetryOnce, Now
  <2>4. (Waits' <=> Waits) /\ (Holds' <=> Holds)
    BY <2>2 DEF Waits, Holds
  <2> QED BY <1>t, <2>2, <2>4 DEF RetryOnce, OfRetry, OfRequest
<1>24. CASE StopTaken
  <2>0. PICK g \in {life.gen, life.gen + 1} : (g = life.gen => stop) /\ LifeIs(life', g, life.state, "none", TRUE)
    BY <1>24 DEF StopTaken
  <2>1. sched'.pending = Nothing /\ Now' = Retry(g) /\ UNCHANGED <<lane, worker>> /\ worker.pc # "schedule"
    BY <1>24, <2>0 DEF StopTaken, SchedIs, LifeIs, Now, Authority
  <2>2. Retry(g) \notin Queued /\ (worker.job = Retry(g) => ~Holds) /\ \A i \in DOMAIN lane : lane[i] # Retry(g)
    <3>1. CASE g = life.gen
      BY <1>t, <2>0, <3>1 DEF RetryOnce, Waits, Now, Queued
    <3>2. CASE g = life.gen + 1
      BY <1>n, <1>u, <3>2
    <3> QED BY <2>0, <3>1, <3>2
  <2>3. ~Waits'
    BY <1>k, <1>s, <2>1, <2>2 DEF Waits
  <2>4. ~Holds'
    <3>1. CASE g = life.gen
      BY <2>1, <2>2, <3>1 DEF Holds, Now
    <3>2. CASE g = life.gen + 1
      BY <1>n, <2>1, <3>2 DEF Holds
    <3> QED BY <2>0, <3>1, <3>2
  <2> QED BY <1>24, <2>1, <2>2, <2>3, <2>4 DEF StopTaken, RetryOnce, Waits
<1>25. CASE Released
  <2>1. stop /\ Now' = Now /\ UNCHANGED <<sched, lane, worker, stop>>
    BY <1>25, <1>t DEF Released, LifeIs, Stopping, Now
  <2>2. ~Waits /\ ~Holds
    BY <1>t, <2>1 DEF RetryOnce
  <2>3. ~Waits' /\ ~Holds'
    BY <1>s, <2>1, <2>2 DEF Waits, Holds
  <2> QED BY <1>t, <2>1, <2>2, <2>3 DEF RetryOnce, OfRetry, OfRequest, Waits
<1> QED BY <1>1, <1>2, <1>3, <1>4, <1>5, <1>6, <1>7, <1>8, <1>9, <1>10, <1>11, <1>12, <1>13, <1>14, <1>15, <1>16, <1>17, <1>18, <1>19, <1>20, <1>21, <1>22, <1>23, <1>24, <1>25 DEF Outcome

\* A backoff has its retry.
LEMMA RetryThereKept ==
    ASSUME SupervisorInv, Outcome
    PROVE  RetryThere'
<1>t. RetryOnce /\ RetryThere /\ Operation /\ Running /\ Stopping
  BY DEF SupervisorInv, Retries, Ownership
<1>n. /\ Retry(life.gen + 1) \notin Queued /\ sched.pending # Retry(life.gen + 1) /\ worker.job # Retry(life.gen + 1)
      /\ lane \in Seq(Jobs) /\ sched.pending \in Jobs /\ (\A r \in Requests : Client(r) \in Jobs)
  BY NoFuture, JobKinds DEF SupervisorInv, SupervisorTypes, JobTypes, IsSched
<1>k. /\ \A g : Retry(g) # Nothing /\ (\A r \in Requests : Retry(g) # Client(r))
      /\ \A g, k, a : Retry(g) # RuntimeFault(k, a)
      /\ \A g : Retry(g).kind = "retry"
  BY JobsDiffer, JobFields
<1>s. UNCHANGED lane => Queued' = Queued
  BY SameQueue
<1>u. /\ \A i \in DOMAIN lane : lane[i] # Retry(life.gen + 1)
      /\ \A n \in calls : n.kind = "fault"
  BY <1>n DEF Queued, SupervisorInv, Notified, Told
<1>d. OfRetry /\ worker.pc = "decide" /\ worker.job.gen = life.gen => worker.job = Now
  BY RetryNow
<1>1. CASE Quits
  <2>1. CASE stop
    BY <1>1, <2>1 DEF Quits, Quiet, RetryThere
  <2>2. CASE ~stop /\ capture # None
    BY <1>1, <1>t, <2>2 DEF Quits, Quiet, RetryThere, Running
  <2>3. CASE ~stop /\ capture = None
    <3>1. Now' = Now /\ sched'.pending = sched.pending /\ UNCHANGED <<life, stop, lane>> /\ worker.pc \in {"decide", "fault"}
          /\ (worker.pc = "decide" => worker.job.gen # life.gen)
      BY <1>1, <2>3 DEF Quits, Quiet, SchedSame, SchedIs, Now
    <3>2. ~Holds
      BY <1>t, <3>1, JobFields DEF Holds, Now
    <3> QED BY <1>t, <1>s, <3>1, <3>2 DEF RetryThere, Waits
  <2> QED BY <2>1, <2>2, <2>3
<1>2. CASE GoesOn
  BY <1>2, <1>t, <1>n, <1>k, <1>s DEF GoesOn, Quiet, SchedSame, Moves, WorkerIs, SchedIs, RetryThere, Operation, Now, Waits, Holds, OfRetry, OfRequest, Requests
<1>3. CASE Popped
  <2>1. Queued = Queued' \cup {Head(lane)} /\ Now' = Now /\ worker.pc = "pop" /\ UNCHANGED <<life, stop, sched>>
    BY <1>3, <1>n, LaneShrinks DEF Popped, Now
  <2>2. CASE stop
    BY <2>1, <2>2 DEF RetryThere
  <2>3. CASE ~stop
    BY <1>3, <1>t, <2>1, <2>3 DEF Popped, WorkerIs, RetryThere, Waits, Holds
  <2> QED BY <2>2, <2>3
<1>4. CASE Begun
  BY <1>4, <1>t, <1>n, <1>k, <1>s DEF Begun, LifeIs, SchedIs, WorkerIs, RetryThere, Operation, Now, Waits, Holds, OfRetry, OfRequest, Requests
<1>5. CASE Reboundings
  BY <1>5, <1>t, <1>n, <1>k, <1>s DEF Reboundings, Moves, WorkerIs, Armed, OthersKeep, SchedIs, RetryThere, Operation, Now, Waits, Holds, OfRetry, OfRequest, Requests
<1>6. CASE Tokened
  BY <1>6, <1>t, <1>n, <1>k, <1>s DEF Tokened, WorkerIs, RetryThere, Operation, Now, Waits, Holds, OfRetry, OfRequest, Requests
<1>7. CASE Detached
  BY <1>7, <1>t, <1>n, <1>k, <1>s DEF Detached, LifeIs, WorkerIs, RetryThere, Operation, Now, Waits, Holds, OfRetry, OfRequest, Requests
<1>8. CASE DropDone
  BY <1>8, <1>t, <1>n, <1>k, <1>s DEF DropDone, Marked, OthersKeep, AtRest, WorkerIs, RetryThere, Operation, Now, Waits, Holds, OfRetry, OfRequest, Requests
<1>9. CASE Launched
  BY <1>9, <1>t, <1>n, <1>k, <1>s DEF Launched, WorkerIs, RetryThere, Operation, Now, Waits, Holds, OfRetry, OfRequest, Requests
<1>10. CASE LaunchFailed
  BY <1>10, <1>t, <1>n, <1>k, <1>s DEF LaunchFailed, Marked, OthersKeep, WorkerIs, RetryThere, Operation, Now, Waits, Holds, OfRetry, OfRequest, Requests
<1>11. CASE Abandoned
  BY <1>11, <1>t, <1>n, <1>k, <1>s DEF Abandoned, WorkerIs, RetryThere, Operation, Now, Waits, Holds, OfRetry, OfRequest, Requests
<1>12. CASE Published
  BY <1>12, <1>t, <1>n, <1>k, <1>s DEF Published, LifeIs, SchedIs, WorkerIs, RetryThere, Operation, Now, Waits, Holds, OfRetry, OfRequest, Requests
<1>13. CASE ArmDone
  BY <1>13, <1>t, <1>n, <1>k, <1>s DEF ArmDone, Armed, OthersKeep, SchedIs, AtRest, WorkerIs, RetryThere, Operation, Now, Waits, Holds, OfRetry, OfRequest, Requests
<1>14. CASE Fatal
  BY <1>14, <1>t, <1>n, <1>k, <1>s DEF Fatal, SchedIs, AtRest, WorkerIs, RetryThere, Operation, Now, Waits, Holds, OfRetry, OfRequest, Requests
<1>15. CASE Faulted
  BY <1>15, <1>t, <1>n, <1>k, <1>s DEF Faulted, LifeIs, SchedIs, AtRest, WorkerIs, RetryThere, Operation, Now, Waits, Holds, OfRetry, OfRequest, Requests
<1>16. CASE Halted
  BY <1>16, <1>t, <1>n, <1>k, <1>s DEF Halted, LifeIs, WorkerIs, RetryThere, Operation, Now, Waits, Holds, OfRetry, OfRequest, Requests
<1>17. CASE Removed
  BY <1>17, <1>t, <1>n, <1>k, <1>s DEF Removed, LifeIs, WorkerIs, RetryThere, Operation, Now, Waits, Holds, OfRetry, OfRequest, Requests
<1>18. CASE RetryScheduled
  BY <1>18, <1>t, <1>n, <1>k, <1>s DEF RetryScheduled, Marked, OthersKeep, SchedIs, AtRest, WorkerIs, RetryThere, Operation, Now, Waits, Holds, OfRetry, OfRequest, Requests
<1>19. ASSUME NEW a \in Attempts, FaultNoted(a) PROVE RetryThere'
  BY <1>19, <1>t, <1>n, <1>k, <1>s DEF FaultNoted, OthersKeep, RetryThere, Operation, Now, Waits, Holds, OfRetry, OfRequest, Requests
<1>20. ASSUME NEW n \in calls, FaultTold(n) PROVE RetryThere'
  <2>1. /\ Now' = Now /\ UNCHANGED <<life, worker, lane, stop>> /\ (sched'.pending = sched.pending \/ sched'.pending = n)
    BY <1>20 DEF FaultTold, SchedIs, Now
  <2>2. ASSUME life.class = "transient", worker.pc \in {"pop", "admit", "begin", "decide", "token", "fault"} PROVE FALSE
    <3>1. capture = None /\ worker.cand = None /\ worker.old = None
      BY <1>t, <2>2 DEF Running, SupervisorInv, Ownership, Owners
    <3>2. n.kind = "fault" /\ ~health[n.attempt].normalStop /\ Genuine(n)
      BY DEF SupervisorInv, Notified, Told, Honest
    <3>3. n.attempt \in Attempts
      BY <3>2 DEF Genuine
    <3>4. n.attempt \in {capture, worker.cand, worker.old}
      BY <3>2, <3>3 DEF SupervisorInv, Ownership, Owners
    <3> QED BY <3>1, <3>3, <3>4 DEF Attempts, None
  <2> QED BY <2>1, <2>2 DEF RetryThere
<1>21. CASE Submitted
  <2>2. /\ Queued' = Queued \cup {sched.pending} /\ Now' = Now /\ UNCHANGED <<life, worker, stop>>
    BY <1>21, <1>n, LaneGrows DEF Submitted, SchedIs, Now
  <2> QED BY <1>t, <2>2 DEF RetryThere, Waits, Holds
<1>22. CASE Elsewhere
  BY <1>22, <1>t, <1>n, <1>k, <1>s DEF Elsewhere, SchedSame, SchedIs, RetryThere, Operation, Now, Waits, Holds, OfRetry, OfRequest, Requests
<1>23. CASE Queues
  <2>2. /\ Queued \subseteq Queued' /\ Now' = Now /\ UNCHANGED <<life, worker, stop, sched>>
    BY <1>23, <1>n, <1>s, LaneGrows DEF Queues, Now
  <2> QED BY <1>t, <2>2 DEF RetryThere, Waits, Holds
<1>24. CASE StopTaken
  BY <1>24, <1>t, <1>n, <1>k, <1>s DEF StopTaken, LifeIs, SchedIs, RetryThere, Operation, Now, Waits, Holds, OfRetry, OfRequest, Requests
<1>25. CASE Released
  BY <1>25, <1>t, <1>n, <1>k, <1>s DEF Released, Marked, OthersKeep, LifeIs, RetryThere, Operation, Now, Waits, Holds, OfRetry, OfRequest, Requests
<1> QED BY <1>1, <1>2, <1>3, <1>4, <1>5, <1>6, <1>7, <1>8, <1>9, <1>10, <1>11, <1>12, <1>13, <1>14, <1>15, <1>16, <1>17, <1>18, <1>19, <1>20, <1>21, <1>22, <1>23, <1>24, <1>25 DEF Outcome

\* What a PipeWire thread is about to tell is so, and every sink is of its time.
LEMMA ToldKept ==
    ASSUME SupervisorInv, Outcome
    PROVE  Told'
<1>t. Told /\ health \in Seq(Health) /\ life.gen \in Nat /\ (\A n \in calls : n.attempt \in Attempts /\ health[n.attempt].fault /\ n.gen <= life.gen /\ n.gen \in Nat)
      /\ \A a \in Attempts : a # None /\ health[a].sink \in Int /\ health[a].notified \in Int
  <2>1. \A a \in Attempts : health[a] \in Health
    BY DEF SupervisorInv, SupervisorTypes, HealthTypes, Attempts
  <2>2. \A n \in calls : Genuine(n) /\ n.kind = "fault" /\ n \in Jobs /\ n.gen <= life.gen
    BY DEF SupervisorInv, SupervisorTypes, JobTypes, Notified, Honest, Told, Retries, Timely
  <2> QED BY <2>1, <2>2 DEF SupervisorInv, SupervisorTypes, HealthTypes, LifeTypes, Notified, Health, Jobs, Genuine, Attempts, None
<1>g. life'.gen \in Nat /\ life'.gen >= life.gen
  BY GenGrows
<1>u. Unbound \in Int /\ Unbound <= Unbound /\ \A g \in Nat : Unbound <= g /\ Unbound < g
  BY UnboundFacts DEF Unbound
<1>1. CASE Quits
  BY <1>1, <1>t, <1>g, <1>u, SameAttempts DEF Quits, Quiet, SchedSame, AtRest, WorkerIs, SchedIs, Told
<1>2. CASE GoesOn
  BY <1>2, <1>t, <1>g, <1>u, SameAttempts DEF GoesOn, Quiet, SchedSame, Moves, WorkerIs, SchedIs, Told
<1>3. CASE Popped
  BY <1>3, <1>t, <1>g, <1>u, SameAttempts DEF Popped, AtRest, WorkerIs, Told
<1>4. CASE Begun
  BY <1>4, <1>t, <1>g, <1>u, SameAttempts DEF Begun, LifeIs, SchedIs, WorkerIs, Told
<1>5. CASE Reboundings
  <2>1. Armed /\ UNCHANGED <<life, calls>>
    BY <1>5 DEF Reboundings
  <2>2. CASE capture = None
    BY <1>t, <2>1, <2>2, SameAttempts DEF Armed, Told
  <2>3. CASE capture # None
    <3>1. /\ capture \in Attempts /\ OthersKeep(capture) /\ (health'[capture].fault <=> health[capture].fault)
          /\ health'[capture].sink = life.gen /\ health'[capture].armed /\ ~health'[capture].normalStop
      BY <2>1, <2>3 DEF Armed
    <3>2. \/ health[capture].fault /\ health'[capture].notified = life.gen
          \/ ~health[capture].fault /\ health'[capture].notified = health[capture].notified
      BY <2>1, <2>3 DEF Armed
    <3>3. \A n \in calls : n.gen <= health'[n.attempt].notified
      BY <1>t, <3>1, <3>2 DEF OthersKeep, Told
    <3>4. health'[capture].notified <= life.gen /\ health'[capture].sink >= Unbound /\ life.gen <= life.gen
      BY <1>t, <1>u, <3>1, <3>2 DEF Told, Unbound
    <3> QED BY SMTT(30), <1>t, <2>1, <3>1, <3>2, <3>3, <3>4 DEF OthersKeep, Told
  <2> QED BY <2>2, <2>3
<1>6. CASE Tokened
  BY <1>6, <1>t, <1>g, <1>u, SameAttempts DEF Tokened, WorkerIs, Told
<1>7. CASE Detached
  BY <1>7, <1>t, <1>g, <1>u, SameAttempts DEF Detached, LifeIs, WorkerIs, Told
<1>8. CASE DropDone
  BY SMTT(30), <1>8, <1>t, <1>g, <1>u, SameAttempts DEF DropDone, Marked, OthersKeep, AtRest, WorkerIs, Told
<1>9. CASE Launched
  <2>1. /\ UNCHANGED <<life, calls>> /\ Attempts' = Attempts \cup {Len(health) + 1}
        /\ \A b \in Attempts : health'[b] = health[b]
        /\ LET h == health'[Len(health) + 1]
           IN /\ ~h.fault /\ ~h.armed /\ ~h.normalStop /\ h.notified = Unbound
              /\ h.sink = IF worker.gen = Unbound THEN life.gen + 1 ELSE worker.gen
    BY <1>9 DEF Launched
  <2>2. worker.gen \in {Unbound, life.gen}
    BY <1>9 DEF Launched, SupervisorInv, Operation, OfRequest, OfRetry, Requests
  <2>3. health'[Len(health) + 1].sink >= Unbound /\ Unbound <= life.gen
    BY <1>t, <1>u, <2>1, <2>2 DEF Unbound
  <2> QED BY <1>t, <2>1, <2>3 DEF Told
<1>10. CASE LaunchFailed
  BY <1>10, <1>t, <1>g, <1>u, SameAttempts DEF LaunchFailed, Marked, OthersKeep, WorkerIs, Told
<1>11. CASE Abandoned
  BY <1>11, <1>t, <1>g, <1>u, SameAttempts DEF Abandoned, WorkerIs, Told
<1>12. CASE Published
  BY <1>12, <1>t, <1>g, <1>u, SameAttempts DEF Published, LifeIs, SchedIs, WorkerIs, Told
<1>13. CASE ArmDone
  BY ZenonT(30), <1>13, <1>t, <1>g, <1>u, SameAttempts DEF ArmDone, Armed, OthersKeep, SchedIs, AtRest, WorkerIs, Told
<1>14. CASE Fatal
  BY <1>14, <1>t, <1>g, <1>u, SameAttempts DEF Fatal, SchedIs, AtRest, WorkerIs, Told
<1>15. CASE Faulted
  BY <1>15, <1>t, <1>g, <1>u, SameAttempts DEF Faulted, LifeIs, SchedIs, AtRest, WorkerIs, Told
<1>16. CASE Halted
  BY <1>16, <1>t, <1>g, <1>u, SameAttempts DEF Halted, LifeIs, WorkerIs, Told
<1>17. CASE Removed
  BY <1>17, <1>t, <1>g, <1>u, SameAttempts DEF Removed, LifeIs, WorkerIs, Told
<1>18. CASE RetryScheduled
  BY SMTT(30), <1>18, <1>t, <1>g, <1>u, SameAttempts DEF RetryScheduled, Marked, OthersKeep, SchedIs, AtRest, WorkerIs, Told
<1>19. ASSUME NEW a \in Attempts, FaultNoted(a) PROVE Told'
  <2>1. \A n \in calls : n.attempt # a
    BY <1>19, <1>t DEF FaultNoted
  <2>2. UNCHANGED life /\ OthersKeep(a)
    BY <1>19 DEF FaultNoted
  <2>3. health[a].armed => health[a].sink <= life.gen
    BY DEF SupervisorInv, Notified, Told
  <2>4. /\ health'[a].fault /\ health'[a].notified <= life.gen /\ health'[a].sink >= Unbound
        /\ (health'[a].armed => health'[a].sink <= life.gen) /\ ~health'[a].normalStop
    BY <1>19, <1>t, <2>3 DEF FaultNoted, Told
  <2>5. ASSUME NEW n \in calls'
        PROVE n.kind = "fault" /\ ~health'[n.attempt].normalStop /\ n.gen <= health'[n.attempt].notified
    <3>1. CASE n \in calls
      BY <1>t, <2>1, <2>2, <3>1 DEF OthersKeep, Told
    <3>2. CASE n \notin calls
      <4>1. n = RuntimeFault(health[a].sink, a) /\ health'[a].notified = health[a].sink
        BY <1>19, <2>5, <3>2 DEF FaultNoted
      <4>2. n.kind = "fault" /\ n.attempt = a /\ n.gen = health[a].sink
        BY <4>1, JobFields
      <4> QED BY <1>t, <2>4, <4>1, <4>2
    <3> QED BY <3>1, <3>2
  <2> QED BY <1>t, <2>2, <2>4, <2>5 DEF Told, OthersKeep
<1>20. ASSUME NEW n \in calls, FaultTold(n) PROVE Told'
  BY <1>20, <1>t, <1>g, <1>u, SameAttempts DEF FaultTold, SchedIs, Told
<1>21. CASE Submitted
  BY <1>21, <1>t, <1>g, <1>u, SameAttempts DEF Submitted, SchedIs, Told
<1>22. CASE Elsewhere
  BY <1>22, <1>t, <1>g, <1>u, SameAttempts DEF Elsewhere, SchedSame, SchedIs, Told
<1>23. CASE Queues
  BY <1>23, <1>t, <1>g, <1>u, SameAttempts DEF Queues, Told
<1>24. CASE StopTaken
  BY <1>24, <1>t, <1>g, <1>u, SameAttempts DEF StopTaken, LifeIs, SchedIs, Told
<1>25. CASE Released
  BY <1>25, <1>t, <1>g, <1>u, SameAttempts DEF Released, Marked, OthersKeep, LifeIs, Told
<1> QED BY <1>1, <1>2, <1>3, <1>4, <1>5, <1>6, <1>7, <1>8, <1>9, <1>10, <1>11, <1>12, <1>13, <1>14, <1>15, <1>16, <1>17, <1>18, <1>19, <1>20, <1>21, <1>22, <1>23, <1>24, <1>25 DEF Outcome

\* The sinks of the captures.
LEMMA BoundKept ==
    ASSUME SupervisorInv, Outcome
    PROVE  Bound'
<1>t. Told /\ health \in Seq(Health) /\ life.gen \in Nat /\ (\A n \in calls : n.attempt \in Attempts /\ health[n.attempt].fault /\ n.gen <= life.gen /\ n.gen \in Nat)
      /\ \A a \in Attempts : a # None /\ health[a].sink \in Int /\ health[a].notified \in Int
  <2>1. \A a \in Attempts : health[a] \in Health
    BY DEF SupervisorInv, SupervisorTypes, HealthTypes, Attempts
  <2>2. \A n \in calls : Genuine(n) /\ n.kind = "fault" /\ n \in Jobs /\ n.gen <= life.gen
    BY DEF SupervisorInv, SupervisorTypes, JobTypes, Notified, Honest, Told, Retries, Timely
  <2> QED BY <2>1, <2>2 DEF SupervisorInv, SupervisorTypes, HealthTypes, LifeTypes, Notified, Health, Jobs, Genuine, Attempts, None
<1>g. life'.gen \in Nat /\ life'.gen >= life.gen
  BY GenGrows
<1>u. Unbound \in Int /\ Unbound <= Unbound /\ \A g \in Nat : Unbound <= g /\ Unbound < g
  BY UnboundFacts DEF Unbound
<1>b. Bound /\ Owners /\ Running /\ Operation /\ (capture # None => capture \in Attempts) /\ (worker.cand # None => worker.cand \in Attempts)
  BY DEF SupervisorInv, SupervisorTypes, HealthTypes, Ownership, IsAttempt, Attempts, None
<1>1. CASE Quits
  BY <1>1, <1>b, <1>t, <1>g, <1>u, SameAttempts DEF Quits, Quiet, SchedSame, AtRest, WorkerIs, SchedIs, Bound
<1>2. CASE GoesOn
  BY <1>2, <1>b, <1>t, <1>g, <1>u, SameAttempts DEF GoesOn, Quiet, SchedSame, Moves, WorkerIs, SchedIs, Bound, Owners
<1>3. CASE Popped
  BY <1>3, <1>b, <1>t, <1>g, <1>u, SameAttempts DEF Popped, AtRest, WorkerIs, Bound
<1>4. CASE Begun
  <2>1. \A a \in Attempts : health[a].notified < life.gen + 1
    BY <1>t DEF Told
  <2>2. capture # None => health[capture].sink < life.gen + 1 /\ health[capture].armed /\ health[capture].sink >= 0
    BY <1>4, <1>t, <1>b DEF Told, Bound, Begun
  <2> QED BY <1>4, <2>1, <2>2, SameAttempts DEF Begun, LifeIs, WorkerIs, Bound
<1>5. CASE Reboundings
  BY <1>5, <1>b, <1>t, <1>g, <1>u, SameAttempts DEF Reboundings, Moves, WorkerIs, Armed, OthersKeep, SchedIs, Bound
<1>6. CASE Tokened
  BY <1>6, <1>b, <1>t, <1>g, <1>u, SameAttempts DEF Tokened, WorkerIs, Bound
<1>7. CASE Detached
  BY <1>7, <1>b, <1>t, <1>g, <1>u, SameAttempts DEF Detached, LifeIs, WorkerIs, Bound
<1>8. CASE DropDone
  BY <1>8, <1>b, <1>t, <1>g, <1>u, SameAttempts DEF DropDone, Marked, OthersKeep, AtRest, WorkerIs, Bound, Owners
<1>9. CASE Launched
  <2>1. worker.gen \in {Unbound, life.gen} /\ worker.pc = "launch"
    BY <1>9 DEF Launched, SupervisorInv, Operation, OfRequest, OfRetry, Requests
  <2>2. /\ UNCHANGED <<life, capture, stop>> /\ worker'.pc = "publish" /\ worker'.cand = Len(health) + 1 /\ worker'.gen = worker.gen
        /\ \A b \in Attempts : health'[b] = health[b]
        /\ LET h == health'[Len(health) + 1]
           IN /\ ~h.fault /\ ~h.armed /\ ~h.normalStop /\ h.notified = Unbound
              /\ h.sink = IF worker.gen = Unbound THEN life.gen + 1 ELSE worker.gen
    BY <1>9 DEF Launched, WorkerIs
  <2> QED BY <1>b, <2>1, <2>2 DEF Bound
<1>10. CASE LaunchFailed
  BY <1>10, <1>b, <1>t, <1>g, <1>u, SameAttempts DEF LaunchFailed, Marked, OthersKeep, WorkerIs, Bound, Owners
<1>11. CASE Abandoned
  BY <1>11, <1>b, <1>t, <1>g, <1>u, SameAttempts DEF Abandoned, WorkerIs, Bound
<1>12. CASE Published
  BY <1>12, <1>b, <1>t, <1>g, <1>u, SameAttempts DEF Published, LifeIs, SchedIs, WorkerIs, Bound
<1>13. CASE ArmDone
  BY <1>13, <1>b, <1>t, <1>g, <1>u, SameAttempts DEF ArmDone, Armed, OthersKeep, SchedIs, AtRest, WorkerIs, Bound
<1>14. CASE Fatal
  BY <1>14, <1>b, <1>t, <1>g, <1>u, SameAttempts DEF Fatal, SchedIs, AtRest, WorkerIs, Bound
<1>15. CASE Faulted
  BY <1>15, <1>b, <1>t, <1>g, <1>u, SameAttempts DEF Faulted, LifeIs, SchedIs, AtRest, WorkerIs, Bound
<1>16. CASE Halted
  BY <1>16, <1>b, <1>t, <1>g, <1>u, SameAttempts DEF Halted, LifeIs, WorkerIs, Bound
<1>17. CASE Removed
  BY <1>17, <1>b, <1>t, <1>g, <1>u, SameAttempts DEF Removed, LifeIs, WorkerIs, Bound
<1>18. CASE RetryScheduled
  BY <1>18, <1>b, <1>t, <1>g, <1>u, SameAttempts DEF RetryScheduled, Marked, OthersKeep, SchedIs, AtRest, WorkerIs, Bound, Owners
<1>19. ASSUME NEW a \in Attempts, FaultNoted(a) PROVE Bound'
  <2>1. UNCHANGED <<life, capture, stop, worker>> /\ OthersKeep(a) /\ ~health[a].normalStop /\ ~health'[a].normalStop
        /\ health'[a].sink = health[a].sink /\ (health'[a].armed <=> health[a].armed)
        /\ (~health[a].armed => health'[a].notified = health[a].notified)
        /\ health'[a].notified \in {health[a].notified, health[a].sink}
    BY <1>19 DEF FaultNoted
  <2>2. worker.pc = "rebind" => a = capture
    <3>1. worker.pc = "rebind" => worker.cand = None /\ worker.old = None
      BY <1>b DEF Owners
    <3> QED BY <1>b, <1>t, <2>1, <3>1 DEF Owners
  <2>3. worker.pc = "rebind" => health'[a].notified < life.gen
    BY <1>b, <1>t, <2>1, <2>2 DEF Bound
  <2>4. worker.pc = "rebind" => /\ \A b \in Attempts' : health'[b].notified < life'.gen
                                /\ capture' # None => health'[capture'].sink < life'.gen
    BY <1>b, <1>t, <2>1, <2>3 DEF Bound, OthersKeep
  <2>5. capture # None => health'[capture].sink = health[capture].sink /\ (health'[capture].armed <=> health[capture].armed)
    BY <1>b, <2>1 DEF OthersKeep
  <2>6. worker.cand # None => LET h == health'[worker.cand] k == health[worker.cand]
          IN h.sink = k.sink /\ (h.armed <=> k.armed) /\ (~k.armed => h.notified = k.notified) /\ (h.normalStop <=> k.normalStop)
    BY <1>b, <2>1 DEF OthersKeep
  <2> QED BY <1>b, <2>1, <2>4, <2>5, <2>6 DEF Bound
<1>20. ASSUME NEW n \in calls, FaultTold(n) PROVE Bound'
  BY <1>20, <1>b, <1>t, <1>g, <1>u, SameAttempts DEF FaultTold, SchedIs, Bound
<1>21. CASE Submitted
  BY <1>21, <1>b, <1>t, <1>g, <1>u, SameAttempts DEF Submitted, SchedIs, Bound
<1>22. CASE Elsewhere
  BY <1>22, <1>b, <1>t, <1>g, <1>u, SameAttempts DEF Elsewhere, SchedSame, SchedIs, Bound
<1>23. CASE Queues
  BY <1>23, <1>b, <1>t, <1>g, <1>u, SameAttempts DEF Queues, Bound
<1>24. CASE StopTaken
  BY <1>24, <1>b, <1>t, <1>g, <1>u, SameAttempts DEF StopTaken, LifeIs, SchedIs, Bound, Authority
<1>25. CASE Released
  BY <1>25, <1>b, <1>t, <1>g, <1>u, SameAttempts DEF Released, Marked, OthersKeep, LifeIs, Bound
<1> QED BY <1>1, <1>2, <1>3, <1>4, <1>5, <1>6, <1>7, <1>8, <1>9, <1>10, <1>11, <1>12, <1>13, <1>14, <1>15, <1>16, <1>17, <1>18, <1>19, <1>20, <1>21, <1>22, <1>23, <1>24, <1>25 DEF Outcome

\* The fault of the running capture stays on its way.
LEMMA FaultKept ==
    ASSUME SupervisorInv, Outcome
    PROVE  FaultOnItsWay'
<1>t. FaultOnItsWay /\ Owners /\ Running /\ Operation /\ Stopping /\ Bound /\ Told
      /\ (capture # None => capture \in Attempts) /\ lane \in Seq(Jobs) /\ sched.pending \in Jobs
      /\ (\A r \in Requests : Client(r) \in Jobs) /\ life.gen \in Nat
      /\ \A a \in Attempts : a # None /\ a # Len(health) + 1
  BY JobKinds DEF SupervisorInv, SupervisorTypes, HealthTypes, JobTypes, LifeTypes, IsSched, Ownership, Notified, IsAttempt, Attempts, None
<1>j. /\ \A g, a : RuntimeFault(g, a) # Nothing /\ (\A r \in Requests : RuntimeFault(g, a) # Client(r))
      /\ \A g, a : RuntimeFault(g, a).kind = "fault" /\ RuntimeFault(g, a).gen = g /\ RuntimeFault(g, a).attempt = a
      /\ \A g \in Nat : g # Unbound
  BY JobsDiffer, JobFields, UnboundFacts
<1>s. /\ UNCHANGED lane => Queued' = Queued
      /\ UNCHANGED health => Attempts' = Attempts
  BY SameQueue, SameAttempts
<1>1. CASE Quits
  BY <1>1, <1>t, <1>j, <1>s DEF Quits, Quiet, SchedSame, AtRest, WorkerIs, SchedIs, FaultOnItsWay, OnItsWay, Starting, Operation, OfRequest, OfRetry, Requests, Running, Owners
<1>2. CASE GoesOn
  BY <1>2, <1>t, <1>j, <1>s DEF GoesOn, Quiet, SchedSame, Moves, WorkerIs, SchedIs, FaultOnItsWay, OnItsWay, Starting, Operation, OfRequest, OfRetry, Requests, Running, Owners
<1>3. CASE Popped
  BY <1>3, <1>t, <1>j, <1>s, LaneShrinks DEF Popped, AtRest, WorkerIs, FaultOnItsWay, OnItsWay, Starting
<1>4. CASE Begun
  BY <1>4, <1>t, <1>j, <1>s DEF Begun, LifeIs, SchedIs, WorkerIs, FaultOnItsWay, OnItsWay, Starting
<1>5. CASE Reboundings
  BY <1>5, <1>t, <1>j, <1>s DEF Reboundings, Moves, WorkerIs, Armed, OthersKeep, SchedIs, FaultOnItsWay, OnItsWay, Starting, Operation, OfRequest, OfRetry, Requests, Running, Owners
<1>6. CASE Tokened
  BY <1>6, <1>t, <1>j, <1>s DEF Tokened, WorkerIs, FaultOnItsWay, OnItsWay, Starting, Operation, OfRequest, OfRetry, Requests, Running, Owners
<1>7. CASE Detached
  BY <1>7, <1>t, <1>j, <1>s DEF Detached, LifeIs, WorkerIs, FaultOnItsWay, OnItsWay, Starting
<1>8. CASE DropDone
  BY <1>8, <1>t, <1>j, <1>s DEF DropDone, Marked, OthersKeep, AtRest, WorkerIs, FaultOnItsWay, OnItsWay, Starting, Operation, OfRequest, OfRetry, Requests, Running, Owners
<1>9. CASE Launched
  BY <1>9, <1>t, <1>j, <1>s DEF Launched, WorkerIs, FaultOnItsWay, OnItsWay, Starting, Operation, OfRequest, OfRetry, Requests, Running, Owners
<1>10. CASE LaunchFailed
  BY <1>10, <1>t, <1>j, <1>s DEF LaunchFailed, Marked, OthersKeep, WorkerIs, FaultOnItsWay, OnItsWay, Starting, Operation, OfRequest, OfRetry, Requests, Running, Owners
<1>11. CASE Abandoned
  BY <1>11, <1>t, <1>j, <1>s DEF Abandoned, WorkerIs, FaultOnItsWay, OnItsWay, Starting
<1>12. CASE Published
  BY <1>12, <1>t, <1>j, <1>s DEF Published, LifeIs, SchedIs, WorkerIs, FaultOnItsWay, OnItsWay, Starting
<1>13. CASE ArmDone
  BY <1>13, <1>t, <1>j, <1>s DEF ArmDone, Armed, OthersKeep, SchedIs, AtRest, WorkerIs, FaultOnItsWay, OnItsWay, Starting, Operation, OfRequest, OfRetry, Requests, Running, Owners
<1>14. CASE Fatal
  BY <1>14, <1>t, <1>j, <1>s DEF Fatal, SchedIs, AtRest, WorkerIs, FaultOnItsWay, OnItsWay, Starting
<1>15. CASE Faulted
  BY <1>15, <1>t, <1>j, <1>s DEF Faulted, LifeIs, SchedIs, AtRest, WorkerIs, FaultOnItsWay, OnItsWay, Starting
<1>16. CASE Halted
  BY <1>16, <1>t, <1>j, <1>s DEF Halted, LifeIs, WorkerIs, FaultOnItsWay, OnItsWay, Starting
<1>17. CASE Removed
  BY <1>17, <1>t, <1>j, <1>s DEF Removed, LifeIs, WorkerIs, FaultOnItsWay, OnItsWay, Starting
<1>18. CASE RetryScheduled
  BY <1>18, <1>t, <1>j, <1>s DEF RetryScheduled, Marked, OthersKeep, SchedIs, AtRest, WorkerIs, FaultOnItsWay, OnItsWay, Starting, Operation, OfRequest, OfRetry, Requests, Running, Owners
<1>19. ASSUME NEW a \in Attempts, FaultNoted(a) PROVE FaultOnItsWay'
  <2>0. UNCHANGED <<life, capture, stop, worker, sched, lane>> /\ OthersKeep(a)
    BY <1>19 DEF FaultNoted
  <2> SUFFICES ASSUME capture # None, ~stop, worker.pc \notin {"rebind", "arm"},
                      \A b \in Attempts \ {capture} : health'[b].notified # life.gen, health'[capture].fault
               PROVE  OnItsWay(RuntimeFault(life.gen, capture))'
    BY <2>0 DEF FaultOnItsWay, OthersKeep
  <2>1. CASE a = capture
    <3>1. health[a].armed /\ health[a].sink = life.gen
      BY <1>t, <2>1 DEF Bound
    <3>2. RuntimeFault(life.gen, capture) \in calls'
      BY <1>19, <1>t, <1>j, <2>1, <3>1 DEF FaultNoted
    <3> QED BY <2>0, <3>2 DEF OnItsWay
  <2>2. CASE a # capture
    <3>1. health[a].notified = Unbound /\ calls \subseteq calls'
      BY <1>19, <1>t DEF FaultNoted, Told
    <3>2. health[capture].fault /\ \A b \in Attempts \ {capture} : health[b].notified # life.gen
      BY <1>t, <1>j, <2>0, <2>2, <3>1 DEF OthersKeep
    <3>3. OnItsWay(RuntimeFault(life.gen, capture))
      BY <1>t, <3>2 DEF FaultOnItsWay
    <3> QED BY <1>s, <2>0, <3>1, <3>3 DEF OnItsWay, Starting
  <2> QED BY <2>1, <2>2
<1>20. ASSUME NEW n \in calls, FaultTold(n) PROVE FaultOnItsWay'
  <2>0. UNCHANGED <<life, capture, stop, worker, health, lane>> /\ calls' = calls \ {n}
    BY <1>20 DEF FaultTold
  <2> SUFFICES ASSUME capture # None, ~stop, worker.pc \notin {"rebind", "arm"},
                      \A b \in Attempts \ {capture} : health[b].notified # life.gen, health[capture].fault
               PROVE  OnItsWay(RuntimeFault(life.gen, capture))'
    BY <1>s, <2>0 DEF FaultOnItsWay
  <2>1. OnItsWay(RuntimeFault(life.gen, capture))
    BY <1>t DEF FaultOnItsWay
  <2>2. n \in Jobs /\ n.gen \in Nat /\ sched.gen \in Nat /\ n.gen <= life.gen /\ sched.gen <= life.gen
    BY DEF SupervisorInv, SupervisorTypes, JobTypes, IsSched, Stopping, Retries, Timely, Jobs
  <2>3. CASE n = RuntimeFault(life.gen, capture)
    <3>1. ~(n.gen < sched.gen)
      BY <1>j, <2>2, <2>3
    <3>2. sched'.pending = RuntimeFault(life.gen, capture)
      BY <1>20, <2>3, <3>1 DEF FaultTold, SchedIs
    <3> QED BY <2>0, <3>2 DEF OnItsWay
  <2>4. CASE n # RuntimeFault(life.gen, capture) /\ sched.pending # RuntimeFault(life.gen, capture)
    BY <1>s, <2>0, <2>1, <2>4 DEF OnItsWay, Starting
  <2>5. CASE n # RuntimeFault(life.gen, capture) /\ sched.pending = RuntimeFault(life.gen, capture)
    <3>1. sched.gen = life.gen
      BY <1>t, <1>j, <2>5 DEF Stopping
    <3>2. CASE n.gen < sched.gen
      <4>0. ~(n.gen >= sched.gen)
        BY <2>2, <3>2
      <4>1. sched'.pending = sched.pending
        BY <1>20, <4>0 DEF FaultTold
      <4> QED BY <2>5, <2>0, <4>1 DEF OnItsWay
    <3>3. CASE ~(n.gen < sched.gen)
      <4>1. n.gen = life.gen
        BY <2>2, <3>1, <3>3
      <4>2. n.kind = "fault" /\ n.gen <= health[n.attempt].notified /\ n.attempt \in Attempts
        BY DEF SupervisorInv, Notified, Told, Honest, Genuine
      <4>3. health[n.attempt].notified <= life.gen /\ health[n.attempt] \in Health
        BY <4>2 DEF SupervisorInv, SupervisorTypes, HealthTypes, Notified, Told, Attempts
      <4>4. health[n.attempt].notified = life.gen
        BY <1>t, <4>1, <4>2, <4>3 DEF Health
      <4>5. n.attempt = capture
        BY <4>2, <4>4
      <4>6. n = RuntimeFault(life.gen, capture)
        BY <2>2, <4>1, <4>2, <4>5 DEF Jobs, RuntimeFault
      <4> QED BY <2>5, <4>6
    <3> QED BY <3>2, <3>3
  <2> QED BY <2>3, <2>4, <2>5
<1>21. CASE Submitted
  BY <1>21, <1>t, <1>j, <1>s, LaneGrows DEF Submitted, SchedIs, FaultOnItsWay, OnItsWay, Starting
<1>22. CASE Elsewhere
  BY <1>22, <1>t, <1>j, <1>s DEF Elsewhere, SchedSame, SchedIs, FaultOnItsWay, OnItsWay, Starting
<1>23. CASE Queues
  BY <1>23, <1>t, <1>j, <1>s, LaneGrows DEF Queues, FaultOnItsWay, OnItsWay, Starting
<1>24. CASE StopTaken
  BY <1>24, <1>t, <1>j, <1>s DEF StopTaken, LifeIs, SchedIs, FaultOnItsWay, OnItsWay, Starting
<1>25. CASE Released
  BY <1>25, <1>t, <1>j, <1>s DEF Released, Marked, OthersKeep, LifeIs, FaultOnItsWay, OnItsWay, Starting
<1> QED BY <1>1, <1>2, <1>3, <1>4, <1>5, <1>6, <1>7, <1>8, <1>9, <1>10, <1>11, <1>12, <1>13, <1>14, <1>15, <1>16, <1>17, <1>18, <1>19, <1>20, <1>21, <1>22, <1>23, <1>24, <1>25 DEF Outcome

\* Initially, whatever the start of the daemon has left.
LEMMA InvariantHolds == Init => SupervisorInv
<1> SUFFICES ASSUME Init PROVE SupervisorInv
  OBVIOUS
<1>0. /\ calls = {} /\ epoch = 0 /\ stop = FALSE /\ lane = <<>> /\ accept = "serve" /\ AtRest(worker)
  BY IdleIs DEF Init, AtRest
<1>q. Queued = {} /\ lane \in Seq(Jobs) /\ DOMAIN lane = {}
  BY <1>0 DEF Queued
<1>1. ASSUME NEW state, NEW class, NEW g \in Nat, Bootstrap(state, class, g),
             (state = "running" => class = "none"), class \in {"none", "permanent", "transient"}
      PROVE  SupervisorInv
  <2> DEFINE pending == IF class = "transient" THEN Retry(g) ELSE Nothing
  <2>1. LifeIs(life, g, state, class, FALSE) /\ SchedIs(sched, g, FALSE, pending)
    BY <1>1, JobKinds DEF Bootstrap, LifeIs, LifeFields, SchedIs, IsSched
  <2> HIDE DEF pending
  <2>2. /\ health \in Seq(Health) /\ Len(health) = IF state = "running" THEN 1 ELSE 0
        /\ capture = IF state = "running" THEN 1 ELSE 0
        /\ state = "running" => /\ ~health[1].fault /\ health[1].sink = g /\ health[1].notified = Unbound
                                /\ health[1].armed /\ ~health[1].normalStop
    <3>1. CASE state = "running"
      <4> DEFINE h == Arm(Unarmed(g))
      <4>1. /\ h \in Health /\ ~h.fault /\ h.sink = g /\ h.notified = Unbound /\ h.armed /\ ~h.normalStop
        <5>1. /\ Unarmed(g) \in Health /\ ~Unarmed(g).fault /\ Unarmed(g).sink = g /\ Unarmed(g).notified = Unbound
              /\ ~Unarmed(g).normalStop
          BY UnboundFacts DEF Unarmed, Health
        <5>2. h = [Unarmed(g) EXCEPT !.armed = TRUE]
          BY <5>1 DEF Arm
        <5> DEFINE r == Unarmed(g)
        <5>3. r \in Health /\ ~r.fault /\ r.sink = g /\ r.notified = Unbound /\ ~r.normalStop /\ h = [r EXCEPT !.armed = TRUE]
          BY <5>1, <5>2
        <5> HIDE DEF r, h
        <5>4. 0 \in Int
          OBVIOUS
        <5>5. /\ [r EXCEPT !.armed = TRUE] \in Health /\ [r EXCEPT !.armed = TRUE].sink = r.sink
              /\ [r EXCEPT !.armed = TRUE].armed /\ [r EXCEPT !.armed = TRUE].fault = r.fault
              /\ [r EXCEPT !.armed = TRUE].normalStop = r.normalStop /\ [r EXCEPT !.armed = TRUE].notified = r.notified
          BY <5>3, <5>4, Rearmed
        <5> QED BY <5>3, <5>5
      <4> HIDE DEF h
      <4>2. health = <<h>> /\ capture = 1
        BY <1>1, <3>1 DEF Bootstrap, h
      <4> QED BY <3>1, <4>1, <4>2
    <3>2. CASE state # "running"
      BY <1>1, <3>2 DEF Bootstrap, None
    <3> QED BY <3>1, <3>2
  <2>3. /\ state = "running" => Attempts = {1}
        /\ state # "running" => Attempts = {}
    BY <2>2 DEF Attempts
  <2>4. SupervisorTypes
    BY <1>0, <1>q, <1>1, <2>1, <2>2, JobKinds, UnboundFacts
       DEF SupervisorTypes, LifeTypes, HealthTypes, JobTypes, WorkerTypes, LifeIs, SchedIs, IsAttempt, AtRest, WorkerIs, Places, None
  <2>5. /\ sched.pending = pending /\ sched.gen = g /\ life.gen = g /\ life.class = class /\ life.state = state /\ ~sched.stopped
        /\ ~life.stopping /\ worker.pc = "pop" /\ worker.job = Nothing /\ worker.cand = None /\ worker.old = None
    BY <1>0, <2>1 DEF LifeIs, SchedIs, AtRest, WorkerIs
  <2>6. /\ Now = Retry(g) /\ Now # Nothing /\ Now.gen = g /\ Now.kind = "retry" /\ Now.attempt = 0
        /\ Nothing.kind = "none" /\ Nothing.gen = 0
        /\ pending \in {Now, Nothing} /\ (pending = Now <=> class = "transient")
    BY ZenonT(30), <2>5, JobsDiffer, JobFields DEF Now, pending
  <2>7. Stopping /\ Operation
    BY <1>0, <1>1, <2>5, <2>6 DEF Stopping, Operation, OfRequest, OfRetry, Requests
  <2>8. Ownership
    BY <1>1, <2>2, <2>3, <2>5, <2>6 DEF Ownership, Owners, Running, NothingYet, OfRetry, None
  <2>9. Retries
    BY <1>0, <1>q, <1>1, <2>5, <2>6 DEF Retries, Timely, RetryOnce, RetryThere, Waits, Holds, OfRetry, OfRequest, Requests
  <2>10. Notified
    <3>1. Honest
      BY <1>0, <1>q, <2>5, <2>6 DEF Honest, Genuine
    <3>2. Unbound <= g /\ g >= Unbound /\ g <= g
      BY <1>1 DEF Unbound
    <3>3. Told
      BY <1>0, <2>2, <2>3, <2>5, <3>2 DEF Told
    <3> QED BY <3>1, <3>3 DEF Notified
  <2>11. Bound
    BY <1>0, <1>1, <2>2, <2>5 DEF Bound, None
  <2>12. FaultOnItsWay
    BY <2>2, <2>5 DEF FaultOnItsWay, None
  <2> QED BY <2>4, <2>7, <2>8, <2>9, <2>10, <2>11, <2>12 DEF SupervisorInv
<1> QED BY <1>1 DEF Init

\* Every step keeps it.
LEMMA InvariantKept == ASSUME SupervisorInv, [Next]_vars PROVE SupervisorInv'
<1>1. Outcome
  BY StepOutcome, StutterOutcome
<1> QED BY <1>1, LifeTyped, HealthTyped, JobsTyped, WorkerTyped, StoppingKept, OperationKept, OwnersKept, RunningKept,
           NothingYetKept, TimelyKept, RetryOnceKept, RetryThereKept, HonestKept, ToldKept, BoundKept, FaultKept
     DEF SupervisorInv, SupervisorTypes, Ownership, Retries, Notified

-----------------------------------------------------------------------------
(* The theorems                                                            *)

\* The inductive invariant: the types, who knows of the stop, where the worker is in its
\* operation, who owns a backend, where the retry of the current generation is, what
\* every job says, and the generation each sink is bound to (daemon.rs,
\* daemon_lifecycle.rs and capture_pipewire.rs).
THEOREM SupervisorInvariant == Spec => []SupervisorInv
BY InvariantHolds, InvariantKept, PTL DEF Spec

\* Every backend that has been started and not stopped is the daemon's capture or in the
\* worker's hands, through every failure, reload and shutdown, and none is left when
\* the daemon has returned.
THEOREM BackendsAreOwned == Spec => []NoOrphans
<1>1. SupervisorInv => NoOrphans
  BY DEF SupervisorInv, Ownership, Owners, Stopping, NoOrphans
<1> QED BY <1>1, SupervisorInvariant, PTL

\* The single slot of the scheduler and the bounded lane lose no retry of a backoff, keep
\* none that is unwanted, and lose the fault of a running capture only to another fault
\* of its generation.
THEOREM NotificationsAreKept == Spec => []NotificationsKept
<1>1. SupervisorInv => RetryOnItsWay
  BY DEF SupervisorInv, Retries, RetryThere, RetryOnItsWay, OnItsWay, Starting, Waits, Holds, Now
<1>2. SupervisorInv => NoUnwantedRetry
  <2> SUFFICES ASSUME SupervisorInv, life.class # "transient", worker.pc = "pop", OnItsWay(Retry(life.gen)) PROVE FALSE
    BY DEF NoUnwantedRetry
  <2>1. ~Waits /\ \A n \in calls : n.kind = "fault"
    BY DEF SupervisorInv, Retries, RetryOnce, Notified, Told
  <2>2. Retry(life.gen).kind = "retry"
    BY JobFields
  <2> QED BY <2>1, <2>2 DEF OnItsWay, Starting, Waits, Now
<1>3. SupervisorInv => FaultOnItsWay
  BY DEF SupervisorInv
<1> QED BY <1>1, <1>2, <1>3, SupervisorInvariant, PTL DEF NotificationsKept

\* A retry publishes a capture only in the backoff it was scheduled for, a fault removes
\* only the capture that failed, and nothing that was under way undoes a stop.
THEOREM StaleJobsAreHarmless == Spec => StaleJobsHarmless
<1>1. ASSUME SupervisorInv, [Next]_vars
      PROVE  /\ capture' \notin {capture, None} /\ worker.job.kind = "retry"
                    => life.class = "transient" /\ life.gen = worker.job.gen
             /\ capture' # capture /\ worker.pc = "fault" => health[capture].fault
             /\ life.stopping => life'.stopping /\ capture' \in {capture, None}
  <2>1. Outcome
    BY <1>1, StepOutcome, StutterOutcome
  <2>2. CASE Published
    <3>1. ~life.stopping /\ worker.pc = "publish" /\ ~stop
      BY <1>1, <2>2 DEF Published, SupervisorInv, Stopping
    <3>2. worker.job.kind = "retry" => worker.job = Now /\ life.class = "transient"
      BY <1>1, <3>1 DEF SupervisorInv, Retries, RetryOnce, OfRetry, Holds
    <3>3. Now.gen = life.gen
      BY JobFields DEF Now
    <3> QED BY <3>1, <3>2, <3>3
  <2>3. CASE Removed
    <3>1. worker.job.kind = "fault" /\ Genuine(worker.job) /\ capture = worker.job.attempt /\ capture' = None
      BY <1>1, <2>3 DEF Removed, SupervisorInv, Operation, Notified, Honest
    <3>2. health[capture].fault
      BY <3>1 DEF Genuine
    <3>3. life'.stopping <=> life.stopping
      BY <2>3 DEF Removed, LifeIs
    <3> QED BY <3>1, <3>2, <3>3
  <2>4. CASE ~Published /\ ~Removed
    <3>1. capture' \in {capture, None}
      BY <2>1, <2>4 DEF Outcome, Quits, GoesOn, Popped, Begun, Reboundings, Tokened, Detached, DropDone, Launched, LaunchFailed, Abandoned, ArmDone, Fatal, Faulted, Halted, RetryScheduled, FaultNoted, FaultTold, Submitted, Elsewhere, Queues, StopTaken, Released, Quiet
    <3>2. life.stopping => life'.stopping
      BY <2>1, <2>4 DEF Outcome, Quits, GoesOn, Popped, Begun, Reboundings, Tokened, Detached, DropDone, Launched, LaunchFailed, Abandoned, ArmDone, Fatal, Faulted, Halted, RetryScheduled, FaultNoted, FaultTold, Submitted, Elsewhere, Queues, StopTaken, Released, Quiet, LifeIs
    <3>3. capture' # capture => worker.pc # "fault"
      BY <2>1, <2>4 DEF Outcome, Quits, GoesOn, Popped, Begun, Reboundings, Tokened, Detached, DropDone, Launched, LaunchFailed, Abandoned, ArmDone, Fatal, Faulted, Halted, RetryScheduled, FaultNoted, FaultTold, Submitted, Elsewhere, Queues, StopTaken, Released, Quiet
    <3> QED BY <3>1, <3>2, <3>3
  <2> QED BY <2>2, <2>3, <2>4
<1>2. SupervisorInv /\ [Next]_vars
        => /\ [capture' \notin {capture, None} /\ worker.job.kind = "retry"
                  => life.class = "transient" /\ life.gen = worker.job.gen]_vars
           /\ [capture' # capture /\ worker.pc = "fault" => health[capture].fault]_vars
           /\ [life.stopping => life'.stopping /\ capture' \in {capture, None}]_vars
  BY <1>1
<1> QED BY <1>2, SupervisorInvariant, PTL DEF Spec, StaleJobsHarmless, RetryOnlyWhenWanted, FaultHitsItsOwn, StoppingForever
=============================================================================
