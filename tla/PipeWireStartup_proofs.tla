------------------------ MODULE PipeWireStartup_proofs ------------------------
(* A started PipeWire session ends for a cause, for any device, any ports, any
   number of device changes and server faults, and any target. *)
EXTENDS PipeWireStartup, TLAPS

-----------------------------------------------------------------------------
(* The inductive invariant *)

Stages == {"start", "bind", "dest", "run", "ended"} \cup Syncs

\* The stages from the first wait for the server after the stream was bound.
AfterBinding == {"sync2", "dest", "sync3", "sync4", "sync5", "run"}

\* The stages in which startup_wake has been cleared for good.
Awake == {"sync3", "sync4", "sync5", "run"}

\* Ready is sent when the main loop is entered, and only a loop that ran has sent it.
AnsweredLate == at \in Stages /\ (answer = "ready" => at \in {"run", "ended"})

\* Neither a graph event nor a late stream event can wake the running session.
NothingWakes ==
    /\ at \in Awake => ~wake
    /\ at \in AfterBinding => readiness # "Pending"
    /\ done \in BOOLEAN

\* Whoever made the running loop quit left a fault or asked for the stop.
QuitForCause ==
    /\ at = "run" /\ quit => fault # None \/ normalStop
    /\ stopPipe => normalStop

CauseInv == AnsweredLate /\ NothingWakes /\ QuitForCause /\ EndsForCause

-----------------------------------------------------------------------------
(* Errors are not mistaken for readiness *)

(* What resolve_source_ports_typed says of a configured source is "ok" or an error. *)
LEMMA VerdictIsNoAnswer ==
    ASSUME NEW node, NEW name, NEW g
    PROVE  PortVerdict(node, name, g) # "ready"
BY DEF PortVerdict

(* resolved_from_node returns a resolution. *)
LEMMA FromNodeIsNoAnswer ==
    ASSUME NEW node, NEW ports
    PROVE  \E e, n, p : ResolvedFromNode(node, ports) = Resolution(e, n, p) /\ e # "ready"
BY DEF ResolvedFromNode, None

(* resolve_source_ports_typed returns a resolution. *)
LEMMA SourcesAreNoAnswer ==
    ASSUME NEW node, NEW g
    PROVE  \E e, n, p : ResolveSources(node, g) = Resolution(e, n, p) /\ e # "ready"
<1> DEFINE wrong == { i \in DOMAIN Sources : PortVerdict(node, Sources[i], g) # "ok" }
           first == CHOOSE i \in wrong : \A j \in wrong : i <= j
           ports == [i \in DOMAIN Sources |-> PortNamed(node, Sources[i], g)]
<1>1. ResolveSources(node, g) =
        CASE ~IsInjective(Sources) -> Resolution("InvalidSelector", NoNode, <<>>)
          [] IsInjective(Sources) /\ wrong # {} ->
                Resolution(PortVerdict(node, Sources[first], g), NoNode, <<>>)
          [] OTHER -> ResolvedFromNode(node, ports)
  BY DEF ResolveSources
<1>2. PortVerdict(node, Sources[first], g) # "ready"
  BY VerdictIsNoAnswer
<1>3. \E e, n, p : ResolvedFromNode(node, ports) = Resolution(e, n, p) /\ e # "ready"
  BY FromNodeIsNoAnswer
<1> HIDE DEF wrong, first, ports
<1> QED BY <1>1, <1>2, <1>3

(* resolve_target_from_graph_typed returns a resolution, whatever the graph. *)
LEMMA TargetIsNoAnswer ==
    ASSUME NEW t, NEW g
    PROVE  \E e, n, p : ResolveTarget(t, g) = Resolution(e, n, p) /\ e # "ready"
<1> DEFINE hits == Selected(t, g)
<1>1. ResolveTarget(t, g) =
        IF hits = <<>> THEN Resolution("TargetMissing", NoNode, <<>>)
        ELSE IF ~IsInputSource(hits[1]) THEN Resolution("InvalidSelector", NoNode, <<>>)
        ELSE ResolveSources(hits[1], g)
  BY DEF ResolveTarget
<1>2. \E e, n, p : ResolveSources(hits[1], g) = Resolution(e, n, p) /\ e # "ready"
  BY SourcesAreNoAnswer
<1> HIDE DEF hits
<1> QED BY <1>1, <1>2

(* The error a re-resolution ends the thread with is not the answer "ready". *)
LEMMA ErrorIsNoAnswer ==
    ASSUME NEW t, NEW g
    PROVE  Reresolved(ResolveTarget(t, g)).error # "ready"
<1>1. PICK e, n, p : ResolveTarget(t, g) = Resolution(e, n, p) /\ e # "ready"
  BY TargetIsNoAnswer
<1>2. Resolution(e, n, p).error # "ready"
  BY <1>1 DEF Resolution
<1>3. [Resolution(e, n, p) EXCEPT !.error = "TargetChanged"].error = "TargetChanged"
  BY DEF Resolution
<1> QED BY <1>1, <1>2, <1>3 DEF Reresolved

-----------------------------------------------------------------------------
(* The invariant is inductive *)

(* A thread that ends with an error before it answered answers that error. *)
LEMMA EndingKeeps ==
    ASSUME CauseInv, at \in Stages \ {"run", "ended"}, NEW error, error # "ready",
           ThreadEnds(error), stopPipe' = stopPipe, normalStop' = normalStop
    PROVE  CauseInv'
BY DEF CauseInv, AnsweredLate, NothingWakes, QuitForCause, EndsForCause, ThreadEnds, Stages, Syncs,
       AfterBinding, Awake, None

(* What neither the server nor the caller may touch stays, so the invariant does. *)
LEMMA OutsideKeeps ==
    ASSUME CauseInv, UNCHANGED << at, wake, readiness, fault, done, quit, answer >>,
           normalStop => normalStop', stopPipe' => stopPipe \/ normalStop'
    PROVE  CauseInv'
BY DEF CauseInv, AnsweredLate, NothingWakes, QuitForCause, EndsForCause

(* The server and the device only send messages. *)
LEMMA ServerKeeps ==
    ASSUME CauseInv, ServerStep
    PROVE  CauseInv'
<1>1. UNCHANGED << at, wake, readiness, fault, done, quit, answer, normalStop, stopPipe >>
  BY DEF ServerStep, ReplugDevice, BindStream, ServeRequest, AnnouncePort, ServerFault, health, session
<1> QED BY <1>1, OutsideKeeps

(* The caller stops a session only after it has set normal_stop. *)
LEMMA CallerKeeps ==
    ASSUME CauseInv, AwaitStartup \/ StopInner \/ JoinThread
    PROVE  CauseInv'
<1>1. UNCHANGED << at, wake, readiness, fault, done, quit, answer >>
  BY DEF AwaitStartup, StopInner, JoinThread, health
<1>2. (normalStop => normalStop') /\ (stopPipe' => stopPipe \/ normalStop')
  BY DEF AwaitStartup, StopInner, JoinThread, health
<1> QED BY <1>1, <1>2, OutsideKeeps

(* The main loop while the session runs: a callback that quits has recorded a
   fault or comes after a normal stop. *)
LEMMA DispatchKeeps ==
    ASSUME CauseInv, Dispatch
    PROVE  CauseInv'
<1> DEFINE ev == Head(wire).ev
           fatal == {"stream error", "unconnected", "link error", "core error", "connection lost"}
<1>1. UNCHANGED << at, wake, normalStop, stopPipe, answer >>
  BY DEF Dispatch, session
<1>2. fault # None => fault' = fault
  BY DEF Dispatch, RecordFatal
<1>3. ev \in fatal => fault' # None \/ normalStop
  BY DEF Dispatch, RecordFatal, None
<1>4. readiness # "Pending" => readiness' # "Pending" /\ (ev = "paused" => readiness' = readiness)
  BY DEF Dispatch, Observe
<1>5. done' \in BOOLEAN /\ (done' # done => at \in Syncs)
  <2>1. done \in BOOLEAN
    BY DEF CauseInv, NothingWakes
  <2>2. PICK more \in BOOLEAN : done' = (done \/ more) /\ (more => at \in Syncs)
    BY DEF Dispatch
  <2> QED BY <2>1, <2>2
<1>6. quit' => \/ quit
               \/ ev \in {"global", "remove"} /\ wake
               \/ ev \in fatal
               \/ ev = "paused" /\ readiness' # readiness
               \/ done' # done
  BY DEF Dispatch
<1> HIDE DEF ev, fatal
<1>7. AnsweredLate' /\ NothingWakes'
  BY <1>1, <1>4, <1>5 DEF CauseInv, AnsweredLate, NothingWakes
<1>8. QuitForCause'
  BY <1>1, <1>2, <1>3, <1>4, <1>5, <1>6 DEF CauseInv, QuitForCause, NothingWakes, AfterBinding, Awake, Syncs
<1>9. EndsForCause'
  BY <1>1, <1>2 DEF CauseInv, EndsForCause
<1> QED BY <1>7, <1>8, <1>9 DEF CauseInv

(* The timers fire before the session runs, Stop comes after normal_stop. *)
LEMMA QuitKeeps ==
    ASSUME CauseInv, BindingTimer \/ DestinationTimer \/ StopCommand
    PROVE  CauseInv'
<1>1. CASE BindingTimer
  BY <1>1 DEF BindingTimer, CauseInv, AnsweredLate, NothingWakes, QuitForCause, EndsForCause, health,
              session, AfterBinding, Awake
<1>2. CASE DestinationTimer
  BY <1>2 DEF DestinationTimer, CauseInv, AnsweredLate, NothingWakes, QuitForCause, EndsForCause, health,
              session
<1>3. CASE StopCommand
  BY <1>3 DEF StopCommand, CauseInv, AnsweredLate, NothingWakes, QuitForCause, EndsForCause, health
<1> QED BY <1>1, <1>2, <1>3

(* The startup goes on from one wait to the next, or ends with an error. *)
LEMMA ThreadKeeps ==
    ASSUME CauseInv,
           Connect \/ AgainSync \/ AfterSync1 \/ AfterBind \/ AfterSync2 \/ AfterDest
             \/ AfterSync3 \/ AfterSync4 \/ AfterSync5 \/ AfterRun \/ LocalFails
    PROVE  CauseInv'
<1> USE DEF CauseInv, AnsweredLate, NothingWakes, QuitForCause, EndsForCause, Stages, Syncs, AfterBinding,
            Awake, None, health, session, StartSync, Synced, Rest
<1>1. CASE Connect
  <2>1. CASE alive
    BY <1>1, <2>1 DEF Connect
  <2>2. CASE ~alive
    BY <1>1, <2>2, EndingKeeps DEF Connect
  <2> QED BY <2>1, <2>2
<1>2. CASE AgainSync
  BY <1>2 DEF AgainSync
<1>3. CASE AfterSync1
  <2> DEFINE fresh == Reresolved(ResolveTarget(cfgTarget, graph))
             stop == fault # None \/ fresh.error # None \/ graph.factory = 0
             error == IF fault = None /\ fresh.error # None THEN fresh.error ELSE "capture error"
  <2>1. error # "ready"
    BY ErrorIsNoAnswer
  <2>2. IF stop THEN ThreadEnds(error) ELSE at' = "bind" /\ wake' = TRUE /\ quit' = FALSE
                                              /\ UNCHANGED << answer, done >>
    BY <1>3 DEF AfterSync1
  <2>3. at = "sync1" /\ UNCHANGED << readiness, fault, normalStop, stopPipe >>
    BY <1>3 DEF AfterSync1
  <2> HIDE DEF fresh, stop, error
  <2>4. CASE stop
    BY <2>1, <2>2, <2>3, <2>4, EndingKeeps
  <2>5. CASE ~stop
    BY <2>2, <2>3, <2>5
  <2> QED BY <2>4, <2>5
<1>4. CASE AfterBind
  <2>1. CASE fault # None \/ readiness = "Failed"
    BY <1>4, <2>1, EndingKeeps DEF AfterBind
  <2>2. CASE ~(fault # None \/ readiness = "Failed")
    BY <1>4, <2>2 DEF AfterBind
  <2> QED BY <2>1, <2>2
<1>5. CASE AfterSync2
  <2>1. CASE fault # None \/ ~StreamReady
    BY <1>5, <2>1, EndingKeeps DEF AfterSync2
  <2>2. CASE ~(fault # None \/ ~StreamReady)
    BY <1>5, <2>2 DEF AfterSync2
  <2> QED BY <2>1, <2>2
<1>6. CASE AfterDest
  <2>1. CASE EvaluateDestination = "Failed"
    BY <1>6, <2>1, EndingKeeps DEF AfterDest
  <2>2. CASE EvaluateDestination # "Failed"
    BY <1>6, <2>2 DEF AfterDest
  <2> QED BY <2>1, <2>2
<1>7. CASE AfterSync3
  <2> DEFINE stop == fault # None \/ ~StreamReady \/ ~Plannable(graph)
  <2>1. IF stop THEN ThreadEnds("capture error")
        ELSE at' = "sync4" /\ quit' = FALSE /\ done' = FALSE /\ UNCHANGED << answer, wake >>
    BY <1>7 DEF AfterSync3
  <2>2. at = "sync3" /\ UNCHANGED << readiness, fault, normalStop, stopPipe >>
    BY <1>7 DEF AfterSync3
  <2> HIDE DEF stop
  <2>3. CASE stop
    BY <2>1, <2>2, <2>3, EndingKeeps
  <2>4. CASE ~stop
    BY <2>1, <2>2, <2>4
  <2> QED BY <2>3, <2>4
<1>8. CASE AfterSync4
  <2>1. CASE fault # None \/ ~StreamReady
    BY <1>8, <2>1, EndingKeeps DEF AfterSync4
  <2>2. CASE ~(fault # None \/ ~StreamReady)
    BY <1>8, <2>2 DEF AfterSync4
  <2> QED BY <2>1, <2>2
<1>9. CASE AfterSync5
  <2>1. CASE fault # None \/ ~StreamReady
    BY <1>9, <2>1, EndingKeeps DEF AfterSync5
  <2>2. CASE ~(fault # None \/ ~StreamReady)
    BY <1>9, <2>2 DEF AfterSync5
  <2> QED BY <2>1, <2>2
<1>10. CASE AfterRun
  BY <1>10 DEF AfterRun, ThreadEnds
<1>11. CASE LocalFails
  <2>1. at \in Stages \ {"run", "ended"}
    BY <1>11 DEF LocalFails
  <2>2. ThreadEnds("capture error") /\ UNCHANGED << stopPipe, normalStop >>
    BY <1>11 DEF LocalFails
  <2> QED BY <2>1, <2>2, EndingKeeps
<1> QED BY <1>1, <1>2, <1>3, <1>4, <1>5, <1>6, <1>7, <1>8, <1>9, <1>10, <1>11

(* The invariant holds at the start and is kept by every step. *)
LEMMA CauseInductive ==
    /\ PipeWireInit => CauseInv
    /\ CauseInv /\ [PipeWireNext]_pipewireVars => CauseInv'
<1>1. PipeWireInit => CauseInv
  BY DEF PipeWireInit, CauseInv, AnsweredLate, NothingWakes, QuitForCause, EndsForCause, Stages, Syncs,
         AfterBinding, Awake, None
<1>2. ASSUME CauseInv, PipeWireNext PROVE CauseInv'
  BY <1>2, ServerKeeps, CallerKeeps, DispatchKeeps, QuitKeeps, ThreadKeeps DEF PipeWireNext, ThreadStep
<1>3. ASSUME CauseInv, UNCHANGED pipewireVars PROVE CauseInv'
  BY <1>3, OutsideKeeps DEF pipewireVars, health, session
<1> QED BY <1>1, <1>2, <1>3

(* A session that was reported as started ends because it was stopped or because
   of a fault its health has recorded, for every device, target and schedule. *)
THEOREM SessionEndsForCause == PipeWireSpec => []EndsForCause
<1>1. CauseInv => EndsForCause
  BY DEF CauseInv
<1> QED BY <1>1, CauseInductive, PTL DEF PipeWireSpec
=============================================================================
