--------------------------- MODULE PipeWireStartup ---------------------------
(* A PipeWire capture session (capture_pipewire.rs): the target is resolved on
   one connection, then a thread resolves it again on its own connection,
   connects an inactive stream, waits for it to be bound and for its input
   ports, links every configured source port to one of them, activates the
   stream and reports that it is ready; from then on it runs until it is
   stopped or a listener records a fault.

   The server's messages reach the thread in order and its callbacks run
   inside mainloop.run() only.  A callback that calls quit() ends that call,
   after any further messages of the same iteration.  Device and server are
   external: they are modelled from what the callbacks are written for.      *)
EXTENDS Integers, Sequences, FiniteSets, SequencesExt

CONSTANTS
    Sources,      \* configured capture ports, in order
    Targets,      \* what cfg.target may be: [by, name, id]
    Devices,      \* device instance -> its globals: [node, ports]
    Others,       \* globals that are there all the time, in registry order
    StreamPorts,  \* input ports the server may create for the stream
    MaxChanges,   \* bound: times the device comes or goes
    MaxFaults     \* bound: errors the server reports of its own accord

VARIABLES
    cfgTarget,  \* cfg.target
    expected,   \* what the caller resolved: ResolvedTarget
    plugged,    \* the device instance that is present, 0 when there is none
    inputs,     \* input ports the stream has on the server
    stream,     \* the stream on the server: none, bound, paused
    links,      \* links the server made: <<source port, stream port>>
    wire,       \* messages on their way to the thread
    requests,   \* requests on their way to the server
    alive,      \* the server is there
    at,         \* where the thread is
    graph,      \* the registry as its listener knows it
    wake,       \* startup_wake is set
    readiness,  \* StreamBindingReadiness
    fault,      \* the fault of PipeWireHealth
    normalStop, \* normal_stop of PipeWireHealth
    done,       \* the answer of the running synchronize_core has come
    timedOut,   \* destination_timed_out
    quit,       \* quit() was called in this run of the main loop
    stopPipe,   \* a Stop command is in the channel
    answer,     \* what ready_sender sent, None before
    caller,     \* waiting, started, failed, stopping, stopped
    changes, serverFaults

server == << plugged, inputs, stream, links, alive, changes, serverFaults >>
health == << fault, normalStop >>
session == << stopPipe, caller, cfgTarget, expected >>
pipewireVars == << server, wire, requests, at, graph, wake, readiness, health, done, timedOut, quit,
                   session, answer >>

None == "none"
StreamNode == 90
Syncs == {"sync1", "sync2", "sync3", "sync4", "sync5"}
Running == Syncs \cup {"bind", "dest", "run"}   \* inside mainloop.run()

-----------------------------------------------------------------------------
(* Target resolution *)

NodeMatches(n, t) == (t.by = "id" /\ n.id = t.id) \/ n.name = t.name \/ n.description = t.name

(* is_input_source_node: an audio source that is no monitor. *)
IsInputSource(n) == n.class = "source" /\ ~n.monitor

\* The nodes a target matches; t.by is "any" where none is configured.
Selected(t, g) ==
    SelectSeq(g.nodes, LAMBDA n : IF t.by = "any" THEN IsInputSource(n) ELSE NodeMatches(n, t))

IsAudio(p) == p.audio   \* what is_audio_port finds in the formats

(* resolve_source_ports_typed for one configured source. *)
PortVerdict(node, name, g) ==
    LET named == SelectSeq(g.ports, LAMBDA p : p.name = name)
        mine == SelectSeq(named, LAMBDA p : p.node = node.id)
    IN  CASE Len(mine) > 1 -> "InvalidSelector"
          [] mine = <<>> /\ (\E k \in DOMAIN named : named[k].node = 0) -> "InvalidSelector"
          [] mine = <<>> -> "PortMissing"
          [] mine # <<>> /\ ~(mine[1].dir = "out" /\ IsAudio(mine[1]) /\ mine[1].pid # 0) -> "InvalidSelector"
          [] OTHER -> "ok"

PortNamed(node, name, g) ==
    LET p == SelectSeq(g.ports, LAMBDA q : q.name = name /\ q.node = node.id)[1]
    IN  [id |-> p.id, node |-> p.node, pid |-> p.pid, name |-> name]

Resolution(error, node, ports) == [error |-> error, node |-> node, ports |-> ports]
NoNode == [id |-> 0, rate |-> 0, name |-> None]

(* resolved_from_node *)
ResolvedFromNode(node, ports) ==
    IF ports = <<>> \/ node.rate = 0 \/ node.format # "F32LE"
    THEN Resolution("InvalidSelector", NoNode, <<>>)
    ELSE Resolution(None, [id |-> node.id, rate |-> node.rate, name |-> node.name], ports)

(* resolve_source_ports_typed: the first configured source that is wrong decides. *)
ResolveSources(node, g) ==
    LET wrong == { i \in DOMAIN Sources : PortVerdict(node, Sources[i], g) # "ok" }
        first == CHOOSE i \in wrong : \A j \in wrong : i <= j
    IN  CASE ~IsInjective(Sources) -> Resolution("InvalidSelector", NoNode, <<>>)
          [] IsInjective(Sources) /\ wrong # {} ->
                Resolution(PortVerdict(node, Sources[first], g), NoNode, <<>>)
          [] OTHER -> ResolvedFromNode(node, [i \in DOMAIN Sources |-> PortNamed(node, Sources[i], g)])

(* resolve_target_from_graph_typed *)
ResolveTarget(t, g) ==
    LET hits == Selected(t, g)
    IN  IF hits = <<>> THEN Resolution("TargetMissing", NoNode, <<>>)
        ELSE IF ~IsInputSource(hits[1]) THEN Resolution("InvalidSelector", NoNode, <<>>)
        ELSE ResolveSources(hits[1], g)

(* validate_startup_reresolution *)
Reresolved(fresh) ==
    IF fresh.error = None /\ fresh # expected THEN [fresh EXCEPT !.error = "TargetChanged"] ELSE fresh

-----------------------------------------------------------------------------
(* The registry listener *)

EmptyGraph == [nodes |-> <<>>, ports |-> <<>>, factory |-> 0]

GraphAdd(g, global) ==
    CASE global.kind = "node" -> [g EXCEPT !.nodes = Append(@, global)]
      [] global.kind = "port" -> [g EXCEPT !.ports = Append(@, global)]
      [] global.kind = "factory" -> [g EXCEPT !.factory = global.id]

(* remove_graph_global *)
GraphRemove(g, id) ==
    [nodes |-> SelectSeq(g.nodes, LAMBDA n : n.id # id),
     ports |-> SelectSeq(g.ports, LAMBDA p : p.id # id),
     factory |-> IF g.factory = id THEN 0 ELSE g.factory]

Added(globals) == [k \in DOMAIN globals |-> [ev |-> "global", global |-> globals[k]]]
Removed(globals) == [k \in DOMAIN globals |-> [ev |-> "remove", id |-> globals[k].id]]
DeviceGlobals(d) == IF d = 0 THEN <<>> ELSE << Devices[d].node >> \o Devices[d].ports

AsKnown(globals) == FoldLeft(GraphAdd, EmptyGraph, globals)

-----------------------------------------------------------------------------
(* Destination ports and the link plan *)

StreamInputs(g) == SelectSeq(g.ports, LAMBDA p : p.node = StreamNode /\ p.dir = "in")

(* The checks destination_readiness and plan_explicit_links both make. *)
WellFormed(ports) ==
    /\ \A k \in DOMAIN ports : ports[k].pid # 0 /\ IsAudio(ports[k])
    /\ \A j, k \in DOMAIN ports : ports[j].pid = ports[k].pid => j = k

DestinationReadiness(g) ==
    LET ports == StreamInputs(g)
    IN  CASE ~WellFormed(ports) \/ Len(ports) > Len(Sources) -> "Failed"
          [] WellFormed(ports) /\ Len(ports) < Len(Sources) -> "Pending"
          [] OTHER -> "Ready"

\* Mutant: the ports are paired in the order in which the registry announced them.
PlanLinksAsSeen(g) == [i \in DOMAIN Sources |-> << expected.ports[i].id, StreamInputs(g)[i].id >>]

(* plan_explicit_links: the sources in configured order, the stream's ports by
   port.id.  The fresh resolution equals the expected one here.             *)
Plannable(g) == WellFormed(StreamInputs(g)) /\ Len(StreamInputs(g)) = Len(Sources)
PlanLinks(g) ==
    LET byPid == SortSeq(StreamInputs(g), LAMBDA p, q : p.pid < q.pid)
    IN  [i \in DOMAIN Sources |-> << expected.ports[i].id, byPid[i].id >>]

-----------------------------------------------------------------------------
(* The server and the device (external) *)

Say(messages) == wire' = wire \o messages

\* The device goes away or another instance of it comes.
ReplugDevice ==
    /\ alive /\ changes < MaxChanges
    /\ plugged' = IF plugged = 0 THEN changes + 1 ELSE 0
    /\ Say(IF plugged = 0 THEN Added(DeviceGlobals(changes + 1)) ELSE Removed(DeviceGlobals(plugged)))
    /\ changes' = changes + 1
    /\ links' = SelectSeq(links, LAMBDA l : \A k \in DOMAIN DeviceGlobals(plugged) :
                                               DeviceGlobals(plugged)[k].id # l[1])
    /\ UNCHANGED << inputs, stream, alive, serverFaults, requests, at, graph, wake, readiness, health, done,
                    timedOut, quit, session, answer >>

AnnouncePort(p) ==
    /\ alive /\ stream # None /\ p \notin inputs
    /\ Cardinality(inputs) < Len(Sources) \/ serverFaults < MaxFaults
    /\ serverFaults' = IF Cardinality(inputs) < Len(Sources) THEN serverFaults ELSE serverFaults + 1
    /\ inputs' = inputs \cup {p}
    /\ Say(Added(<< p >>))
    /\ UNCHANGED << plugged, stream, links, alive, changes, requests, at, graph, wake, readiness, health,
                    done, timedOut, quit, session, answer >>

BindStream ==
    /\ alive /\ stream = "bound"
    /\ stream' = "paused"
    /\ Say(<< [ev |-> "paused"] >>)
    /\ UNCHANGED << plugged, inputs, links, alive, changes, serverFaults, requests, at, graph, wake, readiness,
                    health, done, timedOut, quit, session, answer >>

\* The server reports an error, drops the stream or goes away for good.
ServerFault(kind) ==
    /\ alive /\ serverFaults < MaxFaults
    /\ kind \in {"stream error", "unconnected"} => stream # None
    /\ kind = "link error" => links # <<>>
    /\ serverFaults' = serverFaults + 1
    /\ alive' = (kind # "connection lost")
    /\ stream' = IF kind = "unconnected" THEN None ELSE stream
    /\ Say(<< [ev |-> kind] >>)
    /\ UNCHANGED << plugged, inputs, links, changes, requests, at, graph, wake, readiness, health, done,
                    timedOut, quit, session, answer >>

PresentIds == { DeviceGlobals(plugged)[k].id : k \in DOMAIN DeviceGlobals(plugged) }
              \cup { p.id : p \in inputs }

\* A link between ports of which one is gone is refused with an error.
ServeRequest ==
    /\ alive /\ requests # <<>>
    /\ LET r == Head(requests)
           possible == r.req = "link" /\ r.from \in PresentIds /\ r.to \in PresentIds
       IN  /\ links' = IF possible THEN Append(links, << r.from, r.to >>) ELSE links
           /\ stream' = IF r.req = "connect" THEN "bound" ELSE stream
           /\ Say(CASE r.req = "sync" -> << [ev |-> "done", seq |-> r.seq] >>
                    [] r.req = "link" /\ ~possible -> << [ev |-> "core error"] >>
                    [] OTHER -> <<>>)
    /\ requests' = Tail(requests)
    /\ UNCHANGED << plugged, inputs, alive, changes, serverFaults, at, graph, wake, readiness, health, done,
                    timedOut, quit, session, answer >>

-----------------------------------------------------------------------------
(* The listeners, called by the main loop *)

(* record_fatal: the first fault is kept, none is after a normal stop. *)
RecordFatal(kind) == fault' = IF normalStop \/ fault # None THEN fault ELSE kind

(* StreamBindingReadiness::observe *)
Observe(ev) ==
    CASE ev \in {"stream error", "unconnected"} -> "Failed"
      [] ev = "paused" /\ readiness = "Pending" -> "Ready"
      [] OTHER -> readiness

(* One message: what the callback records and whether it calls quit(). *)
Dispatch ==
    /\ at \in Running /\ wire # <<>>
    /\ LET m == Head(wire)
       IN  /\ graph' = CASE m.ev = "global" -> GraphAdd(graph, m.global)
                         [] m.ev = "remove" -> GraphRemove(graph, m.id)
                         [] OTHER -> graph
           /\ readiness' = Observe(m.ev)
           /\ IF m.ev \in {"stream error", "unconnected", "link error", "core error", "connection lost"}
              THEN RecordFatal(m.ev) ELSE UNCHANGED fault
           /\ done' = (done \/ (m.ev = "done" /\ at \in Syncs /\ m.seq = at))
           /\ quit' = \/ quit
                      \/ m.ev \in {"global", "remove"} /\ wake
                      \/ m.ev \in {"stream error", "unconnected", "link error", "core error",
                                   "connection lost"}
                      \/ m.ev = "paused" /\ readiness' # readiness
                      \/ done' # done
    /\ wire' = Tail(wire)
    /\ UNCHANGED << server, requests, at, wake, normalStop, timedOut, session, answer >>

\* Mutant: the timer marks the binding as failed and leaves the loop running.
BindingTimerNoQuit ==
    /\ at = "bind" /\ readiness = "Pending"
    /\ readiness' = "Failed"
    /\ UNCHANGED << server, wire, requests, at, graph, wake, health, done, timedOut, quit, session, answer >>

(* The timer callbacks of the two startup waits. *)
BindingTimer ==
    /\ at = "bind"
    /\ readiness' = IF readiness = "Pending" THEN "Failed" ELSE readiness
    /\ quit' = TRUE
    /\ UNCHANGED << server, wire, requests, at, graph, wake, health, done, timedOut, session, answer >>

DestinationTimer ==
    /\ at = "dest" /\ ~timedOut
    /\ timedOut' = TRUE /\ quit' = TRUE
    /\ UNCHANGED << server, wire, requests, at, graph, wake, readiness, health, done, session, answer >>

(* The Stop command comes through the loop's own channel. *)
StopCommand ==
    /\ at \in Running /\ stopPipe
    /\ stopPipe' = FALSE /\ quit' = TRUE
    /\ UNCHANGED << server, wire, requests, at, graph, wake, readiness, health, done, timedOut, caller,
                    cfgTarget, expected, answer >>

-----------------------------------------------------------------------------
(* The thread between two runs of the main loop *)

(* An error that leaves run_pipewire_stream_loop is sent once; a send after
   the first answer goes to a receiver that is gone.  Links do not linger. *)
ThreadEnds(error) ==
    /\ at' = "ended"
    /\ answer' = IF answer = None THEN error ELSE answer
    /\ requests' = <<>> /\ links' = <<>> /\ inputs' = {} /\ stream' = None
    /\ UNCHANGED << wake, done, quit, timedOut >>

(* synchronize_core up to its first wait, after the given requests.  Its own
   look at the health repeats the one before it: no callback runs between.   *)
StartSync(k, asked) ==
    /\ at' = k
    /\ done' = FALSE /\ quit' = FALSE
    /\ requests' = requests \o asked \o << [req |-> "sync", seq |-> k] >>
    /\ UNCHANGED << links, inputs, stream, answer >>

StreamReady == readiness = "Ready"   \* ensure_stream_startup_ready

(* The capture thread connects; the registry announces what is there. *)
Connect ==
    /\ at = "start"
    /\ IF alive
       THEN /\ StartSync("sync1", <<>>)
            /\ wire' = Added(Others \o DeviceGlobals(plugged))
            /\ UNCHANGED << wake, timedOut >>
       ELSE ThreadEnds("capture error") /\ UNCHANGED wire
    /\ UNCHANGED << plugged, alive, changes, serverFaults, graph, readiness, health, session >>

\* The run of the main loop that waits for the answer ended: the loop in synchronize_core.
AgainSync ==
    /\ at \in Syncs /\ quit /\ ~done
    /\ quit' = FALSE
    /\ UNCHANGED << server, wire, requests, at, graph, wake, readiness, health, done, timedOut, session,
                    answer >>

Synced(k) == at = k /\ quit /\ done
Rest == << plugged, alive, changes, serverFaults, wire, graph, readiness, health, session >>

(* Re-resolution, the link factory, and the stream's connection. *)
AfterSync1 ==
    /\ Synced("sync1")
    /\ LET fresh == Reresolved(ResolveTarget(cfgTarget, graph))
       IN  IF fault # None \/ fresh.error # None \/ graph.factory = 0
           THEN ThreadEnds(IF fault = None /\ fresh.error # None THEN fresh.error ELSE "capture error")
           ELSE /\ at' = "bind" /\ wake' = TRUE /\ quit' = FALSE
                /\ requests' = Append(requests, [req |-> "connect"])
                /\ UNCHANGED << links, inputs, stream, answer, done, timedOut >>
    /\ UNCHANGED Rest

(* The loop that waits for the binding. *)
AfterBind ==
    /\ at = "bind" /\ quit
    /\ IF fault # None \/ readiness = "Failed"
       THEN ThreadEnds("capture error")
       ELSE IF readiness = "Pending"
            THEN quit' = FALSE /\ UNCHANGED << at, requests, links, inputs, stream, answer, wake, done, timedOut >>
            ELSE StartSync("sync2", <<>>) /\ wake' = FALSE /\ UNCHANGED timedOut
    /\ UNCHANGED Rest

AfterSync2 ==
    /\ Synced("sync2")
    /\ IF fault # None \/ ~StreamReady
       THEN ThreadEnds("capture error")
       ELSE /\ at' = "dest" /\ wake' = TRUE /\ timedOut' = FALSE
            /\ UNCHANGED << quit, done, requests, links, inputs, stream, answer >>
    /\ UNCHANGED Rest

(* evaluate_destination_startup *)
EvaluateDestination ==
    IF fault # None \/ ~StreamReady \/ timedOut THEN "Failed" ELSE DestinationReadiness(graph)

\* Mutant: startup_wake stays set when the ports are there.
AfterDestAwake ==
    /\ at = "dest" /\ quit
    /\ IF EvaluateDestination = "Failed"
       THEN ThreadEnds("capture error")
       ELSE IF EvaluateDestination = "Pending"
            THEN quit' = FALSE /\ UNCHANGED << at, requests, links, inputs, stream, answer, wake, done, timedOut >>
            ELSE StartSync("sync3", <<>>) /\ UNCHANGED << wake, timedOut >>
    /\ UNCHANGED Rest

(* The loop that waits for the destination ports. *)
AfterDest ==
    /\ at = "dest" /\ quit
    /\ IF EvaluateDestination = "Failed"
       THEN ThreadEnds("capture error")
       ELSE IF EvaluateDestination = "Pending"
            THEN quit' = FALSE /\ UNCHANGED << at, requests, links, inputs, stream, answer, wake, done, timedOut >>
            ELSE StartSync("sync3", <<>>) /\ wake' = FALSE /\ UNCHANGED timedOut
    /\ UNCHANGED Rest

(* The plan is made from the graph as it is now and every link is requested. *)
AfterSync3 ==
    /\ Synced("sync3")
    /\ IF fault # None \/ ~StreamReady \/ ~Plannable(graph)
       THEN ThreadEnds("capture error")
       ELSE /\ StartSync("sync4", [i \in DOMAIN Sources |->
                   [req |-> "link", from |-> PlanLinks(graph)[i][1], to |-> PlanLinks(graph)[i][2]]])
            /\ UNCHANGED << wake, timedOut >>
    /\ UNCHANGED Rest

AfterSync4 ==
    /\ Synced("sync4")
    /\ IF fault # None \/ ~StreamReady
       THEN ThreadEnds("capture error")
       ELSE StartSync("sync5", << [req |-> "activate"] >>) /\ UNCHANGED << wake, timedOut >>
    /\ UNCHANGED Rest

(* Ready is sent and the main loop entered. *)
AfterSync5 ==
    /\ Synced("sync5")
    /\ IF fault # None \/ ~StreamReady
       THEN ThreadEnds("capture error")
       ELSE /\ at' = "run" /\ quit' = FALSE /\ answer' = "ready"
            /\ UNCHANGED << wake, done, timedOut, requests, links, inputs, stream >>
    /\ UNCHANGED Rest

AfterRun ==
    /\ at = "run" /\ quit
    /\ ThreadEnds("capture error")
    /\ UNCHANGED Rest

(* A call into the library fails where the thread was going on to its next
   wait: the loop, the connection and the registry; the stream, its connection
   or a timer; a link, the activation, or the request for a synchronization.  *)
LocalFails ==
    /\ fault = None
    /\ \/ at = "start"
       \/ /\ Synced("sync1") /\ graph.factory # 0
          /\ Reresolved(ResolveTarget(cfgTarget, graph)).error = None
       \/ at = "bind" /\ quit /\ StreamReady
       \/ at = "dest" /\ quit /\ EvaluateDestination = "Ready"
       \/ StreamReady /\ \E k \in {"sync2", "sync3", "sync4"} : Synced(k)
    /\ ThreadEnds("capture error")
    /\ UNCHANGED Rest

-----------------------------------------------------------------------------
(* The caller: start_with_resolved, await_pipewire_startup and stop_inner *)

AwaitStartup ==
    /\ caller = "waiting" /\ answer # None
    /\ answer = "ready" \/ at = "ended"   \* an error joins the thread
    /\ caller' = IF answer = "ready" THEN "started" ELSE "failed"
    /\ UNCHANGED << server, wire, requests, at, graph, wake, readiness, health, done, timedOut, quit,
                    stopPipe, cfgTarget, expected, answer >>

StopInner ==
    /\ caller = "started"
    /\ normalStop' = TRUE /\ stopPipe' = TRUE
    /\ caller' = "stopping"
    /\ UNCHANGED << server, wire, requests, at, graph, wake, readiness, fault, done, timedOut, quit,
                    cfgTarget, expected, answer >>

JoinThread ==
    /\ caller = "stopping" /\ at = "ended"
    /\ caller' = "stopped"
    /\ UNCHANGED << server, wire, requests, at, graph, wake, readiness, health, done, timedOut, quit,
                    stopPipe, cfgTarget, expected, answer >>

-----------------------------------------------------------------------------
(* resolve_target_typed ran against the graph with the first device instance. *)
PipeWireInit ==
    /\ cfgTarget \in Targets
    /\ expected = ResolveTarget(cfgTarget, AsKnown(Others \o DeviceGlobals(1)))
    /\ plugged = 1 /\ changes = 1 /\ serverFaults = 0 /\ alive = TRUE
    /\ inputs = {} /\ stream = None /\ links = <<>> /\ wire = <<>> /\ requests = <<>>
    /\ IF expected.error = None THEN at = "start" /\ caller = "waiting"
                                ELSE at = "ended" /\ caller = "failed"
    /\ graph = EmptyGraph /\ wake = FALSE /\ readiness = "Pending"
    /\ fault = None /\ normalStop = FALSE
    /\ done = FALSE /\ timedOut = FALSE /\ quit = FALSE
    /\ stopPipe = FALSE /\ answer = None

Faults == {"core error", "stream error", "unconnected", "link error", "connection lost"}

ServerStep ==
    /\ at # "ended"
    /\ \/ ReplugDevice
       \/ BindStream
       \/ ServeRequest
       \/ \E p \in StreamPorts : AnnouncePort(p)
       \/ \E kind \in Faults : (at = "start" => kind = "connection lost") /\ ServerFault(kind)

ThreadStep ==
    \/ Connect \/ AgainSync \/ AfterSync1 \/ AfterBind \/ AfterSync2 \/ AfterDest
    \/ AfterSync3 \/ AfterSync4 \/ AfterSync5 \/ AfterRun
    \/ Dispatch \/ StopCommand

PipeWireNext ==
    \/ ServerStep
    \/ ThreadStep \/ LocalFails \/ BindingTimer \/ DestinationTimer
    \/ AwaitStartup \/ StopInner \/ JoinThread

(* A thread runs, a timer fires and a server that is there answers; it need
   not bind the stream nor announce its ports.                              *)
PipeWireFairness ==
    /\ WF_pipewireVars(ThreadStep)
    /\ WF_pipewireVars(BindingTimer) /\ WF_pipewireVars(DestinationTimer)
    /\ WF_pipewireVars(AwaitStartup) /\ WF_pipewireVars(JoinThread)
    /\ WF_pipewireVars(ServeRequest)

PipeWireSpec == PipeWireInit /\ [][PipeWireNext]_pipewireVars /\ PipeWireFairness
-----------------------------------------------------------------------------
(* A session that is reported as started was linked completely and in order:
   the server made one link for every configured source, of the device instance
   the caller resolved, to the stream port of the same rank by port.id, and
   nothing that has gone wrong by then was overlooked.  Ports come in any
   order, the device may be replugged at any time and links are requested
   without waiting for one another.  (start_with_resolved returns Ok.)        *)
LinkedInOrder ==
    [][ answer' = "ready" /\ answer # "ready" =>
          /\ fault = None
          /\ \A k \in DOMAIN links :
                /\ links[k][1] \in { expected.ports[i].id : i \in DOMAIN Sources }
                /\ \A i \in DOMAIN Sources : links[k][1] = expected.ports[i].id =>
                      \E p \in inputs : /\ p.id = links[k][2]
                                        /\ Cardinality({ q \in inputs : q.pid < p.pid }) = i - 1
          /\ plugged = 1 => Len(links) = Len(Sources) ]_pipewireVars

(* A session that was reported as started ends because it was stopped or
   because of a fault its health has recorded, never silently: no late wake-up
   of the startup waits may end the loop that runs it.                       *)
EndsForCause == answer = "ready" /\ at = "ended" => fault # None \/ normalStop

(* A start is answered and a stop joins the thread, whatever the stream, the
   ports and the device do, as long as the server is there: synchronize_core
   has no timer, so a connection lost during a startup leaves it waiting.    *)
CallerAnswered ==
    /\ caller = "waiting" ~> (caller # "waiting" \/ ~alive)
    /\ caller = "stopping" ~> caller = "stopped"
=============================================================================
