----------------------------- MODULE MCProtocols -----------------------------
(***************************************************************************)
(* Three protocols of the daemon that share no state, model-checked side   *)
(* by side with the fairness of their threads: the calibration store, the  *)
(* ownership of the control socket and the start of a PipeWire session.  A *)
(* behaviour is one of the protocol it starts with; the others stay in one *)
(* initial state.                                                          *)
(***************************************************************************)
EXTENDS CalibrationStore, ControlSocket, PipeWireStartup

CONSTANT Protocols   \* the protocols to explore

VARIABLE part

protocolVars == << part, storeVars, socketVars, pipewireVars >>

ProtocolsInit ==
    /\ part \in Protocols
    /\ StoreInit
    /\ IF part = "socket" THEN TRUE ELSE public = NoInode
    /\ SocketInit
    /\ IF part = "pipewire" THEN TRUE ELSE cfgTarget = CHOOSE t \in Targets : t.by = "id"
    /\ PipeWireInit

ProtocolsNext ==
    \/ part = "store" /\ StoreNext /\ UNCHANGED << part, socketVars, pipewireVars >>
    \/ part = "socket" /\ SocketNext /\ UNCHANGED << part, storeVars, pipewireVars >>
    \/ part = "pipewire" /\ PipeWireNext /\ UNCHANGED << part, storeVars, socketVars >>

\* The fairness of each protocol, while it is the one that runs.
Fairness ==
    /\ WF_storeVars(part = "store" /\ StoreWorker)
    /\ \A d \in Daemons : WF_socketVars(part = "socket" /\ Step(d))
    /\ WF_pipewireVars(part = "pipewire" /\ ThreadStep)
    /\ WF_pipewireVars(part = "pipewire" /\ BindingTimer)
    /\ WF_pipewireVars(part = "pipewire" /\ DestinationTimer)
    /\ WF_pipewireVars(part = "pipewire" /\ AwaitStartup)
    /\ WF_pipewireVars(part = "pipewire" /\ JoinThread)
    /\ WF_pipewireVars(part = "pipewire" /\ ServeRequest)

ProtocolsSpec == ProtocolsInit /\ [][ProtocolsNext]_protocolVars /\ Fairness

-----------------------------------------------------------------------------
(* The PipeWire graph: a device whose port names come in the reverse order, a
   monitor that has a port of the same name, the link factory, and input ports
   announced against the order of their port.id.                            *)

MCNode(id, name, class, monitor) ==
    [kind |-> "node", id |-> id, name |-> name, description |-> "none", class |-> class,
     monitor |-> monitor, rate |-> 48000, format |-> "F32LE"]
MCPort(id, node, dir, pid, name, audio) ==
    [kind |-> "port", id |-> id, node |-> node, dir |-> dir, pid |-> pid, name |-> name, audio |-> audio]

MCSources == << "left", "right" >>
MCTargets == { [by |-> "name", name |-> "mic", id |-> 0], [by |-> "id", name |-> "50", id |-> 50] }
MCDevices == [d \in 1..3 |->
    [node |-> MCNode(10 * d, "mic", "source", FALSE),
     ports |-> << MCPort(10 * d + 1, 10 * d, "out", 1, "right", TRUE),
                  MCPort(10 * d + 2, 10 * d, "out", 2, "left", TRUE) >>]]
MCOthers == << MCNode(50, "mic.monitor", "source", TRUE), MCPort(51, 50, "out", 1, "left", TRUE),
               [kind |-> "factory", id |-> 5] >>
MCStreamPorts == { MCPort(91, 90, "in", 2, "in2", TRUE), MCPort(92, 90, "in", 1, "in1", TRUE),
                   MCPort(93, 90, "in", 2, "in3", TRUE) }

-----------------------------------------------------------------------------
(* The properties of the protocols. *)

\* Whoever waits gets an answer: a calibration command of the store ends, a daemon
\* with a fatal error leaves accept and stops, and the caller of a PipeWire start or
\* stop returns while the connection is alive.
NobodyWaits == CommandEnds /\ FatalEnds /\ CallerAnswered
=============================================================================
