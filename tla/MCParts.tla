------------------------------- MODULE MCParts -------------------------------
(***************************************************************************)
(* Five parts of the daemon that share no state, model-checked side by     *)
(* side: the operation lane, the calibration artifacts, the capture        *)
(* runtime with its sample ring, the export policy, and the capture queue  *)
(* with its calibration.  A behaviour is one of the part it starts with;   *)
(* the others stay in one initial state.                                   *)
(***************************************************************************)
EXTENDS OperationLane, CalibrationArtifacts, CaptureRuntime, ExportPolicy, IngressQueue

CONSTANT Parts   \* the parts to explore

VARIABLE part

partVars == << part, vars, artifactVars, runtimeVars, exportVars, ingressVars >>

PartsInit ==
    /\ part \in Parts
    /\ Init
    /\ IF part = "artifacts" THEN TRUE
       ELSE port = (CHOOSE p \in Ports : TRUE) /\ device = (CHOOSE d \in Devices : TRUE)
    /\ ArtifactsInit
    /\ IF part = "runtime" THEN TRUE ELSE params = CHOOSE p \in Params : TRUE
    /\ RuntimeInit
    /\ ExportInit
    /\ IngressInit

PartsNext ==
    \/ part = "lane" /\ Next /\ UNCHANGED << part, artifactVars, runtimeVars, exportVars, ingressVars >>
    \/ part = "artifacts" /\ ArtifactsNext /\ UNCHANGED << part, vars, runtimeVars, exportVars, ingressVars >>
    \/ part = "runtime" /\ RuntimeNext /\ UNCHANGED << part, vars, artifactVars, exportVars, ingressVars >>
    \/ part = "export" /\ ExportNext /\ UNCHANGED << part, vars, artifactVars, runtimeVars, ingressVars >>
    \/ part = "ingress" /\ IngressNext /\ UNCHANGED << part, vars, artifactVars, runtimeVars, exportVars >>

\* The fairness of the lane's and the queue's threads (FairSpec of OperationLane,
\* IngressFairness), while theirs is the part that runs.
PartsFairness ==
    /\ WF_vars(part = "lane" /\ Pop)
    /\ WF_vars(part = "lane" /\ Close)
    /\ \A p \in Producers : WF_vars(part = "lane" /\ (EnqueueLoadClosed(p) \/ EnqueueAdmit(p)))
    /\ WF_ingressVars(part = "ingress" /\ Push)
    /\ WF_ingressVars(part = "ingress" /\ CaptureWorker)
    /\ WF_ingressVars(part = "ingress" /\ Client)
    /\ WF_ingressVars(part = "ingress" /\ (Submit \/ Classify \/ Join))

PartsSpec == PartsInit /\ [][PartsNext]_partVars /\ PartsFairness

-----------------------------------------------------------------------------
(* Configured inputs, devices and what a calibration may hear *)

MCPort(b, t, n, s) == [backend |-> b, target |-> t, name |-> n, source |-> s]
MCPorts == {MCPort("pipewire", "card", "mic", <<"FL">>), MCPort("pipewire", "", "mic", <<"FL">>),
            MCPort("jack", "", "mic", <<"sys", "in1">>), MCPort("jack", "", "mic", <<"sys">>)}
MCDevice(s, p, n) == [serial |-> s, path |-> p, node |-> n, ports |-> << <<"FL">> >>]
MCDevices == {MCDevice("s1", "p1", "n1"), MCDevice("", "p1", "n1"), MCDevice("", "", "")}
MCObs(f, w, l, q, h, p, sp) == [frames |-> f, windows |-> w, loud |-> l, quietRms |-> q,
                                loudRms |-> h, peak |-> p, samplePeak |-> sp]
MCCaptures == {MCObs(60, 20, 1, 2, 3, 3, 3), MCObs(60, 20, 0, 5, 5, 5, 5),
               MCObs(40, 20, 2, 1, 4, 4, 5), MCObs(90, 20, 1, 2, 3, 3, 3), MCObs(60, 20, 1, 3, 2, 4, 3)}

-----------------------------------------------------------------------------
(* Sessions: chunks that divide the retention and chunks that do not, several
   parts per channel, limits met and missed, sums and products beyond the word,
   a chunk of no frames, an I/O buffer the workspace refuses. *)

MCParams(seconds, rate, chunk, channels, split, headroom, maximum, calibration) ==
    [seconds |-> seconds, rate |-> rate, chunk |-> chunk, channels |-> channels,
     split |-> split, io |-> 6, path |-> 9, queue |-> 2, controls |-> 2, stack |-> 5000,
     headroom |-> headroom, maximum |-> maximum, calibration |-> calibration]
MCRatio(n, d) == [num |-> n, den |-> d]
MCParamSets ==
    LET unset == Unset
    IN  {MCParams(2, 2, 2, 1, 50, MCRatio(1, 1), unset, 0), MCParams(3, 1, 2, 1, 53, MCRatio(5, 4), 400000, 2),
         MCParams(1, 2, 1, 2, 47, MCRatio(1, 1), unset, 1), MCParams(2, 2, unset, 1, 46, MCRatio(1, 1), unset, 1),
         MCParams(2, 2, 1, 2, 53, MCRatio(5, 4), 100000, 1), MCParams(2, 2, 1, 2, 53, MCRatio(9, 1), unset, 30),
         MCParams(700, 30, 10, 3, 5000, MCRatio(1, 1), unset, 3),
         MCParams(2, 4000, 500, 30, 50000, MCRatio(1, 1), unset, 1),
         MCParams(2, 2, 1, 2, 53, MCRatio(1, 2), unset, 1), MCParams(2, 2, 1, 2, 53, MCRatio(1, 1), unset, 31),
         MCParams(2, 2, 0, 1, 50, MCRatio(1, 1), unset, 0),
         [MCParams(1, 2, 1, 1, 50, MCRatio(1, 1), unset, 0) EXCEPT !.io = 2]}

-----------------------------------------------------------------------------
(* Profiles and recordings.  One frame is a millisecond at SampleRate = 1000;
   with windows of two frames at every frame, a sustained time of three and a
   preroll of one, overlapping windows, windows cut short and a crop all happen
   within four frames.                                                       *)

MCName(bytes, safe) == [bytes |-> bytes, safe |-> safe]
MCChannel(mode, threshold) == [mode |-> mode, threshold |-> threshold, name |-> MCName(4, TRUE)]
MCProfile(silence, mode, detector, ports, layout) ==
    [silence |-> silence, defaultMode |-> mode, detector |-> detector, ports |-> ports,
     layout |-> layout, complete |-> TRUE, legacy |-> FALSE,
     directory |-> Pattern({"profile"}, 1), filename |-> Pattern({"channel", "startFrame"}, 4)]
MCWindowed(ports, layout) == MCProfile("none", "unset", "unset", ports, layout)
MCNone == NoThreshold

\* Threshold 8 is an ordinary one, 4 the one whose closing level is -120 dBFS.
MCMono == { MCWindowed(<< MCChannel("unset", t) >>, "command-default") : t \in {MCNone, 4, 8} }
MCStereo ==
    { MCWindowed(<< MCChannel("unset", 8), MCChannel(m, 8) >>, "custom") : m \in {"auto", "always", "never"} }
    \cup { MCProfile(s, "unset", "unset", << MCChannel(m, MCNone), MCChannel("unset", MCNone) >>,
                     "timestamp-directory") :
             s \in {"all-channels-exact-zero", "per-channel-exact-zero"}, m \in {"unset", "never"} }
    \cup { MCProfile("none", "never", "exact-zero", << MCChannel("unset", 8), MCChannel("unset", 8) >>,
                     "flat-detailed"),
           [MCWindowed(<< MCChannel("unset", MCNone), MCChannel("unset", MCNone) >>, "custom")
              EXCEPT !.legacy = TRUE] }
MCRejected ==
    { MCProfile("none", "unset", "fixed-level", << MCChannel("unset", 8) >>, "flat-detailed"),
      MCProfile("per-channel-exact-zero", "always", "unset", << MCChannel("unset", 8) >>, "flat-detailed"),
      MCWindowed(<< MCChannel("unset", Malformed) >>, "flat-detailed"),
      [MCWindowed(<< MCChannel("unset", 8) >>, "custom") EXCEPT !.complete = FALSE] }

\* Layouts that cannot tell two channels or two parts apart, one whose file name
\* may be empty, a channel name that is no path component and one that is too
\* long for the flat layout's worst case.
MCAwkward ==
    { [MCWindowed(<< MCChannel("unset", 8), MCChannel("unset", 8) >>, "custom")
         EXCEPT !.filename = Pattern({"part"}, 4)],
      [MCWindowed(<< MCChannel("always", 8) >>, "custom") EXCEPT !.filename = Pattern({"partSuffix"}, 0)],
      [MCWindowed(<< MCChannel("always", 8) >>, "custom") EXCEPT !.filename = Pattern({"channel"}, 4)],
      MCWindowed(<< [MCChannel("always", 8) EXCEPT !.name = MCName(4, FALSE)] >>, "flat-detailed"),
      MCWindowed(<< [MCChannel("always", 8) EXCEPT !.name = MCName(200, TRUE)] >>, "flat-detailed") }
MCProfiles == MCMono \cup MCStereo \cup MCRejected \cup MCAwkward

MCAudio(n, values) == { << a >> : a \in [1..n -> values] }
MCPairs(n, values) == { << a, b >> : a \in [1..n -> values], b \in [1..n -> values] }
MCRecordings ==
    LET nan == NonFinite
    IN  << MCAudio(4, {0, 5, 9, 40}) \cup MCAudio(2, {0, 1, 9, nan}) \cup MCPairs(3, {0, 5, 40}),
           MCAudio(1, {40}) \cup MCPairs(2, {0, nan}) >>

-----------------------------------------------------------------------------
(* The properties of the parts, next to AnsweredInOrder, DrainedAtExit and
   QueuedAreCancelled of the lane.                                          *)

\* A calibrated threshold is effective only where it was measured: on this input
\* and device, at this rate, in time, above the noise its sample shows; and what
\* the live validation accepts the offline inspection calls complete.
CalibrationGenuine == GenuineCalibration /\ ReportAgrees


\* A snapshot reads the same frames, those of its range, for as long as it is
\* held, and every frame the ring reports as retained can be read, whatever the
\* writer, clear and reset do in between.
RingSound == SnapshotStable /\ RetainedReadable

\* Nobody waits for ever: a job in the lane is taken by the worker, and a
\* calibration ends and leaves its slot to the next one.
WaitersServed == JobTaken /\ CalibrationEnds
=============================================================================
