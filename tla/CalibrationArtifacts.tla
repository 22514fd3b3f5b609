------------------------ MODULE CalibrationArtifacts ------------------------
(***************************************************************************)
(* When a calibrated threshold applies: the identities of an input and the *)
(* checks of a calibration in src/calibration.rs, the session inputs and   *)
(* the threshold report of src/daemon.rs.                                  *)
(*                                                                         *)
(* One channel of one profile. Devices are exchanged, sessions start under *)
(* other rates, the clock moves both ways, the user edits the threshold in *)
(* the configuration, files of the state directory are damaged or lost.    *)
(* Text is trimmed text; an amplitude is an index into Decibels.           *)
(***************************************************************************)
EXTENDS Naturals, Integers, Sequences, FiniteSetsExt

CONSTANTS
    Ports,       \* configured inputs: [backend, target, name, client, port]
    Devices,     \* what is plugged in: [serial, path, node, ports]
    Rates,       \* sample rates a session may negotiate
    ClockReadings,       \* readings of the wall clock
    StaleAge,    \* STALE_SECONDS
    Captures,    \* observations: [frames, windows, loud, quietRms, loudRms, peak, samplePeak]
    SlotFrames,    \* frames the calibration slot of a session holds
    Formats,     \* frames a WAV file can hold, (u32::MAX - 36) / 4
    MaxCalibrations,
    MaxChanges   \* steps of the environment

VARIABLES
    port,      \* the configured input
    device,    \* the device under that name
    session,   \* the capture session, or NoSession
    now,
    thr,       \* ActivityThresholdConfig of the channel, or NoThr
    disk,      \* generation -> metadata and sample
    measured,  \* generation -> what it was measured on (history)
    changes

artifactVars == <<port, device, session, now, thr, disk, measured, changes>>

-----------------------------------------------------------------------------
(* Identities                                                              *)

\* ConfiguredInputIdentity::new: the selector has to belong to the backend and
\* a JACK source has to be client:port of the selected client. The hash is
\* injective, the identity stands for it.
JackSource(client, source) ==
    source[1] # "" /\ Len(source) = 2 /\ source[2] # "" /\ source[1] = client
SelectorOf(p) ==
    IF p.backend = "jack" THEN <<"jack-source-client", p.source[1]>>
    ELSE IF p.target = "" THEN <<"pipewire-auto">> ELSE <<"pipewire-target", p.target>>
Configured(p) ==
    [backend |-> p.backend, selector |-> SelectorOf(p), name |-> p.name, source |-> p.source]
ConfiguredOk(p) ==
    /\ p.name # "" /\ p.source # <<"">>
    /\ p.backend = "jack" => JackSource(p.source[1], p.source)
InputId(c) == <<"v2", c>>

\* durable_live_key: the first of serial, object path and node name there is.
NoLive == [backend |-> "none", kind |-> "none", key |-> "", source |-> <<"">>]
DurableKey(d) ==
    CASE d.serial # "" -> <<"hardware-serial", d.serial>>
      [] d.serial = "" /\ d.path # "" -> <<"object-path", d.path>>
      [] d.serial = "" /\ d.path = "" /\ d.node # "" -> <<"node-name", d.node>>
      [] OTHER -> <<>>

\* jack_live_identities and pipewire_live_identities.
LiveOf(p, d) ==
    CASE p.backend = "jack" ->
           [backend |-> "jack", kind |-> "jack-source-client", key |-> p.source[1],
            source |-> p.source]
      [] p.backend = "pipewire" /\ DurableKey(d) = <<>> -> NoLive
      [] OTHER -> [backend |-> "pipewire", kind |-> DurableKey(d)[1], key |-> DurableKey(d)[2],
                   source |-> d.ports[1]]

\* session_input_is_coherent
Coherent(c, l) ==
    \/ c.backend = "pipewire" /\ l = NoLive
    \/ /\ c.backend = "pipewire" /\ l.backend = "pipewire"
       /\ l.kind # "jack-source-client" /\ l.source = c.source
    \/ /\ c.backend = "jack" /\ l.backend = "jack"
       /\ l.kind = "jack-source-client"
       /\ l.key = c.selector[2] /\ l.source = c.source /\ c.source[1] = c.selector[2]

-----------------------------------------------------------------------------
(* Thresholds                                                              *)

\* 20 log10 of an amplitude, floored at -120.
Decibels == <<-120, -90, -40, -10, -4>>

\* derived_threshold_from_amplitude: ten decibels above, inside [-120, 0].
Derived(amplitude) == Decibels[amplitude] + 10
DerivedOk(amplitude) == Derived(amplitude) \in -120 .. 0

\* derive_calibrated_threshold: the window at rank ceil(95 n / 100) of the sorted
\* RMS values. Of c.windows windows c.loud are loud, the others quiet.
Rank(n) == (95 * n + 99) \div 100
P95(c) == IF Rank(c.windows) <= c.windows - c.loud THEN c.quietRms ELSE c.loudRms

NoThr == [source |-> "none"]
NoSession == [rate |-> 0]
Missing == [state |-> "missing"]

-----------------------------------------------------------------------------
(* Artifacts                                                               *)

Metadata(id, c, l, obs, rate, at) ==
    [state |-> "json", version |-> 2, id |-> id, input |-> InputId(c), configured |-> c,
     live |-> l, detector |-> "windowed-rms-peak", dbfs |-> Derived(P95(obs)),
     p95 |-> P95(obs), peak |-> obs.peak, windows |-> obs.windows, dropped |-> 0,
     partial |-> obs.frames % obs.windows, frames |-> obs.frames, rate |-> rate, at |-> at]
Wave(obs, rate) ==
    [state |-> "riff", rate |-> rate, frames |-> obs.frames, finite |-> TRUE,
     peak |-> obs.samplePeak]
NoMetadataFile == [Metadata(0, [backend |-> ""], NoLive,
                   [frames |-> 1, windows |-> 1, loud |-> 0, quietRms |-> 1, loudRms |-> 1,
                    peak |-> 1, samplePeak |-> 1], 0, 0) EXCEPT !.state = "missing"]
NoGeneration == [dir |-> FALSE, meta |-> NoMetadataFile, wave |-> Missing]

\* read_metadata: a bounded regular file, JSON, and values that fit together. A
\* version 1 file has another identity and no device.
Readable(m) ==
    /\ m.state = "json"
    /\ m.version \in {1, 2}
    /\ m.version = 2 => m.input = InputId(m.configured)
    /\ m.rate > 0 /\ m.frames > 0
    /\ m.windows \in 1 .. m.frames /\ m.partial <= m.frames
    /\ m.dropped = 0
    /\ m.p95 <= m.peak
    /\ DerivedOk(m.p95) /\ m.dbfs = Derived(m.p95)

\* validate_wav: the header agrees with the metadata, the length with the header
\* and every sample is finite.
WaveOk(w, m) ==
    /\ w.state = "riff"
    /\ w.rate = m.rate /\ w.frames = m.frames
    /\ w.finite

\* The first check that fails gives the reason.
Verdict(checks) ==
    LET failing == {i \in DOMAIN checks : ~checks[i][1]}
    IN IF failing = {} THEN "ok" ELSE checks[Min(failing)][2]

Generation(t, c) ==
    IF t.input = InputId(c) /\ t.id \in DOMAIN disk THEN disk[t.id] ELSE NoGeneration

\* The checks that validate and inspect_offline share, up to the live identity.
StoredChecks(t, c, limit) ==
    LET g == Generation(t, c)
        m == g.meta
    IN << <<t.id # 0, "MissingCalibrationId">>,
          <<g.dir, "MissingState">>,
          <<m.state # "missing", "MissingMetadata">>,
          <<Readable(m), "CorruptMetadata">>,
          <<m.frames <= limit, "CorruptMetadata">>,
          <<m.id = t.id, "GenerationMismatch">>,
          <<m.version # 1, "MissingLiveIdentity">>,
          <<m.input = InputId(c) /\ m.configured = c, "InputMismatch">>,
          <<m.live # NoLive, "MissingLiveIdentity">> >>

\* The checks after the identities.
TimeChecks(t, c) ==
    LET m == Generation(t, c).meta
    IN << <<m.at <= now, "FutureTimestamp">>,
          <<m.at = t.at, "IncoherentTimestamp">>,
          <<m.dbfs = t.dbfs, "ThresholdMismatch">>,
          <<now - m.at <= StaleAge, "Expired">> >>
SampleChecks(t, c) ==
    LET g == Generation(t, c)
    IN << <<g.wave.state # "missing", "MissingSample">>,
          <<g.wave.state # "missing" => WaveOk(g.wave, g.meta), "CorruptSample">>,
          <<g.wave.state = "riff" => g.meta.peak <= g.wave.peak, "CorruptMetadata">> >>
DetectorCheck(t, c) ==
    << <<Generation(t, c).meta.detector = "windowed-rms-peak", "DetectorMismatch">> >>

\* Mutant of LiveChecks: any device that is there will do.
LiveChecksAny(t, c, l) == << <<l # NoLive, "MissingLiveIdentity">> >>

\* What validate adds: the device that is there now, and the session's rate.
LiveChecks(t, c, l) ==
    << <<l # NoLive, "MissingLiveIdentity">>,
       <<Generation(t, c).meta.live = l, "LiveIdentityMismatch">> >>
RateCheck(t, c, rate) ==
    << <<Generation(t, c).meta.rate = rate, "SampleRateMismatch">> >>

\* CalibrationStore::validate of a calibrated threshold.
Validate(t, c, l, rate, limit) ==
    IF t.input # InputId(c) THEN "InputMismatch"
    ELSE Verdict(StoredChecks(t, c, limit) \o LiveChecks(t, c, l) \o DetectorCheck(t, c)
                 \o RateCheck(t, c, rate) \o TimeChecks(t, c) \o SampleChecks(t, c))

\* CalibrationStore::inspect_offline: no claim about the device.
InspectOffline(t, c) ==
    IF t.input # InputId(c) THEN "InputMismatch"
    ELSE Verdict(StoredChecks(t, c, Formats) \o DetectorCheck(t, c)
                 \o TimeChecks(t, c) \o SampleChecks(t, c))

-----------------------------------------------------------------------------
(* threshold_report                                                        *)

ArtifactStatus ==
    CASE thr.source = "none" -> "not-configured"
      [] thr.source = "manual" -> "not-applicable"
      [] OTHER -> InspectOffline(thr, Configured(port))

Evaluation ==
    CASE thr.source = "none" -> "not-resolved"
      [] thr.source = "manual" -> IF thr.input = InputId(Configured(port)) THEN "ok" ELSE "InputMismatch"
      [] thr.source = "calibrated" /\ session = NoSession -> "not-resolved"
      [] thr.source = "calibrated" /\ session # NoSession ->
           IF session.configured # Configured(port) THEN "InputMismatch"
           ELSE Validate(thr, Configured(port), session.live, session.rate, SlotFrames)

\* effective_threshold_dbfs
Effective == Evaluation = "ok"

-----------------------------------------------------------------------------
(* Commands                                                                *)

ArtifactsInit ==
    /\ port \in Ports
    /\ device \in Devices
    /\ session = NoSession
    /\ now = CHOOSE t \in ClockReadings : \E u \in ClockReadings : u < t
    /\ thr = NoThr
    /\ disk = <<>> /\ measured = <<>>
    /\ changes = 0

\* validate_app_session_inputs: a session starts only over coherent inputs.
StartSession(rate) ==
    /\ session = NoSession
    /\ ConfiguredOk(port)
    /\ Coherent(Configured(port), LiveOf(port, device))
    /\ session' = [rate |-> rate, configured |-> Configured(port), live |-> LiveOf(port, device)]
    /\ UNCHANGED <<port, device, now, thr, disk, measured, changes>>

\* prepare_lease_with_hook and prepare_captured_with_hook: what a capture must be.
Preparable(obs) ==
    /\ obs.frames \in 1 .. SlotFrames
    /\ obs.windows \in 1 .. obs.frames
    /\ obs.quietRms <= obs.peak /\ obs.loudRms <= obs.peak
    /\ obs.peak <= obs.samplePeak
    /\ DerivedOk(P95(obs))

\* calibrate_threshold_with, as far as the artifact and the threshold go.
CalibrateInput(obs) ==
    /\ session # NoSession /\ session.live # NoLive
    /\ Len(disk) < MaxCalibrations
    /\ Preparable(obs)
    /\ LET id == Len(disk) + 1
           c == session.configured
       IN /\ disk' = Append(disk, [dir |-> TRUE, wave |-> Wave(obs, session.rate),
                        meta |-> Metadata(id, c, session.live, obs, session.rate, now)])
          /\ thr' = [source |-> "calibrated", input |-> InputId(c), id |-> id,
                     dbfs |-> Derived(P95(obs)), at |-> now]
          /\ measured' = Append(measured, [configured |-> c, live |-> session.live,
                            rate |-> session.rate, at |-> now, obs |-> obs])
    /\ UNCHANGED <<port, device, session, now, changes>>

\* mutate_threshold_with: the generation is kept while the input is the same.
SetManual(dbfs) ==
    /\ ConfiguredOk(port)
    /\ thr' = [source |-> "manual", input |-> InputId(Configured(port)), dbfs |-> dbfs, at |-> now,
               id |-> IF thr # NoThr /\ thr.input = InputId(Configured(port)) THEN thr.id ELSE 0]
    /\ UNCHANGED <<port, device, session, now, disk, measured, changes>>

ResetThreshold ==
    /\ thr' = NoThr
    /\ UNCHANGED <<port, device, session, now, disk, measured, changes>>

-----------------------------------------------------------------------------
(* The environment                                                         *)

Change == changes < MaxChanges /\ changes' = changes + 1

\* The configuration is edited and reloaded, which ends the session.
Reconfigure(p) ==
    /\ Change /\ p # port
    /\ port' = p /\ session' = NoSession
    /\ UNCHANGED <<device, now, thr, disk, measured>>

\* Another device; the session over the old one faults.
Replug(d) ==
    /\ Change /\ d # device
    /\ device' = d /\ session' = NoSession
    /\ UNCHANGED <<port, now, thr, disk, measured>>

Clock(t) ==
    /\ Change /\ t # now
    /\ now' = t
    /\ UNCHANGED <<port, device, session, thr, disk, measured>>

\* The user edits the threshold in the file and reloads it. validate_profile asks
\* for a calibration id and for decibels in range.
EditThreshold ==
    /\ Change /\ thr # NoThr
    /\ thr' \in {[thr EXCEPT !.dbfs = -50], [thr EXCEPT !.at = CHOOSE t \in ClockReadings : t # @],
                 [thr EXCEPT !.input = InputId(Configured(port))]}
                \cup {[thr EXCEPT !.source = "calibrated", !.id = i] : i \in 1 .. MaxCalibrations}
    /\ session' = NoSession
    /\ UNCHANGED <<port, device, now, disk, measured>>

\* A file is lost, cut short, or written by another version.
Damage(i) ==
    /\ Change
    /\ LET g == disk[i]
       IN disk' \in {[disk EXCEPT ![i] = h] : h \in
            {NoGeneration,
             [g EXCEPT !.meta = NoMetadataFile], [g EXCEPT !.meta.state = "torn"],
             [g EXCEPT !.meta.version = 1], [g EXCEPT !.meta.version = 3],
             [g EXCEPT !.meta.frames = 0], [g EXCEPT !.meta.dropped = 1],
             [g EXCEPT !.meta.peak = 5], [g EXCEPT !.meta.dbfs = -50],
             [g EXCEPT !.meta.detector = "exact-zero"], [g EXCEPT !.meta.live = NoLive],
             [g EXCEPT !.wave = Missing], [g EXCEPT !.wave.state = "torn"]}
            \cup IF g.wave = Missing THEN {} ELSE
            {[g EXCEPT !.wave.finite = FALSE], [g EXCEPT !.wave.frames = @ + 1],
             [g EXCEPT !.wave.rate = @ + 1]}}
    /\ UNCHANGED <<port, device, session, now, thr, measured>>

ArtifactsNext ==
    \/ \E r \in Rates : StartSession(r)
    \/ \E o \in Captures : CalibrateInput(o)
    \/ SetManual(-30) \/ ResetThreshold
    \/ \E p \in Ports : Reconfigure(p)
    \/ \E d \in Devices : Replug(d)
    \/ \E t \in ClockReadings : Clock(t)
    \/ EditThreshold
    \/ \E i \in DOMAIN disk : Damage(i)

ArtifactsSpec == ArtifactsInit /\ [][ArtifactsNext]_artifactVars

-----------------------------------------------------------------------------
(* Properties                                                              *)

\* Windows of an observation whose RMS is above a level.
WindowsAbove(o, level) ==
    (IF Decibels[o.loudRms] > level THEN o.loud ELSE 0)
    + (IF Decibels[o.quietRms] > level THEN o.windows - o.loud ELSE 0)

\* A calibrated threshold is effective only where it was measured: on this input
\* and this device, at this rate, not longer ago than StaleAge and not in the
\* future, ten decibels above all but 5 % of its windows, with its sample complete.
GenuineCalibration ==
    Effective /\ thr.source = "calibrated" =>
      LET was == measured[thr.id]
      IN /\ was.configured = Configured(port)
         /\ was.live = LiveOf(port, device) /\ was.live # NoLive
         /\ was.rate = session.rate
         /\ now - was.at \in 0 .. StaleAge
         /\ 100 * WindowsAbove(was.obs, thr.dbfs - 10) <= 5 * was.obs.windows
         /\ disk[thr.id].wave = Wave(was.obs, was.rate)

\* What the live validation accepts the offline inspection calls complete: the
\* report never shows an effective threshold next to a stale artifact.
ReportAgrees ==
    Effective /\ thr.source = "calibrated" => ArtifactStatus = "ok"
=============================================================================
