---------------------------- MODULE ExportPolicy ----------------------------
(* From a profile to the WAV files of one export: the policy a profile
   resolves to, the decision about a frozen epoch (ActivityDetector), the
   paths and parts that are planned for it, and what a failed attempt leaves
   behind for the next one.

   A path is the pair of its rendered directory and its rendered file name; a
   rendered pattern is the function from the tokens it mentions to their
   values, so two outputs have one path exactly when no token tells them
   apart.  Literal text counts only by its length.                         *)
EXTENDS ActivityDetector, FiniteSets, SequencesExt, FiniteSetsExt

CONSTANTS
    Profiles,          \* the profiles a user may write
    Recordings,        \* per epoch the recordings that may be frozen: per channel a
                       \* sequence of samples
    SampleRate,
    StartFrame,        \* absolute frame of a recording's first sample
    SplitBytes,        \* splitWhenOverBytes
    MaximumPathBytes,  \* maximum_path_bytes, less the output directory's length
    RetentionFrames,
    MaxAttempts        \* bound: attempts to export

VARIABLES
    policy,     \* the resolved policy of the running session
    stage,      \* idle, rejected, open, frozen, exported, by-policy or silent
    recording,  \* the frozen epoch's samples
    epoch,      \* identity of the frozen epoch
    decision,   \* the preallocated FrozenExportDecision
    outputs,    \* the files of the last successful attempt
    finals,     \* paths that exist under the output directory
    attempts    \* attempts so far; the timestamp of the next one

exportVars == << policy, stage, recording, epoch, decision, outputs, finals, attempts >>

Malformed == -1          \* an activity entry that validation refuses
Header == 44             \* WAV_HEADER_BYTES
WavBytes == 3            \* WAV_BYTES_PER_SAMPLE
TimestampBytes == 16
ProfileBytes == 6

-----------------------------------------------------------------------------
(* Profile resolution *)

\* resolve_export_policy's early returns.
ProfileRejected(p) ==
    \/ p.silence # "none" /\ (p.defaultMode # "unset" \/ p.detector # "unset")
    \/ p.detector \in {"fixed-level", "calibrated-noise-floor"}
    \/ \E i \in DOMAIN p.ports : p.ports[i].threshold = Malformed
    \/ p.layout = "custom" /\ ~p.complete

\* ValidatedPattern::parse keeps the tokens and the literal text.
Pattern(tokens, literal) == [tokens |-> tokens, literal |-> literal]

(* patterns_for_layout, with the effective layout of the command default. *)
EffectiveLayout(layout, command) ==
    IF layout # "command-default" THEN layout
    ELSE IF command = "recall" THEN "flat-detailed" ELSE "timestamp-directory"

Patterns(layout, command, custom) ==
    CASE EffectiveLayout(layout, command) = "flat-detailed" ->
           [directory |-> Pattern({}, 0),
            filename  |-> Pattern({"timestamp", "channel", "sampleRate", "startFrame",
                                   "endFrame", "part"}, 20)]
      [] EffectiveLayout(layout, command) = "timestamp-directory" ->
           [directory |-> Pattern({"timestamp"}, 0),
            filename  |-> Pattern({"channel", "partSuffix"}, 4)]
      [] EffectiveLayout(layout, command) = "custom" -> custom

PublicationStrategy(layout, command) ==
    IF EffectiveLayout(layout, command) = "timestamp-directory"
    THEN "atomic-directory" ELSE "file-set"

ResolveExportPolicy(p) ==
    LET default  == CASE p.silence = "all-channels-exact-zero" -> "always"
                      [] p.silence = "per-channel-exact-zero" -> "auto"
                      [] p.silence = "none" -> IF p.defaultMode = "unset" THEN "auto" ELSE p.defaultMode
        detector == IF p.silence # "none" THEN "exact-zero"
                    ELSE IF p.detector = "unset" THEN "windowed" ELSE p.detector
    IN  [layout |-> p.layout,
         custom |-> IF p.layout # "custom" THEN << >>
                    ELSE [directory |-> p.directory, filename |-> p.filename],
         activity |->
           [detector |-> detector,
            gate     |-> p.silence = "all-channels-exact-zero",
            trim     |-> p.silence # "all-channels-exact-zero",
            channels |-> [i \in DOMAIN p.ports |->
               [mode      |-> IF p.ports[i].mode = "unset" THEN default ELSE p.ports[i].mode,
                threshold |-> p.ports[i].threshold,
                name      |-> p.ports[i].name]]]]

\* The one policy of a configVersion = 1 file (resolved_session_export_policy):
\* everything or nothing, untrimmed.
LegacyPolicy(p) ==
    [layout |-> "command-default", custom |-> << >>,
     activity |->
       [detector |-> "exact-zero", gate |-> TRUE, trim |-> FALSE,
        channels |-> [i \in DOMAIN p.ports |->
           [mode |-> "always", threshold |-> NoThreshold, name |-> p.ports[i].name]]]]

-----------------------------------------------------------------------------
(* Parts and paths *)

SplitFrames == (SplitBytes - Header) \div WavBytes

SplitCount(frames) == CeilDiv(frames, SplitFrames)

\* wav_parts_for_channel: parts are cut off until no frame remains.
WavParts(total) ==
    LET cut[n \in 0..total] ==
            IF n = 0 THEN << >>
            ELSE LET count == IF n < SplitFrames THEN n ELSE SplitFrames
                 IN  << [start |-> total - n, count |-> count] >> \o cut[n - count]
    IN  cut[total]

\* Mutant: the last part is as long as the others.
SplitRangeFull(start, end, n) ==
    [start |-> start + n * SplitFrames, count |-> SplitFrames]

\* absolute_split_range: part number n of the export range.
SplitRange(start, end, n) ==
    LET first == n * SplitFrames
        rest  == end - start - first
    IN  [start |-> start + first, count |-> IF rest < SplitFrames THEN rest ELSE SplitFrames]

TokenBytes(token, name) ==
    CASE token = "timestamp" -> TimestampBytes
      [] token = "channel" -> name.bytes
      [] token = "sampleRate" -> 10
      [] token \in {"startFrame", "endFrame", "part"} -> 20
      [] token = "partSuffix" -> 25
      [] token = "profile" -> ProfileBytes

MaximumRenderedBytes(pattern, name) ==
    pattern.literal + MapThenSumSet(LAMBDA t : TokenBytes(t, name), pattern.tokens)

(* validate_component_value and validate_pattern_capacity for one channel. *)
ChannelRenders(patterns, name) ==
    /\ name.safe
    /\ LET directory == MaximumRenderedBytes(patterns.directory, name)
       IN  1 + directory + (IF directory = 0 THEN 0 ELSE 1)
             + MaximumRenderedBytes(patterns.filename, name) <= MaximumPathBytes

Render(pattern, timestamp, channel, part, parts, range) ==
    [t \in pattern.tokens |->
        CASE t = "timestamp" -> timestamp
          [] t = "channel" -> channel
          [] t = "startFrame" -> range.start
          [] t = "endFrame" -> range.start + range.count
          [] t = "part" -> part
          [] t = "partSuffix" -> IF parts = 1 THEN 0 ELSE part
          [] t \in {"sampleRate", "profile"} -> 0]

\* A file name of nothing but an absent part suffix is empty, and refused.
EmptyName(pattern, parts) ==
    pattern.literal = 0 /\ pattern.tokens \subseteq (IF parts = 1 THEN {"partSuffix"} ELSE {})

Output(patterns, timestamp, channel, part, parts, range) ==
    [channel |-> channel, start |-> range.start, count |-> range.count,
     path |-> << Render(patterns.directory, timestamp, channel, part, parts, range),
                 Render(patterns.filename, timestamp, channel, part, parts, range) >>]

Distinct(outs) ==
    \A i, j \in DOMAIN outs : outs[i].path = outs[j].path => i = j

Kept(d) == SelectSeq([c \in DOMAIN d.channels |-> c],
                     LAMBDA c : d.channels[c].disposition = "retain")

Refused == << "refused", << >> >>
Accepted(outs) == << "ok", outs >>

(* plan_policy_paths: the parts of each kept channel, in channel order.  The
   staging directory is taken to be short enough for its own path and those of
   the staged files to fit maximum_path_bytes. *)
PlanPolicyPaths(pol, command, timestamp, d) ==
    LET patterns == Patterns(pol.layout, command, pol.custom)
        parts    == SplitCount(d.end - d.start)
        kept     == Kept(d)
        outs     == [i \in 1..(Len(kept) * parts) |->
                       LET n == (i - 1) % parts
                       IN  Output(patterns, timestamp, kept[1 + (i - 1) \div parts], n + 1, parts,
                                  SplitRange(d.start, d.end, n))]
    IN  IF /\ Len(outs) <= Len(d.channels) * SplitCount(RetentionFrames)
           /\ \A i \in DOMAIN kept : ChannelRenders(patterns, pol.activity.channels[kept[i]].name)
           /\ ~EmptyName(patterns.filename, parts)
           /\ Distinct(outs)
        THEN Accepted(outs) ELSE Refused

(* preview_export_paths: the public preview of the same plan, with its own
   splitting and its own set of paths seen. *)
Preview(pol, command, timestamp, d) ==
    LET patterns == Patterns(pol.layout, command, pol.custom)
        parts    == WavParts(d.end - d.start)
        kept     == Kept(d)
        of(c)    == [i \in DOMAIN parts |->
                       Output(patterns, timestamp, c, i, Len(parts),
                              [parts[i] EXCEPT !.start = @ + d.start])]
        outs     == FlattenSeq([i \in DOMAIN kept |-> of(kept[i])])
    IN  IF /\ \A i \in DOMAIN kept : ChannelRenders(patterns, pol.activity.channels[kept[i]].name)
           /\ ~EmptyName(patterns.filename, Len(parts))
           /\ Cardinality({ outs[i].path : i \in DOMAIN outs }) = Len(outs)
        THEN Accepted(outs) ELSE Refused

\* preflight_planned_finals: a file set needs every final absent, an atomic
\* directory the directory itself.
FinalsAbsent(pol, command, outs) ==
    IF PublicationStrategy(pol.layout, command) = "file-set"
    THEN \A i \in DOMAIN outs : outs[i].path \notin finals
    ELSE \A p \in finals : p[1] # outs[1].path[1]

-----------------------------------------------------------------------------
(* The session *)

ExportInit ==
    /\ policy = << >> /\ stage = "idle"
    /\ recording = << >> /\ epoch = 0
    /\ decision = EmptyDecision
    /\ outputs = << >> /\ finals = {} /\ attempts = 0

\* Starting a session validates the profile before anything is captured.
Configure(p) ==
    /\ stage = "idle"
    /\ IF ~p.legacy /\ ProfileRejected(p)
       THEN stage' = "rejected" /\ UNCHANGED policy
       ELSE stage' = "open" /\ policy' = IF p.legacy THEN LegacyPolicy(p) ELSE ResolveExportPolicy(p)
    /\ UNCHANGED << recording, epoch, decision, outputs, finals, attempts >>

Freeze(r) ==
    /\ stage = "open"
    /\ Len(r) = Len(policy.activity.channels)
    /\ Len(r[1]) \in 1..RetentionFrames      \* validate_frozen
    /\ stage' = "frozen" /\ recording' = r /\ epoch' = epoch + 1
    /\ UNCHANGED << policy, decision, outputs, finals, attempts >>

(* prepare_with_io and the publication that follows: the decision is made on
   the first attempt and kept for the next ones; nothing is consumed until the
   files exist or the policy says that there are none. *)
Decided ==
    IF decision.valid THEN decision
    ELSE ClassifyFrozenEpoch(recording, StartFrame, SampleRate, epoch, policy.activity)

Settle(outcome, outs) ==
    /\ stage' = outcome
    /\ outputs' = outs
    /\ finals' = finals \cup { outs[i].path : i \in DOMAIN outs }

Attempt(command, written) ==
    LET plan == PlanPolicyPaths(policy, command, attempts, decision')
    IN  IF decision'.epoch # epoch THEN UNCHANGED << stage, outputs, finals >>
        ELSE IF \A c \in DOMAIN decision'.channels : decision'.channels[c].mode = "never"
        THEN Settle("by-policy", << >>)
        ELSE IF Kept(decision') = << >> THEN Settle("silent", << >>)
        ELSE IF written /\ plan[1] = "ok" /\ FinalsAbsent(policy, command, plan[2])
        THEN Settle("exported", plan[2])
        ELSE UNCHANGED << stage, outputs, finals >>

Prepare(command, written) ==
    /\ stage = "frozen" /\ attempts < MaxAttempts
    /\ decision' = Decided
    /\ Attempt(command, written)
    /\ attempts' = attempts + 1
    /\ UNCHANGED << policy, recording, epoch >>

\* The transaction is consumed: the decision's storage is recycled.
Consume ==
    /\ stage \in {"exported", "by-policy", "silent"}
    /\ epoch < Len(Recordings)
    /\ stage' = "open" /\ recording' = << >> /\ outputs' = << >>
    /\ decision' = EmptyDecision
    /\ UNCHANGED << policy, epoch, finals, attempts >>

ExportNext ==
    \/ \E p \in Profiles : Configure(p)
    \/ stage = "open" /\ \E r \in Recordings[epoch + 1] : Freeze(r)
    \/ \E command \in {"recall", "dump"}, written \in BOOLEAN : Prepare(command, written)
    \/ Consume

ExportSpec == ExportInit /\ [][ExportNext]_exportVars

-----------------------------------------------------------------------------
(* Properties *)

\* What the decision has to find, without the detector's bookkeeping: the
\* frames at which an analysis window (one at every hop, the last ones cut
\* short) is loud enough to count, or a sample that is not zero.
EvidenceFrames(c) ==
    LET samples == recording[c]
        g       == WindowGeometry(SampleRate)
        t       == policy.activity.channels[c].threshold
        finite  == { f \in DOMAIN samples : samples[f] # NonFinite }
        window(k) == { f \in DOMAIN samples : k < f /\ f <= k + g.window }
        power(k)  == MapThenSumSet(LAMBDA f : samples[f] * samples[f], window(k) \cap finite)
        loud(k) ==
            \/ power(k) = 0 /\ Floor >= t \div 2
            \/ 4 * power(k) >= t * t * Cardinality(window(k)) /\ power(k) > 0
            \/ \E f \in window(k) \cap finite : samples[f] >= 4 * t
    IN  IF policy.activity.detector = "exact-zero"
        THEN { f - 1 : f \in { h \in finite : samples[h] # 0 } }
        ELSE IF t = NoThreshold THEN {0}
        ELSE { k \in 0..(Len(samples) - 1) : k % g.hop = 0 /\ loud(k) }

Wanted(c) ==
    LET mode == policy.activity.channels[c].mode
    IN  \/ mode = "always"
        \/ mode = "auto" /\ (\/ EvidenceFrames(c) # {}
                             \/ \E f \in DOMAIN recording[c] : recording[c][f] = NonFinite)

WantedChannels ==
    IF /\ policy.activity.gate
       /\ \A c \in DOMAIN recording : \A f \in DOMAIN recording[c] : recording[c][f] = 0
    THEN {} ELSE { c \in DOMAIN recording : Wanted(c) }

\* The first frame an export may leave out nothing after.
WantedStart ==
    LET found   == UNION { EvidenceFrames(c) : c \in WantedChannels }
        preroll == (PrerollMs * SampleRate) \div 1000
    IN  IF ~policy.activity.trim \/ found = {} \/ Min(found) < preroll THEN 0
        ELSE Min(found) - preroll

(* No audio is lost and no silence exported: when a transaction is consumed,
   the files hold each frame of each channel that must be kept, from the
   preroll of the earliest evidence to the end of the epoch, exactly once and
   nothing else, however many attempts failed before and whatever layout each
   of them asked for (classify_frozen_epoch, finalize, plan_policy_paths). *)
ExportFaithful ==
    stage \in {"exported", "by-policy", "silent"} =>
        \A c \in DOMAIN recording : \A f \in 0..(Len(recording[c]) - 1) :
            Cardinality({ i \in DOMAIN outputs :
                /\ outputs[i].channel = c
                /\ outputs[i].start <= StartFrame + f
                /\ StartFrame + f < outputs[i].start + outputs[i].count })
              = IF c \in WantedChannels /\ f >= WantedStart THEN 1 ELSE 0

(* The public preview promises what persistence then does: for a decided
   epoch, both accept the same layouts and name the same files with the same
   frames, although each splits and compares paths in its own way.  (Only
   persistence has paths to stage; a layout it refuses for their length alone is
   outside the model.) *)
PreviewAgrees ==
    stage = "frozen" /\ decision.valid =>
        \A command \in {"recall", "dump"} :
            Preview(policy, command, attempts, decision)
              = PlanPolicyPaths(policy, command, attempts, decision)
=============================================================================
