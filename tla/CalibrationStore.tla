-------------------------- MODULE CalibrationStore --------------------------
(***************************************************************************)
(* Calibration generations and the configuration that refers to them:      *)
(* src/calibration.rs, and the threshold commands of src/daemon.rs.        *)
(*                                                                         *)
(* A calibration writes a generation directory, then replaces the          *)
(* configuration file by one that refers to it, then installs the          *)
(* configuration in memory, then removes the generation it supersedes.     *)
(* The process may die between any two steps, an operation on the disk may *)
(* fail, and the user may edit, replace or remove the configuration file.  *)
(***************************************************************************)
EXTENDS Naturals, FiniteSets

CONSTANTS
    Channels,        \* configured inputs, each with its own input id
    MaxGenerations,  \* calibrations that get as far as a directory
    MaxTroubles      \* failing disk operations, deaths of the process and
                     \* changes of the configuration file by its user, together

ASSUME StoreAssumption == MaxGenerations \in Nat /\ MaxTroubles \in Nat

VARIABLES
    gens,      \* the state directory: generation -> its directory
    target,    \* the configuration file
    temp,      \* the file under the adjacent temporary name of this save
    mode,      \* "down", "starting" or "ready"
    live,      \* runtime.config
    policy,    \* thresholds the capture session applies
    healthy,   \* the calibration target is capturing and without fault
    pc, op,    \* the operation under way
    victims,   \* generations a cleanup has still to remove
    reported,      \* what the last operation answered
    swept,     \* startup reconciliation was complete, nothing happened since
    nextGen, faults, crashes, edits

disk == <<gens, target>>
counters == <<nextGen, faults, crashes, edits>>
storeVars == <<gens, target, temp, mode, live, policy, healthy, pc, op, victims,
          reported, swept, nextGen, faults, crashes, edits>>

Generations == 1 .. MaxGenerations
NoGen == 0
Threshold == [source : {"manual", "calibrated"}, gen : Generations \cup {NoGen}]
NoThreshold == [source |-> "none", gen |-> NoGen]
Config == [refs : [Channels -> Threshold \cup {NoThreshold}], edit : 0 .. MaxTroubles]
DefaultConfig == [refs |-> [c \in Channels |-> NoThreshold], edit |-> 0]

\* A file has an identity (device and inode). Numbers of removed files are
\* given out again, as a file system does.
NoFile == [id |-> 0, cfg |-> DefaultConfig]
FreshId == CHOOSE i \in 1 .. 4 :
    /\ i \notin {target.id, temp.id}
    /\ \A j \in 1 .. 4 : j < i => j \in {target.id, temp.id}

\* `at` is "name" under its own name, "quarantine" under a cleanup name.
GenerationComplete(g) == gens[g].at = "name" /\ gens[g].parts = {"sample", "metadata"}

NoOp == [kind |-> "none", chan |-> CHOOSE c \in Channels : TRUE, gen |-> NoGen,
         cand |-> DefaultConfig, old |-> NoGen, prev |-> 0, new |-> 0]

-----------------------------------------------------------------------------
\* calibration_references: what a configuration keeps from cleanup. A manual
\* threshold may still refer to the sample it replaced.
References(cfg) == {cfg.refs[c].gen : c \in Channels} \ {NoGen}

\* cleanup_offline: every directory of the root, quarantined ones included.
Unreferenced(cfg) == {g \in Generations : gens[g].at # "absent"} \ References(cfg)

\* threshold_report and install_effective_session_activity_policy: a calibrated
\* threshold is effective only while its generation validates.
Effective(cfg) ==
    [c \in Channels |->
        IF cfg.refs[c].source = "calibrated" /\ ~(cfg.refs[c].gen # NoGen /\ GenerationComplete(cfg.refs[c].gen))
        THEN NoThreshold
        ELSE cfg.refs[c]]

\* A disk operation that fails, or two of which the second is the cleanup.
Troubles(n) == faults + crashes + edits + n <= MaxTroubles
Fails == Troubles(1) /\ faults' = faults + 1
FailsTwice == Troubles(2) /\ faults' = faults + 2
Succeeds == UNCHANGED faults

Goto(l) == pc' = l
Answer(result) ==
    /\ reported' = result
    /\ Goto("idle")
    /\ op' = NoOp
    /\ temp' = NoFile

StoreInit ==
    /\ gens = [g \in Generations |-> [at |-> "absent", parts |-> {}]]
    /\ target = [id |-> 1, cfg |-> DefaultConfig]
    /\ temp = NoFile
    /\ mode = "down"
    /\ live = DefaultConfig
    /\ policy = DefaultConfig.refs
    /\ healthy = FALSE
    /\ pc = "idle" /\ op = NoOp
    /\ victims = {}
    /\ reported = "none"
    /\ swept = FALSE
    /\ nextGen = 1 /\ faults = 0 /\ crashes = 0 /\ edits = 0

-----------------------------------------------------------------------------
(* Requests. The operation lane runs one at a time.                        *)

BeginCommand(kind, c) ==
    /\ mode = "ready" /\ pc = "idle"
    /\ swept' = FALSE /\ reported' = "none"
    /\ op' = [NoOp EXCEPT !.kind = kind, !.chan = c]

\* calibrate_threshold_with as far as its lease: the target has to be capturing
\* and healthy, the observation may fail or be cancelled.
Calibrate(c) ==
    /\ healthy
    /\ nextGen <= MaxGenerations
    /\ BeginCommand("calibrate", c)
    /\ Goto("mkdir")
    /\ UNCHANGED <<disk, temp, mode, live, policy, healthy, victims, counters>>

\* create_new_directory_at and PreparedCalibrationGeneration::new. A failure of
\* the second leaves a directory that nobody owns.
MakeGeneration ==
    /\ pc = "mkdir"
    /\ nextGen' = nextGen + 1
    /\ \/ /\ Succeeds
          /\ gens' = [gens EXCEPT ![nextGen].at = "name"]
          /\ op' = [op EXCEPT !.gen = nextGen]
          /\ Goto("sample")
          /\ UNCHANGED <<reported, temp>>
       \/ /\ Fails
          /\ \/ UNCHANGED gens
             \/ gens' = [gens EXCEPT ![nextGen].at = "name"]
          /\ Answer("failed")
    /\ UNCHANGED <<target, mode, live, policy, healthy, victims, swept, crashes, edits>>

\* Dropping a generation that is not authoritative removes it.
DropPrepared ==
    /\ victims' = {op.gen}
    /\ Goto("remove")

\* write_wav_at and write_metadata_at with their syncs.
WritePart(part, label, after) ==
    /\ pc = label
    /\ \/ /\ Succeeds
          /\ gens' = [gens EXCEPT ![op.gen].parts = @ \cup {part}]
          /\ Goto(after)
          /\ UNCHANGED victims
       \/ /\ Fails
          /\ gens' \in {gens, [gens EXCEPT ![op.gen].parts = @ \cup {part}]}
          /\ DropPrepared
    /\ UNCHANGED <<target, temp, mode, live, policy, healthy, op, reported, swept,
                   nextGen, crashes, edits>>

WriteSample == WritePart("sample", "sample", "metadata")
WriteMetadata == WritePart("metadata", "metadata", "verify")

\* verify_state_ancestry and validate_generation: the directories are still the
\* ones the generation was written to, and sample and metadata read back valid.
VerifyGeneration ==
    /\ pc = "verify"
    /\ \/ Succeeds /\ Goto("candidate") /\ UNCHANGED victims
       \/ Fails /\ DropPrepared
    /\ UNCHANGED <<disk, temp, mode, live, policy, healthy, op, reported, swept,
                   nextGen, crashes, edits>>

\* The second half of calibrate_threshold_with up to the commit: the target must
\* still be current, the superseded generation is recorded if it is there, and
\* the candidate is the configuration in memory with one threshold replaced.
Candidate ==
    /\ pc = "candidate"
    /\ LET was == live.refs[op.chan].gen
       IN \/ /\ healthy
             /\ Succeeds
             /\ op' = [op EXCEPT
                   !.old = IF was # NoGen /\ gens[was].at = "name" THEN was ELSE NoGen,
                   !.cand = [live EXCEPT !.refs[op.chan] =
                                [source |-> "calibrated", gen |-> op.gen]]]
             /\ Goto("save_open")
             /\ UNCHANGED victims
          \/ /\ ~healthy \/ Troubles(1)
             /\ faults' = IF healthy THEN faults + 1 ELSE faults
             /\ DropPrepared
             /\ UNCHANGED op
    /\ UNCHANGED <<disk, temp, mode, live, policy, healthy, reported, swept,
                   nextGen, crashes, edits>>

\* mutate_threshold_with up to the save. A manual threshold keeps the sample of
\* the calibration it replaces, a reset keeps nothing.
Mutate(kind, c) ==
    /\ mode = "ready" /\ pc = "idle"
    /\ swept' = FALSE /\ reported' = "none"
    /\ op' = [NoOp EXCEPT
          !.kind = kind, !.chan = c,
          !.cand = [live EXCEPT !.refs[c] =
              IF kind = "set" THEN [source |-> "manual", gen |-> live.refs[c].gen]
              ELSE NoThreshold]]
    /\ Goto("save_open")
    /\ UNCHANGED <<disk, temp, mode, live, policy, healthy, victims, counters>>

-----------------------------------------------------------------------------
(* save_config_atomic                                                      *)

\* Mutant: the generation is dropped although the file may refer to it.
SaveFailedDrops(how) ==
    IF op.kind = "calibrate"
    THEN /\ DropPrepared
         /\ temp' = NoFile
         /\ UNCHANGED <<op, reported>>
    ELSE Answer(how) /\ UNCHANGED victims

\* What a save reports back. commit_prepared_generation keeps the prepared
\* generation when the outcome is not established ("unsure") and removes it when
\* nothing was published; a threshold mutation only reports the error.
SaveFailed(how) ==
    IF op.kind = "calibrate" /\ how = "failed"
    THEN /\ DropPrepared
         /\ temp' = NoFile
         /\ UNCHANGED <<op, reported>>
    ELSE Answer(how) /\ UNCHANGED victims

\* cleanup_owned_error_at: the temporary file is removed if it is still ours.
AbandonTemp ==
    \/ Succeeds /\ SaveFailed("failed")
    \/ Fails /\ SaveFailed("unsure")

SaveSame == UNCHANGED <<gens, mode, live, policy, healthy, swept, nextGen, crashes, edits>>

SaveOpen ==
    /\ pc = "save_open"
    /\ SaveSame
    /\ UNCHANGED target
    /\ \/ /\ Succeeds
          /\ temp' = [id |-> FreshId, cfg |-> op.cand]
          /\ op' = [op EXCEPT !.prev = target.id, !.new = FreshId]
          /\ Goto("save_write")
          /\ UNCHANGED <<reported, victims>>
       \/ Fails /\ SaveFailed("failed")

SaveWrite ==
    /\ pc = "save_write"
    /\ SaveSame
    /\ UNCHANGED target
    /\ \/ /\ Succeeds
          /\ Goto("save_check")
          /\ UNCHANGED <<temp, op, reported, victims>>
       \/ Fails /\ SaveFailed("failed")
       \/ FailsTwice /\ SaveFailed("unsure")

\* target_matches_at: the file still has the identity found when the save began.
SaveCheck ==
    /\ pc = "save_check"
    /\ SaveSame
    /\ UNCHANGED target
    /\ \/ /\ target.id = op.prev
          /\ Succeeds
          /\ Goto("save_swap")
          /\ UNCHANGED <<temp, op, reported, victims>>
       \/ target.id # op.prev /\ AbandonTemp

\* Mutant: no path for a file that came or went since the check.
SaveSwapUnguarded ==
    /\ pc = "save_swap"
    /\ SaveSame
    /\ (op.prev = 0) = (target = NoFile) /\ Succeeds
    /\ target' = temp /\ temp' = target
    /\ Goto("save_verify")
    /\ UNCHANGED <<op, reported, victims>>

\* renameat2: EXCHANGE needs a file under both names, NOREPLACE none under the
\* second.
SaveSwap ==
    /\ pc = "save_swap"
    /\ SaveSame
    /\ LET possible == (op.prev = 0) = (target = NoFile)
       IN \/ /\ possible /\ Succeeds
             /\ target' = temp /\ temp' = target
             /\ Goto("save_verify")
             /\ UNCHANGED <<op, reported, victims>>
          \/ /\ ~possible /\ AbandonTemp
             /\ UNCHANGED target
          \/ /\ possible
             /\ UNCHANGED target
             /\ \/ Fails /\ SaveFailed("failed")
                \/ FailsTwice /\ SaveFailed("unsure")

\* installed_is_new and recovery_is_old.
Installed == target.id = op.new /\ temp.id = op.prev

SaveVerify ==
    /\ pc = "save_verify"
    /\ SaveSame
    /\ UNCHANGED <<target, faults>>
    /\ \/ /\ Installed
          /\ Goto("save_sync")
          /\ UNCHANGED <<temp, op, reported, victims>>
       \/ ~Installed /\ SaveFailed("unsure")

\* Mutant: a failed synchronisation is reported without rolling back.
SaveSyncReported ==
    /\ pc = "save_sync"
    /\ SaveSame
    /\ UNCHANGED target
    /\ \/ Succeeds /\ Goto("install") /\ temp' = NoFile /\ UNCHANGED <<op, reported, victims>>
       \/ Fails /\ SaveFailed("failed")

\* The parent directory is synchronised; after that the save has succeeded,
\* whether or not the old file can be removed.
SaveSync ==
    /\ pc = "save_sync"
    /\ SaveSame
    /\ UNCHANGED <<target, op, reported, victims>>
    /\ \/ Succeeds /\ Goto("install") /\ temp' = NoFile
       \/ Fails /\ Goto("save_undo") /\ UNCHANGED temp

\* The rollback of a save whose synchronisation failed: exchange back, or remove
\* the file that was installed where there was none.
SaveUndo ==
    /\ pc = "save_undo"
    /\ SaveSame
    /\ \/ /\ ~Installed /\ Succeeds
          /\ SaveFailed("unsure")
          /\ UNCHANGED target
       \/ /\ Installed /\ Succeeds
          /\ IF op.prev # 0
             THEN /\ target' = temp /\ temp' = target
                  /\ Goto("save_settle")
                  /\ UNCHANGED <<op, reported, victims>>
             ELSE target' = NoFile /\ SaveFailed("failed")
       \/ /\ Installed /\ Fails
          /\ SaveFailed("unsure")
          /\ UNCHANGED target

\* After exchanging back: identities, synchronisation, removal of the new file.
SaveSettle ==
    /\ pc = "save_settle"
    /\ SaveSame
    /\ UNCHANGED target
    /\ \/ /\ target.id = op.prev /\ temp.id = op.new
          /\ AbandonTemp
       \/ /\ ~(target.id = op.prev /\ temp.id = op.new)
          /\ Succeeds
          /\ SaveFailed("unsure")

\* The commit point is behind: configuration and policy are installed in memory
\* under the runtime lock. Then the superseded generation, or after a reset
\* everything unreferenced, is removed.
Install ==
    /\ pc = "install"
    /\ live' = op.cand
    /\ policy' = Effective(op.cand)
    /\ victims' = CASE op.kind = "calibrate" -> {op.old} \ {NoGen}
                    [] op.kind = "reset" -> Unreferenced(op.cand)
                    [] OTHER -> {}
    /\ reported' = "ok"
    /\ Goto("remove")
    /\ UNCHANGED <<disk, temp, mode, healthy, op, swept, counters>>

-----------------------------------------------------------------------------
(* Cleanup                                                                 *)

RemoveSame == UNCHANGED <<target, mode, live, policy, healthy, swept,
                          nextGen, crashes, edits>>

\* remove_generation_at up to the rename into quarantine.
Quarantine(g) ==
    /\ pc = "remove" /\ g \in victims /\ gens[g].at = "name"
    /\ RemoveSame
    /\ UNCHANGED <<temp, op, reported>>
    /\ Goto("remove")
    /\ \/ Succeeds /\ gens' = [gens EXCEPT ![g].at = "quarantine"] /\ UNCHANGED victims
       \/ Fails /\ victims' = victims \ {g} /\ UNCHANGED gens

\* clear_directory_at and the removal of the directory; what cannot be removed
\* is left pending.
Discard(g) ==
    /\ pc = "remove" /\ g \in victims /\ gens[g].at = "quarantine"
    /\ RemoveSame
    /\ UNCHANGED <<temp, op, reported>>
    /\ Goto("remove")
    /\ victims' = victims \ {g}
    /\ \/ Succeeds /\ gens' = [gens EXCEPT ![g].at = "absent", ![g].parts = {}]
       \/ /\ Fails
          /\ \E left \in SUBSET gens[g].parts : gens' = [gens EXCEPT ![g].parts = left]

\* The cleanup is over: a startup goes on, a successful command has answered, a
\* failed one answers its error.
CleanupDone ==
    /\ pc = "remove" /\ victims = {}
    /\ IF op.kind = "startup"
       THEN /\ mode' = "ready"
            /\ policy' = Effective(live)
            /\ healthy' = TRUE
            /\ swept' = (faults = op.prev /\ op.new # 0)
            /\ UNCHANGED reported
       ELSE /\ reported' = IF reported = "none" THEN "failed" ELSE reported
            /\ UNCHANGED <<mode, policy, healthy, swept>>
    /\ Goto("idle")
    /\ op' = NoOp
    /\ UNCHANGED <<disk, temp, live, victims, counters>>

-----------------------------------------------------------------------------
(* The process and its environment                                         *)

\* build_idle_context: the configuration is loaded; reconcile_startup_calibrations
\* removes what it does not refer to, unless there is no configuration.
Startup ==
    /\ mode = "down"
    /\ mode' = "starting"
    /\ live' = target.cfg
    /\ victims' = IF target = NoFile THEN {} ELSE Unreferenced(target.cfg)
    /\ op' = [NoOp EXCEPT !.kind = "startup", !.prev = faults, !.new = target.id]
    /\ Goto("remove")
    /\ UNCHANGED <<disk, temp, policy, healthy, reported, swept, counters>>

\* A reload reads the configuration again and starts a session under it.
Reload ==
    /\ mode = "ready" /\ pc = "idle" /\ target # NoFile
    /\ live' = target.cfg
    /\ policy' = Effective(target.cfg)
    /\ healthy' = TRUE
    /\ swept' = FALSE
    /\ UNCHANGED <<disk, temp, mode, pc, op, victims, reported, counters>>

\* A backend fault, a stop of the capture or of the daemon.
TargetLost ==
    /\ mode = "ready" /\ healthy
    /\ healthy' = FALSE
    /\ UNCHANGED <<disk, temp, mode, live, policy, pc, op, victims, reported, swept, counters>>

Crash ==
    /\ mode # "down" /\ Troubles(1)
    /\ crashes' = crashes + 1
    /\ mode' = "down"
    /\ live' = DefaultConfig /\ policy' = DefaultConfig.refs
    /\ healthy' = FALSE /\ swept' = FALSE
    /\ pc' = "idle" /\ op' = NoOp /\ temp' = NoFile /\ victims' = {}
    /\ reported' = "none"
    /\ UNCHANGED <<disk, nextGen, faults, edits>>

\* The user edits the file: in place (as config init --force writes it) or by
\* putting another file under the name, or moves it away. The thresholds in it
\* are the daemon's and are left as they are.
UserEdit ==
    /\ Troubles(1)
    /\ edits' = edits + 1
    /\ \/ /\ target # NoFile
          /\ target' \in {[target EXCEPT !.cfg.edit = edits + 1],
                          [id |-> FreshId, cfg |-> [target.cfg EXCEPT !.edit = edits + 1]],
                          NoFile}
       \/ /\ target = NoFile
          /\ target' = [id |-> FreshId, cfg |-> [DefaultConfig EXCEPT !.edit = edits + 1]]
    /\ swept' = FALSE
    /\ UNCHANGED <<gens, temp, mode, live, policy, healthy, pc, op, victims, reported,
                   nextGen, faults, crashes>>

Saving == SaveOpen \/ SaveWrite \/ SaveCheck \/ SaveSwap \/ SaveVerify \/ SaveSync
          \/ SaveUndo \/ SaveSettle
Removing == (\E g \in Generations : Quarantine(g) \/ Discard(g)) \/ CleanupDone
StoreWorker == MakeGeneration \/ WriteSample \/ WriteMetadata \/ VerifyGeneration \/ Candidate
          \/ Saving \/ Install \/ Removing \/ Startup

StoreNext ==
    \/ \E c \in Channels : Calibrate(c) \/ Mutate("set", c) \/ Mutate("reset", c)
    \/ StoreWorker
    \/ Reload \/ TargetLost \/ Crash \/ UserEdit

StoreSpec == StoreInit /\ [][StoreNext]_storeVars
StoreFairSpec == StoreSpec /\ WF_storeVars(StoreWorker)

-----------------------------------------------------------------------------
(* Properties                                                              *)

\* Whatever the configuration file, the configuration in memory or the policy of
\* the session refers to is in the state directory, with sample and metadata.
Authoritative ==
    \A g \in (References(target.cfg) \cup References(live)
              \cup {policy[c].gen : c \in Channels}) \ {NoGen} : GenerationComplete(g)

\* A calibration that answers a definite error has published nothing: neither the
\* file nor the memory refers to the generation it wrote, so that the previous
\* threshold is what the session applies and what the next start loads.
FailedMeansUnpublished ==
    [][op.gen # NoGen /\ pc # "idle" /\ pc' = "idle" /\ reported' = "failed" =>
         op.gen \notin References(target'.cfg) \cup References(live')]_storeVars

\* When a startup has reconciled without a fault there are no orphans.
StartupSweeps ==
    swept => \A g \in Generations : gens[g].at # "absent" => g \in References(live)

\* The configuration in memory changes to what is in the file, or was put there by
\* the command that is being installed: a disk failure never leaves the live
\* policy ahead of the file.
NeverAhead ==
    [][live' # live /\ mode' # "down" =>
         \/ live' = target.cfg
         \/ edits > 0 /\ pc = "install"]_storeVars

\* Whatever the configuration file, the configuration in memory or the session's
\* policy refers to is in the state directory, complete, at every step of a
\* calibration, a cleanup, a crash and a restart; and a startup that reconciled
\* without a fault leaves no generation that nobody refers to.
StoreSound == Authoritative /\ StartupSweeps

\* A calibration that answers a definite error has published nothing, and the
\* session never applies a threshold that is not in the configuration file yet.
StoreSteps == FailedMeansUnpublished /\ NeverAhead

\* Every operation ends.
CommandEnds == (mode = "ready" /\ pc # "idle") ~> (pc = "idle")
=============================================================================
