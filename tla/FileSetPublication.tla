-------------------------- MODULE FileSetPublication --------------------------
(***************************************************************************)
(* Publication of a recall as a set of files, and its recovery.            *)
(*                                                                         *)
(* A persist request stages its WAV files in a private directory, writes a *)
(* manifest there, and then, file by file, copies a hidden partial beside  *)
(* the final name, renames it without replacing anything, and records each *)
(* step in the manifest (export_wav.rs, publish_recall_inner).  A manifest *)
(* is replaced through a temporary file (recovery.rs, write_prepared_at).  *)
(* Any step may fail; once a manifest exists the outcome is indeterminate  *)
(* and the next request recovers it from the manifest (recovery.rs,        *)
(* recover_recall_root_with_directories) before it prepares again.  The    *)
(* process may also die between any two steps; a starting session recovers *)
(* every transaction that has a manifest.  A reload builds a new session,  *)
(* recovers with it, and keeps the old one when that fails.                *)
(*                                                                         *)
(* A file is the transaction that wrote it; a device/inode identity is     *)
(* therefore the transaction number, and Foreign is anybody else's file.   *)
(* A transaction publishes into one group of final names, all in one       *)
(* folder below the output directory.  Death of the process is modelled,   *)
(* loss of power is not.                                                   *)
(***************************************************************************)
EXTENDS Integers, FiniteSets

CONSTANTS
    FileCount,        \* files of a transaction
    GroupCount,       \* groups of final names a request may render
    MaxTransactions,  \* bound: staging directories ever made
    MaxPrepares,      \* bound: calls of prepare by one session
    MaxFaults,        \* bound: failing operations while publishing
    MaxRepairFaults,  \* bound: failing operations while recovering
    MaxCrashes,       \* bound: deaths of the process
    MaxReloads,       \* bound: reloads
    MaxForeign,       \* bound: what others do in the folders (files, permissions)
    MaxTaken          \* bound: published files the user moves away

ASSUME BoundsAssumption ==
    /\ FileCount \in Nat \ {0} /\ GroupCount \in Nat \ {0} /\ MaxTransactions \in Nat
    /\ MaxPrepares \in Nat
    /\ {MaxFaults, MaxRepairFaults, MaxCrashes, MaxReloads, MaxForeign, MaxTaken} \subseteq Nat

Entries == 1..FileCount
Groups == 1..GroupCount
Transactions == 1..MaxTransactions

\* What a final name or a folder holds: nothing, somebody else's file, or the
\* file (folder) a transaction made.
Absent == 0
Foreign == -1

\* Manifest phases: Prepared, Publishing {index}, which is the index, Complete.
Prepared == 0
Complete == FileCount + 1

NoManifest == [some |-> FALSE, phase |-> Prepared, partials |-> {}, finals |-> {},
               folder |-> "exists"]

\* No identity of the parent has been retained yet.
NoParent == <<>>
NoArtifact == [kind |-> "none", entry |-> 1, stage |-> "public", parent |-> NoParent]

VARIABLES
    final,          \* what each final name holds
    folder,         \* what the folder of each group is
    parents,        \* whether others may write to it, and how often it was replaced
    disk,           \* what is on disk of each transaction
    quarantines,    \* quarantine directories that exist
    made,           \* transactions made so far
    ws,             \* PersistenceWorkspace of the session
    indeterminate,  \* DumpState.indeterminate_publication is Some
    pc,             \* where the operation worker is
    rec,            \* the recovery it runs
    scan,           \* the startup scan it runs
    counters,       \* the process-wide identity counter of workspaces
    budget,         \* what the bounds leave
    committed,      \* history: transactions committed by the coordinator
    range           \* history: the frozen range a transaction exports

disks == <<final, folder, parents, disk, quarantines>>
vars == <<final, folder, parents, disk, quarantines, made, ws, indeterminate, pc, rec, scan,
          counters, budget, committed, range>>

-----------------------------------------------------------------------------
(* State of the session *)

FreshWorkspace(id) ==
    [id |-> id, generation |-> 0, tx |-> 0, manifest |-> NoManifest, durable |-> FALSE,
     artifact |-> NoArtifact, completed |-> FALSE, leftover |-> "none"]

\* reset_slots and clear_recovered_transaction: the transaction is forgotten.
ClearedWorkspace ==
    [ws EXCEPT !.tx = 0, !.manifest = NoManifest, !.durable = FALSE, !.artifact = NoArtifact,
               !.completed = FALSE, !.leftover = "none"]

At(place) == pc.at = place
Goto(place) == pc' = [pc EXCEPT !.at = place]

NoRecovery == [step |-> "none", tx |-> 0, entry |-> 1, pending |-> FALSE, outcome |-> "none"]

Init ==
    /\ final = [g \in Groups |-> [i \in Entries |-> Absent]]
    /\ folder = [g \in Groups |-> Absent]
    /\ parents = [g \in Groups |-> [shared |-> FALSE, replaced |-> 0]]
    /\ disk = [t \in Transactions |->
                  [group |-> 1, dir |-> FALSE, staged |-> {}, partial |-> {},
                   manifest |-> NoManifest, temp |-> FALSE, range |-> 0]]
    /\ quarantines = {}
    /\ made = 0
    /\ ws = FreshWorkspace(0)
    /\ indeterminate = FALSE
    /\ pc = [at |-> "boot", entry |-> 1, io |-> "temp", what |-> "prepared"]
    /\ rec = NoRecovery
    /\ scan = [why |-> "start", seen |-> {}, failed |-> FALSE]
    /\ counters = 1
    /\ budget = [faults |-> MaxFaults, repairs |-> MaxRepairFaults, crashes |-> MaxCrashes,
                 reloads |-> MaxReloads, foreign |-> MaxForeign, taken |-> MaxTaken]
    /\ committed = {}
    /\ range = 1

\* An operation fails while publishing, or while recovering.
Spend(kind) == budget[kind] > 0 /\ budget' = [budget EXCEPT ![kind] = @ - 1]

-----------------------------------------------------------------------------
(* A persist request up to the staged files: persist_policy_with_delivery    *)
(* and PersistenceWorkspace::prepare_with_io.                                *)

session == <<made, ws, indeterminate, scan, counters, committed, range>>

StartRecovery(t) == rec' = [NoRecovery EXCEPT !.step = "read", !.tx = t]

\* A persist request: a committed publication that is not cleaned up comes first.
StartPersist ==
    /\ At("idle")
    /\ \/ made < MaxTransactions /\ ws.generation < MaxPrepares
       \/ ws.completed \/ indeterminate
    /\ IF ws.completed THEN Goto("head") /\ StartRecovery(ws.tx)
                       ELSE Goto("resolve") /\ UNCHANGED rec
    /\ UNCHANGED <<disks, session, budget>>

ArtifactGroup == disk[ws.tx].group

\* Device and inode of the directory: who made it, and which of theirs it is.
ParentIdentity == <<folder[ArtifactGroup], parents[ArtifactGroup].replaced>>

\* retain_and_validate_quarantine_parent: the parent must be the directory the first
\* attempt saw, belong to the daemon's user and be writable to nobody else.
ParentTrusted ==
    /\ ws.artifact.parent \in {NoParent, ParentIdentity}
    /\ ~parents[ArtifactGroup].shared

\* The identity of the parent is kept from the first attempt on.
Retained ==
    IF ws.artifact.parent = NoParent
    THEN [ws.artifact EXCEPT !.parent = ParentIdentity] ELSE ws.artifact

\* resolve_current_artifact up to the check of the parent.  A parent that is not
\* trusted ends the attempt, and so does one that is not there.
OpenParent ==
    \/ /\ folder[ArtifactGroup] # Absent
       /\ ws' = [ws EXCEPT !.artifact = Retained]
       /\ Goto(IF ParentTrusted THEN "artifact" ELSE "idle")
       /\ UNCHANGED budget
    \/ folder[ArtifactGroup] = Absent /\ Goto("idle") /\ UNCHANGED <<ws, budget>>
    \/ Spend("repairs") /\ Goto("idle") /\ UNCHANGED ws

\* recover_indeterminate_publication of the coordinator and of the workspace.
Resolve ==
    /\ At("resolve")
    /\ \/ ~indeterminate /\ Goto("prepare") /\ UNCHANGED <<ws, rec, budget>>
       \/ indeterminate /\ ws.artifact.kind # "none" /\ OpenParent /\ UNCHANGED rec
       \/ /\ indeterminate /\ ws.artifact.kind = "none"
          /\ Goto("retry")
          /\ StartRecovery(ws.tx)
          /\ UNCHANGED <<ws, budget>>
    /\ UNCHANGED <<disks, made, indeterminate, scan, counters, committed, range>>

\* remove_dir_all of the staging directory: everything in it goes.
EmptyStaging(t) ==
    disk' = [disk EXCEPT ![t].dir = FALSE, ![t].staged = {}, ![t].manifest = NoManifest,
                         ![t].temp = FALSE]

\* advance_transaction_generation and retry_pending_cleanup: a staging directory
\* that was left behind is removed first, and one whose identity could not be read
\* is refused for as long as it is there.
Prepare ==
    /\ At("prepare")
    /\ \/ /\ ws.leftover = "identified"
          /\ EmptyStaging(ws.tx)
          /\ ws' = [ClearedWorkspace EXCEPT !.generation = ws.generation + 1]
          /\ Goto("plan")
          /\ UNCHANGED budget
       \/ /\ \/ ws.leftover = "identified" /\ Spend("faults")
             \/ ws.leftover = "unidentified" /\ UNCHANGED budget
          /\ ws' = [ws EXCEPT !.generation = @ + 1]
          /\ Goto("idle")
          /\ UNCHANGED disk
       \/ /\ ws.leftover = "none"
          /\ ws' = [ClearedWorkspace EXCEPT !.generation = ws.generation + 1]
          /\ Goto("plan")
          /\ UNCHANGED <<disk, budget>>
    /\ UNCHANGED <<final, folder, parents, quarantines, made, indeterminate, rec, scan, counters,
                   committed, range>>

\* plan_policy_paths, preflight_planned_finals and create_staging: the names
\* must be free before anything is made.  A directory that was made but can
\* neither be looked at nor removed is left behind unidentified.
Plan ==
    /\ At("plan")
    /\ \/ \E g \in Groups :
            /\ made < MaxTransactions
            /\ \A i \in Entries : final[g][i] = Absent
            /\ made' = made + 1
            /\ disk' = [disk EXCEPT ![made + 1].group = g, ![made + 1].dir = TRUE,
                                    ![made + 1].range = range]
            /\ ws' = [ws EXCEPT !.tx = made + 1]
            /\ pc' = [pc EXCEPT !.at = "stream", !.entry = 1]
            /\ UNCHANGED budget
       \/ /\ \E g \in Groups, i \in Entries : final[g][i] # Absent
          /\ Goto("idle")
          /\ UNCHANGED <<made, disk, ws, budget>>
       \/ /\ Spend("faults")
          /\ Goto("idle")
          /\ \/ UNCHANGED <<made, disk, ws>>
             \/ /\ made < MaxTransactions
                /\ made' = made + 1
                /\ disk' = [disk EXCEPT ![made + 1].dir = TRUE]
                /\ ws' = [ws EXCEPT !.tx = made + 1, !.leftover = "unidentified"]
    /\ UNCHANGED <<final, folder, parents, quarantines, indeterminate, rec, scan, counters, committed,
                   range>>

\* stream_selected_wavs: one staged file per entry.  A failure drops the
\* transaction.
Stream ==
    /\ At("stream")
    /\ \/ /\ disk' = [disk EXCEPT ![ws.tx].staged = @ \cup {pc.entry}]
          /\ pc' = IF pc.entry < FileCount THEN [pc EXCEPT !.entry = @ + 1]
                                           ELSE [pc EXCEPT !.at = "preflight"]
          /\ UNCHANGED budget
       \/ Spend("faults") /\ Goto("drop") /\ UNCHANGED disk
    /\ UNCHANGED <<final, folder, parents, quarantines, session, rec>>

\* Drop of OwnedTransactionArtifacts, and error_after_cleanup: cleanup_transaction.
DropTransaction ==
    /\ At("drop")
    /\ \/ EmptyStaging(ws.tx) /\ ws' = ClearedWorkspace /\ UNCHANGED budget
       \/ Spend("faults") /\ ws' = [ws EXCEPT !.leftover = "identified"] /\ UNCHANGED disk
    /\ Goto("idle")
    /\ UNCHANGED <<final, folder, parents, quarantines, made, indeterminate, rec, scan, counters,
                   committed, range>>

-----------------------------------------------------------------------------
(* publish_recall_inner.  `Write(what, m)` begins to make `m` the manifest;   *)
(* `what` says where the publication goes on when it is written.             *)

Write(what, m) ==
    /\ ws' = [ws EXCEPT !.manifest = m]
    /\ pc' = [pc EXCEPT !.at = "write", !.io = "temp", !.what = what]

\* publish_prepared_recall after an error: with a manifest on disk the outcome
\* is indeterminate, without one the transaction is dropped.
Fails ==
    IF ws.durable THEN indeterminate' = TRUE /\ Goto("idle")
                  ELSE UNCHANGED indeterminate /\ Goto("drop")

\* ensure_final_absent for every file, and register_file_set_parent_intents.
Preflight ==
    /\ At("preflight")
    /\ LET g == disk[ws.tx].group IN
       \/ /\ \A i \in Entries : final[g][i] = Absent
          /\ Write("prepared",
                   [NoManifest EXCEPT !.some = TRUE,
                                      !.folder = IF folder[g] = Absent THEN "intent" ELSE "exists"])
          /\ UNCHANGED <<indeterminate, budget>>
       \/ /\ \E i \in Entries : final[g][i] # Absent
          /\ Fails
          /\ UNCHANGED <<ws, budget>>
       \/ Spend("faults") /\ Fails /\ UNCHANGED ws
    /\ UNCHANGED <<disks, made, rec, scan, counters, committed, range>>

\* write_prepared_at: create the temporary file and synchronise it.  On error it
\* is unlinked again.
WriteTemp ==
    /\ At("write") /\ pc.io = "temp"
    /\ \/ /\ disk' = [disk EXCEPT ![ws.tx].temp = TRUE]
          /\ pc' = [pc EXCEPT !.io = "swap"]
          /\ UNCHANGED <<indeterminate, budget>>
       \/ Spend("faults") /\ Fails /\ UNCHANGED disk
    /\ UNCHANGED <<final, folder, parents, quarantines, made, ws, rec, scan, counters, committed, range>>

\* The first manifest is renamed into place; a later one is exchanged with its
\* predecessor, which is then under the temporary name.
WriteSwap ==
    /\ At("write") /\ pc.io = "swap"
    /\ \/ /\ disk' = [disk EXCEPT ![ws.tx].manifest = ws.manifest, ![ws.tx].temp = ws.durable]
          /\ ws' = [ws EXCEPT !.durable = TRUE]
          /\ pc' = [pc EXCEPT !.io = IF ws.durable THEN "unlink" ELSE "sync"]
          /\ UNCHANGED <<indeterminate, budget>>
       \/ /\ Spend("faults")
          /\ disk' = [disk EXCEPT ![ws.tx].temp = FALSE]
          /\ Fails
          /\ UNCHANGED ws
    /\ UNCHANGED <<final, folder, parents, quarantines, made, rec, scan, counters, committed, range>>

\* The predecessor is unlinked.  When that fails it stays: the error path
\* unlinks the temporary name only while it holds the new manifest.
WriteUnlink ==
    /\ At("write") /\ pc.io = "unlink"
    /\ \/ /\ disk' = [disk EXCEPT ![ws.tx].temp = FALSE]
          /\ pc' = [pc EXCEPT !.io = "sync"]
          /\ UNCHANGED <<indeterminate, budget>>
       \/ Spend("faults") /\ Fails /\ UNCHANGED disk
    /\ UNCHANGED <<final, folder, parents, quarantines, made, ws, rec, scan, counters, committed, range>>

\* Where the publication goes on once a manifest is durable.
AfterWrite ==
    CASE pc.what = "prepared"   -> [pc EXCEPT !.at = "mkdir"]
      [] pc.what = "owned"      -> [pc EXCEPT !.at = "entry", !.entry = 1]
      [] pc.what = "publishing" -> [pc EXCEPT !.at = "partial"]
      [] pc.what = "partial"    -> [pc EXCEPT !.at = "rename"]
      [] pc.what = "final" /\ pc.entry < FileCount -> [pc EXCEPT !.at = "entry", !.entry = @ + 1]
      [] pc.what = "final" /\ pc.entry = FileCount -> [pc EXCEPT !.at = "sync"]
      [] pc.what = "complete"   -> [pc EXCEPT !.at = "verify"]

\* The directory of the manifest is synchronised; then the artifact the manifest
\* now records is no longer the workspace's to clean up.
WriteSync ==
    /\ At("write") /\ pc.io = "sync"
    /\ \/ /\ pc' = AfterWrite
          /\ ws' = IF pc.what \in {"partial", "final"} THEN [ws EXCEPT !.artifact = NoArtifact]
                                                       ELSE ws
          /\ UNCHANGED <<indeterminate, budget>>
       \/ Spend("faults") /\ Fails /\ UNCHANGED ws
    /\ UNCHANGED <<disks, made, rec, scan, counters, committed, range>>

\* materialize_file_set_parents: an intended folder is made and becomes owned,
\* unless somebody else has made it since.
MakeFolder ==
    /\ At("mkdir")
    /\ LET g == disk[ws.tx].group IN
       \/ /\ ws.manifest.folder = "intent" /\ folder[g] = Absent
          /\ folder' = [folder EXCEPT ![g] = ws.tx]
          /\ Write("owned", [ws.manifest EXCEPT !.folder = "owned"])
          /\ UNCHANGED <<indeterminate, budget>>
       \/ /\ ws.manifest.folder = "exists" \/ folder[g] # Absent
          /\ pc' = [pc EXCEPT !.at = "entry", !.entry = 1]
          /\ UNCHANGED <<folder, ws, indeterminate, budget>>
       \/ Spend("faults") /\ Fails /\ UNCHANGED <<folder, ws>>
    /\ UNCHANGED <<final, parents, disk, quarantines, made, rec, scan, counters, committed, range>>

\* The phase names the entry before anything of it exists.
BeginEntry ==
    /\ At("entry")
    /\ Write("publishing", [ws.manifest EXCEPT !.phase = pc.entry])
    /\ UNCHANGED <<disks, made, indeterminate, rec, scan, counters, budget, committed, range>>

\* Mutant: the slot is left empty.
CurrentForgotten(kind, i) == NoArtifact

\* CurrentArtifactSlot of a file that is made and not yet in the manifest.
Current(kind, i) == [kind |-> kind, entry |-> i, stage |-> "public", parent |-> NoParent]

\* create_new_file_at, copy and synchronise the partial.  From its creation the
\* workspace knows it as the current artifact.
CopyPartial ==
    /\ At("partial")
    /\ LET t == ws.tx
           i == pc.entry
           created == [ws EXCEPT !.artifact = Current("partial", i)]
       IN \/ /\ disk' = [disk EXCEPT ![t].partial = @ \cup {i}]
             /\ ws' = [created EXCEPT !.manifest.partials = @ \cup {i}]
             /\ pc' = [pc EXCEPT !.at = "write", !.io = "temp", !.what = "partial"]
             /\ UNCHANGED <<indeterminate, budget>>
          \/ /\ Spend("faults") /\ Fails
             /\ \/ UNCHANGED <<disk, ws>>
                \/ disk' = [disk EXCEPT ![t].partial = @ \cup {i}] /\ ws' = created
    /\ UNCHANGED <<final, folder, parents, quarantines, made, rec, scan, counters, committed, range>>

\* Mutant: the partial's identity stays beside the final's.
RecordFinalBeside(m, i) == [m EXCEPT !.finals = @ \cup {i}]

\* The final's identity replaces the partial's.
RecordFinal(m, i) == [m EXCEPT !.finals = @ \cup {i}, !.partials = @ \ {i}]

\* rename_no_replace_at: fails when the final name is taken.
RenameFinal ==
    /\ At("rename")
    /\ LET t == ws.tx
           i == pc.entry
           g == disk[t].group
       IN \/ /\ final[g][i] = Absent
             /\ final' = [final EXCEPT ![g][i] = t]
             /\ disk' = [disk EXCEPT ![t].partial = @ \ {i}]
             /\ ws' = [ws EXCEPT !.artifact = Current("final", i),
                                 !.manifest = RecordFinal(@, i)]
             /\ pc' = [pc EXCEPT !.at = "write", !.io = "temp", !.what = "final"]
             /\ UNCHANGED <<indeterminate, budget>>
          \/ /\ final[g][i] # Absent
             /\ Fails
             /\ UNCHANGED <<final, disk, ws, budget>>
          \/ Spend("faults") /\ Fails /\ UNCHANGED <<final, disk, ws>>
    /\ UNCHANGED <<folder, parents, quarantines, made, rec, scan, counters, committed, range>>

\* Open and synchronise the finals and their folders, then record completion.
SyncFinals ==
    /\ At("sync")
    /\ \/ /\ \A i \in Entries : final[disk[ws.tx].group][i] # Absent
          /\ Write("complete", [ws.manifest EXCEPT !.phase = Complete])
          /\ UNCHANGED <<indeterminate, budget>>
       \/ /\ \E i \in Entries : final[disk[ws.tx].group][i] = Absent
          /\ Fails
          /\ UNCHANGED <<ws, budget>>
       \/ Spend("faults") /\ Fails /\ UNCHANGED ws
    /\ UNCHANGED <<disks, made, rec, scan, counters, committed, range>>

\* The coordinator commits and delivers; the workspace owes the cleanup.
Commit(t) ==
    /\ ws' = [ws EXCEPT !.completed = TRUE]
    /\ committed' = committed \cup {t}
    /\ range' = range + 1
    /\ Goto("deliver")

\* verify_manifest_matches, then Published.
Verify ==
    /\ At("verify")
    /\ \/ Commit(ws.tx) /\ UNCHANGED <<indeterminate, budget>>
       \/ Spend("faults") /\ Fails /\ UNCHANGED <<ws, committed, range>>
    /\ UNCHANGED <<disks, made, rec, scan, counters>>

\* CompletionGuard: the response is delivered, well or not, and finalize recovers
\* the completed publication to clean it up.
Deliver ==
    /\ At("deliver")
    /\ Goto("finalize")
    /\ StartRecovery(ws.tx)
    /\ UNCHANGED <<disks, session, budget>>

-----------------------------------------------------------------------------
(* resolve_current_artifact_by_handoff: the file the manifest may not know    *)
(* is moved into a private directory and removed there.                      *)

Quarantine == <<ArtifactGroup, ws.id, ws.generation>>
InStage(s) == At("artifact") /\ ws.artifact.stage = s
ToStage(s) == ws' = [ws EXCEPT !.artifact.stage = s] /\ UNCHANGED pc
PublicOwner ==
    IF ws.artifact.kind = "final" THEN final[ArtifactGroup][ws.artifact.entry]
    ELSE IF ws.artifact.entry \in disk[ws.tx].partial THEN ws.tx ELSE Absent

\* open_authoritative_quarantine: a directory that is already there is not ours.
MakeQuarantine ==
    /\ InStage("public")
    /\ \/ /\ Quarantine \notin quarantines
          /\ quarantines' = quarantines \cup {Quarantine}
          /\ ToStage("made")
       \/ /\ Quarantine \in quarantines
          /\ Goto("idle")
          /\ UNCHANGED <<quarantines, ws>>
    /\ UNCHANGED <<final, folder, parents, disk, made, indeterminate, rec, scan, counters, budget,
                   committed, range>>

\* The public name is moved into the quarantine if it still holds our file; if it
\* holds nothing the quarantine goes at once.
Handoff ==
    /\ InStage("made")
    /\ LET i == ws.artifact.entry IN
       \/ /\ PublicOwner = ws.tx
          /\ IF ws.artifact.kind = "final"
             THEN final' = [final EXCEPT ![ArtifactGroup][i] = Absent] /\ UNCHANGED disk
             ELSE disk' = [disk EXCEPT ![ws.tx].partial = @ \ {i}] /\ UNCHANGED final
          /\ ToStage("held")
          /\ UNCHANGED quarantines
       \/ /\ PublicOwner = Absent /\ ParentTrusted
          /\ quarantines' = quarantines \ {Quarantine}
          /\ ToStage("removed")
          /\ UNCHANGED <<final, disk>>
       \/ /\ PublicOwner \notin {ws.tx, Absent} \/ (PublicOwner = Absent /\ ~ParentTrusted)
          /\ Goto("idle")
          /\ UNCHANGED <<final, disk, quarantines, ws>>
    /\ UNCHANGED <<folder, parents, made, indeterminate, rec, scan, counters, budget, committed,
                   range>>

\* resolve_private_artifact: unlink inside the quarantine.
UnlinkHeld ==
    /\ InStage("held")
    /\ ToStage("emptied")
    /\ UNCHANGED <<disks, made, indeterminate, rec, scan, counters, budget, committed, range>>

\* remove_empty_quarantine, which looks at the parent again.
RemoveQuarantine ==
    /\ InStage("emptied")
    /\ \/ /\ ParentTrusted
          /\ quarantines' = quarantines \ {Quarantine}
          /\ ToStage("removed")
       \/ ~ParentTrusted /\ Goto("idle") /\ UNCHANGED <<quarantines, ws>>
    /\ UNCHANGED <<final, folder, parents, disk, made, indeterminate, rec, scan, counters, budget,
                   committed, range>>

\* The parent is synchronised and the artifact is resolved.
ArtifactResolved ==
    /\ InStage("removed")
    /\ ws' = [ws EXCEPT !.artifact = NoArtifact]
    /\ Goto("resolve")
    /\ UNCHANGED <<disks, made, indeterminate, rec, scan, counters, budget, committed, range>>

\* A system call of any of these stages fails; the stage reached is kept.
ArtifactFails ==
    /\ At("artifact")
    /\ Spend("repairs")
    /\ Goto("idle")
    /\ UNCHANGED <<disks, session, rec>>

ResolveArtifact ==
    \/ MakeQuarantine \/ Handoff \/ UnlinkHeld \/ RemoveQuarantine \/ ArtifactResolved
    \/ ArtifactFails

-----------------------------------------------------------------------------
(* recover_recall_root_with_directories, for any caller.                     *)

\* validate_phase_state
ValidPhaseState(m) ==
    CASE m.phase = Prepared -> m.finals = {} /\ m.partials = {}
      [] m.phase = Complete -> m.finals = Entries /\ m.partials = {}
      [] OTHER -> \A i \in Entries :
                    CASE i < m.phase -> i \in m.finals /\ i \notin m.partials
                      [] i = m.phase -> ~(i \in m.finals /\ i \in m.partials)
                      [] OTHER -> i \notin m.finals /\ i \notin m.partials

\* Mutant: only what the manifest says is known.
FinalRecorded(t, i) == i \in disk[t].manifest.finals

\* inferred_final_identity: the manifest names the final, or names the partial
\* of the active entry and that partial has gone.
FinalKnown(t, i) ==
    LET m == disk[t].manifest IN
    i \in m.finals \/ (m.phase = i /\ i \in m.partials /\ i \notin disk[t].partial)

\* Mutant of CompleteFinalSet: the staged files must still be there.
CompleteWhileStaged(t) ==
    /\ \A i \in Entries : FinalKnown(t, i) /\ final[disk[t].group][i] = t
    /\ disk[t].staged = Entries

\* complete_final_set
CompleteFinalSet(t) ==
    \A i \in Entries : FinalKnown(t, i) /\ final[disk[t].group][i] = t

\* How a recovery goes on, ends with an outcome, or notes that something stays.
Step(s) == rec' = [rec EXCEPT !.step = s]
Ends(outcome) == rec' = [rec EXCEPT !.step = "done", !.outcome = outcome]
\* Mutant of Pends: it forgets to.
PendsForgotten(s) == rec' = [rec EXCEPT !.step = s]
Pends(s) == rec' = [rec EXCEPT !.step = s, !.pending = TRUE]
caller == <<made, ws, indeterminate, pc, scan, counters, committed, range>>

\* The manifest is read and validated and the finals are looked at.
ReadManifest ==
    /\ rec.step = "read"
    /\ LET t == rec.tx
           m == disk[t].manifest
       IN IF ~m.some \/ ~ValidPhaseState(m) THEN Ends("error")
          ELSE IF CompleteFinalSet(t) THEN Step("syncFinals")
          ELSE Step("final")
    /\ UNCHANGED <<disks, caller, budget>>

\* sync_regular_file and sync_file_set_directories.
RecoverSync ==
    /\ rec.step = "syncFinals"
    /\ IF CompleteFinalSet(rec.tx) THEN Step("tidy") ELSE Ends("error")
    /\ UNCHANGED <<disks, caller, budget>>

\* best_effort_remove_recall_metadata: the staged files, then, if nothing else is
\* in the directory, the manifest and the directory.  Failures are ignored.
TidyStaged ==
    /\ rec.step = "tidy"
    /\ \/ disk' = [disk EXCEPT ![rec.tx].staged = {}] /\ UNCHANGED budget
       \/ Spend("repairs") /\ UNCHANGED disk
    /\ Step("tidyManifest")
    /\ UNCHANGED <<final, folder, parents, quarantines, caller>>

OnlyManifest(t) == disk[t].staged = {} /\ ~disk[t].temp

TidyManifest ==
    /\ rec.step = "tidyManifest"
    /\ \/ /\ OnlyManifest(rec.tx)
          /\ disk' = [disk EXCEPT ![rec.tx].manifest = NoManifest]
          /\ Step("tidyDir")
          /\ UNCHANGED budget
       \/ /\ ~OnlyManifest(rec.tx)
          /\ Ends("complete")
          /\ UNCHANGED <<disk, budget>>
       \/ Spend("repairs") /\ Ends("complete") /\ UNCHANGED disk
    /\ UNCHANGED <<final, folder, parents, quarantines, caller>>

TidyDir ==
    /\ rec.step = "tidyDir"
    /\ \/ disk' = [disk EXCEPT ![rec.tx].dir = FALSE] /\ UNCHANGED budget
       \/ Spend("repairs") /\ UNCHANGED disk
    /\ Ends("complete")
    /\ UNCHANGED <<final, folder, parents, quarantines, caller>>

\* Mutant: whatever has the name goes.
RemovedByName(owner, t) == Absent

\* cleanup_file of a name whose identity is known: only our own file goes.
Removed(owner, t) == IF owner = t THEN Absent ELSE owner

\* cleanup_file of the final name: removed if it is known to be ours; left alone
\* if it is known and another's; unresolved if it is there and unknown.
RollBackFinal ==
    /\ rec.step = "final"
    /\ LET t == rec.tx
           i == rec.entry
           g == disk[t].group
       IN \/ /\ FinalKnown(t, i)
             /\ final' = [final EXCEPT ![g][i] = Removed(@, t)]
             /\ Step("partial")
             /\ UNCHANGED budget
          \/ /\ ~FinalKnown(t, i)
             /\ IF final[g][i] = Absent THEN Step("partial") ELSE Pends("partial")
             /\ UNCHANGED <<final, budget>>
          \/ Spend("repairs") /\ Pends("partial") /\ UNCHANGED final
    /\ UNCHANGED <<folder, parents, disk, quarantines, caller>>

\* cleanup_file of the partial.
RollBackPartial ==
    /\ rec.step = "partial"
    /\ LET t == rec.tx
           i == rec.entry
       IN \/ /\ i \in disk[t].manifest.partials
             /\ disk' = [disk EXCEPT ![t].partial = @ \ {i}]
             /\ Step("staged")
             /\ UNCHANGED budget
          \/ /\ i \notin disk[t].manifest.partials
             /\ IF i \in disk[t].partial THEN Pends("staged") ELSE Step("staged")
             /\ UNCHANGED <<disk, budget>>
          \/ Spend("repairs") /\ Pends("staged") /\ UNCHANGED disk
    /\ UNCHANGED <<final, folder, parents, quarantines, caller>>

\* cleanup_file of the staged file, whose identity the manifest always has.
RollBackStaged ==
    /\ rec.step = "staged"
    /\ \/ /\ disk' = [disk EXCEPT ![rec.tx].staged = @ \ {rec.entry}]
          /\ rec' = IF rec.entry < FileCount
                    THEN [rec EXCEPT !.step = "final", !.entry = @ + 1]
                    ELSE [rec EXCEPT !.step = "settle"]
          /\ UNCHANGED budget
       \/ /\ Spend("repairs")
          /\ rec' = [rec EXCEPT !.pending = TRUE,
                                !.step = IF rec.entry < FileCount THEN "final" ELSE "settle",
                                !.entry = IF rec.entry < FileCount THEN @ + 1 ELSE @]
          /\ UNCHANGED disk
    /\ UNCHANGED <<final, folder, parents, quarantines, caller>>

FolderEmpty(g) ==
    /\ \A i \in Entries : final[g][i] = Absent
    /\ \A t \in Transactions : disk[t].group = g => disk[t].partial = {}
    /\ \A q \in quarantines : q[1] # g

\* Anything unresolved ends the recovery.  Otherwise an owned folder is removed
\* if it is empty, best effort; a temporary manifest still ends it.
Settle ==
    /\ rec.step = "settle"
    /\ LET t == rec.tx
           g == disk[t].group
           owned == disk[t].manifest.folder = "owned" /\ folder[g] = t /\ FolderEmpty(g)
       IN \/ rec.pending /\ Ends("pending") /\ UNCHANGED <<folder, budget>>
          \/ /\ ~rec.pending
             /\ \/ /\ folder' = IF owned THEN [folder EXCEPT ![g] = Absent] ELSE folder
                   /\ UNCHANGED budget
                \/ owned /\ Spend("repairs") /\ UNCHANGED folder
             /\ IF OnlyManifest(t) THEN Step("manifest") ELSE Ends("pending")
    /\ UNCHANGED <<final, parents, disk, quarantines, caller>>

\* remove_if_identity of the manifest, then remove_directory_if_identity.
RemoveManifest ==
    /\ rec.step = "manifest"
    /\ disk' = [disk EXCEPT ![rec.tx].manifest = NoManifest]
    /\ Step("rmdir")
    /\ UNCHANGED <<final, folder, parents, quarantines, caller, budget>>

RemoveStaging ==
    /\ rec.step = "rmdir"
    /\ \/ disk' = [disk EXCEPT ![rec.tx].dir = FALSE] /\ Ends("rolledBack") /\ UNCHANGED budget
       \/ Spend("repairs") /\ Ends("pending") /\ UNCHANGED disk
    /\ UNCHANGED <<final, folder, parents, quarantines, caller>>

\* A system call whose error the recovery returns (reading, looking at a name,
\* synchronising, removing the manifest).
RecoveryFails ==
    /\ \/ rec.step \in {"read", "syncFinals", "final", "partial", "staged", "manifest"}
       \/ rec.step = "settle" /\ ~rec.pending
    /\ Spend("repairs")
    /\ Ends("error")
    /\ UNCHANGED <<disks, caller>>

Recover ==
    \/ ReadManifest \/ RecoverSync \/ TidyStaged \/ TidyManifest \/ TidyDir
    \/ RollBackFinal \/ RollBackPartial \/ RollBackStaged \/ Settle
    \/ RemoveManifest \/ RemoveStaging \/ RecoveryFails

-----------------------------------------------------------------------------
(* What the callers of a recovery do with its outcome.                       *)

Recovered(place) == At(place) /\ rec.step = "done" /\ rec' = NoRecovery

\* finish_completed_publication at the head of a request and in finalize.
FinishReturns ==
    /\ Recovered("head") \/ Recovered("finalize")
    /\ IF rec.outcome = "complete"
       THEN /\ ws' = ClearedWorkspace
            /\ Goto(IF At("head") THEN "resolve" ELSE "idle")
       ELSE Goto("idle") /\ UNCHANGED ws
    /\ UNCHANGED <<disks, made, indeterminate, scan, counters, budget, committed, range>>

\* recover_indeterminate_publication: a complete set is committed as it is, a
\* rolled back one is prepared again, anything else stays indeterminate.
RetryReturns ==
    /\ Recovered("retry")
    /\ CASE rec.outcome = "complete" ->
              Commit(ws.tx) /\ indeterminate' = FALSE
         [] rec.outcome = "rolledBack" ->
              /\ ws' = ClearedWorkspace
              /\ indeterminate' = FALSE
              /\ Goto("prepare")
              /\ UNCHANGED <<committed, range>>
         [] OTHER -> Goto("idle") /\ UNCHANGED <<ws, indeterminate, committed, range>>
    /\ UNCHANGED <<disks, made, scan, counters, budget>>

Marked == {t \in Transactions : disk[t].dir /\ disk[t].manifest.some}

\* Mutant: a directory that stays is met again.
SeenForgotten(t) == scan.seen

\* The iteration over the staging root comes to each directory once.
Seen(t) == scan.seen \cup {t}

\* recover_recall_staging_root_with_directories: every directory with a manifest.
ScanNext ==
    /\ At("boot") /\ rec.step = "none"
    /\ \E t \in Marked \ scan.seen :
         /\ StartRecovery(t)
         /\ scan' = [scan EXCEPT !.seen = Seen(t)]
    /\ UNCHANGED <<disks, made, ws, indeterminate, pc, counters, budget, committed, range>>

ScanReturns ==
    /\ Recovered("boot")
    /\ scan' = [scan EXCEPT !.failed = @ \/ rec.outcome = "error"]
    /\ UNCHANGED <<disks, made, ws, indeterminate, pc, counters, budget, committed, range>>

NewSession ==
    /\ ws' = FreshWorkspace(counters)
    /\ indeterminate' = FALSE
    /\ range' = range + 1

\* The session is installed if nothing failed.  Otherwise a start is attempted
\* again, and a reload leaves the old session as it was.
ScanEnds ==
    /\ At("boot") /\ rec.step = "none"
    /\ Marked \subseteq scan.seen
    /\ \/ ~scan.failed /\ NewSession /\ Goto("idle") /\ UNCHANGED budget
       \/ /\ scan.why = "start" /\ scan.failed
          /\ UNCHANGED <<ws, indeterminate, range, pc, budget>>
       \/ /\ scan.why = "reload" /\ scan.failed
          /\ Goto("idle")
          /\ UNCHANGED <<ws, indeterminate, range, budget>>
    /\ counters' = counters + 1
    /\ scan' = [why |-> "start", seen |-> {}, failed |-> FALSE]
    /\ UNCHANGED <<disks, made, rec, committed>>

-----------------------------------------------------------------------------
(* The surroundings *)

\* A reload starts a new session, which scans before it replaces the old one.
Reload ==
    /\ At("idle")
    /\ Spend("reloads")
    /\ scan' = [why |-> "reload", seen |-> {}, failed |-> FALSE]
    /\ Goto("boot")
    /\ UNCHANGED <<disks, made, ws, indeterminate, rec, counters, committed, range>>

\* The process dies and is started again: only the disk remains.
Crash ==
    /\ Spend("crashes")
    /\ ws' = FreshWorkspace(0)
    /\ counters' = 1
    /\ indeterminate' = FALSE
    /\ rec' = NoRecovery
    /\ scan' = [why |-> "start", seen |-> {}, failed |-> FALSE]
    /\ Goto("boot")
    /\ UNCHANGED <<disks, made, committed, range>>

\* Somebody puts a file under a final name.
ForeignFile(g, i) ==
    /\ Spend("foreign")
    /\ final[g][i] = Absent
    /\ final' = [final EXCEPT ![g][i] = Foreign]
    /\ folder' = IF folder[g] = Absent THEN [folder EXCEPT ![g] = Foreign] ELSE folder
    /\ UNCHANGED <<parents, disk, quarantines, session, pc, rec>>

\* The user moves a recording away as soon as it is under its final name.
UserTakes(g, i) ==
    /\ Spend("taken")
    /\ final[g][i] \in Transactions
    /\ final' = [final EXCEPT ![g][i] = Absent]
    /\ UNCHANGED <<folder, parents, disk, quarantines, session, pc, rec>>

\* A folder becomes writable to others, or another user's; it may be put right again.
\* Only the resolution of an artifact looks at that, so a change that comes earlier is
\* the same as one while the daemon is idle and has an artifact to resolve.
ShareFolder(g) ==
    /\ ws.artifact.kind # "none" /\ (At("idle") \/ At("artifact"))
    /\ \/ ~parents[g].shared /\ Spend("foreign")
       \/ parents[g].shared /\ UNCHANGED budget
    /\ parents' = [parents EXCEPT ![g].shared = ~@]
    /\ UNCHANGED <<final, folder, disk, quarantines, session, pc, rec>>

\* Between two attempts at a publication somebody moves the contents of its folder
\* into another one of the same name.
ReplaceFolder(g) ==
    /\ At("idle") /\ indeterminate /\ folder[g] # Absent
    /\ Spend("foreign")
    /\ folder' = [folder EXCEPT ![g] = Foreign]
    /\ parents' = [parents EXCEPT ![g].replaced = @ + 1]
    /\ UNCHANGED <<final, disk, quarantines, session, pc, rec>>

Publish ==
    \/ Resolve \/ Prepare \/ Plan \/ Stream \/ DropTransaction \/ Preflight
    \/ WriteTemp \/ WriteSwap \/ WriteUnlink \/ WriteSync \/ MakeFolder \/ BeginEntry
    \/ CopyPartial \/ RenameFinal \/ SyncFinals \/ Verify \/ Deliver

Return == FinishReturns \/ RetryReturns \/ ScanNext \/ ScanReturns \/ ScanEnds

Work == Publish \/ ResolveArtifact \/ Recover \/ Return

Environment ==
    \/ Reload \/ Crash
    \/ \E g \in Groups, i \in Entries : ForeignFile(g, i) \/ UserTakes(g, i)
    \/ \E g \in Groups : ShareFolder(g) \/ ReplaceFolder(g)

Next == Work \/ StartPersist \/ Environment

Spec == Init /\ [][Next]_vars

\* The worker goes on, and the client asks again for as long as it may.
FairSpec == Spec /\ WF_vars(Work) /\ WF_vars(StartPersist)

-----------------------------------------------------------------------------
(* Properties *)

\* The files of a transaction that are visible under their final names.
Visible(t) == {i \in Entries : final[disk[t].group][i] = t}

\* Every manifest a crash or an error can leave passes validate_phase_state, so a
\* recovery never refuses what publish_recall_inner wrote, wherever it stopped, and an
\* interrupted export never keeps the daemon from starting.
ManifestValid == \A t \in Transactions : disk[t].manifest.some => ValidPhaseState(disk[t].manifest)

\* Whenever the daemon is ready and holds no open publication, the recordings it
\* published are visible completely or not at all, wherever an earlier process
\* died or an earlier attempt failed.
NoTornSet == (At("idle") /\ ~indeterminate) => \A t \in Transactions : Visible(t) \in {{}, Entries}

\* The audio of one frozen range is never visible under two sets of names: a
\* retry publishes again only after the earlier attempt has been taken back.
SameAudioOnce ==
    \A t, u \in Transactions :
        (t # u /\ disk[t].range = disk[u].range /\ Visible(t) # {}) => Visible(u) = {}

\* When the coordinator commits and the response is delivered, every file the
\* response names is in place.
CommitVisible == At("deliver") => Visible(ws.tx) = Entries

\* No operation of a recovery has failed so far, and the user has moved nothing away.
Undisturbed == budget.repairs = MaxRepairFaults /\ budget.taken = MaxTaken

\* A set of recordings is all there or not there at all, whenever a client can rely
\* on it: while the daemon is at rest and when it delivers a response.  A recovery
\* whose own operations fail may leave a part behind (it says so and keeps the
\* manifest), and so does a user who moves one file of a set away.
SetWhole == Undisturbed => NoTornSet /\ CommitVisible

\* No step of the daemon removes or replaces a file or a folder it did not make.
ForeignKept ==
    [][/\ \A g \in Groups, i \in Entries : final[g][i] = Foreign => final'[g][i] = Foreign
       /\ \A g \in Groups : folder[g] = Foreign => folder'[g] = Foreign]_vars

\* Cleaning up never removes a recording that was committed, whatever fails or dies
\* meanwhile.  (Once its user has moved one file of the set away, complete_final_set
\* is false and the cleanup takes the others back.)
CommittedStays ==
    [][\A t \in committed : Visible(t) \subseteq Visible(t)' \/ budget'.taken < MaxTaken]_vars

\* What may keep a publication indeterminate for as long as it is there: the
\* temporary manifest of a failed unlink, another process's quarantine under the
\* name of its own, a foreign file under one of its final names, or, while a file
\* the manifest may not know is to be resolved, a folder that others may write to,
\* that is another user's, or that is not the one the first attempt saw.
Blocked ==
    \/ disk[ws.tx].temp
    \/ Quarantine \in quarantines /\ ws.artifact.stage = "public"
    \/ \E i \in Entries : final[ArtifactGroup][i] = Foreign
    \/ ws.artifact.kind # "none" /\ ~ParentTrusted

\* A publication with an unknown outcome is resolved by the requests that follow,
\* unless something it may not remove blocks it.
RetrySettles == []<>(indeterminate => Blocked)

\* A committed publication's cleanup comes to an end.
CleanupEnds == ws.completed ~> ~ws.completed

\* A starting daemon becomes ready.
StartEnds == At("boot") ~> At("idle")
=============================================================================
