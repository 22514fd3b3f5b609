---------------------- MODULE FileSetPublication_proofs ----------------------
(***************************************************************************)
(* That the publication of a set of files keeps its promises wherever it   *)
(* stops, for every number of files, groups, transactions, failures and    *)
(* deaths: what is on disk can be recovered, sets are visible completely   *)
(* or not at all, the same audio is never visible twice, and what was      *)
(* committed or is somebody else's is not touched.                         *)
(*                                                                         *)
(* The proof goes through outcomes.  For every action one lemma says what  *)
(* it does as the invariant sees it (its effect); the invariant is then    *)
(* shown of the outcomes, one lemma for each of its parts.                 *)
(***************************************************************************)
EXTENDS FileSetPublication, TLAPS

-----------------------------------------------------------------------------
(* Types                                                                   *)

Owners == Transactions \cup {Absent, Foreign}

IsManifest(m) ==
    /\ DOMAIN m = {"some", "phase", "partials", "finals", "folder"}
    /\ m.phase \in Int /\ m.partials \subseteq Entries /\ m.finals \subseteq Entries
IsDisk(d) ==
    /\ DOMAIN d = {"group", "dir", "staged", "partial", "manifest", "temp", "range"}
    /\ d.group \in Groups /\ IsManifest(d.manifest) /\ d.range \in Nat
IsWorkspace(w) ==
    /\ DOMAIN w = {"id", "generation", "tx", "manifest", "durable", "artifact", "completed", "leftover"}
    /\ w.tx \in Transactions \cup {0} /\ IsManifest(w.manifest)
    /\ DOMAIN w.artifact = {"kind", "entry", "stage", "parent"} /\ w.artifact.entry \in Entries
IsRecovery(r) ==
    /\ DOMAIN r = {"step", "tx", "entry", "pending", "outcome"}
    /\ r.tx \in Transactions \cup {0} /\ r.entry \in Entries
Whats == {"prepared", "owned", "publishing", "partial", "final", "complete"}
IsControl(p) == DOMAIN p = {"at", "entry", "io", "what"} /\ p.entry \in Entries /\ p.what \in Whats
IsScan(s) == DOMAIN s = {"why", "seen", "failed"} /\ s.seen \subseteq Transactions
IsBudget(b) ==
    /\ DOMAIN b = {"faults", "repairs", "crashes", "reloads", "foreign", "taken"}
    /\ b.repairs \in Int /\ b.repairs <= MaxRepairFaults
    /\ b.taken \in Int /\ b.taken <= MaxTaken
IsFinal(f) ==
    /\ DOMAIN f = Groups
    /\ \A g \in Groups : DOMAIN f[g] = Entries /\ \A i \in Entries : f[g][i] \in Owners
IsStore(d) == DOMAIN d = Transactions /\ \A t \in Transactions : IsDisk(d[t])

FileTypes ==
    /\ IsFinal(final) /\ IsStore(disk) /\ DOMAIN folder = Groups
    /\ made \in Nat /\ made <= MaxTransactions
    /\ IsWorkspace(ws) /\ IsControl(pc) /\ IsRecovery(rec) /\ IsScan(scan) /\ IsBudget(budget)
    /\ committed \subseteq Transactions
    /\ range \in Nat \ {0}

\* The user has moved nothing away; no operation of a recovery has failed.
Untaken == budget.taken = MaxTaken
Unfailed == budget.repairs = MaxRepairFaults

-----------------------------------------------------------------------------
(* The manifest of the publication under way.                              *)

Publishing == {"write", "mkdir", "entry", "partial", "rename", "sync", "verify"}
Working == Publishing \cup {"stream", "preflight", "drop"}

\* Entries below i are published, nothing else is begun.
Upto(m, i, phase) ==
    /\ m.some /\ m.phase = phase /\ m.partials = {}
    /\ \A j \in Entries : j \in m.finals <=> j < i
Begun(m, i) ==
    /\ m.some /\ m.phase = i /\ (\A j \in Entries : j \in m.partials <=> j = i)
    /\ \A j \in Entries : j \in m.finals <=> j < i

\* What the manifest in memory says, by what is being written.
Written(m, what, i) ==
    CASE what \in {"prepared", "owned"} -> Upto(m, 1, Prepared)
      [] what = "publishing" -> Upto(m, i, i)
      [] what = "partial" -> Begun(m, i)
      [] what = "final" -> Upto(m, i + 1, i)
      [] what = "complete" -> Upto(m, Complete, Complete)
Progress ==
    /\ At("write") => Written(ws.manifest, pc.what, pc.entry)
    /\ At("mkdir") => Upto(ws.manifest, 1, Prepared)
    /\ At("entry") => Upto(ws.manifest, pc.entry, pc.entry - 1)
    /\ At("partial") => Upto(ws.manifest, pc.entry, pc.entry)
    /\ At("rename") => Begun(ws.manifest, pc.entry)
    /\ At("sync") => Upto(ws.manifest, Complete, FileCount)
    /\ At("verify") => Upto(ws.manifest, Complete, Complete)

\* The manifest on disk is the one in memory, or, until the exchange, the one before.
Before(m, what, i) ==
    CASE what = "prepared" -> ~m.some
      [] what = "owned" -> Upto(m, 1, Prepared)
      [] what = "publishing" -> Upto(m, i, i - 1)
      [] what = "partial" -> Upto(m, i, i)
      [] what = "final" -> Begun(m, i)
      [] what = "complete" -> Upto(m, Complete, FileCount)
OnDisk ==
    /\ pc.at \in {"stream", "preflight", "drop"} => ~disk[ws.tx].manifest.some
    /\ pc.at \in Publishing =>
         LET m == disk[ws.tx].manifest
         IN IF At("write") /\ pc.io \in {"temp", "swap"} THEN Before(m, pc.what, pc.entry)
            ELSE m = ws.manifest
    /\ pc.at \in Publishing => (ws.durable <=> disk[ws.tx].manifest.some)
    /\ pc.at \in {"plan", "stream", "preflight", "drop"} => ~ws.durable
    /\ pc.at \in Working => disk[ws.tx].dir

\* What is under the final names of the publication under way.
Placed ==
    pc.at \in Publishing =>
        /\ \A i \in Entries : i \in Visible(ws.tx) => i \in ws.manifest.finals
        /\ Untaken => \A i \in ws.manifest.finals : i \in Visible(ws.tx)

-----------------------------------------------------------------------------
(* The session.                                                            *)

Returns == {"head", "finalize", "retry"}

\* Which transaction the workspace has, by where the worker is.
Workspace ==
    /\ ws.tx <= made
    /\ pc.at \in Working \cup Returns \cup {"deliver", "artifact"} => ws.tx # 0
    /\ ws.completed \/ indeterminate \/ ws.leftover # "none" => ws.tx # 0
    /\ ws.completed \/ indeterminate => ws.leftover = "none"
    /\ pc.at \in Working \cup {"plan"} => ws.leftover = "none"
    /\ pc.at \in {"deliver", "finalize", "head"} => ws.completed
    /\ pc.at \in Working \cup {"prepare", "plan", "resolve", "artifact", "retry"} => ~ws.completed
    /\ pc.at \in Working \cup {"prepare", "plan"} => ~indeterminate
    /\ pc.at \in {"artifact", "retry"} => indeterminate
    /\ ws.completed => ws.tx \in committed /\ ~indeterminate
    /\ ws.tx # 0 /\ ~ws.completed => ws.tx \notin committed
    /\ committed \subseteq 1 .. made

\* A transaction that is dropped has put nothing under a final name.
Unpublished ==
    /\ ws.leftover # "none" => ~disk[ws.tx].manifest.some /\ Visible(ws.tx) = {}
    /\ pc.at \in {"stream", "preflight", "drop"} => Visible(ws.tx) = {}

\* Who runs a recovery, and of which transaction.
Callers ==
    /\ rec.step # "none" => pc.at \in Returns \cup {"boot"} /\ rec.tx # 0 /\ rec.tx <= made
    /\ pc.at \in Returns => rec.step # "none" /\ rec.tx = ws.tx
    /\ At("boot") /\ rec.step # "none" => rec.tx \in scan.seen
    /\ rec.step = "read" => rec.entry = 1
Sessions == Workspace /\ Unpublished /\ Callers

-----------------------------------------------------------------------------
(* What is on disk of every transaction.                                   *)

\* A file under a final name was made by its transaction, in the group it is of.
Owned ==
    \A g \in Groups, i \in Entries : final[g][i] \in Transactions =>
        final[g][i] <= made /\ disk[final[g][i]].group = g

\* The manifest, while there is one, is in its directory and allows to know the files
\* that are visible.
Traces ==
    /\ \A t \in Transactions : disk[t].manifest.some => disk[t].dir /\ t <= made
    /\ \A t \in Transactions, i \in Entries :
         disk[t].manifest.some /\ i \in Visible(t) => FinalKnown(t, i)

\* How far the recovery has taken the set back, and what it has left when it ends. A
\* file it could not remove makes it pending.
Careful == ~rec.pending \/ Unfailed
TakenBack ==
    /\ rec.step = "final" /\ Careful => \A j \in Entries : j < rec.entry => j \notin Visible(rec.tx)
    /\ rec.step \in {"partial", "staged"} /\ Careful => \A j \in Entries : j <= rec.entry => j \notin Visible(rec.tx)
    /\ rec.step \in {"settle", "manifest", "rmdir"} /\ Careful => Visible(rec.tx) = {}
    /\ rec.step \in {"manifest", "rmdir"} => ~rec.pending
    /\ rec.step = "done" /\ rec.outcome = "rolledBack" => Visible(rec.tx) = {}
    /\ rec.step = "done" /\ rec.outcome = "pending" /\ Unfailed => Visible(rec.tx) = {}

\* A recovery that found the set complete leaves it so, and never takes a committed
\* one back.
LeftComplete ==
    /\ rec.step \in {"syncFinals", "tidy", "tidyManifest", "tidyDir"} /\ Untaken => Visible(rec.tx) = Entries
    /\ rec.step = "done" /\ rec.outcome = "complete" /\ Untaken => Visible(rec.tx) = Entries
    /\ rec.step \in {"final", "partial", "staged", "settle", "manifest", "rmdir"} /\ Untaken => Visible(rec.tx) # Entries

\* The manifest is the last thing to go.
MarkedSteps == {"syncFinals", "tidy", "tidyManifest", "final", "partial", "staged", "settle", "manifest"}
Gone ==
    \/ rec.step \in {"tidyDir", "rmdir"}
    \/ rec.step = "done" /\ rec.outcome \in {"complete", "rolledBack"}
MarksKept ==
    /\ rec.step \in MarkedSteps => disk[rec.tx].manifest.some
    /\ rec.step \in {"tidyDir", "rmdir"} => ~disk[rec.tx].manifest.some
    /\ rec.step = "done" /\ rec.outcome = "error" /\ Undisturbed => ~disk[rec.tx].manifest.some
    /\ rec.step = "done" => rec.outcome # "none"
    /\ At("boot") /\ rec.step = "read" => disk[rec.tx].manifest.some
    /\ At("boot") /\ rec.step = "done" /\ rec.outcome = "error" => ~Undisturbed
OpenMarked ==
    Undisturbed /\ indeterminate /\ ~At("boot") => disk[ws.tx].manifest.some \/ (At("retry") /\ Gone)
LastToGo == MarksKept /\ (scan.failed => ~Undisturbed) /\ OpenMarked
Recovering == TakenBack /\ LeftComplete /\ LastToGo

\* A committed set is complete until its user moves a file away.
Committed == Untaken => \A t \in committed : Visible(t) = Entries

\* A set of which a part is visible has its manifest, and somebody who looks after it:
\* the publication under way, the one of unknown outcome, or the scan.
Torn(t) == Visible(t) \notin {{}, Entries}
InHand(t) == t = ws.tx /\ (indeterminate \/ pc.at \in Publishing)
Orphaned == At("boot") /\ scan.why = "start"
Whole ==
    Undisturbed => \A t \in Transactions : Torn(t) =>
        /\ disk[t].manifest.some
        /\ Orphaned \/ InHand(t)
        /\ At("boot") => t \notin scan.seen \/ (rec.step \notin {"none", "done"} /\ rec.tx = t)

\* The audio of the range that is frozen now is visible only as the publication in hand.
Audio ==
    /\ SameAudioOnce
    /\ \A t \in Transactions : disk[t].range <= range /\ (t > made => disk[t].range = 0)
    /\ \A t \in Transactions : disk[t].range = range /\ Visible(t) # {} => Orphaned \/ InHand(t)
    /\ pc.at \in Working => disk[ws.tx].range = range

FileSetInv ==
    /\ FileTypes /\ Owned /\ ManifestValid /\ Progress /\ OnDisk /\ Placed /\ Sessions
    /\ Traces /\ Recovering /\ Committed /\ Whole /\ Audio

-----------------------------------------------------------------------------
(* What a step does, as the invariant sees it.                             *)

\* No operation of a recovery succeeds after the fact, and the user takes nothing.
Spends == (Unfailed' => Unfailed) /\ (Untaken' <=> Untaken)

\* What can be told of a transaction is as it was.
SameTx(t) ==
    /\ disk'[t].range = disk[t].range
    /\ Visible(t)' = Visible(t)
    /\ disk'[t].manifest.some <=> disk[t].manifest.some
    /\ disk[t].manifest.some => disk'[t].manifest = disk[t].manifest
    /\ disk[t].dir /\ ~disk'[t].dir => ~disk[t].manifest.some /\ pc'.at \notin Working
    /\ disk[t].manifest.some => \A i \in Entries : FinalKnown(t, i) => FinalKnown(t, i)'
Store == \A t \in Transactions : SameTx(t)
Others(t) == \A u \in Transactions \ {t} : SameTx(u)

WsIs(t, m, d, c, l) ==
    /\ ws'.tx = t /\ ws'.manifest = m /\ (ws'.durable <=> d) /\ (ws'.completed <=> c) /\ ws'.leftover = l
WsSame == WsIs(ws.tx, ws.manifest, ws.durable, ws.completed, ws.leftover)
WsCleared == WsIs(0, NoManifest, FALSE, FALSE, "none")
Books == made' = made /\ committed' = committed /\ range' = range
Steady == WsSame /\ (indeterminate' <=> indeterminate) /\ Books

PcIs(at, entry, io, what) == pc'.at = at /\ pc'.entry = entry /\ pc'.io = io /\ pc'.what = what
RecIs(step, t, entry, pending, outcome) ==
    /\ rec'.step = step /\ rec'.tx = t /\ rec'.entry = entry /\ (rec'.pending <=> pending)
    /\ rec'.outcome = outcome
Released == RecIs("none", 0, 1, FALSE, "none")
Looking(t) == RecIs("read", t, 1, FALSE, "none")
Apart == rec' = rec /\ scan' = scan

-----------------------------------------------------------------------------
(* Assignments to the records of the state.                                *)

\* What the assumption on the bounds gives.
LEMMA Bounds ==
    /\ FileCount \in Nat /\ FileCount >= 1 /\ 1 \in Entries /\ FileCount \in Entries
    /\ GroupCount \in Nat /\ 1 \in Groups
    /\ MaxTransactions \in Nat
    /\ MaxRepairFaults \in Nat /\ MaxTaken \in Nat
    /\ 0 \notin Transactions /\ Absent \notin Transactions /\ Foreign \notin Transactions
    /\ Absent # Foreign
    /\ Transactions \subseteq Nat /\ Entries \subseteq Nat
    /\ \A t \in Transactions : t >= 1 /\ t <= MaxTransactions
    /\ \A i \in Entries : i >= 1 /\ i <= FileCount
  BY BoundsAssumption DEF Entries, Groups, Transactions, Absent, Foreign

\* NoManifest is a manifest that is not there.
LEMMA NoManifestIs == IsManifest(NoManifest) /\ ~NoManifest.some
  BY DEF NoManifest, IsManifest, Prepared

\* The worker goes to another place.
LEMMA GotoIs ==
    ASSUME IsControl(pc), NEW p, Goto(p)
    PROVE  IsControl(pc') /\ PcIs(p, pc.entry, pc.io, pc.what)
  BY DEF IsControl, Goto, PcIs

\* The worker goes to another place, and to an entry.
LEMMA GoAt ==
    ASSUME IsControl(pc), NEW p, NEW i \in Entries, pc' = [pc EXCEPT !.at = p, !.entry = i]
    PROVE  IsControl(pc') /\ PcIs(p, i, pc.io, pc.what)
  BY DEF IsControl, PcIs

\* The writing of a manifest goes to its next call.
LEMMA GoIo ==
    ASSUME IsControl(pc), NEW io, pc' = [pc EXCEPT !.io = io]
    PROVE  IsControl(pc') /\ PcIs(pc.at, pc.entry, io, pc.what)
  BY DEF IsControl, PcIs

\* The worker goes to another entry.
LEMMA GoEntry ==
    ASSUME IsControl(pc), NEW i \in Entries, pc' = [pc EXCEPT !.entry = i]
    PROVE  IsControl(pc') /\ PcIs(pc.at, i, pc.io, pc.what)
  BY DEF IsControl, PcIs

\* The writing of a manifest begins.
LEMMA GoWrite ==
    ASSUME IsControl(pc), NEW w \in Whats, pc' = [pc EXCEPT !.at = "write", !.io = "temp", !.what = w]
    PROVE  IsControl(pc') /\ PcIs("write", pc.entry, "temp", w)
  BY DEF IsControl, PcIs

\* PersistenceWorkspace::new: a session starts without a transaction.
LEMMA WsFresh ==
    ASSUME NEW id, ws' = FreshWorkspace(id)
    PROVE  IsWorkspace(ws') /\ WsCleared
  BY NoManifestIs, Bounds DEF IsWorkspace, WsCleared, WsIs, FreshWorkspace, NoArtifact

\* reset_slots: the transaction is forgotten.
LEMMA WsClears ==
    ASSUME IsWorkspace(ws), ws' = ClearedWorkspace
    PROVE  IsWorkspace(ws') /\ WsCleared
  BY NoManifestIs, Bounds DEF IsWorkspace, WsCleared, WsIs, ClearedWorkspace, NoArtifact

\* prepare: the transaction is forgotten and the generation goes on.
LEMMA WsPrepared ==
    ASSUME IsWorkspace(ws), NEW n, ws' = [ClearedWorkspace EXCEPT !.generation = n]
    PROVE  IsWorkspace(ws') /\ WsCleared
  BY NoManifestIs, Bounds DEF IsWorkspace, WsCleared, WsIs, ClearedWorkspace, NoArtifact

\* prepare refuses: only the generation goes on.
LEMMA WsCounts ==
    ASSUME IsWorkspace(ws), NEW n, ws' = [ws EXCEPT !.generation = n]
    PROVE  IsWorkspace(ws') /\ WsSame
  BY DEF IsWorkspace, WsSame, WsIs

\* create_staging: the workspace has a transaction.
LEMMA WsTakes ==
    ASSUME IsWorkspace(ws), NEW t \in Transactions, ws' = [ws EXCEPT !.tx = t]
    PROVE  IsWorkspace(ws') /\ WsIs(t, ws.manifest, ws.durable, ws.completed, ws.leftover)
  BY DEF IsWorkspace, WsIs

\* create_staging fails: the workspace has a directory it could not look at.
LEMMA WsLeaves ==
    ASSUME IsWorkspace(ws), NEW t \in Transactions, NEW l, ws' = [ws EXCEPT !.tx = t, !.leftover = l]
    PROVE  IsWorkspace(ws') /\ WsIs(t, ws.manifest, ws.durable, ws.completed, l)
  BY DEF IsWorkspace, WsIs

\* cleanup_transaction fails: the workspace keeps the directory for later.
LEMMA WsAbandons ==
    ASSUME IsWorkspace(ws), NEW l, ws' = [ws EXCEPT !.leftover = l]
    PROVE  IsWorkspace(ws') /\ WsIs(ws.tx, ws.manifest, ws.durable, ws.completed, l)
  BY DEF IsWorkspace, WsIs

\* The manifest in memory is replaced.
LEMMA WsWrites ==
    ASSUME IsWorkspace(ws), NEW m, IsManifest(m), ws' = [ws EXCEPT !.manifest = m]
    PROVE  IsWorkspace(ws') /\ WsIs(ws.tx, m, ws.durable, ws.completed, ws.leftover)
  BY DEF IsWorkspace, WsIs

\* The manifest is on disk.
LEMMA WsDurable ==
    ASSUME IsWorkspace(ws), ws' = [ws EXCEPT !.durable = TRUE]
    PROVE  IsWorkspace(ws') /\ WsIs(ws.tx, ws.manifest, TRUE, ws.completed, ws.leftover)
  BY DEF IsWorkspace, WsIs

\* The publication is committed and its cleanup is owed.
LEMMA WsCompletes ==
    ASSUME IsWorkspace(ws), ws' = [ws EXCEPT !.completed = TRUE]
    PROVE  IsWorkspace(ws') /\ WsIs(ws.tx, ws.manifest, ws.durable, TRUE, ws.leftover)
  BY DEF IsWorkspace, WsIs

IsArtifact(a) == DOMAIN a = {"kind", "entry", "stage", "parent"} /\ a.entry \in Entries

\* The current artifact is registered or resolved.
LEMMA WsArtifact ==
    ASSUME IsWorkspace(ws), NEW a, IsArtifact(a), ws' = [ws EXCEPT !.artifact = a]
    PROVE  IsWorkspace(ws') /\ WsSame
  BY DEF IsWorkspace, WsSame, WsIs, IsArtifact

\* The current artifact reaches a stage of its handoff.
LEMMA WsStage ==
    ASSUME IsWorkspace(ws), NEW s, ws' = [ws EXCEPT !.artifact.stage = s]
    PROVE  IsWorkspace(ws') /\ WsSame
  BY DEF IsWorkspace, WsSame, WsIs

\* The current artifact is registered and the manifest in memory is replaced.
LEMMA WsCreates ==
    ASSUME IsWorkspace(ws), NEW a, IsArtifact(a), NEW m, IsManifest(m),
           ws' = [ws EXCEPT !.artifact = a, !.manifest = m]
    PROVE  IsWorkspace(ws') /\ WsIs(ws.tx, m, ws.durable, ws.completed, ws.leftover)
  BY DEF IsWorkspace, WsIs, IsArtifact

\* A recovery goes on to a step.
LEMMA RecStep ==
    ASSUME IsRecovery(rec), NEW s, Step(s)
    PROVE  IsRecovery(rec') /\ RecIs(s, rec.tx, rec.entry, rec.pending, rec.outcome)
  BY DEF IsRecovery, RecIs, Step

\* A recovery ends with an outcome.
LEMMA RecEnds ==
    ASSUME IsRecovery(rec), NEW o, Ends(o)
    PROVE  IsRecovery(rec') /\ RecIs("done", rec.tx, rec.entry, rec.pending, o)
  BY DEF IsRecovery, RecIs, Ends

\* A recovery goes on and remembers that something stays.
LEMMA RecPends ==
    ASSUME IsRecovery(rec), NEW s, Pends(s)
    PROVE  IsRecovery(rec') /\ RecIs(s, rec.tx, rec.entry, TRUE, rec.outcome)
  BY DEF IsRecovery, RecIs, Pends

\* A recovery begins with reading the manifest.
LEMMA RecStarts ==
    ASSUME NEW t \in Transactions \cup {0}, StartRecovery(t)
    PROVE  IsRecovery(rec') /\ Looking(t)
  BY Bounds DEF IsRecovery, RecIs, Looking, StartRecovery, NoRecovery

\* The caller has taken the outcome.
LEMMA RecReleased ==
    ASSUME rec' = NoRecovery
    PROVE  IsRecovery(rec') /\ Released
  BY Bounds DEF IsRecovery, RecIs, Released, NoRecovery

\* A failure that is no recovery's, a death, a reload or a foreign file.
LEMMA Spent ==
    ASSUME IsBudget(budget), NEW k \in {"faults", "crashes", "reloads", "foreign"}, Spend(k)
    PROVE  IsBudget(budget') /\ Spends /\ (Unfailed' <=> Unfailed)
  BY Bounds DEF IsBudget, Spend, Spends, Unfailed, Untaken

\* Nothing fails.
LEMMA Unspent ==
    ASSUME IsBudget(budget), UNCHANGED budget
    PROVE  IsBudget(budget') /\ Spends /\ (Unfailed' <=> Unfailed)
  BY DEF Spends, Unfailed, Untaken

\* An operation of a recovery fails.
LEMMA SpentRepair ==
    ASSUME IsBudget(budget), Spend("repairs")
    PROVE  IsBudget(budget') /\ Spends /\ ~Unfailed'
  BY Bounds DEF IsBudget, Spend, Spends, Unfailed, Untaken

\* The user moves a file away.
LEMMA SpentTaken ==
    ASSUME IsBudget(budget), Spend("taken")
    PROVE  IsBudget(budget') /\ ~Untaken' /\ (Unfailed' => Unfailed)
  BY Bounds DEF IsBudget, Spend, Spends, Unfailed, Untaken

-----------------------------------------------------------------------------
(* Assignments to the disk.                                                *)

Only(t) == \A u \in Transactions \ {t} : disk'[u] = disk[u]
TxIs(t, group, dir, partial, manifest, rng) ==
    /\ disk'[t].group = group /\ (disk'[t].dir <=> dir) /\ disk'[t].partial = partial
    /\ disk'[t].manifest = manifest /\ disk'[t].range = rng

\* remove_dir_all of the staging directory.
LEMMA TxEmptied ==
    ASSUME IsStore(disk), NEW t \in Transactions, EmptyStaging(t)
    PROVE  IsStore(disk') /\ Only(t) /\ TxIs(t, disk[t].group, FALSE, disk[t].partial, NoManifest, disk[t].range)
  BY NoManifestIs DEF IsStore, IsDisk, EmptyStaging, Only, TxIs

\* The staging directory is made for a group of names.
LEMMA TxMade ==
    ASSUME IsStore(disk), NEW t \in Transactions, NEW g \in Groups, NEW r \in Nat,
           disk' = [disk EXCEPT ![t].group = g, ![t].dir = TRUE, ![t].range = r]
    PROVE  IsStore(disk') /\ Only(t) /\ TxIs(t, g, TRUE, disk[t].partial, disk[t].manifest, r)
  BY DEF IsStore, IsDisk, Only, TxIs

\* The staging directory is made or removed.
LEMMA TxDir ==
    ASSUME IsStore(disk), NEW t \in Transactions, NEW b, disk' = [disk EXCEPT ![t].dir = b]
    PROVE  IsStore(disk') /\ Only(t) /\ TxIs(t, disk[t].group, b, disk[t].partial, disk[t].manifest, disk[t].range)
  BY DEF IsStore, IsDisk, Only, TxIs

\* Files are staged or removed from the staging directory.
LEMMA TxStaged ==
    ASSUME IsStore(disk), NEW t \in Transactions, NEW s, disk' = [disk EXCEPT ![t].staged = s]
    PROVE  /\ IsStore(disk') /\ Only(t)
           /\ TxIs(t, disk[t].group, disk[t].dir, disk[t].partial, disk[t].manifest, disk[t].range)
  BY DEF IsStore, IsDisk, Only, TxIs

\* The temporary manifest is written or unlinked.
LEMMA TxTemp ==
    ASSUME IsStore(disk), NEW t \in Transactions, NEW b, disk' = [disk EXCEPT ![t].temp = b]
    PROVE  /\ IsStore(disk') /\ Only(t)
           /\ TxIs(t, disk[t].group, disk[t].dir, disk[t].partial, disk[t].manifest, disk[t].range)
  BY DEF IsStore, IsDisk, Only, TxIs

\* The manifest is exchanged.
LEMMA TxSwapped ==
    ASSUME IsStore(disk), NEW t \in Transactions, NEW m, IsManifest(m), NEW b,
           disk' = [disk EXCEPT ![t].manifest = m, ![t].temp = b]
    PROVE  IsStore(disk') /\ Only(t) /\ TxIs(t, disk[t].group, disk[t].dir, disk[t].partial, m, disk[t].range)
  BY DEF IsStore, IsDisk, Only, TxIs

\* Partials are made or removed.
LEMMA TxPartial ==
    ASSUME IsStore(disk), NEW t \in Transactions, NEW p, disk' = [disk EXCEPT ![t].partial = p]
    PROVE  /\ IsStore(disk') /\ Only(t)
           /\ TxIs(t, disk[t].group, disk[t].dir, p, disk[t].manifest, disk[t].range)
  BY DEF IsStore, IsDisk, Only, TxIs

\* The manifest is removed.
LEMMA TxUnmarked ==
    ASSUME IsStore(disk), NEW t \in Transactions, disk' = [disk EXCEPT ![t].manifest = NoManifest]
    PROVE  /\ IsStore(disk') /\ Only(t)
           /\ TxIs(t, disk[t].group, disk[t].dir, disk[t].partial, NoManifest, disk[t].range)
  BY NoManifestIs DEF IsStore, IsDisk, Only, TxIs

\* The disk is as it was.
LEMMA StoreUnchanged ==
    ASSUME UNCHANGED <<final, disk, made>>, Owned
    PROVE  Store /\ Owned'
<1>1. \A t \in Transactions : Visible(t)' = Visible(t)
  BY DEF Visible
<1>2. \A t \in Transactions, i \in Entries : FinalKnown(t, i)' <=> FinalKnown(t, i)
  BY DEF FinalKnown
<1> QED BY <1>1, <1>2 DEF Store, SameTx, Owned

\* Only what the invariant does not tell of one transaction has changed.
LEMMA StoreTouched ==
    ASSUME FileTypes, Owned, UNCHANGED <<final, made>>,
           NEW t \in Transactions, IsStore(disk'), Only(t),
           NEW b, NEW p, NEW m,
           TxIs(t, disk[t].group, b, p, m, disk[t].range),
           m.some <=> disk[t].manifest.some,
           disk[t].manifest.some => m = disk[t].manifest,
           disk[t].dir /\ ~b => ~disk[t].manifest.some /\ pc'.at \notin Working,
           \A i \in Entries : i \in disk[t].manifest.partials => i \notin p \/ i \in disk[t].partial
    PROVE  Store /\ Owned'
<1>1. \A u \in Transactions : disk'[u].group = disk[u].group
  BY DEF Only, TxIs
<1>2. \A u \in Transactions : Visible(u)' = Visible(u)
  BY <1>1 DEF Visible
<1>3. \A u \in Transactions, i \in Entries : disk[u].manifest.some /\ FinalKnown(u, i) => FinalKnown(u, i)'
  BY DEF FinalKnown, Only, TxIs
<1>4. SameTx(t)
  BY <1>2, <1>3 DEF SameTx, TxIs
<1>5. Others(t)
  BY <1>2, <1>3 DEF SameTx, Only, Others
<1>6. Owned'
  BY <1>1 DEF Owned, FileTypes
<1> QED BY <1>4, <1>5, <1>6 DEF Store, Others

-----------------------------------------------------------------------------
(* The outcomes of the publication's steps.                                *)

\* From one place to another, nothing else.
Moves(a, b) ==
    /\ pc.at = a /\ pc'.at = b
    /\ Store /\ Steady /\ Spends /\ Apart
Strolls ==
    \/ Moves("idle", "resolve") /\ ~ws.completed
    \/ Moves("resolve", "prepare") /\ ~indeterminate
    \/ (Moves("resolve", "artifact") \/ Moves("resolve", "idle")) /\ indeterminate
    \/ Moves("prepare", "idle")
    \/ Moves("plan", "idle")
    \/ Moves("stream", "stream") \/ Moves("stream", "preflight") \/ Moves("stream", "drop")
    \/ Moves("artifact", "idle") \/ Moves("artifact", "resolve") \/ Moves("artifact", "artifact")

\* A recovery of the workspace's transaction is begun.
Turns(a, b) ==
    /\ pc.at = a /\ pc'.at = b
    /\ Store /\ Steady /\ Spends /\ Looking(ws.tx) /\ scan' = scan
Recalls ==
    \/ Turns("idle", "head") /\ ws.completed
    \/ Turns("resolve", "retry") /\ indeterminate
    \/ Turns("deliver", "finalize")

\* The transaction is forgotten.
Forgets(a, b) ==
    /\ pc.at = a /\ pc'.at = b
    /\ Store /\ WsCleared /\ (indeterminate' <=> indeterminate) /\ Books /\ Spends /\ Apart
Clears == Forgets("prepare", "plan") \/ Forgets("drop", "idle")

\* It is dropped and left behind.
Abandons ==
    /\ pc.at = "drop" /\ pc'.at = "idle"
    /\ WsIs(ws.tx, ws.manifest, ws.durable, ws.completed, "identified")
    /\ Store /\ (indeterminate' <=> indeterminate) /\ Books /\ Spends /\ Apart

\* A new transaction.
Advances == made' = made + 1 /\ made + 1 \in Transactions /\ committed' = committed /\ range' = range
Planned ==
    /\ pc.at = "plan" /\ pc'.at = "stream"
    /\ Others(made + 1)
    /\ disk'[made + 1].range = range /\ disk'[made + 1].dir /\ Visible(ws.tx)' = {}
    /\ disk'[made + 1].manifest = disk[made + 1].manifest
    /\ WsIs(made + 1, ws.manifest, ws.durable, ws.completed, ws.leftover)
    /\ (indeterminate' <=> indeterminate) /\ Advances /\ Spends /\ Apart
LeavesBehind ==
    /\ pc.at = "plan" /\ pc'.at = "idle"
    /\ Store
    /\ WsIs(made + 1, ws.manifest, ws.durable, ws.completed, "unidentified")
    /\ (indeterminate' <=> indeterminate) /\ Advances /\ Spends /\ Apart

\* An attempt fails, with a manifest on disk and without one.
GivesUp ==
    /\ pc.at \in Publishing \cup {"preflight"} /\ pc'.at = "idle"
    /\ ws.durable /\ indeterminate'
    /\ Store /\ WsSame /\ Books /\ Spends /\ Apart
Drops ==
    /\ pc.at \in Publishing \cup {"preflight"} /\ pc'.at = "drop"
    /\ ~ws.durable
    /\ Store /\ Steady /\ Spends /\ Apart

\* A manifest is begun.
SameBut(phase, partials, finals) ==
    /\ ws'.manifest.some <=> ws.manifest.some
    /\ ws'.manifest.phase = phase /\ ws'.manifest.partials = partials /\ ws'.manifest.finals = finals
WritesNext(a, what) ==
    /\ pc.at = a /\ PcIs("write", pc.entry, "temp", what)
    /\ WsIs(ws.tx, ws'.manifest, ws.durable, ws.completed, ws.leftover)
    /\ (indeterminate' <=> indeterminate) /\ Books /\ Spends /\ Apart
Begins ==
    /\ Store
    /\ \/ WritesNext("preflight", "prepared") /\ Upto(ws'.manifest, 1, Prepared)
       \/ WritesNext("mkdir", "owned") /\ SameBut(ws.manifest.phase, ws.manifest.partials, ws.manifest.finals)
       \/ WritesNext("entry", "publishing") /\ SameBut(pc.entry, ws.manifest.partials, ws.manifest.finals)
       \/ /\ WritesNext("partial", "partial")
          /\ SameBut(ws.manifest.phase, ws.manifest.partials \cup {pc.entry}, ws.manifest.finals)
       \/ WritesNext("sync", "complete") /\ SameBut(Complete, ws.manifest.partials, ws.manifest.finals)

\* A file becomes visible.
Renames ==
    /\ Others(ws.tx)
    /\ Visible(ws.tx)' = Visible(ws.tx) \cup {pc.entry}
    /\ disk'[ws.tx].range = disk[ws.tx].range
    /\ disk'[ws.tx].manifest = disk[ws.tx].manifest /\ (disk'[ws.tx].dir <=> disk[ws.tx].dir)
    /\ \A i \in Entries : FinalKnown(ws.tx, i) => FinalKnown(ws.tx, i)'
    /\ disk[ws.tx].manifest.phase = pc.entry /\ pc.entry \in disk[ws.tx].manifest.partials
          => FinalKnown(ws.tx, pc.entry)'
    /\ WritesNext("rename", "final")
    /\ SameBut(ws.manifest.phase, ws.manifest.partials \ {pc.entry}, ws.manifest.finals \cup {pc.entry})

\* A manifest is written and exchanged, and the publication goes on.
Temps ==
    /\ pc.at = "write" /\ pc.io = "temp" /\ PcIs("write", pc.entry, "swap", pc.what)
    /\ Store /\ Steady /\ Spends /\ Apart
Swaps ==
    /\ pc.at = "write" /\ pc.io = "swap"
    /\ \E io \in {"unlink", "sync"} : PcIs("write", pc.entry, io, pc.what)
    /\ Others(ws.tx)
    /\ disk'[ws.tx].manifest = ws.manifest /\ (disk'[ws.tx].dir <=> disk[ws.tx].dir)
    /\ disk'[ws.tx].range = disk[ws.tx].range /\ Visible(ws.tx)' = Visible(ws.tx)
    /\ WsIs(ws.tx, ws.manifest, TRUE, ws.completed, ws.leftover)
    /\ (indeterminate' <=> indeterminate) /\ Books /\ Spends /\ Apart
Unlinks ==
    /\ pc.at = "write" /\ pc.io = "unlink" /\ PcIs("write", pc.entry, "sync", pc.what)
    /\ Store /\ Steady /\ Spends /\ Apart
Proceeds ==
    /\ \/ /\ pc.at = "write" /\ pc.io = "sync"
          /\ \/ pc.what = "prepared" /\ pc'.at = "mkdir"
             \/ pc.what = "owned" /\ pc'.at = "entry" /\ pc'.entry = 1
             \/ pc.what = "publishing" /\ pc'.at = "partial" /\ pc'.entry = pc.entry
             \/ pc.what = "partial" /\ pc'.at = "rename" /\ pc'.entry = pc.entry
             \/ pc.what = "final" /\ pc.entry < FileCount /\ pc'.at = "entry" /\ pc'.entry = pc.entry + 1
             \/ pc.what = "final" /\ pc.entry = FileCount /\ pc'.at = "sync"
             \/ pc.what = "complete" /\ pc'.at = "verify"
       \/ pc.at = "mkdir" /\ pc'.at = "entry" /\ pc'.entry = 1
    /\ Store /\ Steady /\ Spends /\ Apart

\* The publication is committed.
Commits ==
    /\ pc'.at = "deliver"
    /\ \/ pc.at = "verify" /\ (indeterminate' <=> indeterminate) /\ rec' = rec
       \/ /\ pc.at = "retry" /\ ~indeterminate'
          /\ rec.step = "done" /\ rec.outcome = "complete" /\ Released
    /\ WsIs(ws.tx, ws.manifest, ws.durable, TRUE, ws.leftover)
    /\ made' = made /\ committed' = committed \cup {ws.tx} /\ range' = range + 1
    /\ Store /\ Spends /\ scan' = scan

\* A file disappears from under its final name, and nothing else changes on disk.
Loses(t, i) ==
    /\ Visible(t)' = Visible(t) \ {i}
    /\ Others(t)
    /\ disk'[t] = disk[t]
    /\ \A j \in Entries : FinalKnown(t, j) => FinalKnown(t, j)'
HandsOff ==
    /\ pc.at = "artifact" /\ pc'.at = "artifact"
    /\ \E i \in Entries : Loses(ws.tx, i)
    /\ Steady /\ Spends /\ Apart

-----------------------------------------------------------------------------
(* The outcomes of a recovery's steps.                                     *)

Within == pc' = pc /\ scan' = scan /\ Steady /\ Spends

Steps(a, b) ==
    /\ rec.step = a /\ RecIs(b, rec.tx, rec.entry, rec.pending, rec.outcome)
    /\ Within
Closes(a, outcome) ==
    /\ rec.step = a /\ RecIs("done", rec.tx, rec.entry, rec.pending, outcome)
    /\ Within

Reads ==
    /\ Store
    /\ \/ /\ Closes("read", "error")
          /\ ~disk[rec.tx].manifest.some \/ ~ValidPhaseState(disk[rec.tx].manifest)
       \/ /\ disk[rec.tx].manifest.some
          /\ Steps("read", "syncFinals") /\ CompleteFinalSet(rec.tx)
       \/ /\ disk[rec.tx].manifest.some
          /\ Steps("read", "final") /\ ~CompleteFinalSet(rec.tx)
Rechecks ==
    /\ Store
    /\ \/ Steps("syncFinals", "tidy")
       \/ Closes("syncFinals", "error") /\ ~CompleteFinalSet(rec.tx)
Tidies ==
    /\ Store
    /\ \/ Steps("tidy", "tidyManifest")
       \/ Closes("tidyManifest", "complete")
       \/ Closes("tidyDir", "complete")

\* The manifest goes.
Unmarks ==
    /\ Steps("tidyManifest", "tidyDir") \/ Steps("manifest", "rmdir")
    /\ Others(rec.tx)
    /\ ~disk'[rec.tx].manifest.some
    /\ disk'[rec.tx].range = disk[rec.tx].range /\ Visible(rec.tx)' = Visible(rec.tx)

\* One file is looked at: under its final name, as a partial, and staged.
Rolls(a, b) ==
    /\ rec.step = a
    /\ \E p \in BOOLEAN : RecIs(b, rec.tx, rec.entry, p, rec.outcome) /\ (rec.pending => p)
    /\ Within
TakesBack ==
    /\ Rolls("final", "partial")
    /\ \/ /\ FinalKnown(rec.tx, rec.entry) /\ Loses(rec.tx, rec.entry)
          /\ rec'.pending <=> rec.pending
       \/ ~FinalKnown(rec.tx, rec.entry) /\ Store
       \/ rec'.pending /\ ~Unfailed' /\ Store
SkipsPartial == Rolls("partial", "staged") /\ Store
SkipsStaged ==
    /\ rec.step = "staged"
    /\ \E p \in BOOLEAN :
         /\ rec.pending => p
         /\ \/ rec.entry < FileCount /\ RecIs("final", rec.tx, rec.entry + 1, p, rec.outcome)
            \/ rec.entry = FileCount /\ RecIs("settle", rec.tx, rec.entry, p, rec.outcome)
    /\ Within /\ Store
Settles ==
    /\ Store
    /\ \/ Closes("settle", "pending")
       \/ ~rec.pending /\ Steps("settle", "manifest")
Ending ==
    /\ Store
    /\ \/ Closes("rmdir", "rolledBack")
       \/ Closes("rmdir", "pending") /\ ~Unfailed'
Breaks ==
    /\ \E s \in {"read", "syncFinals", "final", "partial", "staged", "manifest", "settle"} : Closes(s, "error")
    /\ ~Unfailed' /\ Store

-----------------------------------------------------------------------------
(* The outcomes of what runs a recovery, and of the surroundings.          *)

Finishes ==
    /\ rec.step = "done" /\ Released /\ scan' = scan
    /\ Store /\ (indeterminate' <=> indeterminate) /\ Books /\ Spends
    /\ \/ pc.at = "head" /\ pc'.at = "resolve" /\ WsCleared
       \/ pc.at = "finalize" /\ pc'.at = "idle" /\ WsCleared
       \/ pc.at \in {"head", "finalize"} /\ pc'.at = "idle" /\ WsSame
Reprepares ==
    /\ pc.at = "retry" /\ pc'.at = "prepare"
    /\ rec.step = "done" /\ rec.outcome = "rolledBack" /\ Released /\ scan' = scan
    /\ Store /\ WsCleared /\ ~indeterminate' /\ Books /\ Spends
StaysOpen ==
    /\ pc.at = "retry" /\ pc'.at = "idle"
    /\ rec.step = "done" /\ rec.outcome \notin {"complete", "rolledBack"} /\ Released /\ scan' = scan
    /\ Store /\ Steady /\ Spends
ScanIs(why, seen, failed) == scan'.why = why /\ scan'.seen = seen /\ (scan'.failed <=> failed)
Scans ==
    /\ pc.at = "boot" /\ pc' = pc /\ rec.step = "none"
    /\ \E t \in Transactions :
         /\ disk[t].manifest.some
         /\ Looking(t) /\ ScanIs(scan.why, scan.seen \cup {t}, scan.failed)
    /\ Store /\ Steady /\ Spends
Scanned ==
    /\ pc.at = "boot" /\ pc' = pc
    /\ rec.step = "done" /\ Released
    /\ ScanIs(scan.why, scan.seen, scan.failed \/ rec.outcome = "error")
    /\ Store /\ Steady /\ Spends
Ready ==
    /\ pc.at = "boot" /\ pc'.at = "idle" /\ rec.step = "none" /\ rec' = rec
    /\ \A t \in Transactions : disk[t].dir /\ disk[t].manifest.some => t \in scan.seen
    /\ ~scan.failed /\ ScanIs("start", {}, FALSE)
    /\ WsCleared /\ ~indeterminate' /\ made' = made /\ committed' = committed /\ range' = range + 1
    /\ Store /\ Spends
Again ==
    /\ pc.at = "boot" /\ rec.step = "none" /\ rec' = rec
    /\ \/ scan.why = "start" /\ pc' = pc
       \/ scan.why = "reload" /\ pc'.at = "idle"
    /\ scan.failed /\ ScanIs("start", {}, FALSE)
    /\ Store /\ Steady /\ Spends
Reloads ==
    /\ pc.at = "idle" /\ pc'.at = "boot" /\ rec' = rec
    /\ ScanIs("reload", {}, FALSE)
    /\ Store /\ Steady /\ Spends
Dies ==
    /\ pc'.at = "boot" /\ Released /\ ScanIs("start", {}, FALSE)
    /\ WsCleared /\ ~indeterminate' /\ Books
    /\ Store /\ Spends
Unseen ==
    /\ Store /\ Steady /\ Spends /\ Apart /\ pc' = pc
Takes ==
    /\ \E t \in Transactions, i \in Entries : Loses(t, i)
    /\ ~Untaken' /\ (Unfailed' => Unfailed)
    /\ Steady /\ Apart /\ pc' = pc

-----------------------------------------------------------------------------
(* The steps of a request, up to the staged files.                         *)

\* What every step keeps, whatever else it does.
Sane == FileTypes' /\ Owned'

\* StartPersist goes on or recovers the completed publication first.
LEMMA StartPersistEffect ==
    ASSUME FileSetInv, StartPersist
    PROVE  Sane /\ (Strolls \/ Recalls)
<1>t. FileTypes /\ Owned /\ IsWorkspace(ws) /\ IsControl(pc) /\ IsRecovery(rec) /\ IsBudget(budget)
  BY DEF FileSetInv, FileTypes
<1>1. Store /\ Owned'
  BY <1>t, StoreUnchanged DEF StartPersist, disks, session
<1>2. Steady
  BY DEF StartPersist, session, Steady, WsSame, WsIs, Books
<1>3. IsBudget(budget') /\ Spends
  BY <1>t, Unspent DEF StartPersist
<1>4. CASE ws.completed
  <2>1. Goto("head") /\ StartRecovery(ws.tx) /\ pc.at = "idle"
    BY <1>4 DEF StartPersist, At
  <2>2. ws.tx \in Transactions \cup {0}
    BY <1>t DEF IsWorkspace
  <2>3. IsControl(pc') /\ PcIs("head", pc.entry, pc.io, pc.what) /\ IsRecovery(rec') /\ Looking(ws.tx)
    BY <1>t, <2>1, <2>2, GotoIs, RecStarts
  <2>4. FileTypes'
    BY <1>t, <1>3, <2>3 DEF StartPersist, disks, session, FileTypes
  <2>5. Recalls
    BY <1>1, <1>2, <1>3, <1>4, <2>1, <2>3 DEF StartPersist, session, Recalls, Turns, PcIs
  <2> QED BY <1>1, <2>4, <2>5 DEF Sane
<1>5. CASE ~ws.completed
  <2>1. Goto("resolve") /\ rec' = rec /\ pc.at = "idle"
    BY <1>5 DEF StartPersist, At
  <2>2. IsControl(pc') /\ PcIs("resolve", pc.entry, pc.io, pc.what)
    BY <1>t, <2>1, GotoIs
  <2>3. FileTypes'
    BY <1>t, <1>3, <2>1, <2>2 DEF StartPersist, disks, session, FileTypes
  <2>4. Strolls
    BY <1>1, <1>2, <1>3, <1>5, <2>1, <2>2 DEF StartPersist, session, Strolls, Moves, PcIs, Apart
  <2> QED BY <1>1, <2>3, <2>4 DEF Sane
<1> QED BY <1>4, <1>5

\* The parent's identity is in the artifact, or is put there.
LEMMA RetainedIs ==
    ASSUME IsWorkspace(ws)
    PROVE  IsArtifact(Retained)
  BY DEF IsWorkspace, IsArtifact, Retained

\* Resolve goes on, gives up, or recovers the publication of unknown outcome.
LEMMA ResolveEffect ==
    ASSUME FileSetInv, Resolve
    PROVE  Sane /\ (Strolls \/ Recalls)
<1>t. FileTypes /\ Owned /\ IsWorkspace(ws) /\ IsControl(pc) /\ IsRecovery(rec) /\ IsBudget(budget)
      /\ pc.at = "resolve"
  BY DEF FileSetInv, FileTypes, Resolve, At
<1>u. UNCHANGED <<final, folder, disk, made, indeterminate, scan, committed, range>>
  BY DEF Resolve, disks
<1>1. Store /\ Owned' /\ Books
  BY <1>t, <1>u, StoreUnchanged DEF Books
<1>2. CASE indeterminate /\ Goto("retry") /\ StartRecovery(ws.tx) /\ UNCHANGED <<ws, budget>>
  <2>1. ws.tx \in Transactions \cup {0}
    BY <1>t DEF IsWorkspace
  <2>2. IsControl(pc') /\ PcIs("retry", pc.entry, pc.io, pc.what) /\ IsRecovery(rec') /\ Looking(ws.tx)
    BY <1>t, <1>2, <2>1, GotoIs, RecStarts
  <2>3. IsBudget(budget') /\ Spends
    BY <1>t, <1>2, Unspent
  <2>4. FileTypes'
    BY <1>t, <1>u, <1>2, <2>2, <2>3 DEF FileTypes
  <2>5. Recalls
    BY <1>t, <1>u, <1>1, <1>2, <2>2, <2>3 DEF Recalls, Turns, Steady, WsSame, WsIs, PcIs
  <2> QED BY <1>1, <2>4, <2>5 DEF Sane
<1>3. ASSUME NEW p \in {"prepare", "artifact", "idle"}, Goto(p), rec' = rec,
             p = "prepare" <=> ~indeterminate,
             ws' = ws \/ ws' = [ws EXCEPT !.artifact = Retained],
             UNCHANGED budget \/ Spend("repairs")
      PROVE  Sane /\ Strolls
  <2>1. IsControl(pc') /\ PcIs(p, pc.entry, pc.io, pc.what)
    BY <1>t, <1>3, GotoIs
  <2>2. IsWorkspace(ws') /\ WsSame
    <3>1. CASE ws' = ws
      BY <1>t, <3>1 DEF WsSame, WsIs
    <3>2. CASE ws' = [ws EXCEPT !.artifact = Retained]
      BY <1>t, <3>2, RetainedIs, WsArtifact
    <3> QED BY <1>3, <3>1, <3>2
  <2>3. IsBudget(budget') /\ Spends
    BY <1>t, <1>3, Unspent, SpentRepair
  <2>4. FileTypes'
    BY <1>t, <1>u, <1>3, <2>1, <2>2, <2>3 DEF FileTypes
  <2>5. Strolls
    BY <1>t, <1>u, <1>1, <1>3, <2>1, <2>2, <2>3 DEF Strolls, Moves, Steady, PcIs, Apart
  <2> QED BY <1>1, <2>4, <2>5 DEF Sane
<1>4. CASE indeterminate /\ OpenParent /\ UNCHANGED rec
  <2>1. CASE ws' = [ws EXCEPT !.artifact = Retained] /\ UNCHANGED budget
             /\ Goto(IF ParentTrusted THEN "artifact" ELSE "idle")
    BY <1>3, <1>4, <2>1
  <2>2. CASE Goto("idle") /\ UNCHANGED ws /\ (UNCHANGED budget \/ Spend("repairs"))
    BY <1>3, <1>4, <2>2
  <2> QED BY <1>4, <2>1, <2>2 DEF OpenParent
<1>5. CASE ~indeterminate /\ Goto("prepare") /\ UNCHANGED <<ws, rec, budget>>
  BY <1>3, <1>5
<1> QED BY <1>2, <1>4, <1>5 DEF Resolve

\* Prepare forgets the transaction before, or refuses.
LEMMA PrepareEffect ==
    ASSUME FileSetInv, Prepare
    PROVE  Sane /\ (Strolls \/ Clears)
<1>t. FileTypes /\ Owned /\ IsWorkspace(ws) /\ IsControl(pc) /\ IsRecovery(rec) /\ IsBudget(budget) /\ IsStore(disk)
  BY DEF FileSetInv, FileTypes
<1>1. CASE ws.leftover = "identified" /\ EmptyStaging(ws.tx)
           /\ ws' = [ClearedWorkspace EXCEPT !.generation = ws.generation + 1] /\ Goto("plan") /\ UNCHANGED budget
  <2>1. ws.tx \in Transactions /\ ~disk[ws.tx].manifest.some
    BY <1>t, <1>1 DEF FileSetInv, Sessions, Workspace, Unpublished, IsWorkspace
  <2>2. IsStore(disk') /\ Only(ws.tx)
        /\ TxIs(ws.tx, disk[ws.tx].group, FALSE, disk[ws.tx].partial, NoManifest, disk[ws.tx].range)
    BY <1>t, <1>1, <2>1, TxEmptied
  <2>3. IsControl(pc') /\ PcIs("plan", pc.entry, pc.io, pc.what) /\ IsWorkspace(ws') /\ WsCleared
    BY <1>t, <1>1, GotoIs, WsPrepared
  <2>4. Store /\ Owned'
    BY <1>t, <2>1, <2>2, <2>3, StoreTouched, NoManifestIs DEF Prepare, PcIs, Working, Publishing
  <2>5. IsBudget(budget') /\ Spends
    BY <1>t, <1>1, Unspent
  <2>6. FileTypes'
    BY <1>t, <2>2, <2>3, <2>5 DEF Prepare, FileTypes
  <2>7. Clears
    BY <2>3, <2>4, <2>5 DEF Prepare, Clears, Forgets, PcIs, Apart, Books, At
  <2> QED BY <2>4, <2>6, <2>7 DEF Sane
<1>2. CASE (Spend("faults") \/ UNCHANGED budget) /\ ws' = [ws EXCEPT !.generation = @ + 1] /\ Goto("idle")
           /\ UNCHANGED disk
  <2>1. IsControl(pc') /\ PcIs("idle", pc.entry, pc.io, pc.what) /\ IsWorkspace(ws') /\ WsSame
    BY <1>t, <1>2, GotoIs, WsCounts
  <2>2. Store /\ Owned'
    BY <1>t, <1>2, StoreUnchanged DEF Prepare
  <2>3. IsBudget(budget') /\ Spends
    BY <1>t, <1>2, Unspent, Spent
  <2>4. FileTypes'
    BY <1>t, <1>2, <2>1, <2>3 DEF Prepare, FileTypes
  <2>5. Strolls
    BY <2>1, <2>2, <2>3 DEF Prepare, Strolls, Moves, Steady, PcIs, Apart, Books, At
  <2> QED BY <2>2, <2>4, <2>5 DEF Sane
<1>3. CASE ws' = [ClearedWorkspace EXCEPT !.generation = ws.generation + 1] /\ Goto("plan")
           /\ UNCHANGED <<disk, budget>>
  <2>1. IsControl(pc') /\ PcIs("plan", pc.entry, pc.io, pc.what) /\ IsWorkspace(ws') /\ WsCleared
    BY <1>t, <1>3, GotoIs, WsPrepared
  <2>2. Store /\ Owned'
    BY <1>t, <1>3, StoreUnchanged DEF Prepare
  <2>3. IsBudget(budget') /\ Spends
    BY <1>t, <1>3, Unspent
  <2>4. FileTypes'
    BY <1>t, <1>3, <2>1, <2>3 DEF Prepare, FileTypes
  <2>5. Clears
    BY <2>1, <2>2, <2>3 DEF Prepare, Clears, Forgets, PcIs, Apart, Books, At
  <2> QED BY <2>2, <2>4, <2>5 DEF Sane
<1> QED BY <1>1, <1>2, <1>3 DEF Prepare

\* Plan makes a directory, refuses, or leaves one behind.
LEMMA PlanEffect ==
    ASSUME FileSetInv, Plan
    PROVE  Sane /\ (Strolls \/ Planned \/ LeavesBehind)
<1>t. FileTypes /\ Owned /\ IsWorkspace(ws) /\ IsControl(pc) /\ IsRecovery(rec) /\ IsBudget(budget) /\ IsStore(disk)
      /\ made \in Nat /\ range \in Nat /\ range # 0 /\ pc.at = "plan"
  BY DEF FileSetInv, FileTypes, Plan, At
<1>m. made < MaxTransactions => made + 1 \in Transactions
  BY <1>t, Bounds DEF Transactions
<1>v. \A t \in Transactions : t > made => \A g \in Groups, i \in Entries : final[g][i] # t
  BY <1>t, Bounds DEF Owned
<1>u. UNCHANGED <<final, folder, rec, scan, committed, range, indeterminate>>
  BY DEF Plan
<1>n. made < MaxTransactions => made + 1 \in Nat /\ made + 1 <= MaxTransactions
  BY <1>t, Bounds
<1>1. ASSUME NEW g \in Groups, made < MaxTransactions, made' = made + 1,
             disk' = [disk EXCEPT ![made + 1].group = g, ![made + 1].dir = TRUE, ![made + 1].range = range],
             ws' = [ws EXCEPT !.tx = made + 1], pc' = [pc EXCEPT !.at = "stream", !.entry = 1], UNCHANGED budget
      PROVE  Sane /\ Planned
  <2>1. PICK t \in Transactions : t = made + 1
    BY <1>m, <1>1
  <2>2. IsStore(disk') /\ Only(t) /\ TxIs(t, g, TRUE, disk[t].partial, disk[t].manifest, range)
    BY <1>t, <1>1, <2>1, TxMade
  <2>3. IsControl(pc') /\ PcIs("stream", 1, pc.io, pc.what)
    BY <1>t, <1>1, GoAt, Bounds
  <2>4. IsWorkspace(ws') /\ WsIs(t, ws.manifest, ws.durable, ws.completed, ws.leftover)
    BY <1>t, <1>1, <2>1, WsTakes
  <2>5. IsBudget(budget') /\ Spends
    BY <1>t, <1>1, Unspent
  <2>6. FileTypes'
    BY <1>t, <1>u, <1>n, <1>1, <2>2, <2>3, <2>4, <2>5 DEF FileTypes
  <2>7. final' = final
    BY DEF Plan
  <2>8. \A u \in Transactions \ {t} : Visible(u)' = Visible(u)
    BY <2>2, <2>7 DEF Visible, Only
  <2>9. Visible(t)' = {}
    <3>1. \A i \in Entries : final[g][i] # t
      BY <1>t, <1>v, <2>1
    <3> QED BY <2>2, <2>7, <3>1 DEF Visible, TxIs
  <2>10. \A u \in Transactions \ {t}, i \in Entries : FinalKnown(u, i)' <=> FinalKnown(u, i)
    BY <2>2 DEF FinalKnown, Only
  <2>11. Others(t)
    BY <2>2, <2>8, <2>10 DEF Others, SameTx, Only
  <2>12. Owned'
    <3>1. \A h \in Groups, i \in Entries : final[h][i] \in Transactions => final[h][i] \in Transactions \ {t}
      BY <1>t, <1>v, <2>1
    <3>2. \A h \in Groups, i \in Entries : final[h][i] \in Transactions => disk'[final[h][i]].group = disk[final[h][i]].group
      BY <2>2, <3>1 DEF Only
    <3>3. \A u \in Transactions : u <= made => u <= made'
      BY <1>t, <1>1, Bounds
    <3> QED BY <1>t, <2>7, <3>2, <3>3 DEF Owned
  <2>13. Planned
    BY <1>t, <1>u, <1>1, <2>1, <2>2, <2>3, <2>4, <2>5, <2>9, <2>11 DEF Planned, WsIs, PcIs, TxIs, Advances, Apart
  <2> QED BY <2>6, <2>12, <2>13 DEF Sane
<1>2. ASSUME Goto("idle"), UNCHANGED <<made, disk, ws>>, Spend("faults") \/ UNCHANGED budget
      PROVE  Sane /\ Strolls
  <2>1. IsControl(pc') /\ PcIs("idle", pc.entry, pc.io, pc.what)
    BY <1>t, <1>2, GotoIs
  <2>2. Store /\ Owned'
    BY <1>t, <1>2, StoreUnchanged DEF Plan
  <2>3. IsBudget(budget') /\ Spends
    BY <1>t, <1>2, Unspent, Spent
  <2>4. FileTypes'
    BY <1>t, <1>2, <2>1, <2>3 DEF Plan, FileTypes
  <2>5. Strolls
    BY <1>t, <1>2, <2>1, <2>2, <2>3 DEF Plan, Strolls, Moves, Steady, WsSame, WsIs, PcIs, Apart, Books
  <2> QED BY <2>2, <2>4, <2>5 DEF Sane
<1>3. ASSUME Goto("idle"), Spend("faults"), made < MaxTransactions, made' = made + 1,
             disk' = [disk EXCEPT ![made + 1].dir = TRUE],
             ws' = [ws EXCEPT !.tx = made + 1, !.leftover = "unidentified"]
      PROVE  Sane /\ LeavesBehind
  <2>1. PICK t \in Transactions : t = made + 1
    BY <1>m, <1>3
  <2>2. IsStore(disk') /\ Only(t)
        /\ TxIs(t, disk[t].group, TRUE, disk[t].partial, disk[t].manifest, disk[t].range)
    BY <1>t, <1>3, <2>1, TxDir
  <2>3. IsControl(pc') /\ PcIs("idle", pc.entry, pc.io, pc.what)
    BY <1>t, <1>3, GotoIs
  <2>4. IsWorkspace(ws') /\ WsIs(t, ws.manifest, ws.durable, ws.completed, "unidentified")
    BY <1>t, <1>3, <2>1, WsLeaves
  <2>5. IsBudget(budget') /\ Spends
    BY <1>t, <1>3, Spent
  <2>6. FileTypes'
    BY <1>t, <1>u, <1>n, <1>3, <2>2, <2>3, <2>4, <2>5 DEF FileTypes
  <2>7. final' = final
    BY DEF Plan
  <2>8. \A u \in Transactions : disk'[u].group = disk[u].group
    BY <2>2 DEF Only, TxIs
  <2>9. \A u \in Transactions : Visible(u)' = Visible(u)
    BY <2>7, <2>8 DEF Visible
  <2>10. \A u \in Transactions, i \in Entries : FinalKnown(u, i)' <=> FinalKnown(u, i)
    BY <2>2 DEF FinalKnown, Only, TxIs
  <2>11. Store
    BY <2>2, <2>9, <2>10 DEF Store, SameTx, Only, TxIs
  <2>12. Owned'
    <3>1. \A u \in Transactions : u <= made => u <= made'
      BY <1>t, <1>3, Bounds
    <3> QED BY <1>t, <2>7, <2>8, <3>1 DEF Owned
  <2>13. LeavesBehind
    BY <1>t, <1>u, <1>3, <2>1, <2>3, <2>4, <2>5, <2>11 DEF LeavesBehind, PcIs, Advances, Apart
  <2> QED BY <2>6, <2>12, <2>13 DEF Sane
<1> QED BY <1>1, <1>2, <1>3 DEF Plan

\* Stream stages a file, which is not seen outside.
LEMMA StreamEffect ==
    ASSUME FileSetInv, Stream
    PROVE  Sane /\ Strolls
<1>t. FileTypes /\ Owned /\ IsWorkspace(ws) /\ IsControl(pc) /\ IsRecovery(rec) /\ IsBudget(budget) /\ IsStore(disk)
      /\ pc.at = "stream"
  BY DEF FileSetInv, FileTypes, Stream, At
<1>s. Steady /\ Apart /\ UNCHANGED <<final, made>>
  BY DEF Stream, session, Steady, WsSame, WsIs, Books, Apart
<1>x. ws.tx \in Transactions
  BY <1>t DEF FileSetInv, Sessions, Workspace, Working, IsWorkspace
<1>1. CASE disk' = [disk EXCEPT ![ws.tx].staged = @ \cup {pc.entry}]
           /\ pc' = (IF pc.entry < FileCount THEN [pc EXCEPT !.entry = @ + 1] ELSE [pc EXCEPT !.at = "preflight"])
           /\ UNCHANGED budget
  <2>1. IsStore(disk') /\ Only(ws.tx)
        /\ TxIs(ws.tx, disk[ws.tx].group, disk[ws.tx].dir, disk[ws.tx].partial, disk[ws.tx].manifest, disk[ws.tx].range)
    BY <1>t, <1>1, <1>x, TxStaged
  <2>2. Store /\ Owned'
    BY <1>t, <1>s, <1>x, <2>1, StoreTouched
  <2>3. pc.entry < FileCount => pc.entry + 1 \in Entries
    BY <1>t, Bounds DEF IsControl, Entries
  <2>4. IsControl(pc') /\ pc'.at \in {"stream", "preflight"}
    BY <1>t, <1>1, <2>3, GoEntry, GotoIs DEF Goto, PcIs
  <2>5. IsBudget(budget') /\ Spends
    BY <1>t, <1>1, Unspent
  <2>6. FileTypes'
    BY <1>t, <2>1, <2>4, <2>5 DEF Stream, session, FileTypes
  <2>7. Strolls
    BY <1>t, <1>s, <2>2, <2>4, <2>5 DEF Strolls, Moves
  <2> QED BY <2>2, <2>6, <2>7 DEF Sane
<1>2. CASE Spend("faults") /\ Goto("drop") /\ UNCHANGED disk
  <2>1. IsControl(pc') /\ PcIs("drop", pc.entry, pc.io, pc.what)
    BY <1>t, <1>2, GotoIs
  <2>2. Store /\ Owned'
    BY <1>t, <1>s, <1>2, StoreUnchanged
  <2>3. IsBudget(budget') /\ Spends
    BY <1>t, <1>2, Spent
  <2>4. FileTypes'
    BY <1>t, <1>2, <2>1, <2>3 DEF Stream, session, FileTypes
  <2>5. Strolls
    BY <1>t, <1>s, <2>1, <2>2, <2>3 DEF Strolls, Moves, PcIs
  <2> QED BY <2>2, <2>4, <2>5 DEF Sane
<1> QED BY <1>1, <1>2 DEF Stream

\* DropTransaction empties the directory or leaves it behind.
LEMMA DropEffect ==
    ASSUME FileSetInv, DropTransaction
    PROVE  Sane /\ (Clears \/ Abandons)
<1>t. FileTypes /\ Owned /\ IsWorkspace(ws) /\ IsControl(pc) /\ IsRecovery(rec) /\ IsBudget(budget) /\ IsStore(disk)
      /\ pc.at = "drop"
  BY DEF FileSetInv, FileTypes, DropTransaction, At
<1>x. ws.tx \in Transactions /\ ~disk[ws.tx].manifest.some
  BY <1>t DEF FileSetInv, Sessions, Workspace, Working, IsWorkspace, OnDisk
<1>p. IsControl(pc') /\ PcIs("idle", pc.entry, pc.io, pc.what)
  BY <1>t, GotoIs DEF DropTransaction
<1>1. CASE EmptyStaging(ws.tx) /\ ws' = ClearedWorkspace /\ UNCHANGED budget
  <2>1. IsStore(disk') /\ Only(ws.tx)
        /\ TxIs(ws.tx, disk[ws.tx].group, FALSE, disk[ws.tx].partial, NoManifest, disk[ws.tx].range)
    BY <1>t, <1>1, <1>x, TxEmptied
  <2>2. IsWorkspace(ws') /\ WsCleared
    BY <1>t, <1>1, WsClears
  <2>3. Store /\ Owned'
    BY <1>t, <1>p, <1>x, <2>1, StoreTouched, NoManifestIs DEF DropTransaction, PcIs, Working, Publishing
  <2>4. IsBudget(budget') /\ Spends
    BY <1>t, <1>1, Unspent
  <2>5. FileTypes'
    BY <1>t, <1>p, <2>1, <2>2, <2>4 DEF DropTransaction, FileTypes
  <2>6. Clears
    BY <1>t, <1>p, <2>2, <2>3, <2>4 DEF DropTransaction, Clears, Forgets, PcIs, Apart, Books
  <2> QED BY <2>3, <2>5, <2>6 DEF Sane
<1>2. CASE Spend("faults") /\ ws' = [ws EXCEPT !.leftover = "identified"] /\ UNCHANGED disk
  <2>1. IsWorkspace(ws') /\ WsIs(ws.tx, ws.manifest, ws.durable, ws.completed, "identified")
    BY <1>t, <1>2, WsAbandons
  <2>2. Store /\ Owned'
    BY <1>t, <1>2, StoreUnchanged DEF DropTransaction
  <2>3. IsBudget(budget') /\ Spends
    BY <1>t, <1>2, Spent
  <2>4. FileTypes'
    BY <1>t, <1>2, <1>p, <2>1, <2>3 DEF DropTransaction, FileTypes
  <2>5. Abandons
    BY <1>t, <1>p, <2>1, <2>2, <2>3 DEF DropTransaction, Abandons, PcIs, Apart, Books
  <2> QED BY <2>2, <2>4, <2>5 DEF Sane
<1> QED BY <1>1, <1>2 DEF DropTransaction

-----------------------------------------------------------------------------
(* The steps of publish_recall_inner.                                      *)

\* A failing publication is indeterminate with a manifest and dropped without one.
LEMMA FailsEffect ==
    ASSUME IsControl(pc), Fails, pc.at \in Publishing \cup {"preflight"}
    PROVE  /\ IsControl(pc') /\ pc'.at \notin Publishing
           /\ Store /\ WsSame /\ Books /\ Spends /\ Apart => GivesUp \/ Drops
<1>1. CASE ws.durable
  <2>1. IsControl(pc') /\ PcIs("idle", pc.entry, pc.io, pc.what) /\ indeterminate'
    BY <1>1, GotoIs DEF Fails
  <2> QED BY <1>1, <2>1 DEF GivesUp, PcIs, Publishing
<1>2. CASE ~ws.durable
  <2>1. IsControl(pc') /\ PcIs("drop", pc.entry, pc.io, pc.what) /\ (indeterminate' <=> indeterminate)
    BY <1>2, GotoIs DEF Fails
  <2> QED BY <1>2, <2>1 DEF Drops, Steady, PcIs, Publishing
<1> QED BY <1>1, <1>2

\* A manifest is begun.
LEMMA WriteIs ==
    ASSUME IsWorkspace(ws), IsControl(pc), NEW what \in Whats, NEW m, IsManifest(m), Write(what, m)
    PROVE  /\ IsWorkspace(ws') /\ WsIs(ws.tx, m, ws.durable, ws.completed, ws.leftover)
           /\ IsControl(pc') /\ PcIs("write", pc.entry, "temp", what)
  BY WsWrites, GoWrite DEF Write

\* Preflight begins the first manifest or fails.
LEMMA PreflightEffect ==
    ASSUME FileSetInv, Preflight
    PROVE  Sane /\ (Begins \/ GivesUp \/ Drops)
<1>t. FileTypes /\ Owned /\ IsWorkspace(ws) /\ IsControl(pc) /\ IsBudget(budget) /\ pc.at = "preflight"
  BY DEF FileSetInv, FileTypes, Preflight, At
<1>u. UNCHANGED <<final, folder, disk, made, rec, scan, committed, range>>
  BY DEF Preflight, disks
<1>s. Store /\ Owned' /\ Books /\ Apart
  BY <1>t, <1>u, StoreUnchanged DEF Books, Apart
<1>1. ASSUME NEW f, Write("prepared", [NoManifest EXCEPT !.some = TRUE, !.folder = f]),
             UNCHANGED <<indeterminate, budget>>
      PROVE  Sane /\ Begins
  <2> DEFINE m == [NoManifest EXCEPT !.some = TRUE, !.folder = f]
  <2>1. IsManifest(m) /\ Upto(m, 1, Prepared)
    BY Bounds DEF NoManifest, IsManifest, Upto, Prepared
  <2>2. /\ IsWorkspace(ws') /\ WsIs(ws.tx, m, ws.durable, ws.completed, ws.leftover)
        /\ IsControl(pc') /\ PcIs("write", pc.entry, "temp", "prepared")
    BY <1>t, <1>1, <2>1, WriteIs DEF Whats
  <2>3. IsBudget(budget') /\ Spends
    BY <1>t, <1>1, Unspent
  <2>4. FileTypes'
    BY <1>t, <1>u, <2>2, <2>3 DEF FileTypes
  <2>5. ws'.manifest = m
    BY <2>2 DEF WsIs
  <2>6. WritesNext("preflight", "prepared")
    BY <1>t, <1>1, <1>s, <2>2, <2>3, <2>5 DEF WritesNext
  <2> QED BY <1>s, <2>1, <2>4, <2>5, <2>6 DEF Sane, Begins
<1>2. ASSUME Fails, ws' = ws, Spend("faults") \/ UNCHANGED budget
      PROVE  Sane /\ (GivesUp \/ Drops)
  <2>1. IsBudget(budget') /\ Spends
    BY <1>t, <1>2, Unspent, Spent
  <2>2. WsSame
    BY <1>2 DEF WsSame, WsIs
  <2>3. IsControl(pc') /\ (GivesUp \/ Drops)
    BY <1>t, <1>s, <1>2, <2>1, <2>2, FailsEffect
  <2>4. FileTypes'
    BY <1>t, <1>u, <1>2, <2>1, <2>3 DEF FileTypes
  <2> QED BY <1>s, <2>3, <2>4 DEF Sane
<1> QED BY <1>1, <1>2 DEF Preflight

\* WriteTemp writes the temporary manifest or fails.
LEMMA WriteTempEffect ==
    ASSUME FileSetInv, WriteTemp
    PROVE  Sane /\ (Temps \/ GivesUp \/ Drops)
<1>t. FileTypes /\ Owned /\ IsWorkspace(ws) /\ IsControl(pc) /\ IsBudget(budget) /\ IsStore(disk)
      /\ pc.at = "write" /\ pc.io = "temp"
  BY DEF FileSetInv, FileTypes, WriteTemp, At
<1>u. UNCHANGED <<final, folder, made, ws, rec, scan, committed, range>>
  BY DEF WriteTemp
<1>s. WsSame /\ Books /\ Apart
  BY <1>u DEF Books, Apart, WsSame, WsIs
<1>x. ws.tx \in Transactions
  BY <1>t DEF FileSetInv, Sessions, Workspace, Working, Publishing, IsWorkspace
<1>1. CASE disk' = [disk EXCEPT ![ws.tx].temp = TRUE] /\ pc' = [pc EXCEPT !.io = "swap"]
           /\ UNCHANGED <<indeterminate, budget>>
  <2>1. IsStore(disk') /\ Only(ws.tx)
        /\ TxIs(ws.tx, disk[ws.tx].group, disk[ws.tx].dir, disk[ws.tx].partial, disk[ws.tx].manifest, disk[ws.tx].range)
    BY <1>t, <1>1, <1>x, TxTemp
  <2>2. Store /\ Owned'
    BY <1>t, <1>u, <1>x, <2>1, StoreTouched
  <2>3. IsControl(pc') /\ PcIs("write", pc.entry, "swap", pc.what)
    BY <1>t, <1>1, GoIo
  <2>4. IsBudget(budget') /\ Spends
    BY <1>t, <1>1, Unspent
  <2>5. FileTypes'
    BY <1>t, <1>u, <2>1, <2>3, <2>4 DEF FileTypes
  <2>6. Temps
    BY <1>t, <1>s, <1>1, <2>2, <2>3, <2>4 DEF Temps, Steady
  <2> QED BY <2>2, <2>5, <2>6 DEF Sane
<1>2. CASE Spend("faults") /\ Fails /\ UNCHANGED disk
  <2>1. IsBudget(budget') /\ Spends
    BY <1>t, <1>2, Spent
  <2>2. Store /\ Owned'
    BY <1>t, <1>u, <1>2, StoreUnchanged
  <2>3. IsControl(pc') /\ (GivesUp \/ Drops)
    BY <1>t, <1>s, <1>2, <2>1, <2>2, FailsEffect DEF Publishing
  <2>4. FileTypes'
    BY <1>t, <1>u, <1>2, <2>1, <2>3 DEF FileTypes
  <2> QED BY <2>2, <2>3, <2>4 DEF Sane
<1> QED BY <1>1, <1>2 DEF WriteTemp

\* WriteSwap puts the manifest in its place or fails.
LEMMA WriteSwapEffect ==
    ASSUME FileSetInv, WriteSwap
    PROVE  Sane /\ (Swaps \/ GivesUp \/ Drops)
<1>t. FileTypes /\ Owned /\ IsWorkspace(ws) /\ IsControl(pc) /\ IsBudget(budget) /\ IsStore(disk)
      /\ pc.at = "write" /\ pc.io = "swap" /\ IsManifest(ws.manifest)
  BY DEF FileSetInv, FileTypes, WriteSwap, At, IsWorkspace
<1>u. UNCHANGED <<final, folder, made, rec, scan, committed, range>>
  BY DEF WriteSwap
<1>s. Books /\ Apart
  BY <1>u DEF Books, Apart
<1>x. ws.tx \in Transactions
  BY <1>t DEF FileSetInv, Sessions, Workspace, Working, Publishing, IsWorkspace
<1>1. CASE disk' = [disk EXCEPT ![ws.tx].manifest = ws.manifest, ![ws.tx].temp = ws.durable]
           /\ ws' = [ws EXCEPT !.durable = TRUE] /\ pc' = [pc EXCEPT !.io = IF ws.durable THEN "unlink" ELSE "sync"]
           /\ UNCHANGED <<indeterminate, budget>>
  <2>1. IsStore(disk') /\ Only(ws.tx)
        /\ TxIs(ws.tx, disk[ws.tx].group, disk[ws.tx].dir, disk[ws.tx].partial, ws.manifest, disk[ws.tx].range)
    BY <1>t, <1>1, <1>x, TxSwapped
  <2>2. IsWorkspace(ws') /\ WsIs(ws.tx, ws.manifest, TRUE, ws.completed, ws.leftover)
    BY <1>t, <1>1, WsDurable
  <2>3. PICK io \in {"unlink", "sync"} : IsControl(pc') /\ PcIs("write", pc.entry, io, pc.what)
    BY <1>t, <1>1, GoIo
  <2>4. IsBudget(budget') /\ Spends
    BY <1>t, <1>1, Unspent
  <2>5. FileTypes'
    BY <1>t, <1>u, <2>1, <2>2, <2>3, <2>4 DEF FileTypes
  <2>6. \A u \in Transactions : disk'[u].group = disk[u].group
    BY <2>1 DEF Only, TxIs
  <2>7. \A u \in Transactions : Visible(u)' = Visible(u)
    BY <1>u, <2>6 DEF Visible
  <2>8. \A u \in Transactions \ {ws.tx}, i \in Entries : FinalKnown(u, i)' <=> FinalKnown(u, i)
    BY <2>1 DEF FinalKnown, Only
  <2>9. Others(ws.tx)
    BY <2>1, <2>7, <2>8 DEF Others, SameTx, Only
  <2>10. Owned'
    BY <1>t, <1>u, <2>6 DEF Owned
  <2>11. Visible(ws.tx)' = Visible(ws.tx)
    BY <1>x, <2>2, <2>7 DEF WsIs
  <2>12. Swaps
    BY <1>t, <1>s, <1>1, <2>1, <2>2, <2>3, <2>4, <2>9, <2>11 DEF Swaps, TxIs
  <2> QED BY <2>5, <2>10, <2>12 DEF Sane
<1>2. CASE Spend("faults") /\ disk' = [disk EXCEPT ![ws.tx].temp = FALSE] /\ Fails /\ UNCHANGED ws
  <2>1. IsStore(disk') /\ Only(ws.tx)
        /\ TxIs(ws.tx, disk[ws.tx].group, disk[ws.tx].dir, disk[ws.tx].partial, disk[ws.tx].manifest, disk[ws.tx].range)
    BY <1>t, <1>2, <1>x, TxTemp
  <2>2. Store /\ Owned'
    BY <1>t, <1>u, <1>x, <2>1, StoreTouched
  <2>3. IsBudget(budget') /\ Spends /\ WsSame
    BY <1>t, <1>2, Spent DEF WsSame, WsIs
  <2>4. IsControl(pc') /\ (GivesUp \/ Drops)
    BY <1>t, <1>s, <1>2, <2>2, <2>3, FailsEffect DEF Publishing
  <2>5. FileTypes'
    BY <1>t, <1>u, <1>2, <2>1, <2>3, <2>4 DEF FileTypes
  <2> QED BY <2>2, <2>4, <2>5 DEF Sane
<1> QED BY <1>1, <1>2 DEF WriteSwap

\* WriteUnlink removes the manifest before, or fails.
LEMMA WriteUnlinkEffect ==
    ASSUME FileSetInv, WriteUnlink
    PROVE  Sane /\ (Unlinks \/ GivesUp \/ Drops)
<1>t. FileTypes /\ Owned /\ IsWorkspace(ws) /\ IsControl(pc) /\ IsBudget(budget) /\ IsStore(disk)
      /\ pc.at = "write" /\ pc.io = "unlink"
  BY DEF FileSetInv, FileTypes, WriteUnlink, At
<1>u. UNCHANGED <<final, folder, made, ws, rec, scan, committed, range>>
  BY DEF WriteUnlink
<1>s. WsSame /\ Books /\ Apart
  BY <1>u DEF Books, Apart, WsSame, WsIs
<1>x. ws.tx \in Transactions
  BY <1>t DEF FileSetInv, Sessions, Workspace, Working, Publishing, IsWorkspace
<1>1. CASE disk' = [disk EXCEPT ![ws.tx].temp = FALSE] /\ pc' = [pc EXCEPT !.io = "sync"]
           /\ UNCHANGED <<indeterminate, budget>>
  <2>1. IsStore(disk') /\ Only(ws.tx)
        /\ TxIs(ws.tx, disk[ws.tx].group, disk[ws.tx].dir, disk[ws.tx].partial, disk[ws.tx].manifest, disk[ws.tx].range)
    BY <1>t, <1>1, <1>x, TxTemp
  <2>2. Store /\ Owned'
    BY <1>t, <1>u, <1>x, <2>1, StoreTouched
  <2>3. IsControl(pc') /\ PcIs("write", pc.entry, "sync", pc.what)
    BY <1>t, <1>1, GoIo
  <2>4. IsBudget(budget') /\ Spends
    BY <1>t, <1>1, Unspent
  <2>5. FileTypes'
    BY <1>t, <1>u, <2>1, <2>3, <2>4 DEF FileTypes
  <2>6. Unlinks
    BY <1>t, <1>s, <1>1, <2>2, <2>3, <2>4 DEF Unlinks, Steady
  <2> QED BY <2>2, <2>5, <2>6 DEF Sane
<1>2. CASE Spend("faults") /\ Fails /\ UNCHANGED disk
  <2>1. IsBudget(budget') /\ Spends
    BY <1>t, <1>2, Spent
  <2>2. Store /\ Owned'
    BY <1>t, <1>u, <1>2, StoreUnchanged
  <2>3. IsControl(pc') /\ (GivesUp \/ Drops)
    BY <1>t, <1>s, <1>2, <2>1, <2>2, FailsEffect DEF Publishing
  <2>4. FileTypes'
    BY <1>t, <1>u, <1>2, <2>1, <2>3 DEF FileTypes
  <2> QED BY <2>2, <2>3, <2>4 DEF Sane
<1> QED BY <1>1, <1>2 DEF WriteUnlink

\* WriteSync ends the writing, and the publication goes on or fails.
LEMMA WriteSyncEffect ==
    ASSUME FileSetInv, WriteSync
    PROVE  Sane /\ (Proceeds \/ GivesUp \/ Drops)
<1>t. FileTypes /\ Owned /\ IsWorkspace(ws) /\ IsControl(pc) /\ IsBudget(budget)
      /\ pc.at = "write" /\ pc.io = "sync"
  BY DEF FileSetInv, FileTypes, WriteSync, At
<1>u. UNCHANGED <<final, folder, disk, made, rec, scan, committed, range>>
  BY DEF WriteSync, disks
<1>s. Store /\ Owned' /\ Books /\ Apart
  BY <1>t, <1>u, StoreUnchanged DEF Books, Apart
<1>1. CASE pc' = AfterWrite /\ UNCHANGED <<indeterminate, budget>>
           /\ ws' = IF pc.what \in {"partial", "final"} THEN [ws EXCEPT !.artifact = NoArtifact] ELSE ws
  <2>1. IsWorkspace(ws') /\ WsSame
    <3>1. IsArtifact(NoArtifact)
      BY Bounds DEF IsArtifact, NoArtifact
    <3>2. CASE ws' = ws
      BY <1>t, <3>2 DEF WsSame, WsIs
    <3> QED BY <1>t, <1>1, <3>1, <3>2, WsArtifact
  <2>2. IsBudget(budget') /\ Spends
    BY <1>t, <1>1, Unspent
  <2>3. pc.entry < FileCount => pc.entry + 1 \in Entries
    BY <1>t, Bounds DEF IsControl, Entries
  <2>n. pc.entry \in Nat /\ FileCount \in Nat /\ pc.entry <= FileCount
    BY <1>t, Bounds DEF IsControl
  <2>o. pc.entry < FileCount \/ pc.entry = FileCount
    BY <2>n
  <2>4. IsControl(pc') /\ (Store /\ Steady /\ Spends /\ Apart => Proceeds)
    <3> USE <1>t DEF Proceeds, PcIs
    <3>1. CASE pc.what = "prepared"
      <4>1. Goto("mkdir")
        BY <1>1, <3>1 DEF AfterWrite, Goto
      <4> QED BY <3>1, <4>1, GotoIs
    <3>2. CASE pc.what = "owned"
      <4>1. pc' = [pc EXCEPT !.at = "entry", !.entry = 1]
        BY <1>1, <3>2 DEF AfterWrite
      <4> QED BY <3>2, <4>1, GoAt, Bounds
    <3>3. CASE pc.what = "publishing"
      <4>1. Goto("partial")
        BY <1>1, <3>3 DEF AfterWrite, Goto
      <4> QED BY <3>3, <4>1, GotoIs
    <3>4. CASE pc.what = "partial"
      <4>1. Goto("rename")
        BY <1>1, <3>4 DEF AfterWrite, Goto
      <4> QED BY <3>4, <4>1, GotoIs
    <3>5. CASE pc.what = "final" /\ pc.entry < FileCount
      <4>1. pc' = [pc EXCEPT !.at = "entry", !.entry = pc.entry + 1]
        BY <1>1, <2>n, <3>5 DEF AfterWrite
      <4> QED BY <2>3, <3>5, <4>1, GoAt
    <3>6. CASE pc.what = "final" /\ pc.entry = FileCount
      <4>1. Goto("sync")
        BY <1>1, <3>6, Bounds DEF AfterWrite, Goto
      <4> QED BY <3>6, <4>1, GotoIs
    <3>7. CASE pc.what = "complete"
      <4>1. Goto("verify")
        BY <1>1, <3>7 DEF AfterWrite, Goto
      <4> QED BY <3>7, <4>1, GotoIs
    <3> QED BY <2>o, <3>1, <3>2, <3>3, <3>4, <3>5, <3>6, <3>7 DEF IsControl, Whats
  <2>5. FileTypes'
    BY <1>t, <1>u, <2>1, <2>2, <2>4 DEF FileTypes
  <2> QED BY <1>s, <1>1, <2>1, <2>2, <2>4, <2>5 DEF Sane, Steady
<1>2. CASE Spend("faults") /\ Fails /\ UNCHANGED ws
  <2>1. IsBudget(budget') /\ Spends /\ WsSame
    BY <1>t, <1>2, Spent DEF WsSame, WsIs
  <2>2. IsControl(pc') /\ (GivesUp \/ Drops)
    BY <1>t, <1>s, <1>2, <2>1, FailsEffect DEF Publishing
  <2>3. FileTypes'
    BY <1>t, <1>u, <1>2, <2>1, <2>2 DEF FileTypes
  <2> QED BY <1>s, <2>2, <2>3 DEF Sane
<1> QED BY <1>1, <1>2 DEF WriteSync

\* MakeFolder records the folder as owned, finds one, or fails.
LEMMA MakeFolderEffect ==
    ASSUME FileSetInv, MakeFolder
    PROVE  Sane /\ (Begins \/ Proceeds \/ GivesUp \/ Drops)
<1>t. FileTypes /\ Owned /\ IsWorkspace(ws) /\ IsControl(pc) /\ IsBudget(budget) /\ pc.at = "mkdir"
      /\ IsManifest(ws.manifest) /\ DOMAIN folder = Groups
  BY DEF FileSetInv, FileTypes, MakeFolder, At, IsWorkspace
<1>u. UNCHANGED <<final, disk, made, rec, scan, committed, range>>
  BY DEF MakeFolder
<1>s. Store /\ Owned' /\ Books /\ Apart
  BY <1>t, <1>u, StoreUnchanged DEF Books, Apart
<1>1. ASSUME NEW g, folder' = [folder EXCEPT ![g] = ws.tx], Write("owned", [ws.manifest EXCEPT !.folder = "owned"]),
             UNCHANGED <<indeterminate, budget>>
      PROVE  Sane /\ Begins
  <2> DEFINE m == [ws.manifest EXCEPT !.folder = "owned"]
  <2>1. IsManifest(m) /\ (m.some <=> ws.manifest.some) /\ m.phase = ws.manifest.phase
        /\ m.partials = ws.manifest.partials /\ m.finals = ws.manifest.finals
    BY <1>t DEF IsManifest
  <2>2. /\ IsWorkspace(ws') /\ WsIs(ws.tx, m, ws.durable, ws.completed, ws.leftover)
        /\ IsControl(pc') /\ PcIs("write", pc.entry, "temp", "owned")
    BY <1>t, <1>1, <2>1, WriteIs DEF Whats
  <2>3. IsBudget(budget') /\ Spends
    BY <1>t, <1>1, Unspent
  <2>4. FileTypes'
    BY <1>t, <1>1, <1>u, <2>2, <2>3 DEF FileTypes
  <2>5. ws'.manifest = m
    BY <2>2 DEF WsIs
  <2>6. WritesNext("mkdir", "owned") /\ SameBut(ws.manifest.phase, ws.manifest.partials, ws.manifest.finals)
    BY <1>t, <1>1, <1>s, <2>1, <2>2, <2>3, <2>5 DEF WritesNext, SameBut
  <2> QED BY <1>s, <2>4, <2>6 DEF Sane, Begins
<1>2. ASSUME pc' = [pc EXCEPT !.at = "entry", !.entry = 1], UNCHANGED <<folder, ws, indeterminate, budget>>
      PROVE  Sane /\ Proceeds
  <2>1. IsControl(pc') /\ PcIs("entry", 1, pc.io, pc.what)
    BY <1>t, <1>2, GoAt, Bounds
  <2>2. IsBudget(budget') /\ Spends /\ WsSame
    BY <1>t, <1>2, Unspent DEF WsSame, WsIs
  <2>3. FileTypes'
    BY <1>t, <1>2, <1>u, <2>1, <2>2 DEF FileTypes
  <2>4. Proceeds
    BY <1>t, <1>2, <1>s, <2>1, <2>2 DEF Proceeds, PcIs, Steady
  <2> QED BY <1>s, <2>3, <2>4 DEF Sane
<1>3. ASSUME Fails, UNCHANGED <<folder, ws>>, Spend("faults")
      PROVE  Sane /\ (GivesUp \/ Drops)
  <2>1. IsBudget(budget') /\ Spends /\ WsSame
    BY <1>t, <1>3, Spent DEF WsSame, WsIs
  <2>2. IsControl(pc') /\ (GivesUp \/ Drops)
    BY <1>t, <1>s, <1>3, <2>1, FailsEffect DEF Publishing
  <2>3. FileTypes'
    BY <1>t, <1>u, <1>3, <2>1, <2>2 DEF FileTypes
  <2> QED BY <1>s, <2>2, <2>3 DEF Sane
<1> QED BY <1>1, <1>2, <1>3 DEF MakeFolder

\* BeginEntry begins the manifest that names the entry.
LEMMA BeginEntryEffect ==
    ASSUME FileSetInv, BeginEntry
    PROVE  Sane /\ Begins
<1>t. FileTypes /\ Owned /\ IsWorkspace(ws) /\ IsControl(pc) /\ IsBudget(budget) /\ pc.at = "entry"
      /\ IsManifest(ws.manifest)
  BY DEF FileSetInv, FileTypes, BeginEntry, At, IsWorkspace
<1>u. UNCHANGED <<final, folder, disk, made, indeterminate, rec, scan, budget, committed, range>>
  BY DEF BeginEntry, disks
<1>s. Store /\ Owned' /\ Books /\ Apart
  BY <1>t, <1>u, StoreUnchanged DEF Books, Apart
<1> DEFINE m == [ws.manifest EXCEPT !.phase = pc.entry]
<1>1. IsManifest(m) /\ (m.some <=> ws.manifest.some) /\ m.phase = pc.entry
      /\ m.partials = ws.manifest.partials /\ m.finals = ws.manifest.finals
  BY <1>t, Bounds DEF IsManifest, IsControl
<1>2. /\ IsWorkspace(ws') /\ WsIs(ws.tx, m, ws.durable, ws.completed, ws.leftover)
      /\ IsControl(pc') /\ PcIs("write", pc.entry, "temp", "publishing")
  BY <1>t, <1>1, WriteIs DEF BeginEntry, Whats
<1>3. IsBudget(budget') /\ Spends
  BY <1>t, <1>u, Unspent
<1>4. FileTypes'
  BY <1>t, <1>u, <1>2, <1>3 DEF FileTypes
<1>5. ws'.manifest = m
  BY <1>2 DEF WsIs
<1>6. WritesNext("entry", "publishing") /\ SameBut(pc.entry, ws.manifest.partials, ws.manifest.finals)
  BY <1>t, <1>u, <1>s, <1>1, <1>2, <1>3, <1>5 DEF WritesNext, SameBut
<1> QED BY <1>s, <1>4, <1>6 DEF Sane, Begins

\* CopyPartial begins the manifest that names the partial, or fails.
LEMMA CopyPartialEffect ==
    ASSUME FileSetInv, CopyPartial
    PROVE  Sane /\ (Begins \/ GivesUp \/ Drops)
<1>t. FileTypes /\ Owned /\ IsWorkspace(ws) /\ IsControl(pc) /\ IsBudget(budget) /\ IsStore(disk)
      /\ pc.at = "partial" /\ IsManifest(ws.manifest) /\ pc.entry \in Entries
  BY DEF FileSetInv, FileTypes, CopyPartial, At, IsWorkspace, IsControl
<1>u. UNCHANGED <<final, folder, made, rec, scan, committed, range>>
  BY DEF CopyPartial
<1>s. Books /\ Apart
  BY <1>u DEF Books, Apart
<1>x. ws.tx \in Transactions
  BY <1>t DEF FileSetInv, Sessions, Workspace, Working, Publishing, IsWorkspace
<1>m. disk[ws.tx].manifest.partials = {}
  <2>1. disk[ws.tx].manifest = ws.manifest
    BY <1>t DEF FileSetInv, OnDisk, Publishing, At
  <2>2. ws.manifest.partials = {}
    BY <1>t DEF FileSetInv, Progress, Upto, At
  <2> QED BY <2>1, <2>2
<1>a. IsArtifact(Current("partial", pc.entry))
  BY <1>t DEF IsArtifact, Current
<1>1. ASSUME disk' = [disk EXCEPT ![ws.tx].partial = @ \cup {pc.entry}]
      PROVE  IsStore(disk') /\ Store /\ Owned'
  <2>1. IsStore(disk') /\ Only(ws.tx)
        /\ TxIs(ws.tx, disk[ws.tx].group, disk[ws.tx].dir, disk[ws.tx].partial \cup {pc.entry}, disk[ws.tx].manifest,
                disk[ws.tx].range)
    BY <1>t, <1>x, <1>1, TxPartial
  <2> QED BY <1>t, <1>u, <1>x, <1>m, <2>1, StoreTouched
<1>2. ASSUME disk' = [disk EXCEPT ![ws.tx].partial = @ \cup {pc.entry}],
             ws' = [[ws EXCEPT !.artifact = Current("partial", pc.entry)] EXCEPT !.manifest.partials = @ \cup {pc.entry}],
             pc' = [pc EXCEPT !.at = "write", !.io = "temp", !.what = "partial"],
             UNCHANGED <<indeterminate, budget>>
      PROVE  Sane /\ Begins
  <2> DEFINE m == [ws.manifest EXCEPT !.partials = @ \cup {pc.entry}]
  <2>1. IsManifest(m) /\ (m.some <=> ws.manifest.some) /\ m.phase = ws.manifest.phase
        /\ m.partials = ws.manifest.partials \cup {pc.entry} /\ m.finals = ws.manifest.finals
    BY <1>t DEF IsManifest
  <2>2. ws' = [ws EXCEPT !.artifact = Current("partial", pc.entry), !.manifest = m]
    BY <1>t, <1>2 DEF IsWorkspace
  <2>3. IsWorkspace(ws') /\ WsIs(ws.tx, m, ws.durable, ws.completed, ws.leftover)
    BY <1>t, <1>a, <2>1, <2>2, WsCreates
  <2>4. IsControl(pc') /\ PcIs("write", pc.entry, "temp", "partial")
    BY <1>t, <1>2, GoWrite DEF Whats
  <2>5. IsBudget(budget') /\ Spends
    BY <1>t, <1>2, Unspent
  <2>6. IsStore(disk') /\ Store /\ Owned'
    BY <1>1, <1>2
  <2>7. FileTypes'
    BY <1>t, <1>u, <2>3, <2>4, <2>5, <2>6 DEF FileTypes
  <2>8. ws'.manifest = m
    BY <2>3 DEF WsIs
  <2>9. WritesNext("partial", "partial")
        /\ SameBut(ws.manifest.phase, ws.manifest.partials \cup {pc.entry}, ws.manifest.finals)
    BY <1>t, <1>s, <1>2, <2>1, <2>3, <2>4, <2>5, <2>8 DEF WritesNext, SameBut
  <2> QED BY <2>6, <2>7, <2>9 DEF Sane, Begins
<1>3. ASSUME Spend("faults"), Fails,
             \/ UNCHANGED <<disk, ws>>
             \/ /\ disk' = [disk EXCEPT ![ws.tx].partial = @ \cup {pc.entry}]
                /\ ws' = [ws EXCEPT !.artifact = Current("partial", pc.entry)]
      PROVE  Sane /\ (GivesUp \/ Drops)
  <2>1. IsStore(disk') /\ Store /\ Owned'
    BY <1>t, <1>u, <1>1, <1>3, StoreUnchanged
  <2>2. IsWorkspace(ws') /\ WsSame
    <3>1. CASE ws' = ws
      BY <1>t, <3>1 DEF WsSame, WsIs
    <3> QED BY <1>t, <1>a, <1>3, <3>1, WsArtifact
  <2>3. IsBudget(budget') /\ Spends
    BY <1>t, <1>3, Spent
  <2>4. IsControl(pc') /\ (GivesUp \/ Drops)
    BY <1>t, <1>s, <1>3, <2>1, <2>2, <2>3, FailsEffect DEF Publishing
  <2>5. FileTypes'
    BY <1>t, <1>u, <2>1, <2>2, <2>3, <2>4 DEF FileTypes
  <2> QED BY <2>1, <2>4, <2>5 DEF Sane
<1> QED BY <1>2, <1>3 DEF CopyPartial

\* One final name of a transaction gets or loses its file.
LEMMA NameGained ==
    ASSUME FileTypes, Owned, NEW t \in Transactions, NEW i \in Entries, t <= made,
           final[disk[t].group][i] = Absent, final' = [final EXCEPT ![disk[t].group][i] = t],
           \A u \in Transactions : disk'[u].group = disk[u].group, made' = made
    PROVE  /\ IsFinal(final') /\ Owned'
           /\ Visible(t)' = Visible(t) \cup {i}
           /\ \A u \in Transactions \ {t} : Visible(u)' = Visible(u)
<1>1. disk[t].group \in Groups /\ t \in Owners
  BY DEF FileTypes, IsStore, IsDisk, Owners
<1>2. /\ IsFinal(final') /\ final'[disk[t].group][i] = t
      /\ \A h \in Groups, j \in Entries : h # disk[t].group \/ j # i => final'[h][j] = final[h][j]
  <2>1. PICK g \in Groups : g = disk[t].group
    BY <1>1
  <2>2. IsFinal(final) /\ final' = [final EXCEPT ![g][i] = t]
    BY <2>1 DEF FileTypes
  <2>3. /\ IsFinal(final') /\ final'[g][i] = t
        /\ \A h \in Groups, j \in Entries : h # g \/ j # i => final'[h][j] = final[h][j]
    BY <1>1, <2>2 DEF IsFinal
  <2> QED BY <2>1, <2>3
<1>3. \A u \in Transactions : disk[u].group \in Groups
  BY DEF FileTypes, IsStore, IsDisk
<1>4. Visible(t)' = Visible(t) \cup {i}
  BY <1>1, <1>2 DEF Visible
<1>5. \A u \in Transactions \ {t} : Visible(u)' = Visible(u)
  BY <1>2, <1>3, Bounds DEF Visible
<1>6. Owned'
  BY <1>1, <1>2 DEF Owned
<1> QED BY <1>2, <1>4, <1>5, <1>6

\* A file of a transaction disappears from under its final name.
LEMMA NameLost ==
    ASSUME FileTypes, Owned, NEW t \in Transactions, NEW i \in Entries,
           final[disk[t].group][i] = t, final' = [final EXCEPT ![disk[t].group][i] = Absent],
           UNCHANGED <<disk, made>>
    PROVE  IsFinal(final') /\ Owned' /\ Loses(t, i)
<1>1. disk[t].group \in Groups /\ Absent \in Owners
  BY DEF FileTypes, IsStore, IsDisk, Owners
<1>2. /\ IsFinal(final') /\ final'[disk[t].group][i] = Absent
      /\ \A h \in Groups, j \in Entries : h # disk[t].group \/ j # i => final'[h][j] = final[h][j]
  <2>1. PICK g \in Groups : g = disk[t].group
    BY <1>1
  <2>2. IsFinal(final) /\ final' = [final EXCEPT ![g][i] = Absent]
    BY <2>1 DEF FileTypes
  <2>3. /\ IsFinal(final') /\ final'[g][i] = Absent
        /\ \A h \in Groups, j \in Entries : h # g \/ j # i => final'[h][j] = final[h][j]
    BY <1>1, <2>2 DEF IsFinal
  <2> QED BY <2>1, <2>3
<1>3. \A u \in Transactions : disk[u].group \in Groups
  BY DEF FileTypes, IsStore, IsDisk
<1>4. Visible(t)' = Visible(t) \ {i}
  BY <1>1, <1>2, Bounds DEF Visible
<1>5. \A u \in Transactions \ {t} : Visible(u)' = Visible(u)
  BY <1>2, <1>3, Bounds DEF Visible
<1>6. Owned'
  BY <1>1, <1>2, Bounds DEF Owned
<1>7. \A u \in Transactions, j \in Entries : FinalKnown(u, j)' <=> FinalKnown(u, j)
  BY DEF FinalKnown
<1> QED BY <1>2, <1>4, <1>5, <1>6, <1>7 DEF Loses, Others, SameTx

\* RenameFinal makes the file visible or fails.
LEMMA RenameFinalEffect ==
    ASSUME FileSetInv, RenameFinal
    PROVE  Sane /\ (Renames \/ GivesUp \/ Drops)
<1>t. FileTypes /\ Owned /\ IsWorkspace(ws) /\ IsControl(pc) /\ IsBudget(budget) /\ IsStore(disk)
      /\ pc.at = "rename" /\ IsManifest(ws.manifest) /\ pc.entry \in Entries
  BY DEF FileSetInv, FileTypes, RenameFinal, At, IsWorkspace, IsControl
<1>u. UNCHANGED <<folder, made, rec, scan, committed, range>>
  BY DEF RenameFinal
<1>s. Books /\ Apart
  BY <1>u DEF Books, Apart
<1>x. ws.tx \in Transactions /\ ws.tx <= made
  BY <1>t DEF FileSetInv, Sessions, Workspace, Working, Publishing, IsWorkspace
<1>1. ASSUME final[disk[ws.tx].group][pc.entry] = Absent,
             final' = [final EXCEPT ![disk[ws.tx].group][pc.entry] = ws.tx],
             disk' = [disk EXCEPT ![ws.tx].partial = @ \ {pc.entry}],
             ws' = [ws EXCEPT !.artifact = Current("final", pc.entry), !.manifest = RecordFinal(@, pc.entry)],
             pc' = [pc EXCEPT !.at = "write", !.io = "temp", !.what = "final"],
             UNCHANGED <<indeterminate, budget>>
      PROVE  Sane /\ Renames
  <2>0. PICK t \in Transactions, i \in Entries : t = ws.tx /\ i = pc.entry
    BY <1>t, <1>x
  <2> DEFINE m == RecordFinal(ws.manifest, i)
  <2>1. IsManifest(m) /\ (m.some <=> ws.manifest.some) /\ m.phase = ws.manifest.phase
        /\ m.partials = ws.manifest.partials \ {i} /\ m.finals = ws.manifest.finals \cup {i}
    BY <1>t DEF IsManifest, RecordFinal
  <2>2. IsArtifact(Current("final", i))
    BY DEF IsArtifact, Current
  <2>3. IsWorkspace(ws') /\ WsIs(t, m, ws.durable, ws.completed, ws.leftover)
    BY <1>t, <1>1, <2>0, <2>1, <2>2, WsCreates
  <2>4. IsControl(pc') /\ PcIs("write", i, "temp", "final")
    BY <1>t, <1>1, <2>0, GoWrite DEF Whats
  <2>5. IsBudget(budget') /\ Spends
    BY <1>t, <1>1, Unspent
  <2>6. IsStore(disk') /\ Only(t)
        /\ TxIs(t, disk[t].group, disk[t].dir, disk[t].partial \ {i}, disk[t].manifest, disk[t].range)
    BY <1>t, <1>1, <2>0, TxPartial
  <2>7. \A u \in Transactions : disk'[u].group = disk[u].group
    BY <2>6 DEF Only, TxIs
  <2>8. /\ IsFinal(final') /\ Owned'
        /\ Visible(t)' = Visible(t) \cup {i}
        /\ \A u \in Transactions \ {t} : Visible(u)' = Visible(u)
    BY <1>t, <1>u, <1>x, <1>1, <2>0, <2>7, NameGained
  <2>9. FileTypes'
    BY <1>t, <1>u, <2>3, <2>4, <2>5, <2>6, <2>8 DEF FileTypes
  <2>10. \A u \in Transactions, j \in Entries : FinalKnown(u, j) => FinalKnown(u, j)'
    BY <2>6 DEF FinalKnown, Only, TxIs
  <2>11. Others(t)
    BY <2>6, <2>8, <2>10 DEF Others, SameTx, Only
  <2>12. disk[t].manifest.phase = i /\ i \in disk[t].manifest.partials => FinalKnown(t, i)'
    BY <2>6 DEF FinalKnown, TxIs
  <2>13. ws'.manifest = m /\ ws'.tx = t /\ pc'.entry = i
    BY <2>3, <2>4 DEF WsIs, PcIs
  <2>14. WritesNext("rename", "final")
         /\ SameBut(ws.manifest.phase, ws.manifest.partials \ {pc.entry}, ws.manifest.finals \cup {pc.entry})
    BY <1>t, <1>s, <1>1, <2>0, <2>1, <2>3, <2>4, <2>5, <2>13 DEF WritesNext, SameBut
  <2>15. Renames
    BY <2>0, <2>6, <2>8, <2>10, <2>11, <2>12, <2>13, <2>14 DEF Renames, TxIs
  <2> QED BY <2>8, <2>9, <2>15 DEF Sane
<1>2. ASSUME Fails, UNCHANGED <<final, disk, ws>>, Spend("faults") \/ UNCHANGED budget
      PROVE  Sane /\ (GivesUp \/ Drops)
  <2>1. IsBudget(budget') /\ Spends /\ WsSame
    BY <1>t, <1>2, Unspent, Spent DEF WsSame, WsIs
  <2>2. Store /\ Owned'
    BY <1>t, <1>u, <1>2, StoreUnchanged
  <2>3. IsControl(pc') /\ (GivesUp \/ Drops)
    BY <1>t, <1>s, <1>2, <2>1, <2>2, FailsEffect DEF Publishing
  <2>4. FileTypes'
    BY <1>t, <1>u, <1>2, <2>1, <2>3 DEF FileTypes
  <2> QED BY <2>2, <2>3, <2>4 DEF Sane
<1> QED BY <1>1, <1>2 DEF RenameFinal

\* SyncFinals begins the manifest that says complete, or fails.
LEMMA SyncFinalsEffect ==
    ASSUME FileSetInv, SyncFinals
    PROVE  Sane /\ (Begins \/ GivesUp \/ Drops)
<1>t. FileTypes /\ Owned /\ IsWorkspace(ws) /\ IsControl(pc) /\ IsBudget(budget) /\ pc.at = "sync"
      /\ IsManifest(ws.manifest)
  BY DEF FileSetInv, FileTypes, SyncFinals, At, IsWorkspace
<1>u. UNCHANGED <<final, folder, disk, made, rec, scan, committed, range>>
  BY DEF SyncFinals, disks
<1>s. Store /\ Owned' /\ Books /\ Apart
  BY <1>t, <1>u, StoreUnchanged DEF Books, Apart
<1>1. ASSUME Write("complete", [ws.manifest EXCEPT !.phase = Complete]), UNCHANGED <<indeterminate, budget>>
      PROVE  Sane /\ Begins
  <2> DEFINE m == [ws.manifest EXCEPT !.phase = Complete]
  <2>0. Complete \in Int
    BY Bounds DEF Complete
  <2>1. IsManifest(m) /\ (m.some <=> ws.manifest.some) /\ m.phase = Complete
        /\ m.partials = ws.manifest.partials /\ m.finals = ws.manifest.finals
    BY <1>t, <2>0 DEF IsManifest
  <2>2. /\ IsWorkspace(ws') /\ WsIs(ws.tx, m, ws.durable, ws.completed, ws.leftover)
        /\ IsControl(pc') /\ PcIs("write", pc.entry, "temp", "complete")
    BY <1>t, <1>1, <2>1, WriteIs DEF Whats
  <2>3. IsBudget(budget') /\ Spends
    BY <1>t, <1>1, Unspent
  <2>4. FileTypes'
    BY <1>t, <1>u, <2>2, <2>3 DEF FileTypes
  <2>5. ws'.manifest = m
    BY <2>2 DEF WsIs
  <2>6. WritesNext("sync", "complete") /\ SameBut(Complete, ws.manifest.partials, ws.manifest.finals)
    BY <1>t, <1>1, <1>s, <2>1, <2>2, <2>3, <2>5 DEF WritesNext, SameBut
  <2> QED BY <1>s, <2>4, <2>6 DEF Sane, Begins
<1>2. ASSUME Fails, ws' = ws, Spend("faults") \/ UNCHANGED budget
      PROVE  Sane /\ (GivesUp \/ Drops)
  <2>1. IsBudget(budget') /\ Spends /\ WsSame
    BY <1>t, <1>2, Unspent, Spent DEF WsSame, WsIs
  <2>2. IsControl(pc') /\ (GivesUp \/ Drops)
    BY <1>t, <1>s, <1>2, <2>1, FailsEffect DEF Publishing
  <2>3. FileTypes'
    BY <1>t, <1>u, <1>2, <2>1, <2>2 DEF FileTypes
  <2> QED BY <1>s, <2>2, <2>3 DEF Sane
<1> QED BY <1>1, <1>2 DEF SyncFinals

\* A publication is committed.
LEMMA CommitIs ==
    ASSUME FileTypes, NEW t \in Transactions, Commit(t)
    PROVE  /\ IsWorkspace(ws') /\ WsIs(ws.tx, ws.manifest, ws.durable, TRUE, ws.leftover)
           /\ IsControl(pc') /\ pc'.at = "deliver"
           /\ committed' = committed \cup {t} /\ committed' \subseteq Transactions
           /\ range' = range + 1 /\ range' \in Nat \ {0}
<1>t. IsWorkspace(ws) /\ IsControl(pc) /\ committed \subseteq Transactions /\ range \in Nat
  BY DEF FileTypes
<1>1. ws' = [ws EXCEPT !.completed = TRUE] /\ committed' = committed \cup {t} /\ range' = range + 1 /\ Goto("deliver")
  BY DEF Commit
<1>2. IsWorkspace(ws') /\ WsIs(ws.tx, ws.manifest, ws.durable, TRUE, ws.leftover)
  BY <1>t, <1>1, WsCompletes
<1>3. IsControl(pc') /\ pc'.at = "deliver"
  BY <1>t, <1>1, GotoIs DEF PcIs
<1>4. range + 1 \in Nat \ {0}
  BY <1>t
<1>5. committed \cup {t} \subseteq Transactions
  BY <1>t
<1> QED BY <1>1, <1>2, <1>3, <1>4, <1>5

\* Verify commits or fails.
LEMMA VerifyEffect ==
    ASSUME FileSetInv, Verify
    PROVE  Sane /\ (Commits \/ GivesUp \/ Drops)
<1>t. FileTypes /\ Owned /\ IsWorkspace(ws) /\ IsControl(pc) /\ IsBudget(budget) /\ pc.at = "verify"
  BY DEF FileSetInv, FileTypes, Verify, At
<1>u. UNCHANGED <<final, folder, disk, made, rec, scan>>
  BY DEF Verify, disks
<1>s. Store /\ Owned' /\ Apart
  BY <1>t, <1>u, StoreUnchanged DEF Apart
<1>x. ws.tx \in Transactions
  BY <1>t DEF FileSetInv, Sessions, Workspace, Working, Publishing, IsWorkspace
<1>1. CASE Commit(ws.tx) /\ UNCHANGED <<indeterminate, budget>>
  <2>0. PICK t \in Transactions : t = ws.tx
    BY <1>x
  <2>1. /\ IsWorkspace(ws') /\ WsIs(ws.tx, ws.manifest, ws.durable, TRUE, ws.leftover)
        /\ IsControl(pc') /\ pc'.at = "deliver"
        /\ committed' = committed \cup {t} /\ committed' \subseteq Transactions
        /\ range' = range + 1 /\ range' \in Nat \ {0}
    BY <1>t, <1>1, <2>0, CommitIs
  <2>2. IsBudget(budget') /\ Spends
    BY <1>t, <1>1, Unspent
  <2>3. FileTypes'
    BY <1>t, <1>u, <2>1, <2>2 DEF FileTypes
  <2>4. Commits
    BY <1>t, <1>u, <1>s, <1>1, <2>0, <2>1, <2>2 DEF Commits
  <2> QED BY <1>s, <2>3, <2>4 DEF Sane
<1>2. CASE Spend("faults") /\ Fails /\ UNCHANGED <<ws, committed, range>>
  <2>1. IsBudget(budget') /\ Spends /\ WsSame /\ Books
    BY <1>t, <1>u, <1>2, Spent DEF WsSame, WsIs, Books
  <2>2. IsControl(pc') /\ (GivesUp \/ Drops)
    BY <1>t, <1>s, <1>2, <2>1, FailsEffect DEF Publishing
  <2>3. FileTypes'
    BY <1>t, <1>u, <1>2, <2>1, <2>2 DEF FileTypes
  <2> QED BY <1>s, <2>2, <2>3 DEF Sane
<1> QED BY <1>1, <1>2 DEF Verify

\* Deliver begins the recovery that cleans up.
LEMMA DeliverEffect ==
    ASSUME FileSetInv, Deliver
    PROVE  Sane /\ Recalls
<1>t. FileTypes /\ Owned /\ IsWorkspace(ws) /\ IsControl(pc) /\ IsBudget(budget) /\ pc.at = "deliver"
      /\ ws.tx \in Transactions \cup {0}
  BY DEF FileSetInv, FileTypes, Deliver, At, IsWorkspace
<1>1. Store /\ Owned'
  BY <1>t, StoreUnchanged DEF Deliver, disks, session
<1>2. Steady
  BY DEF Deliver, session, Steady, WsSame, WsIs, Books
<1>3. IsBudget(budget') /\ Spends
  BY <1>t, Unspent DEF Deliver
<1>4. IsControl(pc') /\ PcIs("finalize", pc.entry, pc.io, pc.what) /\ IsRecovery(rec') /\ Looking(ws.tx)
  BY <1>t, GotoIs, RecStarts DEF Deliver
<1>5. FileTypes'
  BY <1>t, <1>3, <1>4 DEF Deliver, disks, session, FileTypes
<1>6. Recalls
  BY <1>t, <1>1, <1>2, <1>3, <1>4 DEF Deliver, session, Recalls, Turns, PcIs
<1> QED BY <1>1, <1>5, <1>6 DEF Sane

-----------------------------------------------------------------------------
(* The steps of resolve_current_artifact_by_handoff.                       *)

\* A stage is reached or not, or the request ends, and nothing is seen of it.
LEMMA ArtifactMoves ==
    ASSUME FileSetInv, pc.at = "artifact",
           UNCHANGED <<final, folder, disk, made, indeterminate, rec, scan, committed, range>>,
           \/ \E s : ToStage(s)
           \/ Goto("idle") /\ UNCHANGED ws
           \/ Goto("resolve") /\ ws' = [ws EXCEPT !.artifact = NoArtifact],
           UNCHANGED budget \/ Spend("repairs")
    PROVE  Sane /\ Strolls
<1>t. FileTypes /\ Owned /\ IsWorkspace(ws) /\ IsControl(pc) /\ IsBudget(budget)
  BY DEF FileSetInv, FileTypes
<1>1. Store /\ Owned' /\ Books /\ Apart
  BY <1>t, StoreUnchanged DEF Books, Apart
<1>2. IsBudget(budget') /\ Spends
  BY <1>t, Unspent, SpentRepair
<1>3. IsWorkspace(ws') /\ WsSame /\ IsControl(pc') /\ pc'.at \in {"artifact", "idle", "resolve"}
  <2>1. ASSUME NEW s, ToStage(s) PROVE IsWorkspace(ws') /\ WsSame /\ pc' = pc
    BY <1>t, <2>1, WsStage DEF ToStage
  <2>2. CASE Goto("idle") /\ UNCHANGED ws
    BY <1>t, <2>2, GotoIs DEF WsSame, WsIs, PcIs
  <2>3. CASE Goto("resolve") /\ ws' = [ws EXCEPT !.artifact = NoArtifact]
    <3>1. IsArtifact(NoArtifact)
      BY Bounds DEF IsArtifact, NoArtifact
    <3> QED BY <1>t, <2>3, <3>1, GotoIs, WsArtifact DEF PcIs
  <2> QED BY <1>t, <2>1, <2>2, <2>3
<1>4. FileTypes'
  BY <1>t, <1>2, <1>3 DEF FileTypes
<1>5. Strolls
  BY <1>1, <1>2, <1>3 DEF Strolls, Moves, Steady
<1> QED BY <1>1, <1>4, <1>5 DEF Sane

\* The stages of the handoff that touch no public name.
LEMMA ArtifactStagesEffect ==
    ASSUME FileSetInv,
           MakeQuarantine \/ UnlinkHeld \/ RemoveQuarantine \/ ArtifactResolved \/ ArtifactFails
    PROVE  Sane /\ Strolls
<1>1. CASE MakeQuarantine
  BY <1>1, ArtifactMoves DEF MakeQuarantine, InStage, At
<1>2. CASE UnlinkHeld
  BY <1>2, ArtifactMoves DEF UnlinkHeld, InStage, At, disks
<1>3. CASE RemoveQuarantine
  BY <1>3, ArtifactMoves DEF RemoveQuarantine, InStage, At
<1>4. CASE ArtifactResolved
  BY <1>4, ArtifactMoves DEF ArtifactResolved, InStage, At, disks
<1>5. CASE ArtifactFails
  BY <1>5, ArtifactMoves DEF ArtifactFails, At, disks, session
<1> QED BY <1>1, <1>2, <1>3, <1>4, <1>5

\* Handoff moves the file from its public name, or does not.
LEMMA HandoffEffect ==
    ASSUME FileSetInv, Handoff
    PROVE  Sane /\ (HandsOff \/ Strolls)
<1>t. FileTypes /\ Owned /\ IsWorkspace(ws) /\ IsControl(pc) /\ IsBudget(budget) /\ IsStore(disk)
      /\ pc.at = "artifact" /\ ws.artifact.entry \in Entries
  BY DEF FileSetInv, FileTypes, Handoff, InStage, At, IsWorkspace
<1>u. UNCHANGED <<folder, made, indeterminate, rec, scan, budget, committed, range>>
  BY DEF Handoff
<1>x. ws.tx \in Transactions
  BY <1>t DEF FileSetInv, Sessions, Workspace, IsWorkspace
<1>1. CASE UNCHANGED <<final, disk>>
  <2>1. (\E s : ToStage(s)) \/ (Goto("idle") /\ UNCHANGED ws)
    BY DEF Handoff
  <2> QED BY <1>t, <1>u, <1>1, <2>1, ArtifactMoves
<1>2. ASSUME ToStage("held"), disk' = [disk EXCEPT ![ws.tx].partial = @ \ {ws.artifact.entry}], UNCHANGED final
      PROVE  Sane /\ Strolls
  <2>1. IsStore(disk') /\ Only(ws.tx)
        /\ TxIs(ws.tx, disk[ws.tx].group, disk[ws.tx].dir, disk[ws.tx].partial \ {ws.artifact.entry},
                disk[ws.tx].manifest, disk[ws.tx].range)
    BY <1>t, <1>x, <1>2, TxPartial
  <2>2. Store /\ Owned'
    BY <1>t, <1>u, <1>x, <1>2, <2>1, StoreTouched
  <2>3. IsWorkspace(ws') /\ WsSame /\ pc' = pc
    BY <1>t, <1>2, WsStage DEF ToStage
  <2>4. IsBudget(budget') /\ Spends
    BY <1>t, <1>u, Unspent
  <2>5. FileTypes'
    BY <1>t, <1>u, <1>2, <2>1, <2>3, <2>4 DEF FileTypes
  <2>6. Strolls
    BY <1>t, <1>u, <2>2, <2>3, <2>4 DEF Strolls, Moves, Steady, Books, Apart
  <2> QED BY <2>2, <2>5, <2>6 DEF Sane
<1>3. ASSUME ToStage("held"), final[ArtifactGroup][ws.artifact.entry] = ws.tx,
             final' = [final EXCEPT ![ArtifactGroup][ws.artifact.entry] = Absent], UNCHANGED disk
      PROVE  Sane /\ HandsOff
  <2>0. PICK t \in Transactions, i \in Entries : t = ws.tx /\ i = ws.artifact.entry
    BY <1>t, <1>x
  <2>1. IsFinal(final') /\ Owned' /\ Loses(t, i)
    BY <1>t, <1>u, <1>3, <2>0, NameLost DEF ArtifactGroup
  <2>2. IsWorkspace(ws') /\ WsSame /\ pc' = pc
    BY <1>t, <1>3, WsStage DEF ToStage
  <2>3. IsBudget(budget') /\ Spends
    BY <1>t, <1>u, Unspent
  <2>4. FileTypes'
    BY <1>t, <1>u, <1>3, <2>1, <2>2, <2>3 DEF FileTypes
  <2>5. ws'.tx = t
    BY <2>0, <2>2 DEF WsSame, WsIs
  <2>6. Loses(ws.tx, i)
    BY <2>0, <2>1, <2>5 DEF Loses, Others
  <2>7. HandsOff
    BY <1>t, <1>u, <2>2, <2>3, <2>6 DEF HandsOff, Steady, Books, Apart
  <2> QED BY <2>1, <2>4, <2>7 DEF Sane
<1> QED BY <1>1, <1>2, <1>3 DEF Handoff, PublicOwner

-----------------------------------------------------------------------------
(* The steps of a recovery.                                                *)

\* The caller of a recovery waits.
LEMMA CallerSteady ==
    ASSUME UNCHANGED caller
    PROVE  Steady /\ pc' = pc /\ scan' = scan /\ UNCHANGED <<made, ws, indeterminate, committed, range>>
  BY DEF caller, Steady, WsSame, WsIs, Books

\* Where a recovery runs, and that it is one of a transaction.
LEMMA RecoveringAt ==
    ASSUME FileSetInv, rec.step # "none"
    PROVE  /\ FileTypes /\ Owned /\ IsRecovery(rec) /\ IsBudget(budget) /\ IsStore(disk) /\ rec.entry \in Entries
           /\ rec.tx \in Transactions /\ pc.at \notin Working
<1>1. FileTypes /\ Owned /\ IsRecovery(rec) /\ IsBudget(budget) /\ IsStore(disk) /\ Callers
  BY DEF FileSetInv, FileTypes, Sessions
<1> QED BY <1>1 DEF Callers, IsRecovery, Returns, Working, Publishing

\* A step that only changes the recovery and spends from the budget.
LEMMA RecoveryTypes ==
    ASSUME FileTypes, UNCHANGED caller, UNCHANGED <<final, folder, disk>>, IsRecovery(rec'), IsBudget(budget')
    PROVE  FileTypes'
  BY CallerSteady DEF FileTypes

\* ReadManifest refuses, finds the set complete, or begins to take it back.
LEMMA ReadManifestEffect ==
    ASSUME FileSetInv, ReadManifest
    PROVE  Sane /\ Reads
<1>0. rec.step = "read" /\ UNCHANGED <<final, folder, disk>> /\ UNCHANGED caller /\ UNCHANGED budget
  BY DEF ReadManifest, disks
<1>t. FileTypes /\ Owned /\ IsRecovery(rec) /\ IsBudget(budget) /\ rec.tx \in Transactions
  BY <1>0, RecoveringAt
<1>1. Store /\ Owned' /\ IsBudget(budget') /\ Within
  BY <1>0, <1>t, StoreUnchanged, Unspent, CallerSteady DEF Within
<1> DEFINE m == disk[rec.tx].manifest
<1>2. CASE ~m.some \/ ~ValidPhaseState(m)
  <2>1. Ends("error")
    BY <1>2 DEF ReadManifest
  <2>2. IsRecovery(rec') /\ RecIs("done", rec.tx, rec.entry, rec.pending, "error")
    BY <1>t, <2>1, RecEnds
  <2> QED BY <1>0, <1>t, <1>1, <1>2, <2>2, RecoveryTypes DEF Sane, Reads, Closes
<1>3. CASE m.some /\ ValidPhaseState(m) /\ CompleteFinalSet(rec.tx)
  <2>1. Step("syncFinals")
    BY <1>3 DEF ReadManifest
  <2>2. IsRecovery(rec') /\ RecIs("syncFinals", rec.tx, rec.entry, rec.pending, rec.outcome)
    BY <1>t, <2>1, RecStep
  <2> QED BY <1>0, <1>t, <1>1, <1>3, <2>2, RecoveryTypes DEF Sane, Reads, Steps
<1>4. CASE m.some /\ ValidPhaseState(m) /\ ~CompleteFinalSet(rec.tx)
  <2>1. Step("final")
    BY <1>4 DEF ReadManifest
  <2>2. IsRecovery(rec') /\ RecIs("final", rec.tx, rec.entry, rec.pending, rec.outcome)
    BY <1>t, <2>1, RecStep
  <2> QED BY <1>0, <1>t, <1>1, <1>4, <2>2, RecoveryTypes DEF Sane, Reads, Steps
<1> QED BY <1>2, <1>3, <1>4

\* RecoverSync goes on while the set is complete.
LEMMA RecoverSyncEffect ==
    ASSUME FileSetInv, RecoverSync
    PROVE  Sane /\ Rechecks
<1>0. rec.step = "syncFinals" /\ UNCHANGED <<final, folder, disk>> /\ UNCHANGED caller /\ UNCHANGED budget
  BY DEF RecoverSync, disks
<1>t. FileTypes /\ Owned /\ IsRecovery(rec) /\ IsBudget(budget)
  BY <1>0, RecoveringAt
<1>1. Store /\ Owned' /\ IsBudget(budget') /\ Within
  BY <1>0, <1>t, StoreUnchanged, Unspent, CallerSteady DEF Within
<1>2. CASE CompleteFinalSet(rec.tx)
  <2>1. Step("tidy")
    BY <1>2 DEF RecoverSync
  <2>2. IsRecovery(rec') /\ RecIs("tidy", rec.tx, rec.entry, rec.pending, rec.outcome)
    BY <1>t, <2>1, RecStep
  <2> QED BY <1>0, <1>t, <1>1, <2>2, RecoveryTypes DEF Sane, Rechecks, Steps
<1>3. CASE ~CompleteFinalSet(rec.tx)
  <2>1. Ends("error")
    BY <1>3 DEF RecoverSync
  <2>2. IsRecovery(rec') /\ RecIs("done", rec.tx, rec.entry, rec.pending, "error")
    BY <1>t, <2>1, RecEnds
  <2> QED BY <1>0, <1>t, <1>1, <1>3, <2>2, RecoveryTypes DEF Sane, Rechecks, Closes
<1> QED BY <1>2, <1>3

\* A step of a recovery that may change what the invariant does not tell of its
\* transaction.
LEMMA RecoveryTouches ==
    ASSUME FileSetInv, rec.step # "none", UNCHANGED <<final, folder>>, UNCHANGED caller,
           \/ UNCHANGED disk
           \/ \E s : disk' = [disk EXCEPT ![rec.tx].staged = s]
           \/ disk' = [disk EXCEPT ![rec.tx].dir = FALSE] /\ ~disk[rec.tx].manifest.some
           \/ \E p : disk' = [disk EXCEPT ![rec.tx].partial = p] /\ p \subseteq disk[rec.tx].partial,
           UNCHANGED budget \/ Spend("repairs"),
           IsRecovery(rec')
    PROVE  Sane /\ Store /\ Within
<1>t. FileTypes /\ Owned /\ IsRecovery(rec) /\ IsBudget(budget) /\ IsStore(disk) /\ rec.tx \in Transactions
      /\ pc.at \notin Working
  BY RecoveringAt
<1>1. Steady /\ pc' = pc /\ scan' = scan /\ UNCHANGED <<made, ws, indeterminate, committed, range>>
  BY CallerSteady
<1>2. IsBudget(budget') /\ Spends
  BY <1>t, Unspent, SpentRepair
<1>3. IsStore(disk') /\ Store /\ Owned'
  <2>1. CASE UNCHANGED disk
    BY <1>t, <1>1, <2>1, StoreUnchanged
  <2>2. ASSUME NEW s, disk' = [disk EXCEPT ![rec.tx].staged = s] PROVE IsStore(disk') /\ Store /\ Owned'
    <3>1. IsStore(disk') /\ Only(rec.tx)
          /\ TxIs(rec.tx, disk[rec.tx].group, disk[rec.tx].dir, disk[rec.tx].partial, disk[rec.tx].manifest,
                  disk[rec.tx].range)
      BY <1>t, <2>2, TxStaged
    <3> QED BY <1>t, <1>1, <3>1, StoreTouched
  <2>3. CASE disk' = [disk EXCEPT ![rec.tx].dir = FALSE] /\ ~disk[rec.tx].manifest.some
    <3>1. IsStore(disk') /\ Only(rec.tx)
          /\ TxIs(rec.tx, disk[rec.tx].group, FALSE, disk[rec.tx].partial, disk[rec.tx].manifest, disk[rec.tx].range)
      BY <1>t, <2>3, TxDir
    <3> QED BY <1>t, <1>1, <2>3, <3>1, StoreTouched
  <2>4. ASSUME NEW p, disk' = [disk EXCEPT ![rec.tx].partial = p], p \subseteq disk[rec.tx].partial
        PROVE  IsStore(disk') /\ Store /\ Owned'
    <3>1. IsStore(disk') /\ Only(rec.tx)
          /\ TxIs(rec.tx, disk[rec.tx].group, disk[rec.tx].dir, p, disk[rec.tx].manifest, disk[rec.tx].range)
      BY <1>t, <2>4, TxPartial
    <3> QED BY <1>t, <1>1, <2>4, <3>1, StoreTouched
  <2> QED BY <2>1, <2>2, <2>3, <2>4
<1>4. FileTypes'
  BY <1>t, <1>1, <1>2, <1>3 DEF FileTypes
<1> QED BY <1>1, <1>2, <1>3, <1>4 DEF Sane, Within

\* The manifest of the recovered transaction goes.
LEMMA RecoveryUnmarks ==
    ASSUME FileSetInv, rec.step # "none", UNCHANGED <<final, folder>>, UNCHANGED caller,
           disk' = [disk EXCEPT ![rec.tx].manifest = NoManifest], UNCHANGED budget,
           IsRecovery(rec'), rec'.tx = rec.tx
    PROVE  /\ Sane /\ Within /\ Others(rec.tx)
           /\ ~disk'[rec.tx].manifest.some
           /\ disk'[rec.tx].range = disk[rec.tx].range /\ Visible(rec.tx)' = Visible(rec.tx)
<1>t. FileTypes /\ Owned /\ IsRecovery(rec) /\ IsBudget(budget) /\ IsStore(disk) /\ rec.tx \in Transactions
  BY RecoveringAt
<1>1. Steady /\ pc' = pc /\ scan' = scan /\ UNCHANGED <<made, ws, indeterminate, committed, range>>
  BY CallerSteady
<1>2. IsBudget(budget') /\ Spends
  BY <1>t, Unspent
<1>3. IsStore(disk') /\ Only(rec.tx)
      /\ TxIs(rec.tx, disk[rec.tx].group, disk[rec.tx].dir, disk[rec.tx].partial, NoManifest, disk[rec.tx].range)
  BY <1>t, TxUnmarked
<1>4. \A u \in Transactions : disk'[u].group = disk[u].group
  BY <1>3 DEF Only, TxIs
<1>5. \A u \in Transactions : Visible(u)' = Visible(u)
  BY <1>4 DEF Visible
<1>6. \A u \in Transactions \ {rec.tx}, i \in Entries : FinalKnown(u, i)' <=> FinalKnown(u, i)
  BY <1>3 DEF FinalKnown, Only
<1>7. Others(rec.tx)
  BY <1>3, <1>5, <1>6 DEF Others, SameTx, Only
<1>8. Owned'
  BY <1>t, <1>1, <1>4 DEF Owned
<1>9. FileTypes'
  BY <1>t, <1>1, <1>2, <1>3 DEF FileTypes
<1> QED BY <1>t, <1>1, <1>2, <1>3, <1>5, <1>7, <1>8, <1>9, NoManifestIs DEF Sane, Within, TxIs

\* The steps that tidy up after a complete set hide no file.
LEMMA TidyEffect ==
    ASSUME FileSetInv, TidyStaged \/ TidyManifest \/ TidyDir
    PROVE  Sane /\ (Tidies \/ Unmarks)
<1>0. rec.step # "none"
  BY DEF TidyStaged, TidyManifest, TidyDir
<1>t. IsRecovery(rec)
  BY <1>0, RecoveringAt
<1>1. CASE TidyStaged
  <2>1. IsRecovery(rec') /\ RecIs("tidyManifest", rec.tx, rec.entry, rec.pending, rec.outcome)
    BY <1>t, <1>1, RecStep DEF TidyStaged
  <2>2. Sane /\ Store /\ Within
    BY <1>0, <1>1, <2>1, RecoveryTouches DEF TidyStaged
  <2> QED BY <1>1, <2>1, <2>2 DEF TidyStaged, Tidies, Steps
<1>2. CASE TidyManifest
  <2>1. CASE disk' = [disk EXCEPT ![rec.tx].manifest = NoManifest] /\ Step("tidyDir") /\ UNCHANGED budget
    <3>1. IsRecovery(rec') /\ RecIs("tidyDir", rec.tx, rec.entry, rec.pending, rec.outcome)
      BY <1>t, <2>1, RecStep
    <3>2. /\ Sane /\ Within /\ Others(rec.tx)
          /\ ~disk'[rec.tx].manifest.some
          /\ disk'[rec.tx].range = disk[rec.tx].range /\ Visible(rec.tx)' = Visible(rec.tx)
      BY <1>0, <1>2, <2>1, <3>1, RecoveryUnmarks DEF TidyManifest, RecIs
    <3> QED BY <1>2, <3>1, <3>2 DEF TidyManifest, Unmarks, Steps
  <2>2. CASE Ends("complete") /\ UNCHANGED disk /\ (UNCHANGED budget \/ Spend("repairs"))
    <3>1. IsRecovery(rec') /\ RecIs("done", rec.tx, rec.entry, rec.pending, "complete")
      BY <1>t, <2>2, RecEnds
    <3>2. Sane /\ Store /\ Within
      BY <1>0, <1>2, <2>2, <3>1, RecoveryTouches DEF TidyManifest
    <3> QED BY <1>2, <3>1, <3>2 DEF TidyManifest, Tidies, Closes
  <2> QED BY <1>2, <2>1, <2>2 DEF TidyManifest
<1>3. CASE TidyDir
  <2>1. IsRecovery(rec') /\ RecIs("done", rec.tx, rec.entry, rec.pending, "complete")
    BY <1>t, <1>3, RecEnds DEF TidyDir
  <2>2. ~disk[rec.tx].manifest.some
    BY <1>3 DEF TidyDir, FileSetInv, Recovering, LastToGo, MarksKept
  <2>3. Sane /\ Store /\ Within
    BY <1>0, <1>3, <2>1, <2>2, RecoveryTouches DEF TidyDir
  <2> QED BY <1>3, <2>1, <2>3 DEF TidyDir, Tidies, Closes
<1> QED BY <1>1, <1>2, <1>3

\* RollBackFinal removes the file it knows, and notes the one it does not.
LEMMA RollBackFinalEffect ==
    ASSUME FileSetInv, RollBackFinal
    PROVE  Sane /\ TakesBack
<1>0. rec.step = "final" /\ UNCHANGED <<folder, disk>> /\ UNCHANGED caller
  BY DEF RollBackFinal
<1>t. FileTypes /\ Owned /\ IsRecovery(rec) /\ IsBudget(budget) /\ IsFinal(final) /\ rec.tx \in Transactions
      /\ rec.entry \in Entries
  BY <1>0, RecoveringAt DEF FileTypes
<1>1. Steady /\ pc' = pc /\ scan' = scan /\ UNCHANGED <<made, ws, indeterminate, committed, range>>
  BY <1>0, CallerSteady
<1>2. PICK t \in Transactions, i \in Entries : t = rec.tx /\ i = rec.entry
  BY <1>t
<1>3. ASSUME FinalKnown(t, i), final' = [final EXCEPT ![disk[t].group][i] = Removed(@, t)], Step("partial"),
             UNCHANGED budget
      PROVE  Sane /\ TakesBack
  <2>1. IsRecovery(rec') /\ RecIs("partial", rec.tx, rec.entry, rec.pending, rec.outcome)
    BY <1>t, <1>3, RecStep
  <2>2. IsBudget(budget') /\ Spends
    BY <1>t, <1>3, Unspent
  <2>3. IsFinal(final') /\ Owned' /\ Loses(t, i)
    <3>1. CASE final[disk[t].group][i] = t
      <4>1. final' = [final EXCEPT ![disk[t].group][i] = Absent]
        BY <1>3, <3>1 DEF Removed
      <4> QED BY <1>0, <1>1, <1>t, <3>1, <4>1, NameLost
    <3>2. CASE final[disk[t].group][i] # t
      <4>1. disk[t].group \in Groups
        BY <1>t DEF FileTypes, IsStore, IsDisk
      <4>2. IsFinal(final') /\ \A h \in Groups, j \in Entries : final'[h][j] = final[h][j]
        <5>1. PICK g \in Groups : g = disk[t].group
          BY <4>1
        <5>2. final' = [final EXCEPT ![g][i] = final[g][i]]
          BY <1>3, <3>2, <5>1 DEF Removed
        <5> QED BY <1>t, <5>2 DEF IsFinal
      <4>3. \A u \in Transactions : disk[u].group \in Groups
        BY <1>t DEF FileTypes, IsStore, IsDisk
      <4>4. \A u \in Transactions : Visible(u)' = Visible(u)
        BY <1>0, <4>2, <4>3 DEF Visible
      <4>5. i \notin Visible(t)
        BY <3>2 DEF Visible
      <4>6. \A u \in Transactions, j \in Entries : FinalKnown(u, j)' <=> FinalKnown(u, j)
        BY <1>0 DEF FinalKnown
      <4>7. Owned'
        BY <1>0, <1>1, <1>t, <4>2 DEF Owned
      <4>8. Others(t)
        BY <1>0, <4>4, <4>6 DEF Others, SameTx
      <4>9. Visible(t)' = Visible(t) \ {i}
        BY <4>4, <4>5
      <4> QED BY <1>0, <4>2, <4>6, <4>7, <4>8, <4>9 DEF Loses
    <3> QED BY <3>1, <3>2
  <2>4. FileTypes'
    BY <1>0, <1>t, <1>1, <2>1, <2>2, <2>3 DEF FileTypes
  <2>5. rec'.tx = t /\ rec'.entry = i /\ (rec'.pending <=> rec.pending)
    BY <1>2, <2>1 DEF RecIs
  <2>6. Rolls("final", "partial")
    BY <1>0, <1>1, <2>1, <2>2 DEF Rolls, Within, RecIs
  <2>7. Loses(rec.tx, rec.entry) /\ FinalKnown(rec.tx, rec.entry)
    BY <1>2, <1>3, <2>3, <2>5 DEF Loses, Others
  <2> QED BY <2>3, <2>4, <2>5, <2>6, <2>7 DEF Sane, TakesBack
<1>4. ASSUME UNCHANGED <<final, budget>>, ~FinalKnown(t, i), Step("partial") \/ Pends("partial")
      PROVE  Sane /\ TakesBack
  <2>1. IsRecovery(rec') /\ \E p \in BOOLEAN : RecIs("partial", rec.tx, rec.entry, p, rec.outcome) /\ (rec.pending => p)
    <3>1. CASE Step("partial")
      BY <1>t, <3>1, RecStep DEF RecIs
    <3>2. CASE Pends("partial")
      BY <1>t, <3>2, RecPends DEF RecIs
    <3> QED BY <1>4, <3>1, <3>2
  <2>2. Sane /\ Store /\ Within
    BY <1>0, <1>4, <2>1, RecoveryTouches
  <2> QED BY <1>0, <1>2, <1>4, <2>1, <2>2 DEF TakesBack, Rolls
<1>5. ASSUME Spend("repairs"), Pends("partial"), UNCHANGED final
      PROVE  Sane /\ TakesBack
  <2>1. IsRecovery(rec') /\ RecIs("partial", rec.tx, rec.entry, TRUE, rec.outcome)
    BY <1>t, <1>5, RecPends
  <2>2. Sane /\ Store /\ Within
    BY <1>0, <1>5, <2>1, RecoveryTouches
  <2>3. ~Unfailed'
    BY <1>t, <1>5, SpentRepair
  <2> QED BY <1>0, <2>1, <2>2, <2>3 DEF TakesBack, Rolls, RecIs
<1> QED BY <1>2, <1>3, <1>4, <1>5 DEF RollBackFinal

\* RollBackPartial touches no final name.
LEMMA RollBackPartialEffect ==
    ASSUME FileSetInv, RollBackPartial
    PROVE  Sane /\ SkipsPartial
<1>0. rec.step = "partial" /\ UNCHANGED <<final, folder>> /\ UNCHANGED caller
  BY DEF RollBackPartial
<1>t. IsRecovery(rec) /\ IsBudget(budget)
  BY <1>0, RecoveringAt
<1>1. Step("staged") \/ Pends("staged")
  BY DEF RollBackPartial
<1>2. IsRecovery(rec') /\ \E p \in BOOLEAN : RecIs("staged", rec.tx, rec.entry, p, rec.outcome) /\ (rec.pending => p)
  <2>1. CASE Step("staged")
    BY <1>t, <2>1, RecStep DEF RecIs
  <2>2. CASE Pends("staged")
    BY <1>t, <2>2, RecPends DEF RecIs
  <2> QED BY <1>1, <2>1, <2>2
<1>3. UNCHANGED disk \/ \E p : disk' = [disk EXCEPT ![rec.tx].partial = p] /\ p \subseteq disk[rec.tx].partial
  <2>1. \/ UNCHANGED disk
        \/ disk' = [disk EXCEPT ![rec.tx].partial = disk[rec.tx].partial \ {rec.entry}]
    BY DEF RollBackPartial
  <2>2. disk[rec.tx].partial \ {rec.entry} \subseteq disk[rec.tx].partial
    OBVIOUS
  <2> QED BY <2>1, <2>2
<1>4. UNCHANGED budget \/ Spend("repairs")
  BY DEF RollBackPartial
<1>5. Sane /\ Store /\ Within
  BY <1>0, <1>2, <1>3, <1>4, RecoveryTouches
<1> QED BY <1>0, <1>2, <1>5 DEF SkipsPartial, Rolls

\* RollBackStaged goes to the next entry or to the end.
LEMMA RollBackStagedEffect ==
    ASSUME FileSetInv, RollBackStaged
    PROVE  Sane /\ SkipsStaged
<1>0. rec.step = "staged" /\ UNCHANGED <<final, folder>> /\ UNCHANGED caller
  BY DEF RollBackStaged
<1>t. IsRecovery(rec) /\ IsBudget(budget) /\ rec.entry \in Entries
  BY <1>0, RecoveringAt
<1>n. rec.entry \in Nat /\ FileCount \in Nat /\ rec.entry <= FileCount
  BY <1>t, Bounds
<1>m. rec.entry < FileCount \/ rec.entry = FileCount
  BY <1>n
<1>i. rec.entry < FileCount => rec.entry + 1 \in Entries
  BY <1>n DEF Entries
<1>k. rec.entry = FileCount => ~(rec.entry < FileCount)
  BY <1>n
<1>2. IsRecovery(rec')
      /\ \E p \in BOOLEAN :
           /\ rec.pending => p
           /\ \/ rec.entry < FileCount /\ RecIs("final", rec.tx, rec.entry + 1, p, rec.outcome)
              \/ rec.entry = FileCount /\ RecIs("settle", rec.tx, rec.entry, p, rec.outcome)
  <2>1. CASE rec.entry < FileCount
    <3>1. \/ rec' = [rec EXCEPT !.step = "final", !.entry = @ + 1]
          \/ rec' = [rec EXCEPT !.pending = TRUE, !.step = "final", !.entry = @ + 1]
      BY <2>1 DEF RollBackStaged
    <3>2. IsRecovery(rec') /\ (rec.pending => rec'.pending)
          /\ rec'.step = "final" /\ rec'.tx = rec.tx /\ rec'.entry = rec.entry + 1 /\ rec'.outcome = rec.outcome
      BY <1>t, <1>i, <2>1, <3>1 DEF IsRecovery
    <3> QED BY <2>1, <3>2 DEF RecIs
  <2>2. CASE rec.entry = FileCount
    <3>1. \/ rec' = [rec EXCEPT !.step = "settle"]
          \/ rec' = [rec EXCEPT !.pending = TRUE, !.step = "settle", !.entry = @]
      BY <1>k, <2>2 DEF RollBackStaged
    <3>2. IsRecovery(rec') /\ (rec.pending => rec'.pending)
          /\ rec'.step = "settle" /\ rec'.tx = rec.tx /\ rec'.entry = rec.entry /\ rec'.outcome = rec.outcome
      BY <1>t, <3>1 DEF IsRecovery
    <3> QED BY <2>2, <3>2 DEF RecIs
  <2> QED BY <1>m, <2>1, <2>2
<1>3. UNCHANGED disk \/ \E s : disk' = [disk EXCEPT ![rec.tx].staged = s]
  BY DEF RollBackStaged
<1>4. UNCHANGED budget \/ Spend("repairs")
  BY DEF RollBackStaged
<1>5. Sane /\ Store /\ Within
  BY <1>0, <1>2, <1>3, <1>4, RecoveryTouches
<1> QED BY <1>0, <1>2, <1>5 DEF SkipsStaged

\* Settle ends as pending or goes on to the manifest.
LEMMA SettleEffect ==
    ASSUME FileSetInv, Settle
    PROVE  Sane /\ Settles
<1>0. rec.step = "settle" /\ UNCHANGED <<final, disk>> /\ UNCHANGED caller
  BY DEF Settle
<1>t. FileTypes /\ Owned /\ IsRecovery(rec) /\ IsBudget(budget) /\ DOMAIN folder = Groups
  BY <1>0, RecoveringAt DEF FileTypes
<1>1. UNCHANGED budget \/ Spend("repairs")
  BY DEF Settle
<1>2. Steady /\ pc' = pc /\ scan' = scan /\ UNCHANGED <<made, ws, indeterminate, committed, range>>
  BY <1>0, CallerSteady
<1>3. Store /\ Owned' /\ IsBudget(budget') /\ Within
  BY <1>0, <1>t, <1>1, <1>2, StoreUnchanged, Unspent, SpentRepair DEF Within
<1>4. DOMAIN folder' = Groups
  BY <1>t DEF Settle
<1>5. Ends("pending") \/ (~rec.pending /\ Step("manifest"))
  BY DEF Settle
<1>6. CASE Ends("pending")
  <2>1. IsRecovery(rec') /\ RecIs("done", rec.tx, rec.entry, rec.pending, "pending")
    BY <1>t, <1>6, RecEnds
  <2>2. FileTypes'
    BY <1>0, <1>t, <1>2, <1>3, <1>4, <2>1 DEF FileTypes
  <2> QED BY <1>0, <1>3, <2>1, <2>2 DEF Sane, Settles, Closes
<1>7. CASE ~rec.pending /\ Step("manifest")
  <2>1. IsRecovery(rec') /\ RecIs("manifest", rec.tx, rec.entry, rec.pending, rec.outcome)
    BY <1>t, <1>7, RecStep
  <2>2. FileTypes'
    BY <1>0, <1>t, <1>2, <1>3, <1>4, <2>1 DEF FileTypes
  <2> QED BY <1>0, <1>3, <1>7, <2>1, <2>2 DEF Sane, Settles, Steps
<1> QED BY <1>5, <1>6, <1>7

\* RemoveManifest removes the manifest.
LEMMA RemoveManifestEffect ==
    ASSUME FileSetInv, RemoveManifest
    PROVE  Sane /\ Unmarks
<1>0. rec.step = "manifest"
  BY DEF RemoveManifest
<1>t. IsRecovery(rec)
  BY <1>0, RecoveringAt
<1>1. IsRecovery(rec') /\ RecIs("rmdir", rec.tx, rec.entry, rec.pending, rec.outcome)
  BY <1>t, RecStep DEF RemoveManifest
<1>2. /\ Sane /\ Within /\ Others(rec.tx)
      /\ ~disk'[rec.tx].manifest.some
      /\ disk'[rec.tx].range = disk[rec.tx].range /\ Visible(rec.tx)' = Visible(rec.tx)
  BY <1>0, <1>1, RecoveryUnmarks DEF RemoveManifest, RecIs
<1> QED BY <1>0, <1>1, <1>2 DEF Unmarks, Steps

\* RemoveStaging ends the recovery.
LEMMA RemoveStagingEffect ==
    ASSUME FileSetInv, RemoveStaging
    PROVE  Sane /\ Ending
<1>0. rec.step = "rmdir" /\ UNCHANGED <<final, folder>> /\ UNCHANGED caller
  BY DEF RemoveStaging
<1>t. IsRecovery(rec) /\ IsBudget(budget)
  BY <1>0, RecoveringAt
<1>m. ~disk[rec.tx].manifest.some
  BY <1>0 DEF FileSetInv, Recovering, LastToGo, MarksKept
<1>1. CASE disk' = [disk EXCEPT ![rec.tx].dir = FALSE] /\ Ends("rolledBack") /\ UNCHANGED budget
  <2>1. IsRecovery(rec') /\ RecIs("done", rec.tx, rec.entry, rec.pending, "rolledBack")
    BY <1>t, <1>1, RecEnds
  <2>2. Sane /\ Store /\ Within
    BY <1>0, <1>m, <1>1, <2>1, RecoveryTouches
  <2> QED BY <1>0, <2>1, <2>2 DEF Ending, Closes
<1>2. CASE Spend("repairs") /\ Ends("pending") /\ UNCHANGED disk
  <2>1. IsRecovery(rec') /\ RecIs("done", rec.tx, rec.entry, rec.pending, "pending")
    BY <1>t, <1>2, RecEnds
  <2>2. Sane /\ Store /\ Within
    BY <1>0, <1>2, <2>1, RecoveryTouches
  <2>3. ~Unfailed'
    BY <1>t, <1>2, SpentRepair
  <2> QED BY <1>0, <2>1, <2>2, <2>3 DEF Ending, Closes
<1> QED BY <1>1, <1>2 DEF RemoveStaging

\* RecoveryFails ends the recovery with an error.
LEMMA RecoveryFailsEffect ==
    ASSUME FileSetInv, RecoveryFails
    PROVE  Sane /\ Breaks
<1>0. /\ rec.step \in {"read", "syncFinals", "final", "partial", "staged", "manifest", "settle"}
      /\ UNCHANGED <<final, folder, disk>> /\ UNCHANGED caller /\ Spend("repairs") /\ Ends("error")
  BY DEF RecoveryFails, disks
<1>t. IsRecovery(rec) /\ IsBudget(budget)
  BY <1>0, RecoveringAt
<1>1. IsRecovery(rec') /\ RecIs("done", rec.tx, rec.entry, rec.pending, "error")
  BY <1>t, <1>0, RecEnds
<1>2. Sane /\ Store /\ Within
  BY <1>0, <1>1, RecoveryTouches
<1>3. ~Unfailed'
  BY <1>t, <1>0, SpentRepair
<1> QED BY <1>0, <1>1, <1>2, <1>3 DEF Breaks, Closes

-----------------------------------------------------------------------------
(* What runs a recovery, and the surroundings.                             *)

\* FinishReturns forgets the publication or keeps it for later.
LEMMA FinishReturnsEffect ==
    ASSUME FileSetInv, FinishReturns
    PROVE  Sane /\ Finishes
<1>t. FileTypes /\ Owned /\ IsWorkspace(ws) /\ IsControl(pc) /\ IsBudget(budget)
  BY DEF FileSetInv, FileTypes
<1>u. UNCHANGED <<final, folder, disk, made, indeterminate, scan, budget, committed, range>>
  BY DEF FinishReturns, disks
<1>0. pc.at \in {"head", "finalize"} /\ rec.step = "done" /\ rec' = NoRecovery
  BY DEF FinishReturns, Recovered, At
<1>1. Store /\ Owned' /\ Books /\ IsBudget(budget') /\ Spends /\ IsRecovery(rec') /\ Released
  BY <1>t, <1>u, <1>0, StoreUnchanged, Unspent, RecReleased DEF Books
<1>2. CASE rec.outcome = "complete"
  <2>1. ws' = ClearedWorkspace /\ Goto(IF pc.at = "head" THEN "resolve" ELSE "idle")
    BY <1>2 DEF FinishReturns, At
  <2>2. IsWorkspace(ws') /\ WsCleared
    BY <1>t, <2>1, WsClears
  <2>3. IsControl(pc') /\ pc'.at = IF pc.at = "head" THEN "resolve" ELSE "idle"
    BY <1>t, <2>1, GotoIs DEF PcIs
  <2>4. FileTypes'
    BY <1>t, <1>u, <1>1, <2>2, <2>3 DEF FileTypes
  <2>5. Finishes
    BY <1>u, <1>0, <1>1, <2>2, <2>3 DEF Finishes
  <2> QED BY <1>1, <2>4, <2>5 DEF Sane
<1>3. CASE rec.outcome # "complete"
  <2>1. ws' = ws /\ Goto("idle")
    BY <1>3 DEF FinishReturns
  <2>2. IsControl(pc') /\ pc'.at = "idle" /\ WsSame
    BY <1>t, <2>1, GotoIs DEF PcIs, WsSame, WsIs
  <2>3. FileTypes'
    BY <1>t, <1>u, <1>1, <2>1, <2>2 DEF FileTypes
  <2>4. Finishes
    BY <1>u, <1>0, <1>1, <2>2 DEF Finishes
  <2> QED BY <1>1, <2>3, <2>4 DEF Sane
<1> QED BY <1>2, <1>3

\* RetryReturns commits, prepares again, or stays open.
LEMMA RetryReturnsEffect ==
    ASSUME FileSetInv, RetryReturns
    PROVE  Sane /\ (Commits \/ Reprepares \/ StaysOpen)
<1>t. FileTypes /\ Owned /\ IsWorkspace(ws) /\ IsControl(pc) /\ IsBudget(budget)
  BY DEF FileSetInv, FileTypes
<1>u. UNCHANGED <<final, folder, disk, made, scan, budget>>
  BY DEF RetryReturns, disks
<1>0. pc.at = "retry" /\ rec.step = "done" /\ rec' = NoRecovery
  BY DEF RetryReturns, Recovered, At
<1>x. ws.tx \in Transactions
  BY <1>t, <1>0 DEF FileSetInv, Sessions, Workspace, Returns, IsWorkspace
<1>1. Store /\ Owned' /\ IsBudget(budget') /\ Spends /\ IsRecovery(rec') /\ Released
  BY <1>t, <1>u, <1>0, StoreUnchanged, Unspent, RecReleased
<1>2. CASE rec.outcome = "complete"
  <2>1. Commit(ws.tx) /\ ~indeterminate'
    BY <1>2 DEF RetryReturns
  <2>0. PICK t \in Transactions : t = ws.tx
    BY <1>x
  <2>2. /\ IsWorkspace(ws') /\ WsIs(ws.tx, ws.manifest, ws.durable, TRUE, ws.leftover)
        /\ IsControl(pc') /\ pc'.at = "deliver"
        /\ committed' = committed \cup {t} /\ committed' \subseteq Transactions
        /\ range' = range + 1 /\ range' \in Nat \ {0}
    BY <1>t, <2>0, <2>1, CommitIs
  <2>3. FileTypes'
    BY <1>t, <1>u, <1>1, <2>2 DEF FileTypes
  <2>4. Commits
    BY <1>u, <1>0, <1>1, <1>2, <2>0, <2>1, <2>2 DEF Commits
  <2> QED BY <1>1, <2>3, <2>4 DEF Sane
<1>3. CASE rec.outcome = "rolledBack"
  <2>1. ws' = ClearedWorkspace /\ ~indeterminate' /\ Goto("prepare") /\ UNCHANGED <<committed, range>>
    BY <1>3 DEF RetryReturns
  <2>2. IsWorkspace(ws') /\ WsCleared /\ IsControl(pc') /\ pc'.at = "prepare"
    BY <1>t, <2>1, WsClears, GotoIs DEF PcIs
  <2>3. FileTypes'
    BY <1>t, <1>u, <1>1, <2>1, <2>2 DEF FileTypes
  <2>4. Reprepares
    BY <1>u, <1>0, <1>1, <1>3, <2>1, <2>2 DEF Reprepares, Books
  <2> QED BY <1>1, <2>3, <2>4 DEF Sane
<1>4. CASE rec.outcome \notin {"complete", "rolledBack"}
  <2>1. Goto("idle") /\ UNCHANGED <<ws, indeterminate, committed, range>>
    BY <1>4 DEF RetryReturns
  <2>2. IsControl(pc') /\ pc'.at = "idle" /\ Steady
    BY <1>t, <1>u, <2>1, GotoIs DEF PcIs, Steady, WsSame, WsIs, Books
  <2>3. FileTypes'
    BY <1>t, <1>u, <1>1, <2>1, <2>2 DEF FileTypes
  <2>4. StaysOpen
    BY <1>u, <1>0, <1>1, <1>4, <2>2 DEF StaysOpen
  <2> QED BY <1>1, <2>3, <2>4 DEF Sane
<1> QED BY <1>2, <1>3, <1>4

\* ScanNext begins a recovery of a transaction that has a manifest.
LEMMA ScanNextEffect ==
    ASSUME FileSetInv, ScanNext
    PROVE  Sane /\ Scans
<1>t. FileTypes /\ Owned /\ IsBudget(budget) /\ IsScan(scan)
  BY DEF FileSetInv, FileTypes
<1>u. UNCHANGED <<final, folder, disk, made, ws, indeterminate, pc, budget, committed, range>>
      /\ pc.at = "boot" /\ rec.step = "none"
  BY DEF ScanNext, disks, At
<1>1. Store /\ Owned' /\ Steady /\ IsBudget(budget') /\ Spends
  BY <1>t, <1>u, StoreUnchanged, Unspent DEF Steady, WsSame, WsIs, Books
<1>2. PICK t \in Transactions : disk[t].manifest.some /\ StartRecovery(t) /\ scan' = [scan EXCEPT !.seen = Seen(t)]
  BY DEF ScanNext, Marked
<1>3. IsRecovery(rec') /\ Looking(t)
  BY <1>2, RecStarts
<1>4. IsScan(scan') /\ ScanIs(scan.why, scan.seen \cup {t}, scan.failed)
  BY <1>t, <1>2 DEF IsScan, ScanIs, Seen
<1>5. FileTypes'
  BY <1>t, <1>u, <1>1, <1>3, <1>4 DEF FileTypes
<1>6. Scans
  BY <1>u, <1>1, <1>2, <1>3, <1>4 DEF Scans
<1> QED BY <1>1, <1>5, <1>6 DEF Sane

\* ScanReturns remembers an error.
LEMMA ScanReturnsEffect ==
    ASSUME FileSetInv, ScanReturns
    PROVE  Sane /\ Scanned
<1>t. FileTypes /\ Owned /\ IsBudget(budget) /\ IsScan(scan)
  BY DEF FileSetInv, FileTypes
<1>u. UNCHANGED <<final, folder, disk, made, ws, indeterminate, pc, budget, committed, range>>
      /\ pc.at = "boot" /\ rec.step = "done" /\ rec' = NoRecovery
  BY DEF ScanReturns, Recovered, disks, At
<1>1. Store /\ Owned' /\ Steady /\ IsBudget(budget') /\ Spends /\ IsRecovery(rec') /\ Released
  BY <1>t, <1>u, StoreUnchanged, Unspent, RecReleased DEF Steady, WsSame, WsIs, Books
<1>2. IsScan(scan') /\ ScanIs(scan.why, scan.seen, scan.failed \/ rec.outcome = "error")
  BY <1>t DEF ScanReturns, IsScan, ScanIs
<1>3. FileTypes'
  BY <1>t, <1>u, <1>1, <1>2 DEF FileTypes
<1>4. Scanned
  BY <1>u, <1>1, <1>2 DEF Scanned
<1> QED BY <1>1, <1>3, <1>4 DEF Sane

\* ScanEnds installs the session, or does not when a recovery failed.
LEMMA ScanEndsEffect ==
    ASSUME FileSetInv, ScanEnds
    PROVE  Sane /\ (Ready \/ Again)
<1>t. FileTypes /\ Owned /\ IsBudget(budget) /\ IsControl(pc) /\ range \in Nat
  BY DEF FileSetInv, FileTypes
<1>u. UNCHANGED <<final, folder, disk, made, rec, committed, budget>> /\ pc.at = "boot" /\ rec.step = "none"
  BY DEF ScanEnds, disks, At
<1>1. Store /\ Owned' /\ IsBudget(budget') /\ Spends
  BY <1>t, <1>u, StoreUnchanged, Unspent
<1>2. IsScan(scan') /\ ScanIs("start", {}, FALSE)
  BY DEF ScanEnds, IsScan, ScanIs
<1>3. CASE ~scan.failed
  <2>1. NewSession /\ Goto("idle")
    BY <1>3 DEF ScanEnds
  <2>2. IsWorkspace(ws') /\ WsCleared /\ ~indeterminate' /\ range' = range + 1
    BY <2>1, WsFresh DEF NewSession
  <2>3. IsControl(pc') /\ pc'.at = "idle"
    BY <1>t, <2>1, GotoIs DEF PcIs
  <2>4. range + 1 \in Nat \ {0}
    BY <1>t
  <2>5. FileTypes'
    BY <1>t, <1>u, <1>1, <1>2, <2>2, <2>3, <2>4 DEF FileTypes
  <2>6. \A t \in Transactions : disk[t].dir /\ disk[t].manifest.some => t \in scan.seen
    BY DEF ScanEnds, Marked
  <2>7. Ready
    BY <1>u, <1>1, <1>2, <1>3, <2>2, <2>3, <2>6 DEF Ready
  <2> QED BY <1>1, <2>5, <2>7 DEF Sane
<1>4. CASE scan.failed
  <2>1. /\ UNCHANGED <<ws, indeterminate, range>>
        /\ \/ scan.why = "start" /\ pc' = pc
           \/ scan.why = "reload" /\ Goto("idle")
    BY <1>4 DEF ScanEnds
  <2>2. /\ IsControl(pc')
        /\ \/ scan.why = "start" /\ pc' = pc
           \/ scan.why = "reload" /\ pc'.at = "idle"
    <3>1. CASE pc' = pc /\ scan.why = "start"
      BY <1>t, <3>1
    <3>2. CASE scan.why = "reload" /\ Goto("idle")
      <4>1. IsControl(pc') /\ pc'.at = "idle"
        BY <1>t, <3>2, GotoIs DEF PcIs
      <4> QED BY <3>2, <4>1
    <3> QED BY <2>1, <3>1, <3>2
  <2>3. Steady
    BY <1>u, <2>1 DEF Steady, WsSame, WsIs, Books
  <2>4. FileTypes'
    BY <1>t, <1>u, <1>1, <1>2, <2>1, <2>2 DEF FileTypes
  <2>5. Again
    BY <1>u, <1>1, <1>2, <1>4, <2>2, <2>3 DEF Again
  <2> QED BY <1>1, <2>4, <2>5 DEF Sane
<1> QED BY <1>3, <1>4

\* Reload begins a scan.
LEMMA ReloadEffect ==
    ASSUME FileSetInv, Reload
    PROVE  Sane /\ Reloads
<1>t. FileTypes /\ Owned /\ IsBudget(budget) /\ IsControl(pc) /\ pc.at = "idle"
  BY DEF FileSetInv, FileTypes, Reload, At
<1>u. UNCHANGED <<final, folder, disk, made, ws, indeterminate, rec, committed, range>>
  BY DEF Reload, disks
<1>1. Store /\ Owned' /\ Steady /\ IsBudget(budget') /\ Spends
  BY <1>t, <1>u, StoreUnchanged, Spent DEF Reload, Steady, WsSame, WsIs, Books
<1>2. IsScan(scan') /\ ScanIs("reload", {}, FALSE)
  BY DEF Reload, IsScan, ScanIs
<1>3. IsControl(pc') /\ pc'.at = "boot"
  BY <1>t, GotoIs DEF Reload, PcIs
<1>4. FileTypes'
  BY <1>t, <1>u, <1>1, <1>2, <1>3 DEF FileTypes
<1>5. Reloads
  BY <1>t, <1>u, <1>1, <1>2, <1>3 DEF Reloads
<1> QED BY <1>1, <1>4, <1>5 DEF Sane

\* Crash leaves only the disk.
LEMMA CrashEffect ==
    ASSUME FileSetInv, Crash
    PROVE  Sane /\ Dies
<1>t. FileTypes /\ Owned /\ IsBudget(budget) /\ IsControl(pc)
  BY DEF FileSetInv, FileTypes
<1>u. UNCHANGED <<final, folder, disk, made, committed, range>>
  BY DEF Crash, disks
<1>1. Store /\ Owned' /\ IsBudget(budget') /\ Spends /\ Books
  BY <1>t, <1>u, StoreUnchanged, Spent DEF Crash, Books
<1>2. IsScan(scan') /\ ScanIs("start", {}, FALSE)
  BY DEF Crash, IsScan, ScanIs
<1>3. IsControl(pc') /\ pc'.at = "boot"
  BY <1>t, GotoIs DEF Crash, PcIs
<1>4. IsWorkspace(ws') /\ WsCleared /\ ~indeterminate' /\ IsRecovery(rec') /\ Released
  BY WsFresh, RecReleased DEF Crash
<1>5. FileTypes'
  BY <1>t, <1>u, <1>1, <1>2, <1>3, <1>4 DEF FileTypes
<1>6. Dies
  BY <1>t, <1>u, <1>1, <1>2, <1>3, <1>4 DEF Dies
<1> QED BY <1>1, <1>5, <1>6 DEF Sane

\* ForeignFile touches nothing of ours.
LEMMA ForeignFileEffect ==
    ASSUME FileSetInv, NEW g \in Groups, NEW i \in Entries, ForeignFile(g, i)
    PROVE  Sane /\ Unseen
<1>t. FileTypes /\ Owned /\ IsBudget(budget) /\ IsFinal(final) /\ DOMAIN folder = Groups
  BY DEF FileSetInv, FileTypes
<1>u. UNCHANGED <<disk, made, ws, indeterminate, scan, committed, range, pc, rec>>
  BY DEF ForeignFile, session
<1>1. /\ IsFinal(final') /\ final[g][i] = Absent /\ final'[g][i] = Foreign
      /\ \A h \in Groups, j \in Entries : h # g \/ j # i => final'[h][j] = final[h][j]
  BY <1>t DEF ForeignFile, IsFinal, Owners
<1>2. \A u \in Transactions : disk[u].group \in Groups
  BY <1>t DEF FileTypes, IsStore, IsDisk
<1>3. \A u \in Transactions : Visible(u)' = Visible(u)
  BY <1>u, <1>1, <1>2, Bounds DEF Visible
<1>4. \A u \in Transactions, j \in Entries : FinalKnown(u, j)' <=> FinalKnown(u, j)
  BY <1>u DEF FinalKnown
<1>5. Store
  BY <1>u, <1>3, <1>4 DEF Store, SameTx
<1>6. Owned'
  BY <1>t, <1>u, <1>1, Bounds DEF Owned
<1>7. IsBudget(budget') /\ Spends
  BY <1>t, Spent DEF ForeignFile
<1>8. FileTypes'
  BY <1>t, <1>u, <1>1, <1>7 DEF FileTypes, ForeignFile
<1>9. Unseen
  BY <1>u, <1>5, <1>7 DEF Unseen, Steady, WsSame, WsIs, Books, Apart
<1> QED BY <1>6, <1>8, <1>9 DEF Sane

\* What somebody does to a folder itself is not seen.
LEMMA FolderEffect ==
    ASSUME FileSetInv, NEW g \in Groups, ShareFolder(g) \/ ReplaceFolder(g)
    PROVE  Sane /\ Unseen
<1>t. FileTypes /\ Owned /\ IsBudget(budget) /\ DOMAIN folder = Groups
  BY DEF FileSetInv, FileTypes
<1>u. UNCHANGED <<final, disk, made, ws, indeterminate, scan, committed, range, pc, rec>>
  BY DEF ShareFolder, ReplaceFolder, session
<1>1. Store /\ Owned'
  BY <1>t, <1>u, StoreUnchanged
<1>2. IsBudget(budget') /\ Spends
  BY <1>t, Spent, Unspent DEF ShareFolder, ReplaceFolder
<1>3. DOMAIN folder' = Groups
  BY <1>t DEF ShareFolder, ReplaceFolder
<1>4. FileTypes'
  BY <1>t, <1>u, <1>2, <1>3 DEF FileTypes
<1>5. Unseen
  BY <1>u, <1>1, <1>2 DEF Unseen, Steady, WsSame, WsIs, Books, Apart
<1> QED BY <1>1, <1>4, <1>5 DEF Sane

\* UserTakes hides a file.
LEMMA UserTakesEffect ==
    ASSUME FileSetInv, NEW g \in Groups, NEW i \in Entries, UserTakes(g, i)
    PROVE  Sane /\ Takes
<1>t. FileTypes /\ Owned /\ IsBudget(budget) /\ IsFinal(final)
  BY DEF FileSetInv, FileTypes
<1>u. UNCHANGED <<folder, disk, made, ws, indeterminate, scan, committed, range, pc, rec>>
  BY DEF UserTakes, session
<1>1. PICK t \in Transactions : t = final[g][i]
  BY DEF UserTakes
<1>2. disk[t].group = g
  BY <1>t, <1>1 DEF Owned
<1>3. IsFinal(final') /\ Owned' /\ Loses(t, i)
  BY <1>t, <1>u, <1>1, <1>2, NameLost DEF UserTakes
<1>4. IsBudget(budget') /\ ~Untaken' /\ (Unfailed' => Unfailed)
  BY <1>t, SpentTaken DEF UserTakes
<1>5. FileTypes'
  BY <1>t, <1>u, <1>3, <1>4 DEF FileTypes
<1>6. Takes
  BY <1>u, <1>3, <1>4 DEF Takes, Steady, WsSame, WsIs, Books, Apart
<1> QED BY <1>3, <1>5, <1>6 DEF Sane

-----------------------------------------------------------------------------
(* Every step has one of these outcomes.                                   *)

Prepares == Strolls \/ Recalls \/ Clears \/ Abandons \/ Planned \/ LeavesBehind \/ GivesUp \/ Drops
Publishes == Begins \/ Renames \/ Temps \/ Swaps \/ Unlinks \/ Proceeds \/ Commits \/ HandsOff
Recovers ==
    \/ Reads \/ Rechecks \/ Tidies \/ Unmarks
    \/ TakesBack \/ SkipsPartial \/ SkipsStaged \/ Settles \/ Ending \/ Breaks
Returned == Finishes \/ Reprepares \/ StaysOpen \/ Scans \/ Scanned \/ Ready \/ Again
Surroundings == Reloads \/ Dies \/ Unseen \/ Takes
Outcome == Prepares \/ Publishes \/ Recovers \/ Returned \/ Surroundings

\* Every step keeps the types and the owners, and has one of the outcomes.
LEMMA StepEffect ==
    ASSUME FileSetInv, [Next]_vars
    PROVE  Sane /\ Outcome
<1>1. CASE StartPersist \/ Resolve \/ Prepare \/ Plan \/ Stream \/ DropTransaction
  BY <1>1, StartPersistEffect, ResolveEffect, PrepareEffect, PlanEffect, StreamEffect, DropEffect
     DEF Outcome, Prepares
<1>2. CASE Preflight \/ WriteTemp \/ WriteSwap \/ WriteUnlink \/ WriteSync \/ MakeFolder
  BY <1>2, PreflightEffect, WriteTempEffect, WriteSwapEffect, WriteUnlinkEffect, WriteSyncEffect,
     MakeFolderEffect DEF Outcome, Prepares, Publishes
<1>3. CASE BeginEntry \/ CopyPartial \/ RenameFinal \/ SyncFinals \/ Verify \/ Deliver
  BY <1>3, BeginEntryEffect, CopyPartialEffect, RenameFinalEffect, SyncFinalsEffect, VerifyEffect,
     DeliverEffect DEF Outcome, Prepares, Publishes
<1>4. CASE ResolveArtifact
  BY <1>4, ArtifactStagesEffect, HandoffEffect DEF ResolveArtifact, Outcome, Prepares, Publishes
<1>5. CASE Recover
  BY <1>5, ReadManifestEffect, RecoverSyncEffect, TidyEffect, RollBackFinalEffect,
     RollBackPartialEffect, RollBackStagedEffect, SettleEffect, RemoveManifestEffect,
     RemoveStagingEffect, RecoveryFailsEffect DEF Recover, Outcome, Recovers
<1>6. CASE Return
  BY <1>6, FinishReturnsEffect, RetryReturnsEffect, ScanNextEffect, ScanReturnsEffect, ScanEndsEffect
     DEF Return, Outcome, Publishes, Returned
<1>7. CASE Environment
  <2>1. CASE Reload \/ Crash
    BY <2>1, ReloadEffect, CrashEffect DEF Outcome, Surroundings
  <2>2. ASSUME NEW g \in Groups, NEW i \in Entries, ForeignFile(g, i) \/ UserTakes(g, i)
        PROVE  Sane /\ Outcome
    BY <2>2, ForeignFileEffect, UserTakesEffect DEF Outcome, Surroundings
  <2>3. ASSUME NEW g \in Groups, ShareFolder(g) \/ ReplaceFolder(g)
        PROVE  Sane /\ Outcome
    BY <2>3, FolderEffect DEF Outcome, Surroundings
  <2> QED BY <1>7, <2>1, <2>2, <2>3 DEF Environment
<1>8. CASE UNCHANGED vars
  <2>1. FileTypes /\ Owned /\ IsBudget(budget)
    BY DEF FileSetInv, FileTypes
  <2>2. FileTypes' /\ Unseen
    BY <1>8, <2>1, StoreUnchanged, Unspent
       DEF vars, FileTypes, Unseen, Steady, WsSame, WsIs, Books, Apart
  <2>3. Owned'
    BY <1>8, <2>1, StoreUnchanged DEF vars
  <2> QED BY <2>2, <2>3 DEF Sane, Outcome, Surroundings
<1> QED BY <1>1, <1>2, <1>3, <1>4, <1>5, <1>6, <1>7, <1>8 DEF Next, Work, Publish

-----------------------------------------------------------------------------
(* Init.                                                                   *)

\* The invariant holds of an empty disk and a daemon that starts.
LEMMA InitInv ==
    ASSUME Init
    PROVE  FileSetInv
<1>1. FileTypes
  <2>1. IsFinal(final) /\ DOMAIN folder = Groups
    BY Bounds DEF Init, IsFinal, Owners
  <2>2. IsStore(disk)
    BY Bounds, NoManifestIs DEF Init, IsStore, IsDisk
  <2>3. IsWorkspace(ws)
    BY Bounds, NoManifestIs DEF Init, IsWorkspace, FreshWorkspace, NoArtifact
  <2>4. IsControl(pc) /\ IsRecovery(rec) /\ IsScan(scan)
    BY Bounds DEF Init, IsControl, Whats, IsRecovery, NoRecovery, IsScan
  <2>5. IsBudget(budget)
    BY Bounds DEF Init, IsBudget
  <2> QED BY <2>1, <2>2, <2>3, <2>4, <2>5, Bounds DEF Init, FileTypes
<1>2. \A t \in Transactions : Visible(t) = {}
  BY Bounds DEF Init, Visible
<1>3. \A t \in Transactions : ~disk[t].manifest.some /\ ~disk[t].dir /\ disk[t].range = 0
  BY NoManifestIs DEF Init
<1>4. pc.at = "boot" /\ rec.step = "none" /\ rec.tx = 0 /\ scan.why = "start" /\ ~scan.failed
  BY DEF Init, NoRecovery
<1>5. ws.tx = 0 /\ ~ws.completed /\ ws.leftover = "none" /\ ~indeterminate
  BY DEF Init, FreshWorkspace
<1>6. made = 0 /\ committed = {} /\ range = 1
  BY DEF Init
<1>7. Owned
  BY Bounds DEF Init, Owned
<1>8. ManifestValid /\ Progress /\ OnDisk /\ Placed
  BY <1>3, <1>4 DEF ManifestValid, Progress, OnDisk, Placed, Publishing, Working, At
<1>9. Sessions
  BY <1>3, <1>4, <1>5, <1>6
     DEF Sessions, Workspace, Unpublished, Callers, Publishing, Working, Returns, At
<1>10. Traces
  BY <1>3 DEF Traces
<1>11. Recovering
  BY <1>4, <1>5 DEF Recovering, TakenBack, LeftComplete, LastToGo, MarksKept, OpenMarked, MarkedSteps, At
<1>12. Committed /\ Whole
  BY <1>2, <1>6 DEF Committed, Whole, Torn
<1>13. Audio
  BY <1>2, <1>3, <1>4, <1>6 DEF Audio, SameAudioOnce, Working, Publishing, Bounds
<1> QED BY <1>1, <1>7, <1>8, <1>9, <1>10, <1>11, <1>12, <1>13 DEF FileSetInv

-----------------------------------------------------------------------------
(* The publication under way.                                              *)

\* A recovery is run by somebody who publishes nothing meanwhile.
LEMMA RecoversWithin ==
    ASSUME FileSetInv, Recovers
    PROVE  /\ Within /\ rec.step # "none" /\ rec'.step # "none" /\ rec'.tx = rec.tx
           /\ pc'.at \in Returns \cup {"boot"} /\ pc'.at \notin Working
<1>1. Within /\ rec.step # "none" /\ rec'.step # "none" /\ rec'.tx = rec.tx
  BY DEF Recovers, Reads, Rechecks, Tidies, Unmarks, TakesBack, SkipsPartial, SkipsStaged, Settles,
         Ending, Breaks, Steps, Closes, Rolls, RecIs
<1>2. pc'.at \in Returns \cup {"boot"}
  BY <1>1 DEF Within, FileSetInv, Sessions, Callers
<1> QED BY <1>1, <1>2 DEF Returns, Working, Publishing

\* The steps after which a publication is under way.
Underway ==
    \/ Strolls \/ Clears \/ Planned \/ Drops \/ Begins \/ Renames \/ Temps \/ Swaps \/ Unlinks \/ Proceeds
    \/ Unseen \/ Takes
\* No other step leads into a publication.
LEMMA UnderwayOrNot ==
    ASSUME FileSetInv, Outcome
    PROVE  pc'.at \notin Working \cup {"plan"} \/ Underway
<1>1. CASE Prepares
  BY <1>1 DEF Prepares, Underway, Recalls, Turns, Abandons, LeavesBehind, GivesUp,
              Working, Publishing
<1>2. CASE Publishes
  BY <1>2 DEF Publishes, Underway, Commits, HandsOff, Working, Publishing
<1>3. CASE Recovers
  BY <1>3, RecoversWithin DEF Returns
<1>4. CASE Returned
  BY <1>4 DEF Returned, Finishes, Reprepares, StaysOpen, Scans, Scanned, Ready, Again, Working, Publishing
<1>5. CASE Surroundings
  BY <1>5 DEF Surroundings, Underway, Reloads, Dies, Working, Publishing
<1> QED BY <1>1, <1>2, <1>3, <1>4, <1>5 DEF Outcome

\* The manifest in memory says how far the publication is.
LEMMA ProgressKept ==
    ASSUME FileSetInv, Sane, Outcome
    PROVE  Progress'
<1>t. Progress /\ IsControl(pc) /\ IsControl(pc')
  BY DEF FileSetInv, FileTypes, Sane
<1>1. CASE pc'.at \notin Publishing
  BY <1>1 DEF Progress, Publishing, At
<1>2. CASE Unseen \/ Takes
  BY <1>t, <1>2 DEF Unseen, Takes, Steady, WsSame, WsIs, Progress, At
<1>3. CASE Begins
  BY <1>t, <1>3, Bounds
     DEF Begins, WritesNext, SameBut, PcIs, Progress, Written, Upto, Begun, At, Complete, Prepared
<1>4. CASE Renames
  <2>1. Begun(ws.manifest, pc.entry) /\ pc'.at = "write" /\ pc'.what = "final" /\ pc'.entry = pc.entry
    BY <1>t, <1>4 DEF Renames, WritesNext, PcIs, Progress, At
  <2>2. Upto(ws'.manifest, pc.entry + 1, pc.entry)
    <3>1. pc.entry \in Entries /\ pc.entry \in Nat
      BY <1>t, Bounds DEF IsControl
    <3>2. ws'.manifest.partials = {}
      BY <1>4, <2>1, <3>1 DEF Renames, SameBut, Begun, FileSetInv, FileTypes, IsWorkspace, IsManifest
    <3>3. \A j \in Entries : j \in ws'.manifest.finals <=> j < pc.entry + 1
      BY <1>4, <2>1, <3>1, Bounds DEF Renames, SameBut, Begun
    <3> QED BY <1>4, <2>1, <3>2, <3>3 DEF Renames, SameBut, Begun, Upto
  <2> QED BY <2>1, <2>2 DEF Progress, At, Written
<1>5. CASE Temps \/ Swaps \/ Unlinks
  BY <1>t, <1>5 DEF Temps, Swaps, Unlinks, Steady, WsSame, WsIs, PcIs, Progress, At
<1>6. CASE Proceeds
  <2>1. ws'.manifest = ws.manifest
    BY <1>6 DEF Proceeds, Steady, WsSame, WsIs
  <2>2. CASE pc.at = "write"
    <3>1. Written(ws.manifest, pc.what, pc.entry)
      BY <1>t, <2>2 DEF Progress, At
    <3>2. pc.entry \in Nat
      BY <1>t, Bounds DEF IsControl
    <3>3. CASE pc.what = "prepared" \/ pc.what = "owned"
      <4>1. Upto(ws.manifest, 1, Prepared)
        BY <3>1, <3>3 DEF Written
      <4>2. pc'.at = "mkdir" \/ (pc'.at = "entry" /\ pc'.entry = 1)
        BY <1>6, <2>2, <3>3 DEF Proceeds
      <4> QED BY <2>1, <4>1, <4>2 DEF Progress, At, Prepared
    <3>4. CASE pc.what = "publishing" \/ pc.what = "partial"
      BY <1>6, <2>1, <2>2, <3>1, <3>4 DEF Proceeds, Progress, At, Written
    <3>5. CASE pc.what = "final" /\ pc.entry < FileCount
      <4>1. Upto(ws.manifest, pc.entry + 1, pc.entry) /\ pc'.at = "entry" /\ pc'.entry = pc.entry + 1
        BY <1>6, <2>2, <3>1, <3>2, <3>5, Bounds DEF Proceeds, Written
      <4>2. pc'.entry - 1 = pc.entry
        BY <3>2, <4>1
      <4> QED BY <2>1, <4>1, <4>2 DEF Progress, At
    <3>6. CASE pc.what = "final" /\ pc.entry = FileCount
      <4>1. Upto(ws.manifest, Complete, FileCount) /\ pc'.at = "sync"
        BY <1>6, <2>2, <3>1, <3>2, <3>6, Bounds DEF Proceeds, Written, Complete
      <4> QED BY <2>1, <4>1 DEF Progress, At
    <3>7. CASE pc.what = "complete"
      BY <1>6, <2>1, <2>2, <3>1, <3>7 DEF Proceeds, Progress, At, Written
    <3> QED BY <1>6, <2>2, <3>3, <3>4, <3>5, <3>6, <3>7 DEF Proceeds
  <2>3. CASE pc.at = "mkdir"
    BY <1>t, <1>6, <2>1, <2>3, Bounds DEF Proceeds, Progress, At, Upto, Prepared
  <2> QED BY <1>6, <2>2, <2>3 DEF Proceeds
<1>7. CASE Strolls \/ Clears \/ Planned \/ Drops
  BY <1>1, <1>7 DEF Strolls, Moves, Clears, Forgets, Planned, Drops, Publishing
<1> QED BY <1>1, <1>2, <1>3, <1>4, <1>5, <1>6, <1>7, UnderwayOrNot DEF Underway, Working

\* What publish_recall_inner writes is what validate_phase_state accepts.
LEMMA WrittenValid ==
    ASSUME NEW m, IsManifest(m), NEW what \in Whats, NEW i \in Entries, Written(m, what, i)
    PROVE  m.some /\ ValidPhaseState(m)
<1>1. i \in Nat /\ i >= 1 /\ i <= FileCount /\ Complete = FileCount + 1 /\ Prepared = 0
  BY Bounds DEF Complete, Prepared
<1>2. CASE what \in {"prepared", "owned"}
  <2>1. Upto(m, 1, Prepared)
    BY <1>2 DEF Written
  <2>2. m.some /\ m.phase = Prepared /\ m.partials = {} /\ m.finals \subseteq Entries
    BY <2>1 DEF Upto, IsManifest
  <2>3. \A j \in Entries : ~(j < 1)
    BY Bounds
  <2>4. m.finals = {}
    BY <2>1, <2>2, <2>3 DEF Upto
  <2> QED BY <1>1, <2>2, <2>4, Bounds DEF ValidPhaseState
<1>3. CASE what = "publishing"
  BY <1>1, <1>3, Bounds DEF Written, Upto, ValidPhaseState
<1>4. CASE what = "partial"
  BY <1>1, <1>4, Bounds DEF Written, Begun, ValidPhaseState
<1>5. CASE what = "final"
  BY <1>1, <1>5, Bounds DEF Written, Upto, ValidPhaseState
<1>6. CASE what = "complete"
  BY <1>1, <1>6, Bounds DEF Written, Upto, ValidPhaseState, IsManifest
<1> QED BY <1>2, <1>3, <1>4, <1>5, <1>6 DEF Whats

\* Where the store is as it was, but for one transaction.
LEMMA StoreOrOne ==
    ASSUME FileSetInv, Outcome
    PROVE  \/ Store
           \/ Planned \/ Renames \/ Swaps \/ Unmarks
           \/ \E t \in Transactions, i \in Entries : Loses(t, i)
<1>t. /\ pc.at = "artifact" => ws.tx \in Transactions
      /\ rec.step # "none" => rec.tx \in Transactions
      /\ rec.entry \in Entries
  BY DEF FileSetInv, FileTypes, IsWorkspace, IsRecovery, Sessions, Workspace, Callers
<1>1. CASE Prepares
  BY <1>1 DEF Prepares, Strolls, Moves, Recalls, Turns, Clears, Forgets, Abandons, LeavesBehind, GivesUp, Drops
<1>2. CASE Publishes
  BY <1>t, <1>2 DEF Publishes, Begins, Temps, Unlinks, Proceeds, Commits, HandsOff
<1>3. CASE Recovers
  BY <1>t, <1>3, RecoversWithin
     DEF Recovers, Reads, Rechecks, Tidies, TakesBack, SkipsPartial, SkipsStaged, Settles, Ending, Breaks
<1>4. CASE Returned
  BY <1>4 DEF Returned, Finishes, Reprepares, StaysOpen, Scans, Scanned, Ready, Again
<1>5. CASE Surroundings
  BY <1>5 DEF Surroundings, Reloads, Dies, Unseen, Takes
<1> QED BY <1>1, <1>2, <1>3, <1>4, <1>5 DEF Outcome

\* A manifest that gets to the disk is one validate_phase_state accepts.
LEMMA ManifestValidKept ==
    ASSUME FileSetInv, Sane, Outcome
    PROVE  ManifestValid'
<1>t. /\ ManifestValid /\ Progress /\ IsManifest(ws.manifest) /\ pc.entry \in Entries /\ pc.what \in Whats
  BY DEF FileSetInv, FileTypes, IsWorkspace, IsControl
<1>1. CASE Store
  BY <1>t, <1>1 DEF Store, SameTx, ManifestValid
<1>2. ASSUME NEW t, Others(t), ~disk'[t].manifest.some \/ disk'[t].manifest = disk[t].manifest
      PROVE  ManifestValid'
  BY <1>t, <1>2 DEF Others, SameTx, ManifestValid
<1>3. CASE Swaps
  <2>1. ValidPhaseState(ws.manifest)
    BY <1>t, <1>3, WrittenValid DEF Swaps, Progress, At
  <2> QED BY <1>t, <1>3, <2>1 DEF Swaps, Others, SameTx, ManifestValid
<1>4. CASE Planned
  BY <1>2, <1>4 DEF Planned
<1>5. CASE Renames
  BY <1>2, <1>5 DEF Renames
<1>6. CASE Unmarks
  BY <1>2, <1>6 DEF Unmarks
<1>7. ASSUME NEW t \in Transactions, NEW i \in Entries, Loses(t, i)
      PROVE  ManifestValid'
  BY <1>2, <1>7 DEF Loses
<1> QED BY <1>1, <1>3, <1>4, <1>5, <1>6, <1>7, StoreOrOne

-----------------------------------------------------------------------------
(* The session.                                                            *)

\* The workspace has the transaction that the worker's place asks for.
LEMMA WorkspaceKept ==
    ASSUME FileSetInv, Sane, Outcome
    PROVE  Workspace'
<1>t. /\ Workspace /\ Callers /\ ws.tx \in Transactions \cup {0} /\ made \in Nat
      /\ committed \subseteq Transactions
  BY DEF FileSetInv, FileTypes, IsWorkspace, Sessions
<1> USE DEF Workspace, Working, Publishing, Returns, WsSame, WsCleared, WsIs, Steady, Books
<1>1. CASE Strolls
  BY <1>t, <1>1 DEF Strolls, Moves
<1>2. CASE Recalls
  BY <1>t, <1>2 DEF Recalls, Turns
<1>3. CASE Clears
  <2>1. CASE Forgets("prepare", "plan")
    BY <1>t, <2>1 DEF Forgets
  <2>2. CASE Forgets("drop", "idle")
    BY <1>t, <2>2 DEF Forgets
  <2> QED BY <1>3, <2>1, <2>2 DEF Clears
<1>4. CASE Abandons
  BY <1>t, <1>4 DEF Abandons
<1>5. CASE Planned \/ LeavesBehind
  <2>1. /\ pc.at = "plan" /\ ws'.tx = made + 1 /\ made' = made + 1 /\ committed' = committed
        /\ pc'.at \in {"stream", "idle"} /\ (indeterminate' <=> indeterminate)
        /\ (ws'.completed <=> ws.completed) /\ (pc'.at = "stream" => ws'.leftover = ws.leftover)
    BY <1>5 DEF Planned, LeavesBehind, Advances
  <2>2. ws'.tx # 0 /\ ws'.tx <= made' /\ ws'.tx \notin committed' /\ committed' \subseteq 1 .. made'
    BY <1>t, <2>1
  <2>3. ~ws.completed /\ ~indeterminate /\ ws.leftover = "none"
    BY <1>t, <2>1
  <2> QED BY <2>1, <2>2, <2>3
<1>6. CASE GivesUp \/ Drops
  BY <1>t, <1>6 DEF GivesUp, Drops
<1>7. CASE Begins \/ Renames \/ Temps \/ Swaps \/ Unlinks
  BY <1>t, <1>7 DEF Begins, Renames, Temps, Swaps, Unlinks, WritesNext, PcIs
<1>8. CASE Proceeds \/ HandsOff
  BY <1>t, <1>8 DEF Proceeds, HandsOff
<1>9. CASE Commits
  <2>1. /\ pc'.at = "deliver" /\ pc.at \in {"verify", "retry"} /\ ~indeterminate'
        /\ ws'.tx = ws.tx /\ ws'.completed /\ ws'.leftover = ws.leftover
        /\ made' = made /\ committed' = committed \cup {ws.tx}
    BY <1>t, <1>9 DEF Commits
  <2>2. ws.tx # 0 /\ ws.leftover = "none" /\ ws.tx <= made
    BY <1>t, <2>1
  <2>3. committed' \subseteq 1 .. made'
    <3>0. ws.tx \in Transactions /\ ws.tx \in Nat /\ ws.tx >= 1
      BY <1>t, <2>2, Bounds
    <3>1. ws.tx \in 1 .. made
      BY <1>t, <2>2, <3>0
    <3>2. committed \subseteq 1 .. made
      BY <1>t
    <3> QED BY <2>1, <3>1, <3>2
  <2> QED BY <2>1, <2>2, <2>3
<1>10. CASE Recovers
  BY <1>t, <1>10, RecoversWithin DEF Within
<1>11. CASE Finishes
  BY <1>t, <1>11 DEF Finishes
<1>12. CASE Reprepares \/ StaysOpen
  <2>1. CASE Reprepares
    BY <1>t, <2>1 DEF Reprepares
  <2>2. CASE StaysOpen
    BY <1>t, <2>2 DEF StaysOpen
  <2> QED BY <1>12, <2>1, <2>2
<1>13. CASE Scans \/ Scanned \/ Again
  BY <1>t, <1>13 DEF Scans, Scanned, Again
<1>14. CASE Ready \/ Dies
  <2>1. /\ ws'.tx = 0 /\ ~ws'.completed /\ ws'.leftover = "none" /\ ~indeterminate' /\ made' = made
        /\ committed' = committed /\ pc'.at \in {"idle", "boot"}
    BY <1>14 DEF Ready, Dies
  <2> QED BY <1>t, <2>1
<1>15. CASE Reloads \/ Unseen \/ Takes
  BY <1>t, <1>15 DEF Reloads, Unseen, Takes
<1> QED BY <1>1, <1>2, <1>3, <1>4, <1>5, <1>6, <1>7, <1>8, <1>9, <1>10, <1>11, <1>12, <1>13, <1>14, <1>15
         DEF Outcome, Prepares, Publishes, Returned, Surroundings

\* A recovery has its caller and its transaction.
LEMMA CallersKept ==
    ASSUME FileSetInv, Sane, Outcome
    PROVE  Callers'
<1>t. /\ Workspace /\ Callers /\ Traces /\ ws.tx \in Transactions \cup {0} /\ made \in Nat
      /\ rec.tx \in Transactions \cup {0}
  BY DEF FileSetInv, FileTypes, IsWorkspace, IsRecovery, Sessions
<1> USE DEF Callers, Workspace, Working, Publishing, Returns, At, WsSame, WsCleared, WsIs, Steady, Books,
            RecIs, Released, Looking, Apart, ScanIs
<1>1. CASE Strolls \/ Clears \/ Abandons
  BY <1>t, <1>1 DEF Strolls, Moves, Clears, Forgets, Abandons
<1>2. CASE Recalls
  BY <1>t, <1>2 DEF Recalls, Turns
<1>3. CASE Planned \/ LeavesBehind
  BY <1>t, <1>3 DEF Planned, LeavesBehind, Advances
<1>4. CASE GivesUp \/ Drops \/ Begins \/ Renames
  BY <1>t, <1>4 DEF GivesUp, Drops, Begins, Renames, WritesNext, PcIs
<1>5. CASE Temps \/ Swaps \/ Unlinks \/ Proceeds \/ HandsOff
  BY <1>t, <1>5 DEF Temps, Swaps, Unlinks, Proceeds, HandsOff, PcIs
<1>6. CASE Commits
  BY <1>t, <1>6 DEF Commits
<1>7. CASE Recovers
  <2>1. rec'.step # "read"
    BY <1>7 DEF Recovers, Reads, Rechecks, Tidies, Unmarks, TakesBack, SkipsPartial, SkipsStaged, Settles,
                Ending, Breaks, Steps, Closes, Rolls
  <2> QED BY <1>t, <1>7, <2>1, RecoversWithin DEF Within
<1>8. CASE Finishes \/ Reprepares \/ StaysOpen \/ Scanned
  BY <1>t, <1>8 DEF Finishes, Reprepares, StaysOpen, Scanned
<1>9. CASE Scans
  BY <1>t, <1>9, Bounds DEF Scans, Traces
<1>10. CASE Ready \/ Again \/ Reloads \/ Dies
  BY <1>t, <1>10 DEF Ready, Again, Reloads, Dies
<1>11. CASE Unseen \/ Takes
  BY <1>t, <1>11 DEF Unseen, Takes
<1> QED BY <1>1, <1>2, <1>3, <1>4, <1>5, <1>6, <1>7, <1>8, <1>9, <1>10, <1>11
         DEF Outcome, Prepares, Publishes, Returned, Surroundings

-----------------------------------------------------------------------------
(* The manifest and the final names of the publication under way.          *)

\* The manifest on disk follows the one in memory by one exchange.
LEMMA OnDiskKept ==
    ASSUME FileSetInv, Sane, Outcome, Progress', Workspace'
    PROVE  OnDisk'
<1>t. /\ OnDisk /\ Progress /\ Workspace /\ IsControl(pc) /\ IsControl(pc')
      /\ pc.entry \in Entries /\ pc.what \in Whats /\ pc.entry \in Nat
  BY Bounds DEF FileSetInv, FileTypes, Sane, Sessions, IsControl
<1>w. pc.at \in Working => ws.tx \in Transactions
  BY DEF FileSetInv, FileTypes, IsWorkspace, Sessions, Workspace
<1> USE DEF Working, Publishing, At
<1>1. CASE pc'.at \notin Working \cup {"plan"}
  BY <1>1 DEF OnDisk
<1>2. ASSUME pc.at \in Working, pc'.at \in Working, ws'.tx = ws.tx, SameTx(ws.tx)
      PROVE  /\ disk'[ws.tx].dir
             /\ disk'[ws.tx].manifest.some <=> disk[ws.tx].manifest.some
             /\ disk[ws.tx].manifest.some => disk'[ws.tx].manifest = disk[ws.tx].manifest
  BY <1>t, <1>w, <1>2 DEF OnDisk, SameTx
<1>3. CASE Unseen \/ Takes
  <2>1. /\ pc' = pc /\ ws'.tx = ws.tx /\ ws'.manifest = ws.manifest /\ (ws'.durable <=> ws.durable)
    BY <1>3 DEF Unseen, Takes, Steady, WsSame, WsIs
  <2>2. CASE pc.at \in Working
    <3>1. /\ disk'[ws.tx].dir <=> disk[ws.tx].dir
          /\ disk'[ws.tx].manifest.some <=> disk[ws.tx].manifest.some
          /\ disk[ws.tx].manifest.some => disk'[ws.tx].manifest = disk[ws.tx].manifest
      BY <1>t, <1>w, <1>3, <2>1, <2>2 DEF Unseen, Takes, Store, Loses, Others, SameTx, OnDisk
    <3>2. pc.at \in Publishing => (pc.io \in {"temp", "swap"} /\ pc.at = "write") \/ disk[ws.tx].manifest.some
      BY <1>t DEF OnDisk, Progress, Written, Upto, Begun, Whats
    <3>3. pc.what \in Whats /\ Before(disk[ws.tx].manifest, pc.what, pc.entry) =>
            Before(disk'[ws.tx].manifest, pc.what, pc.entry)
      BY <3>1 DEF Before, Whats, Upto, Begun
    <3> QED BY <1>t, <2>1, <2>2, <3>1, <3>2, <3>3 DEF OnDisk
  <2>3. CASE pc.at \notin Working
    BY <1>t, <2>1, <2>3 DEF OnDisk
  <2> QED BY <2>2, <2>3
<1>4. CASE Strolls
  <2>1. CASE pc'.at \in Working
    <3>1. pc.at = "stream" /\ pc'.at \in {"stream", "preflight", "drop"} /\ Store /\ WsSame
      BY <1>4, <2>1 DEF Strolls, Moves, Steady
    <3> QED BY <1>t, <1>w, <1>2, <3>1 DEF OnDisk, Store, WsSame, WsIs
  <2> QED BY <1>1, <1>4, <2>1 DEF Strolls, Moves
<1>5. CASE Clears
  BY <1>5 DEF Clears, Forgets, WsCleared, WsIs, OnDisk
<1>6. CASE Planned
  <2>1. /\ pc.at = "plan" /\ pc'.at = "stream" /\ ws'.tx = made + 1 /\ made + 1 \in Transactions
        /\ disk'[made + 1].dir /\ disk'[made + 1].manifest = disk[made + 1].manifest
        /\ ws'.durable <=> ws.durable
    BY <1>6 DEF Planned, Advances, WsIs
  <2>2. ~disk[made + 1].manifest.some
    BY <2>1 DEF FileSetInv, Traces, FileTypes
  <2> QED BY <1>t, <2>1, <2>2 DEF OnDisk
<1>7. CASE Drops
  <2>1. pc.at \in Publishing \cup {"preflight"} /\ pc'.at = "drop" /\ ~ws.durable /\ Store /\ WsSame
    BY <1>7 DEF Drops, Steady
  <2> QED BY <1>t, <1>w, <1>2, <2>1 DEF OnDisk, Store, WsSame, WsIs
<1>8. CASE Begins
  <2>1. /\ pc'.at = "write" /\ pc'.io = "temp" /\ pc'.entry = pc.entry /\ Store /\ ws'.tx = ws.tx
        /\ ws'.durable <=> ws.durable
        /\ pc.at \in {"preflight", "mkdir", "entry", "partial", "sync"}
    BY <1>8 DEF Begins, WritesNext, PcIs, WsIs
  <2>2. disk'[ws.tx].dir /\ (disk'[ws.tx].manifest.some <=> disk[ws.tx].manifest.some)
    BY <1>w, <1>2, <2>1 DEF Store
  <2>3. CASE pc.at = "preflight"
    <3>1. pc'.what = "prepared"
      BY <1>8, <2>3 DEF Begins, WritesNext, PcIs
    <3> QED BY <1>t, <2>1, <2>2, <2>3, <3>1 DEF OnDisk, Before
  <2>4. CASE pc.at # "preflight"
    <3>1. disk[ws.tx].manifest = ws.manifest /\ ws.manifest.some
      BY <1>t, <2>1, <2>4 DEF OnDisk, Progress, Upto
    <3>2. disk'[ws.tx].manifest = ws.manifest
      BY <1>w, <1>2, <2>1, <3>1 DEF Store
    <3>3. Before(ws.manifest, pc'.what, pc.entry)
      BY <1>t, <1>8, <2>1, <2>4 DEF Begins, WritesNext, PcIs, Before, Progress
    <3> QED BY <1>t, <2>1, <2>2, <3>1, <3>2, <3>3, <2>4 DEF OnDisk
  <2> QED BY <2>3, <2>4
<1>9. CASE Renames
  <2>1. /\ pc.at = "rename" /\ pc'.at = "write" /\ pc'.io = "temp" /\ pc'.entry = pc.entry /\ pc'.what = "final"
        /\ ws'.tx = ws.tx /\ (ws'.durable <=> ws.durable)
        /\ disk'[ws.tx].manifest = disk[ws.tx].manifest /\ (disk'[ws.tx].dir <=> disk[ws.tx].dir)
    BY <1>9 DEF Renames, WritesNext, PcIs, WsIs
  <2>2. Begun(disk[ws.tx].manifest, pc.entry)
    BY <1>t, <2>1 DEF OnDisk, Progress
  <2> QED BY <1>t, <2>1, <2>2 DEF OnDisk, Before
<1>10. CASE Swaps
  <2>1. /\ pc.at = "write" /\ pc'.at = "write" /\ pc'.io \in {"unlink", "sync"}
        /\ disk'[ws.tx].manifest = ws.manifest /\ (disk'[ws.tx].dir <=> disk[ws.tx].dir)
        /\ ws'.tx = ws.tx /\ ws'.manifest = ws.manifest /\ ws'.durable
    BY <1>10 DEF Swaps, PcIs, WsIs
  <2>2. ws.manifest.some
    BY <1>t, <2>1 DEF Progress, Written, Upto, Begun, Whats
  <2> QED BY <1>t, <2>1, <2>2 DEF OnDisk
<1>11. CASE Temps
  <2>1. /\ pc.at = "write" /\ pc.io = "temp" /\ pc'.at = "write" /\ pc'.io = "swap" /\ pc'.entry = pc.entry
        /\ pc'.what = pc.what /\ Store /\ ws'.tx = ws.tx /\ (ws'.durable <=> ws.durable)
    BY <1>11 DEF Temps, PcIs, Steady, WsSame, WsIs
  <2>2. Before(disk[ws.tx].manifest, pc.what, pc.entry)
    BY <1>t, <2>1 DEF OnDisk
  <2>3. Before(disk'[ws.tx].manifest, pc.what, pc.entry)
    BY <1>t, <1>w, <1>2, <2>1, <2>2 DEF Store, Before, Whats, Upto, Begun
  <2> QED BY <1>t, <1>w, <1>2, <2>1, <2>3 DEF OnDisk, Store
<1>12. CASE Unlinks \/ Proceeds
  <2>1. /\ pc.at \in {"write", "mkdir"} /\ (pc.at = "write" => pc.io \in {"unlink", "sync"})
        /\ pc'.at \in Publishing /\ (pc'.at = "write" => pc'.io = "sync") /\ Store
        /\ ws'.tx = ws.tx /\ ws'.manifest = ws.manifest /\ (ws'.durable <=> ws.durable)
    BY <1>12 DEF Unlinks, Proceeds, PcIs, Steady, WsSame, WsIs
  <2>2. disk[ws.tx].manifest = ws.manifest /\ ws.manifest.some
    BY <1>t, <2>1 DEF OnDisk, Progress, Written, Upto, Begun, Whats
  <2>3. disk'[ws.tx].manifest = ws.manifest /\ disk'[ws.tx].dir
    BY <1>t, <1>w, <1>2, <2>1, <2>2 DEF Store
  <2> QED BY <1>t, <2>1, <2>2, <2>3 DEF OnDisk
<1> QED BY <1>1, <1>3, <1>4, <1>5, <1>6, <1>7, <1>8, <1>9, <1>10, <1>11, <1>12, UnderwayOrNot DEF Underway

\* What is visible is in the manifest in memory, and the reverse.
LEMMA PlacedKept ==
    ASSUME FileSetInv, Sane, Outcome
    PROVE  Placed'
<1>t. /\ Placed /\ Progress /\ Workspace /\ Unpublished /\ IsManifest(ws'.manifest)
      /\ ws.tx \in Transactions \cup {0} /\ pc.entry \in Entries
  BY DEF FileSetInv, FileTypes, Sane, Sessions, IsWorkspace, IsControl
<1>1. CASE pc'.at \notin Publishing
  BY <1>1 DEF Placed
<1>2. SUFFICES ASSUME Begins \/ Renames \/ Temps \/ Swaps \/ Unlinks \/ Proceeds \/ Unseen \/ Takes,
                      pc'.at \in Publishing
               PROVE  Placed'
  BY <1>1, UnderwayOrNot DEF Underway, Strolls, Moves, Clears, Forgets, Planned, Drops, Publishing, Working
<1>3. /\ pc.at \in Publishing \cup {"preflight"} /\ ws'.tx = ws.tx
      /\ pc.at = "preflight" => Begins
      /\ Untaken' => Untaken
  BY <1>2 DEF Begins, Renames, Temps, Swaps, Unlinks, Proceeds, Unseen, Takes, WritesNext, Steady, WsSame,
              WsIs, PcIs, Publishing, Spends
<1>4. PICK t \in Transactions : t = ws.tx
  BY <1>t, <1>3 DEF Workspace, Working, Publishing
<1>5. ws'.tx = t
  BY <1>3, <1>4
<1>6. CASE pc.at = "preflight"
  <2>1. Store /\ Upto(ws'.manifest, 1, Prepared)
    BY <1>3, <1>6 DEF Begins, WritesNext
  <2>2. Visible(t)' = {}
    BY <1>t, <1>4, <1>6, <2>1 DEF Unpublished, Store, SameTx
  <2>3. \A i \in ws'.manifest.finals : FALSE
    <3>1. \A j \in Entries : ~(j < 1)
      BY Bounds
    <3> QED BY <1>t, <2>1, <3>1 DEF Upto, IsManifest
  <2> QED BY <1>5, <2>2, <2>3 DEF Placed
<1>7. CASE pc.at \in Publishing /\ Renames
  <2>1. PICK i \in Entries : i = pc.entry
    BY <1>t
  <2>2. Visible(t)' = Visible(t) \cup {i} /\ ws'.manifest.finals = ws.manifest.finals \cup {i}
    BY <1>3, <1>4, <1>5, <1>7, <2>1 DEF Renames, SameBut, WritesNext, PcIs, Visible
  <2>3. /\ \A j \in Entries : j \in Visible(t) => j \in ws.manifest.finals
        /\ Untaken => \A j \in ws.manifest.finals : j \in Visible(t)
    BY <1>t, <1>4, <1>7 DEF Placed
  <2> QED BY <1>3, <1>5, <2>2, <2>3 DEF Placed
<1>8. CASE pc.at \in Publishing /\ ~Renames
  <2>1. ws'.manifest.finals = ws.manifest.finals
    <3>1. CASE Begins
      BY <1>8, <3>1 DEF Begins, WritesNext, SameBut, Publishing
    <3> QED BY <1>2, <1>8, <3>1 DEF Temps, Swaps, Unlinks, Proceeds, Unseen, Takes, Steady, WsSame, WsIs
  <2>2. /\ \A j \in Entries : j \in Visible(t) => j \in ws.manifest.finals
        /\ Untaken => \A j \in ws.manifest.finals : j \in Visible(t)
    BY <1>t, <1>4, <1>8 DEF Placed
  <2>3. CASE Takes
    <3>1. \A j \in Visible(t)' : j \in Visible(t)
      BY <2>3 DEF Takes, Loses, Others, SameTx
    <3> QED BY <1>5, <2>1, <2>2, <2>3, <3>1 DEF Placed, Takes
  <2>4. CASE ~Takes
    <3>1. Visible(t)' = Visible(t)
      <4>1. CASE Swaps
        BY <1>4, <1>5, <4>1 DEF Swaps, Visible
      <4>2. CASE ~Swaps
        BY <1>2, <1>8, <2>4, <4>2 DEF Begins, Temps, Unlinks, Proceeds, Unseen, Store, SameTx
      <4> QED BY <4>1, <4>2
    <3> QED BY <1>3, <1>5, <2>1, <2>2, <3>1 DEF Placed
  <2> QED BY <2>3, <2>4
<1> QED BY <1>3, <1>6, <1>7, <1>8

\* Only a publication makes files visible or writes a manifest.
LEMMA Shrinks ==
    ASSUME FileSetInv, Outcome, ~Planned, ~Renames, ~Swaps
    PROVE  \A t \in Transactions :
             /\ Visible(t)' \subseteq Visible(t)
             /\ disk'[t].manifest.some => disk[t].manifest.some
<1>1. CASE Store
  BY <1>1 DEF Store, SameTx
<1>2. CASE Unmarks
  <2>1. PICK u \in Transactions : u = rec.tx
    BY <1>2 DEF FileSetInv, Sessions, Callers, FileTypes, IsRecovery, Unmarks, Steps
  <2>2. Visible(u)' = Visible(u) /\ ~disk'[u].manifest.some
    BY <1>2, <2>1 DEF Unmarks, Steps, RecIs, Visible
  <2> QED BY <1>2, <2>1, <2>2 DEF Unmarks, Others, SameTx
<1>3. ASSUME NEW u \in Transactions, NEW i \in Entries, Loses(u, i)
      PROVE  \A t \in Transactions :
               Visible(t)' \subseteq Visible(t) /\ (disk'[t].manifest.some => disk[t].manifest.some)
  BY <1>3 DEF Loses, Others, SameTx
<1> QED BY <1>1, <1>2, <1>3, StoreOrOne

\* What becomes of the workspace's transaction.
LEMMA TransactionSteps ==
    ASSUME FileSetInv, Outcome
    PROVE  \/ ws'.tx = ws.tx /\ ws'.leftover = ws.leftover
           \/ WsCleared \/ Abandons \/ Planned \/ LeavesBehind
<1>1. CASE Prepares
  BY <1>1 DEF Prepares, Strolls, Moves, Recalls, Turns, Clears, Forgets, GivesUp, Drops, Steady, WsSame, WsIs
<1>2. CASE Publishes
  BY <1>2 DEF Publishes, Begins, Renames, Temps, Swaps, Unlinks, Proceeds, Commits, HandsOff, WritesNext,
              Steady, WsSame, WsIs
<1>3. CASE Recovers
  BY <1>3, RecoversWithin DEF Within, Steady, WsSame, WsIs
<1>4. CASE Returned
  BY <1>4 DEF Returned, Finishes, Reprepares, StaysOpen, Scans, Scanned, Ready, Again, Steady, WsSame, WsIs
<1>5. CASE Surroundings
  BY <1>5 DEF Surroundings, Reloads, Dies, Unseen, Takes, Steady, WsSame, WsIs
<1> QED BY <1>1, <1>2, <1>3, <1>4, <1>5 DEF Outcome

\* A directory that was just made is nobody's.
LEMMA MadeNext ==
    ASSUME FileSetInv, made + 1 \in Transactions
    PROVE  ~disk[made + 1].manifest.some /\ Visible(made + 1) = {} /\ made + 1 \notin committed
<1>1. made \in Nat /\ disk[made + 1].group \in Groups /\ committed \subseteq 1 .. made
  BY DEF FileSetInv, FileTypes, IsStore, IsDisk, Sessions, Workspace
<1>2. ~disk[made + 1].manifest.some /\ made + 1 \notin committed
  BY <1>1 DEF FileSetInv, Traces
<1>3. Visible(made + 1) = {}
  BY <1>1 DEF FileSetInv, Owned, Visible
<1> QED BY <1>2, <1>3

\* A transaction that is dropped has nothing under a final name.
LEMMA UnpublishedKept ==
    ASSUME FileSetInv, Sane, Outcome, Workspace'
    PROVE  Unpublished'
<1>t. /\ Placed /\ OnDisk /\ Progress /\ Workspace /\ Unpublished /\ pc.what \in Whats
      /\ ws.tx \in Transactions \cup {0} /\ ws'.tx \in Transactions \cup {0} /\ pc.entry \in Entries
  BY DEF FileSetInv, FileTypes, Sane, Sessions, IsWorkspace, IsControl
<1>1. ASSUME ws'.leftover # "none"
      PROVE  /\ ~disk'[ws'.tx].manifest.some
             /\ Visible(ws.tx)' = {}
  <2>1. PICK t \in Transactions : t = ws'.tx
    BY <1>t, <1>1 DEF Workspace
  <2>2. CASE Abandons
    <3>1. ws'.tx = ws.tx /\ pc.at = "drop" /\ Store
      BY <2>2 DEF Abandons, WsIs
    <3>2. ~disk[t].manifest.some /\ Visible(t) = {}
      BY <1>t, <2>1, <3>1 DEF OnDisk, Unpublished
    <3> QED BY <2>1, <3>1, <3>2 DEF Store, SameTx
  <2>3. CASE LeavesBehind
    <3>1. t = made + 1 /\ Store
      BY <2>1, <2>3 DEF LeavesBehind, WsIs
    <3>2. ~disk[t].manifest.some /\ Visible(t) = {}
      BY <3>1, MadeNext
    <3> QED BY <2>1, <3>1, <3>2 DEF Store, SameTx
  <2>4. CASE ws'.tx = ws.tx /\ ws'.leftover = ws.leftover
    <3>1. ~Planned /\ ~Renames /\ ~Swaps
      BY <1>t, <1>1, <2>4 DEF Planned, Renames, Swaps, WritesNext, Workspace, Working, Publishing
    <3>2. ~disk[t].manifest.some /\ Visible(t) = {}
      BY <1>t, <1>1, <2>1, <2>4 DEF Unpublished
    <3> QED BY <2>1, <3>1, <3>2, Shrinks
  <2>5. CASE Planned
    BY <1>t, <1>1, <2>5 DEF Planned, WsIs, Workspace
  <2> QED BY <1>1, <2>2, <2>3, <2>4, <2>5, TransactionSteps DEF WsCleared, WsIs
<1>2. ASSUME pc'.at \in {"stream", "preflight", "drop"}
      PROVE  Visible(ws.tx)' = {}
  <2>1. CASE Planned
    BY <2>1 DEF Planned
  <2>2. ASSUME Strolls \/ Drops \/ Unseen \/ Takes
        PROVE  Visible(ws.tx)' = {}
    <3>1. /\ pc.at \in {"stream", "preflight", "drop"} \/ Drops
          /\ ws'.tx = ws.tx
      BY <1>2, <2>2 DEF Strolls, Moves, Unseen, Takes, Drops, Steady, WsSame, WsIs
    <3>2. PICK t \in Transactions : t = ws.tx
      BY <1>t, <3>1 DEF Workspace, Working, Publishing, Drops
    <3>3. Visible(t) = {}
      <4>1. CASE pc.at \in {"stream", "preflight", "drop"}
        BY <1>t, <3>2, <4>1 DEF Unpublished
      <4>2. CASE pc.at \in Publishing /\ Drops
        <5>1. ~disk[t].manifest.some
          BY <1>t, <3>2, <4>2 DEF Drops, OnDisk
        <5>2. pc.at = "write" /\ pc.what = "prepared"
          BY <1>t, <3>2, <4>2, <5>1 DEF OnDisk, Before, Progress, Written, Upto, Begun, Whats, Publishing, At
        <5>3. Upto(ws.manifest, 1, Prepared)
          BY <1>t, <5>2 DEF Progress, Written, At
        <5>4. \A j \in Entries : j \notin ws.manifest.finals
          BY <5>3, Bounds DEF Upto
        <5>5. \A j \in Entries : j \notin Visible(t)
          BY <1>t, <3>2, <4>2, <5>4 DEF Placed
        <5> QED BY <5>5 DEF Visible
      <4> QED BY <3>1, <4>1, <4>2 DEF Drops
    <3>4. ~Planned /\ ~Renames /\ ~Swaps
      BY <1>2, <2>2 DEF Planned, Renames, Swaps, Strolls, Moves, Unseen, Takes, Drops, WritesNext, PcIs
    <3> QED BY <3>1, <3>2, <3>3, <3>4, Shrinks
  <2> QED BY <1>2, <2>1, <2>2, UnderwayOrNot
        DEF Underway, Clears, Forgets, Begins, Renames, Temps, Swaps, Unlinks, Proceeds, WritesNext, PcIs, Working
<1> QED BY <1>1, <1>2 DEF Unpublished

\* Transactions are numbered upwards, and ranges too.
LEMMA MadeGrows ==
    ASSUME FileSetInv, Outcome
    PROVE  made' \in Nat /\ made <= made' /\ (range' = range \/ range' = range + 1)
<1>t. made \in Nat
  BY DEF FileSetInv, FileTypes
<1> DEFINE Grows == /\ made' = made \/ made' = made + 1
                    /\ range' = range \/ range' = range + 1
<1>1. Prepares => Grows
  BY DEF Prepares, Strolls, Moves, Recalls, Turns, Clears, Forgets, Abandons, Planned, LeavesBehind,
                    GivesUp, Drops, Steady, Books, Advances
<1>2. Publishes => Grows
  BY DEF Publishes, Begins, Renames, Temps, Swaps, Unlinks, Proceeds, Commits, HandsOff, WritesNext,
                    Steady, Books
<1>3. Recovers => Grows
  BY RecoversWithin DEF Within, Steady, Books
<1>4. Returned => Grows
  BY DEF Returned, Finishes, Reprepares, StaysOpen, Scans, Scanned, Ready, Again, Steady, Books
<1>5. Surroundings => Grows
  BY DEF Surroundings, Reloads, Dies, Unseen, Takes, Steady, Books
<1> QED BY <1>t, <1>1, <1>2, <1>3, <1>4, <1>5 DEF Outcome

\* A manifest allows to know the files that are visible.
LEMMA TracesKept ==
    ASSUME FileSetInv, Sane, Outcome
    PROVE  Traces'
<1>t. /\ Traces /\ Placed /\ OnDisk /\ Progress /\ Workspace /\ pc.what \in Whats
      /\ ws.tx \in Transactions \cup {0} /\ pc.entry \in Entries /\ made \in Nat
  BY DEF FileSetInv, FileTypes, Sessions, IsWorkspace, IsControl
<1>m. made' \in Nat /\ made <= made'
  BY MadeGrows
<1>s. ASSUME NEW t \in Transactions, SameTx(t), disk'[t].manifest.some
      PROVE  /\ disk'[t].dir /\ t <= made'
             /\ \A i \in Entries : i \in Visible(t)' => FinalKnown(t, i)'
  <2>1. disk[t].manifest.some /\ disk[t].dir /\ t <= made
    BY <1>t, <1>s DEF Traces, SameTx
  <2>2. t <= made'
    BY <1>t, <1>m, <2>1, Bounds
  <2> QED BY <1>t, <1>s, <2>1, <2>2 DEF Traces, SameTx
<1>1. CASE Store
  BY <1>1, <1>s DEF Store, Traces
<1>2. ASSUME NEW t \in Transactions, Others(t), ~disk'[t].manifest.some
      PROVE  Traces'
  BY <1>2, <1>s DEF Others, Traces
<1>3. CASE Planned
  <2>1. PICK t \in Transactions : t = made + 1
    BY <1>3 DEF Planned, Advances
  <2>2. Others(t) /\ ~disk'[t].manifest.some
    BY <1>3, <2>1, MadeNext DEF Planned
  <2> QED BY <1>2, <2>1, <2>2
<1>4. CASE Unmarks
  <2>1. PICK u \in Transactions : u = rec.tx
    BY <1>4 DEF FileSetInv, Sessions, Callers, FileTypes, IsRecovery, Unmarks, Steps
  <2> QED BY <1>2, <1>4, <2>1 DEF Unmarks
<1>5. ASSUME NEW u \in Transactions, NEW i \in Entries, Loses(u, i)
      PROVE  Traces'
  <2>1. ASSUME disk'[u].manifest.some
        PROVE  /\ disk'[u].dir /\ u <= made'
               /\ \A j \in Entries : j \in Visible(u)' => FinalKnown(u, j)'
    <3>1. disk[u].manifest.some /\ disk'[u].dir /\ u <= made
      BY <1>t, <1>5, <2>1 DEF Loses, Traces
    <3>2. u <= made'
      BY <1>t, <1>m, <3>1, Bounds
    <3> QED BY <1>t, <1>5, <3>1, <3>2 DEF Loses, Traces
  <2> QED BY <1>5, <1>s, <2>1 DEF Loses, Others, Traces
<1>6. CASE Renames \/ Swaps
  <2>1. /\ pc.at \in Publishing /\ ws'.tx = ws.tx /\ Others(ws.tx) /\ made' = made
        /\ disk'[ws.tx].dir <=> disk[ws.tx].dir
    BY <1>6 DEF Renames, Swaps, WritesNext, WsIs, Publishing, Books
  <2>2. PICK t \in Transactions : t = ws.tx
    BY <1>t, <2>1 DEF Workspace, Working
  <2>3. disk'[t].dir /\ t <= made'
    BY <1>t, <2>1, <2>2 DEF OnDisk, Workspace, Working
  <2>4. ASSUME NEW j \in Entries, j \in Visible(t)'
        PROVE  FinalKnown(t, j)'
    <3>1. CASE Renames
      <4>1. PICK i \in Entries : i = pc.entry /\ i = pc'.entry
        BY <1>t, <3>1 DEF Renames, WritesNext, PcIs
      <4>2. Begun(disk[t].manifest, i)
        BY <1>t, <2>2, <3>1, <4>1 DEF Renames, WritesNext, OnDisk, Progress, Publishing, At
      <4>3. FinalKnown(t, i)'
        BY <2>1, <2>2, <3>1, <4>1, <4>2 DEF Renames, Begun, FinalKnown
      <4>4. j = i \/ j \in Visible(t)
        BY <2>1, <2>2, <2>4, <3>1, <4>1 DEF Renames, Visible
      <4>5. FinalKnown(t, j) => FinalKnown(t, j)'
        BY <2>1, <2>2, <3>1 DEF Renames, FinalKnown
      <4>6. disk[t].manifest.some
        BY <4>2 DEF Begun
      <4> QED BY <1>t, <4>3, <4>4, <4>5, <4>6 DEF Traces
    <3>2. CASE Swaps
      <4>1. disk'[t].manifest = ws.manifest /\ j \in Visible(t)
        BY <2>1, <2>2, <2>4, <3>2 DEF Swaps, Visible
      <4>2. j \in ws.manifest.finals
        BY <1>t, <2>1, <2>2, <4>1 DEF Placed
      <4> QED BY <4>1, <4>2 DEF FinalKnown
    <3> QED BY <1>6, <3>1, <3>2
  <2> QED BY <1>s, <2>1, <2>2, <2>3, <2>4 DEF Others, Traces
<1> QED BY <1>1, <1>3, <1>4, <1>5, <1>6, StoreOrOne

-----------------------------------------------------------------------------
(* The recovery.                                                           *)

\* A recovery is disturbed only by its own steps and by what nobody sees.
LEMMA RecoveryApart ==
    ASSUME FileSetInv, Outcome
    PROVE  \/ Recovers
           \/ rec'.step = "none"
           \/ (Recalls \/ Scans) /\ rec'.step = "read"
           \/ (Unseen \/ Takes) /\ rec' = rec
<1>t. pc.at \notin Returns \cup {"boot"} => rec.step = "none"
  BY DEF FileSetInv, Sessions, Callers
<1> USE DEF Returns, Apart, Released, RecIs, Looking
<1>1. CASE Prepares
  BY <1>t, <1>1 DEF Prepares, Strolls, Moves, Recalls, Turns, Clears, Forgets, Abandons, Planned,
                    LeavesBehind, GivesUp, Drops, Publishing
<1>2. CASE Publishes
  BY <1>t, <1>2 DEF Publishes, Begins, Renames, Temps, Swaps, Unlinks, Proceeds, Commits, HandsOff, WritesNext
<1>3. CASE Returned
  BY <1>t, <1>3 DEF Returned, Finishes, Reprepares, StaysOpen, Scans, Scanned, Ready, Again
<1>4. CASE Surroundings
  BY <1>t, <1>4 DEF Surroundings, Reloads, Dies, Unseen, Takes
<1> QED BY <1>1, <1>2, <1>3, <1>4 DEF Outcome

\* The files the recovered transaction shows.
LEMMA TakenBackKept ==
    ASSUME FileSetInv, Sane, Outcome
    PROVE  TakenBack'
<1>t. /\ TakenBack /\ LastToGo /\ Traces /\ Callers /\ rec.tx \in Transactions \cup {0}
      /\ rec.entry \in Entries /\ rec.entry \in Nat
  BY Bounds DEF FileSetInv, FileTypes, IsRecovery, Recovering, Sessions
<1>1. CASE rec'.step \in {"none", "read"}
  BY <1>1 DEF TakenBack
<1>2. CASE (Unseen \/ Takes) /\ rec' = rec /\ rec.step \notin {"none", "read"}
  <2>1. PICK u \in Transactions : u = rec.tx /\ u = rec'.tx
    BY <1>t, <1>2 DEF Callers
  <2>2. Visible(u)' \subseteq Visible(u)
    BY <1>2 DEF Unseen, Takes, Store, Loses, Others, SameTx
  <2>3. (Unfailed' => Unfailed) /\ (Careful' => Careful)
    BY <1>2 DEF Unseen, Takes, Spends, Careful
  <2> QED BY <1>t, <1>2, <2>1, <2>2, <2>3 DEF TakenBack
<1>3. ASSUME Recovers PROVE TakenBack'
  <2>1. PICK u \in Transactions : u = rec.tx /\ u = rec'.tx
    BY <1>t, <1>3, RecoversWithin DEF Callers
  <2>2. Unfailed' => Unfailed
    BY <1>3, RecoversWithin DEF Within, Spends
  <2>3. CASE Reads
    <3>1. \A j \in Entries : ~(j < 1)
      BY Bounds
    <3>2. rec.entry = 1
      BY <1>t, <2>3 DEF Reads, Closes, Steps, Callers
    <3>3. /\ rec'.step \in {"syncFinals", "final"} \/ (rec'.step = "done" /\ rec'.outcome = "error")
          /\ rec'.entry = 1
      BY <2>3, <3>2 DEF Reads, Closes, Steps, RecIs
    <3> QED BY <3>1, <3>3 DEF TakenBack
  <2>4. CASE Rechecks \/ Tidies \/ Breaks
    <3>1. rec'.step \in {"tidy", "tidyManifest"} \/ (rec'.step = "done" /\ rec'.outcome \in {"error", "complete"})
      BY <2>4 DEF Rechecks, Tidies, Breaks, Closes, Steps, RecIs
    <3> QED BY <3>1 DEF TakenBack
  <2>5. CASE Unmarks
    <3>1. Visible(u)' = Visible(u)
      BY <2>1, <2>5 DEF Unmarks, Visible
    <3>2. \/ rec'.step = "tidyDir"
          \/ rec.step = "manifest" /\ rec'.step = "rmdir" /\ (rec'.pending <=> rec.pending)
      BY <2>5 DEF Unmarks, Steps, RecIs
    <3> QED BY <1>t, <2>1, <2>2, <3>1, <3>2 DEF TakenBack, Careful
  <2>6. CASE TakesBack
    <3>1. PICK i \in Entries : i = rec.entry /\ i = rec'.entry
      BY <1>t, <2>6 DEF TakesBack, Rolls, RecIs
    <3>2. rec.step = "final" /\ rec'.step = "partial" /\ (rec.pending => rec'.pending)
      BY <2>6 DEF TakesBack, Rolls, RecIs
    <3>3. SUFFICES ASSUME Careful' PROVE \A j \in Entries : j <= i => j \notin Visible(u)'
      BY <2>1, <3>1, <3>2 DEF TakenBack
    <3>4. \A j \in Entries : j < i => j \notin Visible(u)
      BY <1>t, <2>1, <2>2, <3>1, <3>2, <3>3 DEF TakenBack, Careful
    <3>5. i \notin Visible(u)' /\ Visible(u)' \subseteq Visible(u)
      <4>1. CASE FinalKnown(u, i)
        BY <2>1, <2>6, <3>1, <3>3, <4>1 DEF TakesBack, Loses, Careful, Visible
      <4>2. CASE ~FinalKnown(u, i)
        <5>1. i \notin Visible(u)
          BY <1>t, <2>1, <3>2, <4>2 DEF LastToGo, MarksKept, MarkedSteps, Traces
        <5>2. Visible(u)' = Visible(u)
          BY <2>1, <2>6, <3>1, <4>2 DEF TakesBack, Store, SameTx
        <5> QED BY <5>1, <5>2
      <4> QED BY <4>1, <4>2
    <3>6. \A j \in Entries : j <= i => j < i \/ j = i
      BY Bounds
    <3> QED BY <3>4, <3>5, <3>6
  <2>7. CASE SkipsPartial \/ SkipsStaged
    <3>1. Visible(u)' = Visible(u)
      BY <2>7 DEF SkipsPartial, SkipsStaged, Store, SameTx
    <3>2. rec.pending => rec'.pending
      BY <2>7 DEF SkipsPartial, SkipsStaged, Rolls, RecIs
    <3>3. Careful' => Careful
      BY <2>2, <3>2 DEF Careful
    <3>4. CASE SkipsPartial
      BY <1>t, <2>1, <3>1, <3>3, <3>4 DEF SkipsPartial, Rolls, RecIs, TakenBack
    <3>5. CASE SkipsStaged
      <4>1. Careful' => \A j \in Entries : j <= rec.entry => j \notin Visible(u)'
        BY <1>t, <2>1, <3>1, <3>3, <3>5 DEF SkipsStaged, TakenBack
      <4>2. CASE rec'.step = "final" /\ rec'.entry = rec.entry + 1
        <5>1. \A j \in Entries : j < rec.entry + 1 => j <= rec.entry
          BY <1>t, Bounds
        <5> QED BY <2>1, <4>1, <4>2, <5>1 DEF TakenBack
      <4>3. CASE rec'.step = "settle" /\ rec.entry = FileCount
        <5>1. Careful' => Visible(u)' = {}
          BY <4>1, <4>3, Bounds DEF Visible
        <5> QED BY <2>1, <4>3, <5>1 DEF TakenBack
      <4> QED BY <3>5, <4>2, <4>3 DEF SkipsStaged, RecIs
    <3> QED BY <2>7, <3>4, <3>5
  <2>8. CASE Settles \/ Ending
    <3>1. Visible(u)' = Visible(u)
      BY <2>8 DEF Settles, Ending, Store, SameTx
    <3> QED BY <1>t, <2>1, <2>2, <2>8, <3>1 DEF Settles, Ending, Closes, Steps, RecIs, TakenBack, Careful
  <2> QED BY <1>3, <2>3, <2>4, <2>5, <2>6, <2>7, <2>8 DEF Recovers
<1> QED BY <1>1, <1>2, <1>3, RecoveryApart

\* A transaction with a manifest is complete exactly when all its files are visible.
LEMMA CompleteIsVisible ==
    ASSUME Traces, NEW t \in Transactions
    PROVE  /\ CompleteFinalSet(t) => Visible(t) = Entries
           /\ disk[t].manifest.some /\ Visible(t) = Entries => CompleteFinalSet(t)
  BY DEF CompleteFinalSet, Visible, Traces

\* A recovery does not take back a set that it found complete.
LEMMA LeftCompleteKept ==
    ASSUME FileSetInv, Sane, Outcome
    PROVE  LeftComplete'
<1>t. LeftComplete /\ Traces /\ Callers /\ rec.tx \in Transactions \cup {0}
  BY DEF FileSetInv, FileTypes, IsRecovery, Recovering, Sessions
<1>1. CASE rec'.step \in {"none", "read"} \/ Takes
  BY <1>1 DEF LeftComplete, Takes
<1>2. CASE Unseen /\ rec' = rec /\ rec.step # "none"
  <2>1. PICK u \in Transactions : u = rec.tx /\ u = rec'.tx
    BY <1>t, <1>2 DEF Callers
  <2>2. Visible(u)' = Visible(u) /\ (Untaken' => Untaken)
    BY <1>2 DEF Unseen, Store, SameTx, Spends
  <2> QED BY <1>t, <1>2, <2>1, <2>2 DEF LeftComplete
<1>3. ASSUME Recovers PROVE LeftComplete'
  <2>1. PICK u \in Transactions : u = rec.tx /\ u = rec'.tx
    BY <1>t, <1>3, RecoversWithin DEF Callers
  <2>2. Untaken' => Untaken
    BY <1>3, RecoversWithin DEF Within, Spends
  <2>3. CASE TakesBack
    <3>1. PICK i \in Entries : i = rec.entry /\ i = rec'.entry
      BY <2>3 DEF TakesBack, Rolls, RecIs, FileSetInv, FileTypes, IsRecovery
    <3>2. Visible(u)' = Visible(u) \/ Visible(u)' = Visible(u) \ {i}
      <4>1. CASE Store
        BY <4>1 DEF Store, SameTx
      <4>2. CASE Loses(rec.tx, rec.entry)
        BY <2>1, <3>1, <4>2 DEF Loses, Visible
      <4> QED BY <2>3, <4>1, <4>2 DEF TakesBack
    <3>3. Visible(u) # Entries => Visible(u)' # Entries
      BY <3>2 DEF Visible
    <3>4. rec.step = "final" /\ rec'.step = "partial"
      BY <2>3 DEF TakesBack, Rolls, RecIs
    <3> QED BY <1>t, <2>1, <2>2, <3>3, <3>4 DEF LeftComplete
  <2>5. CASE Reads
    <3>1. Visible(u)' = Visible(u)
      BY <2>5 DEF Reads, Store, SameTx
    <3>2. \/ rec'.step = "done" /\ rec'.outcome = "error"
          \/ rec'.step = "syncFinals" /\ CompleteFinalSet(u)
          \/ rec'.step = "final" /\ ~CompleteFinalSet(u) /\ disk[u].manifest.some
      BY <2>1, <2>5 DEF Reads, Closes, Steps, RecIs
    <3> QED BY <1>t, <2>1, <3>1, <3>2, CompleteIsVisible DEF LeftComplete
  <2>6. CASE Rechecks \/ Tidies
    <3>1. Visible(u)' = Visible(u)
      BY <2>6 DEF Rechecks, Tidies, Store, SameTx
    <3>2. /\ rec.step \in {"syncFinals", "tidy", "tidyManifest", "tidyDir"}
          /\ rec'.step \in {"tidy", "tidyManifest", "tidyDir", "done"}
      BY <2>6 DEF Rechecks, Tidies, Closes, Steps, RecIs
    <3> QED BY <1>t, <2>1, <2>2, <3>1, <3>2 DEF LeftComplete
  <2>7. CASE Unmarks
    <3>1. Visible(u)' = Visible(u)
      BY <2>1, <2>7 DEF Unmarks, Visible
    <3>2. \/ rec.step = "tidyManifest" /\ rec'.step = "tidyDir"
          \/ rec.step = "manifest" /\ rec'.step = "rmdir"
      BY <2>7 DEF Unmarks, Steps, RecIs
    <3> QED BY <1>t, <2>1, <2>2, <3>1, <3>2 DEF LeftComplete
  <2>8. CASE SkipsPartial \/ SkipsStaged \/ Settles \/ Ending \/ Breaks
    <3>1. Visible(u)' = Visible(u)
      BY <2>8 DEF SkipsPartial, SkipsStaged, Settles, Ending, Breaks, Store, SameTx
    <3>2. \/ /\ rec.step \in {"final", "partial", "staged", "settle", "manifest", "rmdir"}
             /\ rec'.step \in {"final", "partial", "staged", "settle", "manifest", "rmdir"}
          \/ rec'.step = "done" /\ rec'.outcome \in {"pending", "rolledBack", "error"}
      BY <2>8 DEF SkipsPartial, SkipsStaged, Settles, Ending, Breaks, Rolls, Closes, Steps, RecIs
    <3> QED BY <1>t, <2>1, <2>2, <3>1, <3>2 DEF LeftComplete
  <2> QED BY <1>3, <2>3, <2>5, <2>6, <2>7, <2>8 DEF Recovers
<1> QED BY <1>1, <1>2, <1>3, RecoveryApart

-----------------------------------------------------------------------------
(* The manifest goes last.                                                 *)

\* Undisturbed in its two parts.
LEMMA UndisturbedIs == Undisturbed <=> Unfailed /\ Untaken
  BY DEF Undisturbed, Unfailed, Untaken

\* A state is undisturbed only after undisturbed ones.
LEMMA UndisturbedBefore ==
    ASSUME FileSetInv, Outcome
    PROVE  Undisturbed' => Undisturbed /\ Untaken' /\ Unfailed'
<1>1. Undisturbed' <=> Unfailed' /\ Untaken'
  BY DEF Undisturbed, Unfailed, Untaken
<1>2. Untaken' /\ Unfailed' => Unfailed /\ Untaken
  <2>1. CASE Prepares
    BY <2>1 DEF Prepares, Strolls, Moves, Recalls, Turns, Clears, Forgets, Abandons, Planned, LeavesBehind,
                GivesUp, Drops, Spends
  <2>2. CASE Publishes
    BY <2>2 DEF Publishes, Begins, Renames, Temps, Swaps, Unlinks, Proceeds, Commits, HandsOff, WritesNext, Spends
  <2>3. CASE Recovers
    BY <2>3, RecoversWithin DEF Within, Spends
  <2>4. CASE Returned
    BY <2>4 DEF Returned, Finishes, Reprepares, StaysOpen, Scans, Scanned, Ready, Again, Spends
  <2>5. CASE Surroundings
    BY <2>5 DEF Surroundings, Reloads, Dies, Unseen, Takes, Spends
  <2> QED BY <2>1, <2>2, <2>3, <2>4, <2>5 DEF Outcome
<1> QED BY <1>1, <1>2, UndisturbedIs

\* What the recovery knows of the manifest of its transaction.
LEMMA MarksStay ==
    ASSUME FileSetInv, Sane, Outcome
    PROVE  MarksKept'
<1>t. /\ MarksKept /\ LeftComplete /\ ManifestValid /\ Traces /\ Callers /\ rec.tx \in Transactions \cup {0}
  BY DEF FileSetInv, FileTypes, IsRecovery, Recovering, Sessions, LastToGo
<1>d. Undisturbed' => Undisturbed /\ Untaken' /\ Unfailed' /\ Untaken
  BY UndisturbedBefore, UndisturbedIs
<1>1. CASE rec'.step = "none"
  BY <1>1 DEF MarksKept, MarkedSteps
<1>2. CASE Recalls /\ rec'.step = "read"
  BY <1>2 DEF Recalls, Turns, MarksKept, MarkedSteps, At
<1>3. CASE Scans
  <2>1. PICK t \in Transactions : disk[t].manifest.some /\ Looking(t)
    BY <1>3 DEF Scans
  <2>2. disk'[t].manifest.some
    BY <1>3, <2>1 DEF Scans, Store, SameTx
  <2> QED BY <2>1, <2>2 DEF Looking, RecIs, MarksKept, MarkedSteps
<1>4. CASE (Unseen \/ Takes) /\ rec' = rec /\ rec.step # "none"
  <2>1. PICK u \in Transactions : u = rec.tx /\ u = rec'.tx
    BY <1>t, <1>4 DEF Callers
  <2>2. pc' = pc /\ (disk'[u].manifest.some <=> disk[u].manifest.some)
    BY <1>4 DEF Unseen, Takes, Store, Loses, Others, SameTx
  <2> QED BY <1>t, <1>d, <1>4, <2>1, <2>2 DEF MarksKept, At
<1>5. ASSUME Recovers PROVE MarksKept'
  <2>1. PICK u \in Transactions : u = rec.tx /\ u = rec'.tx
    BY <1>t, <1>5, RecoversWithin DEF Callers
  <2>2. pc' = pc
    BY <1>5, RecoversWithin DEF Within
  <2>3. CASE Unmarks
    <3>1. ~disk'[u].manifest.some /\ rec'.step \in {"tidyDir", "rmdir"}
      BY <2>1, <2>3 DEF Unmarks, Steps, RecIs
    <3> QED BY <2>1, <3>1 DEF MarksKept, MarkedSteps
  <2>5. CASE Reads
    <3>1. \/ /\ rec'.step = "done" /\ rec'.outcome = "error"
             /\ ~disk[u].manifest.some \/ ~ValidPhaseState(disk[u].manifest)
          \/ disk[u].manifest.some /\ rec'.step \in {"syncFinals", "final"}
      BY <2>1, <2>5 DEF Reads, Closes, Steps, RecIs
    <3>2. disk[u].manifest.some => ValidPhaseState(disk[u].manifest)
      BY <1>t DEF ManifestValid
    <3>3. pc.at = "boot" => disk[u].manifest.some
      BY <1>t, <2>1, <2>5 DEF Reads, Closes, Steps, MarksKept, At
    <3>4. disk'[u].manifest.some <=> disk[u].manifest.some
      BY <2>5 DEF Reads, Store, SameTx
    <3> QED BY <2>1, <2>2, <3>1, <3>2, <3>3, <3>4 DEF MarksKept, MarkedSteps, At
  <2>6. CASE Rechecks
    <3>1. \/ rec'.step = "tidy"
          \/ rec'.step = "done" /\ rec'.outcome = "error" /\ ~CompleteFinalSet(u)
      BY <2>1, <2>6 DEF Rechecks, Closes, Steps, RecIs
    <3>2. rec.step = "syncFinals"
      BY <2>6 DEF Rechecks, Closes, Steps
    <3>3. disk[u].manifest.some /\ (Untaken => Visible(u) = Entries)
      BY <1>t, <2>1, <3>2 DEF MarksKept, MarkedSteps, LeftComplete
    <3>4. ~Undisturbed' \/ rec'.step = "tidy"
      BY <1>d, <1>t, <3>1, <3>3, CompleteIsVisible
    <3>5. disk'[u].manifest.some
      BY <2>6, <3>3 DEF Rechecks, Store, SameTx
    <3> QED BY <2>1, <2>2, <3>1, <3>4, <3>5 DEF MarksKept, MarkedSteps, At
  <2>7. CASE Tidies
    <3>1. \/ rec.step = "tidy" /\ rec'.step = "tidyManifest"
          \/ rec'.step = "done" /\ rec'.outcome = "complete"
      BY <2>7 DEF Tidies, Closes, Steps, RecIs
    <3>2. disk'[u].manifest.some <=> disk[u].manifest.some
      BY <2>7 DEF Tidies, Store, SameTx
    <3> QED BY <1>t, <2>1, <2>2, <3>1, <3>2 DEF MarksKept, MarkedSteps, At
  <2>8. CASE TakesBack \/ SkipsPartial \/ SkipsStaged
    <3>1. disk'[u].manifest.some <=> disk[u].manifest.some
      BY <2>1, <2>8 DEF TakesBack, SkipsPartial, SkipsStaged, Store, SameTx, Loses
    <3>2. /\ rec.step \in {"final", "partial", "staged"}
          /\ rec'.step \in {"final", "partial", "staged", "settle"}
      BY <2>8 DEF TakesBack, SkipsPartial, SkipsStaged, Rolls, RecIs
    <3> QED BY <1>t, <2>1, <2>2, <3>1, <3>2 DEF MarksKept, MarkedSteps, At
  <2>9. CASE Settles \/ Ending \/ Breaks
    <3>1. disk'[u].manifest.some <=> disk[u].manifest.some
      BY <2>9 DEF Settles, Ending, Breaks, Store, SameTx
    <3>2. \/ rec.step = "settle" /\ rec'.step = "manifest"
          \/ rec'.step = "done" /\ rec'.outcome \in {"pending", "rolledBack"}
          \/ rec'.step = "done" /\ rec'.outcome = "error" /\ ~Unfailed'
      BY <2>9 DEF Settles, Ending, Breaks, Closes, Steps, RecIs
    <3> QED BY <1>d, <1>t, <2>1, <2>2, <3>1, <3>2 DEF MarksKept, MarkedSteps, At
  <2> QED BY <1>5, <2>3, <2>5, <2>6, <2>7, <2>8, <2>9 DEF Recovers
<1> QED BY <1>1, <1>2, <1>3, <1>4, <1>5, RecoveryApart

\* A scan fails for a cause.
LEMMA ScanFailsForCause ==
    ASSUME FileSetInv, Outcome, scan'.failed
    PROVE  ~Undisturbed'
<1>t. LastToGo /\ (Undisturbed' => Undisturbed)
  BY UndisturbedBefore DEF FileSetInv, Recovering
<1>1. CASE Scanned
  BY <1>t, <1>1 DEF Scanned, ScanIs, LastToGo, MarksKept, At
<1>2. ~Scanned => scan.failed
  <2>1. CASE Prepares
    BY <2>1 DEF Prepares, Strolls, Moves, Recalls, Turns, Clears, Forgets, Abandons, Planned, LeavesBehind,
                GivesUp, Drops, Apart
  <2>2. CASE Publishes
    BY <2>2 DEF Publishes, Begins, Renames, Temps, Swaps, Unlinks, Proceeds, Commits, HandsOff, WritesNext, Apart
  <2>3. CASE Recovers
    BY <2>3, RecoversWithin DEF Within
  <2>4. CASE Returned
    BY <2>4 DEF Returned, Finishes, Reprepares, StaysOpen, Scans, Ready, Again, ScanIs
  <2>5. CASE Surroundings
    BY <2>5 DEF Surroundings, Reloads, Dies, Unseen, Takes, ScanIs, Apart
  <2> QED BY <2>1, <2>2, <2>3, <2>4, <2>5 DEF Outcome
<1> QED BY <1>t, <1>1, <1>2 DEF LastToGo

\* A publication of unknown outcome keeps its manifest until its recovery removes it.
LEMMA OpenMarkedKept ==
    ASSUME FileSetInv, Sane, Outcome
    PROVE  OpenMarked'
<1>t. OpenMarked /\ MarksKept /\ Workspace /\ Callers /\ OnDisk /\ ws.tx \in Transactions \cup {0}
  BY DEF FileSetInv, FileTypes, IsWorkspace, Sessions, Recovering, LastToGo
<1>1. SUFFICES ASSUME Undisturbed', indeterminate', pc'.at # "boot"
               PROVE  disk'[ws'.tx].manifest.some \/ (pc'.at = "retry" /\ Gone')
  BY DEF OpenMarked, At
<1>2. Undisturbed /\ Untaken' /\ Unfailed'
  BY <1>1, UndisturbedBefore
<1>3. ASSUME indeterminate, pc.at \notin {"boot", "retry"}, ws'.tx = ws.tx, Store
      PROVE  disk'[ws'.tx].manifest.some
  <2>1. ws.tx \in Transactions /\ disk[ws.tx].manifest.some
    BY <1>t, <1>2, <1>3 DEF OpenMarked, Workspace, At
  <2> QED BY <1>3, <2>1 DEF Store, SameTx
<1>4. CASE Strolls \/ Recalls
  BY <1>1, <1>3, <1>4 DEF Strolls, Moves, Recalls, Turns, Steady, WsSame, WsIs
<1>5. ~Clears /\ ~Abandons /\ ~Planned /\ ~LeavesBehind /\ ~Drops
  BY <1>t, <1>1 DEF Clears, Forgets, Abandons, Planned, LeavesBehind, Drops, Steady, Workspace, Working, Publishing
<1>6. CASE GivesUp
  <2>1. pc.at \in Publishing /\ ws'.tx = ws.tx /\ Store /\ disk[ws.tx].manifest.some
    BY <1>t, <1>6 DEF GivesUp, WsSame, WsIs, OnDisk
  <2>2. ws.tx \in Transactions
    BY <1>t, <2>1 DEF Workspace, Working
  <2> QED BY <2>1, <2>2 DEF Store, SameTx
<1>7. CASE Publishes
  <2>1. HandsOff
    BY <1>t, <1>1, <1>7 DEF Publishes, Begins, Renames, Temps, Swaps, Unlinks, Proceeds, Commits, WritesNext,
                       Steady, Workspace, Working, Publishing
  <2>2. /\ disk'[ws.tx] = disk[ws.tx] /\ ws'.tx = ws.tx /\ pc.at = "artifact" /\ indeterminate
    BY <1>1, <2>1 DEF HandsOff, Loses, Steady, WsSame, WsIs
  <2> QED BY <1>t, <1>2, <2>2 DEF OpenMarked, At
<1>8. CASE Recovers
  <2>1. /\ pc' = pc /\ ws'.tx = ws.tx /\ indeterminate /\ rec'.tx = rec.tx /\ pc.at \in Returns
    BY <1>1, <1>8, RecoversWithin DEF Within, Steady, WsSame, WsIs
  <2>2. pc.at = "retry" /\ rec.tx = ws.tx /\ ws.tx # 0
    BY <1>t, <2>1 DEF Workspace, Callers, Returns, Working
  <2>3. disk[ws.tx].manifest.some \/ Gone
    BY <1>t, <1>2, <2>1, <2>2 DEF OpenMarked, At
  <2>4. CASE Unmarks
    BY <2>1, <2>2, <2>4 DEF Unmarks, Steps, RecIs, Gone
  <2>5. CASE ~Unmarks /\ Gone
    BY <1>2, <1>8, <2>1, <2>2, <2>5
       DEF Recovers, Reads, Rechecks, Tidies, TakesBack, SkipsPartial, SkipsStaged, Settles, Ending, Breaks,
           Rolls, Closes, Steps, RecIs, Gone
  <2>6. CASE ~Unmarks /\ disk[ws.tx].manifest.some
    <3>1. disk'[ws.tx].manifest.some
      BY <1>t, <1>8, <2>2, <2>6
         DEF Recovers, Reads, Rechecks, Tidies, TakesBack, SkipsPartial, SkipsStaged, Settles, Ending, Breaks,
             Store, SameTx, Loses
    <3> QED BY <2>1, <3>1
  <2> QED BY <2>3, <2>4, <2>5, <2>6
<1>9. CASE Returned
  <2>1. StaysOpen
    BY <1>t, <1>1, <1>2, <1>9
       DEF Returned, Finishes, Reprepares, Scans, Scanned, Ready, Again, Workspace, Steady,
           FileSetInv, Recovering, LastToGo
  <2>2. /\ pc.at = "retry" /\ rec.step = "done" /\ rec.outcome \notin {"complete", "rolledBack"} /\ Store
        /\ ws'.tx = ws.tx /\ indeterminate
    BY <1>1, <2>1 DEF StaysOpen, Steady, WsSame, WsIs
  <2>3. ws.tx \in Transactions /\ disk[ws.tx].manifest.some
    BY <1>t, <1>2, <2>2 DEF OpenMarked, Gone, At, Workspace, Returns
  <2> QED BY <2>2, <2>3 DEF Store, SameTx
<1>10. CASE Surroundings
  <2>1. Unseen
    BY <1>1, <1>2, <1>10 DEF Surroundings, Reloads, Dies, Takes
  <2>2. pc' = pc /\ rec' = rec /\ ws'.tx = ws.tx /\ indeterminate /\ Store
    BY <1>1, <2>1 DEF Unseen, Apart, Steady, WsSame, WsIs
  <2>3. ws.tx \in Transactions
    BY <1>t, <2>2 DEF Workspace
  <2> QED BY <1>t, <1>1, <1>2, <2>2, <2>3 DEF OpenMarked, Gone, At, Store, SameTx
<1> QED BY <1>4, <1>5, <1>6, <1>7, <1>8, <1>9, <1>10 DEF Outcome, Prepares

\* What a recovery has done, as far as it is.
LEMMA RecoveringKept ==
    ASSUME FileSetInv, Sane, Outcome
    PROVE  Recovering'
  BY TakenBackKept, LeftCompleteKept, MarksStay, ScanFailsForCause, OpenMarkedKept DEF Recovering, LastToGo

-----------------------------------------------------------------------------
(* The sets of files.                                                      *)

\* What a step shows and hides of a transaction.
LEMMA VisibleSteps ==
    ASSUME FileSetInv, Outcome, NEW t \in Transactions
    PROVE  \/ Visible(t)' = Visible(t)
           \/ Renames /\ t = ws.tx /\ ws'.tx = t
           \/ (HandsOff /\ t = ws.tx) /\ Visible(t)' \subseteq Visible(t)
           \/ (TakesBack /\ t = rec.tx) /\ Visible(t)' \subseteq Visible(t)
           \/ Takes /\ Visible(t)' \subseteq Visible(t)
<1>1. CASE Planned
  <2>1. CASE t = made + 1
    <3>1. Visible(t) = {}
      BY <2>1, MadeNext
    <3>2. Visible(t)' = {}
      BY <1>1, <2>1 DEF Planned, WsIs
    <3> QED BY <3>1, <3>2
  <2> QED BY <1>1, <2>1 DEF Planned, Others, SameTx
<1>2. CASE Renames
  <2>1. ws'.tx = ws.tx
    BY <1>2 DEF Renames, WritesNext, WsIs
  <2> QED BY <1>2, <2>1 DEF Renames, Others, SameTx
<1>3. CASE Swaps
  <2>1. ws'.tx = ws.tx
    BY <1>3 DEF Swaps, WsIs
  <2>2. CASE t = ws.tx
    BY <1>3, <2>1, <2>2 DEF Swaps, Visible
  <2> QED BY <1>3, <2>2 DEF Swaps, Others, SameTx
<1>4. CASE Unmarks
  <2>1. rec'.tx = rec.tx
    BY <1>4 DEF Unmarks, Steps, RecIs
  <2>2. CASE t = rec.tx
    BY <1>4, <2>1, <2>2 DEF Unmarks, Visible
  <2> QED BY <1>4, <2>2 DEF Unmarks, Others, SameTx
<1>5. CASE HandsOff
  <2>1. ws'.tx = ws.tx
    BY <1>5 DEF HandsOff, Steady, WsSame, WsIs
  <2>2. PICK i \in Entries : Visible(ws.tx)' = Visible(ws.tx) \ {i} /\ Others(ws.tx)
    BY <1>5 DEF HandsOff, Loses
  <2>3. CASE t = ws.tx
    BY <1>5, <2>1, <2>2, <2>3 DEF Visible
  <2> QED BY <2>2, <2>3 DEF Others, SameTx
<1>6. CASE TakesBack
  <2>1. rec'.tx = rec.tx /\ rec'.entry = rec.entry
    BY <1>6 DEF TakesBack, Rolls, RecIs
  <2>2. CASE t = rec.tx
    <3>1. \/ Visible(t)' = Visible(t)
          \/ Visible(t)' = Visible(t) \ {rec.entry}
      <4>1. CASE Store
        BY <4>1 DEF Store, SameTx
      <4>2. CASE Loses(rec.tx, rec.entry)
        BY <2>1, <2>2, <4>2 DEF Loses, Visible
      <4> QED BY <1>6, <4>1, <4>2 DEF TakesBack
    <3> QED BY <1>6, <2>2, <3>1
  <2> QED BY <1>6, <2>2 DEF TakesBack, Loses, Others, Store, SameTx
<1>7. CASE Takes
  BY <1>7 DEF Takes, Loses, Others, SameTx
<1>8. CASE Prepares /\ ~Planned
  BY <1>8 DEF Prepares, Strolls, Moves, Recalls, Turns, Clears, Forgets, Abandons, LeavesBehind, GivesUp, Drops,
              Store, SameTx
<1>9. CASE Publishes /\ ~Renames /\ ~Swaps /\ ~HandsOff
  BY <1>9 DEF Publishes, Begins, Temps, Unlinks, Proceeds, Commits, Store, SameTx
<1>10. CASE Recovers /\ ~Unmarks /\ ~TakesBack
  BY <1>10 DEF Recovers, Reads, Rechecks, Tidies, SkipsPartial, SkipsStaged, Settles, Ending, Breaks, Store, SameTx
<1>11. CASE Returned
  BY <1>11 DEF Returned, Finishes, Reprepares, StaysOpen, Scans, Scanned, Ready, Again, Store, SameTx
<1>12. CASE Surroundings /\ ~Takes
  BY <1>12 DEF Surroundings, Reloads, Dies, Unseen, Store, SameTx
<1> QED BY <1>1, <1>2, <1>3, <1>4, <1>5, <1>6, <1>7, <1>8, <1>9, <1>10, <1>11, <1>12 DEF Outcome

\* What the user has moved away stays moved.
LEMMA UntakenBefore ==
    ASSUME FileSetInv, Outcome, Untaken'
    PROVE  Untaken /\ ~Takes
<1>1. CASE Prepares
  BY <1>1 DEF Prepares, Strolls, Moves, Recalls, Turns, Clears, Forgets, Abandons, Planned, LeavesBehind,
              GivesUp, Drops, Spends, Takes
<1>2. CASE Publishes
  BY <1>2 DEF Publishes, Begins, Renames, Temps, Swaps, Unlinks, Proceeds, Commits, HandsOff, WritesNext, Spends,
              Takes
<1>3. CASE Recovers
  BY <1>3, RecoversWithin DEF Within, Spends, Takes
<1>4. CASE Returned
  BY <1>4 DEF Returned, Finishes, Reprepares, StaysOpen, Scans, Scanned, Ready, Again, Spends, Takes
<1>5. CASE Surroundings
  BY <1>5 DEF Surroundings, Reloads, Dies, Unseen, Takes, Spends
<1> QED BY <1>1, <1>2, <1>3, <1>4, <1>5 DEF Outcome

\* Until the user takes a file, a committed set is not touched.
LEMMA CommittedUntouched ==
    ASSUME FileSetInv, Outcome, Untaken', NEW t \in committed
    PROVE  Visible(t) = Entries /\ Visible(t)' = Visible(t)
<1>t. /\ Committed /\ Workspace /\ LeftComplete /\ t \in Transactions
      /\ ws.tx \in Transactions \cup {0}
  BY DEF FileSetInv, FileTypes, IsWorkspace, Sessions, Recovering
<1>1. Untaken /\ ~Takes
  BY UntakenBefore
<1>2. Visible(t) = Entries
  BY <1>t, <1>1 DEF Committed
<1>3. ~(Renames /\ t = ws.tx) /\ ~(HandsOff /\ t = ws.tx)
  BY <1>t, Bounds DEF Workspace, Renames, HandsOff, WritesNext, Working, Publishing
<1>4. ~(TakesBack /\ t = rec.tx)
  BY <1>t, <1>1, <1>2 DEF LeftComplete, TakesBack, Rolls
<1> QED BY <1>t, <1>1, <1>2, <1>3, <1>4, VisibleSteps

\* A set is complete when it is committed, and stays so.
LEMMA CommittedKept ==
    ASSUME FileSetInv, Sane, Outcome
    PROVE  Committed'
<1>t. Placed /\ Progress /\ LeftComplete /\ Workspace /\ Callers /\ ws.tx \in Transactions \cup {0}
  BY DEF FileSetInv, FileTypes, IsWorkspace, Sessions, Recovering
<1>1. SUFFICES ASSUME Untaken', NEW t \in committed' PROVE Visible(t)' = Entries
  BY DEF Committed
<1>2. Untaken
  BY <1>1, UntakenBefore
<1>3. CASE t \in committed
  BY <1>1, <1>3, CommittedUntouched
<1>4. CASE Commits /\ t = ws.tx
  <2>1. pc.at \in {"verify", "retry"} /\ Store
    BY <1>4 DEF Commits
  <2>2. t \in Transactions
    BY <1>t, <1>4, <2>1 DEF Workspace, Working, Publishing, Returns
  <2>3. Visible(t) = Entries
    <3>1. CASE pc.at = "verify"
      <4>1. Upto(ws.manifest, Complete, Complete)
        BY <1>t, <3>1 DEF Progress, At
      <4>2. \A i \in Entries : i < Complete
        BY Bounds DEF Complete
      <4>3. \A i \in Entries : i \in Visible(t)
        BY <1>t, <1>2, <1>4, <3>1, <4>1, <4>2 DEF Upto, Placed, Publishing
      <4> QED BY <4>3 DEF Visible
    <3>2. CASE pc.at = "retry"
      BY <1>t, <1>2, <1>4, <3>2 DEF Commits, LeftComplete, Callers, Returns
    <3> QED BY <2>1, <3>1, <3>2
  <2> QED BY <2>1, <2>2, <2>3 DEF Store, SameTx
<1>5. committed' = committed \/ (Commits /\ committed' = committed \cup {ws.tx})
  <2>1. CASE Prepares
    BY <2>1 DEF Prepares, Strolls, Moves, Recalls, Turns, Clears, Forgets, Abandons, Planned, LeavesBehind,
                GivesUp, Drops, Steady, Books, Advances
  <2>2. CASE Publishes
    BY <2>2 DEF Publishes, Begins, Renames, Temps, Swaps, Unlinks, Proceeds, Commits, HandsOff, WritesNext,
                Steady, Books
  <2>3. CASE Recovers
    BY <2>3, RecoversWithin DEF Within, Steady, Books
  <2>4. CASE Returned
    BY <2>4 DEF Returned, Finishes, Reprepares, StaysOpen, Scans, Scanned, Ready, Again, Steady, Books
  <2>5. CASE Surroundings
    BY <2>5 DEF Surroundings, Reloads, Dies, Unseen, Takes, Steady, Books
  <2> QED BY <2>1, <2>2, <2>3, <2>4, <2>5 DEF Outcome
<1> QED BY <1>1, <1>3, <1>4, <1>5

\* Who looks after a transaction that is not settled goes on doing so, until it is
\* committed, dropped, taken back, or found settled by the scan.
LEMMA LookedAfter ==
    ASSUME FileSetInv, Sane, Outcome, NEW t \in Transactions, Orphaned \/ InHand(t)
    PROVE  \/ Orphaned' \/ InHand(t)'
           \/ Ready \/ Commits
           \/ Drops /\ t = ws.tx /\ ws'.tx = t
           \/ Reprepares /\ t = ws.tx
<1>t. Workspace /\ Callers /\ ws.tx \in Transactions \cup {0}
  BY DEF FileSetInv, FileTypes, IsWorkspace, Sessions
<1> USE DEF Orphaned, InHand, At, Publishing, Steady, WsSame, WsIs
<1>1. CASE Strolls \/ Recalls
  BY <1>t, <1>1 DEF Strolls, Moves, Recalls, Turns, Apart
<1>2. CASE Clears \/ Abandons \/ Planned \/ LeavesBehind
  <2>1. ~indeterminate /\ pc.at \notin Publishing \cup {"boot"}
    BY <1>t, <1>2 DEF Clears, Forgets, Abandons, Planned, LeavesBehind, Workspace, Working
  <2> QED BY <2>1
<1>3. CASE GivesUp \/ Drops
  BY <1>t, <1>3 DEF GivesUp, Drops
<1>4. CASE Begins \/ Renames
  BY <1>t, <1>4 DEF Begins, Renames, WritesNext, PcIs, Workspace, Working
<1>5. CASE Temps \/ Swaps \/ Unlinks \/ Proceeds
  BY <1>t, <1>5 DEF Temps, Swaps, Unlinks, Proceeds, PcIs
<1>6. CASE HandsOff
  BY <1>t, <1>6 DEF HandsOff
<1>7. CASE Recovers
  BY <1>7, RecoversWithin DEF Within
<1>8. CASE Finishes
  <2>1. ~indeterminate /\ pc.at \notin Publishing \cup {"boot"}
    BY <1>t, <1>8 DEF Finishes, Workspace
  <2> QED BY <2>1
<1>9. CASE Reprepares \/ StaysOpen
  BY <1>t, <1>9 DEF Reprepares, StaysOpen
<1>10. CASE Scans \/ Scanned
  BY <1>t, <1>10 DEF Scans, Scanned, ScanIs
<1>11. CASE Again
  BY <1>t, <1>11 DEF Again, ScanIs
<1>12. CASE Reloads \/ Dies
  BY <1>t, <1>12 DEF Reloads, Dies, ScanIs
<1>13. CASE Unseen \/ Takes
  BY <1>t, <1>13 DEF Unseen, Takes, Apart
<1> QED BY <1>1, <1>2, <1>3, <1>4, <1>5, <1>6, <1>7, <1>8, <1>9, <1>10, <1>11, <1>12, <1>13
         DEF Outcome, Prepares, Publishes, Returned, Surroundings

\* A set that is torn after a step that only hides files was torn before it.
LEMMA TornBefore ==
    ASSUME FileSetInv, Outcome, Undisturbed', NEW t \in Transactions, Torn(t)'
    PROVE  \/ Torn(t) /\ Visible(t)' \subseteq Visible(t)
           \/ Renames /\ t = ws.tx /\ ws'.tx = t
           \/ HandsOff /\ t = ws.tx
<1>1. Untaken' /\ Untaken /\ ~Takes
  BY UndisturbedBefore, UntakenBefore
<1>2. CASE Visible(t)' = Visible(t)
  BY <1>2 DEF Torn
<1>3. CASE TakesBack /\ t = rec.tx /\ Visible(t)' \subseteq Visible(t)
  <2>1. Visible(t) # Entries
    BY <1>1, <1>3 DEF FileSetInv, Recovering, LeftComplete, TakesBack, Rolls
  <2> QED BY <1>3, <2>1 DEF Torn
<1> QED BY <1>1, <1>2, <1>3, VisibleSteps

\* Its manifest stays.
LEMMA TornMarked ==
    ASSUME FileSetInv, Sane, Outcome, OnDisk', OpenMarked', Undisturbed', NEW t \in Transactions, Torn(t)'
    PROVE  disk'[t].manifest.some
<1>t. Whole /\ TakenBack /\ LeftComplete /\ OpenMarked /\ Workspace /\ OnDisk /\ Progress /\ pc.what \in Whats
  BY DEF FileSetInv, FileTypes, IsControl, Sessions, Recovering, LastToGo
<1>1. Undisturbed /\ Untaken
  BY UndisturbedBefore, UndisturbedIs
<1>2. CASE Renames /\ t = ws.tx /\ ws'.tx = t
  <2>1. disk'[t].manifest = disk[t].manifest
    BY <1>2 DEF Renames
  <2>2. disk[t].manifest.some
    BY <1>t, <1>2 DEF Renames, WritesNext, OnDisk, Progress, Begun, Publishing, At
  <2> QED BY <2>1, <2>2
<1>3. CASE HandsOff /\ t = ws.tx
  <2>1. disk[t].manifest.some
    BY <1>t, <1>1, <1>3 DEF HandsOff, OpenMarked, Workspace, At
  <2> QED BY <1>3, <2>1 DEF HandsOff, Loses
<1>4. CASE Torn(t)
  <2>1. disk[t].manifest.some
    BY <1>t, <1>1, <1>4 DEF Whole
  <2>2. CASE Store
    BY <2>1, <2>2 DEF Store, SameTx
  <2>3. CASE Planned
    <3>1. t # made + 1
      BY <2>1, MadeNext
    <3> QED BY <2>1, <2>3, <3>1 DEF Planned, Others, SameTx
  <2>4. CASE Renames
    BY <2>1, <2>4 DEF Renames, Others, SameTx
  <2>5. CASE Swaps
    <3>1. ws.manifest.some
      BY <1>t, <2>5 DEF Swaps, Progress, Written, Upto, Begun, Whats, At
    <3> QED BY <2>1, <2>5, <3>1 DEF Swaps, Others, SameTx
  <2>6. CASE Unmarks
    <3>1. t # rec.tx
      BY <1>t, <1>1, <1>4, <2>6 DEF Unmarks, Steps, LeftComplete, TakenBack, Careful, Torn
    <3> QED BY <2>1, <2>6, <3>1 DEF Unmarks, Others, SameTx
  <2>7. ASSUME NEW u \in Transactions, NEW i \in Entries, Loses(u, i) PROVE disk'[t].manifest.some
    BY <2>1, <2>7 DEF Loses, Others, SameTx
  <2> QED BY <2>2, <2>3, <2>4, <2>5, <2>6, <2>7, StoreOrOne
<1> QED BY <1>2, <1>3, <1>4, TornBefore

\* A set that is torn has its manifest and somebody who looks after it.
LEMMA WholeKept ==
    ASSUME FileSetInv, Sane, Outcome, OnDisk', Unpublished', Recovering', Committed', Workspace'
    PROVE  Whole'
<1>t. /\ Whole /\ TakenBack /\ Traces /\ Workspace /\ Callers /\ ws.tx \in Transactions \cup {0}
      /\ TakenBack' /\ LeftComplete' /\ MarksKept' /\ OpenMarked'
  BY DEF FileSetInv, FileTypes, IsWorkspace, Sessions, Recovering, LastToGo
<1>1. SUFFICES ASSUME Undisturbed', NEW t \in Transactions, Torn(t)'
               PROVE  /\ disk'[t].manifest.some
                      /\ Orphaned' \/ InHand(t)'
                      /\ pc'.at = "boot" => t \notin scan'.seen \/ (rec'.step \notin {"none", "done"} /\ rec'.tx = t)
  BY DEF Whole, At
<1>2. disk'[t].manifest.some
  BY <1>t, <1>1, TornMarked
<1>3. Undisturbed /\ Untaken /\ Untaken' /\ Unfailed'
  BY <1>1, UndisturbedBefore, UndisturbedIs
<1>4. CASE Renames /\ t = ws.tx /\ ws'.tx = t
  BY <1>2, <1>4 DEF Renames, WritesNext, PcIs, InHand, Publishing
<1>5. CASE HandsOff /\ t = ws.tx
  BY <1>t, <1>2, <1>5 DEF HandsOff, Steady, WsSame, WsIs, InHand, Workspace
<1>6. CASE Torn(t) /\ Visible(t)' \subseteq Visible(t)
  <2>1. /\ Orphaned \/ InHand(t)
        /\ pc.at = "boot" => t \notin scan.seen \/ (rec.step \notin {"none", "done"} /\ rec.tx = t)
        /\ disk[t].manifest.some
    BY <1>t, <1>3, <1>6 DEF Whole, At
  <2>2. ~Ready
    BY <1>t, <2>1 DEF Ready, Traces
  <2>3. ~Commits
    <3>1. SUFFICES ASSUME Commits PROVE FALSE
      OBVIOUS
    <3>2. t = ws.tx
      BY <2>1, <3>1 DEF Commits, Orphaned, InHand, At
    <3>3. t \in committed'
      BY <3>1, <3>2 DEF Commits
    <3> QED BY <1>1, <1>3, <3>3 DEF Committed, Torn
  <2>4. ~(Drops /\ t = ws.tx /\ ws'.tx = t)
    BY <1>1 DEF Drops, Unpublished, Torn
  <2>5. ~(Reprepares /\ t = ws.tx)
    BY <1>t, <1>6 DEF Reprepares, Callers, Returns, TakenBack, Torn
  <2>6. Orphaned' \/ InHand(t)'
    BY <2>1, <2>2, <2>3, <2>4, <2>5, LookedAfter
  <2>7. ASSUME pc'.at = "boot" PROVE t \notin scan'.seen \/ (rec'.step \notin {"none", "done"} /\ rec'.tx = t)
    <3>1. CASE Reloads \/ Dies \/ Again
      BY <3>1 DEF Reloads, Dies, Again, ScanIs
    <3>2. CASE Scans
      BY <2>1, <3>2 DEF Scans, ScanIs, Looking, RecIs
    <3>3. CASE Scanned
      BY <2>1, <3>3 DEF Scanned, ScanIs
    <3>4. CASE Unseen \/ Takes
      BY <2>1, <2>7, <3>4 DEF Unseen, Takes, Apart
    <3>5. CASE Recovers
      <4>1. pc.at = "boot" /\ scan' = scan /\ rec'.tx = rec.tx /\ rec'.step # "none"
        BY <2>7, <3>5, RecoversWithin DEF Within
      <4>2. rec'.step = "done" => rec'.outcome \in {"error", "complete", "pending", "rolledBack"}
        BY <3>5 DEF Recovers, Reads, Rechecks, Tidies, Unmarks, TakesBack, SkipsPartial, SkipsStaged, Settles,
                    Ending, Breaks, Rolls, Closes, Steps, RecIs
      <4>3. rec'.step = "done" => rec'.tx # t
        BY <1>t, <1>1, <1>3, <2>7, <4>2 DEF TakenBack, LeftComplete, MarksKept, Torn, At
      <4> QED BY <2>1, <4>1, <4>3
    <3>6. Reloads \/ Dies \/ Again \/ Scans \/ Scanned \/ Unseen \/ Takes \/ Recovers
      BY <2>7
         DEF Outcome, Prepares, Publishes, Returned, Surroundings, Strolls, Moves, Recalls, Turns, Clears, Forgets,
             Abandons, Planned, LeavesBehind, GivesUp, Drops, Begins, Renames, Temps, Swaps, Unlinks, Proceeds,
             Commits, HandsOff, WritesNext, PcIs, Finishes, Reprepares, StaysOpen, Ready
    <3> QED BY <3>1, <3>2, <3>3, <3>4, <3>5, <3>6
  <2> QED BY <1>2, <2>6, <2>7
<1> QED BY <1>1, <1>4, <1>5, <1>6, TornBefore

-----------------------------------------------------------------------------
(* The audio.                                                              *)

\* A transaction gets its range when it is made, and keeps it.
LEMMA RangeSteps ==
    ASSUME FileSetInv, Outcome, NEW t \in Transactions
    PROVE  \/ disk'[t].range = disk[t].range
           \/ /\ Planned /\ t = made + 1 /\ disk'[t].range = range /\ range' = range
              /\ Visible(t)' = {} /\ made' = made + 1
<1>1. CASE Store
  BY <1>1 DEF Store, SameTx
<1>2. CASE Planned
  <2>1. /\ made' = made + 1 /\ range' = range /\ disk'[made + 1].range = range
        /\ ws'.tx = made + 1 /\ Visible(ws.tx)' = {}
    BY <1>2 DEF Planned, Advances, WsIs
  <2>2. CASE t = made + 1
    BY <1>2, <2>1, <2>2
  <2> QED BY <1>2, <2>2 DEF Planned, Others, SameTx
<1>3. CASE Renames \/ Swaps
  BY <1>3 DEF Renames, Swaps, Others, SameTx
<1>4. CASE Unmarks
  BY <1>4 DEF Unmarks, Others, SameTx
<1>5. ASSUME NEW u \in Transactions, NEW i \in Entries, Loses(u, i) PROVE disk'[t].range = disk[t].range
  BY <1>5 DEF Loses, Others, SameTx
<1> QED BY <1>1, <1>2, <1>3, <1>4, <1>5, StoreOrOne

\* The audio of the frozen range is visible only as the publication in hand.
LEMMA AudioKept ==
    ASSUME FileSetInv, Sane, Outcome, Unpublished', Workspace'
    PROVE  Audio'
<1>t. /\ Audio /\ TakenBack /\ Workspace /\ Callers /\ ws.tx \in Transactions \cup {0}
      /\ made \in Nat /\ range \in Nat /\ IsStore(disk) /\ \A t \in Transactions : disk[t].range \in Nat
  BY DEF FileSetInv, FileTypes, IsWorkspace, Sessions, Recovering, IsStore, IsDisk
<1>g. made' \in Nat /\ made <= made' /\ (range' = range \/ range' = range + 1)
  BY MadeGrows
<1>v. ASSUME NEW t \in Transactions, Visible(t)' # {}
      PROVE  /\ Visible(t) # {} \/ (Renames /\ t = ws.tx /\ ws'.tx = t)
             /\ disk'[t].range = disk[t].range
  BY <1>v, VisibleSteps, RangeSteps
<1>1. ASSUME NEW t \in Transactions, Visible(t)' # {}, disk'[t].range = range'
      PROVE  Orphaned' \/ InHand(t)'
  <2>1. disk[t].range = range /\ range' = range
    <3>1. disk[t].range <= range /\ disk'[t].range = disk[t].range
      BY <1>t, <1>1, <1>v DEF Audio
    <3> QED BY <1>t, <1>g, <1>1, <3>1
  <2>2. CASE Renames /\ t = ws.tx /\ ws'.tx = t
    BY <2>2 DEF Renames, WritesNext, PcIs, InHand, Publishing
  <2>3. CASE Visible(t) # {}
    <3>1. Orphaned \/ InHand(t)
      BY <1>t, <2>1, <2>3 DEF Audio
    <3>2. ~Ready /\ ~Commits
      <4>1. range' # range + 1
        BY <1>t, <2>1
      <4> QED BY <4>1 DEF Ready, Commits
    <3>3. ~(Drops /\ t = ws.tx /\ ws'.tx = t)
      BY <1>1 DEF Drops, Unpublished
    <3>4. ~(Reprepares /\ t = ws.tx)
      BY <1>t, <2>3 DEF Reprepares, Callers, Returns, TakenBack
    <3> QED BY <3>1, <3>2, <3>3, <3>4, LookedAfter
  <2> QED BY <1>1, <1>v, <2>2, <2>3
<1>2. ASSUME NEW t \in Transactions
      PROVE  disk'[t].range <= range' /\ (t > made' => disk'[t].range = 0)
  <2>0. t \in Nat
    BY Bounds
  <2>1. disk[t].range <= range /\ (t > made => disk[t].range = 0) /\ disk[t].range \in Nat
    BY <1>t DEF Audio
  <2>2. CASE disk'[t].range = disk[t].range
    BY <1>t, <1>g, <2>0, <2>1, <2>2
  <2>3. CASE t = made + 1 /\ disk'[t].range = range /\ range' = range /\ made' = made + 1
    BY <1>t, <2>3
  <2> QED BY <2>2, <2>3, RangeSteps
<1>3. ASSUME NEW t \in Transactions, NEW u \in Transactions, t # u,
             disk'[t].range = disk'[u].range, Visible(t)' # {}, Visible(u)' # {}
      PROVE  FALSE
  <2>1. disk[t].range = disk[u].range
    BY <1>3, <1>v
  <2>2. CASE Visible(t) # {} /\ Visible(u) # {}
    BY <1>t, <1>3, <2>1, <2>2 DEF Audio, SameAudioOnce
  <2>3. ASSUME NEW x \in Transactions, NEW y \in Transactions, x # y, disk[x].range = disk[y].range,
               Renames, x = ws.tx, Visible(y) # {}
        PROVE  FALSE
    <3>1. pc.at = "rename" /\ disk[y].range = range
      BY <1>t, <2>3 DEF Renames, WritesNext, Audio, Working, Publishing
    <3>2. Orphaned \/ InHand(y)
      BY <1>t, <2>3, <3>1 DEF Audio
    <3> QED BY <2>3, <3>1, <3>2 DEF Orphaned, InHand, At
  <2> QED BY <1>3, <1>v, <2>1, <2>2, <2>3
<1>4. ASSUME pc'.at \in Working PROVE disk'[ws'.tx].range = range'
  <2>1. CASE Planned
    BY <2>1 DEF Planned, WsIs, Advances
  <2>2. CASE ~Planned
    <3>1. ~Clears
      BY <1>4 DEF Clears, Forgets, Working, Publishing
    <3>2. /\ ws'.tx = ws.tx /\ range' = range /\ pc.at \in Working
      BY <1>4, <2>2, <3>1, UnderwayOrNot
         DEF Underway, Strolls, Moves, Drops, Begins, Renames, Temps, Swaps, Unlinks, Proceeds, Unseen, Takes,
             WritesNext, Steady, WsSame, WsIs, Books, Working, Publishing
    <3>3. ws.tx \in Transactions /\ disk[ws.tx].range = range
      BY <1>t, <3>2 DEF Workspace, Audio
    <3>4. disk'[ws.tx].range = disk[ws.tx].range
      BY <2>2, <3>3, RangeSteps
    <3> QED BY <3>2, <3>3, <3>4
  <2> QED BY <2>1, <2>2
<1>5. SameAudioOnce'
  BY <1>3 DEF SameAudioOnce
<1> QED BY <1>1, <1>2, <1>4, <1>5 DEF Audio

-----------------------------------------------------------------------------
(* The theorems.                                                           *)

\* Every step preserves the invariant.
LEMMA InvKept ==
    ASSUME FileSetInv, [Next]_vars
    PROVE  FileSetInv'
<1>1. Sane /\ Outcome
  BY StepEffect
<1>2. ManifestValid' /\ Progress' /\ Placed' /\ Traces'
  BY <1>1, ManifestValidKept, ProgressKept, PlacedKept, TracesKept
<1>3. Workspace' /\ Callers'
  BY <1>1, WorkspaceKept, CallersKept
<1>4. OnDisk' /\ Unpublished'
  BY <1>1, <1>2, <1>3, OnDiskKept, UnpublishedKept
<1>5. Recovering' /\ Committed'
  BY <1>1, RecoveringKept, CommittedKept
<1>6. Whole' /\ Audio'
  BY <1>1, <1>3, <1>4, <1>5, WholeKept, AudioKept
<1> QED BY <1>1, <1>2, <1>3, <1>4, <1>5, <1>6 DEF FileSetInv, Sane, Sessions

\* The inductive invariant: how far a publication is according to its manifest, what its
\* recovery has done, and who looks after a set of which only a part is visible.
THEOREM FileSetInvariant == Spec => []FileSetInv
<1>1. Init => FileSetInv
  BY InitInv
<1>2. FileSetInv /\ [Next]_vars => FileSetInv'
  BY InvKept
<1> QED BY <1>1, <1>2, PTL DEF Spec

\* ManifestValid.  Every manifest that a death or an error of the publication can leave
\* behind passes validate_phase_state: publish_recall_inner records its steps in an order
\* in which each of them is a state the recovery accepts.
THEOREM ManifestAlwaysValid == Spec => []ManifestValid
<1>1. FileSetInv => ManifestValid
  BY DEF FileSetInv
<1> QED BY <1>1, FileSetInvariant, PTL

\* SetWhole.  Unless an operation of a recovery has failed or the user has moved a file
\* away, the sets are complete or absent whenever the daemon is at rest, and the set whose
\* response is delivered is complete.
THEOREM SetAlwaysWhole == Spec => []SetWhole
<1>1. ASSUME FileSetInv PROVE SetWhole
  <2>t. Whole /\ Committed /\ Workspace
    BY <1>1 DEF FileSetInv, Sessions
  <2>1. SUFFICES ASSUME Undisturbed PROVE NoTornSet /\ CommitVisible
    BY DEF SetWhole
  <2>2. NoTornSet
    BY <2>t, <2>1 DEF Whole, Torn, Orphaned, InHand, NoTornSet, At, Publishing
  <2>3. CommitVisible
    BY <2>t, <2>1, UndisturbedIs DEF Committed, Workspace, CommitVisible, At
  <2> QED BY <2>2, <2>3
<1> QED BY <1>1, FileSetInvariant, PTL

\* SameAudioOnce.  The audio of one frozen range is never visible under two sets of names:
\* recover_indeterminate_publication lets prepare go on only when the earlier attempt is
\* gone.
THEOREM AudioOnlyOnce == Spec => []SameAudioOnce
<1>1. FileSetInv => SameAudioOnce
  BY DEF FileSetInv, Audio
<1> QED BY <1>1, FileSetInvariant, PTL

\* CommittedStays.  No step removes a file of a set that was committed, as long as the
\* user has moved nothing away.
THEOREM CommittedNeverRemoved == Spec => CommittedStays
<1>1. ASSUME FileSetInv, FileSetInv', [Next]_vars, NEW t \in committed
      PROVE  Visible(t) \subseteq Visible(t)' \/ budget'.taken < MaxTaken
  <2>1. CASE Untaken'
    BY <1>1, <2>1, StepEffect, CommittedUntouched
  <2>2. CASE ~Untaken'
    <3>1. budget'.taken \in Int /\ budget'.taken <= MaxTaken /\ MaxTaken \in Nat
      BY <1>1, Bounds DEF FileSetInv, FileTypes, IsBudget
    <3>2. budget'.taken # MaxTaken
      BY <2>2 DEF Untaken
    <3> QED BY <3>1, <3>2
  <2> QED BY <2>1, <2>2
<1>2. FileSetInv /\ FileSetInv' /\ [Next]_vars =>
        [\A t \in committed : Visible(t) \subseteq Visible(t)' \/ budget'.taken < MaxTaken]_vars
  BY <1>1
<1> QED BY <1>2, FileSetInvariant, PTL DEF Spec, CommittedStays

-----------------------------------------------------------------------------
(* What is not ours.                                                       *)

Keeps ==
    /\ \A g \in Groups, i \in Entries : final[g][i] = Foreign => final'[g][i] = Foreign
    /\ \A g \in Groups : folder[g] = Foreign => folder'[g] = Foreign

\* A name that holds nobody else's file gets another holder.
LEMMA NameChanged ==
    ASSUME IsFinal(final), NEW g \in Groups, NEW i \in Entries, NEW x, final[g][i] # Foreign \/ x = Foreign,
           final' = [final EXCEPT ![g][i] = x], UNCHANGED folder
    PROVE  Keeps
  BY DEF Keeps, IsFinal

\* A folder that is nobody else's gets another owner.
LEMMA FolderChanged ==
    ASSUME DOMAIN folder = Groups, NEW g \in Groups, NEW x, folder[g] # Foreign \/ x = Foreign,
           folder' = [folder EXCEPT ![g] = x], UNCHANGED final
    PROVE  Keeps
  BY DEF Keeps

\* No step touches what is not ours.
LEMMA ForeignUntouched ==
    ASSUME FileSetInv, Next
    PROVE  Keeps
<1>t. /\ IsFinal(final) /\ DOMAIN folder = Groups
      /\ pc.at \in {"rename", "mkdir", "artifact"} => ws.tx \in Transactions
      /\ rec.step # "none" => rec.tx \in Transactions
      /\ \A t \in Transactions : disk[t].group \in Groups
      /\ pc.entry \in Entries /\ rec.entry \in Entries /\ ws.artifact.entry \in Entries
  BY DEF FileSetInv, FileTypes, IsWorkspace, IsRecovery, IsControl, IsStore, IsDisk, Sessions, Workspace, Callers,
         Working, Publishing
<1>n. Absent # Foreign /\ Foreign \notin Transactions
  BY Bounds
<1>u. UNCHANGED <<final, folder>> => Keeps
  BY DEF Keeps
<1>1. CASE StartPersist \/ Resolve \/ Prepare \/ Plan \/ Stream \/ DropTransaction
  BY <1>1, <1>u DEF StartPersist, Resolve, Prepare, Plan, Stream, DropTransaction, disks
<1>2. CASE Preflight \/ WriteTemp \/ WriteSwap \/ WriteUnlink \/ WriteSync \/ BeginEntry \/ CopyPartial
  BY <1>2, <1>u DEF Preflight, WriteTemp, WriteSwap, WriteUnlink, WriteSync, BeginEntry, CopyPartial, disks
<1>3. CASE SyncFinals \/ Verify \/ Deliver
  BY <1>3, <1>u DEF SyncFinals, Verify, Deliver, disks
<1>4. CASE MakeFolder
  BY <1>4, <1>t, <1>n, <1>u, FolderChanged DEF MakeFolder, At
<1>5. CASE RenameFinal
  BY <1>5, <1>t, <1>n, <1>u, NameChanged DEF RenameFinal, At
<1>6. CASE Handoff
  <2>1. ws.tx \in Transactions /\ ArtifactGroup \in Groups /\ UNCHANGED folder
    BY <1>6, <1>t DEF Handoff, InStage, At, ArtifactGroup
  <2>2. \/ UNCHANGED final
        \/ /\ final[ArtifactGroup][ws.artifact.entry] = ws.tx
           /\ final' = [final EXCEPT ![ArtifactGroup][ws.artifact.entry] = Absent]
    BY <1>6 DEF Handoff, PublicOwner
  <2> QED BY <1>t, <1>n, <1>u, <2>1, <2>2, NameChanged
<1>7. CASE MakeQuarantine \/ UnlinkHeld \/ RemoveQuarantine \/ ArtifactResolved \/ ArtifactFails
  BY <1>7, <1>u DEF MakeQuarantine, UnlinkHeld, RemoveQuarantine, ArtifactResolved, ArtifactFails, disks
<1>8. CASE ReadManifest \/ RecoverSync \/ TidyStaged \/ TidyManifest \/ TidyDir
  BY <1>8, <1>u DEF ReadManifest, RecoverSync, TidyStaged, TidyManifest, TidyDir, disks
<1>9. CASE RollBackFinal
  <2>1. rec.tx \in Transactions /\ disk[rec.tx].group \in Groups /\ UNCHANGED folder
    BY <1>9, <1>t DEF RollBackFinal
  <2>2. CASE UNCHANGED final
    BY <2>1, <2>2, <1>u
  <2>3. CASE final' = [final EXCEPT ![disk[rec.tx].group][rec.entry] = Removed(@, rec.tx)]
    <3>1. final[disk[rec.tx].group][rec.entry] = Foreign =>
            Removed(final[disk[rec.tx].group][rec.entry], rec.tx) = Foreign
      BY <1>n, <2>1 DEF Removed
    <3> QED BY <1>t, <2>1, <2>3, <3>1, NameChanged
  <2> QED BY <1>9, <2>2, <2>3 DEF RollBackFinal
<1>10. CASE RollBackPartial \/ RollBackStaged \/ RemoveManifest \/ RemoveStaging \/ RecoveryFails
  BY <1>10, <1>u DEF RollBackPartial, RollBackStaged, RemoveManifest, RemoveStaging, RecoveryFails, disks
<1>11. CASE Settle
  <2>1. rec.tx \in Transactions /\ disk[rec.tx].group \in Groups /\ UNCHANGED final
    BY <1>11, <1>t DEF Settle
  <2>2. \/ UNCHANGED folder
        \/ /\ folder[disk[rec.tx].group] = rec.tx
           /\ folder' = [folder EXCEPT ![disk[rec.tx].group] = Absent]
    BY <1>11 DEF Settle
  <2> QED BY <1>t, <1>n, <1>u, <2>1, <2>2, FolderChanged
<1>12. CASE Return \/ Reload \/ Crash
  BY <1>12, <1>u DEF Return, FinishReturns, RetryReturns, ScanNext, ScanReturns, ScanEnds, Reload, Crash, disks
<1>13. ASSUME NEW g \in Groups, NEW i \in Entries, ForeignFile(g, i) \/ UserTakes(g, i)
       PROVE  Keeps
  <2>1. CASE ForeignFile(g, i)
    <3>1. \A h \in Groups, j \in Entries : final[h][j] = Foreign => final'[h][j] = Foreign
      BY <1>t, <2>1 DEF ForeignFile, IsFinal
    <3>2. \A h \in Groups : folder[h] = Foreign => folder'[h] = Foreign
      BY <1>t, <2>1 DEF ForeignFile
    <3> QED BY <3>1, <3>2 DEF Keeps
  <2>2. CASE UserTakes(g, i)
    BY <1>t, <1>n, <2>2, NameChanged DEF UserTakes
  <2> QED BY <1>13, <2>1, <2>2
<1>14. ASSUME NEW g \in Groups, ShareFolder(g) \/ ReplaceFolder(g)
       PROVE  Keeps
  BY <1>14, <1>t, <1>u, FolderChanged DEF ShareFolder, ReplaceFolder
<1> QED BY <1>1, <1>2, <1>3, <1>4, <1>5, <1>6, <1>7, <1>8, <1>9, <1>10, <1>11, <1>12, <1>13, <1>14
         DEF Next, Work, Publish, ResolveArtifact, Recover, Environment

\* ForeignKept.  No step of the daemon removes or replaces a file or a folder that it did
\* not make: finals are renamed into place without replacing, and only an object whose
\* identity is the recorded one is removed.
THEOREM ForeignAlwaysKept == Spec => ForeignKept
<1>1. FileSetInv /\ [Next]_vars => [Keeps]_vars
  BY ForeignUntouched
<1> QED BY <1>1, FileSetInvariant, PTL DEF Spec, ForeignKept, Keeps

=============================================================================
