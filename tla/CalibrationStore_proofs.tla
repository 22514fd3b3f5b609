------------------------ MODULE CalibrationStore_proofs ------------------------
(***************************************************************************)
(* What the configuration refers to is there, for any number of channels,  *)
(* calibrations, failures, deaths and edits of the configuration file.     *)
(***************************************************************************)
EXTENDS CalibrationStore, TLAPS

-----------------------------------------------------------------------------
(* Types                                                                   *)

Labels == {"idle", "mkdir", "sample", "metadata", "verify", "candidate", "save_open", "save_write",
           "save_check", "save_swap", "save_verify", "save_sync", "save_undo", "save_settle", "install",
           "remove"}
Thresholds == [Channels -> Threshold \cup {NoThreshold}]
Stored == [refs : Thresholds, edit : Nat]
File == [id : Nat, cfg : Stored]
Directory == [at : {"absent", "name", "quarantine"}, parts : SUBSET {"sample", "metadata"}]
Operation == [kind : {"none", "calibrate", "set", "reset", "startup"}, chan : Channels \cup {NoOp.chan},
              gen : Generations \cup {NoGen}, cand : Stored, old : Generations \cup {NoGen},
              prev : Nat, new : Nat]

StoreTypeOK ==
    /\ gens \in [Generations -> Directory]
    /\ target \in File /\ temp \in File
    /\ live \in Stored /\ policy \in Thresholds
    /\ pc \in Labels /\ op \in Operation /\ victims \subseteq Generations
    /\ nextGen \in Nat \ {0} /\ faults \in Nat /\ crashes \in Nat /\ edits \in Nat

-----------------------------------------------------------------------------
(* Where the operation is                                                  *)

Writing == {"sample", "metadata", "verify", "candidate"}
BeforeSwap == {"save_write", "save_check", "save_swap"}
AfterSwap == {"save_verify", "save_sync", "save_undo"}
WithCandidate == BeforeSwap \cup AfterSwap \cup {"save_open", "save_settle", "install"}

\* The daemon is down, starts, or runs one command at a time.
ModeTracked ==
    /\ pc = "idle" => op = NoOp
    /\ mode = "down" => pc = "idle" /\ live = DefaultConfig /\ policy = DefaultConfig.refs
    /\ mode = "starting" => pc = "remove" /\ op.kind = "startup"
    /\ mode \in {"down", "starting", "ready"}
    /\ op.kind = "startup" => mode = "starting"

\* A command's kind, generation and answer fit the step it is at.
CommandTracked ==
    /\ pc = "mkdir" => op.kind = "calibrate" /\ nextGen <= MaxGenerations
    /\ pc \in Writing => op.kind = "calibrate"
    /\ pc \in WithCandidate => op.kind \in {"calibrate", "set", "reset"}
    /\ op.kind = "calibrate" => op.chan \in Channels /\ (op.gen = NoGen <=> pc = "mkdir")
    /\ op.kind # "calibrate" => op.gen = NoGen
    /\ op.gen < nextGen
    /\ op.kind = "calibrate" => reported = "none" \/ (pc = "remove" /\ reported = "ok")
    /\ pc # "remove" => victims = {}

\* The generation that is being written has what was written to it.
Written ==
    /\ pc \in Writing => gens[op.gen].at = "name"
    /\ pc \in {"metadata", "verify", "candidate"} => "sample" \in gens[op.gen].parts
    /\ pc \in {"verify", "candidate"} => "metadata" \in gens[op.gen].parts

-----------------------------------------------------------------------------
(* What thresholds refer to                                                *)

Whole(d) == d.at = "name" /\ d.parts = {"sample", "metadata"}

\* Every generation the thresholds refer to is complete and was made, and no two
\* channels share one.
Good(refs, gs, next) ==
    /\ \A c \in Channels : refs[c].gen # NoGen => Whole(gs[refs[c].gen]) /\ refs[c].gen < next
    /\ \A c, d \in Channels : refs[c].gen # NoGen /\ refs[c].gen = refs[d].gen => c = d

Without(refs, g) == \A c \in Channels : refs[c].gen # g

\* The file, the memory, the candidate and the file that was exchanged for it.
Kept ==
    /\ Good(target.cfg.refs, gens, nextGen)
    /\ Good(live.refs, gens, nextGen)
    /\ pc \in WithCandidate => Good(op.cand.refs, gens, nextGen)
    /\ pc \in AfterSwap => Good(temp.cfg.refs, gens, nextGen)
    /\ \A c \in Channels : policy[c].gen \in {NoGen, live.refs[c].gen}

\* The new generation is referred to by the candidate only, until the exchange
\* puts the candidate under the name and the installation into memory.
Unpublished ==
    /\ op.gen # NoGen /\ ~(pc = "remove" /\ reported = "ok") => Without(live.refs, op.gen)
    /\ op.gen # NoGen /\ pc \notin AfterSwap \cup {"install"} /\ ~(pc = "remove" /\ reported = "ok") =>
         Without(target.cfg.refs, op.gen)
    /\ op.gen # NoGen /\ pc \in AfterSwap => Without(temp.cfg.refs, op.gen)

\* Before the exchange the temporary file is the candidate; after it the file
\* under the name is, unless its user changed or removed it.
Exchanged ==
    /\ pc \in BeforeSwap => temp.cfg = op.cand
    /\ pc \in AfterSwap \cup {"install"} =>
         /\ target.cfg.refs \in {op.cand.refs, DefaultConfig.refs}
         /\ edits = 0 => target.cfg = op.cand

\* A cleanup removes nothing that anybody refers to; the generation a calibration
\* supersedes is not in its candidate.
Superseded ==
    /\ pc \in WithCandidate /\ op.old # NoGen => Without(op.cand.refs, op.old)
    /\ \A g \in victims : Without(target.cfg.refs, g) /\ Without(live.refs, g)

\* Until a disk operation fails, a startup has every orphan among its victims.
Orphan(g) == gens[g].at # "absent" /\ Without(live.refs, g)
Reconciling ==
    /\ swept => mode = "ready" /\ pc = "idle" /\ \A g \in Generations : ~Orphan(g)
    /\ mode = "starting" => op.prev <= faults
    /\ mode = "starting" /\ faults = op.prev /\ op.new # 0 => \A g \in Generations : Orphan(g) => g \in victims

StoreInv ==
    /\ StoreTypeOK /\ ModeTracked /\ CommandTracked /\ Written
    /\ Kept /\ Unpublished /\ Exchanged /\ Superseded /\ Reconciling

-----------------------------------------------------------------------------
(* Lemmas about thresholds                                                 *)

(* A number of a file that is not in use exists: there are four and two in use. *)
LEMMA FreshIdType == FreshId \in 1 .. 4
<1>1. \E i \in 1 .. 4 : /\ i \notin {target.id, temp.id}
                        /\ \A j \in 1 .. 4 : j < i => j \in {target.id, temp.id}
  OBVIOUS
<1> QED BY <1>1 DEF FreshId

(* The default configuration is a configuration, and no operation is an operation. *)
LEMMA DefaultTypes ==
    /\ DefaultConfig \in Stored /\ DefaultConfig.refs \in Thresholds
    /\ NoFile \in File /\ NoFile.cfg = DefaultConfig
    /\ NoOp \in Operation /\ NoOp.gen = NoGen /\ NoOp.kind = "none" /\ NoOp.old = NoGen
    /\ \A c \in Channels : DefaultConfig.refs[c].gen = NoGen
<1>1. DefaultConfig.refs \in Thresholds /\ DefaultConfig \in Stored
  BY DEF DefaultConfig, Stored, Thresholds
<1>2. NoFile \in File /\ NoFile.cfg = DefaultConfig
  BY <1>1 DEF NoFile, File
<1>3. NoOp \in Operation /\ NoOp.gen = NoGen /\ NoOp.kind = "none" /\ NoOp.old = NoGen
  BY <1>1 DEF NoOp, Operation
<1>4. \A c \in Channels : DefaultConfig.refs[c].gen = NoGen
  BY DEF DefaultConfig, NoThreshold
<1> QED BY <1>1, <1>2, <1>3, <1>4

(* What a threshold refers to is a generation or nothing. *)
LEMMA RefType ==
    ASSUME NEW refs \in Thresholds, NEW c \in Channels
    PROVE  refs[c].gen \in Generations \cup {NoGen}
BY DEF Thresholds, Threshold, NoThreshold

(* The default configuration refers to nothing. *)
LEMMA GoodDefault ==
    ASSUME NEW gs, NEW n
    PROVE  Good(DefaultConfig.refs, gs, n)
BY DefaultTypes DEF Good

(* Generations that the thresholds do not refer to may change, and new ones come. *)
LEMMA GoodGrows ==
    ASSUME NEW refs \in Thresholds, NEW gs, NEW hs, NEW n \in Nat, NEW m \in Nat,
           Good(refs, gs, n), n <= m,
           \A g \in Generations : hs[g] = gs[g] \/ Without(refs, g)
    PROVE  Good(refs, hs, m)
<1>1. \A c \in Channels : refs[c].gen # NoGen => Whole(hs[refs[c].gen]) /\ refs[c].gen < m
  <2> TAKE c \in Channels
  <2> HAVE refs[c].gen # NoGen
  <2>1. refs[c].gen \in Generations /\ refs[c].gen \in Nat
    BY RefType, StoreAssumption DEF Generations
  <2>2. hs[refs[c].gen] = gs[refs[c].gen]
    BY <2>1 DEF Without
  <2> QED BY <2>1, <2>2 DEF Good
<1> QED BY <1>1 DEF Good

(* A channel gets a complete generation that nothing refers to yet. *)
LEMMA GoodNew ==
    ASSUME NEW refs \in Thresholds, NEW gs, NEW n, NEW c \in Channels, NEW g,
           Good(refs, gs, n), Without(refs, g), Whole(gs[g]), g < n
    PROVE  Good([refs EXCEPT ![c] = [source |-> "calibrated", gen |-> g]], gs, n)
<1> DEFINE new == [refs EXCEPT ![c] = [source |-> "calibrated", gen |-> g]]
<1>1. new[c].gen = g /\ \A d \in Channels \ {c} : new[d] = refs[d]
  BY DEF Thresholds
<1> HIDE DEF new
<1>2. Good(new, gs, n)
  BY <1>1 DEF Good, Without
<1> QED BY <1>2 DEF new

(* A channel keeps its generation or refers to none any more. *)
LEMMA GoodLess ==
    ASSUME NEW refs \in Thresholds, NEW gs, NEW n, NEW c \in Channels, NEW t,
           Good(refs, gs, n), t.gen \in {NoGen, refs[c].gen}
    PROVE  Good([refs EXCEPT ![c] = t], gs, n)
<1> DEFINE new == [refs EXCEPT ![c] = t]
<1>1. new[c] = t /\ \A d \in Channels \ {c} : new[d] = refs[d]
  BY DEF Thresholds
<1> HIDE DEF new
<1>2. Good(new, gs, n)
  BY <1>1 DEF Good
<1> QED BY <1>2 DEF new

(* References are the generations the thresholds are not without. *)
LEMMA ReferencesAre ==
    ASSUME NEW cfg, NEW g, g # NoGen
    PROVE  g \in References(cfg) <=> ~Without(cfg.refs, g)
BY DEF References, Without

(* What is effective refers to what is configured, or to nothing. *)
LEMMA EffectiveAre ==
    ASSUME NEW cfg \in Stored
    PROVE  /\ Effective(cfg) \in Thresholds
           /\ \A c \in Channels : Effective(cfg)[c].gen \in {NoGen, cfg.refs[c].gen}
BY DEF Effective, Stored, Thresholds, NoThreshold

-----------------------------------------------------------------------------
(* The commands up to the candidate                                        *)

(* The invariant holds before the first start. *)
LEMMA StoreStarts == StoreInit => StoreInv
<1> SUFFICES ASSUME StoreInit PROVE StoreInv
  OBVIOUS
<1> USE DefaultTypes DEF StoreInit
<1>1. StoreTypeOK
  <2>1. gens \in [Generations -> Directory]
    BY DEF Directory
  <2>2. target \in File /\ temp \in File
    BY DEF File
  <2> QED BY <2>1, <2>2 DEF StoreTypeOK, Labels
<1>2. ModeTracked /\ CommandTracked /\ Written
  BY DEF ModeTracked, CommandTracked, Written, Writing, WithCandidate, BeforeSwap, AfterSwap, NoGen
<1>3. target.cfg = DefaultConfig
  OBVIOUS
<1>4. Kept
  BY <1>3, GoodDefault DEF Kept, WithCandidate, BeforeSwap, AfterSwap
<1>5. Unpublished /\ Exchanged /\ Superseded /\ Reconciling
  BY DEF Unpublished, Exchanged, Superseded, Reconciling, WithCandidate, BeforeSwap, AfterSwap
<1> QED BY <1>1, <1>2, <1>4, <1>5 DEF StoreInv

(* While a command is under way the daemon is ready and has not just been swept. *)
LEMMA CommandsAreReady ==
    ASSUME StoreInv, pc \in Labels \ {"idle", "remove"}
    PROVE  mode = "ready" /\ ~swept /\ victims = {} /\ op.kind \in {"calibrate", "set", "reset"}
BY DEF StoreInv, ModeTracked, CommandTracked, Reconciling, Labels, Writing, WithCandidate, BeforeSwap,
       AfterSwap

(* calibrate_threshold_with begins. *)
LEMMA CalibrateKeeps ==
    ASSUME StoreInv, NEW c \in Channels, Calibrate(c)
    PROVE  StoreInv'
<1> USE DEF Calibrate, BeginCommand, Goto, disk, counters
<1>1. op' \in Operation /\ op'.kind = "calibrate" /\ op'.chan = c /\ op'.gen = NoGen /\ op'.old = NoGen
  BY DefaultTypes DEF Operation
<1>2. StoreTypeOK'
  BY <1>1 DEF StoreInv, StoreTypeOK, Labels
<1>3. ModeTracked' /\ CommandTracked' /\ Written'
  BY <1>1, StoreAssumption DEF StoreInv, StoreTypeOK, ModeTracked, CommandTracked, Written, Writing,
     WithCandidate, BeforeSwap, AfterSwap, NoGen
<1>4. Kept'
  BY DEF StoreInv, Kept, WithCandidate, BeforeSwap, AfterSwap
<1>5. Unpublished' /\ Exchanged' /\ Superseded' /\ Reconciling'
  BY <1>1 DEF StoreInv, Unpublished, Exchanged, Superseded, Reconciling, WithCandidate, BeforeSwap, AfterSwap
<1> QED BY <1>2, <1>3, <1>4, <1>5 DEF StoreInv

(* mutate_threshold_with up to the save: the candidate refers to less. *)
LEMMA MutateKeeps ==
    ASSUME StoreInv, NEW c \in Channels, NEW kind \in {"set", "reset"}, Mutate(kind, c)
    PROVE  StoreInv'
<1> DEFINE t == IF kind = "set" THEN [source |-> "manual", gen |-> live.refs[c].gen] ELSE NoThreshold
           refs == [live.refs EXCEPT ![c] = t]
<1>1. live \in Stored /\ live.refs \in Thresholds
  BY DEF StoreInv, StoreTypeOK, Stored
<1>2. t \in Threshold \cup {NoThreshold} /\ t.gen \in {NoGen, live.refs[c].gen}
  BY <1>1, RefType DEF Threshold, NoThreshold
<1>3. refs \in Thresholds /\ Good(refs, gens, nextGen)
  BY <1>1, <1>2, GoodLess DEF Thresholds, StoreInv, Kept
<1>4. op' = [NoOp EXCEPT !.kind = kind, !.chan = c, !.cand = [live EXCEPT !.refs[c] = t]]
  BY DEF Mutate
<1>5. [live EXCEPT !.refs[c] = t] \in Stored /\ [live EXCEPT !.refs[c] = t].refs = refs
  BY <1>1, <1>3 DEF Stored
<1> HIDE DEF t, refs
<1>6. /\ op' \in Operation /\ op'.kind = kind /\ op'.chan = c /\ op'.gen = NoGen /\ op'.old = NoGen
      /\ op'.cand.refs = refs
  BY <1>4, <1>5, DefaultTypes DEF Operation
<1> USE DEF Mutate, Goto, disk, counters
<1>7. StoreTypeOK'
  BY <1>6 DEF StoreInv, StoreTypeOK, Labels
<1>8. ModeTracked' /\ CommandTracked' /\ Written'
  BY <1>6, StoreAssumption DEF StoreInv, StoreTypeOK, ModeTracked, CommandTracked, Written, Writing,
     WithCandidate, BeforeSwap, AfterSwap, NoGen
<1>9. Kept'
  BY <1>3, <1>6 DEF StoreInv, Kept, WithCandidate, BeforeSwap, AfterSwap
<1>10. Unpublished' /\ Exchanged' /\ Superseded' /\ Reconciling'
  BY <1>6 DEF StoreInv, Unpublished, Exchanged, Superseded, Reconciling, WithCandidate, BeforeSwap, AfterSwap
<1> QED BY <1>7, <1>8, <1>9, <1>10 DEF StoreInv

(* What an answer leaves: the daemon is idle, whatever the operation was. *)
LEMMA AnswerKeeps ==
    ASSUME StoreInv, pc \in Labels \ {"idle", "remove"},
           StoreTypeOK', pc' = "idle", op' = NoOp, UNCHANGED << mode, live, policy, swept, victims >>,
           Good(target'.cfg.refs, gens', nextGen'), Good(live.refs, gens', nextGen')
    PROVE  StoreInv'
<1> USE CommandsAreReady, DefaultTypes
<1>1. ModeTracked' /\ CommandTracked' /\ Written'
  BY DEF StoreTypeOK, ModeTracked, CommandTracked, Written, Writing, WithCandidate, BeforeSwap, AfterSwap, NoGen
<1>2. Kept'
  BY DEF StoreInv, Kept, WithCandidate, BeforeSwap, AfterSwap
<1>3. Unpublished' /\ Exchanged' /\ Superseded' /\ Reconciling'
  BY DEF Unpublished, Exchanged, Superseded, Reconciling, WithCandidate, BeforeSwap, AfterSwap
<1> QED BY <1>1, <1>2, <1>3 DEF StoreInv

(* A prepared generation that nothing refers to is dropped. *)
LEMMA DropKeeps ==
    ASSUME StoreInv, pc \in Labels \ {"idle", "remove"}, op.kind = "calibrate", op.gen # NoGen,
           StoreTypeOK', pc' = "remove", victims' = {op.gen},
           UNCHANGED << op, mode, live, policy, swept, reported, nextGen >>,
           Good(target'.cfg.refs, gens', nextGen), Good(live.refs, gens', nextGen),
           Without(target'.cfg.refs, op.gen)
    PROVE  StoreInv'
<1> USE CommandsAreReady
<1>1. ModeTracked' /\ CommandTracked' /\ Written'
  BY DEF StoreInv, ModeTracked, CommandTracked, Written, Writing, WithCandidate, BeforeSwap, AfterSwap
<1>2. Kept'
  BY DEF StoreInv, Kept, WithCandidate, BeforeSwap, AfterSwap
<1>3. reported # "ok" /\ Without(live.refs, op.gen)
  BY DEF StoreInv, CommandTracked, Unpublished
<1>4. Unpublished' /\ Exchanged' /\ Superseded' /\ Reconciling'
  BY <1>3 DEF Unpublished, Exchanged, Superseded, Reconciling, WithCandidate, BeforeSwap, AfterSwap
<1> QED BY <1>1, <1>2, <1>4 DEF StoreInv

(* A number that has not been given out is referred to by nothing. *)
LEMMA NextIsNew ==
    ASSUME NEW refs \in Thresholds, NEW gs, NEW n \in Nat \ {0}, Good(refs, gs, n)
    PROVE  Without(refs, n)
BY RefType, StoreAssumption DEF Good, Without, Generations, NoGen

(* The types of what the invariant's parts are about. *)
LEMMA StoreTypes ==
    ASSUME StoreInv
    PROVE  /\ target.cfg.refs \in Thresholds /\ live.refs \in Thresholds
           /\ op.cand.refs \in Thresholds /\ temp.cfg.refs \in Thresholds
           /\ gens \in [Generations -> Directory] /\ op.gen \in Nat /\ nextGen \in Nat \ {0}
           /\ Good(target.cfg.refs, gens, nextGen) /\ Good(live.refs, gens, nextGen)
BY StoreAssumption DEF StoreInv, StoreTypeOK, File, Stored, Operation, Kept, Generations, NoGen

(* create_new_directory_at and PreparedCalibrationGeneration::new. *)
LEMMA MakeGenerationKeeps ==
    ASSUME StoreInv, MakeGeneration
    PROVE  StoreInv'
<1>1. pc = "mkdir" /\ op.kind = "calibrate" /\ op.gen = NoGen /\ nextGen \in Generations /\ reported = "none"
  BY StoreTypes, StoreAssumption DEF MakeGeneration, StoreInv, CommandTracked, Generations
<1>2. /\ nextGen' = nextGen + 1 /\ nextGen' \in Nat \ {0} /\ faults' \in Nat
      /\ gens' = gens \/ gens' = [gens EXCEPT ![nextGen].at = "name"]
      /\ UNCHANGED << target, mode, live, policy, healthy, victims, swept, crashes, edits >>
  BY StoreTypes DEF MakeGeneration, Succeeds, Fails, StoreInv, StoreTypeOK
<1>3. gens' \in [Generations -> Directory] /\ \A g \in Generations \ {nextGen} : gens'[g] = gens[g]
  BY <1>1, <1>2, StoreTypes DEF Directory
<1>4. Good(target.cfg.refs, gens', nextGen') /\ Good(live.refs, gens', nextGen')
  <2>1. Without(target.cfg.refs, nextGen) /\ Without(live.refs, nextGen)
    BY StoreTypes, NextIsNew
  <2> QED BY <2>1, <1>2, <1>3, StoreTypes, GoodGrows
<1>5. CASE op' = [op EXCEPT !.gen = nextGen] /\ gens' = [gens EXCEPT ![nextGen].at = "name"] /\ pc' = "sample"
             /\ UNCHANGED << reported, temp >>
  <2>1. op' \in Operation /\ op'.kind = "calibrate" /\ op'.gen = nextGen /\ op'.chan = op.chan
    BY <1>1, <1>5 DEF StoreInv, StoreTypeOK, Operation
  <2>2. StoreTypeOK'
    BY <1>2, <1>3, <1>5, <2>1 DEF StoreInv, StoreTypeOK, Labels
  <2>3. gens'[nextGen].at = "name"
    BY <1>1, <1>5, StoreTypes DEF Directory
  <2>4. nextGen # NoGen /\ nextGen < nextGen'
    BY <1>2, StoreTypes DEF NoGen
  <2>5. ModeTracked' /\ CommandTracked' /\ Written'
    BY <1>1, <1>2, <1>5, <2>1, <2>3, <2>4, CommandsAreReady DEF StoreInv, StoreTypeOK, ModeTracked,
       CommandTracked, Written, Writing, WithCandidate, BeforeSwap, AfterSwap
  <2>6. Kept'
    BY <1>2, <1>4, <1>5 DEF StoreInv, Kept, WithCandidate, BeforeSwap, AfterSwap
  <2>7. Unpublished'
    BY <1>2, <1>5, <2>1, StoreTypes, NextIsNew DEF Unpublished, AfterSwap
  <2>8. Exchanged' /\ Superseded' /\ Reconciling'
    BY <1>1, <1>2, <1>5, CommandsAreReady DEF StoreInv, StoreTypeOK, Exchanged, Superseded, Reconciling,
       WithCandidate, BeforeSwap, AfterSwap
  <2> QED BY <2>2, <2>5, <2>6, <2>7, <2>8 DEF StoreInv
<1>6. CASE pc' = "idle" /\ op' = NoOp /\ temp' = NoFile
  <2>1. StoreTypeOK'
    BY <1>2, <1>3, <1>6, DefaultTypes DEF StoreInv, StoreTypeOK, Labels
  <2> QED BY <1>1, <1>2, <1>4, <1>6, <2>1, AnswerKeeps DEF Labels
<1> QED BY <1>5, <1>6 DEF MakeGeneration, Answer, Goto

(* write_wav_at and write_metadata_at. *)
LEMMA WriteKeeps ==
    ASSUME StoreInv, WriteSample \/ WriteMetadata
    PROVE  StoreInv'
<1>1. PICK part \in {"sample", "metadata"} :
        /\ WritePart(part, part, IF part = "sample" THEN "metadata" ELSE "verify")
  BY DEF WriteSample, WriteMetadata
<1> DEFINE grown == [gens EXCEPT ![op.gen].parts = @ \cup {part}]
<1>2. /\ pc = part /\ faults' \in Nat /\ gens' \in {gens, grown}
      /\ UNCHANGED << target, temp, mode, live, policy, healthy, op, reported, swept, nextGen, crashes, edits >>
  BY <1>1 DEF WritePart, Succeeds, Fails, StoreInv, StoreTypeOK
<1>3. /\ op.kind = "calibrate" /\ op.gen # NoGen /\ op.gen \in Generations /\ op.gen < nextGen
      /\ Without(target.cfg.refs, op.gen) /\ Without(live.refs, op.gen)
  BY <1>2 DEF StoreInv, StoreTypeOK, Operation, CommandTracked, Unpublished, Writing, AfterSwap
<1>4. /\ gens' \in [Generations -> Directory]
      /\ \A g \in Generations \ {op.gen} : gens'[g] = gens[g]
      /\ gens'[op.gen].at = gens[op.gen].at /\ gens[op.gen].parts \subseteq gens'[op.gen].parts
      /\ gens' = grown => part \in gens'[op.gen].parts
  BY <1>2, <1>3, StoreTypes DEF Directory
<1>5. Good(target.cfg.refs, gens', nextGen) /\ Good(live.refs, gens', nextGen)
  BY <1>3, <1>4, StoreTypes, GoodGrows
<1> HIDE DEF grown
<1>6. CASE victims' = {op.gen} /\ pc' = "remove"
  <2>1. StoreTypeOK'
    BY <1>2, <1>3, <1>4, <1>6 DEF StoreInv, StoreTypeOK, Labels
  <2> QED BY <1>2, <1>3, <1>5, <1>6, <2>1, DropKeeps DEF Labels
<1>7. CASE gens' = grown /\ pc' = (IF part = "sample" THEN "metadata" ELSE "verify") /\ UNCHANGED victims
  <2>1. StoreTypeOK'
    BY <1>2, <1>4, <1>7 DEF StoreInv, StoreTypeOK, Labels
  <2>2. Written'
    BY <1>2, <1>4, <1>7 DEF StoreInv, Written, Writing
  <2>3. ModeTracked' /\ CommandTracked'
    BY <1>2, <1>3, <1>7, CommandsAreReady DEF StoreInv, StoreTypeOK, ModeTracked,
       CommandTracked, Writing, WithCandidate, BeforeSwap, AfterSwap, Labels
  <2>4. Kept'
    BY <1>2, <1>5, <1>7 DEF StoreInv, Kept, WithCandidate, BeforeSwap, AfterSwap
  <2>5. Unpublished' /\ Exchanged' /\ Superseded' /\ Reconciling'
    BY <1>2, <1>3, <1>7, CommandsAreReady DEF StoreInv, Unpublished, Exchanged, Superseded, Reconciling,
       WithCandidate, BeforeSwap, AfterSwap, Labels
  <2> QED BY <2>1, <2>2, <2>3, <2>4, <2>5 DEF StoreInv
<1> QED BY <1>1, <1>6, <1>7 DEF WritePart, DropPrepared, Goto, grown

(* verify_state_ancestry and validate_generation. *)
LEMMA VerifyKeeps ==
    ASSUME StoreInv, VerifyGeneration
    PROVE  StoreInv'
<1>1. /\ pc = "verify" /\ faults' \in Nat
      /\ UNCHANGED << gens, target, temp, mode, live, policy, healthy, op, reported, swept, nextGen, crashes,
                      edits >>
  BY DEF VerifyGeneration, Succeeds, Fails, disk, StoreInv, StoreTypeOK
<1>2. /\ op.kind = "calibrate" /\ op.gen # NoGen /\ op.gen \in Generations
      /\ Without(target.cfg.refs, op.gen) /\ Without(live.refs, op.gen)
  BY <1>1 DEF StoreInv, StoreTypeOK, Operation, CommandTracked, Unpublished, Writing, AfterSwap
<1>3. CASE pc' = "candidate" /\ UNCHANGED victims
  <2>1. StoreTypeOK'
    BY <1>1, <1>3 DEF StoreInv, StoreTypeOK, Labels
  <2>2. ModeTracked' /\ CommandTracked' /\ Written' /\ Kept'
    BY <1>1, <1>2, <1>3, CommandsAreReady DEF StoreInv, StoreTypeOK, ModeTracked, Kept,
       CommandTracked, Written, Writing, WithCandidate, BeforeSwap, AfterSwap, Labels
  <2>3. Unpublished' /\ Exchanged' /\ Superseded' /\ Reconciling'
    BY <1>1, <1>2, <1>3, CommandsAreReady DEF StoreInv, Unpublished, Exchanged, Superseded, Reconciling,
       WithCandidate, BeforeSwap, AfterSwap, Labels
  <2> QED BY <2>1, <2>2, <2>3 DEF StoreInv
<1>4. CASE victims' = {op.gen} /\ pc' = "remove"
  <2>1. StoreTypeOK'
    BY <1>1, <1>2, <1>4 DEF StoreInv, StoreTypeOK, Labels
  <2> QED BY <1>1, <1>2, <1>4, <2>1, StoreTypes, DropKeeps DEF Labels
<1> QED BY <1>3, <1>4 DEF VerifyGeneration, DropPrepared, Goto

(* The second half of calibrate_threshold_with up to the commit. *)
LEMMA CandidateKeeps ==
    ASSUME StoreInv, Candidate
    PROVE  StoreInv'
<1> DEFINE was == live.refs[op.chan].gen
           old == IF was # NoGen /\ gens[was].at = "name" THEN was ELSE NoGen
           refs == [live.refs EXCEPT ![op.chan] = [source |-> "calibrated", gen |-> op.gen]]
           cand == [live EXCEPT !.refs[op.chan] = [source |-> "calibrated", gen |-> op.gen]]
<1>1. /\ pc = "candidate" /\ faults' \in Nat
      /\ UNCHANGED << gens, target, temp, mode, live, policy, healthy, reported, swept, nextGen, crashes,
                      edits >>
  BY DEF Candidate, Succeeds, disk, StoreInv, StoreTypeOK
<1>2. /\ op.kind = "calibrate" /\ op.gen # NoGen /\ op.gen \in Generations /\ op.chan \in Channels
      /\ op.gen < nextGen
      /\ Without(target.cfg.refs, op.gen) /\ Without(live.refs, op.gen)
  BY <1>1 DEF StoreInv, StoreTypeOK, Operation, CommandTracked, Unpublished, Writing, AfterSwap
<1>3. CASE op' = [op EXCEPT !.old = old, !.cand = cand] /\ pc' = "save_open" /\ UNCHANGED victims
  <2>1. refs \in Thresholds
    BY <1>2, StoreTypes DEF Thresholds, Threshold
  <2>2. cand \in Stored /\ cand.refs = refs
    BY <2>1 DEF StoreInv, StoreTypeOK, Stored
  <2>3. Whole(gens[op.gen])
    BY <1>1, <1>2, StoreTypes DEF StoreInv, Written, Writing, Whole, Directory
  <2>4. Good(refs, gens, nextGen)
    BY <1>2, <2>3, StoreTypes, GoodNew
  <2>5. old \in Generations \cup {NoGen} /\ (old # NoGen => Without(refs, old))
    <3>1. was \in Generations \cup {NoGen}
      BY <1>2, StoreTypes, RefType
    <3>2. ASSUME was # NoGen PROVE Without(refs, was)
      <4>1. refs[op.chan].gen = op.gen /\ op.gen # was
        BY <1>2, StoreTypes DEF Without, Thresholds
      <4>2. \A c \in Channels \ {op.chan} : refs[c].gen = live.refs[c].gen /\ refs[c].gen # was
        BY <1>2, <3>2, StoreTypes DEF Good, Thresholds
      <4> QED BY <4>1, <4>2 DEF Without
    <3> QED BY <3>1, <3>2
  <2> HIDE DEF was, old, refs, cand
  <2>6. /\ op' \in Operation /\ op'.kind = "calibrate" /\ op'.gen = op.gen /\ op'.chan = op.chan
        /\ op'.old = old /\ op'.cand.refs = refs
    BY <1>2, <1>3, <2>2, <2>5 DEF StoreInv, StoreTypeOK, Operation
  <2>7. StoreTypeOK'
    BY <1>1, <1>3, <2>6 DEF StoreInv, StoreTypeOK, Labels
  <2>8. ModeTracked' /\ CommandTracked' /\ Written'
    BY <1>1, <1>2, <1>3, <2>6, CommandsAreReady DEF StoreInv, StoreTypeOK, ModeTracked,
       CommandTracked, Written, Writing, WithCandidate, BeforeSwap, AfterSwap, Labels
  <2>9. Kept'
    BY <1>1, <1>3, <2>4, <2>6 DEF StoreInv, Kept, AfterSwap
  <2>10. Unpublished' /\ Exchanged'
    BY <1>1, <1>2, <1>3, <2>6 DEF Unpublished, Exchanged, BeforeSwap, AfterSwap
  <2>11. Superseded' /\ Reconciling'
    BY <1>1, <1>3, <2>5, <2>6, CommandsAreReady DEF StoreInv, Superseded, Reconciling, Labels
  <2> QED BY <2>7, <2>8, <2>9, <2>10, <2>11 DEF StoreInv
<1>4. CASE victims' = {op.gen} /\ pc' = "remove" /\ UNCHANGED op
  <2>1. StoreTypeOK'
    BY <1>1, <1>2, <1>4 DEF StoreInv, StoreTypeOK, Labels
  <2> QED BY <1>1, <1>2, <1>4, <2>1, StoreTypes, DropKeeps DEF Labels
<1> QED BY <1>3, <1>4 DEF Candidate, DropPrepared, Goto

-----------------------------------------------------------------------------
(* save_config_atomic                                                      *)

Saves == WithCandidate \ {"install"}

(* A save that failed: the command answers, or drops its generation if that is
   in nobody's configuration. *)
LEMMA SaveFailedKeeps ==
    ASSUME StoreInv, pc \in Saves, SaveSame, NEW how \in {"failed", "unsure"}, SaveFailed(how),
           target' \in File, faults' \in Nat, Good(target'.cfg.refs, gens, nextGen),
           how = "failed" /\ op.gen # NoGen => Without(target'.cfg.refs, op.gen)
    PROVE  StoreInv'
<1>1. pc \in Labels \ {"idle", "remove"}
  BY DEF Saves, WithCandidate, BeforeSwap, AfterSwap, Labels
<1>2. CASE op.kind = "calibrate" /\ how = "failed"
  <2>1. pc' = "remove" /\ victims' = {op.gen} /\ temp' = NoFile /\ UNCHANGED << op, reported >>
    BY <1>2 DEF SaveFailed, DropPrepared, Goto
  <2>2. op.gen # NoGen
    BY <1>2 DEF StoreInv, CommandTracked, Saves, WithCandidate, BeforeSwap, AfterSwap
  <2>3. StoreTypeOK'
    BY <2>1, <2>2, DefaultTypes DEF StoreInv, StoreTypeOK, Operation, SaveSame, Labels
  <2> QED BY <1>1, <1>2, <2>1, <2>2, <2>3, StoreTypes, DropKeeps DEF SaveSame
<1>3. CASE ~(op.kind = "calibrate" /\ how = "failed")
  <2>1. pc' = "idle" /\ op' = NoOp /\ temp' = NoFile /\ UNCHANGED victims
    BY <1>3 DEF SaveFailed, Answer, Goto
  <2>2. StoreTypeOK'
    BY <2>1, DefaultTypes DEF StoreInv, StoreTypeOK, SaveSame, Labels
  <2> QED BY <1>1, <2>1, <2>2, StoreTypes, AnswerKeeps DEF SaveSame
<1> QED BY <1>2, <1>3

(* As long as the exchange has not been made, any failure is safe. *)
LEMMA UnswappedFailureKeeps ==
    ASSUME StoreInv, pc \in Saves \ AfterSwap, SaveSame, UNCHANGED target, faults' \in Nat,
           NEW how \in {"failed", "unsure"}, SaveFailed(how)
    PROVE  StoreInv'
<1>1. op.gen # NoGen => Without(target.cfg.refs, op.gen)
  BY DEF StoreInv, Unpublished, Saves, WithCandidate, BeforeSwap, AfterSwap
<1>2. target' \in File
  BY DEF StoreInv, StoreTypeOK
<1> QED BY <1>1, <1>2, StoreTypes, SaveFailedKeeps

(* A failed disk operation is counted. *)
LEMMA FaultsCounted ==
    ASSUME StoreInv, Succeeds \/ Fails \/ FailsTwice
    PROVE  faults' \in Nat /\ faults <= faults'
BY DEF StoreInv, StoreTypeOK, Succeeds, Fails, FailsTwice

(* A save goes on to its next step before the exchange. *)
LEMMA BeforeSwapKeeps ==
    ASSUME StoreInv, pc \in {"save_open", "save_write", "save_check"}, SaveSame, pc' \in BeforeSwap,
           UNCHANGED << target, reported, victims >>, faults' \in Nat,
           op' \in Operation, temp' \in File, temp'.cfg = op.cand,
           op'.kind = op.kind, op'.gen = op.gen, op'.chan = op.chan, op'.cand = op.cand, op'.old = op.old
    PROVE  StoreInv'
<1>1. mode = "ready" /\ ~swept /\ victims = {} /\ op.kind \in {"calibrate", "set", "reset"}
  BY CommandsAreReady DEF Labels
<1> USE DEF SaveSame
<1>2. StoreTypeOK'
  BY DEF StoreInv, StoreTypeOK, Labels, BeforeSwap
<1>3. ModeTracked' /\ CommandTracked' /\ Written' /\ Kept'
  BY <1>1 DEF StoreInv, StoreTypeOK, ModeTracked, CommandTracked, Written, Kept, Writing, WithCandidate,
              BeforeSwap, AfterSwap
<1>4. Unpublished' /\ Exchanged' /\ Superseded' /\ Reconciling'
  BY <1>1 DEF StoreInv, Unpublished, Exchanged, Superseded, Reconciling, WithCandidate, BeforeSwap, AfterSwap
<1> QED BY <1>2, <1>3, <1>4 DEF StoreInv

(* The temporary file is created, written, and the target checked. *)
LEMMA SaveBeginsKeeps ==
    ASSUME StoreInv, SaveOpen \/ SaveWrite \/ SaveCheck
    PROVE  StoreInv'
<1>1. /\ pc \in {"save_open", "save_write", "save_check"} /\ SaveSame /\ UNCHANGED target
      /\ faults' \in Nat /\ pc \in Saves \ AfterSwap
  BY FaultsCounted DEF SaveOpen, SaveWrite, SaveCheck, AbandonTemp, Saves, WithCandidate, BeforeSwap, AfterSwap
<1>2. CASE \E how \in {"failed", "unsure"} : SaveFailed(how)
  BY <1>1, <1>2, UnswappedFailureKeeps
<1>3. CASE SaveOpen /\ temp' = [id |-> FreshId, cfg |-> op.cand] /\ pc' = "save_write"
           /\ op' = [op EXCEPT !.prev = target.id, !.new = FreshId] /\ UNCHANGED << reported, victims >>
  <2>1. op \in Operation /\ target.id \in Nat /\ FreshId \in Nat /\ op.cand \in Stored
    BY FreshIdType DEF StoreInv, StoreTypeOK, File, Operation
  <2>2. /\ op' \in Operation /\ op'.kind = op.kind /\ op'.gen = op.gen /\ op'.chan = op.chan
        /\ op'.cand = op.cand /\ op'.old = op.old
    BY <1>3, <2>1 DEF Operation
  <2>3. temp' \in File /\ temp'.cfg = op.cand
    BY <1>3, <2>1 DEF File
  <2> QED BY <1>1, <1>3, <2>2, <2>3, BeforeSwapKeeps DEF BeforeSwap
<1>4. CASE pc \in BeforeSwap /\ pc' \in BeforeSwap /\ UNCHANGED << temp, op, reported, victims >>
  <2>1. op \in Operation /\ temp \in File /\ temp.cfg = op.cand
    BY <1>4 DEF StoreInv, StoreTypeOK, Exchanged
  <2> QED BY <1>1, <1>4, <2>1, BeforeSwapKeeps
<1> QED BY <1>2, <1>3, <1>4 DEF SaveOpen, SaveWrite, SaveCheck, AbandonTemp, BeforeSwap, Goto

(* renameat2: the candidate comes under the name, what was there is kept. *)
LEMMA SaveSwapKeeps ==
    ASSUME StoreInv, SaveSwap
    PROVE  StoreInv'
<1>1. pc = "save_swap" /\ SaveSame /\ faults' \in Nat /\ pc \in Saves \ AfterSwap
  BY FaultsCounted DEF SaveSwap, AbandonTemp, Saves, WithCandidate, BeforeSwap, AfterSwap
<1>2. CASE UNCHANGED target /\ \E how \in {"failed", "unsure"} : SaveFailed(how)
  BY <1>1, <1>2, UnswappedFailureKeeps
<1>3. CASE target' = temp /\ temp' = target /\ pc' = "save_verify" /\ UNCHANGED << op, reported, victims >>
  <2>1. mode = "ready" /\ ~swept /\ victims = {} /\ op.kind \in {"calibrate", "set", "reset"}
    BY <1>1, CommandsAreReady DEF Labels
  <2>2. temp.cfg = op.cand /\ Good(op.cand.refs, gens, nextGen)
    BY <1>1 DEF StoreInv, Exchanged, Kept, BeforeSwap, WithCandidate
  <2>3. StoreTypeOK'
    BY <1>1, <1>3 DEF SaveSame, StoreInv, StoreTypeOK, Labels
  <2>4. ModeTracked' /\ CommandTracked' /\ Written' /\ Kept'
    BY <1>1, <1>3, <2>1, <2>2 DEF SaveSame, StoreInv, StoreTypeOK, ModeTracked, CommandTracked, Written, Kept,
       Writing, WithCandidate, BeforeSwap, AfterSwap
  <2>5. Unpublished' /\ Exchanged' /\ Superseded' /\ Reconciling'
    BY <1>1, <1>3, <2>1, <2>2 DEF SaveSame, StoreInv, Unpublished, Exchanged, Superseded, Reconciling,
       WithCandidate, BeforeSwap, AfterSwap
  <2> QED BY <2>3, <2>4, <2>5 DEF StoreInv
<1> QED BY <1>2, <1>3 DEF SaveSwap, AbandonTemp, Goto

(* After the exchange a failure whose outcome is not established keeps everything. *)
LEMMA UnsureKeeps ==
    ASSUME StoreInv, pc \in Saves, SaveSame, UNCHANGED target, faults' \in Nat, SaveFailed("unsure")
    PROVE  StoreInv'
<1>1. target' \in File
  BY DEF StoreInv, StoreTypeOK
<1> QED BY <1>1, StoreTypes, SaveFailedKeeps

(* Verification and synchronisation after the exchange. *)
LEMMA SaveEndsKeeps ==
    ASSUME StoreInv, SaveVerify \/ SaveSync
    PROVE  StoreInv'
<1>1. pc \in {"save_verify", "save_sync"} /\ SaveSame /\ UNCHANGED target /\ faults' \in Nat
  BY FaultsCounted DEF SaveVerify, SaveSync, Succeeds
<1>2. CASE SaveFailed("unsure")
  BY <1>1, <1>2, UnsureKeeps DEF Saves, WithCandidate, AfterSwap
<1>3. CASE /\ pc' \in {"save_sync", "save_undo", "install"} /\ UNCHANGED << op, reported, victims >>
           /\ temp' = temp \/ (temp' = NoFile /\ pc' = "install")
  <2>1. mode = "ready" /\ ~swept /\ victims = {} /\ op.kind \in {"calibrate", "set", "reset"}
    BY <1>1, CommandsAreReady DEF Labels
  <2>2. StoreTypeOK'
    BY <1>1, <1>3, DefaultTypes DEF SaveSame, StoreInv, StoreTypeOK, Labels
  <2>3. ModeTracked' /\ CommandTracked' /\ Written' /\ Kept'
    BY <1>1, <1>3, <2>1 DEF SaveSame, StoreInv, StoreTypeOK, ModeTracked, CommandTracked, Written, Kept,
       Writing, WithCandidate, BeforeSwap, AfterSwap
  <2>4. Unpublished' /\ Exchanged' /\ Superseded' /\ Reconciling'
    BY <1>1, <1>3, <2>1 DEF SaveSame, StoreInv, Unpublished, Exchanged, Superseded, Reconciling,
       WithCandidate, BeforeSwap, AfterSwap
  <2> QED BY <2>2, <2>3, <2>4 DEF StoreInv
<1> QED BY <1>2, <1>3 DEF SaveVerify, SaveSync, Goto

(* The rollback puts back what was there, or removes the file where none was. *)
LEMMA SaveUndoKeeps ==
    ASSUME StoreInv, SaveUndo
    PROVE  StoreInv'
<1>1. pc = "save_undo" /\ SaveSame /\ faults' \in Nat /\ pc \in Saves
  BY FaultsCounted DEF SaveUndo, Saves, WithCandidate, AfterSwap
<1>2. CASE UNCHANGED target /\ SaveFailed("unsure")
  BY <1>1, <1>2, UnsureKeeps
<1>3. CASE target' = NoFile /\ SaveFailed("failed")
  <2>1. target' \in File /\ target'.cfg = DefaultConfig
    BY <1>3, DefaultTypes
  <2>2. op.gen # NoGen => Without(target'.cfg.refs, op.gen)
    BY <2>1, DefaultTypes DEF Without
  <2>3. Good(target'.cfg.refs, gens, nextGen)
    BY <2>1, GoodDefault
  <2> QED BY <1>1, <1>3, <2>1, <2>2, <2>3, SaveFailedKeeps
<1>4. CASE target' = temp /\ temp' = target /\ pc' = "save_settle" /\ UNCHANGED << op, reported, victims >>
  <2>1. mode = "ready" /\ ~swept /\ victims = {} /\ op.kind \in {"calibrate", "set", "reset"}
    BY <1>1, CommandsAreReady DEF Labels
  <2>2. Good(temp.cfg.refs, gens, nextGen) /\ (op.gen # NoGen => Without(temp.cfg.refs, op.gen))
    BY <1>1 DEF StoreInv, Unpublished, Kept, AfterSwap
  <2>3. StoreTypeOK'
    BY <1>1, <1>4 DEF SaveSame, StoreInv, StoreTypeOK, Labels
  <2>4. ModeTracked' /\ CommandTracked' /\ Written' /\ Kept'
    BY <1>1, <1>4, <2>1, <2>2 DEF SaveSame, StoreInv, StoreTypeOK, ModeTracked, CommandTracked, Written, Kept,
       Writing, WithCandidate, BeforeSwap, AfterSwap
  <2>5. Unpublished' /\ Exchanged' /\ Superseded' /\ Reconciling'
    BY <1>1, <1>4, <2>1, <2>2 DEF SaveSame, StoreInv, Unpublished, Exchanged, Superseded, Reconciling,
       WithCandidate, BeforeSwap, AfterSwap
  <2> QED BY <2>3, <2>4, <2>5 DEF StoreInv
<1> QED BY <1>2, <1>3, <1>4 DEF SaveUndo, Goto

(* The new file is removed after it was exchanged back. *)
LEMMA SaveSettleKeeps ==
    ASSUME StoreInv, SaveSettle
    PROVE  StoreInv'
<1>1. pc = "save_settle" /\ SaveSame /\ UNCHANGED target /\ faults' \in Nat /\ pc \in Saves \ AfterSwap
  BY FaultsCounted DEF SaveSettle, AbandonTemp, Saves, WithCandidate, BeforeSwap, AfterSwap
<1>2. \E how \in {"failed", "unsure"} : SaveFailed(how)
  BY DEF SaveSettle, AbandonTemp
<1> QED BY <1>1, <1>2, UnswappedFailureKeeps

-----------------------------------------------------------------------------
(* Installation, cleanup, and the process                                  *)

(* Configuration and policy are installed in memory; what is to be removed is
   neither in the candidate nor in the file. *)
LEMMA InstallKeeps ==
    ASSUME StoreInv, Install
    PROVE  StoreInv'
<1>1. /\ pc = "install" /\ pc' = "remove" /\ reported' = "ok" /\ live' = op.cand
      /\ policy' = Effective(op.cand)
      /\ UNCHANGED << gens, target, temp, mode, healthy, op, swept, nextGen, faults, crashes, edits >>
  BY DEF Install, Goto, disk, counters
<1>2. mode = "ready" /\ ~swept /\ op.kind \in {"calibrate", "set", "reset"}
  BY <1>1, CommandsAreReady DEF Labels
<1>3. op \in Operation /\ op.cand \in Stored /\ Good(op.cand.refs, gens, nextGen)
  BY <1>1 DEF StoreInv, StoreTypeOK, Operation, Kept, WithCandidate
<1>4. \A g \in Generations : Without(op.cand.refs, g) => Without(target.cfg.refs, g)
  <2>1. target.cfg.refs \in {op.cand.refs, DefaultConfig.refs}
    BY <1>1 DEF StoreInv, Exchanged
  <2>2. \A g \in Generations : Without(DefaultConfig.refs, g)
    BY DefaultTypes, StoreAssumption DEF Without, Generations, NoGen
  <2> QED BY <2>1, <2>2
<1>5. victims' \subseteq Generations /\ \A g \in victims' : Without(op.cand.refs, g)
  <2>1. CASE op.kind = "calibrate"
    BY <1>1, <1>3, <2>1 DEF Install, StoreInv, Superseded, WithCandidate, Operation
  <2>2. CASE op.kind = "reset"
    BY <2>2, ReferencesAre, StoreAssumption DEF Install, Unreferenced, Generations, NoGen
  <2>3. CASE op.kind = "set"
    BY <2>3 DEF Install
  <2> QED BY <1>2, <2>1, <2>2, <2>3
<1>6. policy' \in Thresholds /\ \A c \in Channels : policy'[c].gen \in {NoGen, op.cand.refs[c].gen}
  BY <1>1, <1>3, EffectiveAre
<1>7. StoreTypeOK'
  BY <1>1, <1>3, <1>5, <1>6 DEF StoreInv, StoreTypeOK, Labels
<1>8. ModeTracked' /\ CommandTracked' /\ Written'
  BY <1>1, <1>2 DEF StoreInv, StoreTypeOK, ModeTracked, CommandTracked, Written, Writing, WithCandidate,
     BeforeSwap, AfterSwap
<1>9. Kept'
  BY <1>1, <1>3, <1>6 DEF StoreInv, Kept, WithCandidate, BeforeSwap, AfterSwap
<1>10. Superseded'
  BY <1>1, <1>4, <1>5 DEF Superseded, WithCandidate, BeforeSwap, AfterSwap
<1>11. Unpublished' /\ Exchanged' /\ Reconciling'
  BY <1>1, <1>2 DEF StoreInv, Unpublished, Exchanged, Reconciling, BeforeSwap, AfterSwap
<1> QED BY <1>7, <1>8, <1>9, <1>10, <1>11 DEF StoreInv

(* One step of remove_generation_at: only a victim changes, and a failure counts. *)
LEMMA RemovalKeeps ==
    ASSUME StoreInv, pc = "remove", pc' = "remove", RemoveSame, UNCHANGED << temp, op, reported >>,
           NEW g \in victims, gens' \in [Generations -> Directory], faults' \in Nat, faults <= faults',
           \A h \in Generations \ {g} : gens'[h] = gens[h],
           \/ victims' = victims
           \/ victims' = victims \ {g} /\ (gens'[g].at = "absent" \/ faults < faults')
    PROVE  StoreInv'
<1>1. Without(target.cfg.refs, g) /\ Without(live.refs, g) /\ g \in Generations
  BY DEF StoreInv, StoreTypeOK, Superseded
<1>2. Good(target.cfg.refs, gens', nextGen) /\ Good(live.refs, gens', nextGen)
  BY <1>1, StoreTypes, GoodGrows
<1> USE DEF RemoveSame
<1>3. StoreTypeOK'
  BY DEF StoreInv, StoreTypeOK
<1>4. ModeTracked' /\ CommandTracked' /\ Written' /\ Kept'
  BY <1>2 DEF StoreInv, ModeTracked, CommandTracked, Written, Kept, Writing, WithCandidate, BeforeSwap, AfterSwap
<1>5. Unpublished' /\ Exchanged' /\ Superseded'
  BY DEF StoreInv, Unpublished, Exchanged, Superseded, WithCandidate, BeforeSwap, AfterSwap
<1>6. Reconciling'
  <2>1. ASSUME mode = "starting", faults' = op.prev, op.new # 0, NEW h \in Generations, Orphan(h)'
        PROVE  h \in victims'
    <3>1. faults' = faults /\ faults = op.prev
      <4>1. op.prev <= faults /\ op.prev \in Nat /\ faults \in Nat
        BY <2>1 DEF StoreInv, StoreTypeOK, Operation, Reconciling
      <4> QED BY <2>1, <4>1
    <3>2. CASE h = g
      BY <2>1, <3>1, <3>2 DEF Orphan, StoreInv, StoreTypeOK
    <3>3. CASE h # g
      <4>1. Orphan(h)
        BY <2>1, <3>3 DEF Orphan
      <4>2. h \in victims
        BY <2>1, <3>1, <4>1 DEF StoreInv, Reconciling
      <4> QED BY <3>3, <4>2
    <3> QED BY <3>2, <3>3
  <2>2. ~swept
    BY DEF StoreInv, Reconciling
  <2>3. mode = "starting" => op.prev <= faults'
    BY DEF StoreInv, StoreTypeOK, Operation, Reconciling
  <2> QED BY <2>1, <2>2, <2>3 DEF Reconciling
<1> QED BY <1>3, <1>4, <1>5, <1>6 DEF StoreInv

(* remove_generation_at: the rename into quarantine and the removal. *)
LEMMA RemovingKeeps ==
    ASSUME StoreInv, NEW g \in Generations, Quarantine(g) \/ Discard(g)
    PROVE  StoreInv'
<1>1. /\ pc = "remove" /\ pc' = "remove" /\ RemoveSame /\ UNCHANGED << temp, op, reported >> /\ g \in victims
      /\ faults' \in Nat /\ faults <= faults'
  BY FaultsCounted DEF Quarantine, Discard, Goto
<1>2. CASE Quarantine(g)
  <2>1. gens' \in [Generations -> Directory] /\ \A h \in Generations \ {g} : gens'[h] = gens[h]
    BY <1>2, StoreTypes DEF Quarantine, Directory
  <2>2. victims' = victims \/ (victims' = victims \ {g} /\ faults < faults')
    BY <1>2 DEF Quarantine, Fails, StoreInv, StoreTypeOK
  <2> QED BY <1>1, <2>1, <2>2, RemovalKeeps
<1>3. CASE Discard(g)
  <2>1. CASE Succeeds /\ gens' = [gens EXCEPT ![g].at = "absent", ![g].parts = {}]
    <3>1. /\ gens' \in [Generations -> Directory] /\ gens'[g].at = "absent"
          /\ \A h \in Generations \ {g} : gens'[h] = gens[h]
      BY <2>1, StoreTypes DEF Directory
    <3> QED BY <1>1, <1>3, <3>1, RemovalKeeps DEF Discard
  <2>2. CASE Fails /\ \E left \in SUBSET gens[g].parts : gens' = [gens EXCEPT ![g].parts = left]
    <3>1. PICK left \in SUBSET gens[g].parts : gens' = [gens EXCEPT ![g].parts = left]
      BY <2>2
    <3>2. gens[g] \in Directory /\ left \in SUBSET {"sample", "metadata"}
      BY <3>1, StoreTypes DEF Directory
    <3>3. gens' \in [Generations -> Directory] /\ \A h \in Generations \ {g} : gens'[h] = gens[h]
      BY <3>1, <3>2, StoreTypes DEF Directory
    <3>4. faults < faults'
      BY <2>2 DEF Fails, StoreInv, StoreTypeOK
    <3> QED BY <1>1, <1>3, <3>3, <3>4, RemovalKeeps DEF Discard
  <2> QED BY <1>3, <2>1, <2>2 DEF Discard
<1> QED BY <1>2, <1>3

(* The cleanup is over. *)
LEMMA CleanupDoneKeeps ==
    ASSUME StoreInv, CleanupDone
    PROVE  StoreInv'
<1>1. /\ pc = "remove" /\ victims = {} /\ pc' = "idle" /\ op' = NoOp
      /\ UNCHANGED << gens, target, temp, live, victims, nextGen, faults, crashes, edits >>
  BY DEF CleanupDone, Goto, disk, counters
<1>2. \/ op.kind = "startup" /\ mode' = "ready" /\ policy' = Effective(live)
         /\ swept' = (faults = op.prev /\ op.new # 0)
      \/ op.kind # "startup" /\ UNCHANGED << mode, policy, swept >>
  BY DEF CleanupDone
<1>3. policy' \in Thresholds /\ \A c \in Channels : policy'[c].gen \in {NoGen, live.refs[c].gen}
  BY <1>2, EffectiveAre DEF StoreInv, StoreTypeOK, Kept
<1>4. mode' = "ready"
  BY <1>1, <1>2 DEF StoreInv, ModeTracked
<1>5. swept' => \A g \in Generations : ~Orphan(g)
  BY <1>1, <1>2 DEF StoreInv, ModeTracked, Reconciling
<1>6. StoreTypeOK'
  BY <1>1, <1>3, DefaultTypes DEF StoreInv, StoreTypeOK, Labels
<1>7. ModeTracked' /\ CommandTracked' /\ Written'
  BY <1>1, <1>4, DefaultTypes DEF StoreInv, StoreTypeOK, ModeTracked, CommandTracked, Written, Writing,
     WithCandidate, BeforeSwap, AfterSwap, NoGen
<1>8. Kept'
  BY <1>1, <1>3 DEF StoreInv, Kept, WithCandidate, BeforeSwap, AfterSwap
<1>9. Unpublished' /\ Exchanged' /\ Superseded'
  BY <1>1, DefaultTypes DEF Unpublished, Exchanged, Superseded, WithCandidate, BeforeSwap, AfterSwap
<1>10. Reconciling'
  BY <1>1, <1>4, <1>5 DEF Reconciling, Orphan
<1> QED BY <1>6, <1>7, <1>8, <1>9, <1>10 DEF StoreInv

(* build_idle_context loads the configuration; everything it does not refer to
   is to be removed. *)
LEMMA StartupKeeps ==
    ASSUME StoreInv, Startup
    PROVE  StoreInv'
<1>1. /\ mode = "down" /\ mode' = "starting" /\ live' = target.cfg /\ pc' = "remove"
      /\ UNCHANGED << gens, target, temp, policy, healthy, reported, swept, nextGen, faults, crashes, edits >>
  BY DEF Startup, Goto, disk, counters
<1>2. /\ op' \in Operation /\ op'.kind = "startup" /\ op'.gen = NoGen /\ op'.prev = faults
      /\ op'.new = target.id
  BY DefaultTypes DEF Startup, StoreInv, StoreTypeOK, File, Operation
<1>3. victims' \subseteq Generations /\ \A g \in victims' : Without(target.cfg.refs, g)
  BY ReferencesAre, StoreAssumption DEF Startup, Unreferenced, Generations, NoGen
<1>4. target.id # 0 => \A g \in Generations :
         gens[g].at # "absent" /\ Without(target.cfg.refs, g) => g \in victims'
  BY ReferencesAre, StoreAssumption DEF Startup, Unreferenced, Generations, NoGen, NoFile
<1>5. \A c \in Channels : policy[c].gen = NoGen
  BY <1>1, DefaultTypes DEF StoreInv, ModeTracked
<1>6. ~swept
  BY <1>1 DEF StoreInv, Reconciling
<1>7. StoreTypeOK'
  BY <1>1, <1>2, <1>3 DEF StoreInv, StoreTypeOK, File, Labels
<1>8. ModeTracked' /\ CommandTracked' /\ Written'
  BY <1>1, <1>2, StoreTypes DEF ModeTracked, CommandTracked, Written, Writing, WithCandidate, BeforeSwap,
     AfterSwap, NoGen
<1>9. Kept'
  BY <1>1, <1>5 DEF StoreInv, Kept, WithCandidate, BeforeSwap, AfterSwap
<1>10. Unpublished' /\ Exchanged' /\ Superseded'
  BY <1>1, <1>2, <1>3 DEF Unpublished, Exchanged, Superseded, WithCandidate, BeforeSwap, AfterSwap
<1>11. Reconciling'
  BY <1>1, <1>2, <1>4, <1>6 DEF Reconciling, Orphan, StoreInv, StoreTypeOK
<1> QED BY <1>7, <1>8, <1>9, <1>10, <1>11 DEF StoreInv

(* A reload, and the loss of the calibration target. *)
LEMMA ReloadKeeps ==
    ASSUME StoreInv, Reload \/ TargetLost
    PROVE  StoreInv'
<1>1. /\ UNCHANGED << gens, target, temp, mode, pc, op, victims, reported, nextGen, faults, crashes, edits >>
      /\ \/ mode = "ready" /\ pc = "idle" /\ live' = target.cfg /\ policy' = Effective(target.cfg) /\ swept' = FALSE
         \/ UNCHANGED << live, policy, swept >>
  BY DEF Reload, TargetLost, disk, counters
<1>2. CASE UNCHANGED << live, policy, swept >>
  BY <1>1, <1>2 DEF StoreInv, StoreTypeOK, ModeTracked, CommandTracked, Written, Kept, Unpublished, Exchanged,
     Superseded, Reconciling, Orphan
<1>3. CASE mode = "ready" /\ pc = "idle" /\ live' = target.cfg /\ policy' = Effective(target.cfg) /\ swept' = FALSE
  <2>1. target.cfg \in Stored
    BY DEF StoreInv, StoreTypeOK, File
  <2>2. policy' \in Thresholds /\ \A c \in Channels : policy'[c].gen \in {NoGen, target.cfg.refs[c].gen}
    BY <1>3, <2>1, EffectiveAre
  <2>3. op = NoOp
    BY <1>3 DEF StoreInv, ModeTracked
  <2>4. StoreTypeOK'
    BY <1>1, <1>3, <2>1, <2>2 DEF StoreInv, StoreTypeOK
  <2>5. ModeTracked' /\ CommandTracked' /\ Written' /\ Kept'
    BY <1>1, <1>3, <2>2 DEF StoreInv, ModeTracked, CommandTracked, Written, Kept
  <2>6. Unpublished' /\ Exchanged' /\ Superseded' /\ Reconciling'
    BY <1>1, <1>3, <2>3, DefaultTypes DEF StoreInv, CommandTracked, Unpublished, Exchanged, Superseded,
       Reconciling
  <2> QED BY <2>4, <2>5, <2>6 DEF StoreInv
<1> QED BY <1>1, <1>2, <1>3

(* The process dies at any step. *)
LEMMA CrashKeeps ==
    ASSUME StoreInv, Crash
    PROVE  StoreInv'
<1>1. /\ mode' = "down" /\ live' = DefaultConfig /\ policy' = DefaultConfig.refs /\ swept' = FALSE
      /\ pc' = "idle" /\ op' = NoOp /\ temp' = NoFile /\ victims' = {} /\ crashes' \in Nat
      /\ UNCHANGED << gens, target, nextGen, faults, edits >>
  BY DEF Crash, disk, StoreInv, StoreTypeOK
<1> USE <1>1, DefaultTypes
<1>2. StoreTypeOK'
  BY DEF StoreInv, StoreTypeOK, Labels
<1>3. ModeTracked' /\ CommandTracked' /\ Written'
  BY StoreTypes DEF ModeTracked, CommandTracked, Written, Writing, WithCandidate, BeforeSwap, AfterSwap, NoGen
<1>4. Kept'
  BY GoodDefault DEF StoreInv, Kept, WithCandidate, BeforeSwap, AfterSwap
<1>5. Unpublished' /\ Exchanged' /\ Superseded' /\ Reconciling'
  BY DEF Unpublished, Exchanged, Superseded, Reconciling, WithCandidate, BeforeSwap, AfterSwap
<1> QED BY <1>2, <1>3, <1>4, <1>5 DEF StoreInv

(* The user changes the file and leaves the thresholds, or takes the file away. *)
LEMMA UserEditKeeps ==
    ASSUME StoreInv, UserEdit
    PROVE  StoreInv'
<1>1. /\ UNCHANGED << gens, temp, mode, live, policy, healthy, pc, op, victims, reported, nextGen, faults, crashes >>
      /\ edits' \in Nat /\ edits' # 0 /\ edits' = edits + 1 /\ swept' = FALSE
  BY DEF UserEdit, StoreInv, StoreTypeOK
<1>2. target' \in File /\ target'.cfg.refs \in {target.cfg.refs, DefaultConfig.refs}
  <2>1. /\ target \in File /\ target.cfg \in Stored /\ DefaultConfig \in Stored /\ FreshId \in Nat
        /\ edits + 1 \in Nat
    BY FreshIdType, DefaultTypes DEF StoreInv, StoreTypeOK, File
  <2>2. ASSUME NEW cfg \in Stored
        PROVE  [cfg EXCEPT !.edit = edits + 1] \in Stored /\ [cfg EXCEPT !.edit = edits + 1].refs = cfg.refs
    BY <2>1 DEF Stored
  <2>3. CASE target' = [target EXCEPT !.cfg.edit = edits + 1]
    <3>1. target'.cfg = [target.cfg EXCEPT !.edit = edits + 1] /\ target'.id = target.id
          /\ target' = [id |-> target'.id, cfg |-> target'.cfg]
      BY <2>1, <2>3 DEF File
    <3> QED BY <2>1, <2>2, <3>1 DEF File
  <2>4. CASE \E cfg \in {target.cfg, DefaultConfig} :
               target' = [id |-> FreshId, cfg |-> [cfg EXCEPT !.edit = edits + 1]]
    <3>1. PICK cfg \in {target.cfg, DefaultConfig} :
            target' = [id |-> FreshId, cfg |-> [cfg EXCEPT !.edit = edits + 1]]
      BY <2>4
    <3> DEFINE new == [cfg EXCEPT !.edit = edits + 1]
    <3>2. new \in Stored /\ new.refs = cfg.refs
      BY <2>1, <2>2, <3>1
    <3>3. target' = [id |-> FreshId, cfg |-> new]
      BY <3>1
    <3> HIDE DEF new
    <3>4. target' \in File /\ target'.cfg = new
      BY <2>1, <3>2, <3>3 DEF File
    <3> QED BY <3>1, <3>2, <3>4
  <2>5. CASE target' = NoFile
    BY <2>5, DefaultTypes
  <2> QED BY <2>3, <2>4, <2>5 DEF UserEdit
<1>3. Good(target'.cfg.refs, gens, nextGen)
  BY <1>2, StoreTypes, GoodDefault
<1>4. \A g : g # NoGen /\ Without(target.cfg.refs, g) => Without(target'.cfg.refs, g)
  BY <1>2, DefaultTypes DEF Without
<1>5. StoreTypeOK'
  BY <1>1, <1>2 DEF StoreInv, StoreTypeOK
<1>6. ModeTracked' /\ CommandTracked' /\ Written' /\ Kept'
  BY <1>1, <1>3 DEF StoreInv, ModeTracked, CommandTracked, Written, Kept
<1>7. Unpublished' /\ Reconciling'
  BY <1>1, <1>4 DEF StoreInv, Unpublished, Reconciling, Orphan
<1>8. Exchanged'
  BY <1>1, <1>2 DEF StoreInv, Exchanged
<1>9. Superseded'
  BY <1>1, <1>4, StoreAssumption DEF StoreInv, StoreTypeOK, Superseded, Generations, NoGen
<1> QED BY <1>5, <1>6, <1>7, <1>8, <1>9 DEF StoreInv

-----------------------------------------------------------------------------
(* The theorems                                                            *)

(* Every step keeps the invariant. *)
LEMMA StoreInductive ==
    ASSUME StoreInv, [StoreNext]_storeVars
    PROVE  StoreInv'
<1>1. CASE UNCHANGED storeVars
  BY <1>1 DEF storeVars, StoreInv, StoreTypeOK, ModeTracked, CommandTracked, Written, Kept, Unpublished, Exchanged,
     Superseded, Reconciling, Orphan
<1>2. CASE StoreNext
  BY <1>2, CalibrateKeeps, MutateKeeps, MakeGenerationKeeps, WriteKeeps, VerifyKeeps, CandidateKeeps,
     SaveBeginsKeeps, SaveSwapKeeps, SaveEndsKeeps, SaveUndoKeeps, SaveSettleKeeps, InstallKeeps,
     RemovingKeeps, CleanupDoneKeeps, StartupKeeps, ReloadKeeps, CrashKeeps, UserEditKeeps
     DEF StoreNext, StoreWorker, Saving, Removing
<1> QED BY <1>1, <1>2

(* The invariant is one of the specification. *)
LEMMA StoreInvariant == StoreSpec => []StoreInv
BY StoreStarts, StoreInductive, PTL DEF StoreSpec

(* What the configuration file, the configuration in memory or the session's policy
   refers to is in the state directory, complete, at every step of a calibration,
   a cleanup, a death and a restart; and a startup that reconciled without a fault
   leaves no generation that nobody refers to. *)
THEOREM ReferencesResolve == StoreSpec => []StoreSound
<1>1. StoreInv => StoreSound
  <2> SUFFICES ASSUME StoreInv PROVE StoreSound
    OBVIOUS
  <2>1. Authoritative
    <3> SUFFICES ASSUME NEW g \in (References(target.cfg) \cup References(live)
                                    \cup {policy[c].gen : c \in Channels}) \ {NoGen}
                 PROVE  GenerationComplete(g)
      BY DEF Authoritative
    <3>1. \/ \E c \in Channels : target.cfg.refs[c].gen = g
          \/ \E c \in Channels : live.refs[c].gen = g
      BY DEF References, StoreInv, Kept
    <3>2. Whole(gens[g])
      BY <3>1, StoreTypes DEF Good
    <3> QED BY <3>2 DEF Whole, GenerationComplete
  <2>2. StartupSweeps
    <3> SUFFICES ASSUME swept, NEW g \in Generations, gens[g].at # "absent"
                 PROVE  g \in References(live)
      BY DEF StartupSweeps
    <3>1. ~Without(live.refs, g)
      BY DEF StoreInv, Reconciling, Orphan
    <3>2. g # NoGen
      BY StoreAssumption DEF Generations, NoGen
    <3> QED BY <3>1, <3>2, ReferencesAre
  <2> QED BY <2>1, <2>2 DEF StoreSound
<1> QED BY <1>1, StoreInvariant, PTL

(* A step that answers a definite error ends a cleanup, or ends a command that had
   no generation. *)
LEMMA FailureEnds ==
    ASSUME StoreInv, StoreNext, op.gen # NoGen, pc # "idle", pc' = "idle", reported' = "failed"
    PROVE  CleanupDone
<1>1. op.kind = "calibrate" /\ pc # "mkdir"
  BY DEF StoreInv, CommandTracked
<1>2. ASSUME NEW c \in Channels
      PROVE  ~Calibrate(c) /\ ~Mutate("set", c) /\ ~Mutate("reset", c)
  BY DEF Calibrate, BeginCommand, Mutate
<1>3. ~MakeGeneration /\ ~WriteSample /\ ~WriteMetadata /\ ~VerifyGeneration /\ ~Candidate
  BY <1>1 DEF MakeGeneration, WriteSample, WriteMetadata, WritePart, VerifyGeneration, Candidate, DropPrepared, Goto
<1>4. ~SaveFailed("failed") /\ ~SaveFailed("unsure")
  BY <1>1 DEF SaveFailed, DropPrepared, Answer, Goto
<1>5. ~Saving
  BY <1>4 DEF Saving, SaveOpen, SaveWrite, SaveCheck, SaveSwap, SaveVerify, SaveSync, SaveUndo, SaveSettle,
              AbandonTemp, Goto
<1>6. ~Install /\ ~Startup
  BY DEF Install, Startup, Goto
<1>7. ASSUME NEW g \in Generations PROVE ~Quarantine(g) /\ ~Discard(g)
  BY DEF Quarantine, Discard, Goto
<1>8. ~Reload /\ ~TargetLost /\ ~Crash /\ ~UserEdit
  BY DEF Reload, TargetLost, Crash, UserEdit
<1> QED BY <1>2, <1>3, <1>5, <1>6, <1>7, <1>8 DEF StoreNext, StoreWorker, Removing

(* The configuration in memory is changed by an installation, a start and a reload. *)
LEMMA MemoryFollows ==
    ASSUME StoreInv, StoreNext, live' # live, mode' # "down"
    PROVE  live' = target.cfg \/ (edits > 0 /\ pc = "install")
<1>1. ~Saving
  BY DEF Saving, SaveOpen, SaveWrite, SaveCheck, SaveSwap, SaveVerify, SaveSync, SaveUndo, SaveSettle, SaveSame
<1>2. ASSUME NEW c \in Channels
      PROVE  ~Calibrate(c) /\ ~Mutate("set", c) /\ ~Mutate("reset", c)
  BY DEF Calibrate, Mutate
<1>3. ~MakeGeneration /\ ~WriteSample /\ ~WriteMetadata /\ ~VerifyGeneration /\ ~Candidate
  BY DEF MakeGeneration, WriteSample, WriteMetadata, WritePart, VerifyGeneration, Candidate
<1>4. ASSUME NEW g \in Generations PROVE ~Quarantine(g) /\ ~Discard(g)
  BY DEF Quarantine, Discard, RemoveSame
<1>5. ~CleanupDone /\ ~TargetLost /\ ~Crash /\ ~UserEdit
  BY DEF CleanupDone, TargetLost, Crash, UserEdit
<1>6. CASE Install
  <2>1. live' = op.cand /\ pc = "install" /\ edits \in Nat /\ (edits = 0 => target.cfg = op.cand)
    BY <1>6 DEF Install, StoreInv, StoreTypeOK, Exchanged
  <2> QED BY <2>1
<1>7. CASE Startup \/ Reload
  BY <1>7 DEF Startup, Reload
<1> QED BY <1>1, <1>2, <1>3, <1>4, <1>5, <1>6, <1>7 DEF StoreNext, StoreWorker, Removing

(* A calibration that answers a definite error has published nothing: neither the
   file nor the memory refers to its generation; and the configuration in memory
   becomes what the file holds, never more. *)
THEOREM FailuresPublishNothing == StoreSpec => StoreSteps
<1> DEFINE Unheard == op.gen # NoGen /\ pc # "idle" /\ pc' = "idle" /\ reported' = "failed" =>
                        op.gen \notin References(target'.cfg) \cup References(live')
           Follows == live' # live /\ mode' # "down" => live' = target.cfg \/ (edits > 0 /\ pc = "install")
<1>1. StoreInv /\ [StoreNext]_storeVars => [Unheard]_storeVars
  <2> SUFFICES ASSUME StoreInv, StoreNext, op.gen # NoGen, pc # "idle", pc' = "idle", reported' = "failed"
               PROVE  op.gen \notin References(target'.cfg) \cup References(live')
    OBVIOUS
  <2>1. pc = "remove" /\ UNCHANGED << target, live >>
    BY FailureEnds DEF CleanupDone, disk
  <2>2. reported # "ok"
    BY FailureEnds DEF CleanupDone, StoreInv, CommandTracked, ModeTracked
  <2>3. Without(target.cfg.refs, op.gen) /\ Without(live.refs, op.gen)
    BY <2>1, <2>2 DEF StoreInv, Unpublished, AfterSwap
  <2> QED BY <2>1, <2>3, ReferencesAre
<1>2. StoreInv /\ [StoreNext]_storeVars => [Follows]_storeVars
  BY MemoryFollows
<1> QED BY <1>1, <1>2, StoreInvariant, PTL DEF StoreSpec, StoreSteps, FailedMeansUnpublished, NeverAhead
=============================================================================
