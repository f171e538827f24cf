---------------------------- MODULE VerifyCommand ----------------------------
(***************************************************************************)
(* `dagwright verify` over one output directory: the compiled bundle goes  *)
(* to output/bundle, a spark-submit subprocess evaluates it and writes     *)
(* output/evidence.json, and the command reports what it finds there.      *)
(* Commands follow one another, any of them may be killed while its        *)
(* subprocess goes on, and the user removes output or output/bundle.       *)
(* What the subprocess computes is the subject of SparkRunner; how the     *)
(* bundle is written file by file, of ReviewBundle.                        *)
(***************************************************************************)
CONSTANTS
  Commands,             \* runs of verify, each with a workload of its own
  None,                 \* nothing there
  Torn                  \* an evidence file that was opened and not filled

ASSUME MarkersAssumption == Torn # None

VARIABLES
  bundle,               \* output/bundle: whose it is, and whether it is whole
  evidence,             \* output/evidence.json: by whom, and its verdict
  pc,                   \* per command
  runner,               \* its subprocess
  loaded,               \* the bundle the subprocess has read
  passed,               \* verificationPassed of its subprocess
  status                \* the evidence document the command reports on

dirVars == <<bundle, evidence>>
runnerVars == <<runner, loaded, passed>>
vars == <<bundle, evidence, pc, runner, loaded, passed, status>>

Ended(c) == pc[c] \in {"failed", "verified", "killed"}

Active(c) == pc[c] # "idle" /\ ~Ended(c)

(* The directory is nobody's but for a subprocess left behind. *)
Quiet == \A c \in Commands : ~Active(c)

Goto(c, label) == pc' = [pc EXCEPT ![c] = label]

Init ==
  /\ bundle = None
  /\ evidence = None
  /\ pc = [c \in Commands |-> "idle"]
  /\ runner = [c \in Commands |-> "none"]
  /\ loaded = [c \in Commands |-> None]
  /\ passed = [c \in Commands |-> FALSE]
  /\ status = [c \in Commands |-> None]

-----------------------------------------------------------------------------
(* The suite is parsed, the contract compiled and the two are bound, or    *)
(* one of these is refused before anything is written.                     *)
Prepare(c) ==
  /\ pc[c] = "idle"
  /\ Quiet
  /\ \E label \in {"prepared", "failed"} : Goto(c, label)
  /\ UNCHANGED <<dirVars, runnerVars, status>>

(* Mutant: only a finished bundle, one with a manifest, is refused. *)
CheckForManifest(c) ==
  /\ pc[c] = "prepared"
  /\ Goto(c, IF bundle = None \/ ~bundle.whole THEN "writing" ELSE "failed")
  /\ UNCHANGED <<dirVars, runnerVars, status>>

(* write_review_bundle looks at output/bundle, not at output. *)
CheckBundle(c) ==
  /\ pc[c] = "prepared"
  /\ Goto(c, IF bundle = None THEN "writing" ELSE "failed")
  /\ UNCHANGED <<dirVars, runnerVars, status>>

WriteBundle(c) ==
  /\ \/ pc[c] = "writing" /\ Goto(c, "filling")
     \/ pc[c] = "filling" /\ Goto(c, "bundled")
  /\ bundle' = [by |-> c, whole |-> pc[c] = "filling"]
  /\ UNCHANGED <<evidence, runnerVars, status>>

(* An OSError: what has been written stays. *)
WriteFails(c) ==
  /\ pc[c] \in {"writing", "filling"}
  /\ Goto(c, "failed")
  /\ UNCHANGED <<dirVars, runnerVars, status>>

(* spark-submit or the packaged runner is missing; the bundle stays. *)
RunnerUnavailable(c) ==
  /\ pc[c] = "bundled"
  /\ Goto(c, "failed")
  /\ UNCHANGED <<dirVars, runnerVars, status>>

StartRunner(c) ==
  /\ pc[c] = "bundled"
  /\ Goto(c, "running")
  /\ runner' = [runner EXCEPT ![c] = "starting"]
  /\ UNCHANGED <<dirVars, loaded, passed, status>>

(* The normalized contract and the generated job are read. *)
RunnerLoads(c) ==
  /\ runner[c] = "starting"
  /\ bundle # None
  /\ runner' = [runner EXCEPT ![c] = "executing"]
  /\ loaded' = [loaded EXCEPT ![c] = bundle]
  /\ UNCHANGED <<dirVars, pc, passed, status>>

(* Evaluation is over; write_bytes opens evidence.json and truncates it. *)
OpenEvidence(c) ==
  /\ runner[c] = "executing"
  /\ runner' = [runner EXCEPT ![c] = "writing"]
  /\ \E verdict \in BOOLEAN : passed' = [passed EXCEPT ![c] = verdict]
  /\ evidence' = Torn
  /\ UNCHANGED <<bundle, pc, loaded, status>>

Document(c) == [by |-> c, verified |-> passed[c]]

(* Once a command was killed two subprocesses may be at work at a time,    *)
(* and the file this one opened may be removed, or filled by the other.    *)
FillEvidence(c) ==
  /\ runner[c] = "writing"
  /\ runner' = [runner EXCEPT ![c] = "written"]
  /\ evidence' \in IF evidence = None THEN {None}
                   ELSE IF \E d \in Commands : pc[d] = "killed"
                   THEN {Document(c), evidence, Torn}
                   ELSE {Document(c)}
  /\ UNCHANGED <<bundle, pc, loaded, passed, status>>

RunnerReturns(c) ==
  /\ runner[c] = "written"
  /\ runner' = [runner EXCEPT ![c] = "returned"]
  /\ UNCHANGED <<dirVars, pc, loaded, passed, status>>

(* An exception, a missing file or a signal: a return code other than 0. *)
RunnerDies(c) ==
  /\ runner[c] \in {"starting", "executing", "writing", "written"}
  /\ runner' = [runner EXCEPT ![c] = "dead"]
  /\ UNCHANGED <<dirVars, pc, loaded, passed, status>>

RunnerOver(c) == runner[c] \in {"returned", "dead"}

ReturnCodeIsZero(c) == runner[c] = "returned" /\ passed[c]

(* Mutant: the evidence is not validated. *)
ReportUnread(c) ==
  /\ pc[c] = "running"
  /\ RunnerOver(c)
  /\ Goto(c, "failed")
  /\ status' = [status EXCEPT ![c] = evidence]
  /\ UNCHANGED <<dirVars, runnerVars>>

(* Mutant: the return code is left out. *)
ReportDocument(c) ==
  /\ pc[c] = "running"
  /\ RunnerOver(c)
  /\ evidence \notin {None, Torn}
  /\ status' = [status EXCEPT ![c] = evidence]
  /\ Goto(c, IF evidence.verified THEN "verified" ELSE "failed")
  /\ UNCHANGED <<dirVars, runnerVars>>

(* returncode != 0 or not evidence.verification_passed: exit 1 *)
Report(c) ==
  /\ pc[c] = "running"
  /\ RunnerOver(c)
  /\ evidence \notin {None, Torn}
  /\ status' = [status EXCEPT ![c] = evidence]
  /\ Goto(c, IF ReturnCodeIsZero(c) /\ evidence.verified THEN "verified" ELSE "failed")
  /\ UNCHANGED <<dirVars, runnerVars>>

(* Mutant: the subprocess is started again. *)
RunAgain(c) ==
  /\ pc[c] = "running"
  /\ RunnerOver(c)
  /\ evidence \in {None, Torn}
  /\ runner' = [runner EXCEPT ![c] = "starting"]
  /\ UNCHANGED <<dirVars, pc, loaded, passed, status>>

(* read_execution_evidence: no file, or not a document. *)
EvidenceInvalid(c) ==
  /\ pc[c] = "running"
  /\ RunnerOver(c)
  /\ evidence \in {None, Torn}
  /\ Goto(c, "failed")
  /\ UNCHANGED <<dirVars, runnerVars, status>>

-----------------------------------------------------------------------------
(* The command is killed; its subprocess need not be. *)
Kill(c) ==
  /\ Active(c)
  /\ Goto(c, "killed")
  /\ UNCHANGED <<dirVars, runnerVars, status>>

(* What the error message asks for, to run verify again. *)
UserClearsBundle ==
  /\ Quiet
  /\ bundle' = None
  /\ UNCHANGED <<evidence, pc, runnerVars, status>>

UserClearsOutput ==
  /\ Quiet
  /\ bundle' = None
  /\ evidence' = None
  /\ UNCHANGED <<pc, runnerVars, status>>

CommandStep(c) ==
  \/ Prepare(c)
  \/ CheckBundle(c)
  \/ WriteBundle(c)
  \/ WriteFails(c)
  \/ RunnerUnavailable(c)
  \/ StartRunner(c)
  \/ Report(c)
  \/ EvidenceInvalid(c)

RunnerStep(c) ==
  \/ RunnerLoads(c)
  \/ OpenEvidence(c)
  \/ FillEvidence(c)
  \/ RunnerReturns(c)
  \/ RunnerDies(c)

Next ==
  \/ \E c \in Commands : CommandStep(c) \/ RunnerStep(c) \/ Kill(c)
  \/ UserClearsBundle
  \/ UserClearsOutput

(* A started command goes on, and Spark comes to an end: subprocess.run    *)
(* waits for it without a timeout.  Nothing obliges anybody to start one.  *)
Fairness ==
  \A c \in Commands :
    /\ WF_vars(pc[c] # "idle" /\ CommandStep(c))
    /\ WF_vars(RunnerStep(c))

Spec == Init /\ [][Next]_vars /\ Fairness

-----------------------------------------------------------------------------
BundleStates == [by : Commands, whole : BOOLEAN]

Documents == [by : Commands, verified : BOOLEAN]

TypeOK ==
  /\ bundle \in BundleStates \cup {None}
  /\ evidence \in Documents \cup {None, Torn}
  /\ pc \in [Commands -> {"idle", "prepared", "writing", "filling", "bundled", "running",
                          "failed", "verified", "killed"}]
  /\ runner \in [Commands -> {"none", "starting", "executing", "writing", "written",
                              "returned", "dead"}]
  /\ loaded \in [Commands -> BundleStates \cup {None}]
  /\ passed \in [Commands -> BOOLEAN]
  /\ status \in [Commands -> Documents \cup {None}]

(* Exit status 0 is earned: the command's own subprocess ran, on a bundle  *)
(* that was whole and the command's own, and passed, whatever earlier runs *)
(* left in the directory or still do there; and unless an earlier command  *)
(* was killed the evidence it reports on is its own as well.               *)
ExitZeroIsEarned ==
  \A c \in Commands : pc[c] = "verified" =>
    /\ loaded[c] = [by |-> c, whole |-> TRUE]
    /\ passed[c]
    /\ status[c].verified
    /\ (\A d \in Commands : pc[d] # "killed") => status[c].by = c

(* No command writes into a bundle of another: what is left of one, whole  *)
(* or not, goes away before the next is written.                           *)
BundlesDoNotMix ==
  [][bundle' # bundle => None \in {bundle, bundle'} \/ bundle'.by = bundle.by]_vars

(* A command that was started comes to an end, whatever its subprocess,    *)
(* the disk and earlier commands do.                                       *)
CommandsEnd == \A c \in Commands : pc[c] # "idle" ~> Ended(c)
=============================================================================
