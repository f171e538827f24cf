------------------------- MODULE VerifyCommandProofs -------------------------
(***************************************************************************)
(* For any number of verify commands, one after the other: exit status 0   *)
(* is earned, and no command writes into the bundle of another.            *)
(***************************************************************************)
EXTENDS VerifyCommand, TLAPS

-----------------------------------------------------------------------------
(* The inductive invariant. *)
OneActive == \A c, d \in Commands : Active(c) /\ Active(d) => c = d

OwnBundle(c) == [by |-> c, whole |-> TRUE]

(* While a command is at work, output/bundle is what it made of it. *)
BundleIsOwn ==
  \A c \in Commands :
    /\ pc[c] = "writing" => bundle = None
    /\ pc[c] = "filling" => bundle = [by |-> c, whole |-> FALSE]
    /\ pc[c] \in {"bundled", "running"} => bundle = OwnBundle(c)

(* A subprocess belongs to a command that waits for it or was killed.      *)
RunnerIsStarted ==
  \A c \in Commands :
    /\ pc[c] \in {"idle", "prepared", "writing", "filling", "bundled"} => runner[c] = "none"
    /\ runner[c] \in {"starting", "executing", "writing", "written"}
         => pc[c] \in {"running", "killed"}

(* A subprocess that is waited for has read the command's own bundle.      *)
LoadedIsOwn ==
  \A c \in Commands :
    pc[c] = "running" /\ runner[c] \in {"executing", "writing", "written", "returned"}
      => loaded[c] = OwnBundle(c)

NobodyKilled == \A d \in Commands : pc[d] # "killed"

(* Without subprocesses left behind, evidence is what the last one wrote.  *)
EvidenceIsOwn ==
  NobodyKilled =>
    \A c \in Commands :
      /\ pc[c] = "running" /\ runner[c] = "writing" => evidence = Torn
      /\ pc[c] = "running" /\ runner[c] \in {"written", "returned"} => evidence = Document(c)

IInv ==
  /\ TypeOK
  /\ OneActive
  /\ BundleIsOwn
  /\ RunnerIsStarted
  /\ LoadedIsOwn
  /\ EvidenceIsOwn
  /\ ExitZeroIsEarned

-----------------------------------------------------------------------------
LEMMA InitIInv == Init => IInv
  BY DEF Init, IInv, TypeOK, OneActive, Active, BundleIsOwn, RunnerIsStarted,
         LoadedIsOwn, EvidenceIsOwn, ExitZeroIsEarned

LEMMA PrepareIInv ==
  ASSUME IInv, NEW c \in Commands, Prepare(c)
  PROVE  IInv'
  BY DEF Prepare, Goto, dirVars, runnerVars, IInv, TypeOK, OneActive, Active, Ended,
         Quiet, BundleIsOwn, RunnerIsStarted, LoadedIsOwn, EvidenceIsOwn,
         ExitZeroIsEarned

LEMMA CheckBundleIInv ==
  ASSUME IInv, NEW c \in Commands, CheckBundle(c)
  PROVE  IInv'
  BY DEF CheckBundle, Goto, dirVars, runnerVars, IInv, TypeOK, OneActive, Active,
         Ended, BundleIsOwn, RunnerIsStarted, LoadedIsOwn, EvidenceIsOwn,
         ExitZeroIsEarned

LEMMA WriteFailsIInv ==
  ASSUME IInv, NEW c \in Commands, WriteFails(c)
  PROVE  IInv'
  BY DEF WriteFails, Goto, dirVars, runnerVars, IInv, TypeOK, OneActive, Active,
         Ended, BundleIsOwn, RunnerIsStarted, LoadedIsOwn, EvidenceIsOwn,
         ExitZeroIsEarned

LEMMA RunnerUnavailableIInv ==
  ASSUME IInv, NEW c \in Commands, RunnerUnavailable(c)
  PROVE  IInv'
  BY DEF RunnerUnavailable, Goto, dirVars, runnerVars, IInv, TypeOK, OneActive,
         Active, Ended, BundleIsOwn, RunnerIsStarted, LoadedIsOwn, EvidenceIsOwn,
         ExitZeroIsEarned

LEMMA EvidenceInvalidIInv ==
  ASSUME IInv, NEW c \in Commands, EvidenceInvalid(c)
  PROVE  IInv'
  BY DEF EvidenceInvalid, Goto, RunnerOver, dirVars, runnerVars, IInv, TypeOK,
         OneActive, Active, Ended, BundleIsOwn, RunnerIsStarted, LoadedIsOwn,
         EvidenceIsOwn, ExitZeroIsEarned

LEMMA RunnerReturnsIInv ==
  ASSUME IInv, NEW c \in Commands, RunnerReturns(c)
  PROVE  IInv'
  BY DEF RunnerReturns, dirVars, runnerVars, IInv, TypeOK, OneActive, Active, Ended,
         BundleIsOwn, OwnBundle, RunnerIsStarted, LoadedIsOwn, EvidenceIsOwn,
         NobodyKilled, Document, ExitZeroIsEarned

LEMMA RunnerDiesIInv ==
  ASSUME IInv, NEW c \in Commands, RunnerDies(c)
  PROVE  IInv'
  BY DEF RunnerDies, dirVars, runnerVars, IInv, TypeOK, OneActive, Active, Ended,
         BundleIsOwn, RunnerIsStarted, LoadedIsOwn, EvidenceIsOwn, NobodyKilled,
         ExitZeroIsEarned

LEMMA KillIInv ==
  ASSUME IInv, NEW c \in Commands, Kill(c)
  PROVE  IInv'
  BY DEF Kill, Goto, dirVars, runnerVars, IInv, TypeOK, OneActive, Active, Ended,
         BundleIsOwn, RunnerIsStarted, LoadedIsOwn, EvidenceIsOwn, ExitZeroIsEarned

LEMMA UserClearsBundleIInv ==
  ASSUME IInv, UserClearsBundle
  PROVE  IInv'
  BY DEF UserClearsBundle, runnerVars, IInv, TypeOK, OneActive, Active, Ended, Quiet,
         BundleIsOwn, OwnBundle, RunnerIsStarted, LoadedIsOwn, EvidenceIsOwn,
         NobodyKilled, ExitZeroIsEarned

LEMMA UserClearsOutputIInv ==
  ASSUME IInv, UserClearsOutput
  PROVE  IInv'
  BY DEF UserClearsOutput, runnerVars, IInv, TypeOK, OneActive, Active, Ended, Quiet,
         BundleIsOwn, OwnBundle, RunnerIsStarted, LoadedIsOwn, EvidenceIsOwn,
         NobodyKilled, ExitZeroIsEarned

LEMMA WriteBundleIInv ==
  ASSUME IInv, NEW c \in Commands, WriteBundle(c)
  PROVE  IInv'
  <1>1. TypeOK'
    BY DEF WriteBundle, Goto, runnerVars, IInv, TypeOK, BundleStates
  <1>2. OneActive'
    BY DEF WriteBundle, Goto, IInv, TypeOK, OneActive, Active, Ended
  <1>3. BundleIsOwn'
    BY DEF WriteBundle, Goto, dirVars, runnerVars, IInv, TypeOK, OneActive, Active,
           Ended, BundleIsOwn, OwnBundle
  <1>4. RunnerIsStarted'
    BY DEF WriteBundle, Goto, runnerVars, IInv, TypeOK, RunnerIsStarted
  <1>5. LoadedIsOwn'
    BY DEF WriteBundle, Goto, runnerVars, IInv, TypeOK, LoadedIsOwn
  <1>6. EvidenceIsOwn'
    BY DEF WriteBundle, Goto, IInv, TypeOK, EvidenceIsOwn, OneActive, Active, Ended
  <1>7. ExitZeroIsEarned'
    BY DEF WriteBundle, Goto, runnerVars, IInv, TypeOK, ExitZeroIsEarned
  <1> QED
    BY <1>1, <1>2, <1>3, <1>4, <1>5, <1>6, <1>7 DEF IInv

LEMMA StartRunnerIInv ==
  ASSUME IInv, NEW c \in Commands, StartRunner(c)
  PROVE  IInv'
  <1>1. TypeOK'
    BY DEF StartRunner, Goto, dirVars, IInv, TypeOK
  <1>2. OneActive'
    BY DEF StartRunner, Goto, IInv, OneActive, Active, Ended
  <1>3. BundleIsOwn'
    BY DEF StartRunner, Goto, dirVars, IInv, BundleIsOwn
  <1>4. RunnerIsStarted'
    BY DEF StartRunner, Goto, IInv, TypeOK, RunnerIsStarted
  <1>5. LoadedIsOwn'
    BY DEF StartRunner, Goto, IInv, LoadedIsOwn, RunnerIsStarted
  <1>6. EvidenceIsOwn'
    BY DEF StartRunner, Goto, IInv, EvidenceIsOwn, RunnerIsStarted, OneActive, Active,
           Ended
  <1>7. ExitZeroIsEarned'
    BY DEF StartRunner, Goto, IInv, ExitZeroIsEarned
  <1> QED
    BY <1>1, <1>2, <1>3, <1>4, <1>5, <1>6, <1>7 DEF IInv

LEMMA RunnerLoadsIInv ==
  ASSUME IInv, NEW c \in Commands, RunnerLoads(c)
  PROVE  IInv'
  <1>1. TypeOK'
    BY DEF RunnerLoads, dirVars, IInv, TypeOK
  <1>2. OneActive'
    BY DEF RunnerLoads, IInv, OneActive, Active, Ended
  <1>3. BundleIsOwn'
    BY DEF RunnerLoads, dirVars, IInv, BundleIsOwn
  <1>4. RunnerIsStarted'
    BY DEF RunnerLoads, IInv, RunnerIsStarted
  <1>5. LoadedIsOwn'
    BY DEF RunnerLoads, Goto, dirVars, runnerVars, IInv, TypeOK, LoadedIsOwn,
           RunnerIsStarted, BundleIsOwn
  <1>6. EvidenceIsOwn'
    BY DEF RunnerLoads, IInv, EvidenceIsOwn, NobodyKilled, RunnerIsStarted, OneActive,
           Active, Ended
  <1>7. ExitZeroIsEarned'
    BY DEF RunnerLoads, Goto, dirVars, runnerVars, IInv, ExitZeroIsEarned,
           RunnerIsStarted
  <1> QED
    BY <1>1, <1>2, <1>3, <1>4, <1>5, <1>6, <1>7 DEF IInv

LEMMA OpenEvidenceIInv ==
  ASSUME IInv, NEW c \in Commands, OpenEvidence(c)
  PROVE  IInv'
  <1>1. TypeOK'
    BY DEF OpenEvidence, IInv, TypeOK
  <1>2. OneActive'
    BY DEF OpenEvidence, IInv, OneActive, Active, Ended
  <1>3. BundleIsOwn'
    BY DEF OpenEvidence, IInv, BundleIsOwn
  <1>4. RunnerIsStarted'
    BY DEF OpenEvidence, IInv, RunnerIsStarted
  <1>5. LoadedIsOwn'
    BY DEF OpenEvidence, IInv, LoadedIsOwn
  <1>6. EvidenceIsOwn'
    BY DEF OpenEvidence, IInv, EvidenceIsOwn, NobodyKilled, RunnerIsStarted,
           OneActive, Active, Ended
  <1>7. ExitZeroIsEarned'
    BY DEF OpenEvidence, IInv, ExitZeroIsEarned, RunnerIsStarted
  <1> QED
    BY <1>1, <1>2, <1>3, <1>4, <1>5, <1>6, <1>7 DEF IInv

LEMMA FillEvidenceIInv ==
  ASSUME IInv, NEW c \in Commands, FillEvidence(c)
  PROVE  IInv'
  <1>1. TypeOK'
    BY DEF FillEvidence, IInv, TypeOK, Documents, Document
  <1>2. OneActive'
    BY DEF FillEvidence, IInv, OneActive, Active, Ended
  <1>3. BundleIsOwn'
    BY DEF FillEvidence, IInv, BundleIsOwn
  <1>4. RunnerIsStarted'
    BY DEF FillEvidence, IInv, RunnerIsStarted
  <1>5. LoadedIsOwn'
    BY DEF FillEvidence, IInv, LoadedIsOwn
  <1>6. EvidenceIsOwn'
    BY MarkersAssumption DEF FillEvidence, IInv, TypeOK, EvidenceIsOwn,
                             NobodyKilled, RunnerIsStarted, OneActive, Active,
                             Ended, Document
  <1>7. ExitZeroIsEarned'
    BY DEF FillEvidence, IInv, ExitZeroIsEarned
  <1> QED
    BY <1>1, <1>2, <1>3, <1>4, <1>5, <1>6, <1>7 DEF IInv

LEMMA ReportIInv ==
  ASSUME IInv, NEW c \in Commands, Report(c)
  PROVE  IInv'
  <1>1. TypeOK'
    BY DEF Report, Goto, dirVars, runnerVars, IInv, TypeOK
  <1>2. OneActive'
    BY DEF Report, Goto, IInv, OneActive, Active, Ended
  <1>3. BundleIsOwn'
    BY DEF Report, Goto, IInv, TypeOK, OneActive, Active, Ended, BundleIsOwn
  <1>4. RunnerIsStarted'
    BY DEF Report, Goto, runnerVars, IInv, RunnerIsStarted, RunnerOver
  <1>5. LoadedIsOwn'
    BY DEF Report, Goto, IInv, TypeOK, LoadedIsOwn, BundleIsOwn, OwnBundle
  <1>6. EvidenceIsOwn'
    BY DEF Report, Goto, IInv, TypeOK, EvidenceIsOwn, OneActive, Active, Ended
  <1>7. ExitZeroIsEarned'
    BY DEF Report, Goto, runnerVars, IInv, TypeOK, ExitZeroIsEarned, LoadedIsOwn,
           EvidenceIsOwn, NobodyKilled, OwnBundle, Document, ReturnCodeIsZero
  <1> QED
    BY <1>1, <1>2, <1>3, <1>4, <1>5, <1>6, <1>7 DEF IInv

LEMMA StutterIInv == IInv /\ UNCHANGED vars => IInv'
  BY DEF vars, IInv, TypeOK, OneActive, Active, Ended, BundleIsOwn, RunnerIsStarted,
         LoadedIsOwn, EvidenceIsOwn, NobodyKilled, Document, ExitZeroIsEarned

LEMMA NextIInv == IInv /\ [Next]_vars => IInv'
  <1> SUFFICES ASSUME IInv, Next PROVE IInv'
    BY StutterIInv
  <1>1. ASSUME NEW c \in Commands, CommandStep(c) PROVE IInv'
    BY <1>1, PrepareIInv, CheckBundleIInv, WriteBundleIInv, WriteFailsIInv,
       RunnerUnavailableIInv, StartRunnerIInv, ReportIInv, EvidenceInvalidIInv
       DEF CommandStep
  <1>2. ASSUME NEW c \in Commands, RunnerStep(c) PROVE IInv'
    BY <1>2, RunnerLoadsIInv, OpenEvidenceIInv, FillEvidenceIInv, RunnerReturnsIInv,
       RunnerDiesIInv DEF RunnerStep
  <1>3. ASSUME NEW c \in Commands, Kill(c) PROVE IInv'
    BY <1>3, KillIInv
  <1> QED
    BY <1>1, <1>2, <1>3, UserClearsBundleIInv, UserClearsOutputIInv DEF Next

-----------------------------------------------------------------------------
(* The invariant holds for any number of commands and whatever fails.      *)
THEOREM Invariance == Spec => []IInv
  BY InitIInv, NextIInv, PTL DEF Spec

(* The variables keep their types. *)
THEOREM TypeCorrect == Spec => []TypeOK
  <1>1. IInv => TypeOK
    BY DEF IInv
  <1> QED
    BY <1>1, Invariance, PTL

(* verify exits with 0 only if its own subprocess, on its own whole        *)
(* bundle, passed; and, with nobody killed, on its own evidence.           *)
THEOREM ExitZeroIsReliable == Spec => []ExitZeroIsEarned
  <1>1. IInv => ExitZeroIsEarned
    BY DEF IInv
  <1> QED
    BY <1>1, Invariance, PTL

(* No command writes into what another has left in output/bundle. *)
THEOREM BundlesStayApart == Spec => BundlesDoNotMix
  <1> DEFINE Apart == bundle' # bundle => None \in {bundle, bundle'} \/ bundle'.by = bundle.by
  <1>1. IInv /\ [Next]_vars => [Apart]_vars
    <2> SUFFICES ASSUME IInv, Next PROVE Apart
      OBVIOUS
    <2>1. ASSUME NEW c \in Commands, WriteBundle(c) PROVE Apart
      <3>1. CASE pc[c] = "writing"
        BY <2>1, <3>1 DEF IInv, BundleIsOwn
      <3>2. CASE pc[c] = "filling"
        BY <2>1, <3>2 DEF WriteBundle, IInv, BundleIsOwn
      <3> QED
        BY <2>1, <3>1, <3>2 DEF WriteBundle
    <2>2. ASSUME NEW c \in Commands, CommandStep(c), ~WriteBundle(c) PROVE bundle' = bundle
      BY <2>2 DEF CommandStep, Prepare, CheckBundle, WriteFails, RunnerUnavailable,
                  StartRunner, Report, EvidenceInvalid, dirVars
    <2>3. ASSUME NEW c \in Commands, RunnerStep(c) PROVE bundle' = bundle
      BY <2>3 DEF RunnerStep, RunnerLoads, OpenEvidence, FillEvidence, RunnerReturns,
                  RunnerDies, dirVars
    <2>4. ASSUME NEW c \in Commands, Kill(c) PROVE bundle' = bundle
      BY <2>4 DEF Kill, dirVars
    <2>5. UserClearsBundle \/ UserClearsOutput => bundle' = None
      BY DEF UserClearsBundle, UserClearsOutput
    <2> QED
      BY <2>1, <2>2, <2>3, <2>4, <2>5 DEF Next
  <1> QED
    BY <1>1, Invariance, PTL DEF Spec, BundlesDoNotMix
=============================================================================
