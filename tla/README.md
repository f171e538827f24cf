# DAGwright: specifications and proofs

DAGwright turns a declarative *DataProduct* contract into an intermediate representation (IR), a
plan, and a directory of generated Airflow and Spark files, and can verify a generated Spark job
against fixtures. This directory holds TLA+ specifications of that program, the TLC configurations
that check them on small instances, and proofs checked by TLAPS. Paths below are relative to the
repository; `dagwright/` is `src/dagwright/`.

## 1. The system

```
 contract (YAML/JSON)  overlays
        |                 |
   parse_contract --- apply_overlays        contracts/, overlays.py
        |
   load_validated_sql                       compiler/sql.py
        |
   compile_contract                         compiler/compile.py
     _validate_references -> _build_graph -> _detect_cycle -> _run_schema_hooks
        |  PipelineIR (nodes and edges with stable ids)
   Airflow3Adapter.validate/generate   SparkIcebergAdapter.generate   build_execution_plan
        |                                   |                              |
   build_review_bundle  (files sorted by path + manifest)            compiler/planning.py
        |
   write_review_bundle  ->  output directory  <-  inspect_manifest   review.py, validation.py
        |
   verify: spark-submit tools/run_reference_pipeline.py  ->  evidence.json
```

| Component | State | Operations | Must be right about |
|---|---|---|---|
| contract models, parsing | none (frozen models) | parse, cross-field validators | unique ids, one origin per asset |
| overlays | the document while patches are applied | overlap and identity checks, `_replace` | conflicts refused, order of arguments irrelevant |
| compiler | contract, IR | reference validation, graph, cycle check, hooks | no lookup fails; lineage neither lost nor invented; what compiles can be planned |
| planner | heap, in-degrees, order | lexicographical topological sort | complete, dependency-respecting, unique order; rejection only without one |
| Airflow adapter | none (the run of its DAG is Airflow's) | capability validation, rendering | the DAG is the IR; attempts as declared; no false success |
| Spark adapter | none | rendering | one file per job |
| review bundle | output directory | assemble, write file by file | a manifest vouches for the whole directory |
| inspect | manifest read, position | read and compare entries | never reports a failure of a bundle nobody touched |
| verify command | output/bundle, output/evidence.json, subprocess | prepare, write, run, read, report | exit 0 only if its own run passed |
| reference runner | Spark's temporary views, Iceberg table, results | load fixtures, attempts, quality, negative controls, verdict | controls isolated; a pass is earned, even by SQL that is not repeatable |
| release candidate tool | worklist, `build/release/<version>` | dependency closure, two builds, copies, checksums | closure exact, worklist ends; no file beside checksums that do not list it |

The program is synchronous Python. What makes it hard is not threads but (a) algorithms whose
guarantees later stages rely on without checking them again (lookups without guards, the planner
run on a graph another function accepted), and (b) directories and processes that outlive a
command: a compile writes many files and cleans nothing up when it stops; `inspect` reads them one
by one; `verify` leaves its bundle, its evidence and perhaps its subprocess behind for the next
command; a release candidate is built where an earlier one may have been left half done; the
generated DAG is run by a scheduler that interleaves its tasks as it likes; Spark's temporary views outlive the negative control that registered them. `hazards` in
PROJECT.json lists these with their lines.

## 2. Modules

| Module | Models | Corresponds to |
|---|---|---|
| `TopologicalOrder` | abstract: what a plan promises | - |
| `ExecutionPlan` | the planner, one heap operation per step | `build_execution_plan` and networkx's `lexicographical_topological_sort` (external, as used there) |
| `PipelineGraph` | pure operators: what `_validate_references` misses or refuses, nodes and edges of `_build_graph`, cycles | `compiler/compile.py` |
| `Compiler` | `compile_contract` as a sequence of phases; EXTENDS PipelineGraph and hands its IR to an INSTANCE of ExecutionPlan | `compiler/compile.py`, `cli.py` `_prepare` |
| `BundleFiles` | pure operators: paths and contents of the files of a bundle | `review.py` `build_review_bundle`, the adapters' file names |
| `Publication` | abstract: bundles appear at once and whole | - |
| `ReviewBundle` | writers, inspectors and a user at one output directory, one system call per step | `write_review_bundle`, `inspect_manifest` |
| `Overlays` | calls of `apply_overlays` with the same overlays in different orders | `overlays.py`, `cli.py` `_prepare` |
| `SparkRunner` | one verification inside Spark | `verification/validation.py`, `tools/run_reference_pipeline.py` `execute` |
| `AirflowDag` | the Airflow adapter on one IR, then a run of the DAG it generated | `adapters/airflow.py`, the template; Airflow's scheduler (external) |
| `ReleaseCandidate` | runs of the release tool over one output directory and a changing work tree | `tools/build_release_candidate.py` |
| `VerifyCommand` | verify commands and their subprocesses over one output directory | `cli.py` `verify_command`, `evidence.py`, the runner's `main` |

`MC*` modules give the instances for TLC, `*Proofs` modules the theorems. Mutants (plausible
mistakes, marked as such in comments) are kept beside the definition they spoil; they are used by
no specification and exist to show that a property can fail.

**Correspondence.**
- *ExecutionPlan.* `nodes` and `edges` are the IR's; `indegree` and `ready` are networkx's
  `indegree_map` (positive entries only, entries leave when they reach zero) and heap; `ordered` is
  the list being built. `Key` is the order of stable ids as strings. A rejected call returns no
  plan: `ordered` is emptied as the list is lost with the exception.
- *Compiler.* A contract is a record of sets and functions from names, the form in which sorting by
  unique name makes no difference. Names nobody declares are in the constant sets, so that lookups
  can fail: the phase "crashed" is a KeyError. `ir` holds nodes and `<<source, target, kind>>`
  edges; attributes that no decision depends on are left out. `HookRejects` may happen in any
  compile with hooks that have an edge to look at: what a hook decides is the caller's.
- *ReviewBundle.* `disk` maps paths to contents; opening and filling a file are two steps, the
  manifest comes last, and the manifest's content is the list of entries it was made from. `Stop`
  is an uncaught OSError or a kill between any two system calls. Users edit and clear: `edited` is
  the set of paths the user wrote since the last clean-up, and `overtaken` records the inspections
  that had read a manifest when the user cleaned up, which no later state shows; it is a history
  that only `NoFalseAlarm` looks at.
- *Overlays.* A document is a function from the paths of its nodes to "object", "list" or a scalar,
  a pointer the sequence of its tokens; `Located` is the descent of `_replace`. `IndexOf` is what
  `int` makes of a token, `IndexToken` how a document numbers its elements, so that one element
  can be written in two ways. `IsDataProduct` is the strict validation of the result. `pending` is the
  set of patches still to be applied: the one that comes first by overlay name and path (`First`) is
  next, which is what working through the sorted list amounts to. `Patches` keys the patches by
  their places in the arguments, for the conflicts are looked for between places, equal patches
  included. The calls of one state have the same overlays in any orders (`IsReordering`).
- *SparkRunner.* A query result is the data of the views it was computed over and a draw that
  stands for everything else it may depend on (always draw 0 if the SQL is `repeatable`). What
  `normalized_rows` makes of a table is its rows and the order they came in (always order 0 if
  `orderBy` leaves no ties: `ordered`). So each attempt draws rows and then an order, the read that
  is held against the expected rows (`actual`) is another one, of the same table with an order of its
  own, and a negative control, whose frame is the query and not its rows, evaluates the query once for
  each rule (`LazyFailing`). `breaks` says which quality rules the rows computed from a file break
  in each draw.
- *VerifyCommand.* A bundle is whose it is and whether it is whole (ReviewBundle has the detail), the
  evidence is who wrote it and its verdict. `Kill` ends the command and not its subprocess.
- *AirflowDag.* Stable ids (`Urns`) are a set with an order; what a node is called, `kind` and `name`, are fields of
  the node, as only the compiler makes the one out of the others. `PythonName` maps names as
  `_python_name` does. Stable ids are taken to be distinct.
  `dag` is the Python file as it executes: variables numbered in the order of stable ids, each with
  its task id and retries, and the `>>` between them; `manifest` is the document beside it. `state`
  and `tries` are Airflow's task instances. Airflow is modelled as far as the template uses it:
  no file with a cycle (`Cycles`) is imported, trigger rule `all_success`, a try while
  `tries <= retries`, `upstream_failed`, and a run whose state its leaves decide. `MCAirflowDag` takes IRs from PipelineGraph, for contracts that compile,
  and makes others that only a direct caller of the adapter can hand in (with `model_copy`, as the
  adapter's tests do).
- *ReleaseCandidate.* `pending` and `selected` are the locals of the worklist: which name is popped
  makes no difference to what is found, so any is. The lists of the lock are sets, as what the tool
  collects from them is sorted. `built` are the temporary directories, `todo` the files not yet
  copied or written, in the order of `Place`, `disk` the output directory; `rmtree` removes one file at a time in any order, each
  file is opened and then filled, and `Stop` is an error or a kill between any two steps. What a
  build leaves depends on the work tree and, for files that are not `steady`, on a draw.

## 3. Runs

| Run | Instance | Shows |
|---|---|---|
| `execution_plan` | every graph over 3 ids, self-loops and undeclared ends included, and every loop-free graph over 4 | the plan is the least topological order; rejection is exact; refinement of TopologicalOrder; termination |
| `compiler` | three families of contracts: undeclared names everywhere; every rule; three assets reading one another directly and through two transformations | no lookup fails, lineage is exact, cycles are the declared ones, what compiles is planned with inputs first |
| `review_bundle` | two compiles one after the other, an inspector, a user; contracts with one and with two Spark jobs, `--target all` | publication is atomic as far as a manifest reader can tell; inspecting a bundle nobody touched never fails; commands end |
| `overlays` | a contract with two sources; two overlays of one and of one or two patches, in both orders | one result for both orders; identity kept; every patch in effect and nothing else changed |
| `spark_runner` | suites that bind and that do not; two controls in a row, three attempts, four files good or bad; SQL or row order, or both, different from draw to draw | controls are isolated; a pass is earned by every attempt and every control; a sound job fails only for a wrong fixture, by name |
| `verify_command` | two commands | exit status 0 is earned, bundles do not mix, commands end |
| `airflow_dag` | the IRs of small contracts whose names coincide or not, retries 0 to 2, refused and accepted; IRs built by hand: attempts per node, bad ones among them, edges that lead nowhere or close a cycle, stable ids that say nothing of kinds and names, no node at all | the DAG read back through the manifest is the IR; attempts as declared, nothing tried before its dependencies succeed; every run with a task to try ends as failed |
| `release_candidate` | 32 locks of four packages, one in two versions; 17 trees that can or cannot be released; any number of runs | the closure is exact; checksums vouch for the directory; runs end |
| `compiler_references`, `review_bundle_spark`, `spark_runner_references`, `overlays_alias` | as above | violations: section 6 |

**Bounds and why they suffice.** Four ids give every shape of the sort's heap decisions (two ready
nodes, one released, one waiting for two); self-loops and undeclared ends are independent of the
rest and are covered with three. Three assets and two transformations give cycles of each length
through each kind of edge and a product of two transformations; a reference is declared or not,
so one undeclared name of each kind is enough. Two writers show everything one may leave for the
next, and a bundle of at least five files has a first, a middle and a last. Patches interact in pairs, and a third
shows that an overlay's own patches are ordered too; the pointers have every relation to one another and to the protected
fields, exist, do not, lead through a scalar and write an index in two ways. Two controls show
what one leaves to the next; three attempts tell "all agree" from "the last two agree". Two draws are
enough for two evaluations or reads to differ, and for one that agrees by luck. A second
verify command meets anything one command can leave: a bundle whole or not, evidence whole or not,
and a live subprocess; a third one only meets them together, and the theorems of
VerifyCommandProofs cover any number. Three names, two of which coincide, show every collision
within a kind and none across kinds; a diamond of four nodes has two tasks side by side, one above
and one below them. The locks have packages that depend on themselves, on each other, through one
of two versions only, on a name that is not locked and under a marker that does not hold; two trees
are what can lie on either side of a change, and the number of runs is not bounded.

**Fairness.** *ExecutionPlan:* one synchronous program, so weak fairness of its next step.
*ReviewBundle:* weak fairness of the steps of a writer that has started and of an
inspector that has started; nobody has to start, stop, edit or clear. *VerifyCommand:* weak
fairness of a started command and of the subprocess; the latter says that Spark comes to an end,
successfully or not, which the code needs since `subprocess.run` has no timeout. *AirflowDag:* weak
fairness of the steps of a run that was started (the scheduler's loop and bodies that raise at
once); nobody has to start one. *ReleaseCandidate:* weak fairness of the tool's steps, not of stops
or edits. *Compiler, Overlays and SparkRunner* have no liveness property: every action but the
final one moves them forward, and TLC's deadlock check shows that they stop nowhere else.

**Assumptions of the environment.** A user does not remove the output directory under a running
compile or verify. `Exclusive = TRUE` (ReviewBundle) and `Quiet` in `Prepare` (VerifyCommand) say that
commands that write follow one another; without, two compiles that both pass the check before
either writes go on to write into one directory. Likewise one run of the release tool at a time.
Files are written to a local disk; a crash of the machine that reorders writes is not considered.
Airflow itself refuses to import a DAG with a cycle: `compile_contract` makes none, but the adapter does not
look, so the runs and theorems of AirflowDag say nothing of acyclicity.

## 4. Proofs

*ExecutionPlanProofs*, for every finite set of ids and every graph. The invariant `IInv` adds to the
checked properties that the emitted sequence has no repeats, that a heap member has no predecessor
missing (`ReadyIsAvailable`), and that no member of a self-feeding set is ever emitted
(`CyclesStayOut`); the last two carry the two directions of "rejected exactly when cyclic":
when the heap runs dry the nodes not emitted each have one another as predecessors
(`LeftoverIsCyclic`), and a cycle never gets its first member out. From it follow TypeOK, the
order, completeness (`PlanIsComplete`), the counts (`CountsUnplacedPredecessors`), the choice of the least, the exactness of rejection, and
the refinement of TopologicalOrder. That the plan is the least of all topological orders
(`LeastOrder`) needs no induction: where another order leaves the plan for the first time
(`FirstPosition`), it places a node that was available there, and the plan took the least of those
(`PlanPrecedes`). Assumptions: `Ids` finite, `Key` injective.

*CompilerProofs*, for any contract over finite sets of names. The first half is about the operators of
PipelineGraph and needs no state: what `_validate_references` lets through (`IsResolved`) names only
what is declared and is named back; an edge of the graph is a declaration and a declaration is an
edge (`ArcIff`, from which `AssetFeeders`, `TransformationFeeders` and `CheckFeeders` say what leads
into each kind of node); and a cycle of nodes is a cycle of assets, in both directions
(`CycleOfAssets`, `CycleOfNodes`). The invariant says by phase what has been established (resolved,
built, searched for cycles), that the planner has not begun before there is an IR, and afterwards
that the planner's own invariant holds: `IInv` of ExecutionPlanProofs is used through an INSTANCE,
with its steps and its assumptions (`NodeIdsFinite`). `Plannable` is where the two meet: what
`_detect_cycle` calls acyclic, the planner never rejects.

*SparkRunnerProofs*, for any product, suite, data and draws. What makes isolation hard is that the views of one
negative control stay registered for the next. The invariant says what may be left over
(`SessionViews`: only views that the fixtures replace before anything is computed, so that
`LoadProperties` gives exactly the baseline with the control's replacements), that every attempt read
the baseline and left its rows in the table, that the comparison and the quality results are of that
table (`ChecksAreOfBaseline`), and that the evidence is the list of reasons (`EvidenceIsReasons`).
What an evaluation per rule can amount to is a lemma about operators (`LazyFailingIsVerdict`).
`PassEarned` takes "all digests agree" from the cardinality of a set of digests (`OneDigest`) and the
rows from the separate read, which is of the table of the last attempt: so every attempt had the
expected rows and all were read in one order, whichever of the two reads met a tie. That this order
is the one of the expected rows is not claimed; with ties it need not be. For repeatable, ordered
SQL the converse holds too: `MismatchNamed` says that a sound job passes unless its
expected-output fixture is wrong.

*OverlaysProofs*, for any contract, any overlays and any number of calls. `FirstIsOne` and `LocatedIsOne`
make the steps deterministic: of a set of patches without conflict one is first, and a pointer
leads to one node at most. To compare calls that are at different points of their work, the
invariant says that they share a *history* (`HistoryInv`): a function from what remained to be applied
to the document at that moment, whose remainders are nested and each of which follows from the
one before by applying its first patch. Each step extends the history or finds itself in it
(`HistoryGrows`); two finished calls have applied everything or were stuck at the same place
(`NoneIsAhead`), which is `AnyOrder`. The history stands in for the induction over the number of
patches. `CallInv` says of one call that identity fields are kept with all objects above them: a
pointer with an unusually written index has to go through a list, and there is none above an
identity field, so the textual check is enough (`Identities`); and that the patches applied so
far are in effect if indexes are written plainly (`Effects`). Assumptions: `Rank` is injective, an
index has one token in documents and that token its number, identity fields are paths.

*ReleaseCandidateProofs*, for any locks, trees and files. `ClosureInv` is the loop invariant of the worklist in
two halves: whatever is needed was found or its name is pending (`NothingForgotten`), and what was
found or is pending is in every closed set (`NothingUnneeded`); with an empty worklist the two make
the closure the least. `DirectoryInv` says what lies in the directory at every stage, file by file
with its content, and `SumsInv` carries what finished checksums vouch for across failed runs and the
removal of the directory, in whichever order its files go. `FlawInv` and the comparison of the two builds give
what a run that succeeds leaves. Assumptions: the order of writing is a total one with the two
reports last, and their names are not names of built files.

*ReviewBundleProofs*, for any bundles, writers, inspectors and user paths, under `Exclusive` and
`DistinctPaths` (no bundle has two files of one path: false for the Spark collision of section 6,
which is why it is a hypothesis). What is written is not whole until the manifest is: the
invariant says what the directory holds while a run is writing (`Holds`: the files completed so far
with their contents, the one being filled, nothing else), that one run writes at a time and that a
run not let in has written nothing. `PublishedIsWhole` follows as the manifest is the last file;
the refinement of Publication follows from the invariant step by step. `AlarmsAreJustified` needs a
second invariant, of the inspectors (`InspectorInv`): as long as an inspector is not overtaken by a
clean-up, every file its manifest lists is on disk with the listed content unless the user wrote
to that very path (`ReadersAreServed`), as no compile gets past the check while the manifest is there. A
file written before the manifest was read raises an alarm as well as one written after: the
property is about who changed the file, not about when.

*VerifyCommandProofs*, for any set of commands. `ExitZeroIsEarned` needs that the bundle belongs to
the command at work (`BundleIsOwn`), that a live subprocess has a waiting or killed command
(`RunnerIsStarted`), that it read the command's own bundle (`LoadedIsOwn`), and, while nobody was
killed, that the evidence is its own (`EvidenceIsOwn`).

*AirflowDagProofs*, for any finite set of stable ids, any `PythonName`, any injective `Key` and any IR. What
`Violations(ir) = {}` promises is split into three lemmas (`NodesAreSupported`, `EdgesResolve`,
`TaskIdsDiffer`); `IndexInjective`, from counting the smaller keys, makes the variables of the file
stand for one node each, and `ManifestNamesOne` the task ids. So what is rendered is the IR
(`RenderIsTheIR`). The invariant keeps the files as rendered (`FilesAreRendered`), fits the attempts
of a task to its state (`AttemptsFit`) and says that whatever was tried has all its upstream tasks in
success (`TriedAfterUpstream`); `TypeOK`, `DagIsTheIR` and `AttemptsAreDeclared` follow. That an edge
cycle is absent is neither assumed nor shown: the file of a cyclic IR is that IR as well.

**Model-checked only.** Liveness (`Terminates`, `CommandsEnd`, `RunsFail`, `RunsEnd`), as TLAPS does
not handle ENABLED; and the runs of section 6, each of which is a counterexample. Every invariant,
action property and refinement that a passing run checks is a theorem.

## 5. Not modelled

Parsing and scalar formats, SQL parsing (sqlglot), the text of generated files, canonical JSON bytes,
console output, schema generation, `doctor` and the golden-file tools: they keep no state and
decide nothing that the modelled parts depend on, beyond accepting or refusing their input. The
`warehouse` directory of verify is dropped by each run before use and holds nothing that is read
later.

## 6. Where code and documents disagree

Each is a run that TLC finds violated, with quotes in PROJECT.json `findings`.
1. `compiler_references`: the asset a `referential_integrity` rule refers to gets no edge in the IR; the
   plan may put the rule before it.
2. `review_bundle_spark`: ids `a-b` and `a_b` give one Spark path; the manifest lists two digests for
   it although the README says that every digest is checked.
3. `spark_runner_references`: an accepted suite may end in a KeyError, for a rule on the output that
   refers to an asset that is no input of the transformation.
4. `overlays_alias`: overlap is decided on text, list indexes are used as numbers: `/sources/0` and
   `/sources/00` are no conflict and patch one element.

Two observations that no run is spent on. When the user removes `output/bundle` but not
`output/evidence.json` and the subprocess of the next `verify` dies before it writes, the command
prints the verdict of the earlier evidence; its exit status is 1 nevertheless, by the return code
(`ExitZeroIsEarned`), so only the exit status can be relied on. And `build_release_candidate.py`
tries the wheel out after it has written SHA512SUMS: the directory of a candidate that fails there
looks like that of one that passed.

## 7. Plan

Done: all components that keep state or decide what later ones rely on (section 2), and for each of
them the proofs of its safety properties (section 4). Next, in this order:
1. The half of termination that is safety: a measure that every step of the planner, of the release
   tool's worklist, of a writer and of a DAG run decreases.
2. `DistinctPaths`, a hypothesis of ReviewBundleProofs, from the operators of BundleFiles: for which
   contracts it holds, and why the Airflow adapter's validation is what makes it so for `--target all`.
