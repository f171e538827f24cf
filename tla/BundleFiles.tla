---------------------------- MODULE BundleFiles ----------------------------
(***************************************************************************)
(* Which files review.py build_review_bundle puts into a bundle.  Files    *)
(* with fixed names that always go together stand for one path; paths are  *)
(* <<directory, name>> with directories numbered in sorted order.          *)
(***************************************************************************)
EXTENDS Naturals, Sequences, SequencesExt

CONSTANT SafeName       \* transformation id -> _safe_name: '-' and '_' coincide

CapabilitiesPath == <<1, 1>>     \* adapters/airflow/capabilities.json
SparkPath == <<1, 2>>            \* adapters/spark/manifest.json, iceberg/tables.json
CorePath == <<2, 0>>             \* contract.normalized.json, pipeline.ir.json, plan.json
DagPath == <<3, 0>>              \* dags/*.py, adapters/airflow/manifest.json
JobPath(t) == <<4, SafeName[t]>> \* spark/{_safe_name(t)}.py

(* The contract digest inside a file makes its content that contract's. *)
File(path, role, c, job) ==
  [path |-> path, content |-> <<role, c.version, c.target, c.sql, job>>]

(* Airflow3Adapter.validate: task ids are made of _python_name, which maps *)
(* ids as _safe_name does; a task id shared by two nodes is a violation.   *)
TaskIdsCollide(transformations) ==
  \E t, u \in transformations : t # u /\ SafeName[t] = SafeName[u]

(* _prepare runs the Airflow adapter's validation for its targets only. *)
Accepted(c) == c.target = "spark" \/ ~TaskIdsCollide(c.transformations)

(* The capabilities are those of the adapter, whatever the contract. *)
AirflowFiles(c) ==
  <<[path |-> CapabilitiesPath, content |-> <<"capabilities", 0, "", <<>>, 0>>],
    File(DagPath, "dag", c, 0)>>

(* One job per SQL transformation, in the order of their ids, then metadata. *)
SparkFiles(c) ==
  [k \in 1..Len(c.sql) |-> File(JobPath(c.sql[k]), "job", c, c.sql[k])]
    \o <<File(SparkPath, "spark", c, 0)>>

PathPrecedes(f, g) ==
  \/ f.path[1] < g.path[1]
  \/ f.path[1] = g.path[1] /\ f.path[2] < g.path[2]

(* The bundle of an accepted contract: its files sorted by path. *)
BuildReviewBundle(c) ==
  SortSeq(<<File(CorePath, "core", c, 0)>>
            \o (IF c.target \in {"airflow", "all"} THEN AirflowFiles(c) ELSE <<>>)
            \o (IF c.target \in {"spark", "all"} THEN SparkFiles(c) ELSE <<>>),
          PathPrecedes)
=============================================================================
