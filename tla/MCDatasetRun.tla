----------------------------- MODULE MCDatasetRun -----------------------------
(* Instances of DatasetRun for TLC. *)
EXTENDS DatasetRun, TLC

Symmetry == Permutations(Items) \cup Permutations(SourceTraces)
              \cup Permutations(ListReaders) \cup Permutations(ReportReaders)
=============================================================================
