--------------------------- MODULE MCAuditPipeline ---------------------------
(* Small instances of AuditPipeline.                                       *)
EXTENDS AuditPipeline, TLC

CONSTANTS a1, a2, a3

TwoRecords == {a1, a2}
ThreeRecords == {a1, a2, a3}
RecordSymmetry == Permutations(Records)

=============================================================================
