---------------------------- MODULE MCQuotaLedger ----------------------------
(* Small instances of QuotaLedger.                                         *)
EXTENDS QuotaLedger, TLC

CONSTANTS w1, w2

TwoWriters == {w1, w2}

\* Two buckets of one tenant on one backend.
TwoBuckets == {[bucket |-> b, tenant |-> "t", backend |-> "k"] : b \in {"b1", "b2"}}
OneBucket == {[bucket |-> "b1", tenant |-> "t", backend |-> "k"]}

BucketLevel == {<<"bucket", "b1">>}
BothBuckets == {<<"bucket", "b1">>, <<"bucket", "b2">>}
BucketAndTenant == {<<"bucket", "b1">>, <<"tenant", "t">>}

WriterSymmetry == Permutations(Writers)

=============================================================================
