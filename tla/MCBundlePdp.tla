----------------------------- MODULE MCBundlePdp -----------------------------
(* Small instances of BundlePdp.                                           *)
EXTENDS BundlePdp, TLC

CONSTANTS r1, r2

Document(policy, data) == [policy |-> policy, data |-> data, parses |-> TRUE, compiles |-> TRUE]

\* Three documents that can be installed, one without a module, and one that cannot.
FourDocuments ==
    {Document("none", 1), Document("m", 2), Document("none", 3),
     [policy |-> "broken", data |-> 4, parses |-> TRUE, compiles |-> FALSE]}
FiveDocuments ==
    FourDocuments \cup {[policy |-> "none", data |-> 5, parses |-> FALSE, compiles |-> TRUE]}

Boot == Document("none", 1)

\* Two documents with the same module.
TwoDocuments == {Document("m", 1), Document("m", 2)}
BootOfTwo == Document("m", 1)

TwoRequests == {r1, r2}
RequestSymmetry == Permutations(Requests)

=============================================================================
