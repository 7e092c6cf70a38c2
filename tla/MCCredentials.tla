---------------------------- MODULE MCCredentials ----------------------------
(* Two replicas through a rotation of both rings.                          *)
EXTENDS Credentials, TLC

CONSTANTS p1, p2

TwoReplicas == {p1, p2}
ReplicaSymmetry == Permutations(Replicas)

Ring(ring, current) == [ring |-> ring, current |-> current]
Deployed(sts, derived, org) == [sts |-> sts, derived |-> derived, org |-> org]

\* Derived keys are switched on, then each ring gets a key, is pointed at it, and loses the
\* old one.
FivePlan ==
    << Deployed(Ring({1}, 1), Off, NoOrg),
       Deployed(Ring({1, 2}, 1), Ring({1}, 1), "o"),
       Deployed(Ring({1, 2}, 2), Ring({1, 2}, 1), "o"),
       Deployed(Ring({2}, 2), Ring({1, 2}, 2), "o"),
       Deployed(Ring({2}, 2), Ring({2}, 2), "o") >>

\* A tenant that has not opted in yet, and one that has.
TwoSeeds == [tenant : {NoEpoch, 0}, subject : {NoEpoch}]

Id(prefix, kid) == [prefix |-> prefix, kid |-> kid, epoch |-> 1]
SomeStatics == {Id("plain", 0), Id("HFSA", 1), Id("HFST", 2)}
=============================================================================
