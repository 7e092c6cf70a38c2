--------------------------- MODULE MCRequestPath ---------------------------
(* Two tenants and two buckets; requests of every kind, one after the      *)
(* other, over one pool, while bundles and configurations are swapped.     *)
EXTENDS RequestPath, TLC

CONSTANTS t1, t2, b1, b2, r1

Route(backend, key, secret, org) ==
    [backend |-> backend, key |-> key, secret |-> secret, org |-> org]

TwoTenants == {t1, t2}
TwoBuckets == {b1, b2}

\* Apart; sharing one identity, the secret rotated; one moved to another backend, one gone.
Apart == (t1 :> Route("x", "k1", 1, "o1")) @@ (t2 :> Route("x", "k2", 1, "o2"))
Sharing == (t1 :> Route("x", "k1", 2, "o1")) @@ (t2 :> Route("x", "k1", 2, "o2"))
Moved == (t1 :> Route("y", "k1", 1, "o1")) @@ (t2 :> NoRoute)
SomeConfigs == {Apart, Sharing, Moved}

Document(version, claims2, quota, tags) ==
    [version |-> version, backend |-> "x", tenants |-> "objects",
     claims |-> (b1 :> {t1}) @@ (b2 :> claims2), quota |-> quota, tags |-> tags]

\* None placed; both buckets the first tenant's; the second one contested; unreadable ones.
SomeDocuments ==
    {Document("old", {t1}, FALSE, TRUE), Document("placing", {t1}, TRUE, TRUE),
     Document("placing", {t1, t2}, FALSE, FALSE), Document("garbled", {t1}, FALSE, FALSE)}

Known(t) == [tenant |-> t, credential |-> "known", enforced |-> TRUE]
SomeCallers ==
    {Known(t1), [Known(t1) EXCEPT !.credential = "anonymous"],
     [Known(t1) EXCEPT !.credential = "rejected"], [Known(t1) EXCEPT !.enforced = FALSE]}

OneRequest == {r1}
=============================================================================
