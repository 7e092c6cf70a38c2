----------------------------- MODULE MCMintDoors -----------------------------
(* Two callers, a provider that rotates once, one tenant.                  *)
EXTENDS MintDoors, TLC

CONSTANTS c1, c2

TwoCallers == {c1, c2}

\* The provider replaces its key.
Rotation == << {1}, {2} >>

Tok(kid, valid, aud) ==
    [kid |-> kid, valid |-> valid, aud |-> aud, client |-> NoClaim, account |-> NoClaim,
     sub |-> "u", org |-> "claimed"]
Ask(door, token) ==
    [door |-> door, formed |-> TRUE, token |-> token, tenant |-> "t", named |-> TRUE]

\* The token of a service account only a bundle can accept.
Account(name) == [Tok(1, "yes", "account") EXCEPT !.client = "Ci", !.account = name]

\* One caller is a user with the new key.  The other has the old one: a service account, or
\* somebody refused, for one reason each.
SomeCalls ==
    ( c1 :> {Ask("bearer", Tok(2, "yes", "s0"))} ) @@
    ( c2 :> { Ask("web", Account("ci")),
              Ask("web", Account("other")),
              Ask("web", Tok(1, "expired", "web")),
              Ask("web", [Account("ci") EXCEPT !.valid = "no"]),
              Ask("web", Tok(NoKid, "yes", "web")),
              Ask("bearer", Tok(1, "yes", "web")),
              [Ask("web", Tok(1, "yes", "web")) EXCEPT !.named = FALSE],
              [Ask("web", Tok(1, "yes", "web")) EXCEPT !.formed = FALSE] } )

\* The registered spelling, and the one of the provider's user names.
Spellings == [name \in {"Ci", "ci", "other"} |-> IF name = "Ci" THEN "ci" ELSE name]

TwoBundles == { {}, {<<"t", "Ci">>} }
TwoTables == [{"t"} -> {NoOrg, "o"}]
=============================================================================
