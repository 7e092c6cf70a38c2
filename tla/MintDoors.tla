------------------------------ MODULE MintDoors ------------------------------
(***************************************************************************)
(* The mint (src/src/mint.rs, src/src/webidentity.rs): two doors that      *)
(* exchange an OIDC token for a session.  The keys of the identity         *)
(* provider are cached, refreshed in the background and on a miss; the     *)
(* bearer door takes the tenant from the token, the web-identity door from *)
(* the role it is asked for, and accepts a token by its audience or        *)
(* because the bundle in force knows its client as a service account.      *)
(*                                                                         *)
(* A token is the record of what the checks read in it.  The provider      *)
(* rotates, fails and hangs, and the bundle and the routes are swapped,    *)
(* between any two steps of a call.                                        *)
(***************************************************************************)
EXTENDS Naturals, FiniteSets, Sequences

CONSTANTS
    Callers,      \* the connections of the listener
    Calls,        \* what each caller may ask: sets of [door, formed, token, tenant, named]
    KeySets,      \* the key sets the provider publishes, in order
    Audience,     \* audience, the bearer door's
    WebAudiences, \* web_identity_audiences
    Lower,        \* the lower-case spelling of every client's name
    Bundles,      \* bundles: the <<tenant, client>> pairs that are service accounts
    Tables,       \* routing tables: the organization of every tenant, or NoOrg
    NoOrg, NoKid, NoClaim, NoCall, Nobody

ASSUME MintDoorsAssumption ==
    /\ KeySets # <<>> /\ \A n \in 1..Len(KeySets) : KeySets[n] # {}
    /\ Bundles # {} /\ Tables # {}

VARIABLES
    idp,      \* the provider: how far it is in KeySets
    cache,    \* KeySource::Jwks.cache
    refresh,  \* the background refresh: [phase, keys]
    bundle,   \* the bundle in force
    routes,   \* the routing table in force
    call      \* per caller: [phase, ask, keys, answer, who, org, steady, knew, bound]

vars == <<idp, cache, refresh, bundle, routes, call>>

Kids == UNION {KeySets[n] : n \in 1..Len(KeySets)}
PublishedKeys == KeySets[idp]
Idle == [phase |-> "idle", ask |-> NoCall, keys |-> {}, answer |-> "none", who |-> Nobody,
         org |-> NoOrg, steady |-> FALSE, knew |-> {}, bound |-> {}]

Init ==
    /\ idp = 1
    /\ cache = {}
    /\ refresh = [phase |-> "tick", keys |-> {}]
    /\ bundle \in Bundles /\ routes \in Tables
    /\ call = [c \in Callers |-> Idle]

Running(c) == call[c].phase # "idle"
Token(c) == call[c].ask.token
Goto(c, phase) == call' = [call EXCEPT ![c].phase = phase]
Refuse(c, answer) == call' = [call EXCEPT ![c] = [Idle EXCEPT !.answer = answer]]
Mint(c, who, org) ==
    call' = [call EXCEPT ![c] = [Idle EXCEPT !.answer = "minted", !.who = who, !.org = org]]

-----------------------------------------------------------------------------
(* The provider and the control plane.  What a caller could have been      *)
(* answered at some moment of its call is remembered with the call.        *)

\* bundle_knows_service_account.
Knows(b, tenant, client) == client # NoClaim /\ <<tenant, client>> \in b

Clients(token) == {token.client, token.account}

Witness(ask, seen, n, b, t) ==
    [seen EXCEPT !.steady = @ /\ ask.token.kid \in KeySets[n],
                 !.knew = @ \cup {client \in Clients(ask.token) : Knows(b, ask.tenant, client)},
                 !.bound = IF ask.door = "web" THEN @ \cup {t[ask.tenant]} ELSE @]

Remember(n, b, t) ==
    call' = [c \in Callers |-> IF Running(c) THEN Witness(call[c].ask, call[c], n, b, t) ELSE call[c]]

Rotate ==
    /\ idp < Len(KeySets)
    /\ idp' = idp + 1
    /\ Remember(idp + 1, bundle, routes)
    /\ UNCHANGED <<cache, refresh, bundle, routes>>

Publish(b) ==
    /\ b # bundle /\ bundle' = b
    /\ Remember(idp, b, routes)
    /\ UNCHANGED <<idp, cache, refresh, routes>>

ApplyConfig(t) ==
    /\ t # routes /\ routes' = t
    /\ Remember(idp, bundle, t)
    /\ UNCHANGED <<idp, cache, refresh, bundle>>

-----------------------------------------------------------------------------
(* The background refresh (spawn_jwks_refresh, refresh_jwks).              *)

\* The provider answers with what it publishes, or wrongly with nothing.
RefreshFetch(keys) ==
    /\ refresh.phase = "tick"
    /\ refresh' = [phase |-> "fetched", keys |-> keys]
    /\ UNCHANGED <<idp, cache, bundle, routes, call>>

\* An empty answer is dropped unless there is nothing to lose.
RefreshCheck ==
    /\ refresh.phase = "fetched"
    /\ refresh' = IF refresh.keys = {} /\ cache # {} THEN [phase |-> "tick", keys |-> {}]
                  ELSE [refresh EXCEPT !.phase = "checked"]
    /\ UNCHANGED <<idp, cache, bundle, routes, call>>

\* Mutant: what was fetched is added to the cache.
RefreshStoreAdding ==
    /\ refresh.phase = "checked"
    /\ cache' = cache \cup refresh.keys
    /\ refresh' = [phase |-> "tick", keys |-> {}]
    /\ UNCHANGED <<idp, bundle, routes, call>>

RefreshStore ==
    /\ refresh.phase = "checked"
    /\ cache' = refresh.keys
    /\ refresh' = [phase |-> "tick", keys |-> {}]
    /\ UNCHANGED <<idp, bundle, routes, call>>

-----------------------------------------------------------------------------
(* A call.                                                                 *)

\* Mint::route and assume_role_from_params: a call of another shape is refused as it is.
Arrive(c, ask) ==
    /\ ~ Running(c)
    /\ IF ask.formed
       THEN call' = [call EXCEPT ![c] =
                Witness(ask, [Idle EXCEPT !.phase = "lookup", !.ask = ask, !.steady = TRUE],
                        idp, bundle, routes)]
       ELSE Refuse(c, "malformed")
    /\ UNCHANGED <<idp, cache, refresh, bundle, routes>>

\* Mutant: only the background refresh fetches keys.
LookupCached(c) ==
    /\ call[c].phase = "lookup"
    /\ IF Token(c).kid \in cache THEN Goto(c, "verify") ELSE Refuse(c, "nokey")
    /\ UNCHANGED <<idp, cache, refresh, bundle, routes>>

\* decoding_key, up to the fetch.
Lookup(c) ==
    /\ call[c].phase = "lookup"
    /\ CASE Token(c).kid = NoKid -> Refuse(c, "nokey")
         [] Token(c).kid \in cache -> Goto(c, "verify")
         [] OTHER -> Goto(c, "miss")
    /\ UNCHANGED <<idp, cache, refresh, bundle, routes>>

MissFetch(c, keys) ==
    /\ call[c].phase = "miss"
    /\ call' = [call EXCEPT ![c].phase = "fetched", ![c].keys = keys,
                            ![c].steady = @ /\ keys # {}]
    /\ UNCHANGED <<idp, cache, refresh, bundle, routes>>

\* Mutant: the client waits for the provider as long as it takes.
MissFailsNever(c) == FALSE /\ UNCHANGED vars

\* The fetch fails, at the latest with jwks_timeout_secs: like an answer without keys.
MissFails(c) ==
    /\ call[c].phase = "miss"
    /\ call' = [call EXCEPT ![c].phase = "fetched", ![c].steady = FALSE]
    /\ UNCHANGED <<idp, cache, refresh, bundle, routes>>

\* The key is taken from the answer, and the answer kept only if it has the key.
MissStore(c) ==
    /\ call[c].phase = "fetched"
    /\ IF Token(c).kid \in call[c].keys
       THEN cache' = call[c].keys /\ call' = [call EXCEPT ![c].phase = "verify", ![c].keys = {}]
       ELSE Refuse(c, "nokey") /\ UNCHANGED cache
    /\ UNCHANGED <<idp, refresh, bundle, routes>>

\* StandardVerifier::verify, extract and Mint::mint: audience and claims are the token's.
VerifyBearer(c) ==
    /\ call[c].phase = "verify" /\ call[c].ask.door = "bearer"
    /\ IF Token(c).valid = "yes" /\ Token(c).aud = Audience /\ Token(c).sub # NoClaim
       THEN Mint(c, <<"user", Token(c).sub>>, Token(c).org)
       ELSE Refuse(c, "denied")
    /\ UNCHANGED <<idp, cache, refresh, bundle, routes>>

AcceptedAudiences == IF WebAudiences = {} THEN {Audience} ELSE WebAudiences

\* audience_is_accepted: the audience, or the client, is a configured one.
AudienceIsAccepted(token) == {token.aud, token.client} \cap AcceptedAudiences # {}

\* addressed_to_this_gateway: by the audience, else by the bundle in force.
Addressed(c) == AudienceIsAccepted(Token(c)) \/ Knows(bundle, call[c].ask.tenant, Token(c).client)

\* Mutant: a service account is named as its user name spells it.
ResolvePrincipalByName(token) ==
    CASE token.account \notin {NoClaim, ""} -> <<"sa", token.account>>
      [] token.account = "" \/ token.sub \in {NoClaim, ""} -> Nobody
      [] OTHER -> <<"user", token.sub>>

\* resolve_principal: a service account by the client's spelling of its name, if the user
\* name agrees but for case; else a user.
ResolvePrincipal(token) ==
    LET id == IF token.client = NoClaim THEN token.account ELSE token.client IN
    IF token.account # NoClaim
    THEN IF id # "" /\ Lower[id] = Lower[token.account] THEN <<"sa", id>> ELSE Nobody
    ELSE IF token.sub \in {NoClaim, ""} THEN Nobody ELSE <<"user", token.sub>>

\* Mutant: the tenant's route is looked up before the token is verified.
VerifyWebRouted(c) ==
    /\ call[c].phase = "verify" /\ call[c].ask.door = "web"
    /\ CASE routes[call[c].ask.tenant] = NoOrg -> Refuse(c, "AccessDenied")
         [] Token(c).valid = "expired" -> Refuse(c, "ExpiredToken")
         [] Token(c).valid = "no" \/ ~ Addressed(c) -> Refuse(c, "InvalidIdentityToken")
         [] OTHER -> Goto(c, "route")
    /\ UNCHANGED <<idp, cache, refresh, bundle, routes>>

\* verify_token, then the audience decision, then resolve_principal.
VerifyWeb(c) ==
    /\ call[c].phase = "verify" /\ call[c].ask.door = "web"
    /\ CASE Token(c).valid = "expired" -> Refuse(c, "ExpiredToken")
         [] Token(c).valid = "no" \/ ~ Addressed(c) -> Refuse(c, "InvalidIdentityToken")
         [] ResolvePrincipal(Token(c)) = Nobody -> Refuse(c, "IDPRejectedClaim")
         [] OTHER -> Goto(c, "route")
    /\ UNCHANGED <<idp, cache, refresh, bundle, routes>>


\* route_snapshot: the table in force.
Organization(c) == routes[call[c].ask.tenant]

\* check_role_name, then the route, then the session for the route's organization.
Route(c) ==
    /\ call[c].phase = "route"
    /\ IF call[c].ask.named /\ routes[call[c].ask.tenant] # NoOrg
       THEN Mint(c, ResolvePrincipal(Token(c)), Organization(c))
       ELSE Refuse(c, "AccessDenied")
    /\ UNCHANGED <<idp, cache, refresh, bundle, routes>>

\* Mutant: the connection is let go without its call.
DropDetached(c) ==
    /\ call[c].phase = "miss"
    /\ call' = [call EXCEPT ![c].ask = NoCall, ![c].answer = "dropped"]
    /\ UNCHANGED <<idp, cache, refresh, bundle, routes>>

\* The connection outlives its bound, or the client goes: the call ends where it waits.
Drop(c) ==
    /\ call[c].phase = "miss"
    /\ Refuse(c, "dropped")
    /\ UNCHANGED <<idp, cache, refresh, bundle, routes>>

-----------------------------------------------------------------------------

Step(c) == Lookup(c) \/ MissFails(c) \/ MissStore(c) \/ VerifyBearer(c) \/ VerifyWeb(c) \/ Route(c)

Next ==
    \/ Rotate
    \/ \E b \in Bundles : Publish(b)
    \/ \E t \in Tables : ApplyConfig(t)
    \/ \E keys \in {PublishedKeys, {}} :
        \/ RefreshFetch(keys)
        \/ \E c \in Callers : MissFetch(c, keys)
    \/ RefreshCheck
    \/ RefreshStore
    \/ \E c \in Callers : Step(c) \/ Drop(c) \/ \E ask \in Calls[c] : Arrive(c, ask)

Spec == Init /\ [][Next]_vars

\* The timer of the refresh fires, and the provider answers it rightly once in a while; a
\* call goes on, its fetch ends by its timeout, whatever the provider does.
FairSpec ==
    /\ Spec
    /\ WF_vars(RefreshCheck) /\ WF_vars(RefreshStore)
    /\ SF_vars(RefreshFetch(PublishedKeys))
    /\ \A c \in Callers : WF_vars(Step(c))

-----------------------------------------------------------------------------
(* Properties.                                                             *)

TypeOK ==
    /\ idp \in 1..Len(KeySets) /\ cache \subseteq Kids
    /\ refresh.phase \in {"tick", "fetched", "checked"} /\ refresh.keys \subseteq Kids
    /\ bundle \in Bundles /\ routes \in Tables
    /\ \A c \in Callers :
        /\ call[c].phase \in {"idle", "lookup", "miss", "fetched", "verify", "route"}
        /\ call[c].keys \subseteq Kids
        /\ call[c].ask \in IF Running(c) THEN Calls[c] ELSE {NoCall}

\* The step answers the call of c.
Answers(c, answers) == Running(c) /\ call'[c].phase = "idle" /\ call'[c].answer \in answers

\* Whatever refreshes and other calls do to the cache meanwhile, a token is refused for want
\* of its key only if the provider did not publish the key all through the call, or did not
\* answer the call's own fetch.
RefusedOnlyIfUnpublished ==
    [][\A c \in Callers : Answers(c, {"nokey"}) => ~ call[c].steady]_vars

\* "What must NOT happen before the token is verified is the routing lookup": an answer that
\* depends on a tenant's route is given only for a valid token addressed to this gateway by
\* its audience, or by a bundle that was in force during the call.
RoutesAreHidden ==
    [][\A c \in Callers : Answers(c, {"AccessDenied", "minted"}) /\ call[c].ask.door = "web" =>
          /\ Token(c).valid = "yes"
          /\ (AudienceIsAccepted(Token(c)) \/ Token(c).client \in call[c].knew)]_vars


\* A token that only the bundle makes acceptable gives a session as a service account only as
\* one that a bundle in force during the call knew.
BundleVouchesForAccount ==
    [][\A c \in Callers : Answers(c, {"minted"}) /\ call[c].ask.door = "web" =>
          \/ AudienceIsAccepted(Token(c))
          \/ call'[c].who[1] = "user"
          \/ call'[c].who[2] \in call[c].knew]_vars

\* A key the provider has retired is forgotten in the end, although a slow fetch may bring it
\* back into the cache after a refresh.
RetiredKeyForgotten == \A k \in Kids : <>[](k \notin PublishedKeys) => <>[](k \notin cache)

\* A call is answered although the provider hangs ("an unbounded client lets one hung IdP
\* hang every credential request behind it").
CallsAreAnswered == \A c \in Callers : Running(c) ~> ~ Running(c)

=============================================================================
