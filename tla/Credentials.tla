----------------------------- MODULE Credentials -----------------------------
(***************************************************************************)
(* The credentials a fleet of replicas honours (src/src/auth): STS         *)
(* sessions and long-lived derived keys, neither stored anywhere, both     *)
(* proved by a ring of master keys that every replica reads from its own   *)
(* configuration when it starts, and static keys from a list.              *)
(*                                                                         *)
(* Replicas are restarted one by one with the configurations of a plan,    *)
(* poll the bundle that revokes derived keys, and crash.  One session, or  *)
(* one consumer of derived keys, is watched: neither has a say in what     *)
(* becomes of the other.  Ids and tokens are as good as their MACs: a      *)
(* credential is the record of what went into it.  Time is relative: a     *)
(* session has so long left, the operator has waited so long.              *)
(***************************************************************************)
EXTENDS Integers, Sequences, FiniteSets

CONSTANTS
    Replicas,
    Plan,          \* the configurations deployed, in order: [sts, derived, org]
    Off,           \* the derived ring of a configuration without derived_keys
    NoOrg,         \* the organization of a tenant that is not routed
    SessionTtl,    \* sts.session_ttl_secs
    MaxSessionTtl, \* internal.max_session_ttl_secs
    MaxDuration,   \* sts_mint.max_duration_secs
    Durations,     \* the lifetimes callers ask for
    Leeway,        \* how far past its expiry a token is still taken
    MaxEpoch,      \* u32::MAX
    Seeds,         \* the epochs the bundle file may hold that replicas boot from
    Statics,       \* the ids of the static credential list
    NoSession, NoKey

NoEpoch == -1
Epochs == 0..MaxEpoch
Published == [tenant : Epochs \cup {NoEpoch}, subject : Epochs \cup {NoEpoch}]

Steps == 1..Len(Plan)
StsKids == UNION {Plan[n].sts.ring : n \in Steps}
DerivedKids == UNION {Plan[n].derived.ring : n \in {n \in Steps : Plan[n].derived # Off}}
Keys == [prefix : {"HFSA"}, kid : DerivedKids, epoch : Epochs]

\* validate_sts_key_ring and with_key_ring: the key that mints is named, and in the ring.
StsRingIsValid(c) == c.sts.current \in c.sts.ring

\* validate_derived_key_ring: the same, where the section is there.
DerivedRingIsValid(c) == c.derived # Off => c.derived.current \in c.derived.ring

\* No replica starts with a ring of another shape.  The operator adds a key one deployment
\* before it is pointed at, and takes neither the section nor the tenant away again.
ASSUME PlanAssumption ==
    /\ Plan # <<>>
    /\ \A n \in Steps : StsRingIsValid(Plan[n]) /\ DerivedRingIsValid(Plan[n])
    /\ \A n \in Steps \ {1} :
        /\ Plan[n].sts.current \in Plan[n - 1].sts.ring
        /\ Plan[n - 1].derived # Off =>
              Plan[n].derived # Off /\ Plan[n].derived.current \in Plan[n - 1].derived.ring
        /\ Plan[n - 1].org # NoOrg => Plan[n].org = Plan[n - 1].org

ASSUME CredentialsAssumption ==
    /\ SessionTtl \in Nat /\ MaxSessionTtl \in Nat \ {0} /\ MaxDuration \in Nat \ {0}
    /\ Durations \subseteq Nat /\ Leeway \in Nat /\ MaxEpoch \in Nat
    /\ Seeds \subseteq Published /\ Seeds # {}
    /\ IsFiniteSet(Replicas) /\ Replicas # {}

VARIABLES
    step,      \* the configuration being deployed
    waited,    \* how long every replica has run it
    seed,      \* the epochs of the bundle file replicas boot from
    replica,   \* per replica: the configuration it runs, its bundle, whether it is ready
    watch,     \* what is watched: a session, or a consumer of derived keys
    session,   \* the session under watch
    published, \* the epochs the control plane publishes
    spare,     \* the derived key minted last, not yet given to the consumer
    inUse,     \* the derived key the consumer uses
    landed     \* history: the highest floor that was once installed on every replica

vars == <<step, waited, seed, replica, watch, session, published, spare, inUse, landed>>
consumer == <<published, spare, inUse>>

Larger(a, b) == IF a > b THEN a ELSE b
Smaller(a, b) == IF a < b THEN a ELSE b

Config(r) == Plan[replica[r].config]

-----------------------------------------------------------------------------
(* STS sessions (auth/sts.rs).                                             *)

\* Mutant: the key that sorts first mints, whatever current_kid says.
CurrentKidFirst(r) == CHOOSE k \in Config(r).sts.ring : \A j \in Config(r).sts.ring : k <= j

CurrentKid(r) == Config(r).sts.current

\* derive_secret, and the ring of verify_session: every key of the ring verifies.
InRing(r, kid) == kid \in Config(r).sts.ring

\* verify_session: the key is in the ring, the token not expired, both name one key.
VerifySession(r, kid, token) ==
    /\ InRing(r, kid)
    /\ token.left >= 0 - Leeway
    /\ token.kid = kid

\* StsAuthority::mint.
Minted(r, ttl) == [kid |-> CurrentKid(r), left |-> ttl, ttl |-> ttl]

-----------------------------------------------------------------------------
(* Derived keys (auth/derived.rs, auth/mod.rs).                            *)

\* bundle_key_epoch_floor: the greater of the two, none unless the tenant has one.
KeyEpochFloor(b) ==
    IF b.tenant = NoEpoch THEN NoEpoch
    ELSE Larger(b.tenant, IF b.subject = NoEpoch THEN 0 ELSE b.subject)

Floor(r) == KeyEpochFloor(replica[r].bundle)

\* DerivedKeyAuthority::verify.
Verify(r, key) == Config(r).derived # Off /\ key.kid \in Config(r).derived.ring

\* Mutant: a key stamped at exactly the floor is already revoked.
AdmitAbove(r, key) ==
    Verify(r, key) /\ Floor(r) # NoEpoch /\ key.epoch > Floor(r) /\ Config(r).org # NoOrg

\* DerivedKeys::admit: verified, not below the floor in force, of a routed tenant.
Admit(r, key) ==
    Verify(r, key) /\ Floor(r) # NoEpoch /\ key.epoch >= Floor(r) /\ Config(r).org # NoOrg

-----------------------------------------------------------------------------
(* Identity::secret_key: which authority answers for an access-key id.     *)

\* Mutant: without derived keys their namespace falls through to the list.
SecretKeyFallingThrough(r, id) ==
    CASE id.prefix = "HFST" -> IF InRing(r, id.kid) THEN "sts" ELSE "none"
      [] id.prefix = "HFSA" /\ Config(r).derived # Off -> IF Admit(r, id) THEN "derived" ELSE "none"
      [] OTHER -> IF id \in Statics THEN "static" ELSE "none"

SecretKey(r, id) ==
    CASE id.prefix = "HFST" -> IF InRing(r, id.kid) THEN "sts" ELSE "none"
      [] id.prefix = "HFSA" -> IF Admit(r, id) THEN "derived" ELSE "none"
      [] OTHER -> IF id \in Statics THEN "static" ELSE "none"

\* A request signed with the session, or with a derived key, gets an identity: its secret is
\* found for the signature, and Identity::resolve then takes the credential itself.
SessionHonoured(r, s) ==
    SecretKey(r, [prefix |-> "HFST", kid |-> s.kid, epoch |-> 0]) = "sts" /\ VerifySession(r, s.kid, s)
KeyHonoured(r, key) == SecretKey(r, key) = "derived" /\ Admit(r, key)

-----------------------------------------------------------------------------

Init ==
    /\ step = 1 /\ waited = 0
    /\ seed \in Seeds
    /\ replica = [r \in Replicas |-> [config |-> 1, bundle |-> seed, ready |-> FALSE]]
    /\ watch \in {"session", "consumer"}
    /\ session = NoSession
    /\ published = seed
    /\ spare = NoKey /\ inUse = NoKey
    /\ landed = KeyEpochFloor(seed)

RolledOut == \A r \in Replicas : replica[r].config = step

Tick ==
    /\ waited' = IF RolledOut THEN Smaller(waited + 1, SessionTtl) ELSE 0
    /\ session' = IF session = NoSession THEN session
                  ELSE [session EXCEPT !.left = Larger(@ - 1, 0 - Leeway - 1)]
    /\ UNCHANGED <<seed, watch, step, replica, consumer, landed>>

-----------------------------------------------------------------------------
(* The operator.  A master key is deleted from the STS ring one            *)
(* session_ttl_secs after nothing mints under it any more, and from the    *)
(* derived ring once no key under it is out.                               *)

Deploy ==
    /\ step < Len(Plan) /\ RolledOut
    /\ Plan[step].sts.ring \subseteq Plan[step + 1].sts.ring \/ waited = SessionTtl
    /\ \A key \in {spare, inUse} \ {NoKey} : key.kid \in Plan[step + 1].derived.ring
    /\ step' = step + 1 /\ waited' = 0
    /\ UNCHANGED <<seed, watch, replica, session, consumer, landed>>

\* Mutant: the boot file counts as a poll.
RestartReady(r, n) ==
    /\ replica' = [replica EXCEPT ![r] = [config |-> n, bundle |-> seed, ready |-> TRUE]]
    /\ UNCHANGED <<seed, watch, step, waited, session, consumer, landed>>

\* A rollout or a crash: the rings come from the configuration, the bundle from the boot
\* file, and the replica is not ready before its first poll.
Restart(r, n) ==
    /\ replica' = [replica EXCEPT ![r] = [config |-> n, bundle |-> seed, ready |-> FALSE]]
    /\ UNCHANGED <<seed, watch, step, waited, session, consumer, landed>>

-----------------------------------------------------------------------------
(* The doors that mint sessions.                                           *)

\* clamp_ttl and clamp_duration: more than the ceiling is clamped, never refused.
Clamp(requested, ceiling) == Smaller(requested, ceiling)

\* What every door does with its lifetime.
MintSession(r, ttl) ==
    /\ watch = "session"
    /\ session' = Minted(r, ttl)
    /\ UNCHANGED <<seed, watch, step, waited, replica, consumer, landed>>

\* Mint::mint, with an OIDC token.
MintBearer(r) == MintSession(r, SessionTtl)

\* InternalApi::mint_session, for the organization the tenant is bound to; zero is refused.
MintInternal(r, requested) ==
    /\ requested > 0 /\ Config(r).org # NoOrg
    /\ MintSession(r, Clamp(requested, MaxSessionTtl))

\* default_duration_secs, for a caller that asks for nothing.
DefaultDuration == Larger(Smaller(SessionTtl, MaxDuration), 1)

\* WebIdentitySts::assume_role, with DurationSeconds or without.
AssumeRole(r, requested) ==
    /\ requested > 0 /\ Config(r).org # NoOrg
    /\ MintSession(r, Clamp(requested, MaxDuration))
AssumeRoleDefault(r) ==
    /\ Config(r).org # NoOrg
    /\ MintSession(r, Clamp(DefaultDuration, MaxDuration))

-----------------------------------------------------------------------------
(* Derived keys: the control plane mints, gives to the consumer, revokes.  *)

\* Mutant: the key is stamped one above the floor.
StampAbove(r, requested) == IF requested = NoEpoch THEN Floor(r) + 1 ELSE requested

\* The epoch DerivedKeys::mint stamps: the requested one, else the floor in force.
Stamp(r, requested) == IF requested = NoEpoch THEN Floor(r) ELSE requested

\* DerivedKeyAuthority::mint, under the current key.
MintedKey(r, epoch) == [prefix |-> "HFSA", kid |-> Config(r).derived.current, epoch |-> epoch]

\* DerivedKeys::mint, for the organization the tenant is bound to.
MintDerived(r, requested) ==
    /\ watch = "consumer"
    /\ Config(r).derived # Off /\ Config(r).org # NoOrg
    /\ Floor(r) # NoEpoch
    /\ Stamp(r, requested) >= Floor(r)
    /\ spare' = MintedKey(r, Stamp(r, requested))
    /\ UNCHANGED <<seed, watch, step, waited, replica, session, published, inUse, landed>>

\* The consumer is given the new key once every replica has a derived ring, unless the key
\* was revoked meanwhile.
Roll ==
    /\ spare # NoKey /\ spare.epoch >= KeyEpochFloor(published)
    /\ \A r \in Replicas : Config(r).derived # Off /\ Config(r).org # NoOrg
    /\ inUse' = spare /\ spare' = NoKey
    /\ UNCHANGED <<seed, watch, step, waited, replica, session, published, landed>>

\* Published epochs only rise.  A consumer whose key they pass is cut off on purpose.
Publish(b) ==
    /\ watch = "consumer"
    /\ b # published /\ b.tenant >= published.tenant /\ b.subject >= published.subject
    /\ published' = b
    /\ inUse' = IF inUse # NoKey /\ inUse.epoch < KeyEpochFloor(b) THEN NoKey ELSE inUse
    /\ UNCHANGED <<seed, watch, step, waited, replica, session, spare, landed>>

\* A poll installs what is published (refresh_once).
Poll(r) ==
    /\ replica' = [replica EXCEPT ![r].bundle = published, ![r].ready = TRUE]
    /\ landed' = LET floors == {KeyEpochFloor(replica'[q].bundle) : q \in Replicas}
                 IN  Larger(landed, CHOOSE f \in floors : \A g \in floors : f <= g)
    /\ UNCHANGED <<seed, watch, step, waited, session, consumer>>

Next ==
    \/ Tick
    \/ Deploy
    \/ \E r \in Replicas :
        \/ \E n \in {replica[r].config, step} : Restart(r, n)
        \/ Poll(r)
        \/ MintBearer(r)
        \/ \E d \in Durations : MintInternal(r, d) \/ AssumeRole(r, d)
        \/ AssumeRoleDefault(r)
        \/ \E e \in Epochs \cup {NoEpoch} : MintDerived(r, e)
    \/ Roll
    \/ \E b \in Published : Publish(b)

Spec == Init /\ [][Next]_vars

-----------------------------------------------------------------------------
(* Properties.                                                             *)

TypeOK ==
    /\ step \in Steps /\ waited \in 0..SessionTtl /\ seed \in Seeds
    /\ replica \in [Replicas -> [config : Steps, bundle : Published, ready : BOOLEAN]]
    /\ watch \in {"session", "consumer"}
    /\ session = NoSession \/
          /\ session.kid \in StsKids
          /\ session.left \in (0 - Leeway - 1)..session.ttl
    /\ published \in Published
    /\ {spare, inUse} \subseteq Keys \cup {NoKey}
    /\ landed \in Epochs \cup {NoEpoch}

\* "Rotating a master key must not invalidate live sessions": whichever replica minted it,
\* and however far each replica is in the rollout, a session is honoured by every replica
\* until it expires, if its lifetime is no longer than the session_ttl_secs the operator
\* waits for.
SessionSurvivesRotation ==
    session # NoSession /\ session.left > 0 /\ session.ttl <= SessionTtl =>
        \A r \in Replicas : SessionHonoured(r, session)

\* "mint at floor + 1, roll the consumer, then revoke" has no gap: the key in the consumer's
\* hands is honoured by every ready replica that has an epoch for the tenant, behind or
\* ahead in its polls and in the rollout of the ring.
ConsumerNeverCutOff ==
    inUse # NoKey =>
        \A r \in Replicas : replica[r].ready /\ Floor(r) # NoEpoch => KeyHonoured(r, inUse)

\* A revocation that once was in force on every replica stays in force on every ready one,
\* although a restart goes back to the epochs of the boot file.
RevocationSticks ==
    \A r \in Replicas : replica[r].ready =>
        \A key \in Keys : KeyHonoured(r, key) => key.epoch >= landed

\* "Falling through to the static store would let whoever writes the credential list park an
\* id there that starts working the day derived keys are enabled": an id the list answers for
\* is never answered for by another authority after a restart with another configuration.
NamespaceKeepsItsOwner ==
    [][\A r \in Replicas, id \in Statics :
          SecretKey(r, id) = "static" => SecretKey(r, id)' \in {"static", "none"}]_vars

=============================================================================
