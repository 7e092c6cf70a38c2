----------------------------- MODULE RequestPath -----------------------------
(***************************************************************************)
(* One S3 request from the gate to the backend: the check every request    *)
(* passes, the typed hook that screens and decides it, the record and the  *)
(* proof it leaves (src/src/access), and the forward on the tenant's       *)
(* pooled client (src/src/proxy/mod.rs), while bundles are swapped and a   *)
(* configuration is applied under it.                                      *)
(*                                                                         *)
(* The policy's answers are arbitrary here; BundlePdp says where they come *)
(* from.  Whether a write fits is arbitrary too; QuotaLedger says when.    *)
(* A request may be dropped wherever its future is suspended: on the       *)
(* policy, on the size of a copy source, on the backend.                   *)
(***************************************************************************)
EXTENDS Naturals, Sequences, FiniteSets

CONSTANTS
    Tenants, Buckets,
    Configs,       \* functions from Tenants to a route [backend, key, secret, org] or NoRoute
    Documents,     \* bundles: [version, backend, tenants, claims, quota, tags], see Placement
    NoBackend,     \* a document that does not name its backend
    Nobody,        \* the owner of a bucket no tenant claims, or several do
    Requests,      \* requests that may be in progress at once
    Callers,       \* who may call: [tenant, credential, enforced]
    Targets,       \* the buckets calls are about
    NoRoute, NoClient, NoBucket,
    Account,       \* the empty bucket name: the account scope
    AccessPoint,   \* a copy source that is not a bucket
    MaxDeleteKeys  \* limits.max_delete_keys

ASSUME PathAssumption ==
    /\ \A c \in Configs : DOMAIN c = Tenants
    /\ \A d \in Documents : d.quota \in BOOLEAN /\ d.tags \in BOOLEAN
    /\ MaxDeleteKeys \in Nat
    /\ {Account, AccessPoint, NoBucket} \cap Buckets = {} /\ Targets \subseteq Buckets

VARIABLES
    table,    \* BackendRegistry.routes
    pool,     \* BackendRegistry.pool: [backend, tenant] to a client
    applying, \* a configuration's routes are stored, its pool not yet dropped
    bundle,   \* BundleStore.current
    req       \* the requests

vars == <<table, pool, applying, bundle, req>>
registry == <<table, pool, applying>>

-----------------------------------------------------------------------------
(* Routes and placement.                                                   *)

\* Two tenants of one configuration re-signed with one upstream identity.
Shares(c, t) ==
    \E u \in Tenants \ {t} :
        c[u] # NoRoute /\ c[u].backend = c[t].backend /\ c[u].key = c[t].key

Snapshot(c, t) ==
    [tenant |-> t, backend |-> c[t].backend, org |-> c[t].org, shares |-> Shares(c, t)]

\* The client build_proxy makes of a route.
Client(c, t) == [backend |-> c[t].backend, key |-> c[t].key, secret |-> c[t].secret]

\* A version before the placing one, or none at all, places nothing; a placing document that
\* does not say what it must places nothing usable.
PlacementKind(d) ==
    CASE d.version \in {"absent", "old"} -> "unplaced"
      [] d.version = "garbled" \/ d.backend = NoBackend \/ d.tenants = "garbled" -> "unusable"
      [] OTHER -> "placed"

\* A bucket is its only claimant's.
Owner(d, bucket) ==
    IF \E t \in Tenants : d.claims[bucket] = {t}
    THEN CHOOSE t \in Tenants : d.claims[bucket] = {t}
    ELSE Nobody

\* BucketPlacement::read, once per installed bundle, and what else is read of it.
Placement(d) ==
    [kind |-> PlacementKind(d), backend |-> d.backend,
     owner |-> [b \in Buckets |-> Owner(d, b)], quota |-> d.quota, tags |-> d.tags]

Bundles == {Placement(d) : d \in Documents}

\* PlacementIndex::refusal, of one bucket name.
BucketRefused(b, route, bucket) ==
    \/ b.kind = "unusable"
    \/ /\ b.kind = "placed"
       /\ \/ b.backend # route.backend
          \/ bucket \in Buckets /\ b.owner[bucket] # route.tenant

\* ReqCtx::placement_refusal: the shared identity, the bucket, a copy's source.
PlacementRefuses(b, route, buckets) ==
    \/ route.shares /\ b.kind = "unplaced"
    \/ \E bucket \in buckets : BucketRefused(b, route, bucket)

Named(call) == {call.bucket} \cup (IF call.source = NoBucket THEN {} ELSE {call.source})

-----------------------------------------------------------------------------
(* The hooks: the enforce path each one takes, the verb it asks for, what  *)
(* rides along and what it charges.  The riders are none, inline tags, one *)
(* no grant may authorize (a bypass of retention, an ACL that confers      *)
(* access), or ones that do not parse.                                     *)

Riders == {"none", "tags", "forbidden", "malformed"}

Call(path, verb, b, riders, charge) ==
    [path |-> path, verb |-> verb, bucket |-> b, source |-> NoBucket, riders |-> riders,
     charge |-> charge, keys |-> 1, fanout |-> FALSE]

Single(verb, b, charge) == Call("single", verb, b, "none", charge)

GetObject(b) == Single("read_objects", b, "nothing")
HeadObject(b) == Single("read_objects", b, "nothing")
PutObject(b, riders) == Call("write", "write_objects", b, riders, "body")
PostObject(b, riders) == Call("write", "write_objects", b, riders, "body")
DeleteObject(b, bypass) == Call("write", "delete_objects", b, IF bypass THEN "forbidden" ELSE "none", "nothing")

DeleteObjects(b, keys, bypass) ==
    [Call("delete_many", "delete_objects", b, IF bypass THEN "forbidden" ELSE "none", "nothing")
        EXCEPT !.keys = keys]

CopyObject(b, source, riders) ==
    [Call("copy", "write_objects", b, riders, "copy") EXCEPT !.source = source]

ListObjectsV2(b, delimiter) ==
    [Call("list", "list_objects", b, "none", "nothing") EXCEPT !.fanout = ~delimiter]

ListObjects(b) == Call("list", "list_objects", b, "none", "nothing")
CreateMultipartUpload(b, riders) == Call("write", "write_objects", b, riders, "nothing")
UploadPart(b) == Single("write_objects", b, "body")
CompleteMultipartUpload(b) == Single("write_objects", b, "body")
AbortMultipartUpload(b) == Single("write_objects", b, "nothing")
ListParts(b) == Single("read_objects", b, "nothing")

UploadPartCopy(b, source, range) ==
    [Call("copy", "write_objects", b, "none", IF range THEN "body" ELSE "copy") EXCEPT !.source = source]

ListMultipartUploads(b) == Call("list", "list_objects", b, "none", "nothing")
ListBuckets == Call("list_buckets", "read", Account, "none", "nothing")
HeadBucket(b) == Single("read", b, "nothing")
GetBucketLocation(b) == Single("read", b, "nothing")
GetObjectTagging(b) == Single("read_objects", b, "nothing")
PutObjectTagging(b, malformed) ==
    Call("single", "write_object_tags", b, IF malformed THEN "malformed" ELSE "tags", "nothing")
DeleteObjectTagging(b) == Call("single", "write_object_tags", b, "tags", "nothing")
GetObjectAttributes(b) == Single("read_objects", b, "nothing")

\* Every call about one bucket, and copies into it.
CallsOn(b) ==
    {GetObject(b), HeadObject(b), ListObjects(b), UploadPart(b), CompleteMultipartUpload(b),
     AbortMultipartUpload(b), ListParts(b), ListMultipartUploads(b), ListBuckets, HeadBucket(b),
     GetBucketLocation(b), GetObjectTagging(b), DeleteObjectTagging(b), GetObjectAttributes(b)}
    \cup {PutObject(b, x) : x \in Riders} \cup {PostObject(b, x) : x \in Riders}
    \cup {CreateMultipartUpload(b, x) : x \in Riders}
    \cup {CopyObject(b, s, x) : s \in Buckets \cup {AccessPoint}, x \in Riders}
    \cup {UploadPartCopy(b, s, x) : s \in Buckets \cup {AccessPoint}, x \in BOOLEAN}
    \cup {DeleteObject(b, x) : x \in BOOLEAN} \cup {ListObjectsV2(b, x) : x \in BOOLEAN}
    \cup {DeleteObjects(b, n, x) : n \in 1..MaxDeleteKeys + 1, x \in BOOLEAN}
    \cup {PutObjectTagging(b, x) : x \in BOOLEAN}

-----------------------------------------------------------------------------
(* The questions a hook puts to the policy, in order, and what it makes of *)
(* the answers.                                                            *)

Question(action, bucket, key) == [action |-> action, bucket |-> bucket, key |-> key]

Main(call) == Question(call.verb, call.bucket, 1)
TagsToo(call) == Question("write_object_tags", call.bucket, 1)

\* A write asks about its inline tags first, a copy last.
WriteQuestions(call) ==
    IF call.riders = "tags" THEN <<TagsToo(call), Main(call)>> ELSE <<Main(call)>>

CopyQuestions(call) ==
    <<Question("read_objects", call.source, 1), Main(call)>>
    \o (IF call.riders = "tags" THEN <<TagsToo(call)>> ELSE <<>>)

DeleteQuestions(call) == [k \in 1..call.keys |-> Question("delete_objects", call.bucket, k)]

Questions(call) ==
    CASE call.path = "write" -> WriteQuestions(call)
      [] call.path = "copy" -> CopyQuestions(call)
      [] call.path = "delete_many" -> DeleteQuestions(call)
      [] OTHER -> <<Main(call)>>

AnswersTo(call) ==
    {"deny", "allow", "unimplemented"}
    \cup (IF call.path = "list" THEN {"narrow", "prefixes", "too_many", "ambiguous"} ELSE {})
    \cup (IF call.path = "list_buckets" THEN {"ambiguous", "none_visible"} ELSE {})

AllAllowed(answers) == \A i \in 1..Len(answers) : answers[i] # "deny"

\* The keys a multi-delete keeps.
Kept(answers) == {i \in 1..Len(answers) : answers[i] # "deny"}

\* Nothing is left to ask: tags refused end a write, half a copy refused leaves its tags unasked.
Settled(call, answers) ==
    \/ Len(answers) = Len(Questions(call))
    \/ call.path = "write" /\ ~AllAllowed(answers)
    \/ call.path = "copy" /\ Len(answers) = 2 /\ ~AllAllowed(answers)

\* A mandatory obligation this binary does not know.
Unimplemented(answer) == answer = "unimplemented"

\* enforce_charged: such an obligation is a denial.
SingleAllows(answers) == AllAllowed(answers) /\ ~Unimplemented(answers[Len(answers)])


\* enforce_copy and authorize_riders: only what was allowed counts.
CopyAllows(answers) == AllAllowed(answers)

\* classify_list: one prefix narrows the request, several need a fan-out within its bound.
ListAllows(call, answer) == answer \in {"allow", "narrow"} \/ (answer = "prefixes" /\ call.fanout)

\* classify_bucket_listing: shown, if only nothing.
BucketsShown(answer) == answer \in {"allow", "none_visible"}

Allows(call, answers) ==
    CASE call.path = "delete_many" -> Kept(answers) # {}
      [] call.path = "copy" -> CopyAllows(answers)
      [] call.path = "list" -> ListAllows(call, answers[1])
      [] call.path = "list_buckets" -> BucketsShown(answers[1])
      [] OTHER -> SingleAllows(answers)

-----------------------------------------------------------------------------
(* Requests and their records.                                             *)

AnyConfig == CHOOSE c \in Configs : TRUE
AnyBundle == CHOOSE b \in Bundles : TRUE
AnyCaller == CHOOSE c \in Callers : TRUE
NoSnapshot == [tenant |-> NoRoute, backend |-> NoRoute, org |-> NoRoute, shares |-> FALSE]

Phases == {"idle", "arrived", "routed", "checked", "asking", "admitting", "size", "sizing_take",
           "sizing", "forward", "forward_take", "calling", "over"}
Answers == {"none", "refused", "unavailable", "ok", "failed", "empty", "gone"}

Fresh == [phase |-> "idle", caller |-> AnyCaller, call |-> ListBuckets, route |-> NoSnapshot, placement |-> AnyBundle,
          answers |-> <<>>, loaded |-> AnyConfig, client |-> NoClient, called |-> FALSE,
          pending |-> FALSE, proof |-> FALSE, reserved |-> "none", records |-> <<>>,
          answer |-> "none"]

\* A decision record: the outcome, the backend leg, and the organization it is labelled with.
Record(outcome, leg, org) == [outcome |-> outcome, leg |-> leg, org |-> org]

Emit(q, outcome, leg) == [q EXCEPT !.records = Append(@, Record(outcome, leg, q.route.org))]

\* Mutant: the record is emitted but not taken out.
OverKeepingPending(q, answer) ==
    LET dropped == IF q.pending THEN Emit(q, "allowed", "not_attempted") ELSE q
    IN [dropped EXCEPT !.phase = "over", !.answer = answer]

\* The request is finished with; a record still pending is emitted by its drop.
Over(q, answer) ==
    LET dropped == IF q.pending THEN Emit(q, "allowed", "not_attempted") ELSE q
    IN [dropped EXCEPT !.phase = "over", !.answer = answer, !.pending = FALSE]

\* audit_denied, and the error returned with it.
Denied(q, answer) == Over(Emit(q, "denied", "not_attempted"), answer)

\* audit_pending and prove.
Authorized(q) == [q EXCEPT !.pending = TRUE, !.proof = TRUE, !.phase = "forward"]

InPhase(r, phase) == req[r].phase = phase
To(r, q) == req' = [req EXCEPT ![r] = q]

Init ==
    /\ table \in Configs
    /\ pool = [k \in {} |-> NoClient]
    /\ applying = FALSE
    /\ bundle \in Bundles
    /\ req = [r \in Requests |-> Fresh]

-----------------------------------------------------------------------------
(* S3Access::check.                                                        *)

Arrive(r, caller, call) ==
    /\ InPhase(r, "idle")
    /\ To(r, [Fresh EXCEPT !.phase = "arrived", !.caller = caller, !.call = call])
    /\ UNCHANGED <<registry, bundle>>

\* Unsigned, an operation the table does not enforce, no principal, or no route.
GateRefuses(caller) ==
    \/ caller.credential # "known"
    \/ ~caller.enforced
    \/ table[caller.tenant] = NoRoute

GateDenial(r) ==
    /\ InPhase(r, "arrived") /\ GateRefuses(req[r].caller)
    /\ To(r, Over(Emit(req[r], "gate", "not_attempted"), "refused"))
    /\ UNCHANGED <<registry, bundle>>

ResolveRoute(r) ==
    /\ InPhase(r, "arrived") /\ ~GateRefuses(req[r].caller)
    /\ To(r, [req[r] EXCEPT !.phase = "routed", !.route = Snapshot(table, req[r].caller.tenant)])
    /\ UNCHANGED <<registry, bundle>>

PinPlacement(r) ==
    /\ InPhase(r, "routed")
    /\ To(r, [req[r] EXCEPT !.phase = "checked", !.placement = bundle])
    /\ UNCHANGED <<registry, bundle>>

-----------------------------------------------------------------------------
(* The typed hooks.                                                        *)

\* Riders no grant may authorize, and tags the live bundle reserves.
RidersRefused(call) == call.riders = "forbidden" \/ (call.riders = "tags" /\ ~bundle.tags)

TooManyKeys(call) == call.path = "delete_many" /\ call.keys > MaxDeleteKeys

\* What a hook refuses before the policy is asked.
HookRefuses(q) ==
    \/ q.call.riders = "malformed" \/ RidersRefused(q.call) \/ TooManyKeys(q.call)
    \/ q.call.path # "list_buckets" /\ PlacementRefuses(q.placement, q.route, Named(q.call))

\* enforce_copy's early return: it leaves no record.
UnsupportedSource(r) ==
    /\ InPhase(r, "checked")
    /\ req[r].call.source = AccessPoint /\ req[r].call.riders # "malformed"
    /\ To(r, Over(req[r], "refused"))
    /\ UNCHANGED <<registry, bundle>>

HookRefusal(r) ==
    /\ InPhase(r, "checked") /\ HookRefuses(req[r])
    /\ req[r].call.source # AccessPoint \/ req[r].call.riders = "malformed"
    /\ To(r, Denied(req[r], "refused"))
    /\ UNCHANGED <<registry, bundle>>

HookAsks(r) ==
    /\ InPhase(r, "checked") /\ ~HookRefuses(req[r])
    /\ req[r].call.source # AccessPoint
    /\ To(r, [req[r] EXCEPT !.phase = "asking"])
    /\ UNCHANGED <<registry, bundle>>

\* GatewayAccess::decide: the placement first, then the policy; an error is a denial.
Decisions(q) ==
    LET asked == Questions(q.call)[Len(q.answers) + 1]
        buckets == IF q.call.path = "copy" /\ asked.action # "read_objects" THEN Named(q.call)
                   ELSE {asked.bucket}
    IN IF PlacementRefuses(q.placement, q.route, buckets) THEN {"deny"} ELSE AnswersTo(q.call)

\* What a refused listing of buckets answers: nothing, through the same branch as an empty one.
RefusedAnswer(call) == IF call.path = "list_buckets" THEN "empty" ELSE "refused"

Decide(r) ==
    /\ InPhase(r, "asking")
    /\ \E d \in Decisions(req[r]) :
        LET q == [req[r] EXCEPT !.answers = Append(@, d)] IN
        To(r, IF ~Settled(q.call, q.answers) THEN q
              ELSE IF ~Allows(q.call, q.answers) THEN Denied(q, RefusedAnswer(q.call))
              ELSE [q EXCEPT !.phase = "admitting"])
    /\ UNCHANGED <<registry, bundle>>

-----------------------------------------------------------------------------
(* hold_quota, and the size of a copy source.                              *)

Charged(q) == q.placement.kind = "placed" /\ q.placement.quota /\ q.call.charge # "nothing"
NeedsSize(q) == Charged(q) /\ q.call.charge = "copy" /\ q.client = NoClient

NotCharged(r) ==
    /\ InPhase(r, "admitting") /\ ~Charged(req[r])
    /\ To(r, Authorized(req[r]))
    /\ UNCHANGED <<registry, bundle>>

AskSize(r) ==
    /\ InPhase(r, "admitting") /\ NeedsSize(req[r])
    /\ To(r, [req[r] EXCEPT !.phase = "size"])
    /\ UNCHANGED <<registry, bundle>>

Sized(r) ==
    /\ InPhase(r, "sizing")
    /\ To(r, [req[r] EXCEPT !.phase = "admitting"])
    /\ UNCHANGED <<registry, bundle>>

Unsized(r) ==
    /\ InPhase(r, "sizing")
    /\ To(r, Denied(req[r], "refused"))
    /\ UNCHANGED <<registry, bundle>>

\* Mutant: the quota is asked once the record is held as allowed.
AdmitLate(r) ==
    /\ InPhase(r, "admitting") /\ Charged(req[r]) /\ ~NeedsSize(req[r])
    /\ \/ To(r, Authorized(req[r]))
       \/ To(r, Authorized([req[r] EXCEPT !.reserved = "held"]))
       \/ To(r, Over(Authorized(req[r]), "refused"))
    /\ UNCHANGED <<registry, bundle>>

Admit(r) ==
    /\ InPhase(r, "admitting") /\ Charged(req[r]) /\ ~NeedsSize(req[r])
    /\ \/ To(r, Authorized(req[r]))
       \/ To(r, Authorized([req[r] EXCEPT !.reserved = "held"]))
       \/ To(r, Denied(req[r], "refused"))
    /\ UNCHANGED <<registry, bundle>>

-----------------------------------------------------------------------------
(* GatewayS3: the forward.                                                 *)

\* list_buckets with nothing visible, or answered from the bundle.
Local(q) ==
    /\ q.call.path = "list_buckets"
    /\ \/ q.answers[1] = "none_visible"
       \/ q.placement.kind # "unplaced"

AnswerLocally(r) ==
    /\ InPhase(r, "forward") /\ Local(req[r])
    /\ To(r, Over(req[r], IF req[r].answers[1] = "none_visible" THEN "empty" ELSE "ok"))
    /\ UNCHANGED <<registry, bundle>>

\* Mutant: only the backend is compared.
RouteHoldsByBackend(c, route) == c[route.tenant] # NoRoute /\ c[route.tenant].backend = route.backend

\* What proxy_for compares of the table in force with the snapshot.
RouteHolds(c, route) ==
    /\ c[route.tenant] # NoRoute
    /\ c[route.tenant].backend = route.backend
    /\ Shares(c, route.tenant) = route.shares

Resolving(r) ==
    \/ InPhase(r, "size")
    \/ InPhase(r, "forward") /\ ~Local(req[r]) /\ req[r].proof

\* proxy_for, until it waits for the pool's lock.
LoadRoute(r) ==
    /\ Resolving(r) /\ RouteHolds(table, req[r].route)
    /\ To(r, [req[r] EXCEPT !.loaded = table,
                            !.phase = IF @ = "size" THEN "sizing_take" ELSE "forward_take"])
    /\ UNCHANGED <<registry, bundle>>

\* Mutant: a forward refused for want of a route keeps its bytes.
RouteGoneKeeping(r) ==
    /\ Resolving(r) /\ ~RouteHolds(table, req[r].route)
    /\ To(r, IF InPhase(r, "size") THEN Denied(req[r], "unavailable")
             ELSE Over([req[r] EXCEPT !.reserved = IF @ = "held" THEN "kept" ELSE @], "unavailable"))
    /\ UNCHANGED <<registry, bundle>>

RouteGone(r) ==
    /\ Resolving(r) /\ ~RouteHolds(table, req[r].route)
    /\ To(r, IF InPhase(r, "size") THEN Denied(req[r], "unavailable")
             ELSE Over([req[r] EXCEPT !.reserved = IF @ = "held" THEN "released" ELSE @], "unavailable"))
    /\ UNCHANGED <<registry, bundle>>

PoolKey(q) == [backend |-> q.route.backend, tenant |-> q.route.tenant]

\* The lock is held: the pooled client, or a new one of the routes loaded before.
TakeClient(r) ==
    LET q == req[r]
        key == PoolKey(q)
        built == [client |-> Client(q.loaded, q.route.tenant), of |-> q.loaded, under |-> table]
        entry == IF key \in DOMAIN pool THEN pool[key] ELSE built
    IN  /\ q.phase \in {"sizing_take", "forward_take"}
        /\ pool' = [k \in DOMAIN pool \cup {key} |-> IF k = key THEN entry ELSE pool[k]]
        /\ To(r, IF q.phase = "sizing_take"
                 THEN [q EXCEPT !.phase = "sizing", !.client = entry.client]
                 ELSE [q EXCEPT !.phase = "calling", !.client = entry.client, !.called = TRUE,
                                !.reserved = IF @ = "held" THEN "dispatched" ELSE @])
        /\ UNCHANGED <<table, applying, bundle>>


\* The reservation and the record are settled with the backend's answer.
Returns(q, answer, leg, outcome, charge) ==
    Over([Emit(q, outcome, leg) EXCEPT
            !.pending = FALSE,
            !.reserved = IF @ = "dispatched" THEN charge ELSE @], answer)

Succeeds(r) ==
    /\ InPhase(r, "calling")
    /\ To(r, Returns(req[r], "ok", "succeeded", "allowed", "kept"))
    /\ UNCHANGED <<registry, bundle>>

BackendRefuses(r) ==
    /\ InPhase(r, "calling")
    /\ To(r, Returns(req[r], "failed", "failed", "error", "released"))
    /\ UNCHANGED <<registry, bundle>>

\* No answer that tells: kept if the write may have been stored.
Fails(r) ==
    /\ InPhase(r, "calling")
    /\ \E charge \in {"kept", "released"} :
        To(r, Returns(req[r], "failed", "failed", "error", charge))
    /\ UNCHANGED <<registry, bundle>>

\* The client goes away: the future is dropped where it waits, with all it holds.
Drop(r) ==
    /\ req[r].phase \in {"asking", "sizing", "calling"}
    /\ \E charge \in {"kept", "released"} :
        To(r, Over([req[r] EXCEPT !.reserved = IF @ = "dispatched" THEN charge ELSE @], "gone"))
    /\ UNCHANGED <<registry, bundle>>

Retire(r) ==
    /\ InPhase(r, "over")
    /\ To(r, Fresh)
    /\ UNCHANGED <<registry, bundle>>

-----------------------------------------------------------------------------
(* What changes under a request.                                           *)

SwapBundle(d) ==
    /\ Placement(d) # bundle
    /\ bundle' = Placement(d)
    /\ UNCHANGED <<registry, req>>

\* BackendRegistry::apply_config: the routes, then the pool.
StoreRoutes(c) ==
    /\ ~applying /\ c # table
    /\ table' = c
    /\ applying' = TRUE
    /\ UNCHANGED <<pool, bundle, req>>


DropPool ==
    /\ applying
    /\ pool' = [k \in {} |-> NoClient]
    /\ applying' = FALSE
    /\ UNCHANGED <<table, bundle, req>>

Next ==
    \/ \E r \in Requests :
        \/ \E caller \in Callers, b \in Targets : \E call \in CallsOn(b) : Arrive(r, caller, call)
        \/ GateDenial(r) \/ ResolveRoute(r) \/ PinPlacement(r)
        \/ UnsupportedSource(r) \/ HookRefusal(r) \/ HookAsks(r) \/ Decide(r)
        \/ NotCharged(r) \/ AskSize(r) \/ Sized(r) \/ Unsized(r) \/ Admit(r)
        \/ AnswerLocally(r) \/ LoadRoute(r) \/ RouteGone(r) \/ TakeClient(r)
        \/ Succeeds(r) \/ BackendRefuses(r) \/ Fails(r) \/ Drop(r) \/ Retire(r)
    \/ \E d \in Documents : SwapBundle(d)
    \/ \E c \in Configs : StoreRoutes(c)
    \/ DropPool

Spec == Init /\ [][Next]_vars

-----------------------------------------------------------------------------
(* Properties.                                                             *)

Routes == (UNION {{c[t] : t \in Tenants} : c \in Configs}) \ {NoRoute}
Clients == {[backend |-> x.backend, key |-> x.key, secret |-> x.secret] : x \in Routes}
Orgs == {x.org : x \in Routes}
BackendIds == {x.backend : x \in Routes}

RequestOK(q) ==
    /\ q.phase \in Phases /\ q.answer \in Answers
    /\ q.placement \in Bundles /\ q.loaded \in Configs
    /\ q.route \in [tenant : Tenants, backend : BackendIds, org : Orgs, shares : BOOLEAN]
                   \cup {NoSnapshot}
    /\ q.client \in Clients \cup {NoClient}
    /\ q.reserved \in {"none", "held", "dispatched", "kept", "released"}
    /\ {q.called, q.pending, q.proof} \subseteq BOOLEAN
    /\ q.pending => q.proof /\ q.phase \in {"forward", "forward_take", "calling"}
    /\ \A i \in 1..Len(q.records) :
        q.records[i] \in [outcome : {"gate", "denied", "allowed", "error"},
                          leg : {"not_attempted", "succeeded", "failed"},
                          org : Orgs \cup {NoRoute}]

\* The types, and a record is held (PendingAudit) only between the allow and the answer.
TypeOK ==
    /\ table \in Configs /\ bundle \in Bundles /\ applying \in BOOLEAN
    /\ \A k \in DOMAIN pool :
        /\ k \in [backend : BackendIds, tenant : Tenants]
        /\ pool[k] \in [client : Clients, of : Configs, under : Configs]
    /\ \A r \in Requests : RequestOK(req[r])


\* Whatever was swapped since the gate, the routes a backend client is taken for are ones the
\* request's own placement admits: in particular no tenant sharing an upstream identity is
\* forwarded under a bundle that places nothing (proxy_for, shared_identity_refusal).
TenantsKeptApart ==
    \A r \in Requests :
        LET q == req[r] IN
        q.phase \in {"calling", "sizing"} =>
            ~PlacementRefuses(q.placement, Snapshot(q.loaded, q.route.tenant), Named(q.call))



\* The record of an answered request says what the client was told: a refusal is a denial, a
\* success went to the backend or was the gateway's own, a failure is the backend's.
ToldAsRecorded ==
    \A r \in Requests :
        LET q == req[r] IN
        q.phase = "over" /\ Len(q.records) = 1 =>
            LET rec == q.records[1] IN
            CASE q.answer = "refused" -> rec.outcome \in {"gate", "denied"}
              [] q.answer = "ok" -> rec.outcome = "allowed" /\ (q.called <=> rec.leg = "succeeded")
              [] q.answer = "failed" -> rec.outcome = "error" /\ rec.leg = "failed"
              [] q.answer = "unavailable" -> rec.leg = "not_attempted" /\ ~q.called
              [] OTHER -> rec.leg = "not_attempted"

\* A finished request leaves no reservation open, and one whose backend call was never made
\* gives its bytes back (forward's release, mark_dispatched).
ReservationFollowsCall ==
    \A r \in Requests :
        LET q == req[r] IN
        q.phase = "over" =>
            /\ q.reserved \in {"none", "kept", "released"}
            /\ q.reserved = "kept" => q.called
            /\ q.answer = "ok" => q.reserved # "released"

\* "NotAttempted: no backend leg was attempted" (BackendOutcome): a record that says so is
\* the record of a request whose backend call was never made.
NotAttemptedMeansNot ==
    \A r \in Requests :
        \A i \in 1..Len(req[r].records) :
            req[r].records[i].leg = "not_attempted" => ~req[r].called
=============================================================================
