------------------------------ MODULE BundlePdp ------------------------------
(***************************************************************************)
(* The policy in force: the polling loop (src/src/bundle_refresh.rs), the  *)
(* installed revision (BundleStore, src/src/pdp/bundle.rs), the embedded   *)
(* engine (src/src/pdp/embedded.rs) and the decision cache in front of it  *)
(* (src/src/pdp/cache.rs), as build_pdp wires them (src/src/gateway.rs).   *)
(*                                                                         *)
(* A document is what the source serves.  Its revision is the hash of its  *)
(* content, so a document is its own revision.  A decision is identified   *)
(* with the engine state (module and data) that made it.                   *)
(***************************************************************************)
EXTENDS FiniteSets

CONSTANTS
    Documents,     \* records [policy, data, parses, compiles]
    NoModule,      \* the policy of a document that carries data only
    DefaultModule, \* GATEWAY_REGO, the compiled-in policy
    FailClosed,    \* the deny a failed evaluation is turned into
    BootDocument,  \* the local bundle file the gateway starts from
    Inputs,        \* what a decision may be asked about
    OnDemand,      \* the inputs that carry data fetched for the request (object tags)
    Requests,      \* requests that may be in progress at once
    Returns        \* whether the source may serve an earlier content again

Usable(d) == d.parses /\ d.compiles

Modules == {DefaultModule} \cup {d.policy : d \in Documents}
EngineStates == [module : Modules, data : {d.data : d \in Documents}]

ASSUME BundleAssumption ==
    /\ FailClosed \notin EngineStates
    /\ BootDocument \in Documents /\ Usable(BootDocument)
    /\ Inputs # {} /\ OnDemand \subseteq Inputs
    /\ Returns \in BOOLEAN

VARIABLES
    published, \* the document the source serves
    served,    \* the documents it has served
    poll,      \* the refresh loop: where it is, and the document it fetched
    health,    \* BundleHealth: whether a poll ever succeeded, and ever failed
    bundle,    \* BundleStore.current
    engine,    \* RegorusPdp: the module in use, and the data compiled with it
    cache,     \* CachingPdp.cache: a function from keys to decisions
    req,       \* the requests
    backing,   \* history: the engine state the current revision was advertised with
    retired    \* history: the revisions advertised before the current one

vars == <<published, served, poll, health, bundle, engine, cache, req, backing, retired>>
store == <<bundle, backing, retired>>
pdp == <<engine, cache>>
source == <<published, served>>

\* The module a document is compiled with: its own, else the one given.
ModuleOf(d, default) == IF d.policy = NoModule THEN default ELSE d.policy

\* Mutant: the key leaves the revision out.
CacheKeyWithoutRevision(revision, input) == <<BootDocument, input>>

\* CachingPdp::key; the principal is part of the input.
CacheKey(revision, input) == <<revision, input>>

Keys == {CacheKey(d, i) : d \in Documents, i \in Inputs}

AnyInput == CHOOSE i \in Inputs : TRUE

Idle == [phase |-> "idle", input |-> AnyInput, key |-> CacheKey(BootDocument, AnyInput),
         decision |-> FailClosed, seen |-> {}]

RequestType ==
    [phase : {"idle", "started", "direct", "keyed", "missed", "evaluated", "done"},
     input : Inputs, key : Keys, decision : EngineStates \cup {FailClosed},
     seen : SUBSET EngineStates]

Active(r) == req[r].phase # "idle"

-----------------------------------------------------------------------------
(* build_pdp: the boot file gives the first revision and the first engine. *)

Init ==
    /\ published \in Documents
    /\ served = {published}
    /\ poll = [phase |-> "idle", doc |-> BootDocument]
    /\ health = [succeeded |-> FALSE, failed |-> FALSE]
    /\ bundle = BootDocument
    /\ engine = [module |-> ModuleOf(BootDocument, DefaultModule), data |-> BootDocument.data]
    /\ cache = [k \in {} |-> FailClosed]
    /\ req = [r \in Requests |-> Idle]
    /\ backing = engine
    /\ retired = {}

-----------------------------------------------------------------------------
(* The source.                                                             *)

Publish(d) ==
    /\ d # published
    /\ Returns \/ d \notin served \cup {BootDocument}
    /\ published' = d
    /\ served' = served \cup {d}
    /\ UNCHANGED <<poll, health, store, pdp, req>>

-----------------------------------------------------------------------------
(* The loop: fetch, compare, parse, reload the engine, then advertise the  *)
(* revision.  Whatever fails, the loop records it and polls again.         *)

Succeeded == [health EXCEPT !.succeeded = TRUE]
Failed == [health EXCEPT !.failed = TRUE]

\* Mutant: the loop ends at the first failure.
FetchFailsForGood ==
    /\ poll.phase = "idle"
    /\ poll' = [poll EXCEPT !.phase = "ended"]
    /\ health' = Failed
    /\ UNCHANGED <<source, store, pdp, req>>

FetchFails ==
    /\ poll.phase = "idle"
    /\ health' = Failed
    /\ UNCHANGED <<source, poll, store, pdp, req>>

\* Mutant: a poll counts as successful before the fetched document is installed.
FetchReady ==
    /\ poll.phase = "idle"
    /\ health' = Succeeded
    /\ poll' = IF published = bundle THEN poll ELSE [phase |-> "fetched", doc |-> published]
    /\ UNCHANGED <<source, store, pdp, req>>

\* A document already installed ends the poll; another one is worked on.
Fetch ==
    /\ poll.phase = "idle"
    /\ IF published = bundle
       THEN health' = Succeeded /\ UNCHANGED poll
       ELSE poll' = [phase |-> "fetched", doc |-> published] /\ UNCHANGED health
    /\ UNCHANGED <<source, store, pdp, req>>

\* The document does not parse, or does not compile: nothing is changed.
RefreshFails ==
    /\ poll.phase = "fetched" /\ ~Usable(poll.doc)
    /\ poll' = [poll EXCEPT !.phase = "idle"]
    /\ health' = Failed
    /\ UNCHANGED <<source, store, pdp, req>>

\* What the engine becomes.
Reloaded(d) == [module |-> ModuleOf(d, engine.module), data |-> d.data]

\* Mutant: the wrapper keeps the default reload, which does nothing.
ReloadNothing ==
    /\ poll.phase = "fetched" /\ Usable(poll.doc)
    /\ poll' = [poll EXCEPT !.phase = "reloaded"]
    /\ UNCHANGED <<source, health, store, pdp, req>>

Reload ==
    /\ poll.phase = "fetched" /\ Usable(poll.doc)
    /\ engine' = Reloaded(poll.doc)
    /\ poll' = [poll EXCEPT !.phase = "reloaded"]
    /\ req' = [r \in Requests |->
                 IF Active(r) THEN [req[r] EXCEPT !.seen = @ \cup {Reloaded(poll.doc)}]
                              ELSE req[r]]
    /\ UNCHANGED <<source, health, store, cache>>

Advertise ==
    /\ poll.phase = "reloaded"
    /\ bundle' = poll.doc
    /\ backing' = engine
    /\ retired' = retired \cup {bundle}
    /\ health' = Succeeded
    /\ poll' = [poll EXCEPT !.phase = "idle"]
    /\ UNCHANGED <<source, pdp, req>>

-----------------------------------------------------------------------------
(* A request, and the decision it asks for (CachingPdp::decide).           *)

\* A request that is told its decision forgets the rest.
Told(r, decision) ==
    req' = [req EXCEPT ![r] =
              [Idle EXCEPT !.phase = "done", !.decision = decision, !.seen = req[r].seen]]

\* history: a request has seen what was in force when it began, and what came after.
Start(r, i) ==
    /\ req[r].phase = "idle"
    /\ req' = [req EXCEPT ![r] =
                 [Idle EXCEPT !.phase = "started", !.input = i, !.seen = {backing, engine}]]
    /\ UNCHANGED <<source, poll, health, store, pdp>>

Bypass(r) ==
    /\ req[r].phase = "started" /\ req[r].input \in OnDemand
    /\ req' = [req EXCEPT ![r].phase = "direct"]
    /\ UNCHANGED <<source, poll, health, store, pdp>>

ReadRevision(r) ==
    /\ req[r].phase = "started" /\ req[r].input \notin OnDemand
    /\ req' = [req EXCEPT ![r].phase = "keyed", ![r].key = CacheKey(bundle, req[r].input)]
    /\ UNCHANGED <<source, poll, health, store, pdp>>

Hit(r) ==
    /\ req[r].phase = "keyed" /\ req[r].key \in DOMAIN cache
    /\ Told(r, cache[req[r].key])
    /\ UNCHANGED <<source, poll, health, store, pdp>>

Miss(r) ==
    /\ req[r].phase = "keyed" /\ req[r].key \notin DOMAIN cache
    /\ req' = [req EXCEPT ![r].phase = "missed"]
    /\ UNCHANGED <<source, poll, health, store, pdp>>

\* RegorusPdp::decide loads the compiled policy once and evaluates that.
Evaluate(r) ==
    /\ req[r].phase = "missed"
    /\ req' = [req EXCEPT ![r].phase = "evaluated", ![r].decision = engine]
    /\ UNCHANGED <<source, poll, health, store, pdp>>

EvaluateUncached(r) ==
    /\ req[r].phase = "direct"
    /\ Told(r, engine)
    /\ UNCHANGED <<source, poll, health, store, pdp>>

\* An error is no decision: it is not cached, and the caller denies.
EvaluateFails(r) ==
    /\ req[r].phase \in {"direct", "missed"}
    /\ Told(r, FailClosed)
    /\ UNCHANGED <<source, poll, health, store, pdp>>

Insert(r) ==
    /\ req[r].phase = "evaluated"
    /\ cache' = [k \in DOMAIN cache \cup {req[r].key} |->
                    IF k = req[r].key THEN req[r].decision ELSE cache[k]]
    /\ Told(r, req[r].decision)
    /\ UNCHANGED <<source, poll, health, store, engine>>

\* The request is answered, or dropped at any point before that.
Finish(r) ==
    /\ Active(r)
    /\ req' = [req EXCEPT ![r] = Idle]
    /\ UNCHANGED <<source, poll, health, store, pdp>>

\* The cache holds a bounded number of entries and may drop any of them.
Evict(k) ==
    /\ cache' = [other \in DOMAIN cache \ {k} |-> cache[other]]
    /\ UNCHANGED <<source, poll, health, store, engine, req>>

Next ==
    \/ \E d \in Documents : Publish(d)
    \/ FetchFails
    \/ Fetch
    \/ RefreshFails
    \/ Reload
    \/ Advertise
    \/ \E r \in Requests :
          \/ \E i \in Inputs : Start(r, i)
          \/ Bypass(r)
          \/ ReadRevision(r)
          \/ Hit(r)
          \/ Miss(r)
          \/ Evaluate(r)
          \/ EvaluateUncached(r)
          \/ EvaluateFails(r)
          \/ Insert(r)
          \/ Finish(r)
    \/ \E k \in DOMAIN cache : Evict(k)

Spec == Init /\ [][Next]_vars

\* The interval timer keeps firing, and the source answers a poll once in a while.
FairSpec == Spec /\ WF_vars(RefreshFails \/ Reload \/ Advertise) /\ SF_vars(Fetch)

-----------------------------------------------------------------------------
(* Properties.                                                             *)

TypeOK ==
    /\ published \in Documents /\ served \subseteq Documents
    /\ poll \in [phase : {"idle", "fetched", "reloaded"}, doc : Documents]
    /\ health \in [succeeded : BOOLEAN, failed : BOOLEAN]
    /\ bundle \in Documents /\ retired \subseteq Documents
    /\ engine \in EngineStates /\ backing \in EngineStates
    /\ DOMAIN cache \subseteq Keys /\ \A k \in DOMAIN cache : cache[k] \in EngineStates
    /\ req \in [Requests -> RequestType]

\* "no request ever sees a new revision backed by the old policy": the engine evaluates the
\* data of the advertised revision, or already that of the one about to be advertised.
RevisionBacked ==
    \/ engine.data = bundle.data
    \/ poll.phase = "reloaded" /\ engine.data = poll.doc.data

\* No stale decision: what a request is told comes from the engine state that backed the
\* revision advertised when it began, or from one installed since, never from an older one,
\* although lookups, evaluations, inserts and reloads interleave.
NeverStale ==
    \A r \in Requests :
        req[r].phase = "done" /\ req[r].decision # FailClosed => req[r].decision \in req[r].seen

\* "fetched and applied the bundle at least once": the revision of a ready gateway is one its
\* source has served, never a boot file the source has not.
ReadyMeansInstalled == health.succeeded => bundle \in served

\* "a revoked grant takes effect without a restart": once the source settles on a usable
\* document, the gateway ends up enforcing it, whatever failed before.
RevocationLands ==
    \A d \in Documents :
        <>[](published = d /\ Usable(d)) => <>[](bundle = d /\ engine.data = d.data)

=============================================================================
