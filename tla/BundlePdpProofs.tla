--------------------------- MODULE BundlePdpProofs ---------------------------
(***************************************************************************)
(* Proofs about BundlePdp: the types, that the advertised revision is      *)
(* backed by its engine, and that no decision is stale as long as the      *)
(* source never returns to an earlier content.                             *)
(***************************************************************************)
EXTENDS BundlePdp, TLAPS

Keyed(r) == req[r].phase \in {"keyed", "missed", "evaluated"}

\* What is known of the revisions when the source never returns to an earlier one.
RevisionsInv ==
    /\ retired \cup {bundle} \subseteq served \cup {BootDocument}
    /\ bundle \notin retired /\ published \notin retired /\ published \in served
    /\ poll.phase # "idle" =>
          published # bundle /\ poll.doc \notin retired \cup {bundle} /\ poll.doc \in served
    /\ poll.phase # "reloaded" => backing = engine

\* What is known of the keys: they were made from revisions advertised so far.
KeysInv ==
    /\ \A k \in DOMAIN cache : k[1] \in retired \cup {bundle}
    /\ \A r \in Requests : Keyed(r) => req[r].key[1] \in retired \cup {bundle}

\* What is cached, or about to be, under the advertised revision is no older than it.
CurrentInv ==
    /\ \A k \in DOMAIN cache : k[1] = bundle => cache[k] \in {backing, engine}
    /\ \A r \in Requests : req[r].phase = "evaluated" /\ req[r].key[1] = bundle =>
          req[r].decision \in {backing, engine}

\* What a request can find, or has been told, it has seen in force.
SeenInv ==
    \A r \in Requests :
        /\ Active(r) => backing \in req[r].seen /\ engine \in req[r].seen
        /\ req[r].phase = "keyed" =>
              /\ req[r].key \in DOMAIN cache => cache[req[r].key] \in req[r].seen
              /\ \A w \in Requests : req[w].phase = "evaluated" /\ req[w].key = req[r].key =>
                    req[w].decision \in req[r].seen
        /\ req[r].phase = "evaluated" => req[r].decision \in req[r].seen
        /\ req[r].phase = "done" /\ req[r].decision # FailClosed => req[r].decision \in req[r].seen

FreshInv == TypeOK /\ RevisionsInv /\ KeysInv /\ CurrentInv /\ SeenInv

-----------------------------------------------------------------------------

\* An idle request is typed.
LEMMA IdleType == Idle \in RequestType
<1>1. AnyInput \in Inputs
  BY BundleAssumption DEF AnyInput
<1> QED
  BY <1>1, BundleAssumption DEF Idle, RequestType, Keys

\* The engine a reload builds, and the one the gateway boots with.
LEMMA ModuleOfType ==
    ASSUME NEW d \in Documents, NEW m \in Modules PROVE ModuleOf(d, m) \in Modules
BY DEF ModuleOf, Modules

\* The gateway boots in the invariant (build_pdp).
LEMMA InitFresh == Init => FreshInv
<1> SUFFICES ASSUME Init PROVE FreshInv
  OBVIOUS
<1> USE DEF Init
<1>1. engine \in EngineStates
  BY ModuleOfType, BundleAssumption DEF EngineStates, Modules
<1>2. TypeOK
  BY <1>1, IdleType, BundleAssumption DEF TypeOK
<1>3. RevisionsInv
  BY DEF RevisionsInv
<1>4. \A r \in Requests : req[r].phase = "idle"
  BY DEF Idle
<1>5. KeysInv /\ CurrentInv /\ SeenInv
  BY <1>4 DEF KeysInv, CurrentInv, SeenInv, Keyed, Active
<1> QED
  BY <1>2, <1>3, <1>5 DEF FreshInv

\* The steps of the source and of the loop that leave the engine and the requests alone.
LEMMA LoopStepFresh ==
    ASSUME FreshInv, ~Returns,
           (\E d \in Documents : Publish(d)) \/ FetchFails \/ Fetch \/ RefreshFails
    PROVE  FreshInv'
<1> USE DEF FreshInv
<1>1. UNCHANGED <<bundle, backing, retired, engine, cache, req>>
  BY DEF Publish, FetchFails, Fetch, RefreshFails, store, pdp
<1>2. ASSUME \E d \in Documents : Publish(d) PROVE TypeOK' /\ RevisionsInv'
  <2>1. PICK d \in Documents : Publish(d)
    BY <1>2
  <2>2. /\ UNCHANGED poll /\ published' = d /\ served' = served \cup {d} /\ UNCHANGED health
        /\ d \notin served /\ d # BootDocument
    BY <2>1 DEF Publish
  <2>3. TypeOK'
    BY <1>1, <2>2 DEF TypeOK
  <2>4. RevisionsInv'
    BY <1>1, <2>2 DEF RevisionsInv
  <2> QED
    BY <2>3, <2>4
<1>3. ASSUME FetchFails \/ Fetch \/ RefreshFails PROVE TypeOK' /\ RevisionsInv'
  <2>1. UNCHANGED <<published, served>>
    BY <1>3 DEF FetchFails, Fetch, RefreshFails, source
  <2>2. health' \in [succeeded : BOOLEAN, failed : BOOLEAN]
    BY <1>3 DEF FetchFails, Fetch, RefreshFails, Succeeded, Failed, TypeOK
  <2>3. \/ poll' = poll
        \/ poll' = [poll EXCEPT !.phase = "idle"] /\ poll.phase = "fetched"
        \/ poll' = [phase |-> "fetched", doc |-> published] /\ published # bundle
             /\ poll.phase = "idle"
    BY <1>3 DEF FetchFails, Fetch, RefreshFails
  <2>4. published \in served
    BY DEF RevisionsInv
  <2>5. TypeOK'
    BY <1>1, <2>1, <2>2, <2>3 DEF TypeOK
  <2>6. RevisionsInv'
    BY <1>1, <2>1, <2>3, <2>4 DEF RevisionsInv, TypeOK
  <2> QED
    BY <2>5, <2>6
<1>4. KeysInv' /\ CurrentInv' /\ SeenInv'
  BY <1>1 DEF KeysInv, CurrentInv, SeenInv, Keyed, Active
<1> QED
  BY <1>2, <1>3, <1>4

\* A reload: every request in progress has seen the new engine.
LEMMA ReloadFresh == ASSUME FreshInv, Reload PROVE FreshInv'
<1> USE DEF FreshInv, Reload
<1> DEFINE e == Reloaded(poll.doc)
<1>0. UNCHANGED <<published, served, health, bundle, backing, retired, cache>>
  BY DEF store, source
<1>1. e \in EngineStates /\ engine' = e
  BY ModuleOfType DEF TypeOK, EngineStates, Reloaded
<1> HIDE DEF e
<1>2. \A r \in Requests :
         /\ req'[r] \in RequestType
         /\ req'[r].phase = req[r].phase /\ req'[r].key = req[r].key
         /\ req'[r].decision = req[r].decision
         /\ req[r].seen \subseteq req'[r].seen
         /\ Active(r) => e \in req'[r].seen
  <2> SUFFICES ASSUME NEW r \in Requests
               PROVE  /\ req'[r] \in RequestType
                      /\ req'[r].phase = req[r].phase /\ req'[r].key = req[r].key
                      /\ req'[r].decision = req[r].decision
                      /\ req[r].seen \subseteq req'[r].seen
                      /\ Active(r) => e \in req'[r].seen
    OBVIOUS
  <2>1. req[r] \in RequestType
    BY DEF TypeOK
  <2>2. req'[r] = IF Active(r) THEN [req[r] EXCEPT !.seen = @ \cup {e}] ELSE req[r]
    BY DEF e
  <2> QED
    BY <1>1, <2>1, <2>2 DEF RequestType
<1>3. TypeOK'
  <2>1. req' \in [Requests -> RequestType]
    BY <1>2
  <2> QED
    BY <1>0, <1>1, <2>1 DEF TypeOK
<1>4. backing = engine
  BY DEF RevisionsInv
<1>5. RevisionsInv'
  BY <1>0, <1>4 DEF RevisionsInv, TypeOK
<1>6. KeysInv'
  BY <1>0, <1>2 DEF KeysInv, Keyed
<1>7. CurrentInv'
  BY <1>0, <1>2, <1>4 DEF CurrentInv
<1>8. SeenInv'
  <2> SUFFICES ASSUME NEW r \in Requests
               PROVE  /\ Active(r)' => backing' \in req'[r].seen /\ engine' \in req'[r].seen
                      /\ req'[r].phase = "keyed" =>
                           /\ req'[r].key \in DOMAIN cache' => cache'[req'[r].key] \in req'[r].seen
                           /\ \A w \in Requests :
                                req'[w].phase = "evaluated" /\ req'[w].key = req'[r].key =>
                                  req'[w].decision \in req'[r].seen
                      /\ req'[r].phase = "evaluated" => req'[r].decision \in req'[r].seen
                      /\ req'[r].phase = "done" /\ req'[r].decision # FailClosed =>
                           req'[r].decision \in req'[r].seen
    BY DEF SeenInv
  <2>1. Active(r)' = Active(r)
    BY <1>2 DEF Active
  <2> QED
    BY <1>0, <1>1, <1>2, <2>1 DEF SeenInv
<1> QED
  BY <1>3, <1>5, <1>6, <1>7, <1>8

\* A new revision is advertised: no key has been made from it yet.
LEMMA AdvertiseFresh == ASSUME FreshInv, Advertise PROVE FreshInv'
<1> USE DEF FreshInv, Advertise
<1>0. UNCHANGED <<published, served, engine, cache, req>>
  BY DEF pdp, source
<1>1. TypeOK'
  BY <1>0 DEF TypeOK, Succeeded
<1>2. RevisionsInv'
  BY <1>0 DEF RevisionsInv, TypeOK
<1>3. poll.doc \notin retired \cup {bundle}
  BY DEF RevisionsInv
<1>4. KeysInv'
  BY <1>0 DEF KeysInv, Keyed
<1>5. CurrentInv'
  BY <1>0, <1>3 DEF KeysInv, CurrentInv, Keyed
<1>6. SeenInv'
  BY <1>0 DEF SeenInv, Active
<1> QED
  BY <1>1, <1>2, <1>4, <1>5, <1>6

\* The cache drops an entry.
LEMMA EvictFresh == ASSUME FreshInv, NEW k, Evict(k) PROVE FreshInv'
<1> USE DEF FreshInv, Evict
<1>0. UNCHANGED <<published, served, poll, health, bundle, backing, retired, engine, req>>
  BY DEF store, source
<1>1. DOMAIN cache' \subseteq DOMAIN cache /\ \A o \in DOMAIN cache' : cache'[o] = cache[o]
  OBVIOUS
<1>2. TypeOK'
  BY <1>0, <1>1 DEF TypeOK
<1>3. RevisionsInv' /\ KeysInv' /\ CurrentInv'
  BY <1>0, <1>1 DEF RevisionsInv, KeysInv, CurrentInv, Keyed
<1>4. SeenInv'
  BY <1>0, <1>1 DEF SeenInv, Active
<1> QED
  BY <1>2, <1>3, <1>4

\* A step of one request that leaves the cache alone: what its new record must satisfy.
LEMMA RequestFresh ==
    ASSUME FreshInv, NEW r \in Requests, NEW q \in RequestType,
           UNCHANGED <<published, served, poll, health, bundle, backing, retired, engine, cache>>,
           req' = [req EXCEPT ![r] = q],
           q.phase # "idle" => backing \in q.seen /\ engine \in q.seen,
           q.phase \in {"keyed", "missed", "evaluated"} => q.key[1] \in retired \cup {bundle},
           q.phase = "keyed" =>
              /\ q.key \in DOMAIN cache => cache[q.key] \in q.seen
              /\ \A w \in Requests : req[w].phase = "evaluated" /\ req[w].key = q.key =>
                    req[w].decision \in q.seen,
           q.phase = "evaluated" => q.decision = engine,
           q.phase = "done" /\ q.decision # FailClosed => q.decision \in q.seen
    PROVE  FreshInv'
<1> USE DEF FreshInv
<1>1. req' \in [Requests -> RequestType] /\ \A v \in Requests : req'[v] = IF v = r THEN q ELSE req[v]
  BY DEF TypeOK
<1>2. TypeOK' /\ RevisionsInv'
  BY <1>1 DEF TypeOK, RevisionsInv
<1>3. KeysInv' /\ CurrentInv'
  BY <1>1 DEF KeysInv, CurrentInv, Keyed
<1>4. SeenInv'
  BY <1>1 DEF SeenInv, Active
<1> QED
  BY <1>2, <1>3, <1>4

\* The record of a request that is told its decision.
LEMMA ToldRecord ==
    ASSUME TypeOK, NEW r \in Requests, NEW decision \in EngineStates \cup {FailClosed},
           Told(r, decision)
    PROVE  \E q \in RequestType :
              /\ req' = [req EXCEPT ![r] = q]
              /\ q.phase = "done" /\ q.decision = decision /\ q.seen = req[r].seen
<1>1. req[r] \in RequestType
  BY DEF TypeOK
<1> DEFINE q == [Idle EXCEPT !.phase = "done", !.decision = decision, !.seen = req[r].seen]
<1>2. q \in RequestType /\ q.phase = "done" /\ q.decision = decision /\ q.seen = req[r].seen
  BY <1>1, IdleType DEF RequestType
<1>3. req' = [req EXCEPT ![r] = q]
  BY DEF Told
<1> QED
  BY <1>2, <1>3

\* The steps of a request up to its lookup, and its end.
LEMMA LookupFresh ==
    ASSUME FreshInv, NEW r \in Requests,
           \/ \E i \in Inputs : Start(r, i)
           \/ Bypass(r)
           \/ ReadRevision(r)
           \/ Miss(r)
           \/ Finish(r)
    PROVE  FreshInv'
<1> USE DEF FreshInv
<1>0. UNCHANGED <<published, served, poll, health, bundle, backing, retired, engine, cache>>
  BY DEF Start, Bypass, ReadRevision, Miss, Finish, source, store, pdp
<1>1. req[r] \in RequestType
  BY IdleType DEF TypeOK
<1>2. CASE \E i \in Inputs : Start(r, i)
  <2>1. PICK i \in Inputs : Start(r, i)
    BY <1>2
  <2> DEFINE q == [Idle EXCEPT !.phase = "started", !.input = i, !.seen = {backing, engine}]
  <2>2. q \in RequestType /\ q.phase = "started" /\ q.seen = {backing, engine}
    BY <1>1, IdleType DEF RequestType, TypeOK
  <2>3. req' = [req EXCEPT ![r] = q]
    BY <2>1 DEF Start
  <2> QED
    BY <1>0, <2>2, <2>3, RequestFresh
<1>3. CASE Bypass(r)
  <2> DEFINE q == [req[r] EXCEPT !.phase = "direct"]
  <2>1. q \in RequestType /\ q.phase = "direct" /\ q.seen = req[r].seen
    BY <1>1 DEF RequestType
  <2>2. req' = [req EXCEPT ![r] = q] /\ Active(r)
    BY <1>3 DEF Bypass, Active
  <2> QED
    BY <1>0, <2>1, <2>2, RequestFresh DEF SeenInv
<1>4. CASE ReadRevision(r)
  <2> DEFINE q == [req[r] EXCEPT !.phase = "keyed", !.key = CacheKey(bundle, req[r].input)]
  <2>1. CacheKey(bundle, req[r].input) \in Keys
    BY <1>1 DEF Keys, RequestType, TypeOK
  <2>2. q \in RequestType /\ q.phase = "keyed" /\ q.seen = req[r].seen
        /\ q.key = CacheKey(bundle, req[r].input)
    BY <1>1, <2>1 DEF RequestType
  <2>3. req' = [req EXCEPT ![r] = q] /\ Active(r)
    BY <1>4 DEF ReadRevision, Active
  <2>4. q.key[1] = bundle
    BY <2>2 DEF CacheKey
  <2>5. backing \in q.seen /\ engine \in q.seen
    BY <2>2, <2>3 DEF SeenInv
  <2>6. /\ q.key \in DOMAIN cache => cache[q.key] \in q.seen
        /\ \A w \in Requests : req[w].phase = "evaluated" /\ req[w].key = q.key =>
              req[w].decision \in q.seen
    BY <2>4, <2>5 DEF CurrentInv
  <2> HIDE DEF q
  <2> QED
    BY <1>0, <2>2, <2>3, <2>4, <2>5, <2>6, RequestFresh
<1>5. CASE Miss(r)
  <2> DEFINE q == [req[r] EXCEPT !.phase = "missed"]
  <2>1. q \in RequestType /\ q.phase = "missed" /\ q.seen = req[r].seen /\ q.key = req[r].key
    BY <1>1 DEF RequestType
  <2>2. req' = [req EXCEPT ![r] = q] /\ Active(r) /\ Keyed(r)
    BY <1>5 DEF Miss, Active, Keyed
  <2> HIDE DEF q
  <2> QED
    BY <1>0, <2>1, <2>2, RequestFresh DEF SeenInv, KeysInv
<1>6. CASE Finish(r)
  <2>1. Idle.phase = "idle"
    BY DEF Idle
  <2>2. req' = [req EXCEPT ![r] = Idle]
    BY <1>6 DEF Finish
  <2> QED
    BY <1>0, <2>1, <2>2, IdleType, RequestFresh
<1> QED
  BY <1>2, <1>3, <1>4, <1>5, <1>6

\* The steps that give a request its decision without touching the cache.
LEMMA DecideFresh ==
    ASSUME FreshInv, NEW r \in Requests,
           Hit(r) \/ Evaluate(r) \/ EvaluateUncached(r) \/ EvaluateFails(r)
    PROVE  FreshInv'
<1> USE DEF FreshInv
<1>0. UNCHANGED <<published, served, poll, health, bundle, backing, retired, engine, cache>>
  BY DEF Hit, Evaluate, EvaluateUncached, EvaluateFails, source, store, pdp
<1>1. req[r] \in RequestType /\ Active(r)
  BY DEF TypeOK, Active, Hit, Evaluate, EvaluateUncached, EvaluateFails
<1>2. backing \in req[r].seen /\ engine \in req[r].seen
  BY <1>1 DEF SeenInv
<1>3. CASE Evaluate(r)
  <2> DEFINE q == [req[r] EXCEPT !.phase = "evaluated", !.decision = engine]
  <2>1. q \in RequestType /\ q.phase = "evaluated" /\ q.seen = req[r].seen
        /\ q.key = req[r].key /\ q.decision = engine
    BY <1>1 DEF RequestType, TypeOK
  <2>2. req' = [req EXCEPT ![r] = q] /\ Keyed(r)
    BY <1>3 DEF Evaluate, Keyed
  <2> HIDE DEF q
  <2> QED
    BY <1>0, <1>2, <2>1, <2>2, RequestFresh DEF KeysInv
<1>4. ASSUME NEW decision \in req[r].seen \cup {FailClosed}, Told(r, decision) PROVE FreshInv'
  <2>1. decision \in EngineStates \cup {FailClosed}
    BY <1>1 DEF RequestType
  <2>2. PICK q \in RequestType :
              /\ req' = [req EXCEPT ![r] = q]
              /\ q.phase = "done" /\ q.decision = decision /\ q.seen = req[r].seen
    BY <1>4, <2>1, ToldRecord
  <2> QED
    BY <1>0, <1>2, <2>2, RequestFresh
<1>5. CASE Hit(r)
  BY <1>4, <1>5 DEF Hit, SeenInv
<1>6. CASE EvaluateUncached(r) \/ EvaluateFails(r)
  BY <1>2, <1>4, <1>6 DEF EvaluateUncached, EvaluateFails
<1> QED
  BY <1>3, <1>5, <1>6

\* An insert: every request about to look the key up has seen the decision.
LEMMA InsertFresh == ASSUME FreshInv, NEW r \in Requests, Insert(r) PROVE FreshInv'
<1> USE DEF FreshInv
<1> DEFINE k == req[r].key
           e == req[r].decision
<1>0. UNCHANGED <<published, served, poll, health, bundle, backing, retired, engine>>
  BY DEF Insert, source, store
<1>1. req[r] \in RequestType /\ req[r].phase = "evaluated" /\ Active(r) /\ Keyed(r)
  BY DEF TypeOK, Active, Keyed, Insert
<1>2. k \in Keys /\ e \in req[r].seen /\ e \in EngineStates
      /\ backing \in req[r].seen /\ engine \in req[r].seen
  BY <1>1 DEF SeenInv, RequestType
<1>3. DOMAIN cache' = DOMAIN cache \cup {k}
      /\ \A o \in DOMAIN cache' : cache'[o] = IF o = k THEN e ELSE cache[o]
  BY DEF Insert
<1>4. PICK q \in RequestType :
         /\ req' = [req EXCEPT ![r] = q]
         /\ q.phase = "done" /\ q.decision = e /\ q.seen = req[r].seen
  BY <1>2, ToldRecord DEF Insert
<1>5. req' \in [Requests -> RequestType] /\ \A v \in Requests : req'[v] = IF v = r THEN q ELSE req[v]
  BY <1>4 DEF TypeOK
<1> HIDE DEF k, e
<1>6. TypeOK' /\ RevisionsInv'
  BY <1>0, <1>2, <1>3, <1>5 DEF TypeOK, RevisionsInv
<1>7. KeysInv'
  BY <1>0, <1>1, <1>3, <1>4, <1>5 DEF KeysInv, Keyed, k
<1>8. CurrentInv'
  BY <1>0, <1>1, <1>3, <1>4, <1>5 DEF CurrentInv, k, e
<1>9. SeenInv'
  BY <1>0, <1>1, <1>2, <1>3, <1>4, <1>5 DEF SeenInv, Active, k, e
<1> QED
  BY <1>6, <1>7, <1>8, <1>9

\* Every step preserves the invariant when no content is served again.
LEMMA NextFresh == ASSUME ~Returns PROVE FreshInv /\ [Next]_vars => FreshInv'
<1> SUFFICES ASSUME FreshInv, [Next]_vars PROVE FreshInv'
  OBVIOUS
<1>1. CASE UNCHANGED vars
  BY <1>1 DEF vars, FreshInv, TypeOK, RevisionsInv, KeysInv, CurrentInv, SeenInv, Keyed, Active
<1>2. CASE Next
  BY <1>2, LoopStepFresh, ReloadFresh, AdvertiseFresh, EvictFresh, LookupFresh, DecideFresh,
     InsertFresh DEF Next
<1> QED
  BY <1>1, <1>2

\* As long as the source never serves an earlier content again, no request is told a decision
\* older than the revision advertised when it began, for any number of requests, documents and
\* inputs and any capacity of the cache (src/src/pdp/cache.rs, CachingPdp::decide).
THEOREM NoStaleDecision == ASSUME ~Returns PROVE Spec => []NeverStale
<1>1. FreshInv => NeverStale
  BY DEF FreshInv, SeenInv, NeverStale
<1> QED
  BY <1>1, InitFresh, NextFresh, PTL DEF Spec

-----------------------------------------------------------------------------
(* Without any assumption on the source: the types, and the order of the   *)
(* reload and the advertisement.                                           *)

BackedInv ==
    /\ TypeOK
    /\ \A r \in Requests : req[r].phase = "evaluated" => req[r].decision \in EngineStates
    /\ poll.phase # "reloaded" => engine.data = bundle.data
    /\ poll.phase = "reloaded" => engine.data = poll.doc.data

\* The boot revision is backed by the boot engine (build_pdp).
LEMMA InitBacked == Init => BackedInv
<1> SUFFICES ASSUME Init PROVE BackedInv
  OBVIOUS
<1>1. TypeOK
  BY InitFresh DEF FreshInv
<1>2. \A r \in Requests : req[r].phase = "idle"
  BY DEF Init, Idle
<1> QED
  BY <1>1, <1>2 DEF BackedInv, Init

\* The source and the loop.
LEMMA LoopStepBacked ==
    ASSUME BackedInv,
           (\E d \in Documents : Publish(d)) \/ FetchFails \/ Fetch \/ RefreshFails
    PROVE  BackedInv'
<1> USE DEF BackedInv
<1>1. UNCHANGED <<bundle, backing, retired, engine, cache, req>>
  BY DEF Publish, FetchFails, Fetch, RefreshFails, store, pdp
<1>2. published' \in Documents /\ served' \subseteq Documents
  BY DEF Publish, FetchFails, Fetch, RefreshFails, source, TypeOK
<1>3. health' \in [succeeded : BOOLEAN, failed : BOOLEAN]
  BY DEF Publish, FetchFails, Fetch, RefreshFails, Succeeded, Failed, TypeOK
<1>4. \/ poll' = poll
      \/ poll' = [poll EXCEPT !.phase = "idle"] /\ poll.phase = "fetched"
      \/ poll' = [phase |-> "fetched", doc |-> published] /\ poll.phase = "idle"
  BY DEF Publish, FetchFails, Fetch, RefreshFails
<1>5. TypeOK'
  BY <1>1, <1>2, <1>3, <1>4 DEF TypeOK
<1>6. /\ poll'.phase # "reloaded" => engine'.data = bundle'.data
      /\ poll'.phase = "reloaded" => engine'.data = poll'.doc.data
  BY <1>1, <1>4 DEF TypeOK
<1> QED
  BY <1>1, <1>5, <1>6

\* A reload puts the data of the fetched document in force (RegorusPdp::reload).
LEMMA ReloadBacked == ASSUME BackedInv, Reload PROVE BackedInv'
<1> USE DEF BackedInv, Reload
<1> DEFINE e == Reloaded(poll.doc)
<1>0. UNCHANGED <<published, served, health, bundle, backing, retired, cache>>
  BY DEF store, source
<1>1. e \in EngineStates /\ engine' = e /\ e.data = poll.doc.data
  BY ModuleOfType DEF TypeOK, EngineStates, Reloaded
<1> HIDE DEF e
<1>2. \A r \in Requests : /\ req'[r] \in RequestType /\ req'[r].phase = req[r].phase
                           /\ req'[r].decision = req[r].decision
  <2> SUFFICES ASSUME NEW r \in Requests
               PROVE  /\ req'[r] \in RequestType /\ req'[r].phase = req[r].phase
                      /\ req'[r].decision = req[r].decision
    OBVIOUS
  <2>1. req[r] \in RequestType
    BY DEF TypeOK
  <2>2. req'[r] = IF Active(r) THEN [req[r] EXCEPT !.seen = @ \cup {e}] ELSE req[r]
    BY DEF e
  <2> QED
    BY <1>1, <2>1, <2>2 DEF RequestType
<1>3. req' \in [Requests -> RequestType]
  BY <1>2
<1>4. TypeOK'
  BY <1>0, <1>1, <1>3 DEF TypeOK
<1>5. poll'.phase = "reloaded" /\ poll'.doc = poll.doc
  BY DEF TypeOK
<1> QED
  BY <1>1, <1>2, <1>4, <1>5

\* The revision advertised is the one the engine was reloaded for (refresh_once).
LEMMA AdvertiseBacked == ASSUME BackedInv, Advertise PROVE BackedInv'
<1> USE DEF BackedInv, Advertise
<1>0. UNCHANGED <<published, served, engine, cache, req>>
  BY DEF pdp, source
<1>1. TypeOK'
  BY <1>0 DEF TypeOK, Succeeded
<1>2. poll'.phase = "idle"
  BY DEF TypeOK
<1> QED
  BY <1>0, <1>1, <1>2

\* The steps of the requests and of the cache leave the loop and the engine alone.
LEMMA RequestBacked ==
    ASSUME BackedInv, NEW r \in Requests,
           \/ \E i \in Inputs : Start(r, i)
           \/ Bypass(r) \/ ReadRevision(r) \/ Miss(r) \/ Finish(r)
           \/ Hit(r) \/ Evaluate(r) \/ EvaluateUncached(r) \/ EvaluateFails(r) \/ Insert(r)
    PROVE  BackedInv'
<1> USE DEF BackedInv
<1>0. UNCHANGED <<published, served, poll, health, bundle, backing, retired, engine>>
  BY DEF Start, Bypass, ReadRevision, Miss, Finish, Hit, Evaluate, EvaluateUncached,
         EvaluateFails, Insert, source, store, pdp
<1>1. req[r] \in RequestType
  BY DEF TypeOK
<1>2. DOMAIN cache' \subseteq Keys /\ \A k \in DOMAIN cache' : cache'[k] \in EngineStates
  <2>1. CASE Insert(r)
    BY <1>1, <2>1 DEF Insert, TypeOK, RequestType
  <2>2. CASE UNCHANGED cache
    BY <2>2 DEF TypeOK
  <2> QED
    BY <2>1, <2>2 DEF Start, Bypass, ReadRevision, Miss, Finish, Hit, Evaluate,
                      EvaluateUncached, EvaluateFails, pdp
<1>4. PICK q \in RequestType : /\ req' = [req EXCEPT ![r] = q]
                               /\ q.phase = "evaluated" => q.decision \in EngineStates
  <2>1. CASE \E i \in Inputs : Start(r, i)
    <3>1. PICK i \in Inputs : Start(r, i)
      BY <2>1
    <3> DEFINE q == [Idle EXCEPT !.phase = "started", !.input = i, !.seen = {backing, engine}]
    <3>2. q \in RequestType /\ q.phase = "started"
      BY IdleType DEF RequestType, TypeOK
    <3> QED
      BY <3>1, <3>2 DEF Start
  <2>2. CASE Bypass(r) \/ Miss(r)
    <3>1. [req[r] EXCEPT !.phase = "direct"] \in RequestType
          /\ [req[r] EXCEPT !.phase = "missed"] \in RequestType
      BY <1>1 DEF RequestType
    <3>2. req' = [req EXCEPT ![r] = [req[r] EXCEPT !.phase = "direct"]]
          \/ req' = [req EXCEPT ![r] = [req[r] EXCEPT !.phase = "missed"]]
      BY <2>2 DEF Bypass, Miss
    <3> QED
      BY <1>1, <3>1, <3>2 DEF RequestType
  <2>3. CASE ReadRevision(r)
    <3> DEFINE q == [req[r] EXCEPT !.phase = "keyed", !.key = CacheKey(bundle, req[r].input)]
    <3>1. CacheKey(bundle, req[r].input) \in Keys
      BY <1>1 DEF Keys, RequestType, TypeOK
    <3>2. q \in RequestType /\ q.phase = "keyed"
      BY <1>1, <3>1 DEF RequestType
    <3> QED
      BY <2>3, <3>2 DEF ReadRevision
  <2>4. CASE Evaluate(r)
    <3> DEFINE q == [req[r] EXCEPT !.phase = "evaluated", !.decision = engine]
    <3>1. q \in RequestType /\ q.decision = engine /\ engine \in EngineStates
      BY <1>1 DEF RequestType, TypeOK
    <3> QED
      BY <2>4, <3>1 DEF Evaluate
  <2>5. CASE Finish(r)
    <3>1. Idle.phase = "idle"
      BY DEF Idle
    <3> QED
      BY <2>5, <3>1, IdleType DEF Finish
  <2>6. CASE Hit(r) \/ EvaluateUncached(r) \/ EvaluateFails(r) \/ Insert(r)
    <3>1. \E decision \in EngineStates \cup {FailClosed} : Told(r, decision)
      BY <1>1, <2>6 DEF Hit, EvaluateUncached, EvaluateFails, Insert, TypeOK
    <3> QED
      BY <3>1, ToldRecord
  <2> QED
    BY <2>1, <2>2, <2>3, <2>4, <2>5, <2>6
<1>5. req' \in [Requests -> RequestType] /\ \A v \in Requests : req'[v] = IF v = r THEN q ELSE req[v]
  BY <1>4 DEF TypeOK
<1>6. TypeOK'
  BY <1>0, <1>2, <1>5 DEF TypeOK
<1> QED
  BY <1>0, <1>4, <1>5, <1>6

\* Evicting an entry touches neither engine nor revision.
LEMMA EvictBacked == ASSUME BackedInv, NEW k, Evict(k) PROVE BackedInv'
BY DEF BackedInv, Evict, TypeOK, store, source

\* Every step keeps the advertised revision backed.
LEMMA NextBacked == BackedInv /\ [Next]_vars => BackedInv'
<1> SUFFICES ASSUME BackedInv, [Next]_vars PROVE BackedInv'
  OBVIOUS
<1>1. CASE UNCHANGED vars
  BY <1>1 DEF vars, BackedInv, TypeOK
<1>2. CASE Next
  BY <1>2, LoopStepBacked, ReloadBacked, AdvertiseBacked, EvictBacked, RequestBacked DEF Next
<1> QED
  BY <1>1, <1>2

\* Every part of the policy state keeps its type, whatever the source serves.
THEOREM TypeCorrect == Spec => []TypeOK
<1>1. BackedInv => TypeOK
  BY DEF BackedInv
<1> QED
  BY <1>1, InitBacked, NextBacked, PTL DEF Spec

\* "no request ever sees a new revision backed by the old policy", for any documents and even
\* if the source returns to earlier ones (src/src/bundle_refresh.rs, refresh_once).
THEOREM RevisionIsBacked == Spec => []RevisionBacked
<1>1. BackedInv => RevisionBacked
  BY DEF BackedInv, TypeOK, RevisionBacked
<1> QED
  BY <1>1, InitBacked, NextBacked, PTL DEF Spec

=============================================================================
