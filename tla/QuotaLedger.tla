----------------------------- MODULE QuotaLedger -----------------------------
(***************************************************************************)
(* Byte quotas counted by one gateway replica (src/src/quota.rs).          *)
(*                                                                         *)
(* The ledger is one mutex-protected map from a level (a bucket, a tenant, *)
(* a backend) to a counter.  A write pins the quota table of the bundle    *)
(* revision in force when its request was checked, is admitted against it  *)
(* under the lock, holds its bytes in flight at every limited level until  *)
(* the backend's answer settles them, and stays counted in a time slot     *)
(* until a collection of the control plane covers it.                      *)
(*                                                                         *)
(* The backend, the collector and the clock are the environment.  Time is  *)
(* counted in ticks, TicksPerSecond of them to a second, because the code  *)
(* rounds a completion up, and a collection down, to whole seconds.        *)
(***************************************************************************)
EXTENDS Integers, Sequences, FiniteSets

CONSTANTS
    Writers,         \* requests that may be in progress at once
    Targets,         \* write targets: records [bucket, tenant, backend]
    Quotaed,         \* the levels for which the control plane may state a quota
    Limits,          \* the limits it states, in bytes
    Sizes,           \* the stated sizes of writes, in bytes
    Tracking,        \* whether writes carry a client body to track: subset of BOOLEAN
    SpecKinds,       \* how a bundle may state a quota: subset of Kinds
    MaxU64,          \* u64::MAX, where the counters saturate
    MaxSettledSlots, \* MAX_SETTLED_SLOTS
    TicksPerSecond,  \* resolution of the clock below a second
    MaxTime,         \* bound: the last tick
    MaxGen,          \* bound: the number of bundle revisions published
    MaxLag,          \* bound: how many revisions a pin may trail the newest
    MaxStepBack,     \* how far the gateway's clock may step back, in ticks
    LateLanding      \* whether the backend may store a write the gateway gave up on

Kinds == {"absent", "limit", "unreadable"}

\* The levels a write counts against, narrowest first.
ScopesOf(t) == << <<"bucket", t.bucket>>, <<"tenant", t.tenant>>, <<"backend", t.backend>> >>

Levels(t) == {ScopesOf(t)[i] : i \in 1..3}

Scopes == UNION {Levels(t) : t \in Targets}

Time == 0..MaxTime
Bytes == 0..MaxU64

ASSUME QuotaAssumption ==
    /\ IsFiniteSet(Writers) /\ Targets # {}
    /\ Quotaed \subseteq Scopes
    /\ SpecKinds \subseteq Kinds
    /\ MaxU64 \in Nat
    \* A limit of u64::MAX bytes is no limit: no comparison can pass it.
    /\ Limits # {} /\ Limits \subseteq 0..(MaxU64 - 1)
    /\ Sizes \subseteq Bytes
    /\ MaxSettledSlots \in Nat \ {0}
    /\ TicksPerSecond \in Nat \ {0}
    /\ MaxTime \in Nat /\ MaxGen \in Nat \ {0} /\ MaxLag \in Nat /\ MaxStepBack \in Nat
    /\ LateLanding \in BOOLEAN /\ Tracking \subseteq BOOLEAN

VARIABLES
    now,       \* the clock
    stored,    \* bytes the backend holds, per level
    collected, \* the collector's last measurement: its start, and bytes per level
    tables,    \* the quota tables published so far; the index is the generation
    counters,  \* LedgerState.counters: a function on the levels counted
    swept,     \* LedgerState.swept
    writer     \* the requests: what they pinned, and their reservation

vars == <<now, stored, collected, tables, counters, swept, writer>>
ledger == <<counters, swept>>
environment == <<now, stored, collected, tables>>

-----------------------------------------------------------------------------
(* Saturating u64 arithmetic, and totals.                                  *)

SatAdd(a, b) == IF a + b > MaxU64 THEN MaxU64 ELSE a + b
SatSub(a, b) == IF b > a THEN 0 ELSE a - b

\* The sum of a finite family of byte counts: the number of bytes in their disjoint union.
Total(f) == Cardinality(UNION {{i} \X (1..f[i]) : i \in DOMAIN f})

-----------------------------------------------------------------------------
(* Quota tables.                                                           *)

QuotaSpec(kind, limit, used, at) ==
    [kind |-> kind, limit_bytes |-> limit, used_bytes |-> used, collected_at |-> at]

QuotaSpecs == [kind : Kinds, limit_bytes : {0} \cup Limits, used_bytes : Bytes, collected_at : Time]

Stated(g, s) == tables[g][s].kind # "absent"
Limited(g, s) == tables[g][s].kind = "limit"

\* The levels of target t for which revision g states a quota.
Applicable(g, t) == {s \in Levels(t) : Stated(g, s)}

-----------------------------------------------------------------------------
(* One counter.                                                            *)

Counter == [collected_at : Time, used_bytes : Bytes, in_flight : Bytes,
            settled : Seq([end : Nat, bytes : Bytes]), settled_bytes : Bytes]

NewCounter(q) ==
    [collected_at |-> q.collected_at, used_bytes |-> q.used_bytes,
     in_flight |-> 0, settled |-> <<>>, settled_bytes |-> 0]

FloorSecond(t) == t \div TicksPerSecond

\* Mutant: a completion rounded down, as a collection is.
CeilSecondDown(t) == t \div TicksPerSecond

CeilSecond(t) == (t + TicksPerSecond - 1) \div TicksPerSecond

\* The number of leading slots that end no later than the covered second.
CoveredSlots(slots, covered) ==
    Cardinality({i \in DOMAIN slots : \A j \in 1..i : slots[j].end <= covered})

\* Mutant: any revision's collection becomes the basis, an older one included.
ObserveAny(c, q) ==
    LET n == CoveredSlots(c.settled, FloorSecond(q.collected_at))
    IN  [c EXCEPT !.collected_at = q.collected_at,
                  !.used_bytes = q.used_bytes,
                  !.settled = SubSeq(@, n + 1, Len(@)),
                  !.settled_bytes = SatSub(@, Total([i \in 1..n |-> c.settled[i].bytes]))]

\* Take a newer collection as the basis, and drop the completed writes it covers.
Observe(c, q) ==
    IF q.collected_at <= c.collected_at THEN c
    ELSE LET n == CoveredSlots(c.settled, FloorSecond(q.collected_at))
         IN  [c EXCEPT
                !.collected_at = q.collected_at,
                !.used_bytes = q.used_bytes,
                !.settled = SubSeq(@, n + 1, Len(@)),
                !.settled_bytes = SatSub(@, Total([i \in 1..n |-> c.settled[i].bytes]))]

Counted(c) == SatAdd(c.in_flight, c.settled_bytes)

IsEmpty(c) == c.in_flight = 0 /\ c.settled_bytes = 0


\* Add bytes completed by the end of a second to the slots, merging the two oldest past
\* the cap.
AddToSlots(slots, end, b) ==
    LET n == Len(slots)
        grown == IF n > 0 /\ slots[n].end >= end
                 THEN [slots EXCEPT ![n].bytes = SatAdd(@, b)]
                 ELSE Append(slots, [end |-> end, bytes |-> b])
    IN  IF Len(grown) > MaxSettledSlots
        THEN [Tail(grown) EXCEPT ![1].bytes = SatAdd(@, grown[1].bytes)]
        ELSE grown

\* The write no longer is in flight; if it was committed, it completed at tick at.
Settle(c, b, committed, at) ==
    LET answered == [c EXCEPT !.in_flight = SatSub(@, b)]
    IN  IF committed /\ b > 0
        THEN [answered EXCEPT !.settled_bytes = SatAdd(@, b),
                              !.settled = AddToSlots(@, CeilSecond(at), b)]
        ELSE answered

-----------------------------------------------------------------------------
(* The ledger under its lock.                                              *)

\* Once per newer revision: bring every counter up to it, and forget the levels that no
\* longer have a limit or no longer hold anything.
Sweep(g) ==
    IF g <= swept THEN counters
    ELSE LET Brought(s) == IF Limited(g, s) THEN Observe(counters[s], tables[g][s])
                                            ELSE counters[s]
             kept == {s \in DOMAIN counters :
                        /\ Limited(g, s) \/ counters[s].in_flight > 0
                        /\ ~IsEmpty(Brought(s))}
         IN  [s \in kept |-> Brought(s)]

\* The counter of level s once admission under revision g has looked at it.
Entry(cs, g, s) ==
    Observe(IF s \in DOMAIN cs THEN cs[s] ELSE NewCounter(tables[g][s]), tables[g][s])

\* Mutant: the write itself is left out of the comparison.
ExceedsWithoutWrite(cs, g, s, b) ==
    SatAdd(Entry(cs, g, s).used_bytes, Counted(Entry(cs, g, s))) > tables[g][s].limit_bytes

\* A write of b bytes would take level s past its limit.
Exceeds(cs, g, s, b) ==
    SatAdd(SatAdd(Entry(cs, g, s).used_bytes, Counted(Entry(cs, g, s))), b)
        > tables[g][s].limit_bytes

\* The limited levels admission looks at: it stops at the first one without room.
Reached(cs, g, t, b) ==
    {ScopesOf(t)[i] : i \in {i \in 1..3 :
        /\ Limited(g, ScopesOf(t)[i])
        /\ \A j \in 1..(i - 1) :
              Limited(g, ScopesOf(t)[j]) => ~Exceeds(cs, g, ScopesOf(t)[j], b)}}

HasRoom(cs, g, t, b) == \A s \in Applicable(g, t) : ~Exceeds(cs, g, s, b)

Entered(cs, g, levels) ==
    [s \in DOMAIN cs \cup levels |-> IF s \in levels THEN Entry(cs, g, s) ELSE cs[s]]

InFlight(cs, levels, b) ==
    [s \in DOMAIN cs |-> IF s \in levels THEN [cs[s] EXCEPT !.in_flight = SatAdd(@, b)]
                                         ELSE cs[s]]

\* QuotaLedger::settle: at every level of the reservation whose counter still exists.
SettleAll(levels, b, committed, at) ==
    [s \in DOMAIN counters |-> IF s \in levels THEN Settle(counters[s], b, committed, at)
                                               ELSE counters[s]]

-----------------------------------------------------------------------------
(* Requests.  A reservation's flags are those of QuotaReservation and its  *)
(* BodyProgress; answer and landed are the backend's side of the write.    *)

AnyTarget == CHOOSE t \in Targets : TRUE

Idle == [phase |-> "idle", gen |-> 0, target |-> AnyTarget, held |-> {}, bytes |-> 0,
         settled |-> FALSE, dispatched |-> FALSE, tracked |-> FALSE, delivered |-> 0,
         ended |-> FALSE, failed |-> FALSE, answer |-> "none", landed |-> FALSE]

WriterType ==
    [phase : {"idle", "pinned", "reserved", "gone"}, gen : 0..MaxGen,
     target : Targets, held : SUBSET Scopes, bytes : Bytes,
     settled : BOOLEAN, dispatched : BOOLEAN, tracked : BOOLEAN, delivered : Nat,
     ended : BOOLEAN, failed : BOOLEAN,
     answer : {"none", "ok", "refused", "unknown"}, landed : BOOLEAN]

\* QuotaReservation::may_have_been_stored.
MayHaveBeenStored(r) ==
    /\ r.dispatched
    /\ \/ ~r.tracked
       \/ ~r.failed /\ (r.ended \/ r.delivered >= r.bytes)

\* Mutant: settle is not idempotent; Drop settles an answered write again.
SettleReservationAgain(w, committed, stepBack) ==
    counters' = SettleAll(writer[w].held, writer[w].bytes, committed, now - stepBack)

\* QuotaReservation::settle: the first call settles, a later one does nothing.
SettleReservation(w, committed, stepBack) ==
    counters' = IF writer[w].settled THEN counters
                ELSE SettleAll(writer[w].held, writer[w].bytes, committed, now - stepBack)

StepBacks == {k \in 0..MaxStepBack : k <= now}

-----------------------------------------------------------------------------
(* The environment: the clock, the collector, the control plane.           *)

Init ==
    /\ now = 0
    /\ stored = [s \in Scopes |-> 0]
    /\ collected = [at |-> 0, used |-> [s \in Scopes |-> 0]]
    /\ \E kind \in [Quotaed -> SpecKinds], limit \in [Quotaed -> Limits] :
          tables = << [s \in Scopes |->
                          IF s \in Quotaed /\ kind[s] = "limit"
                          THEN QuotaSpec("limit", limit[s], 0, 0)
                          ELSE QuotaSpec(IF s \in Quotaed THEN kind[s] ELSE "absent", 0, 0, 0)] >>
    /\ counters = [s \in {} |-> 0]
    /\ swept = 0
    /\ writer = [w \in Writers |-> Idle]

Tick ==
    /\ now < MaxTime
    /\ now' = now + 1
    /\ UNCHANGED <<stored, collected, tables, ledger, writer>>

\* A measurement that started at tick at has seen every write stored by then.
Collect(at) ==
    /\ collected.at < at /\ at < now
    /\ collected' = [at |-> at, used |-> stored]
    /\ UNCHANGED <<now, stored, tables, ledger, writer>>

\* A new bundle revision carries the last measurement; its generation is its position.
Publish(kind, limit) ==
    /\ Len(tables) < MaxGen
    /\ tables' = Append(tables,
          [s \in Scopes |->
              IF s \in Quotaed /\ kind[s] = "limit"
              THEN QuotaSpec("limit", limit[s], collected.used[s], collected.at)
              ELSE QuotaSpec(IF s \in Quotaed THEN kind[s] ELSE "absent", 0, 0, 0)])
    /\ UNCHANGED <<now, stored, collected, ledger, writer>>

\* The backend stores the write once it has the whole body.  If LateLanding, it may do so
\* after the gateway gave up waiting for the answer.
BackendStores(w) ==
    LET r == writer[w] IN
    /\ r.dispatched /\ ~r.landed
    /\ ~r.tracked \/ (~r.failed /\ r.delivered >= r.bytes)
    /\ r.answer = "none" \/ (LateLanding /\ r.answer = "unknown")
    /\ \A s \in Levels(r.target) : stored[s] + r.bytes <= MaxU64
    /\ stored' = [s \in Scopes |-> IF s \in Levels(r.target) THEN stored[s] + r.bytes
                                                             ELSE stored[s]]
    /\ writer' = [writer EXCEPT ![w].landed = TRUE]
    /\ UNCHANGED <<now, collected, tables, ledger>>

-----------------------------------------------------------------------------
(* A request: pinned to a revision when it is checked, then admitted.      *)

\* Mutant: the request is given the generation after the one in force.
PinNext(w, t) ==
    /\ writer[w].phase = "idle"
    /\ writer' = [writer EXCEPT ![w] = [Idle EXCEPT !.phase = "pinned", !.target = t,
                                                    !.gen = Len(tables) + 1]]
    /\ UNCHANGED <<environment, ledger>>

Pin(w, t) ==
    /\ writer[w].phase = "idle"
    /\ writer' = [writer EXCEPT ![w] = [Idle EXCEPT !.phase = "pinned", !.target = t,
                                                    !.gen = Len(tables)]]
    /\ UNCHANGED <<environment, ledger>>

\* The request ends before admission, or is denied for another reason.
Abandon(w) ==
    /\ writer[w].phase = "pinned"
    /\ writer' = [writer EXCEPT ![w] = Idle]
    /\ UNCHANGED <<environment, ledger>>

Admitting(w) == writer[w].phase = "pinned" /\ Len(tables) - writer[w].gen <= MaxLag

\* admit returns before it takes the lock: no level has a quota, one cannot be read, or the
\* write does not state its size.
AdmitWithoutLedger(w, sized) ==
    LET r == writer[w] IN
    /\ Admitting(w)
    /\ \/ Applicable(r.gen, r.target) = {}
       \/ \E s \in Applicable(r.gen, r.target) : ~Limited(r.gen, s)
       \/ ~sized
    /\ writer' = [writer EXCEPT ![w] = Idle]
    /\ UNCHANGED <<environment, ledger>>

AllReadable(r) ==
    /\ Applicable(r.gen, r.target) # {}
    /\ \A s \in Applicable(r.gen, r.target) : Limited(r.gen, s)

\* Every level has room: the bytes are in flight at every one of them.
Reserve(w, b) ==
    LET r == writer[w]
        cs == Sweep(r.gen)
        levels == Applicable(r.gen, r.target)
    IN
    /\ Admitting(w) /\ AllReadable(r)
    /\ HasRoom(cs, r.gen, r.target, b)
    /\ counters' = InFlight(Entered(cs, r.gen, levels), levels, b)
    /\ swept' = IF r.gen > swept THEN r.gen ELSE swept
    /\ writer' = [writer EXCEPT ![w] = [Idle EXCEPT !.phase = "reserved",
          !.gen = r.gen, !.target = r.target, !.held = levels, !.bytes = b]]
    /\ UNCHANGED environment

\* Some level has no room: what the loop did before it found out stays done.
RefuseExceeded(w, b) ==
    LET r == writer[w]
        cs == Sweep(r.gen)
    IN
    /\ Admitting(w) /\ AllReadable(r)
    /\ ~HasRoom(cs, r.gen, r.target, b)
    /\ counters' = Entered(cs, r.gen, Reached(cs, r.gen, r.target, b))
    /\ swept' = IF r.gen > swept THEN r.gen ELSE swept
    /\ writer' = [writer EXCEPT ![w] = Idle]
    /\ UNCHANGED environment

-----------------------------------------------------------------------------
(* The forward path: dispatch, the client body, the backend's answer.      *)

Reserved(w) == writer[w].phase = "reserved"
InBackendCall(w) == Reserved(w) /\ writer[w].dispatched /\ writer[w].answer = "none"

\* No backend client for the request: its bytes are given back.
ReleaseUndispatched(w) ==
    /\ Reserved(w) /\ ~writer[w].dispatched /\ ~writer[w].settled
    /\ SettleReservation(w, FALSE, 0)
    /\ writer' = [writer EXCEPT ![w].settled = TRUE]
    /\ UNCHANGED <<environment, swept>>

\* track_body (for the operations that carry a body) and mark_dispatched.
Dispatch(w, tracked) ==
    /\ Reserved(w) /\ ~writer[w].dispatched /\ ~writer[w].settled
    /\ writer' = [writer EXCEPT ![w].dispatched = TRUE, ![w].tracked = tracked]
    /\ UNCHANGED <<environment, ledger>>

Streaming(w) ==
    InBackendCall(w) /\ writer[w].tracked /\ ~writer[w].ended /\ ~writer[w].failed

\* TrackedBody::poll_frame: a frame that passes the charged bytes fails the body.  The
\* backend client stops polling once it has sent the declared length.
PollFrame(w, len) ==
    /\ Streaming(w) /\ writer[w].delivered < writer[w].bytes
    /\ writer' = [writer EXCEPT ![w].delivered = @ + len,
                                ![w].failed = writer[w].delivered + len > writer[w].bytes]
    /\ UNCHANGED <<environment, ledger>>

PollEnd(w) ==
    /\ Streaming(w)
    /\ writer' = [writer EXCEPT ![w].ended = TRUE]
    /\ UNCHANGED <<environment, ledger>>

PollError(w) ==
    /\ Streaming(w) /\ writer[w].delivered < writer[w].bytes
    /\ writer' = [writer EXCEPT ![w].failed = TRUE]
    /\ UNCHANGED <<environment, ledger>>

\* A success: the backend has stored the write, which completes now.
AnswerOk(w) ==
    /\ InBackendCall(w) /\ writer[w].landed
    /\ \E k \in StepBacks : SettleReservation(w, TRUE, k)
    /\ writer' = [writer EXCEPT ![w].settled = TRUE, ![w].answer = "ok"]
    /\ UNCHANGED <<environment, swept>>

\* A 4xx: the backend stored nothing.
AnswerRefused(w) ==
    /\ InBackendCall(w) /\ ~writer[w].landed
    /\ SettleReservation(w, FALSE, 0)
    /\ writer' = [writer EXCEPT ![w].settled = TRUE, ![w].answer = "refused"]
    /\ UNCHANGED <<environment, swept>>

\* A 5xx or a timeout: the backend may or may not have stored it.
AnswerUnknown(w) ==
    /\ InBackendCall(w)
    /\ \E k \in StepBacks : SettleReservation(w, MayHaveBeenStored(writer[w]), k)
    /\ writer' = [writer EXCEPT ![w].settled = TRUE, ![w].answer = "unknown"]
    /\ UNCHANGED <<environment, swept>>

\* The last reference to the reservation goes away: after an answer, or because the request
\* was dropped at any point before one.
Drop(w) ==
    /\ Reserved(w)
    /\ \E k \in StepBacks : SettleReservation(w, MayHaveBeenStored(writer[w]), k)
    /\ writer' = [writer EXCEPT ![w] =
          IF LateLanding /\ @.dispatched /\ @.answer \in {"none", "unknown"} /\ ~@.landed
          THEN [@ EXCEPT !.phase = "gone", !.settled = TRUE, !.answer = "unknown"]
          ELSE Idle]
    /\ UNCHANGED <<environment, swept>>

\* The backend is done with a write the gateway no longer waits for.
Forget(w) ==
    /\ writer[w].phase = "gone"
    /\ writer' = [writer EXCEPT ![w] = Idle]
    /\ UNCHANGED <<environment, ledger>>

Next ==
    \/ Tick
    \/ \E at \in Time : Collect(at)
    \/ \E kind \in [Quotaed -> SpecKinds], limit \in [Quotaed -> Limits] : Publish(kind, limit)
    \/ \E w \in Writers :
          \/ BackendStores(w)
          \/ \E t \in Targets : Pin(w, t)
          \/ Abandon(w)
          \/ \E sized \in BOOLEAN : AdmitWithoutLedger(w, sized)
          \/ \E b \in Sizes : Reserve(w, b) \/ RefuseExceeded(w, b)
          \/ ReleaseUndispatched(w)
          \/ \E tracked \in Tracking : Dispatch(w, tracked)
          \/ \E len \in 1..MaxU64 : len <= writer[w].bytes + 1 /\ PollFrame(w, len)
          \/ PollEnd(w)
          \/ PollError(w)
          \/ AnswerOk(w)
          \/ AnswerRefused(w)
          \/ AnswerUnknown(w)
          \/ Drop(w)
          \/ Forget(w)

Spec == Init /\ [][Next]_vars

-----------------------------------------------------------------------------
(* Properties.                                                             *)

TypeOK ==
    /\ now \in Time
    /\ stored \in [Scopes -> Bytes]
    /\ collected \in [at : Time, used : [Scopes -> Bytes]]
    /\ tables \in Seq([Scopes -> QuotaSpecs]) /\ Len(tables) \in 1..MaxGen
    /\ DOMAIN counters \subseteq Scopes
    /\ \A s \in DOMAIN counters : counters[s] \in Counter
    /\ swept \in 0..MaxGen
    /\ writer \in [Writers -> WriterType]
    /\ \A w \in Writers : writer[w].phase = "pinned" => writer[w].gen \in 1..Len(tables)

\* What writer w holds in flight at level s.
HeldBy(w, s) ==
    IF Reserved(w) /\ ~writer[w].settled /\ s \in writer[w].held THEN writer[w].bytes ELSE 0

\* The in-flight figure of every level is exactly the bytes of the admitted writes that have
\* not been settled: admission, the idempotent settle, the drop of a request at any point
\* and the sweep of another request never lose, leak or double-release a byte.
InFlightExact ==
    \A s \in Scopes :
        Total([w \in Writers |-> HeldBy(w, s)])
            = IF s \in DOMAIN counters THEN counters[s].in_flight ELSE 0


Newest == tables[Len(tables)]

\* What the next admission at level s would count: the counter if there is one, else the
\* collection the newest revision carries.
CountedAt(s) ==
    IF s \in DOMAIN counters THEN counters[s].used_bytes + Counted(counters[s])
    ELSE Newest[s].used_bytes

\* "Counted from admission until a collection covers it": every byte the backend holds at a
\* limited level is in the basis of its counter, in flight, or in a slot.
CountedUntilCovered ==
    \A s \in Scopes : Newest[s].kind = "limit" => stored[s] <= CountedAt(s)

\* What the quotas are for: with one replica and a limit that does not change, the backend
\* never holds more than the limit of a level, whatever is in flight when a collection is
\* taken, published or observed.
StoredWithinLimit ==
    \A s \in Quotaed : \A limit \in Limits :
        (\A other \in Limits : other <= limit) => stored[s] <= limit

\* A counter's basis is never turned back: a step that keeps the counter of a level never
\* gives it an older collection, although admissions run against whatever revision their
\* request pinned.
BasisNeverTurnsBack ==
    [][\A s \in DOMAIN counters \cap DOMAIN counters' :
          counters[s].collected_at <= counters'[s].collected_at]_vars

=============================================================================
