---------------------------- MODULE AuditPipeline ----------------------------
(***************************************************************************)
(* The way of an audit record from a decided request to the sink           *)
(* (src/src/audit/pending.rs, src/src/audit/sink.rs), and the shutdown     *)
(* that drains it (src/src/server.rs, src/src/main.rs).                    *)
(*                                                                         *)
(* A record is held by its request, put on the bounded queue without ever  *)
(* waiting, taken by the one worker, shipped in batches, spilled to a      *)
(* local file when the sink fails, and replayed from there.  The worker's  *)
(* awaits are its steps; requests emit between any two of them.            *)
(***************************************************************************)
EXTENDS Naturals, Sequences, FiniteSets, SequencesExt

CONSTANTS
    Records,        \* the decision records, one per request
    Torn,           \* a line of the spill file that does not parse
    QueueCapacity,  \* AuditConfig.queue_capacity
    BatchMax,       \* AuditConfig.batch_max
    MaxSpillLines,  \* MAX_SPILL_BYTES, in lines
    MaxCount,       \* bound: where the model stops counting losses
    MaxCrashes,     \* bound: hard kills of the process
    DiskFails,      \* whether operations on the spill file may fail
    DrainTimesOut   \* whether the drain of the connections may time out

ASSUME AuditAssumption ==
    /\ Torn \notin Records
    /\ QueueCapacity \in Nat \ {0} /\ BatchMax \in Nat \ {0}
    /\ MaxSpillLines \in Nat /\ MaxCount \in Nat /\ MaxCrashes \in Nat
    /\ DiskFails \in BOOLEAN /\ DrainTimesOut \in BOOLEAN

VARIABLES
    process,  \* "serving", "draining" its connections, "auditing" (AuditHandle::drain), "gone"
    request,  \* per record: its request is "fresh", "held" as PendingAudit, or "emitted"
    queue,    \* the mpsc channel
    worker,   \* Worker::run: where it is, its buffer, the batch in its hands, where it goes next
    notified, \* AuditHandle.shutdown
    file,     \* the spill file: its lines, and whether the last one lacks its newline
    lost,     \* AuditMetrics: queue_dropped, spill_dropped and spill_abandoned together
    accepted, \* the records the sink has
    killed,   \* history: the records in memory when the process was killed
    crashes

vars == <<process, request, queue, worker, notified, file, lost, accepted, killed, crashes>>
sink == <<accepted, killed, crashes>>

\* dropped_total.
Lose(n) == lost' = IF lost + n > MaxCount THEN MaxCount ELSE lost + n

EmptyFile == [lines |-> <<>>, open |-> FALSE]
StartedWorker == [pc |-> "select", buf |-> <<>>, batch |-> <<>>, then |-> "select"]

InMemory == UNION {Range(records) : records \in {queue, worker.buf, worker.batch}}

Init ==
    /\ process = "serving"
    /\ request = [r \in Records |-> "fresh"]
    /\ queue = <<>>
    /\ worker = StartedWorker
    /\ notified = FALSE
    /\ file = EmptyFile
    /\ lost = 0
    /\ accepted = {}
    /\ killed = {}
    /\ crashes = 0

-----------------------------------------------------------------------------
(* Requests.                                                               *)

\* After the connections have drained nothing is decided; a drain that timed out leaves its
\* requests running.
Decide(r) ==
    /\ process # "gone" /\ request[r] = "fresh"
    /\ process = "auditing" => DrainTimesOut
    /\ request' = [request EXCEPT ![r] = "held"]
    /\ UNCHANGED <<process, queue, worker, notified, file, lost, sink>>

\* PendingAudit::settle or its drop, whichever is first, hands the record to
\* AuditSink::emit.
Emit(r) ==
    /\ process # "gone" /\ request[r] = "held"
    /\ request' = [request EXCEPT ![r] = "emitted"]
    /\ IF worker.pc = "exited" \/ Len(queue) = QueueCapacity
       THEN Lose(1) /\ UNCHANGED queue
       ELSE queue' = Append(queue, r) /\ UNCHANGED lost
    /\ UNCHANGED <<process, worker, notified, file, sink>>

-----------------------------------------------------------------------------
(* The worker.                                                             *)

\* Worker::flush takes the buffer and ships it; with nothing to ship it returns.
Flush(buf, then) ==
    worker' = IF buf = <<>> THEN [worker EXCEPT !.pc = then, !.buf = <<>>]
              ELSE [pc |-> "ship", buf |-> <<>>, batch |-> buf, then |-> then]

\* Mutant: the buffer is flushed one record late.
PushLate(r, back) ==
    IF Len(worker.buf) >= BatchMax THEN Flush(Append(worker.buf, r), back)
    ELSE worker' = [worker EXCEPT !.buf = Append(@, r)]

\* A record joins the buffer, which is flushed when it is full.
Push(r, back) ==
    IF Len(worker.buf) + 1 >= BatchMax THEN Flush(Append(worker.buf, r), back)
    ELSE worker' = [worker EXCEPT !.buf = Append(@, r)]

Recv ==
    /\ process # "gone" /\ worker.pc = "select" /\ queue # <<>>
    /\ queue' = Tail(queue)
    /\ Push(Head(queue), "select")
    /\ UNCHANGED <<process, request, notified, file, lost, sink>>

\* The ticker: flush, then replay.
Tick ==
    /\ process # "gone" /\ worker.pc = "select"
    /\ worker.buf # <<>> \/ file.lines # <<>>
    /\ Flush(worker.buf, "replay")
    /\ UNCHANGED <<process, request, queue, notified, file, lost, sink>>

ShutdownNotified ==
    /\ process # "gone" /\ worker.pc = "select" /\ notified
    /\ worker' = [worker EXCEPT !.pc = "drain"]
    /\ notified' = FALSE
    /\ UNCHANGED <<process, request, queue, file, lost, sink>>

\* The try_recv loop of the shutdown branch.
DrainRecv ==
    /\ process # "gone" /\ worker.pc = "drain" /\ queue # <<>>
    /\ queue' = Tail(queue)
    /\ Push(Head(queue), "drain")
    /\ UNCHANGED <<process, request, notified, file, lost, sink>>


\* Mutant: the shutdown branch falls back into the loop instead of leaving it.
DrainStays ==
    /\ process # "gone" /\ worker.pc = "drain" /\ queue = <<>>
    /\ Flush(worker.buf, "select")
    /\ UNCHANGED <<process, request, queue, notified, file, lost, sink>>

\* Nothing is queued any more: flush, then finish.
DrainEmpty ==
    /\ process # "gone" /\ worker.pc = "drain" /\ queue = <<>>
    /\ Flush(worker.buf, "finish")
    /\ UNCHANGED <<process, request, queue, notified, file, lost, sink>>

\* recv answers None: no request is left that could send.
SendersGone ==
    /\ process = "auditing" /\ worker.pc = "select" /\ queue = <<>>
    /\ \A r \in Records : request[r] = "emitted"
    /\ Flush(worker.buf, "finish")
    /\ UNCHANGED <<process, request, queue, notified, file, lost, sink>>

Shipped == worker' = [worker EXCEPT !.pc = worker.then, !.batch = <<>>]

ShipOk ==
    /\ process # "gone" /\ worker.pc = "ship"
    /\ accepted' = accepted \cup Range(worker.batch)
    /\ Shipped
    /\ UNCHANGED <<process, request, queue, notified, file, lost, killed, crashes>>

\* The sink fails, possibly after it took the batch.
ShipFails(taken) ==
    /\ process # "gone" /\ worker.pc = "ship"
    /\ accepted' = IF taken THEN accepted \cup Range(worker.batch) ELSE accepted
    /\ worker' = [worker EXCEPT !.pc = "spill"]
    /\ UNCHANGED <<process, request, queue, notified, file, lost, killed, crashes>>

\* The file after lines were appended; the first of them ends an open line, which stays torn.
Appended(lines) ==
    [lines |-> IF file.open THEN file.lines \o Tail(lines) ELSE file.lines \o lines,
     open |-> FALSE]

\* Worker::spill.  Past the cap the batch is dropped.
SpillAtCap ==
    /\ process # "gone" /\ worker.pc = "spill" /\ Len(file.lines) > MaxSpillLines
    /\ Lose(Len(worker.batch))
    /\ Shipped
    /\ UNCHANGED <<process, request, queue, notified, file, sink>>

SpillOk ==
    /\ process # "gone" /\ worker.pc = "spill" /\ Len(file.lines) <= MaxSpillLines
    /\ file' = Appended(worker.batch)
    /\ Shipped
    /\ UNCHANGED <<process, request, queue, notified, lost, sink>>

\* The open or the write fails: whole lines may have been written, and part of another one.
SpillFails(whole, torn) ==
    /\ process # "gone" /\ worker.pc = "spill" /\ Len(file.lines) <= MaxSpillLines
    /\ DiskFails /\ whole < Len(worker.batch)
    /\ file' = IF whole = 0
               THEN IF torn /\ ~file.open THEN [lines |-> Append(file.lines, Torn), open |-> TRUE]
                                          ELSE file
               ELSE LET written == Appended(SubSeq(worker.batch, 1, whole))
                    IN  IF torn THEN [lines |-> Append(written.lines, Torn), open |-> TRUE]
                                ELSE written
    /\ Lose(Len(worker.batch))
    /\ Shipped
    /\ UNCHANGED <<process, request, queue, notified, sink>>

Parsed == SelectSeq(file.lines, LAMBDA line : line # Torn)

AfterReplay == IF worker.pc = "replay" THEN "select" ELSE "count"


\* Worker::replay_spill up to its ship, at a tick or as the first half of finish.
ReplayRead(readable, removed) ==
    /\ process # "gone" /\ worker.pc \in {"replay", "finish"}
    /\ DiskFails \/ (readable /\ removed)
    /\ IF ~readable \/ file.lines = <<>>
       THEN worker' = [worker EXCEPT !.pc = AfterReplay] /\ UNCHANGED <<file, lost>>
       ELSE /\ Lose(Len(file.lines) - Len(Parsed))
            /\ IF Parsed = <<>>
               THEN /\ worker' = [worker EXCEPT !.pc = AfterReplay]
                    /\ file' = IF removed THEN EmptyFile ELSE file
               ELSE /\ worker' = [worker EXCEPT !.pc = "reship", !.batch = Parsed,
                                                !.then = AfterReplay]
                    /\ UNCHANGED file
    /\ UNCHANGED <<process, request, queue, notified, sink>>

ReshipOk(removed) ==
    /\ process # "gone" /\ worker.pc = "reship"
    /\ DiskFails \/ removed
    /\ accepted' = accepted \cup Range(worker.batch)
    /\ file' = IF removed THEN EmptyFile ELSE file
    /\ Shipped
    /\ UNCHANGED <<process, request, queue, notified, lost, killed, crashes>>

\* Mutant: the file is removed whether or not the sink took its records.
ReshipFailsRemoving(taken) ==
    /\ process # "gone" /\ worker.pc = "reship"
    /\ accepted' = IF taken THEN accepted \cup Range(worker.batch) ELSE accepted
    /\ file' = EmptyFile
    /\ Shipped
    /\ UNCHANGED <<process, request, queue, notified, lost, killed, crashes>>

ReshipFails(taken) ==
    /\ process # "gone" /\ worker.pc = "reship"
    /\ accepted' = IF taken THEN accepted \cup Range(worker.batch) ELSE accepted
    /\ Shipped
    /\ UNCHANGED <<process, request, queue, notified, file, lost, killed, crashes>>

\* The second half of finish: what is still in the file is lost; the receiver goes away, and
\* with it whatever was queued meanwhile.
CountAbandoned(readable) ==
    /\ process # "gone" /\ worker.pc = "count"
    /\ DiskFails \/ readable
    /\ IF readable THEN Lose(Len(file.lines)) ELSE UNCHANGED lost
    /\ worker' = [worker EXCEPT !.pc = "exited"]
    /\ queue' = <<>>
    /\ UNCHANGED <<process, request, notified, file, sink>>

-----------------------------------------------------------------------------
(* The process.                                                            *)

Sigterm ==
    /\ process = "serving"
    /\ process' = "draining"
    /\ UNCHANGED <<request, queue, worker, notified, file, lost, sink>>

\* serve returns once every connection is done, or after thirty seconds; then the worker is
\* told to drain.
ServeReturns ==
    /\ process = "draining"
    /\ DrainTimesOut \/ \A r \in Records : request[r] # "held"
    /\ process' = "auditing"
    /\ notified' = TRUE
    /\ UNCHANGED <<request, queue, worker, file, lost, sink>>

\* main returns once the worker is done.
Exit ==
    /\ process = "auditing" /\ worker.pc = "exited"
    /\ process' = "gone"
    /\ UNCHANGED <<request, queue, worker, notified, file, lost, sink>>

\* The drain of the worker times out: main returns, the runtime goes away with the worker.
ExitAborting ==
    /\ process = "auditing" /\ worker.pc # "exited"
    /\ process' = "gone"
    /\ killed' = killed \cup InMemory \cup {r \in Records : request[r] = "held"}
    /\ UNCHANGED <<request, queue, worker, notified, file, lost, accepted, crashes>>

\* A hard kill at any point, and a restart of the container: the spill file is still there,
\* what was in memory is not.
Crash ==
    /\ process # "gone" /\ crashes < MaxCrashes
    /\ crashes' = crashes + 1
    /\ killed' = killed \cup InMemory \cup {r \in Records : request[r] = "held"}
    /\ request' = [r \in Records |-> IF request[r] = "held" THEN "emitted" ELSE request[r]]
    /\ process' = "serving"
    /\ queue' = <<>>
    /\ worker' = StartedWorker
    /\ notified' = FALSE
    /\ UNCHANGED <<file, lost, accepted>>

WorkerStep ==
    \/ Recv
    \/ Tick
    \/ ShutdownNotified
    \/ DrainRecv
    \/ DrainEmpty
    \/ SendersGone
    \/ ShipOk
    \/ \E taken \in BOOLEAN : ShipFails(taken)
    \/ SpillAtCap
    \/ SpillOk
    \/ \E whole \in 0..BatchMax, torn \in BOOLEAN : SpillFails(whole, torn)
    \/ \E readable, removed \in BOOLEAN : ReplayRead(readable, removed)
    \/ \E removed \in BOOLEAN : ReshipOk(removed)
    \/ \E taken \in BOOLEAN : ReshipFails(taken)
    \/ \E readable \in BOOLEAN : CountAbandoned(readable)

Next ==
    \/ \E r \in Records : Decide(r) \/ Emit(r)
    \/ WorkerStep
    \/ Sigterm
    \/ ServeReturns
    \/ Exit
    \/ ExitAborting
    \/ Crash

Spec == Init /\ [][Next]_vars

\* The runtime keeps running the worker, its ticker keeps firing, and the sink is up once in
\* a while.
FairSpec ==
    /\ Spec
    /\ WF_vars(WorkerStep) /\ WF_vars(Exit)
    /\ SF_vars(Tick)
    /\ SF_vars(ShutdownNotified)
    /\ SF_vars(ShipOk)
    /\ SF_vars(ReshipOk(TRUE))

-----------------------------------------------------------------------------
(* Properties.                                                             *)

TypeOK ==
    /\ process \in {"serving", "draining", "auditing", "gone"}
    /\ request \in [Records -> {"fresh", "held", "emitted"}]
    /\ queue \in Seq(Records) /\ Len(queue) <= QueueCapacity
    /\ worker \in [pc : {"select", "ship", "spill", "replay", "reship", "drain", "finish",
                         "count", "exited"},
                   buf : Seq(Records), batch : Seq(Records),
                   then : {"select", "replay", "drain", "finish", "count"}]
    /\ Len(worker.buf) < BatchMax
    /\ notified \in BOOLEAN
    /\ file \in [lines : Seq(Records \cup {Torn}), open : BOOLEAN]
    /\ Len(file.lines) <= MaxSpillLines + BatchMax
    /\ lost \in 0..MaxCount
    /\ accepted \subseteq Records /\ killed \subseteq Records /\ crashes \in 0..MaxCrashes

Emitted == {r \in Records : request[r] = "emitted"}

Missing == (Emitted \ accepted) \ killed

\* Where a record of this process can still be: in memory, or on disk; a torn line may stand
\* for a record that is yet to be counted.
Uncertain == Cardinality({i \in DOMAIN file.lines : file.lines[i] = Torn})



\* "Not lost - pending": with a disk that works and room on it, every emitted record reaches
\* the sink in the end, however often a ship fails and the record is spilled and replayed and
\* the process is killed and restarted over its spill file, unless the record was in memory
\* at the kill or the process is shut down first.
EventuallyShipped ==
    \A r \in Records :
        request[r] = "emitted" ~> (r \in accepted \/ r \in killed \/ process = "gone")

\* A shutdown comes to its end: once AuditHandle::drain has notified the worker, the worker
\* exits and main returns, whatever the sink does (unless the process is killed and restarted).
DrainEnds == (process = "auditing") ~> (process \in {"gone", "serving"})

=============================================================================
