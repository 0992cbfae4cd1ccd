----------------------------- MODULE EventSpool -----------------------------
(***************************************************************************)
(* The telemetry path of the SDK: HttpSink (kazenai/sinks.py) with its two *)
(* threads, and the SQLite spool RetryQueue (kazenai/retry_queue.py) that  *)
(* the sinks of one organisation on one host share, each in its process.   *)
(*                                                                         *)
(*   emit      puts an event into the memory queue, or into the spool;     *)
(*   worker    takes from the queue, POSTs a batch, or spools it;          *)
(*   retrier   leases spooled rows, POSTs them, then acks or nacks;        *)
(*   close     drains the queue and joins both threads, up to a deadline.  *)
(*                                                                         *)
(* The lock of a RetryQueue orders the threads of one sink only.  Between  *)
(* processes there are the transactions of SQLite, which begin at the      *)
(* first write: what a call SELECTs before that may be stale when it       *)
(* writes, so such a call is two actions.  A row is named by its event and *)
(* the sink that wrote it: row ids are never used again.                   *)
(***************************************************************************)
EXTENDS Naturals, Sequences, FiniteSets

CONSTANTS
    Sinks,          \* HttpSink objects with one spool file
    Events,         \* event_ids
    Servers,        \* ingest services
    Ingest,         \* the ingest service of each sink
    Given,          \* bound: the events the program gives to each sink
    None,           \* what close puts into the queue to wake the worker
    Closers,        \* bound: the sinks the program closes
    QueueMax,       \* room in the memory queue
    BatchMax,       \* events in one POST
    MaxPending,     \* rows the spool accepts
    DiskRows,       \* rows, pending or dead, that fill max_disk_bytes
    MaxAttempts,    \* leases before a failed row is set aside
    MaxCrashes,     \* bound: processes that die
    PromptPosts     \* a POST always ends before the lease it was made under

ASSUME EventSpoolAssumption ==
    /\ Ingest \in [Sinks -> Servers]
    /\ Given \in [Sinks -> SUBSET Events]
    /\ Closers \subseteq Sinks
    /\ None \notin Events \cup [event : Events, by : Sinks]
    /\ QueueMax \in Nat \ {0}
    /\ BatchMax \in Nat \ {0}
    /\ MaxPending \in Nat
    /\ DiskRows \in Nat
    /\ MaxAttempts \in Nat \ {0}
    /\ MaxCrashes \in Nat
    /\ PromptPosts \in BOOLEAN
    /\ IsFiniteSet(Events)
    /\ IsFiniteSet(Sinks)

VARIABLES
    emitted,   \* events each sink was given
    queue,     \* the memory queue
    spilling,  \* events of emits that found the queue full
    buf,       \* the worker's batch
    worker,    \* where the worker is
    left,      \* what close took from the queue
    life,      \* where close is
    hurried,   \* sinks whose close ran out of time
    rows,      \* spool: the pending rows
    attempts,  \* spool: leases each row has had
    leased,    \* spool: rows under a lease that has not expired
    dead,      \* spool: events set aside
    peak,      \* spool: the most rows the file ever held
    entering,  \* the event each sink has checked and is about to insert
    retrier,   \* where the retrier is
    batch,     \* the rows the retrier works on
    first,     \* the row whose SELECT came before nack's transaction
    server,    \* events each ingest service has received
    dropped,   \* events each sink gave up, and counted
    promised,  \* history: events each sink was given before its close
    crashes    \* processes that have died so far

memory == <<queue, spilling, buf, worker, left, life, hurried, entering>>
spool == <<rows, attempts, leased, dead, peak>>
retry == <<retrier, batch, first>>
vars == <<emitted, memory, spool, retry, server, dropped, promised, crashes>>

Rows == [event : Events, by : Sinks]

Gone == {"closed", "dead"}

TypeOK ==
    /\ emitted \in [Sinks -> SUBSET Events]
    /\ queue \in [Sinks -> Seq(Events \cup {None})]
    /\ \A s \in Sinks : Len(queue[s]) <= QueueMax
    /\ spilling \in [Sinks -> SUBSET Events]
    /\ buf \in [Sinks -> SUBSET Events]
    /\ worker \in [Sinks -> {"top", "get", "post", "spool", "stopped"}]
    /\ left \in [Sinks -> SUBSET Events]
    /\ life \in [Sinks -> {"open", "drain", "post", "spool", "join"} \cup Gone]
    /\ hurried \subseteq Sinks
    /\ rows \subseteq Rows
    /\ \A r, q \in rows : r.event = q.event => r = q
    /\ attempts \in [Rows -> 0..MaxAttempts]
    /\ leased \subseteq rows
    /\ dead \subseteq Events
    /\ peak \in Nat
    /\ entering \in [Sinks -> Events \cup {None}]
    /\ retrier \in [Sinks -> {"wait", "drain", "lease", "post", "ack", "nack", "aside",
                              "free", "stopped"}]
    /\ batch \in [Sinks -> SUBSET Rows]
    /\ first \in [Sinks -> Rows \cup {None}]
    /\ server \in [Servers -> SUBSET Events]
    /\ dropped \in [Sinks -> SUBSET Events]
    /\ promised \in [Sinks -> SUBSET Events]
    /\ crashes \in 0..MaxCrashes

Init ==
    /\ emitted = [s \in Sinks |-> {}]
    /\ queue = [s \in Sinks |-> << >>]
    /\ spilling = [s \in Sinks |-> {}]
    /\ buf = [s \in Sinks |-> {}]
    /\ worker = [s \in Sinks |-> "top"]
    /\ left = [s \in Sinks |-> {}]
    /\ life = [s \in Sinks |-> "open"]
    /\ hurried = {}
    /\ rows = {}
    /\ attempts = [r \in Rows |-> 0]
    /\ leased = {}
    /\ dead = {}
    /\ peak = 0
    /\ entering = [s \in Sinks |-> None]
    /\ retrier = [s \in Sinks |-> "wait"]
    /\ batch = [s \in Sinks |-> {}]
    /\ first = [s \in Sinks |-> None]
    /\ server = [n \in Servers |-> {}]
    /\ dropped = [s \in Sinks |-> {}]
    /\ promised = [s \in Sinks |-> {}]
    /\ crashes = 0

-----------------------------------------------------------------------------
(* RetryQueue.enqueue, for the event e that a thread of s wants to spool. *)

Spooled(e) == \E r \in rows : r.event = e

\* The lock of the sink's RetryQueue.
Locked(s) == entering[s] # None \/ retrier[s] \in {"lease", "aside", "free"}

\* Who spools: an emit that found the queue full, the worker, or close.
Spooling(s, e) ==
    \/ e \in spilling[s]
    \/ worker[s] = "spool" /\ e \in buf[s]
    \/ life[s] = "spool" /\ e \in left[s]

\* That thread is done with the event, and goes on when it was the last.
Handled(s, e) ==
    /\ spilling' = [spilling EXCEPT ![s] = @ \ {e}]
    /\ promised' = [promised EXCEPT ![s] =
                      IF e \in spilling[s] /\ life[s] = "open" THEN @ \cup {e} ELSE @]
    /\ buf' = [buf EXCEPT ![s] = IF worker[s] = "spool" THEN @ \ {e} ELSE @]
    /\ worker' = [worker EXCEPT ![s] =
                    IF @ = "spool" /\ buf'[s] = {} THEN "top" ELSE @]
    /\ left' = [left EXCEPT ![s] = IF life[s] = "spool" THEN @ \ {e} ELSE @]
    /\ life' = [life EXCEPT ![s] =
                  IF @ = "spool" /\ left'[s] = {} THEN "join" ELSE @]
    /\ UNCHANGED <<queue, hurried>>

\* The size bounds are looked at before duplicates are.
Full == peak >= DiskRows \/ Cardinality(rows) >= MaxPending

\* The SELECTs: refused and counted, known already, or to be inserted.
SpoolCheck(s, e) ==
    /\ Spooling(s, e)
    /\ ~Locked(s)
    /\ \/ /\ Full
          /\ dropped' = [dropped EXCEPT ![s] = @ \cup {e}]
          /\ Handled(s, e)
          /\ UNCHANGED entering
       \/ /\ ~Full
          /\ Spooled(e) \/ e \in dead
          /\ Handled(s, e)
          /\ UNCHANGED <<entering, dropped>>
       \/ /\ ~Full
          /\ ~Spooled(e) /\ e \notin dead
          /\ entering' = [entering EXCEPT ![s] = e]
          /\ UNCHANGED <<queue, spilling, buf, worker, left, life, hurried,
                         dropped, promised>>
    /\ UNCHANGED <<emitted, spool, retry, server, crashes>>

AtLeast(m, n) == IF m < n THEN n ELSE m

\* The INSERT: another process may have inserted the event meanwhile.
SpoolInsert(s) ==
    LET e == entering[s]
        row == [event |-> e, by |-> s] IN
    /\ e # None
    /\ \/ /\ ~Spooled(e)
          /\ rows' = rows \cup {row}
          /\ peak' = AtLeast(peak, Cardinality(rows') + Cardinality(dead))
       \/ /\ Spooled(e)
          /\ UNCHANGED <<rows, peak>>
    /\ entering' = [entering EXCEPT ![s] = None]
    /\ Handled(s, e)
    /\ UNCHANGED <<emitted, attempts, leased, dead, retry, server, dropped, crashes>>

-----------------------------------------------------------------------------
(* emit *)

Emit(s, e) ==
    /\ life[s] # "dead"
    /\ e \in Given[s] \ emitted[s]
    /\ emitted' = [emitted EXCEPT ![s] = @ \cup {e}]
    /\ \/ /\ Len(queue[s]) < QueueMax
          /\ queue' = [queue EXCEPT ![s] = Append(@, e)]
          /\ promised' = [promised EXCEPT ![s] =
                            IF life[s] = "open" THEN @ \cup {e} ELSE @]
          /\ UNCHANGED spilling
       \/ /\ Len(queue[s]) = QueueMax
          /\ spilling' = [spilling EXCEPT ![s] = @ \cup {e}]
          /\ UNCHANGED <<queue, promised>>
    /\ UNCHANGED <<buf, worker, left, life, hurried, entering, spool, retry,
                   server, dropped, crashes>>

-----------------------------------------------------------------------------
(* The worker: _run *)

Stopping(s) == life[s] # "open"

\* Leaving the loop; what is in buf is flushed a last time.
Leave(s) == worker' = [worker EXCEPT ![s] = IF buf[s] = {} THEN "stopped" ELSE "post"]

\* Mutant of WorkerTop: no final flush.
WorkerTopNoFlush(s) ==
    /\ worker[s] = "top"
    /\ worker' = [worker EXCEPT ![s] = IF Stopping(s) THEN "stopped" ELSE "get"]
    /\ UNCHANGED <<emitted, queue, spilling, buf, left, life, hurried, entering,
                   spool, retry, server, dropped, promised, crashes>>

WorkerTop(s) ==
    /\ worker[s] = "top"
    /\ IF Stopping(s) THEN Leave(s) ELSE worker' = [worker EXCEPT ![s] = "get"]
    /\ UNCHANGED <<emitted, queue, spilling, buf, left, life, hurried, entering,
                   spool, retry, server, dropped, promised, crashes>>

\* The batch is due when it is full, when flush_interval_s is over, or on stop.
Flush(s) ==
    \/ /\ buf'[s] # {}
       /\ worker' = [worker EXCEPT ![s] = "post"]
    \/ /\ buf'[s] # {} => Cardinality(buf'[s]) < BatchMax /\ ~Stopping(s)
       /\ worker' = [worker EXCEPT ![s] = "top"]

\* One get() with a timeout; the stop flag may have been set meanwhile.
WorkerGet(s) ==
    /\ worker[s] = "get"
    /\ \/ /\ queue[s] = << >>
          /\ UNCHANGED <<queue, buf>>
          /\ Flush(s)
       \/ /\ queue[s] # << >>
          /\ Head(queue[s]) # None
          /\ buf' = [buf EXCEPT ![s] = @ \cup {Head(queue[s])}]
          /\ queue' = [queue EXCEPT ![s] = Tail(@)]
          /\ Flush(s)
       \/ /\ queue[s] # << >>
          /\ Head(queue[s]) = None
          /\ queue' = [queue EXCEPT ![s] = Tail(@)]
          /\ Leave(s)
          /\ UNCHANGED buf
    /\ UNCHANGED <<emitted, spilling, left, life, hurried, entering, spool, retry,
                   server, dropped, promised, crashes>>

Received(s, events) == server' = [server EXCEPT ![Ingest[s]] = @ \cup events]

\* _post_batch: delivered, delivered with the answer lost, or not delivered.
WorkerPost(s) ==
    /\ worker[s] = "post"
    /\ \/ /\ Received(s, buf[s])
          /\ buf' = [buf EXCEPT ![s] = {}]
          /\ worker' = [worker EXCEPT ![s] = "top"]
       \/ /\ Received(s, buf[s]) \/ UNCHANGED server
          /\ worker' = [worker EXCEPT ![s] = "spool"]
          /\ UNCHANGED buf
    /\ UNCHANGED <<emitted, queue, spilling, left, life, hurried, entering, spool,
                   retry, dropped, promised, crashes>>

-----------------------------------------------------------------------------
(* The retry worker: _retry_loop, _drain_retry_once, and lease, ack and nack. *)

\* The loop looks at the stop flag before each pass.
RetryTop(s) ==
    /\ retrier[s] = "wait"
    /\ retrier' = [retrier EXCEPT ![s] = IF Stopping(s) THEN "stopped" ELSE "drain"]
    /\ UNCHANGED <<emitted, memory, spool, batch, first, server, dropped,
                   promised, crashes>>

\* lease, the SELECT: rows under no valid lease, at most BatchMax of them.
LeaseSelect(s) ==
    /\ retrier[s] = "drain"
    /\ ~Locked(s)
    /\ \E chosen \in SUBSET (rows \ leased) :
          /\ \/ Cardinality(chosen) = BatchMax
             \/ chosen = rows \ leased /\ Cardinality(chosen) < BatchMax
          /\ batch' = [batch EXCEPT ![s] = chosen]
          /\ retrier' = [retrier EXCEPT ![s] = IF chosen = {} THEN "wait" ELSE "lease"]
    /\ UNCHANGED <<emitted, memory, spool, first, server, dropped, promised, crashes>>

\* lease, the UPDATEs: of the rows that are still there, whoever leased them.
LeaseUpdate(s) ==
    /\ retrier[s] = "lease"
    /\ leased' = leased \cup (batch[s] \cap rows)
    /\ attempts' = [r \in Rows |->
                      IF r \in batch[s] \cap rows /\ attempts[r] < MaxAttempts
                      THEN attempts[r] + 1 ELSE attempts[r]]
    /\ retrier' = [retrier EXCEPT ![s] = "post"]
    /\ UNCHANGED <<emitted, memory, rows, dead, peak, batch, first, server,
                   dropped, promised, crashes>>

RetryPost(s) ==
    /\ retrier[s] = "post"
    /\ LET events == {r.event : r \in batch[s]} IN
       \/ /\ Received(s, events)
          /\ retrier' = [retrier EXCEPT ![s] = "ack"]
       \/ /\ Received(s, events) \/ UNCHANGED server
          /\ retrier' = [retrier EXCEPT ![s] = "nack"]
    /\ UNCHANGED <<emitted, memory, spool, batch, first, dropped, promised, crashes>>

\* Back to the loop's wait.
Idle(s) ==
    /\ retrier' = [retrier EXCEPT ![s] = "wait"]
    /\ batch' = [batch EXCEPT ![s] = {}]
    /\ first' = [first EXCEPT ![s] = None]

\* Mutant of Ack: a failed batch is deleted, too.
AckAnyway(s) ==
    /\ retrier[s] \in {"ack", "nack"}
    /\ ~Locked(s)
    /\ rows' = rows \ batch[s]
    /\ leased' = leased \ batch[s]
    /\ Idle(s)
    /\ UNCHANGED <<emitted, memory, attempts, dead, peak, server, dropped,
                   promised, crashes>>

\* ack and nack do not look whether the lease is still this retrier's.
Ack(s) ==
    /\ retrier[s] = "ack"
    /\ ~Locked(s)
    /\ rows' = rows \ batch[s]
    /\ leased' = leased \ batch[s]
    /\ Idle(s)
    /\ UNCHANGED <<emitted, memory, attempts, dead, peak, server, dropped,
                   promised, crashes>>

\* Mutant of SpentOut: a row is retried for ever.
NeverSpent(r) == FALSE

SpentOut(r) == attempts[r] >= MaxAttempts

\* nack, the first SELECT that finds its row.
NackSelect(s) ==
    /\ retrier[s] = "nack"
    /\ ~Locked(s)
    /\ \/ /\ batch[s] \cap rows = {}
          /\ Idle(s)
       \/ \E r \in batch[s] \cap rows :
             /\ first' = [first EXCEPT ![s] = r]
             /\ retrier' = [retrier EXCEPT ![s] = IF SpentOut(r) THEN "aside" ELSE "free"]
             /\ UNCHANGED batch
    /\ UNCHANGED <<emitted, memory, spool, server, dropped, promised, crashes>>

\* nack, the transaction: rows that had their attempts are set aside, the
\* others are free again.
NackWrite(s) ==
    /\ retrier[s] \in {"aside", "free"}
    /\ LET later == (batch[s] \cap rows) \ {first[s]}
           spent == {r \in later : SpentOut(r)}
                      \cup {r \in {first[s]} : retrier[s] = "aside"} IN
       /\ rows' = rows \ spent
       /\ dead' = dead \cup {r.event : r \in spent}
       /\ peak' = AtLeast(peak, Cardinality(rows') + Cardinality(dead'))
    /\ leased' = leased \ batch[s]
    /\ Idle(s)
    /\ UNCHANGED <<emitted, memory, attempts, server, dropped, promised, crashes>>

Holds(s, r) == retrier[s] \in {"post", "ack", "nack", "aside", "free"} /\ r \in batch[s]

LeaseExpires(r) ==
    /\ r \in leased
    /\ PromptPosts => \A s \in Sinks : ~Holds(s, r)
    /\ leased' = leased \ {r}
    /\ UNCHANGED <<emitted, memory, rows, attempts, dead, peak, retry, server,
                   dropped, promised, crashes>>

-----------------------------------------------------------------------------
(* close *)

\* Mutant of Close: the wake-up is put whether or not there is room.
CloseForced(s) ==
    /\ s \in Closers
    /\ life[s] = "open"
    /\ life' = [life EXCEPT ![s] = "drain"]
    /\ queue' = [queue EXCEPT ![s] = Append(@, None)]
    /\ UNCHANGED <<emitted, spilling, buf, worker, left, hurried, entering, spool,
                   retry, server, dropped, promised, crashes>>

\* The stop flag, and a wake-up for the worker if the queue has room for it.
Close(s) ==
    /\ s \in Closers
    /\ life[s] = "open"
    /\ life' = [life EXCEPT ![s] = "drain"]
    /\ queue' = [queue EXCEPT ![s] =
                   IF Len(@) < QueueMax THEN Append(@, None) ELSE @]
    /\ UNCHANGED <<emitted, spilling, buf, worker, left, hurried, entering, spool,
                   retry, server, dropped, promised, crashes>>

\* Until the queue is empty, or the deadline has passed.
Drain(s) ==
    /\ life[s] = "drain"
    /\ \/ /\ queue[s] # << >>
          /\ queue' = [queue EXCEPT ![s] = Tail(@)]
          /\ left' = [left EXCEPT ![s] = @ \cup ({Head(queue[s])} \ {None})]
          /\ UNCHANGED <<life, hurried>>
       \/ /\ \/ queue[s] = << >> /\ UNCHANGED hurried
             \/ queue[s] # << >> /\ hurried' = hurried \cup {s}
          /\ life' = [life EXCEPT ![s] = IF left[s] = {} THEN "join" ELSE "post"]
          /\ UNCHANGED <<queue, left>>
    /\ UNCHANGED <<emitted, spilling, buf, worker, entering, spool, retry, server,
                   dropped, promised, crashes>>

PostLeft(s) ==
    /\ life[s] = "post"
    /\ \/ /\ Received(s, left[s])
          /\ left' = [left EXCEPT ![s] = {}]
          /\ life' = [life EXCEPT ![s] = "join"]
       \/ /\ Received(s, left[s]) \/ UNCHANGED server
          /\ life' = [life EXCEPT ![s] = "spool"]
          /\ UNCHANGED left
    /\ UNCHANGED <<emitted, queue, spilling, buf, worker, hurried, entering, spool,
                   retry, dropped, promised, crashes>>

\* Both threads have ended, or the deadline has passed.
Join(s) ==
    /\ life[s] = "join"
    /\ life' = [life EXCEPT ![s] = "closed"]
    /\ IF worker[s] = "stopped" /\ retrier[s] = "stopped"
       THEN UNCHANGED hurried
       ELSE hurried' = hurried \cup {s}
    /\ UNCHANGED <<emitted, queue, spilling, buf, worker, left, entering, spool,
                   retry, server, dropped, promised, crashes>>

\* The process dies, or ends with its daemon threads running: what is in memory
\* is lost, and a lease it holds runs out.
Crash(s) ==
    /\ life[s] # "dead"
    /\ crashes < MaxCrashes
    /\ crashes' = crashes + 1
    /\ life' = [life EXCEPT ![s] = "dead"]
    /\ queue' = [queue EXCEPT ![s] = << >>]
    /\ spilling' = [spilling EXCEPT ![s] = {}]
    /\ buf' = [buf EXCEPT ![s] = {}]
    /\ left' = [left EXCEPT ![s] = {}]
    /\ worker' = [worker EXCEPT ![s] = "stopped"]
    /\ retrier' = [retrier EXCEPT ![s] = "stopped"]
    /\ batch' = [batch EXCEPT ![s] = {}]
    /\ first' = [first EXCEPT ![s] = None]
    /\ entering' = [entering EXCEPT ![s] = None]
    /\ UNCHANGED <<emitted, hurried, spool, server, dropped, promised>>

-----------------------------------------------------------------------------

Spool(s) == SpoolInsert(s) \/ \E e \in Events : SpoolCheck(s, e)

Work(s) == WorkerTop(s) \/ WorkerGet(s) \/ WorkerPost(s)

Retry(s) ==
    \/ RetryTop(s) \/ LeaseSelect(s) \/ LeaseUpdate(s) \/ RetryPost(s)
    \/ Ack(s) \/ NackSelect(s) \/ NackWrite(s)

Closing(s) == Close(s) \/ Drain(s) \/ PostLeft(s) \/ Join(s)

Next ==
    \/ \E s \in Sinks : Spool(s) \/ Work(s) \/ Retry(s) \/ Closing(s) \/ Crash(s)
    \/ \E s \in Sinks, e \in Events : Emit(s, e)
    \/ \E r \in Rows : LeaseExpires(r)

Spec == Init /\ [][Next]_vars

\* The retry thread comes round every retry_interval_s, and leases run out.
FairSpec ==
    /\ Spec
    /\ \A s \in Sinks : WF_vars(SpoolInsert(s)) /\ WF_vars(Retry(s))
    /\ \A r \in Rows : WF_vars(LeaseExpires(r))

-----------------------------------------------------------------------------

\* A row leaves the spool only when the service it was meant for has its event,
\* or when its event is set aside in dead_letter.
RowsLeaveDelivered ==
    [][\A r \in rows : r \notin rows' =>
          r.event \in server[Ingest[r.by]] \cup dead']_vars

\* After a close that met its deadline, every event emitted before it has been
\* received, is spooled, is set aside, or was counted as dropped.
ClosedFlushed ==
    \A s \in Sinks : life[s] = "closed" /\ s \notin hurried =>
        \A e \in promised[s] :
            \/ \E n \in Servers : e \in server[n]
            \/ Spooled(e)
            \/ e \in dead
            \/ e \in dropped[s]

\* A spooled event leaves the spool while some sink stays open: rows are neither
\* stranded by a crashed lease holder nor retried for ever.
SpoolDrains ==
    \A e \in Events :
        Spooled(e) ~> (~Spooled(e) \/ \A s \in Sinks : life[s] # "open")

=============================================================================
