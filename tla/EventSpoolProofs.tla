-------------------------- MODULE EventSpoolProofs --------------------------
(***************************************************************************)
(* What the sinks of any number of processes and their spool promise, for  *)
(* every size of the queue, the batches and the spool:                     *)
(*                                                                         *)
(*   - after a close that met its deadline nothing emitted before it is    *)
(*     lost in silence, whatever the ingest services;                      *)
(*   - a row leaves the spool delivered or set aside, if all the sinks on  *)
(*     the file send to one ingest service.  The run of the mirror shows   *)
(*     that the condition is needed.                                       *)
(*                                                                         *)
(* The invariant says of each sink (SinkOK) where its promised events are. *)
(***************************************************************************)
EXTENDS EventSpool, FiniteSetTheorems, TLAPS

-----------------------------------------------------------------------------
(* The inductive invariant. *)

In(q, e) == \E k \in 1..Len(q) : q[k] = e

\* The event left the memory of s with something to show for it.
Accounted(s, e) ==
    \/ \E n \in Servers : e \in server[n]
    \/ Spooled(e)
    \/ e \in dead
    \/ e \in dropped[s]

Held(s, e) == e \in buf[s] \/ e \in left[s] \/ In(queue[s], e)

\* Every promised event is accounted for or in memory, until the process dies.
PromisesOK(s) ==
    /\ spilling[s] \cup promised[s] \subseteq emitted[s]
    /\ life[s] # "dead" => \A e \in promised[s] : Accounted(s, e) \/ Held(s, e)

\* Each stage of a close that is in time leaves its part of the memory without
\* promised events, and no later step puts one there.
CloseOK(s) ==
    /\ worker[s] = "stopped" => buf[s] = {}
    /\ life[s] \in {"join", "closed"} => left[s] = {}
    /\ life[s] \in {"post", "spool", "join", "closed"} /\ s \notin hurried =>
         \A e \in promised[s] : ~In(queue[s], e)
    /\ life[s] = "closed" /\ s \notin hurried => worker[s] = "stopped"

\* The retrier acks what its ingest service has.
AckOK(s) ==
    retrier[s] = "ack" => \A r \in batch[s] : r.event \in server[Ingest[s]]

SinkOK(s) == PromisesOK(s) /\ CloseOK(s) /\ AckOK(s)

\* nack starts with a row of its batch.
FirstOK == \A s \in Sinks : retrier[s] \in {"aside", "free"} => first[s] \in batch[s]

IInv ==
    /\ TypeOK
    /\ FirstOK
    /\ \A s \in Sinks : SinkOK(s)

-----------------------------------------------------------------------------
(* Queues and rows. *)

\* Appending to a queue, and taking its head.
LEMMA Queues ==
    ASSUME NEW S, NEW q \in Seq(S)
    PROVE  /\ \A e \in S : \A x : In(Append(q, e), x) <=> In(q, x) \/ x = e
           /\ q # << >> => /\ Head(q) \in S
                           /\ Tail(q) \in Seq(S)
                           /\ Len(Tail(q)) = Len(q) - 1
                           /\ \A x : In(q, x) <=> In(Tail(q), x) \/ x = Head(q)
<1>1. ASSUME NEW e \in S, NEW x PROVE In(Append(q, e), x) <=> In(q, x) \/ x = e
    <2>1. Len(Append(q, e)) = Len(q) + 1 /\ Len(q) \in Nat
        OBVIOUS
    <2>2. \A k \in 1..Len(q) : Append(q, e)[k] = q[k]
        OBVIOUS
    <2>3. Append(q, e)[Len(q) + 1] = e
        OBVIOUS
    <2> QED
        BY <2>1, <2>2, <2>3 DEF In
<1>2. ASSUME q # << >>
      PROVE  /\ Head(q) \in S
             /\ Tail(q) \in Seq(S)
             /\ Len(Tail(q)) = Len(q) - 1
             /\ \A x : In(q, x) <=> In(Tail(q), x) \/ x = Head(q)
    <2>1. /\ Head(q) \in S /\ Head(q) = q[1]
          /\ Tail(q) \in Seq(S) /\ Len(Tail(q)) = Len(q) - 1
          /\ Len(q) \in Nat /\ Len(q) >= 1
        BY <1>2
    <2>2. \A k \in 1..Len(Tail(q)) : Tail(q)[k] = q[k + 1]
        BY <1>2
    <2>3. \A k \in 2..Len(q) : q[k] = Tail(q)[k - 1]
        BY <1>2, <2>1
    <2>4. ASSUME NEW x, In(q, x) PROVE In(Tail(q), x) \/ x = Head(q)
        <3> PICK k \in 1..Len(q) : q[k] = x
            BY <2>4 DEF In
        <3>1. CASE k = 1
            BY <2>1, <3>1
        <3>2. CASE k # 1
            BY <2>1, <2>3, <3>2 DEF In
        <3> QED
            BY <3>1, <3>2
    <2>5. ASSUME NEW x, In(Tail(q), x) \/ x = Head(q) PROVE In(q, x)
        BY <2>1, <2>2, <2>5 DEF In
    <2> QED
        BY <2>1, <2>4, <2>5
<1> QED
    BY <1>1, <1>2

\* There are finitely many rows and dead letters to count.
LEMMA Counted ==
    ASSUME NEW R \in SUBSET Rows, NEW D \in SUBSET Events
    PROVE  Cardinality(R) \in Nat /\ Cardinality(D) \in Nat
<1> DEFINE row == [p \in Events \X Sinks |-> [event |-> p[1], by |-> p[2]]]
<1>1. IsFiniteSet(Events \X Sinks)
    BY EventSpoolAssumption, FS_Product
<1>2. row \in Surjection(Events \X Sinks, Rows)
    <2>1. row \in [Events \X Sinks -> Rows]
        BY DEF Rows
    <2>2. \A r \in Rows : \E p \in Events \X Sinks : row[p] = r
        <3> SUFFICES ASSUME NEW r \in Rows PROVE row[<<r.event, r.by>>] = r
            BY DEF Rows
        <3> QED
            BY DEF Rows
    <2> QED
        BY <2>1, <2>2 DEF Surjection
<1>3. IsFiniteSet(Rows)
    BY <1>1, <1>2, FS_Surjection
<1> QED
    BY <1>3, EventSpoolAssumption, FS_Subset, FS_CardinalityType

-----------------------------------------------------------------------------
(* Types. *)

\* The types, in three groups and the queues apart.
QueuesOK ==
    /\ queue \in [Sinks -> Seq(Events \cup {None})]
    /\ \A s \in Sinks : Len(queue[s]) <= QueueMax

MemoryOK ==
    /\ QueuesOK
    /\ spilling \in [Sinks -> SUBSET Events]
    /\ buf \in [Sinks -> SUBSET Events]
    /\ worker \in [Sinks -> {"top", "get", "post", "spool", "stopped"}]
    /\ left \in [Sinks -> SUBSET Events]
    /\ life \in [Sinks -> {"open", "drain", "post", "spool", "join"} \cup Gone]
    /\ hurried \subseteq Sinks
    /\ promised \in [Sinks -> SUBSET Events]

SpoolOK ==
    /\ rows \subseteq Rows
    /\ \A r, q \in rows : r.event = q.event => r = q
    /\ attempts \in [Rows -> 0..MaxAttempts]
    /\ leased \subseteq rows
    /\ dead \subseteq Events
    /\ peak \in Nat

RestOK ==
    /\ emitted \in [Sinks -> SUBSET Events]
    /\ entering \in [Sinks -> Events \cup {None}]
    /\ retrier \in [Sinks -> {"wait", "drain", "lease", "post", "ack", "nack", "aside",
                              "free", "stopped"}]
    /\ batch \in [Sinks -> SUBSET Rows]
    /\ first \in [Sinks -> Rows \cup {None}]
    /\ server \in [Servers -> SUBSET Events]
    /\ dropped \in [Sinks -> SUBSET Events]
    /\ crashes \in 0..MaxCrashes

LEMMA TypeSplit ==
    /\ TypeOK <=> MemoryOK /\ SpoolOK /\ RestOK
    /\ TypeOK' <=> MemoryOK' /\ SpoolOK' /\ RestOK'
    BY DEF TypeOK, MemoryOK, QueuesOK, SpoolOK, RestOK

\* An ingest service receives events.
LEMMA ReceivedTyped ==
    ASSUME RestOK, NEW s \in Sinks, NEW E \in SUBSET Events, Received(s, E) \/ UNCHANGED server
    PROVE  server' \in [Servers -> SUBSET Events]
<1>1. server \in [Servers -> SUBSET Events] /\ Ingest[s] \in Servers
    BY EventSpoolAssumption DEF RestOK
<1> QED
    BY <1>1 DEF Received

\* A queue loses its head or gets one more element.
LEMMA QueueTyped ==
    ASSUME QueuesOK, NEW s \in Sinks
    PROVE  /\ queue[s] # << >> /\ queue' = [queue EXCEPT ![s] = Tail(@)] => QueuesOK'
           /\ queue[s] # << >> => Head(queue[s]) \in Events \cup {None}
           /\ \A e \in Events \cup {None} :
                Len(queue[s]) < QueueMax /\ queue' = [queue EXCEPT ![s] = Append(@, e)] => QueuesOK'
<1>1. queue[s] \in Seq(Events \cup {None}) /\ Len(queue[s]) \in Nat
    BY DEF QueuesOK
<1>2. ASSUME NEW q \in Seq(Events \cup {None}), Len(q) <= QueueMax, queue' = [queue EXCEPT ![s] = q]
      PROVE  QueuesOK'
    BY <1>2 DEF QueuesOK
<1>3. ASSUME queue[s] # << >>, queue' = [queue EXCEPT ![s] = Tail(@)] PROVE QueuesOK'
    <2>1. Tail(queue[s]) \in Seq(Events \cup {None}) /\ Len(Tail(queue[s])) = Len(queue[s]) - 1
        BY <1>1, <1>3, Queues
    <2>2. Len(Tail(queue[s])) <= QueueMax
        BY <1>1, <2>1, EventSpoolAssumption DEF QueuesOK
    <2> QED
        BY <1>2, <1>3, <2>1, <2>2
<1>4. ASSUME NEW e \in Events \cup {None}, Len(queue[s]) < QueueMax,
             queue' = [queue EXCEPT ![s] = Append(@, e)]
      PROVE  QueuesOK'
    <2>1. /\ Append(queue[s], e) \in Seq(Events \cup {None})
          /\ Len(Append(queue[s], e)) = Len(queue[s]) + 1
        BY <1>1
    <2>2. Len(Append(queue[s], e)) <= QueueMax
        BY <1>1, <1>4, <2>1, EventSpoolAssumption
    <2> QED
        BY <1>2, <1>4, <2>1, <2>2
<1> QED
    BY <1>1, <1>3, <1>4, Queues

\* A thread that is done with an event leaves the memory well-typed.
LEMMA HandledTyped ==
    ASSUME MemoryOK, NEW s \in Sinks, NEW e \in Events, Handled(s, e)
    PROVE  MemoryOK'
    BY DEF MemoryOK, QueuesOK, Handled, Gone

\* The spool of a step that inserts or sets aside.
LEMMA PeakTyped ==
    ASSUME NEW R \in SUBSET Rows, NEW D \in SUBSET Events, peak \in Nat
    PROVE  AtLeast(peak, Cardinality(R) + Cardinality(D)) \in Nat
    BY Counted DEF AtLeast

\* Every step keeps the types, and one row for an event.
LEMMA TypeStep == TypeOK /\ FirstOK /\ [Next]_vars => TypeOK'
<1> SUFFICES ASSUME MemoryOK, SpoolOK, RestOK, FirstOK, [Next]_vars
             PROVE  MemoryOK' /\ SpoolOK' /\ RestOK'
    BY TypeSplit
<1> USE EventSpoolAssumption DEF Gone
<1>1. ASSUME NEW s \in Sinks, NEW e \in Events, SpoolCheck(s, e)
      PROVE  MemoryOK' /\ SpoolOK' /\ RestOK'
    <2>1. MemoryOK'
        BY <1>1, HandledTyped DEF SpoolCheck, MemoryOK, QueuesOK
    <2>2. SpoolOK' /\ RestOK'
        BY <1>1 DEF SpoolCheck, SpoolOK, RestOK, spool, retry
    <2> QED
        BY <2>1, <2>2
<1>2. ASSUME NEW s \in Sinks, SpoolInsert(s) PROVE MemoryOK' /\ SpoolOK' /\ RestOK'
    <2> DEFINE e == entering[s]
               row == [event |-> e, by |-> s]
    <2>1. e \in Events /\ row \in Rows
        BY <1>2 DEF SpoolInsert, Rows, RestOK
    <2>2. MemoryOK'
        BY <1>2, <2>1, HandledTyped DEF SpoolInsert
    <2>3. CASE Spooled(e)
        BY <1>2, <2>2, <2>3 DEF SpoolInsert, SpoolOK, RestOK, retry
    <2>4. CASE ~Spooled(e)
        <3>1. /\ rows' = rows \cup {row}
              /\ peak' = AtLeast(peak, Cardinality(rows') + Cardinality(dead'))
              /\ UNCHANGED <<attempts, leased, dead>>
            BY <1>2, <2>4 DEF SpoolInsert
        <3>2. rows' \in SUBSET Rows
            BY <2>1, <3>1 DEF SpoolOK
        <3>3. \A r, q \in rows' : r.event = q.event => r = q
            BY <2>4, <3>1 DEF SpoolOK, Spooled
        <3>4. peak' \in Nat
            BY <3>1, <3>2, PeakTyped DEF SpoolOK
        <3>5. SpoolOK'
            BY <3>1, <3>2, <3>3, <3>4 DEF SpoolOK
        <3>6. RestOK'
            BY <1>2 DEF SpoolInsert, RestOK, retry
        <3> QED
            BY <2>2, <3>5, <3>6
    <2> QED
        BY <2>3, <2>4
<1>3. ASSUME NEW s \in Sinks, NEW e \in Events, Emit(s, e)
      PROVE  MemoryOK' /\ SpoolOK' /\ RestOK'
    <2>1. QueuesOK'
        BY <1>3, QueueTyped DEF Emit, MemoryOK, QueuesOK
    <2>2. MemoryOK'
        BY <1>3, <2>1 DEF Emit, MemoryOK
    <2>3. SpoolOK' /\ RestOK'
        BY <1>3 DEF Emit, SpoolOK, RestOK, spool, retry
    <2> QED
        BY <2>2, <2>3
<1>4. ASSUME NEW s \in Sinks, Work(s) PROVE MemoryOK' /\ SpoolOK' /\ RestOK'
    <2>1. CASE WorkerTop(s)
        BY <2>1 DEF WorkerTop, Leave, MemoryOK, QueuesOK, SpoolOK, RestOK, spool, retry
    <2>2. CASE WorkerGet(s)
        <3>1. queue[s] # << >> => Head(queue[s]) \in Events \cup {None}
            BY QueueTyped DEF MemoryOK
        <3>2. /\ worker' \in [Sinks -> {"top", "get", "post", "spool", "stopped"}]
              /\ UNCHANGED <<spilling, left, life, hurried, promised>>
            BY <2>2 DEF WorkerGet, Flush, Leave, MemoryOK
        <3>3. QueuesOK'
            BY <2>2, QueueTyped DEF WorkerGet, MemoryOK, QueuesOK
        <3>4. buf' \in [Sinks -> SUBSET Events]
            <4>1. buf' = buf \/ \E e \in Events : buf' = [buf EXCEPT ![s] = @ \cup {e}]
                BY <2>2, <3>1 DEF WorkerGet
            <4> QED
                BY <4>1 DEF MemoryOK
        <3>5. MemoryOK'
            BY <3>2, <3>3, <3>4 DEF MemoryOK
        <3>6. SpoolOK' /\ RestOK'
            BY <2>2 DEF WorkerGet, SpoolOK, RestOK, spool, retry
        <3> QED
            BY <3>5, <3>6
    <2>3. CASE WorkerPost(s)
        <3>1. server' \in [Servers -> SUBSET Events]
            BY <2>3, ReceivedTyped DEF WorkerPost, MemoryOK
        <3>2. MemoryOK'
            BY <2>3 DEF WorkerPost, MemoryOK, QueuesOK
        <3> QED
            BY <2>3, <3>1, <3>2 DEF WorkerPost, SpoolOK, RestOK, spool, retry
    <2> QED
        BY <1>4, <2>1, <2>2, <2>3 DEF Work
<1>5. ASSUME NEW s \in Sinks, Retry(s) PROVE MemoryOK' /\ SpoolOK' /\ RestOK'
    <2>1. MemoryOK'
        BY <1>5 DEF Retry, RetryTop, LeaseSelect, LeaseUpdate, RetryPost, Ack, NackSelect,
           NackWrite, MemoryOK, QueuesOK, memory
    <2>2. CASE RetryTop(s)
        BY <2>1, <2>2 DEF RetryTop, SpoolOK, RestOK, spool, memory
    <2>3. CASE LeaseSelect(s)
        BY <2>1, <2>3 DEF LeaseSelect, SpoolOK, RestOK, spool, memory
    <2>4. CASE LeaseUpdate(s)
        BY <2>1, <2>4 DEF LeaseUpdate, SpoolOK, RestOK, memory
    <2>5. CASE RetryPost(s)
        <3>1. {r.event : r \in batch[s]} \in SUBSET Events
            BY DEF Rows, RestOK
        <3>2. server' \in [Servers -> SUBSET Events]
            BY <2>5, <3>1, ReceivedTyped DEF RetryPost
        <3> QED
            BY <2>1, <2>5, <3>2 DEF RetryPost, SpoolOK, RestOK, spool, memory
    <2>6. CASE Ack(s)
        BY <2>1, <2>6 DEF Ack, Idle, SpoolOK, RestOK, memory
    <2>7. CASE NackSelect(s)
        <3>1. SpoolOK'
            BY <2>7 DEF NackSelect, SpoolOK, spool
        <3>2. RestOK'
            BY <2>7 DEF NackSelect, Idle, RestOK, SpoolOK, memory
        <3> QED
            BY <2>1, <3>1, <3>2
    <2>8. CASE NackWrite(s)
        <3> DEFINE later == (batch[s] \cap rows) \ {first[s]}
                   spent == {r \in later : SpentOut(r)}
                              \cup {r \in {first[s]} : retrier[s] = "aside"}
        <3>1. /\ rows' = rows \ spent
              /\ dead' = dead \cup {r.event : r \in spent}
              /\ peak' = AtLeast(peak, Cardinality(rows') + Cardinality(dead'))
              /\ leased' = leased \ batch[s]
              /\ UNCHANGED attempts
            BY <2>8 DEF NackWrite
        <3>2. spent \subseteq batch[s] /\ batch[s] \subseteq Rows
            BY <2>8 DEF NackWrite, FirstOK, RestOK
        <3> HIDE DEF later, spent
        <3>3. {r.event : r \in spent} \subseteq Events
            BY <3>2 DEF Rows
        <3>4. rows' \in SUBSET Rows /\ dead' \in SUBSET Events
            BY <3>1, <3>3 DEF SpoolOK
        <3>5. peak' \in Nat
            BY <3>1, <3>4, PeakTyped DEF SpoolOK
        <3>6. SpoolOK'
            BY <3>1, <3>2, <3>4, <3>5 DEF SpoolOK
        <3>7. RestOK'
            BY <2>8 DEF NackWrite, Idle, RestOK, memory
        <3> QED
            BY <2>1, <3>6, <3>7
    <2> QED
        BY <1>5, <2>2, <2>3, <2>4, <2>5, <2>6, <2>7, <2>8 DEF Retry
<1>6. ASSUME NEW s \in Sinks, Closing(s) PROVE MemoryOK' /\ SpoolOK' /\ RestOK'
    <2>1. CASE Close(s)
        <3>1. QueuesOK'
            <4>1. CASE Len(queue[s]) < QueueMax
                <5>1. queue' = [queue EXCEPT ![s] = Append(@, None)]
                    BY <2>1, <4>1 DEF Close
                <5> QED
                    BY <4>1, <5>1, QueueTyped DEF MemoryOK
            <4>2. CASE ~(Len(queue[s]) < QueueMax)
                <5>1. queue' = queue
                    BY <2>1, <4>2 DEF Close, MemoryOK, QueuesOK
                <5> QED
                    BY <5>1 DEF MemoryOK, QueuesOK
            <4> QED
                BY <4>1, <4>2
        <3> QED
            BY <2>1, <3>1 DEF Close, MemoryOK, SpoolOK, RestOK, spool, retry
    <2>2. CASE Drain(s)
        <3>1. QueuesOK' /\ (queue[s] # << >> => Head(queue[s]) \in Events \cup {None})
            BY <2>2, QueueTyped DEF Drain, MemoryOK, QueuesOK
        <3>2. MemoryOK'
            BY <2>2, <3>1 DEF Drain, MemoryOK
        <3>3. SpoolOK' /\ RestOK'
            BY <2>2 DEF Drain, SpoolOK, RestOK, spool, retry
        <3> QED
            BY <3>2, <3>3
    <2>3. CASE PostLeft(s)
        <3>1. server' \in [Servers -> SUBSET Events]
            BY <2>3, ReceivedTyped DEF PostLeft, MemoryOK
        <3>2. MemoryOK'
            BY <2>3 DEF PostLeft, MemoryOK, QueuesOK
        <3> QED
            BY <2>3, <3>1, <3>2 DEF PostLeft, SpoolOK, RestOK, spool, retry
    <2>4. CASE Join(s)
        BY <2>4 DEF Join, MemoryOK, QueuesOK, SpoolOK, RestOK, spool, retry
    <2> QED
        BY <1>6, <2>1, <2>2, <2>3, <2>4 DEF Closing
<1>7. ASSUME NEW s \in Sinks, Crash(s) PROVE MemoryOK' /\ SpoolOK' /\ RestOK'
    <2>1. << >> \in Seq(Events \cup {None}) /\ Len(<< >>) = 0
        OBVIOUS
    <2>2. MemoryOK'
        BY <1>7, <2>1 DEF Crash, MemoryOK, QueuesOK
    <2>3. SpoolOK' /\ RestOK'
        BY <1>7 DEF Crash, SpoolOK, RestOK, spool
    <2> QED
        BY <2>2, <2>3
<1>8. ASSUME NEW r \in Rows, LeaseExpires(r) PROVE MemoryOK' /\ SpoolOK' /\ RestOK'
    BY <1>8 DEF LeaseExpires, MemoryOK, QueuesOK, SpoolOK, RestOK, memory, retry
<1>9. CASE UNCHANGED vars
    BY <1>9 DEF vars, MemoryOK, QueuesOK, SpoolOK, RestOK, memory, spool, retry
<1> QED
    BY <1>1, <1>2, <1>3, <1>4, <1>5, <1>6, <1>7, <1>8, <1>9 DEF Next, Spool

-----------------------------------------------------------------------------
(* Rows that leave the spool, and what is never taken back. *)

\* Only nack's SELECT begins its transaction.
LEMMA FirstStep == TypeOK /\ FirstOK /\ [Next]_vars => FirstOK'
<1> SUFFICES ASSUME TypeOK, FirstOK, [Next]_vars, NEW t \in Sinks
             PROVE  retrier'[t] \in {"aside", "free"} => first'[t] \in batch'[t]
    BY DEF FirstOK
<1> USE DEF FirstOK, RestOK
<1> RestOK
    BY TypeSplit
<1>1. ASSUME NEW s \in Sinks, Spool(s) \/ Work(s) \/ Closing(s) PROVE UNCHANGED retry
    BY <1>1 DEF Spool, SpoolCheck, SpoolInsert, Work, WorkerTop, WorkerGet, WorkerPost,
       Closing, Close, Drain, PostLeft, Join
<1>2. ASSUME NEW s \in Sinks, Retry(s)
      PROVE  retrier'[t] \in {"aside", "free"} => first'[t] \in batch'[t]
    BY <1>2 DEF Retry, RetryTop, LeaseSelect, LeaseUpdate, RetryPost, Ack, NackSelect,
       NackWrite, Idle
<1>3. ASSUME NEW s \in Sinks, Crash(s)
      PROVE  retrier'[t] \in {"aside", "free"} => first'[t] \in batch'[t]
    BY <1>3 DEF Crash
<1>4. ASSUME \/ \E s \in Sinks, e \in Events : Emit(s, e)
             \/ \E r \in Rows : LeaseExpires(r)
             \/ UNCHANGED vars
      PROVE  UNCHANGED retry
    BY <1>4 DEF Emit, LeaseExpires, vars
<1>5. CASE UNCHANGED retry
    BY <1>5 DEF retry
<1> QED
    BY <1>1, <1>2, <1>3, <1>4, <1>5 DEF Next

\* A row leaves by an ack or a dead letter.
LEMMA RowLeaves ==
    ASSUME TypeOK, \A s \in Sinks : AckOK(s), [Next]_vars,
           NEW r \in rows, r \notin rows'
    PROVE  r.event \in dead' \/ \E s \in Sinks : r.event \in server[Ingest[s]]
<1>1. ASSUME NEW s \in Sinks, SpoolInsert(s) PROVE FALSE
    BY <1>1 DEF SpoolInsert
<1>2. ASSUME NEW s \in Sinks, Ack(s)
      PROVE  \E q \in Sinks : r.event \in server[Ingest[q]]
    BY <1>2 DEF Ack, AckOK
<1>3. ASSUME NEW s \in Sinks, NackWrite(s) PROVE r.event \in dead'
    BY <1>3 DEF NackWrite
<1>4. ASSUME \/ \E s \in Sinks, e \in Events : SpoolCheck(s, e) \/ Emit(s, e)
             \/ \E s \in Sinks : \/ Work(s) \/ Closing(s) \/ Crash(s)
                                 \/ RetryTop(s) \/ LeaseSelect(s) \/ LeaseUpdate(s)
                                 \/ RetryPost(s) \/ NackSelect(s)
             \/ \E q \in Rows : LeaseExpires(q)
             \/ UNCHANGED vars
      PROVE  FALSE
    BY <1>4 DEF SpoolCheck, Emit, Work, WorkerTop, WorkerGet, WorkerPost, Closing, Close,
       Drain, PostLeft, Join, Crash, RetryTop, LeaseSelect, LeaseUpdate, RetryPost,
       NackSelect, LeaseExpires, vars, spool
<1> QED
    BY <1>1, <1>2, <1>3, <1>4 DEF Next, Spool, Retry

\* Nothing received, set aside, dropped or emitted is forgotten.
LEMMA Grows ==
    ASSUME TypeOK, [Next]_vars
    PROVE  /\ \A n \in Servers : server[n] \subseteq server'[n]
           /\ dead \subseteq dead'
           /\ \A s \in Sinks : dropped[s] \subseteq dropped'[s] /\ emitted[s] \subseteq emitted'[s]
<1> RestOK
    BY TypeSplit
<1> USE DEF RestOK, Received
<1>1. ASSUME NEW s \in Sinks, NEW e \in Events, SpoolCheck(s, e) \/ Emit(s, e)
      PROVE  /\ UNCHANGED <<server, dead>>
             /\ \A t \in Sinks : dropped[t] \subseteq dropped'[t] /\ emitted[t] \subseteq emitted'[t]
    BY <1>1 DEF SpoolCheck, Emit, spool
<1>2. ASSUME NEW s \in Sinks, WorkerPost(s) \/ RetryPost(s) \/ PostLeft(s)
      PROVE  /\ UNCHANGED <<dead, dropped, emitted>>
             /\ \A n \in Servers : server[n] \subseteq server'[n]
    BY <1>2 DEF WorkerPost, RetryPost, PostLeft, spool
<1>3. ASSUME NEW s \in Sinks, NackWrite(s)
      PROVE  UNCHANGED <<server, dropped, emitted>> /\ dead \subseteq dead'
    BY <1>3 DEF NackWrite
<1>4. ASSUME \/ \E s \in Sinks : \/ SpoolInsert(s) \/ WorkerTop(s) \/ WorkerGet(s)
                                 \/ Close(s) \/ Drain(s) \/ Join(s) \/ Crash(s)
                                 \/ RetryTop(s) \/ LeaseSelect(s) \/ LeaseUpdate(s)
                                 \/ Ack(s) \/ NackSelect(s)
             \/ \E r \in Rows : LeaseExpires(r)
             \/ UNCHANGED vars
      PROVE  UNCHANGED <<server, dead, dropped, emitted>>
    BY <1>4 DEF SpoolInsert, WorkerTop, WorkerGet, Close, Drain, Join, Crash, RetryTop,
       LeaseSelect, LeaseUpdate, Ack, NackSelect, LeaseExpires, vars, spool
<1> QED
    BY <1>1, <1>2, <1>3, <1>4 DEF Next, Spool, Work, Closing, Retry

\* What is accounted for stays accounted for.
LEMMA AccountedStays ==
    ASSUME TypeOK, \A s \in Sinks : AckOK(s), [Next]_vars,
           NEW s \in Sinks, NEW e, Accounted(s, e)
    PROVE  Accounted(s, e)'
<1>1. CASE Spooled(e)
    <2> PICK r \in rows : r.event = e
        BY <1>1 DEF Spooled
    <2>1. CASE r \in rows'
        BY <2>1 DEF Accounted, Spooled
    <2>2. CASE r \notin rows'
        <3>1. e \in dead' \/ \E t \in Sinks : e \in server[Ingest[t]]
            BY <2>2, RowLeaves
        <3> QED
            BY <3>1, Grows, EventSpoolAssumption DEF Accounted
    <2> QED
        BY <2>1, <2>2
<1>2. CASE ~Spooled(e)
    BY <1>2, Grows DEF Accounted
<1> QED
    BY <1>1, <1>2

-----------------------------------------------------------------------------
(* Sinks. *)

\* A step that leaves the memory and the retrier of s alone.
Frame(s) ==
    /\ buf'[s] = buf[s]
    /\ left'[s] = left[s]
    /\ queue'[s] = queue[s]
    /\ life'[s] = life[s]
    /\ worker'[s] = worker[s]
    /\ s \in hurried' <=> s \in hurried
    /\ promised'[s] = promised[s]
    /\ spilling'[s] = spilling[s]
    /\ retrier'[s] = retrier[s]
    /\ batch'[s] = batch[s]

LEMMA Framed ==
    ASSUME TypeOK, \A t \in Sinks : SinkOK(t), [Next]_vars, NEW s \in Sinks, Frame(s)
    PROVE  SinkOK(s)'
<1>1. \A e : Accounted(s, e) => Accounted(s, e)'
    BY AccountedStays DEF SinkOK
<1>2. emitted[s] \subseteq emitted'[s] /\ server[Ingest[s]] \subseteq server'[Ingest[s]]
    BY Grows, EventSpoolAssumption
<1> QED
    BY <1>1, <1>2 DEF SinkOK, PromisesOK, CloseOK, AckOK, Held, Frame

\* A step of one sink frames the others.
LEMMA Others ==
    ASSUME TypeOK, NEW s \in Sinks, NEW t \in Sinks \ {s},
           \/ Spool(t) \/ Work(t) \/ Retry(t) \/ Closing(t) \/ Crash(t)
           \/ \E e \in Events : Emit(t, e)
    PROVE  Frame(s)
<1> USE DEF Frame, MemoryOK, QueuesOK, RestOK
<1> MemoryOK /\ RestOK
    BY TypeSplit
<1>1. CASE Spool(t)
    <2>1. ASSUME NEW e \in Events, Handled(t, e), UNCHANGED retry PROVE Frame(s)
        BY <2>1 DEF Handled, retry
    <2>2. entering[t] # None => entering[t] \in Events
        OBVIOUS
    <2> QED
        BY <1>1, <2>1, <2>2 DEF Spool, SpoolCheck, SpoolInsert, retry
<1>2. CASE Work(t)
    BY <1>2 DEF Work, WorkerTop, WorkerGet, WorkerPost, Leave, Flush, retry
<1>3. CASE Retry(t)
    BY <1>3 DEF Retry, RetryTop, LeaseSelect, LeaseUpdate, RetryPost, Ack, NackSelect,
       NackWrite, Idle, memory
<1>4. CASE Closing(t)
    BY <1>4 DEF Closing, Close, Drain, PostLeft, Join, retry
<1>5. CASE Crash(t)
    BY <1>5 DEF Crash
<1>6. CASE \E e \in Events : Emit(t, e)
    BY <1>6 DEF Emit, retry
<1> QED
    BY <1>1, <1>2, <1>3, <1>4, <1>5, <1>6

\* A thread that is done with an event has accounted for it.
LEMMA HandledOK ==
    ASSUME TypeOK, TypeOK', \A t \in Sinks : SinkOK(t), [Next]_vars,
           NEW s \in Sinks, NEW e \in Events,
           Handled(s, e), Accounted(s, e)', UNCHANGED retry
    PROVE  SinkOK(s)'
<1> MemoryOK /\ RestOK /\ SinkOK(s)
    BY TypeSplit
<1>1. \A x : Accounted(s, x) => Accounted(s, x)'
    BY AccountedStays DEF SinkOK
<1>2. emitted[s] \subseteq emitted'[s] /\ server[Ingest[s]] \subseteq server'[Ingest[s]]
    BY Grows, EventSpoolAssumption
<1>3. AckOK(s)'
    BY <1>2 DEF SinkOK, AckOK, retry
<1>4. /\ spilling'[s] \subseteq spilling[s]
      /\ promised'[s] = promised[s] \/
           (promised'[s] = promised[s] \cup {e} /\ e \in spilling[s] /\ life[s] = "open")
      /\ buf'[s] \in {buf[s], buf[s] \ {e}}
      /\ left'[s] \in {left[s], left[s] \ {e}}
      /\ queue' = queue /\ hurried' = hurried
      /\ life'[s] = life[s] \/ (life[s] = "spool" /\ life'[s] = "join" /\ left'[s] = {})
      /\ worker'[s] = worker[s] \/ (worker[s] = "spool" /\ worker'[s] = "top")
    BY DEF Handled, MemoryOK
<1>5. PromisesOK(s)'
    BY <1>1, <1>2, <1>4 DEF SinkOK, PromisesOK, Held
<1>6. CloseOK(s)'
    BY <1>4 DEF SinkOK, CloseOK
<1> QED
    BY <1>3, <1>5, <1>6 DEF SinkOK

\* Spooling an event accounts for it, or counts it as dropped.
LEMMA SpoolOwn ==
    ASSUME TypeOK, TypeOK', \A t \in Sinks : SinkOK(t), [Next]_vars, NEW s \in Sinks, Spool(s)
    PROVE  SinkOK(s)'
<1> MemoryOK /\ RestOK
    BY TypeSplit
<1>1. ASSUME NEW e \in Events, SpoolCheck(s, e) PROVE SinkOK(s)'
    <2>1. CASE UNCHANGED <<queue, spilling, buf, worker, left, life, hurried, promised>>
        <3>1. Frame(s)
            BY <1>1, <2>1 DEF SpoolCheck, Frame, retry
        <3> QED
            BY <3>1, Framed
    <2>2. CASE Handled(s, e) /\ (e \in dropped'[s] \/ Spooled(e) \/ e \in dead)
        <3>1. UNCHANGED <<spool, retry>>
            BY <1>1 DEF SpoolCheck
        <3>2. Accounted(s, e)'
            BY <2>2, <3>1 DEF Accounted, Spooled, spool
        <3> QED
            BY <2>2, <3>1, <3>2, HandledOK
    <2> QED
        BY <1>1, <2>1, <2>2 DEF SpoolCheck, RestOK
<1>2. ASSUME NEW e \in Events, e = entering[s], SpoolInsert(s) PROVE SinkOK(s)'
    <2>1. Handled(s, e) /\ UNCHANGED retry
        BY <1>2 DEF SpoolInsert
    <2>2. Spooled(e)'
        <3>1. CASE Spooled(e)
            BY <1>2, <3>1 DEF SpoolInsert, Spooled
        <3>2. CASE ~Spooled(e)
            <4>1. [event |-> e, by |-> s] \in rows'
                BY <1>2, <3>2 DEF SpoolInsert
            <4> QED
                BY <4>1 DEF Spooled
        <3> QED
            BY <3>1, <3>2
    <2>3. Accounted(s, e)'
        BY <2>2 DEF Accounted
    <2> QED
        BY <2>1, <2>3, HandledOK
<1>3. SpoolInsert(s) => entering[s] \in Events
    BY DEF SpoolInsert, RestOK
<1> QED
    BY <1>1, <1>2, <1>3 DEF Spool

\* An emit that found room has promised an event that is in the queue.
LEMMA EmitOwn ==
    ASSUME TypeOK, TypeOK', \A t \in Sinks : SinkOK(t), [Next]_vars,
           NEW s \in Sinks, NEW e \in Events, Emit(s, e)
    PROVE  SinkOK(s)'
<1> MemoryOK /\ QueuesOK /\ RestOK /\ SinkOK(s)
    BY TypeSplit DEF MemoryOK
<1>1. \A x : Accounted(s, x) => Accounted(s, x)'
    BY AccountedStays DEF SinkOK
<1>2. /\ e \notin emitted[s]
      /\ emitted'[s] = emitted[s] \cup {e}
      /\ UNCHANGED <<buf, left, life, hurried, worker, server>>
      /\ UNCHANGED retry
    BY DEF Emit, RestOK
<1>3. AckOK(s)'
    BY <1>2 DEF SinkOK, AckOK, retry
<1>4. CASE /\ queue' = [queue EXCEPT ![s] = Append(@, e)]
           /\ promised' = [promised EXCEPT ![s] =
                             IF life[s] = "open" THEN @ \cup {e} ELSE @]
           /\ UNCHANGED spilling
    <2>1. \A x : In(queue'[s], x) <=> In(queue[s], x) \/ x = e
        <3>1. queue[s] \in Seq(Events \cup {None}) /\ queue'[s] = Append(queue[s], e)
            BY <1>4 DEF QueuesOK
        <3> QED
            BY <3>1, Queues
    <2>2. promised'[s] = IF life[s] = "open" THEN promised[s] \cup {e} ELSE promised[s]
        BY <1>4 DEF MemoryOK
    <2>3. PromisesOK(s)'
        BY <1>1, <1>2, <1>4, <2>1, <2>2 DEF SinkOK, PromisesOK, Held
    <2>4. CloseOK(s)'
        BY <1>2, <2>1, <2>2 DEF SinkOK, CloseOK, PromisesOK
    <2> QED
        BY <1>3, <2>3, <2>4 DEF SinkOK
<1>5. CASE /\ spilling' = [spilling EXCEPT ![s] = @ \cup {e}]
           /\ UNCHANGED <<queue, promised>>
    <2>1. PromisesOK(s)'
        BY <1>1, <1>2, <1>5 DEF SinkOK, PromisesOK, Held, MemoryOK
    <2>2. CloseOK(s)'
        BY <1>2, <1>5 DEF SinkOK, CloseOK
    <2> QED
        BY <1>3, <2>1, <2>2 DEF SinkOK
<1> QED
    BY <1>4, <1>5 DEF Emit

\* The worker takes from the queue what it then posts or spools; a failed POST
\* leaves the batch as it was.
LEMMA WorkOwn ==
    ASSUME TypeOK, TypeOK', \A t \in Sinks : SinkOK(t), [Next]_vars, NEW s \in Sinks, Work(s)
    PROVE  SinkOK(s)'
<1> MemoryOK /\ QueuesOK /\ RestOK /\ SinkOK(s)
    BY TypeSplit DEF MemoryOK
<1>1. \A x : Accounted(s, x) => Accounted(s, x)'
    BY AccountedStays DEF SinkOK
<1>2. /\ server[Ingest[s]] \subseteq server'[Ingest[s]]
      /\ UNCHANGED <<emitted, spilling, left, life, hurried, promised>>
      /\ UNCHANGED retry
    BY Grows, EventSpoolAssumption DEF Work, WorkerTop, WorkerGet, WorkerPost
<1>3. AckOK(s)'
    BY <1>2 DEF SinkOK, AckOK, retry
<1>4. /\ worker[s] # "stopped"
      /\ worker'[s] = "stopped" => buf'[s] = {}
    BY DEF Work, WorkerTop, WorkerGet, WorkerPost, Leave, Flush, MemoryOK
<1>5. \A x : In(queue'[s], x) => In(queue[s], x)
    <2>1. queue'[s] = queue[s] \/ (queue[s] # << >> /\ queue'[s] = Tail(queue[s]))
        BY DEF Work, WorkerTop, WorkerGet, WorkerPost, QueuesOK
    <2> QED
        BY <2>1, Queues DEF QueuesOK
<1>6. CloseOK(s)'
    BY <1>2, <1>4, <1>5 DEF SinkOK, CloseOK
<1>7. \A x \in Events : Held(s, x) => Held(s, x)' \/ Accounted(s, x)'
    <2>1. CASE WorkerTop(s)
        BY <2>1 DEF WorkerTop, Held
    <2>2. CASE WorkerGet(s)
        <3>1. CASE UNCHANGED <<queue, buf>>
            BY <1>2, <3>1 DEF Held
        <3>2. CASE /\ queue[s] # << >>
                   /\ queue' = [queue EXCEPT ![s] = Tail(@)]
                   /\ \/ buf' = [buf EXCEPT ![s] = @ \cup {Head(queue[s])}]
                      \/ Head(queue[s]) = None /\ UNCHANGED buf
            <4>1. \A x : In(queue[s], x) <=> In(queue'[s], x) \/ x = Head(queue[s])
                BY <3>2, Queues DEF QueuesOK
            <4>2. buf[s] \subseteq buf'[s]
                BY <3>2 DEF MemoryOK
            <4>3. Head(queue[s]) \in buf'[s] \/ Head(queue[s]) \notin Events
                BY <3>2, EventSpoolAssumption DEF MemoryOK
            <4> QED
                BY <1>2, <4>1, <4>2, <4>3 DEF Held
        <3> QED
            BY <2>2, <3>1, <3>2 DEF WorkerGet
    <2>3. CASE WorkerPost(s)
        <3>1. CASE Received(s, buf[s])
            <4>1. Ingest[s] \in Servers /\ buf[s] \subseteq server'[Ingest[s]]
                BY <3>1, EventSpoolAssumption DEF Received, RestOK
            <4>2. UNCHANGED <<left, queue>>
                BY <2>3 DEF WorkerPost
            <4> QED
                BY <4>1, <4>2 DEF Held, Accounted
        <3>2. CASE UNCHANGED buf
            BY <2>3, <3>2 DEF WorkerPost, Held
        <3> QED
            BY <2>3, <3>1, <3>2 DEF WorkerPost
    <2> QED
        BY <2>1, <2>2, <2>3 DEF Work
<1>8. PromisesOK(s)'
    BY <1>1, <1>2, <1>7 DEF SinkOK, PromisesOK, MemoryOK
<1> QED
    BY <1>3, <1>6, <1>8 DEF SinkOK

\* The retrier acks a batch that the ingest service has answered for.
LEMMA RetryOwn ==
    ASSUME TypeOK, TypeOK', \A t \in Sinks : SinkOK(t), [Next]_vars, NEW s \in Sinks, Retry(s)
    PROVE  SinkOK(s)'
<1> RestOK /\ SinkOK(s)
    BY TypeSplit
<1>1. \A x : Accounted(s, x) => Accounted(s, x)'
    BY AccountedStays DEF SinkOK
<1>2. UNCHANGED memory /\ UNCHANGED <<emitted, promised>>
    BY DEF Retry, RetryTop, LeaseSelect, LeaseUpdate, RetryPost, Ack, NackSelect, NackWrite
<1>3. retrier'[s] = "ack" => \A r \in batch'[s] : r.event \in server'[Ingest[s]]
    <2>1. CASE RetryPost(s)
        <3>1. \/ retrier'[s] # "ack"
              \/ batch'[s] = batch[s] /\ Received(s, {r.event : r \in batch[s]})
            BY <2>1 DEF RetryPost, RestOK
        <3>2. Received(s, {r.event : r \in batch[s]})
                => \A r \in batch[s] : r.event \in server'[Ingest[s]]
            BY EventSpoolAssumption DEF Received, RestOK
        <3> QED
            BY <3>1, <3>2
    <2>2. CASE ~RetryPost(s)
        BY <2>2 DEF Retry, RetryTop, LeaseSelect, LeaseUpdate, Ack, NackSelect, NackWrite,
           Idle, RestOK
    <2> QED
        BY <2>1, <2>2
<1> QED
    BY <1>1, <1>2, <1>3 DEF SinkOK, PromisesOK, CloseOK, AckOK, Held, memory

\* Each stage of a close passes on the events it found, or has posted them.
LEMMA ClosingOwn ==
    ASSUME TypeOK, TypeOK', \A t \in Sinks : SinkOK(t), [Next]_vars, NEW s \in Sinks, Closing(s)
    PROVE  SinkOK(s)'
<1> MemoryOK /\ QueuesOK /\ RestOK /\ SinkOK(s)
    BY TypeSplit DEF MemoryOK
<1>1. \A x : Accounted(s, x) => Accounted(s, x)'
    BY AccountedStays DEF SinkOK
<1>2. /\ server[Ingest[s]] \subseteq server'[Ingest[s]]
      /\ UNCHANGED <<emitted, spilling, buf, worker, promised>>
      /\ UNCHANGED retry
    BY Grows, EventSpoolAssumption DEF Closing, Close, Drain, PostLeft, Join
<1>3. AckOK(s)'
    BY <1>2 DEF SinkOK, AckOK, retry
<1>4. SUFFICES /\ \A x \in promised[s] : Held(s, x) => Held(s, x)' \/ Accounted(s, x)'
               /\ CloseOK(s)'
    <2>1. life[s] # "dead"
        BY DEF Closing, Close, Drain, PostLeft, Join
    <2>2. PromisesOK(s)'
        BY <1>1, <1>2, <1>4, <2>1 DEF SinkOK, PromisesOK
    <2> QED
        BY <1>3, <1>4, <2>2 DEF SinkOK
<1> promised[s] \subseteq Events
    BY DEF MemoryOK
<1>5. CASE Close(s)
    <2>1. \A x \in Events : In(queue[s], x) => In(queue'[s], x)
        <3>1. queue'[s] = queue[s] \/ queue'[s] = Append(queue[s], None)
            BY <1>5 DEF Close, QueuesOK
        <3>2. queue[s] \in Seq(Events \cup {None})
            BY DEF QueuesOK
        <3>3. \A x : In(Append(queue[s], None), x) <=> In(queue[s], x) \/ x = None
            BY <3>2, Queues
        <3> QED
            BY <3>1, <3>3
    <2>2. life'[s] = "drain" /\ UNCHANGED <<left, hurried>>
        BY <1>5 DEF Close, MemoryOK
    <2> QED
        BY <1>2, <2>1, <2>2 DEF Held, SinkOK, CloseOK
<1>6. CASE Drain(s)
    <2>1. CASE queue[s] # << >> /\ queue' = [queue EXCEPT ![s] = Tail(@)]
               /\ left' = [left EXCEPT ![s] = @ \cup ({Head(queue[s])} \ {None})]
               /\ UNCHANGED <<life, hurried>>
        <3>1. \A x : In(queue[s], x) <=> In(queue'[s], x) \/ x = Head(queue[s])
            BY <2>1, Queues DEF QueuesOK
        <3>2. left'[s] = left[s] \cup ({Head(queue[s])} \ {None})
            BY <2>1 DEF MemoryOK
        <3>3. life[s] = "drain"
            BY <1>6 DEF Drain
        <3> QED
            BY <1>2, <2>1, <3>1, <3>2, <3>3, EventSpoolAssumption DEF Held, SinkOK, CloseOK
    <2>2. CASE /\ queue[s] = << >> \/ s \in hurried'
               /\ life' = [life EXCEPT ![s] = IF left[s] = {} THEN "join" ELSE "post"]
               /\ UNCHANGED <<queue, left>>
        <3>1. \/ life'[s] = "join" /\ left[s] = {}
              \/ life'[s] = "post"
            BY <2>2 DEF MemoryOK
        <3>2. queue[s] = << >> => \A x : ~In(queue[s], x)
            BY DEF In
        <3> QED
            BY <1>2, <2>2, <3>1, <3>2 DEF Held, SinkOK, CloseOK
    <2> QED
        BY <1>6, <2>1, <2>2 DEF Drain
<1>7. CASE PostLeft(s)
    <2>1. CASE Received(s, left[s]) /\ left' = [left EXCEPT ![s] = {}]
               /\ life' = [life EXCEPT ![s] = "join"]
        <3>1. Ingest[s] \in Servers /\ left[s] \subseteq server'[Ingest[s]]
            BY <2>1, EventSpoolAssumption DEF Received, RestOK
        <3>2. left'[s] = {} /\ life'[s] = "join" /\ life[s] = "post"
            BY <1>7, <2>1 DEF PostLeft, MemoryOK
        <3>3. UNCHANGED <<queue, hurried>>
            BY <1>7 DEF PostLeft
        <3> QED
            BY <1>2, <3>1, <3>2, <3>3 DEF Held, Accounted, SinkOK, CloseOK
    <2>2. CASE life' = [life EXCEPT ![s] = "spool"] /\ UNCHANGED left
        <3>1. life'[s] = "spool" /\ life[s] = "post" /\ UNCHANGED <<queue, hurried>>
            BY <1>7, <2>2 DEF PostLeft, MemoryOK
        <3> QED
            BY <1>2, <2>2, <3>1 DEF Held, SinkOK, CloseOK
    <2> QED
        BY <1>7, <2>1, <2>2 DEF PostLeft
<1>8. CASE Join(s)
    <2>1. /\ life[s] = "join" /\ life'[s] = "closed"
          /\ UNCHANGED <<queue, left>>
          /\ s \in hurried => s \in hurried'
          /\ worker[s] = "stopped" \/ s \in hurried'
        BY <1>8 DEF Join, MemoryOK
    <2> QED
        BY <1>2, <2>1 DEF Held, SinkOK, CloseOK
<1> QED
    BY <1>5, <1>6, <1>7, <1>8 DEF Closing

\* A crash ends the sink's promises.
LEMMA CrashOwn ==
    ASSUME TypeOK, TypeOK', \A t \in Sinks : SinkOK(t), [Next]_vars, NEW s \in Sinks, Crash(s)
    PROVE  SinkOK(s)'
<1> MemoryOK /\ RestOK /\ SinkOK(s)
    BY TypeSplit
<1>1. /\ life'[s] = "dead"
      /\ spilling'[s] = {} /\ buf'[s] = {}
      /\ retrier'[s] = "stopped"
      /\ UNCHANGED <<emitted, promised>>
    BY DEF Crash, MemoryOK, RestOK
<1> QED
    BY <1>1 DEF SinkOK, PromisesOK, CloseOK, AckOK

-----------------------------------------------------------------------------
(* The theorems. *)

LEMMA InitIInv == Init => IInv
<1> SUFFICES ASSUME Init PROVE IInv
    OBVIOUS
<1> USE EventSpoolAssumption DEF Init
<1>1. TypeOK
    BY DEF TypeOK, Gone, Rows
<1>2. FirstOK /\ \A s \in Sinks : SinkOK(s)
    BY DEF FirstOK, SinkOK, PromisesOK, CloseOK, AckOK
<1> QED
    BY <1>1, <1>2 DEF IInv

LEMMA NextIInv == IInv /\ [Next]_vars => IInv'
<1> SUFFICES ASSUME IInv, [Next]_vars PROVE IInv'
    OBVIOUS
<1> TypeOK /\ FirstOK /\ \A s \in Sinks : SinkOK(s)
    BY DEF IInv
<1>1. TypeOK' /\ FirstOK'
    BY TypeStep, FirstStep
<1>2. ASSUME NEW s \in Sinks PROVE SinkOK(s)'
    <2>1. CASE \E t \in Sinks \ {s} :
                  \/ Spool(t) \/ Work(t) \/ Retry(t) \/ Closing(t) \/ Crash(t)
                  \/ \E e \in Events : Emit(t, e)
        BY <2>1, Others, Framed
    <2>2. CASE Spool(s)
        BY <1>1, <2>2, SpoolOwn
    <2>3. CASE \E e \in Events : Emit(s, e)
        BY <1>1, <2>3, EmitOwn
    <2>4. CASE Work(s)
        BY <1>1, <2>4, WorkOwn
    <2>5. CASE Retry(s)
        BY <1>1, <2>5, RetryOwn
    <2>6. CASE Closing(s)
        BY <1>1, <2>6, ClosingOwn
    <2>7. CASE Crash(s)
        BY <1>1, <2>7, CrashOwn
    <2>8. CASE (\E r \in Rows : LeaseExpires(r)) \/ UNCHANGED vars
        <3>1. Frame(s)
            BY <2>8 DEF LeaseExpires, vars, memory, retry, Frame
        <3> QED
            BY <3>1, Framed
    <2> QED
        BY <2>1, <2>2, <2>3, <2>4, <2>5, <2>6, <2>7, <2>8 DEF Next
<1> QED
    BY <1>1, <1>2 DEF IInv

\* The invariant holds in every reachable state, whatever the number of
\* processes, ingest services and events, and whatever the bounds.
THEOREM InductiveInvariant == Spec => []IInv
    BY InitIInv, NextIInv, PTL DEF Spec

\* The queue keeps its bound and the spool one row for an event, whichever
\* processes write to the file at the same time.
THEOREM TypeCorrect == Spec => []TypeOK
<1>1. IInv => TypeOK
    BY DEF IInv
<1> QED
    BY <1>1, InductiveInvariant, PTL

\* HttpSink.close: when it met its deadline, every event emitted before it was
\* received, is in the spool, is set aside, or was counted as dropped.
THEOREM CloseFlushes == Spec => []ClosedFlushed
<1>1. IInv => ClosedFlushed
    <2> SUFFICES ASSUME IInv, NEW s \in Sinks, life[s] = "closed", s \notin hurried,
                        NEW e \in promised[s]
                 PROVE  Accounted(s, e)
        BY DEF ClosedFlushed, Accounted
    <2>1. SinkOK(s)
        BY DEF IInv
    <2>2. ~Held(s, e)
        BY <2>1 DEF SinkOK, CloseOK, Held
    <2> QED
        BY <2>1, <2>2 DEF SinkOK, PromisesOK
<1> QED
    BY <1>1, InductiveInvariant, PTL

\* All the sinks on the spool file send to one ingest service.
OneService == \A s, t \in Sinks : Ingest[s] = Ingest[t]

\* RetryQueue.ack and nack: with one ingest service a row leaves the spool only
\* when that service has its event, or when the event is set aside, although
\* neither call looks whether the lease is still its own.
THEOREM DeliveredWithOneService == OneService => (Spec => RowsLeaveDelivered)
<1> SUFFICES ASSUME OneService PROVE Spec => RowsLeaveDelivered
    OBVIOUS
<1>1. ASSUME IInv, [Next]_vars
      PROVE  [\A r \in rows : r \notin rows' =>
                 r.event \in server[Ingest[r.by]] \cup dead']_vars
    <2> SUFFICES ASSUME NEW r \in rows, r \notin rows'
                 PROVE  r.event \in server[Ingest[r.by]] \cup dead'
        OBVIOUS
    <2>1. r.event \in dead' \/ \E s \in Sinks : r.event \in server[Ingest[s]]
        BY <1>1, RowLeaves DEF IInv, SinkOK
    <2>2. r.by \in Sinks
        BY <1>1 DEF IInv, TypeOK, Rows
    <2> QED
        BY <2>1, <2>2 DEF OneService
<1> QED
    BY <1>1, InductiveInvariant, PTL DEF Spec, RowsLeaveDelivered

=============================================================================
