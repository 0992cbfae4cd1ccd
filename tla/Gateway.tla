------------------------------ MODULE Gateway ------------------------------
(***************************************************************************)
(* The LiteLLM gateway that owns enforcement                               *)
(* (kazenai/integrations/litellm_gateway.py, litellm_control.py).          *)
(*                                                                         *)
(* Each deployment attempt is reserved and marked started in FinOps before *)
(* the provider is called.  How it ended reaches the callback in hooks of  *)
(* LiteLLM, in their own order: the deployment hook of a plain call, then, *)
(* or beside it, its success event; the success event alone of a stream or *)
(* a cache hit.  A settlement is a file in the pending directory before it *)
(* is sent; flush_pending resends those files from another thread.  A file *)
(* in the open directory stands for each attempt that is not settled.  A   *)
(* crash leaves the files only.                                            *)
(***************************************************************************)
EXTENDS Integers, FiniteSets, Sequences, SequencesExt

CONSTANTS
    Attempts,     \* deployment attempts
    Cost,         \* what the provider reports an attempt cost
    Guess,        \* what LiteLLM's tokenizer makes of an unreported stream
    MaxEvidence,  \* _MAX_STREAM_EVIDENCE
    MaxCrashes    \* bound: crashes of the proxy

ASSUME GatewayAssumption ==
    /\ IsFiniteSet(Attempts)
    /\ Cost \in Nat \ {0} /\ Guess \in Nat \ {0, Cost}
    /\ MaxEvidence \in Nat \ {0}
    /\ MaxCrashes \in Nat

VARIABLES
    at,        \* where each attempt is
    fate,      \* how its provider call ended
    due,       \* the hooks LiteLLM will still call for it
    evidence,  \* _stream_evidence, oldest first
    cached,    \* the process cache _open
    open,      \* the files of the open directory
    pending,   \* the bodies in the pending directory
    aside,     \* those in the quarantine directory
    posting,   \* the settlements hooks are sending
    flush,     \* what flush_pending has listed and not sent, and its last answer
    ledger,    \* FinOps: the state of each reservation
    settled,   \* FinOps: the amount each is settled at
    crashes    \* crashes so far

files == <<open, pending, aside>>
finops == <<ledger, settled>>
vars == <<at, fate, due, evidence, cached, files, posting, flush, finops, crashes>>

Fates == {"none", "rejected", "lost", "plain", "unpriced", "stream", "unreported",
          "cache hit"}
Hooks == {"deployment", "event"}
Events == {"usage_known", "outcome_unknown"}
Bodies == [attempt : Attempts, event : Events, amount : {0, Cost, Guess}, verified : BOOLEAN]
Answers == {"none", "applied", "refused", "failed"}
Listed(bodies) == [todo |-> bodies, sent |-> {}, answer |-> "none"]
NoFlush == Listed({})

TypeOK ==
    /\ at \in [Attempts -> {"new", "start", "provider", "refused", "over"}]
    /\ fate \in [Attempts -> Fates]
    /\ due \in [Attempts -> SUBSET Hooks]
    /\ evidence \in Seq([attempt : Attempts, reported : BOOLEAN])
    /\ Len(evidence) <= MaxEvidence
    /\ cached \subseteq Attempts
    /\ open \subseteq Attempts
    /\ pending \subseteq Bodies
    /\ aside \subseteq Bodies
    /\ posting \subseteq [hook : Hooks, body : Bodies, answer : Answers]
    /\ flush \in [todo : SUBSET Bodies, sent : SUBSET Bodies, answer : Answers]
    /\ ledger \in [Attempts -> {"none", "reserved", "in_flight", "settled",
                                "pending_reconciliation"}]
    /\ settled \in [Attempts -> {0, Cost, Guess}]
    /\ crashes \in 0..MaxCrashes

Init ==
    /\ at = [a \in Attempts |-> "new"]
    /\ fate = [a \in Attempts |-> "none"]
    /\ due = [a \in Attempts |-> {}]
    /\ evidence = <<>>
    /\ cached = {}
    /\ open = {}
    /\ pending = {}
    /\ aside = {}
    /\ posting = {}
    /\ flush = NoFlush
    /\ ledger = [a \in Attempts |-> "none"]
    /\ settled = [a \in Attempts |-> 0]
    /\ crashes = 0

Go(a, p) == at' = [at EXCEPT ![a] = p]

\* The store: put_open, drop_open, enqueue_pending, quarantine_pending.
PutOpen(a) == open' = open \cup {a}
DropOpen(a) == open' = open \ {a}
Enqueue(b) == pending' = pending \cup {b}
Quarantine(b) == pending' = pending \ {b} /\ aside' = aside \cup (pending \cap {b})

-----------------------------------------------------------------------------
(* FinOps. *)

\* The settle endpoint: usage settles a reservation once, an unknown outcome
\* leaves it pending; a late signal leaves it as it is, and is a duplicate.  No
\* hook sends one of an attempt that FinOps has not seen started (TraceKept).
Apply(b) ==
    LET a == b.attempt IN
    /\ ledger' = [ledger EXCEPT ![a] =
         IF b.event = "usage_known" THEN "settled"
         ELSE IF @ = "settled" THEN @ ELSE "pending_reconciliation"]
    /\ settled' = [settled EXCEPT ![a] =
         IF b.event = "usage_known" /\ ledger[a] # "settled" THEN b.amount ELSE @]

\* What a send meets: an answer that acknowledges it (_settlement_delivered:
\* "pending" does, for an outcome_unknown), a refusal, or anything else,
\* whether FinOps applied it or not.
Answered(b, answer) ==
    \/ answer = "applied" /\ Apply(b)
    \/ answer = "refused" /\ UNCHANGED finops
    \/ answer = "failed" /\ (Apply(b) \/ UNCHANGED finops)

-----------------------------------------------------------------------------
(* Admission: async_pre_call_deployment_hook. *)

\* reserve_attempt: the reservation is cached and its open file written.
Reserve(a) ==
    /\ at[a] = "new"
    /\ ledger' = [ledger EXCEPT ![a] = "reserved"]
    /\ cached' = cached \cup {a}
    /\ PutOpen(a)
    /\ Go(a, "start")
    /\ UNCHANGED <<fate, due, evidence, pending, aside, posting, flush, settled, crashes>>

\* No customer, no price configuration, a denial, an error or no answer: the
\* exception blocks the dispatch, and FinOps may have reserved.
Deny(a) ==
    /\ at[a] = "new"
    /\ ledger' \in {ledger, [ledger EXCEPT ![a] = "reserved"]}
    /\ Go(a, "refused")
    /\ UNCHANGED <<fate, due, evidence, cached, files, posting, flush, settled, crashes>>

\* mark_start acknowledged: the kwargs are bound to the attempt and LiteLLM
\* calls the provider.
MarkStart(a) ==
    /\ at[a] = "start"
    /\ ledger' = [ledger EXCEPT ![a] = "in_flight"]
    /\ Go(a, "provider")
    /\ UNCHANGED <<fate, due, evidence, cached, files, posting, flush, settled, crashes>>

\* start_failed: the call is refused.  The kwargs carry no marker yet, so no
\* hook finds the reservation again.
MarkStartFailed(a) ==
    /\ at[a] = "start"
    /\ ledger' \in {ledger, [ledger EXCEPT ![a] = "in_flight"]}
    /\ Go(a, "refused")
    /\ UNCHANGED <<fate, due, evidence, cached, files, posting, flush, settled, crashes>>

-----------------------------------------------------------------------------
(* LiteLLM. *)

\* The hooks LiteLLM calls after the provider call: both of a plain call that
\* returned, else one, the failure's or the stream's.
HooksOf(f) == IF f \in {"plain", "unpriced"} THEN Hooks ELSE {"event"}

\* Mutant: the oldest note is not evicted.
NoteMore(a, f) ==
    \/ UNCHANGED evidence
    \/ /\ f \in {"stream", "unreported"}
       /\ evidence' = evidence \o <<[attempt |-> a, reported |-> f = "stream"]>>

\* async_post_call_streaming_iterator_hook: whether the chunks of a stream
\* that ended show a finish and a usage; nothing where no chunks are kept.
\* At the limit the oldest note goes.
Note(a, f) ==
    \/ UNCHANGED evidence
    \/ /\ f \in {"stream", "unreported"}
       /\ evidence' = (IF Len(evidence) >= MaxEvidence THEN Tail(evidence) ELSE evidence)
                        \o <<[attempt |-> a, reported |-> f = "stream"]>>

ProviderEnds(a) ==
    /\ at[a] = "provider"
    /\ \E f \in Fates \ {"none"} :
        /\ fate' = [fate EXCEPT ![a] = f]
        /\ due' = [due EXCEPT ![a] = HooksOf(f)]
        /\ Note(a, f)
    /\ Go(a, "over")
    /\ UNCHANGED <<cached, files, posting, flush, finops, crashes>>

-----------------------------------------------------------------------------
(* The hooks. *)

Noted(a) == {e.reported : e \in {f \in ToSet(evidence) : f.attempt = a}}

Usage(a, amount, verified) ==
    [attempt |-> a, event |-> "usage_known", amount |-> amount, verified |-> verified]
UnknownOutcome(a) ==
    [attempt |-> a, event |-> "outcome_unknown", amount |-> 0, verified |-> TRUE]

\* Mutant: a failure after the dispatch costs nothing.
BodyFalseZero(a) ==
    IF fate[a] \in {"rejected", "cache hit", "lost"} THEN Usage(a, 0, TRUE)
    ELSE IF fate[a] \in {"plain", "stream"} THEN Usage(a, Cost, TRUE)
    ELSE UnknownOutcome(a)

\* async_post_call_failure_deployment_hook: a definitive refusal did no billable
\* work, after any other failure the provider may have done it.
FailureBody(a) == IF fate[a] = "rejected" THEN Usage(a, 0, TRUE) ELSE UnknownOutcome(a)

\* What a hook sends.  LiteLLM's usage of a stream is the provider's or its
\* own count; without evidence it is sent as unverified.
Body(a) ==
    IF fate[a] \in {"rejected", "lost"} THEN FailureBody(a)
    ELSE IF fate[a] = "cache hit" THEN Usage(a, 0, TRUE)
    ELSE IF fate[a] = "plain" THEN Usage(a, Cost, TRUE)
    ELSE IF fate[a] = "stream" THEN Usage(a, Cost, Noted(a) # {})
    ELSE IF fate[a] = "unreported" /\ Noted(a) = {} THEN Usage(a, Guess, FALSE)
    ELSE UnknownOutcome(a)

\* _reservation_for: from the cache, or from the open file.
Found(a) == a \in cached \cup open

\* Mutant: the body is queued when sending it has failed, not before.
SendUnsaved(a, h) ==
    /\ h \in due[a] /\ Found(a)
    /\ due' = [due EXCEPT ![a] = @ \ {h}]
    /\ posting' = posting \cup {[hook |-> h, body |-> Body(a), answer |-> "none"]}
    /\ cached' = cached \cup {a}
    /\ open' = open \cup {a}
    /\ UNCHANGED <<at, fate, evidence, pending, aside, flush, finops, crashes>>

\* settle_success, settle_cancel_or_pending: the body is queued, then sent.
Send(a, h) ==
    /\ h \in due[a] /\ Found(a)
    /\ due' = [due EXCEPT ![a] = @ \ {h}]
    /\ posting' = posting \cup {[hook |-> h, body |-> Body(a), answer |-> "none"]}
    /\ cached' = cached \cup {a}
    /\ PutOpen(a)
    /\ Enqueue(Body(a))
    /\ UNCHANGED <<at, fate, evidence, aside, flush, finops, crashes>>

\* Its note is taken out, if it is still there.
Forget(a) ==
    LET noted == {i \in DOMAIN evidence : evidence[i].attempt = a} IN
    \/ noted = {} /\ UNCHANGED evidence
    \/ \E i \in noted : evidence' = RemoveAt(evidence, i)

\* The other hook has settled the attempt.
FindNothing(a, h) ==
    /\ h \in due[a] /\ ~Found(a)
    /\ due' = [due EXCEPT ![a] = @ \ {h}]
    /\ IF h = "event" THEN Forget(a) ELSE UNCHANGED evidence
    /\ UNCHANGED <<at, fate, cached, files, posting, flush, finops, crashes>>

\* A refusal of a live send is handled as any other failure.
Answer(p) ==
    /\ p \in posting /\ p.answer = "none"
    /\ \E answer \in {"applied", "failed"} :
        /\ Answered(p.body, answer)
        /\ posting' = (posting \ {p}) \cup {[p EXCEPT !.answer = answer]}
    /\ UNCHANGED <<at, fate, due, evidence, cached, files, flush, crashes>>

\* Mutant: the attempt is closed once its outcome has been sent.
DeliverCloses(p) ==
    LET a == p.body.attempt IN
    /\ p \in posting /\ p.answer # "none"
    /\ posting' = posting \ {p}
    /\ pending' = IF p.answer = "applied" THEN pending \ {p.body} ELSE pending \cup {p.body}
    /\ open' = open \ {a} /\ cached' = cached \ {a}
    /\ Forget(a)
    /\ UNCHANGED <<at, fate, due, aside, flush, finops, crashes>>

\* Acknowledged: the body leaves the queue; a settled attempt is closed, one
\* with an unknown outcome stays open for late evidence.
Deliver(p) ==
    LET a == p.body.attempt IN
    /\ p \in posting /\ p.answer # "none"
    /\ posting' = posting \ {p}
    /\ IF p.answer = "applied"
       THEN /\ pending' = pending \ {p.body}
            /\ IF p.body.event = "usage_known"
               THEN DropOpen(a) /\ cached' = cached \ {a}
               ELSE UNCHANGED <<open, cached>>
       ELSE \* _persist_delivery
            /\ Enqueue(p.body)
            /\ PutOpen(a)
            /\ UNCHANGED cached
    /\ Forget(a)
    /\ UNCHANGED <<at, fate, due, aside, flush, finops, crashes>>

-----------------------------------------------------------------------------
(* flush_pending, in a thread of its own. *)

\* _schedule_flush: one at a time; the interval passes with the traffic.
FlushStarts ==
    /\ flush = NoFlush
    /\ pending # {}
    /\ flush' = Listed(pending)
    /\ UNCHANGED <<at, fate, due, evidence, cached, files, posting, finops, crashes>>

FlushSends(b) ==
    /\ b \in flush.todo /\ flush.sent = {}
    /\ \E answer \in Answers \ {"none"} :
        /\ Answered(b, answer)
        /\ flush' = [todo |-> flush.todo \ {b}, sent |-> {b}, answer |-> answer]
    /\ UNCHANGED <<at, fate, due, evidence, cached, files, posting, crashes>>

\* Mutant: a refused body is dropped.
FlushDrops(b) ==
    /\ flush.sent = {b}
    /\ pending' = IF flush.answer = "failed" THEN pending ELSE pending \ {b}
    /\ flush' = Listed(flush.todo)
    /\ UNCHANGED <<at, fate, due, evidence, cached, open, aside, posting, finops, crashes>>

\* Mutant: a refusal closes the attempt too.
FlushCloses(b) ==
    /\ flush.sent = {b} /\ flush.answer # "failed"
    /\ IF flush.answer = "applied" THEN pending' = pending \ {b} /\ UNCHANGED aside
                                   ELSE Quarantine(b)
    /\ IF b.event = "usage_known" /\ b.attempt \in cached
       THEN DropOpen(b.attempt) /\ cached' = cached \ {b.attempt}
       ELSE UNCHANGED <<open, cached>>
    /\ flush' = Listed(flush.todo)
    /\ UNCHANGED <<at, fate, due, evidence, posting, finops, crashes>>

\* Acknowledged: the file goes, and the open file of a settled attempt this
\* process has in its cache.  Refused: set aside.  Else it stays, and when
\* FinOps is out of reach the flush ends.
FlushHandles(b) ==
    /\ flush.sent = {b}
    /\ \/ /\ flush.answer = "applied"
          /\ pending' = pending \ {b}
          /\ IF b.event = "usage_known" /\ b.attempt \in cached
             THEN DropOpen(b.attempt) /\ cached' = cached \ {b.attempt}
             ELSE UNCHANGED <<open, cached>>
          /\ UNCHANGED aside
       \/ /\ flush.answer = "refused"
          /\ Quarantine(b)
          /\ UNCHANGED <<open, cached>>
       \/ /\ flush.answer = "failed"
          /\ UNCHANGED <<files, cached>>
    /\ flush' \in {Listed(flush.todo)} \cup
         (IF flush.answer = "failed" THEN {NoFlush} ELSE {})
    /\ UNCHANGED <<at, fate, due, evidence, posting, finops, crashes>>

\* Older than the retry window: an operator's.
FlushExpires(b) ==
    /\ b \in flush.todo /\ flush.sent = {}
    /\ Quarantine(b)
    /\ flush' = Listed(flush.todo \ {b})
    /\ UNCHANGED <<at, fate, due, evidence, cached, open, posting, finops, crashes>>

-----------------------------------------------------------------------------
\* The proxy dies and comes back: what is not a file is gone, and so are the
\* calls it was serving.
Crash ==
    /\ crashes < MaxCrashes
    /\ crashes' = crashes + 1
    /\ at' = [a \in Attempts |-> IF at[a] = "new" THEN "new"
                                 ELSE IF at[a] = "start" THEN "refused"
                                 ELSE IF at[a] = "provider" THEN "over" ELSE at[a]]
    /\ due' = [a \in Attempts |-> {}]
    /\ evidence' = <<>>
    /\ cached' = {}
    /\ posting' = {}
    /\ flush' = NoFlush
    /\ UNCHANGED <<fate, files, finops>>

Attempt(a) ==
    \/ Reserve(a) \/ Deny(a) \/ MarkStart(a) \/ MarkStartFailed(a) \/ ProviderEnds(a)
    \/ \E h \in Hooks : Send(a, h) \/ FindNothing(a, h)
    \/ \E p \in posting : p.body.attempt = a /\ (Answer(p) \/ Deliver(p))

Flushing == FlushStarts \/ \E b \in Bodies : FlushSends(b) \/ FlushHandles(b) \/ FlushExpires(b)

Next == (\E a \in Attempts : Attempt(a)) \/ Flushing \/ Crash

Spec == Init /\ [][Next]_vars

-----------------------------------------------------------------------------
(* Properties. *)

Dispatched(a) == at[a] \in {"provider", "over"}
Resolved(a) == ledger[a] \in {"settled", "pending_reconciliation"}

\* When an attempt is over and its hooks have run, FinOps knows how it ended or
\* the body is in the pending or the quarantine directory: lost answers, the
\* other hook and a flush beside it lose nothing.
OutcomeKept ==
    \A a \in Attempts :
        at[a] = "over" /\ due[a] = {} /\ crashes = 0 =>
            Resolved(a) \/ \E b \in pending \cup aside : b.attempt = a

\* A body being sent is never the only copy, so that no crash loses a known
\* amount ("Persist exact settlement intent *before* the network call").
NeverOnlyInMemory ==
    \A p \in posting : p.body \in pending \cup aside \/ Resolved(p.body.attempt)

\* An attempt that is dispatched was started at FinOps before, and has its open
\* file as long as FinOps does not know how it ended, across crashes: late
\* evidence can still find it.
TraceKept ==
    \A a \in Attempts : Dispatched(a) =>
        /\ ledger[a] \notin {"none", "reserved"}
        /\ Resolved(a) \/ a \in open

\* FinOps settles what the provider reported: $0 only for a refused request or
\* a cache hit, LiteLLM's own count only where nothing says it is one, and never
\* as the provider's report, also when the note about the stream was evicted or
\* lost in a crash.
SettledAtReport ==
    /\ \A a \in Attempts : ledger[a] = "settled" =>
          \/ settled[a] = 0 /\ fate[a] \in {"rejected", "cache hit"}
          \/ settled[a] = Cost /\ fate[a] \in {"plain", "stream"}
          \/ settled[a] = Guess /\ fate[a] = "unreported"
    /\ \A b \in pending \cup aside : b.amount = Guess => ~b.verified

\* The outcome of an attempt; LiteLLM's count is what an unreported stream cost.
NoAmount == -1
Done == {a \in Attempts : fate[a] # "none"}
CostOf(a) ==
    IF fate[a] \in {"rejected", "cache hit"} THEN 0
    ELSE IF fate[a] \in {"plain", "stream"} THEN Cost
    ELSE IF fate[a] = "unreported" THEN Guess ELSE NoAmount
AmountOf(a) == IF ledger[a] = "settled" THEN settled[a] ELSE NoAmount

\* FinOps knows how an attempt ended, or its open file leads to it.
Traced(a) == Resolved(a) \/ a \in open

Contract == INSTANCE ReservationContract WITH
    Calls <- Attempts,
    Amounts <- {0, Cost, Guess},
    Unknown <- NoAmount,
    account <- ledger,
    amount <- [a \in Attempts |-> AmountOf(a)],
    ran <- {a \in Attempts : Dispatched(a)},
    done <- Done,
    cost <- [a \in Attempts |-> CostOf(a)],
    told <- {a \in Attempts : Traced(a)},
    over <- Done

\* An attempt of the gateway keeps the contract of reservations: hooks, flushes
\* and crashes never reopen what FinOps has settled, settle another amount, or
\* remove the open file of an attempt before FinOps knows how it ended.
ImplementsContract == Contract!Spec

=============================================================================
