--------------------------- MODULE GatewayProofs ---------------------------
(***************************************************************************)
(* What the gateway promises for any number of attempts, any limit of the  *)
(* stream evidence and any number of crashes: the five invariants of the   *)
(* run, and the contract of reservations. The inductive invariant says of  *)
(* every body, wherever a copy of it is (in a file, in a hook's hand or in *)
(* a flush), that it tells how its attempt ended, and of every             *)
(* acknowledgement in memory that FinOps has what it acknowledges.         *)
(***************************************************************************)
EXTENDS Gateway, TLAPS

-----------------------------------------------------------------------------
(* The inductive invariant. *)

\* The body tells how its attempt ended, and a guess says that it is one.
Just(b) ==
    /\ at[b.attempt] = "over" /\ fate[b.attempt] # "none"
    /\ b.event = "usage_known" =>
         \/ b.amount = 0 /\ fate[b.attempt] \in {"rejected", "cache hit"}
         \/ b.amount = Cost /\ fate[b.attempt] \in {"plain", "stream"}
         \/ b.amount = Guess /\ fate[b.attempt] = "unreported" /\ ~b.verified
    /\ b.event # "usage_known" => b.amount = 0

\* Wherever a copy of a body is.
BodiesOK ==
    /\ \A b \in pending \cup aside \cup flush.todo \cup flush.sent : Just(b)
    /\ \A p \in posting : Just(p.body)

\* FinOps has what it acknowledged.
Acked(b) ==
    /\ Resolved(b.attempt)
    /\ b.event = "usage_known" => ledger[b.attempt] = "settled"

AnswersOK ==
    /\ \A p \in posting : p.answer = "applied" => Acked(p.body)
    /\ flush.answer = "applied" => \A b \in flush.sent : Acked(b)

\* Only an attempt that is over has a fate, and one that has hooks to come has
\* one.  One that is about to start has its reservation and its open file.
StagesOK ==
    \A a \in Attempts :
        /\ fate[a] # "none" => at[a] = "over"
        /\ due[a] # {} => fate[a] # "none"
        /\ at[a] = "new" => ledger[a] = "none"
        /\ at[a] = "start" => a \in open /\ ledger[a] = "reserved"

\* The amounts of SettledAtReport.
AmountsOK ==
    \A a \in Attempts : ledger[a] = "settled" =>
        \/ settled[a] = 0 /\ fate[a] \in {"rejected", "cache hit"}
        \/ settled[a] = Cost /\ fate[a] \in {"plain", "stream"}
        \/ settled[a] = Guess /\ fate[a] = "unreported"

\* Before a crash, FinOps knows how an attempt ended, a file tells it, or a
\* hook is still to come.
ToldOK ==
    \A a \in Attempts : at[a] = "over" /\ crashes = 0 =>
        \/ Resolved(a)
        \/ \E b \in pending \cup aside : b.attempt = a
        \/ due[a] # {}

IInv ==
    /\ TypeOK
    /\ BodiesOK
    /\ AnswersOK
    /\ StagesOK
    /\ AmountsOK
    /\ ToldOK
    /\ NeverOnlyInMemory
    /\ TraceKept

-----------------------------------------------------------------------------
(* Bodies, notes and FinOps. *)

LEMMA BodyOK ==
    ASSUME TypeOK, StagesOK, NEW a \in Attempts, NEW h \in due[a]
    PROVE  Body(a) \in Bodies /\ Body(a).attempt = a /\ Just(Body(a))
BY GatewayAssumption DEF TypeOK, StagesOK, Body, FailureBody, Usage, UnknownOutcome, Just, Bodies, Events

\* What an answer leaves of FinOps' records.
Kept(a) ==
    /\ Resolved(a) => Resolved(a)'
    /\ ledger[a] = "settled" => ledger'[a] = "settled" /\ settled'[a] = settled[a]
    /\ ledger[a] \notin {"none", "reserved"} => ledger'[a] \notin {"none", "reserved"}

LEMMA Answering ==
    ASSUME TypeOK, AmountsOK, NEW b \in Bodies, Just(b), NEW r \in Answers, Answered(b, r)
    PROVE  /\ ledger' \in [Attempts -> {"none", "reserved", "in_flight", "settled",
                                        "pending_reconciliation"}]
           /\ settled' \in [Attempts -> {0, Cost, Guess}]
           /\ \A a \in Attempts : Kept(a)
           /\ \A a \in Attempts : a # b.attempt => ledger'[a] = ledger[a]
           /\ UNCHANGED fate => AmountsOK'
           /\ r = "applied" => Acked(b)'
<1>1. CASE Apply(b)
    <2>1. b.attempt \in Attempts /\ b.amount \in {0, Cost, Guess}
        BY DEF Bodies
    <2> QED
        BY <1>1, <2>1 DEF Apply, TypeOK, AmountsOK, Just, Kept, Resolved, Acked
<1>2. CASE UNCHANGED finops /\ r # "applied"
    BY <1>2 DEF finops, TypeOK, AmountsOK, Kept, Resolved
<1> QED
    BY <1>1, <1>2 DEF Answered

LEMMA Forgetting ==
    ASSUME TypeOK, NEW a, Forget(a)
    PROVE  evidence' \in Seq([attempt : Attempts, reported : BOOLEAN]) /\ Len(evidence') <= MaxEvidence
<1> DEFINE N == [attempt : Attempts, reported : BOOLEAN]
           before(i) == SubSeq(evidence, 1, i - 1)
           after(i) == SubSeq(evidence, i + 1, Len(evidence))
<1>1. evidence \in Seq(N) /\ Len(evidence) <= MaxEvidence /\ MaxEvidence \in Nat
    BY GatewayAssumption DEF TypeOK
<1> HIDE DEF N
<1>2. ASSUME NEW i \in DOMAIN evidence
      PROVE  /\ before(i) \in Seq(N) /\ Len(before(i)) = i - 1
             /\ after(i) \in Seq(N) /\ Len(after(i)) = Len(evidence) - i
    BY <1>1
<1>3. ASSUME NEW i \in DOMAIN evidence
      PROVE  before(i) \o after(i) \in Seq(N) /\ Len(before(i) \o after(i)) <= MaxEvidence
    <2> HIDE DEF before, after
    <2> QED
        BY <1>1, <1>2
<1>4. CASE \E i \in DOMAIN evidence : evidence' = RemoveAt(evidence, i)
    BY <1>3, <1>4 DEF RemoveAt, N
<1> QED
    BY <1>1, <1>4 DEF Forget, N

LEMMA Noting ==
    ASSUME TypeOK, NEW a \in Attempts, NEW f, Note(a, f)
    PROVE  evidence' \in Seq([attempt : Attempts, reported : BOOLEAN]) /\ Len(evidence') <= MaxEvidence
<1> DEFINE N == [attempt : Attempts, reported : BOOLEAN]
           old == IF Len(evidence) >= MaxEvidence THEN Tail(evidence) ELSE evidence
<1>1. evidence \in Seq(N) /\ Len(evidence) <= MaxEvidence /\ MaxEvidence \in Nat \ {0}
    BY GatewayAssumption DEF TypeOK
<1>2. old \in Seq(N) /\ Len(old) < MaxEvidence
    BY <1>1
<1>3. [attempt |-> a, reported |-> f = "stream"] \in N
    OBVIOUS
<1> HIDE DEF N, old
<1>4. old \o <<[attempt |-> a, reported |-> f = "stream"]>> \in Seq(N)
      /\ Len(old \o <<[attempt |-> a, reported |-> f = "stream"]>>) <= MaxEvidence
    BY <1>1, <1>2, <1>3
<1> QED
    BY <1>1, <1>4 DEF Note, N, old

-----------------------------------------------------------------------------
(* Types. *)

LEMMA TypeStep == TypeOK /\ StagesOK /\ BodiesOK /\ AmountsOK /\ [Next]_vars => TypeOK'
<1> SUFFICES ASSUME TypeOK, StagesOK, BodiesOK, AmountsOK, [Next]_vars
             PROVE  TypeOK'
    OBVIOUS
<1> USE GatewayAssumption DEF files, finops, Go
<1>1. ASSUME NEW a \in Attempts, Reserve(a) PROVE TypeOK'
    BY <1>1 DEF TypeOK, Reserve, PutOpen
<1>2. ASSUME NEW a \in Attempts, Deny(a) PROVE TypeOK'
    BY <1>2 DEF TypeOK, Deny
<1>3. ASSUME NEW a \in Attempts, MarkStart(a) PROVE TypeOK'
    BY <1>3 DEF TypeOK, MarkStart
<1>4. ASSUME NEW a \in Attempts, MarkStartFailed(a) PROVE TypeOK'
    BY <1>4 DEF TypeOK, MarkStartFailed
<1>5. ASSUME NEW a \in Attempts, ProviderEnds(a) PROVE TypeOK'
    <2>1. PICK f \in Fates : /\ fate' = [fate EXCEPT ![a] = f]
                             /\ due' = [due EXCEPT ![a] = HooksOf(f)]
                             /\ Note(a, f)
        BY <1>5 DEF ProviderEnds
    <2>2. HooksOf(f) \subseteq Hooks
        BY DEF HooksOf, Hooks
    <2>3. evidence' \in Seq([attempt : Attempts, reported : BOOLEAN]) /\ Len(evidence') <= MaxEvidence
        BY <2>1, Noting
    <2> QED
        BY <1>5, <2>1, <2>2, <2>3 DEF TypeOK, ProviderEnds
<1>6. ASSUME NEW a \in Attempts, NEW h \in Hooks, Send(a, h) PROVE TypeOK'
    <2>1. Body(a) \in Bodies
        BY <1>6, BodyOK DEF Send
    <2>2. [hook |-> h, body |-> Body(a), answer |-> "none"]
            \in [hook : Hooks, body : Bodies, answer : Answers]
        BY <2>1 DEF Answers
    <2> QED
        BY <1>6, <2>1, <2>2 DEF TypeOK, Send, PutOpen, Enqueue
<1>7. ASSUME NEW a \in Attempts, NEW h \in Hooks, FindNothing(a, h) PROVE TypeOK'
    <2>1. evidence' \in Seq([attempt : Attempts, reported : BOOLEAN]) /\ Len(evidence') <= MaxEvidence
        BY <1>7, Forgetting DEF FindNothing, TypeOK
    <2> QED
        BY <1>7, <2>1 DEF TypeOK, FindNothing
<1>8. ASSUME NEW p \in posting, Answer(p) PROVE TypeOK'
    <2>1. p.body \in Bodies /\ Just(p.body)
        BY DEF TypeOK, BodiesOK
    <2>2. PICK r \in {"applied", "failed"} :
             /\ Answered(p.body, r)
             /\ posting' = (posting \ {p}) \cup {[p EXCEPT !.answer = r]}
        BY <1>8 DEF Answer
    <2>3. /\ ledger' \in [Attempts -> {"none", "reserved", "in_flight", "settled",
                                       "pending_reconciliation"}]
          /\ settled' \in [Attempts -> {0, Cost, Guess}]
        BY <2>1, <2>2, Answering DEF Answers
    <2>4. posting' \subseteq [hook : Hooks, body : Bodies, answer : Answers]
        BY <2>2 DEF TypeOK, Answers
    <2> QED
        BY <1>8, <2>3, <2>4 DEF TypeOK, Answer
<1>9. ASSUME NEW p \in posting, Deliver(p) PROVE TypeOK'
    <2>1. evidence' \in Seq([attempt : Attempts, reported : BOOLEAN]) /\ Len(evidence') <= MaxEvidence
        BY <1>9, Forgetting DEF Deliver
    <2>2. p.body \in Bodies /\ p.body.attempt \in Attempts
        BY DEF TypeOK, Bodies
    <2> QED
        BY <1>9, <2>1, <2>2 DEF TypeOK, Deliver, PutOpen, DropOpen, Enqueue
<1>10. CASE FlushStarts
    BY <1>10 DEF TypeOK, FlushStarts, Listed, Answers
<1>11. ASSUME NEW b \in Bodies, FlushSends(b) PROVE TypeOK'
    <2>1. Just(b)
        BY <1>11 DEF FlushSends, BodiesOK
    <2>2. PICK r \in Answers \ {"none"} :
             /\ Answered(b, r)
             /\ flush' = [todo |-> flush.todo \ {b}, sent |-> {b}, answer |-> r]
        BY <1>11 DEF FlushSends
    <2>3. /\ ledger' \in [Attempts -> {"none", "reserved", "in_flight", "settled",
                                       "pending_reconciliation"}]
          /\ settled' \in [Attempts -> {0, Cost, Guess}]
        BY <2>1, <2>2, Answering
    <2>4. flush' \in [todo : SUBSET Bodies, sent : SUBSET Bodies, answer : Answers]
        BY <2>2 DEF TypeOK
    <2> QED
        BY <1>11, <2>3, <2>4 DEF TypeOK, FlushSends
<1>12. ASSUME NEW b \in Bodies, FlushHandles(b) PROVE TypeOK'
    <2>1. flush' \in [todo : SUBSET Bodies, sent : SUBSET Bodies, answer : Answers]
        <3>1. flush' = Listed({}) \/ flush' = Listed(flush.todo)
            BY <1>12 DEF FlushHandles, NoFlush
        <3> QED
            BY <3>1 DEF TypeOK, Listed, Answers
    <2>2. b.attempt \in Attempts
        BY DEF Bodies
    <2>3. /\ open' \subseteq Attempts /\ cached' \subseteq Attempts
          /\ pending' \subseteq Bodies /\ aside' \subseteq Bodies
        BY <1>12, <2>2 DEF TypeOK, FlushHandles, DropOpen, Quarantine
    <2> QED
        BY <1>12, <2>1, <2>3 DEF TypeOK, FlushHandles
<1>13. ASSUME NEW b \in Bodies, FlushExpires(b) PROVE TypeOK'
    BY <1>13 DEF TypeOK, FlushExpires, Quarantine, Listed, Answers
<1>14. CASE Crash
    BY <1>14 DEF TypeOK, Crash, NoFlush, Listed, Answers
<1>15. CASE UNCHANGED vars
    BY <1>15 DEF TypeOK, vars
<1> QED
    BY <1>1, <1>2, <1>3, <1>4, <1>5, <1>6, <1>7, <1>8, <1>9, <1>10, <1>11, <1>12,
       <1>13, <1>14, <1>15 DEF Next, Attempt, Flushing

-----------------------------------------------------------------------------
(* FinOps and the ends of attempts. *)

\* An attempt that is over stays as it ended, and what FinOps has of it stays.
Lasts(a) == at[a] = "over" => at'[a] = "over" /\ fate'[a] = fate[a] /\ Kept(a)

\* A step that sends a body to FinOps, or does not touch its records.
Sending == \E b \in Bodies, r \in Answers : Just(b) /\ Answered(b, r)

LEMMA LastStep ==
    ASSUME TypeOK, BodiesOK, AmountsOK, [Next]_vars
    PROVE  \A a \in Attempts : Lasts(a)
<1> USE DEF Lasts, Kept, Resolved
<1>1. ASSUME NEW a \in Attempts,
             Reserve(a) \/ Deny(a) \/ MarkStart(a) \/ MarkStartFailed(a) \/ ProviderEnds(a)
      PROVE  \A c \in Attempts : Lasts(c)
    BY <1>1 DEF TypeOK, Reserve, Deny, MarkStart, MarkStartFailed, ProviderEnds, Go, finops
<1>2. CASE UNCHANGED <<at, fate, finops>>
    BY <1>2 DEF finops
<1>3. ASSUME NEW b \in Bodies, NEW r \in Answers, Just(b), Answered(b, r), UNCHANGED <<at, fate>>
      PROVE  \A c \in Attempts : Lasts(c)
    <2>1. \A a \in Attempts : Kept(a)
        BY <1>3, Answering
    <2> QED
        BY <1>3, <2>1
<1>4. CASE Crash
    BY <1>4 DEF Crash, TypeOK, finops
<1>5. ASSUME NEW p \in posting, Answer(p) PROVE \A c \in Attempts : Lasts(c)
    <2>1. p.body \in Bodies /\ Just(p.body)
        BY DEF TypeOK, BodiesOK
    <2>2. \E r \in Answers : Answered(p.body, r)
        BY <1>5 DEF Answer, Answers
    <2>3. UNCHANGED <<at, fate>>
        BY <1>5 DEF Answer
    <2> QED
        BY <1>3, <2>1, <2>2, <2>3
<1>6. ASSUME NEW b \in Bodies, FlushSends(b) PROVE \A c \in Attempts : Lasts(c)
    <2>1. Just(b) /\ UNCHANGED <<at, fate>> /\ \E r \in Answers : Answered(b, r)
        BY <1>6 DEF FlushSends, BodiesOK
    <2> QED
        BY <1>3, <2>1
<1>7. ASSUME NEW a \in Attempts, NEW h \in Hooks, Send(a, h) \/ FindNothing(a, h)
      PROVE  UNCHANGED <<at, fate, finops>>
    BY <1>7 DEF Send, FindNothing
<1>8. ASSUME NEW p \in posting, Deliver(p) PROVE UNCHANGED <<at, fate, finops>>
    BY <1>8 DEF Deliver
<1>9. ASSUME NEW b \in Bodies, FlushStarts \/ FlushHandles(b) \/ FlushExpires(b)
      PROVE  UNCHANGED <<at, fate, finops>>
    BY <1>9 DEF FlushStarts, FlushHandles, FlushExpires
<1>10. UNCHANGED vars => UNCHANGED <<at, fate, finops>>
    BY DEF vars
<1>11. FlushStarts => UNCHANGED <<at, fate, finops>>
    BY DEF FlushStarts
<1> QED
    BY <1>1, <1>2, <1>4, <1>5, <1>6, <1>7, <1>8, <1>9, <1>10, <1>11 DEF Next, Attempt, Flushing

\* So what a body or an acknowledgement says stays true.
LEMMA Lasting ==
    ASSUME TypeOK, BodiesOK, AmountsOK, [Next]_vars, NEW b \in Bodies, Just(b)
    PROVE  Just(b)' /\ (Acked(b) => Acked(b)') /\ (Resolved(b.attempt) => Resolved(b.attempt)')
<1>1. b.attempt \in Attempts /\ at[b.attempt] = "over"
    BY DEF Bodies, Just
<1>2. Lasts(b.attempt)
    BY <1>1, LastStep
<1> QED
    BY <1>1, <1>2 DEF Just, Acked, Lasts, Kept

-----------------------------------------------------------------------------
(* Bodies and their acknowledgements. *)

LEMMA BodiesStep == IInv /\ [Next]_vars => BodiesOK' /\ AnswersOK' /\ NeverOnlyInMemory'
<1> SUFFICES ASSUME IInv, [Next]_vars
             PROVE  BodiesOK' /\ AnswersOK' /\ NeverOnlyInMemory'
    OBVIOUS
<1> TypeOK /\ BodiesOK /\ AnswersOK /\ StagesOK /\ AmountsOK /\ NeverOnlyInMemory
    BY DEF IInv
<1> DEFINE Filed == pending \cup aside \cup flush.todo \cup flush.sent
<1>1. Filed \subseteq Bodies /\ \A p \in posting : p.body \in Bodies
    BY DEF TypeOK
<1>2. \A b \in Bodies : Just(b) =>
         Just(b)' /\ (Acked(b) => Acked(b)') /\ (Resolved(b.attempt) => Resolved(b.attempt)')
    BY Lasting
<1>3. \A b \in Filed : Just(b)' /\ (Acked(b) => Acked(b)')
    BY <1>1, <1>2 DEF BodiesOK
<1>4. \A p \in posting : /\ Just(p.body)' /\ (Acked(p.body) => Acked(p.body)')
                         /\ Resolved(p.body.attempt) => Resolved(p.body.attempt)'
    BY <1>1, <1>2 DEF BodiesOK
<1> HIDE DEF Filed
\* No body, no answer and no file is new or gone.
<1>5. ASSUME UNCHANGED <<pending, aside>>, posting' \subseteq posting,
             \/ UNCHANGED flush
             \/ flush' \in {NoFlush, Listed(pending)}
      PROVE  BodiesOK' /\ AnswersOK' /\ NeverOnlyInMemory'
    <2>1. \A b \in pending' \cup aside' \cup flush'.todo \cup flush'.sent : b \in Filed
        BY <1>5 DEF Filed, NoFlush, Listed
    <2>2. flush'.answer = "applied" => flush' = flush
        BY <1>5 DEF NoFlush, Listed
    <2> QED
        BY <1>3, <1>4, <1>5, <2>1, <2>2 DEF BodiesOK, AnswersOK, NeverOnlyInMemory, Filed
<1>6. ASSUME NEW a \in Attempts, NEW h \in Hooks, Send(a, h)
      PROVE  BodiesOK' /\ AnswersOK' /\ NeverOnlyInMemory'
    <2>1. PICK b \in Bodies : b = Body(a) /\ Just(b)
        BY <1>6, BodyOK DEF Send
    <2>2. Just(b)'
        BY <1>2, <2>1
    <2>3. /\ posting' = posting \cup {[hook |-> h, body |-> b, answer |-> "none"]}
          /\ pending' = pending \cup {b}
          /\ UNCHANGED <<aside, flush>>
        BY <1>6, <2>1 DEF Send, Enqueue
    <2> QED
        BY <1>3, <1>4, <2>2, <2>3 DEF BodiesOK, AnswersOK, NeverOnlyInMemory, Filed
<1>7. ASSUME NEW p \in posting, Answer(p) PROVE BodiesOK' /\ AnswersOK' /\ NeverOnlyInMemory'
    <2>1. PICK r \in {"applied", "failed"} :
             /\ Answered(p.body, r)
             /\ posting' = (posting \ {p}) \cup {[p EXCEPT !.answer = r]}
        BY <1>7 DEF Answer
    <2>2. p \in [hook : Hooks, body : Bodies, answer : Answers] /\ Just(p.body)
        BY DEF TypeOK, BodiesOK
    <2>3. r = "applied" => Acked(p.body)'
        BY <2>1, <2>2, Answering DEF Answers
    <2>4. UNCHANGED <<files, flush>>
        BY <1>7 DEF Answer
    <2>5. [p EXCEPT !.answer = r].body = p.body /\ [p EXCEPT !.answer = r].answer = r
        BY <2>2
    <2> QED
        BY <1>3, <1>4, <2>1, <2>3, <2>4, <2>5
           DEF files, BodiesOK, AnswersOK, NeverOnlyInMemory, Filed
<1>8. ASSUME NEW p \in posting, Deliver(p) PROVE BodiesOK' /\ AnswersOK' /\ NeverOnlyInMemory'
    <2>1. /\ posting' = posting \ {p}
          /\ pending' = IF p.answer = "applied" THEN pending \ {p.body} ELSE pending \cup {p.body}
          /\ UNCHANGED <<aside, flush>>
        BY <1>8 DEF Deliver, Enqueue
    <2>2. p.answer = "applied" => Resolved(p.body.attempt)
        BY DEF AnswersOK, Acked
    <2> QED
        BY <1>3, <1>4, <2>1, <2>2 DEF BodiesOK, AnswersOK, NeverOnlyInMemory, Filed
<1>9. ASSUME NEW b \in Bodies, FlushSends(b) PROVE BodiesOK' /\ AnswersOK' /\ NeverOnlyInMemory'
    <2>1. PICK r \in Answers \ {"none"} :
             /\ Answered(b, r)
             /\ flush' = [todo |-> flush.todo \ {b}, sent |-> {b}, answer |-> r]
        BY <1>9 DEF FlushSends
    <2>2. b \in flush.todo /\ Just(b) /\ UNCHANGED <<files, posting>>
        BY <1>9 DEF FlushSends, BodiesOK
    <2>3. r = "applied" => Acked(b)'
        BY <2>1, <2>2, Answering
    <2> QED
        BY <1>3, <1>4, <2>1, <2>2, <2>3
           DEF files, BodiesOK, AnswersOK, NeverOnlyInMemory, Filed
<1>10. ASSUME NEW b \in Bodies, FlushHandles(b) PROVE BodiesOK' /\ AnswersOK' /\ NeverOnlyInMemory'
    <2>1. /\ flush' = Listed({}) \/ flush' = Listed(flush.todo)
          /\ UNCHANGED posting
          /\ flush.sent = {b}
        BY <1>10 DEF FlushHandles, NoFlush
    <2>2. flush'.todo \subseteq flush.todo /\ flush'.sent = {} /\ flush'.answer = "none"
        BY <2>1 DEF Listed
    <2>3. \/ flush.answer = "applied" /\ pending' = pending \ {b} /\ aside' = aside
          \/ pending' = pending \ {b} /\ aside' = aside \cup (pending \cap {b})
          \/ UNCHANGED <<pending, aside>>
        BY <1>10 DEF FlushHandles, Quarantine, files
    <2>4. flush.answer = "applied" => Resolved(b.attempt)
        BY <2>1 DEF AnswersOK, Acked
    <2>5. pending' \cup aside' \subseteq pending \cup aside
        BY <2>3
    <2>6. BodiesOK' /\ AnswersOK'
        BY <1>3, <1>4, <2>1, <2>2, <2>5 DEF BodiesOK, AnswersOK, Filed
    <2>7. NeverOnlyInMemory'
        BY <1>4, <2>1, <2>3, <2>4 DEF NeverOnlyInMemory
    <2> QED
        BY <2>6, <2>7
<1>11. ASSUME NEW b \in Bodies, FlushExpires(b) PROVE BodiesOK' /\ AnswersOK' /\ NeverOnlyInMemory'
    <2>1. /\ pending' \cup aside' = pending \cup aside
          /\ flush' = Listed(flush.todo \ {b})
          /\ UNCHANGED posting
          /\ flush.sent = {}
        BY <1>11 DEF FlushExpires, Quarantine
    <2>2. flush'.todo \subseteq flush.todo /\ flush'.sent = {} /\ flush'.answer = "none"
        BY <2>1 DEF Listed
    <2> QED
        BY <1>3, <1>4, <2>1, <2>2 DEF BodiesOK, AnswersOK, NeverOnlyInMemory, Filed
<1>12. ASSUME NEW a \in Attempts,
              \/ Reserve(a) \/ Deny(a) \/ MarkStart(a) \/ MarkStartFailed(a) \/ ProviderEnds(a)
              \/ \E h \in Hooks : FindNothing(a, h)
       PROVE  BodiesOK' /\ AnswersOK' /\ NeverOnlyInMemory'
    <2>1. UNCHANGED <<pending, aside, posting, flush>>
        BY <1>12 DEF Reserve, Deny, MarkStart, MarkStartFailed, ProviderEnds, FindNothing, files
    <2> QED
        BY <1>5, <2>1
<1>13. CASE FlushStarts
    <2>1. /\ flush' = Listed(pending)
          /\ UNCHANGED <<pending, aside, posting>>
        BY <1>13 DEF FlushStarts, files
    <2> QED
        BY <1>5, <2>1
<1>14. CASE Crash
    <2>1. UNCHANGED <<pending, aside>> /\ posting' = {} /\ flush' = NoFlush
        BY <1>14 DEF Crash, files
    <2> QED
        BY <1>5, <2>1
<1>15. CASE UNCHANGED vars
    BY <1>5, <1>15 DEF vars, files
<1> QED
    BY <1>6, <1>7, <1>8, <1>9, <1>10, <1>11, <1>12, <1>13, <1>14, <1>15 DEF Next, Attempt, Flushing

-----------------------------------------------------------------------------
(* Attempts. *)

LEMMA StagesStep == IInv /\ TypeOK' /\ [Next]_vars => StagesOK' /\ TraceKept'
<1> SUFFICES ASSUME IInv, TypeOK', [Next]_vars
             PROVE  StagesOK' /\ TraceKept'
    OBVIOUS
<1> TypeOK /\ BodiesOK /\ AnswersOK /\ StagesOK /\ AmountsOK /\ TraceKept
    BY DEF IInv
<1> USE DEF StagesOK, TraceKept, Dispatched, Resolved, finops, Go
<1>1. ASSUME NEW a \in Attempts,
             Reserve(a) \/ Deny(a) \/ MarkStart(a) \/ MarkStartFailed(a) \/ ProviderEnds(a)
      PROVE  StagesOK' /\ TraceKept'
    <2>1. CASE Reserve(a)
        BY <2>1 DEF TypeOK, Reserve, PutOpen
    <2>2. CASE Deny(a)
        BY <2>2 DEF TypeOK, Deny, files
    <2>3. CASE MarkStart(a)
        BY <2>3 DEF TypeOK, MarkStart, files
    <2>4. CASE MarkStartFailed(a)
        BY <2>4 DEF TypeOK, MarkStartFailed, files
    <2>5. CASE ProviderEnds(a)
        BY <2>5 DEF TypeOK, ProviderEnds, files
    <2> QED
        BY <1>1, <2>1, <2>2, <2>3, <2>4, <2>5
<1>2. ASSUME NEW a \in Attempts, NEW h \in Hooks, Send(a, h) \/ FindNothing(a, h)
      PROVE  StagesOK' /\ TraceKept'
    BY <1>2 DEF TypeOK, Send, FindNothing, PutOpen, files
\* Only an attempt that FinOps has settled loses its open file.
<1>3. ASSUME UNCHANGED <<at, fate, due, ledger>>,
             \A a \in open \ open' : ledger[a] = "settled" /\ at[a] = "over"
      PROVE  StagesOK' /\ TraceKept'
    BY <1>3
<1>4. ASSUME NEW p \in posting, Deliver(p) PROVE StagesOK' /\ TraceKept'
    <2>1. p.answer = "applied" /\ p.body.event = "usage_known" => ledger[p.body.attempt] = "settled"
        BY DEF AnswersOK, Acked
    <2>2. at[p.body.attempt] = "over"
        BY DEF BodiesOK, Just
    <2> QED
        BY <1>3, <1>4, <2>1, <2>2 DEF Deliver, DropOpen, PutOpen
<1>5. ASSUME NEW b \in Bodies, FlushHandles(b) PROVE StagesOK' /\ TraceKept'
    <2>1. flush.answer = "applied" /\ b.event = "usage_known" => ledger[b.attempt] = "settled"
        BY <1>5 DEF FlushHandles, AnswersOK, Acked
    <2>2. at[b.attempt] = "over"
        BY <1>5 DEF FlushHandles, BodiesOK, Just
    <2> QED
        BY <1>3, <1>5, <2>1, <2>2 DEF FlushHandles, DropOpen, files
<1>6. CASE FlushStarts \/ \E b \in Bodies : FlushExpires(b)
    BY <1>3, <1>6 DEF FlushStarts, FlushExpires, files
\* FinOps learns about an attempt that is over.
<1>7. ASSUME NEW b \in Bodies, NEW r \in Answers, Just(b), Answered(b, r),
             UNCHANGED <<at, fate, due, open>>
      PROVE  StagesOK' /\ TraceKept'
    <2>1. \A a \in Attempts : Kept(a) /\ (a # b.attempt => ledger'[a] = ledger[a])
        BY <1>7, Answering
    <2>2. at[b.attempt] = "over"
        BY <1>7 DEF Just
    <2>3. StagesOK'
        BY <1>7, <2>1, <2>2
    <2>4. TraceKept'
        BY <1>7, <2>1 DEF Kept
    <2> QED
        BY <2>3, <2>4
<1>8. ASSUME NEW p \in posting, Answer(p) PROVE StagesOK' /\ TraceKept'
    <2>1. p.body \in Bodies /\ Just(p.body)
        BY DEF TypeOK, BodiesOK
    <2>2. (\E r \in Answers : Answered(p.body, r)) /\ UNCHANGED <<at, fate, due, open>>
        BY <1>8 DEF Answer, Answers, files
    <2> QED
        BY <1>7, <2>1, <2>2
<1>9. ASSUME NEW b \in Bodies, FlushSends(b) PROVE StagesOK' /\ TraceKept'
    <2>1. /\ Just(b) /\ UNCHANGED <<at, fate, due, open>>
          /\ \E r \in Answers : Answered(b, r)
        BY <1>9 DEF FlushSends, BodiesOK, files
    <2> QED
        BY <1>7, <2>1
<1>10. CASE Crash
    BY <1>10 DEF TypeOK, Crash, files
<1>11. CASE UNCHANGED vars
    BY <1>3, <1>11 DEF vars, files
<1> QED
    BY <1>1, <1>2, <1>4, <1>5, <1>6, <1>8, <1>9, <1>10, <1>11 DEF Next, Attempt, Flushing

LEMMA AmountsStep == IInv /\ [Next]_vars => AmountsOK'
<1> SUFFICES ASSUME IInv, [Next]_vars
             PROVE  AmountsOK'
    OBVIOUS
<1> TypeOK /\ BodiesOK /\ StagesOK /\ AmountsOK
    BY DEF IInv
<1>1. ASSUME NEW a \in Attempts,
             Reserve(a) \/ Deny(a) \/ MarkStart(a) \/ MarkStartFailed(a)
      PROVE  AmountsOK'
    BY <1>1 DEF TypeOK, AmountsOK, Reserve, Deny, MarkStart, MarkStartFailed
<1>2. ASSUME NEW a \in Attempts, ProviderEnds(a) PROVE AmountsOK'
    <2>1. fate[a] = "none"
        BY <1>2 DEF ProviderEnds, StagesOK
    <2> QED
        BY <1>2, <2>1 DEF TypeOK, AmountsOK, ProviderEnds, finops
<1>3. UNCHANGED <<fate, finops>> => AmountsOK'
    BY DEF AmountsOK, finops
<1>4. ASSUME NEW p \in posting, Answer(p) PROVE AmountsOK'
    <2>1. p.body \in Bodies /\ Just(p.body)
        BY DEF TypeOK, BodiesOK
    <2>2. UNCHANGED fate /\ \E r \in Answers : Answered(p.body, r)
        BY <1>4 DEF Answer, Answers
    <2> QED
        BY <2>1, <2>2, Answering
<1>5. ASSUME NEW b \in Bodies, FlushSends(b) PROVE AmountsOK'
    <2>1. Just(b) /\ UNCHANGED fate /\ \E r \in Answers : Answered(b, r)
        BY <1>5 DEF FlushSends, BodiesOK
    <2> QED
        BY <2>1, Answering
<1>6. ASSUME NEW a \in Attempts, NEW h \in Hooks, Send(a, h) \/ FindNothing(a, h) PROVE AmountsOK'
    BY <1>3, <1>6 DEF Send, FindNothing
<1>7. ASSUME NEW p \in posting, Deliver(p) PROVE AmountsOK'
    BY <1>3, <1>7 DEF Deliver
<1>8. ASSUME NEW b \in Bodies, FlushHandles(b) \/ FlushExpires(b) PROVE AmountsOK'
    BY <1>3, <1>8 DEF FlushHandles, FlushExpires
<1>9. FlushStarts \/ Crash \/ UNCHANGED vars => AmountsOK'
    BY <1>3 DEF FlushStarts, Crash, vars
<1> QED
    BY <1>1, <1>2, <1>4, <1>5, <1>6, <1>7, <1>8, <1>9 DEF Next, Attempt, Flushing

-----------------------------------------------------------------------------
(* What is told of an attempt. *)

Told(a) == Resolved(a) \/ (\E b \in pending \cup aside : b.attempt = a) \/ due[a] # {}

LEMMA ToldStep == IInv /\ TypeOK' /\ [Next]_vars => ToldOK'
<1> SUFFICES ASSUME IInv, TypeOK', [Next]_vars,
                    NEW a \in Attempts, at'[a] = "over", crashes' = 0
             PROVE  Told(a)'
    BY DEF ToldOK, Told
<1> TypeOK /\ BodiesOK /\ AnswersOK /\ StagesOK /\ AmountsOK /\ TraceKept
    BY DEF IInv
<1>1. at[a] = "over" /\ crashes = 0 => Told(a)
    BY DEF IInv, ToldOK, Told
<1>2. at[a] = "over" => Kept(a)
    BY LastStep DEF Lasts
<1>3. ASSUME NEW c \in Attempts,
             Reserve(c) \/ Deny(c) \/ MarkStart(c) \/ MarkStartFailed(c)
      PROVE  Told(a)'
    <2>1. at[a] = "over" /\ a # c
        BY <1>3 DEF TypeOK, Reserve, Deny, MarkStart, MarkStartFailed, Go
    <2> QED
        BY <1>1, <1>2, <1>3, <2>1
           DEF Told, Kept, Reserve, Deny, MarkStart, MarkStartFailed, files
<1>4. ASSUME NEW c \in Attempts, ProviderEnds(c) PROVE Told(a)'
    <2>1. CASE a = c
        <3>1. PICK f \in Fates : due' = [due EXCEPT ![c] = HooksOf(f)]
            BY <1>4 DEF ProviderEnds
        <3>2. "event" \in HooksOf(f)
            BY DEF HooksOf, Hooks
        <3>3. due'[a] = HooksOf(f)
            BY <2>1, <3>1 DEF TypeOK
        <3> QED
            BY <3>2, <3>3 DEF Told
    <2>2. CASE a # c
        BY <1>1, <1>4, <2>2 DEF ProviderEnds, TypeOK, Told, Resolved, files, finops, Go
    <2> QED
        BY <2>1, <2>2
<1>5. ASSUME NEW c \in Attempts, NEW h \in Hooks, Send(c, h) PROVE Told(a)'
    <2>1. PICK b \in Bodies : b = Body(c) /\ b.attempt = c
        BY <1>5, BodyOK DEF Send
    <2>2. /\ pending' = pending \cup {b}
          /\ due' = [due EXCEPT ![c] = @ \ {h}]
          /\ UNCHANGED <<at, aside, finops, crashes>>
        BY <1>5, <2>1 DEF Send, Enqueue
    <2>3. CASE a = c
        BY <2>1, <2>2, <2>3 DEF Told
    <2>4. CASE a # c
        BY <1>1, <2>2, <2>4 DEF TypeOK, Told, Resolved, finops
    <2> QED
        BY <2>3, <2>4
\* A hook that finds nothing comes to an attempt whose file is closed.
<1>6. ASSUME NEW c \in Attempts, NEW h \in Hooks, FindNothing(c, h) PROVE Told(a)'
    <2>1. c \notin open
        BY <1>6 DEF FindNothing, Found
    <2>2. at[a] = "over" /\ crashes = 0
        BY <1>6 DEF FindNothing
    <2>3. a = c => Resolved(a)
        BY <2>1, <2>2 DEF TraceKept, Dispatched
    <2> QED
        BY <1>1, <1>6, <2>2, <2>3 DEF FindNothing, TypeOK, Told, Resolved, files, finops
\* A body leaves the files when FinOps has it.
<1>7. ASSUME at[a] = "over" /\ crashes = 0, UNCHANGED due,
             \A b \in pending \cup aside :
                b.attempt = a => b \in pending' \cup aside' \/ Resolved(a)
      PROVE  Told(a)'
    BY <1>1, <1>2, <1>7 DEF Told, Kept
<1>8. ASSUME NEW p \in posting, Answer(p) \/ Deliver(p) PROVE Told(a)'
    <2>1. p.answer = "applied" => Resolved(p.body.attempt)
        BY DEF AnswersOK, Acked
    <2>2. /\ at[a] = "over" /\ crashes = 0 /\ UNCHANGED due
          /\ \A b \in pending \cup aside :
                b \in pending' \cup aside' \/ (b = p.body /\ p.answer = "applied")
        BY <1>8 DEF Answer, Deliver, Enqueue, files
    <2> QED
        BY <1>7, <2>1, <2>2
<1>9. ASSUME NEW b \in Bodies, FlushHandles(b) PROVE Told(a)'
    <2>1. flush.answer = "applied" => Resolved(b.attempt)
        BY <1>9 DEF FlushHandles, AnswersOK, Acked
    <2>2. /\ at[a] = "over" /\ crashes = 0 /\ UNCHANGED due
          /\ \A x \in pending \cup aside :
                x \in pending' \cup aside' \/ (x = b /\ flush.answer = "applied")
        BY <1>9 DEF FlushHandles, Quarantine, files
    <2> QED
        BY <1>7, <2>1, <2>2
<1>10. ASSUME NEW b \in Bodies, FlushSends(b) \/ FlushExpires(b) PROVE Told(a)'
    BY <1>7, <1>10 DEF FlushSends, FlushExpires, Quarantine, files
<1>11. CASE FlushStarts
    BY <1>7, <1>11 DEF FlushStarts, files
<1>12. CASE UNCHANGED vars
    BY <1>7, <1>12 DEF vars, files
<1>13. ~Crash
    BY DEF Crash, TypeOK
<1> QED
    BY <1>3, <1>4, <1>5, <1>6, <1>8, <1>9, <1>10, <1>11, <1>12, <1>13 DEF Next, Attempt, Flushing

-----------------------------------------------------------------------------
(* The theorems. *)

\* The strengthened invariant of the gateway: every copy of a settlement tells
\* how its attempt ended, and every acknowledgement in memory is FinOps' own.
THEOREM InductiveInvariant == Spec => []IInv
<1>1. Init => IInv
    BY GatewayAssumption
       DEF Init, IInv, TypeOK, BodiesOK, AnswersOK, StagesOK, AmountsOK, ToldOK,
           NeverOnlyInMemory, TraceKept, Dispatched, NoFlush, Listed, Fates, Answers
<1>2. IInv /\ [Next]_vars => IInv'
    BY TypeStep, BodiesStep, StagesStep, AmountsStep, ToldStep DEF IInv
<1> QED
    BY <1>1, <1>2, PTL DEF Spec

\* The state keeps its type: in particular the notes about streams never exceed
\* _MAX_STREAM_EVIDENCE.
THEOREM TypeCorrect == Spec => []TypeOK
<1>1. IInv => TypeOK
    BY DEF IInv
<1> QED
    BY <1>1, InductiveInvariant, PTL

\* No outcome is lost to refused or lost answers, the other hook of its attempt
\* or a flush beside it, however many attempts there are.
THEOREM OutcomesKept == Spec => []OutcomeKept
<1>1. IInv => OutcomeKept
    BY DEF IInv, ToldOK, OutcomeKept
<1> QED
    BY <1>1, InductiveInvariant, PTL

\* What a hook is sending is in a file, or FinOps knows how the attempt ended.
THEOREM SendsAreFiled == Spec => []NeverOnlyInMemory
<1>1. IInv => NeverOnlyInMemory
    BY DEF IInv
<1> QED
    BY <1>1, InductiveInvariant, PTL

\* A dispatched attempt was started at FinOps and keeps its open file until
\* FinOps knows how it ended, through any number of crashes.
THEOREM TracesKept == Spec => []TraceKept
<1>1. IInv => TraceKept
    BY DEF IInv
<1> QED
    BY <1>1, InductiveInvariant, PTL

\* FinOps settles what the provider reported, and a count of LiteLLM's own is
\* never sent as the provider's, at any limit of the stream evidence.
THEOREM SettlementsReported == Spec => []SettledAtReport
<1>1. IInv => SettledAtReport
    BY GatewayAssumption DEF IInv, AmountsOK, BodiesOK, Just, SettledAtReport
<1> QED
    BY <1>1, InductiveInvariant, PTL

-----------------------------------------------------------------------------
(* The gateway implements ReservationContract.                             *)

\* Of an attempt a step may add to the traces, and change nothing else.
Still(a) ==
    /\ ledger'[a] = ledger[a] /\ settled'[a] = settled[a] /\ fate'[a] = fate[a]
    /\ Dispatched(a)' <=> Dispatched(a)
    /\ Traced(a) => Traced(a)'

\* What FinOps may do in a step, said of the one attempt.
FinopsMoves(a) ==
    \/ ledger'[a] = ledger[a] /\ settled'[a] = settled[a]
    \/ ledger[a] = "none" /\ ledger'[a] = "reserved"
    \/ ledger[a] = "reserved" /\ ledger'[a] = "in_flight"
    \/ /\ ledger[a] = "in_flight" /\ ledger'[a] = "pending_reconciliation"
       /\ a \in Done
    \/ /\ ledger[a] \in {"in_flight", "pending_reconciliation"}
       /\ ledger'[a] = "settled" /\ settled'[a] = CostOf(a)
       /\ a \in Done /\ CostOf(a) # NoAmount

\* And the attempt.
CallMoves(a) ==
    \/ fate'[a] = fate[a] /\ (Dispatched(a) => Dispatched(a)')
    \/ /\ Dispatched(a) /\ Dispatched(a)'
       /\ fate[a] = "none" /\ fate'[a] # "none"

\* A step that moves one attempt so is one of the contract.
LEMMA Contracted ==
    ASSUME TypeOK, TypeOK', StagesOK', TraceKept', NEW a \in Attempts,
           \A d \in Attempts \ {a} : Still(d),
           FinopsMoves(a), CallMoves(a), Traced(a) => Traced(a)'
    PROVE  Contract!Next
<1> DEFINE amounts == [d \in Attempts |-> AmountOf(d)]
           costs == [d \in Attempts |-> CostOf(d)]
           ran == {d \in Attempts : Dispatched(d)}
           told == {d \in Attempts : Traced(d)}
<1>1. ledger' = [ledger EXCEPT ![a] = ledger'[a]]
    BY DEF TypeOK, Still
<1>2. amounts' = [amounts EXCEPT ![a] = AmountOf(a)']
    BY DEF Still, AmountOf
<1>3. costs' = [costs EXCEPT ![a] = CostOf(a)']
    BY DEF Still, CostOf
<1>4. /\ \A d \in Attempts \ {a} : (d \in Done' <=> d \in Done) /\ (d \in ran' <=> d \in ran)
      /\ Done \subseteq Attempts /\ Done' \subseteq Attempts
      /\ ran \subseteq Attempts /\ ran' \subseteq Attempts
    BY DEF Still, Done
<1>5. a \in ran <=> Dispatched(a)
    OBVIOUS
<1>6. a \in ran' <=> Dispatched(a)'
    OBVIOUS
<1>7. told \subseteq told'
    BY DEF Still
<1>8. Done' \subseteq told'
    BY DEF Done, StagesOK, TraceKept, Dispatched, Traced
<1>9. costs[a] = CostOf(a)
    OBVIOUS
<1>10. CostOf(a)' \in {0, Cost, Guess} \cup {NoAmount}
    BY DEF CostOf
<1> HIDE DEF amounts, costs, ran, told
\* FinOps.
<1>11. ASSUME ledger'[a] = ledger[a], settled'[a] = settled[a]
       PROVE  UNCHANGED <<ledger, amounts>>
    <2>1. AmountOf(a)' = AmountOf(a) /\ ledger' = ledger
        BY <1>1, <1>11 DEF AmountOf, TypeOK
    <2>2. amounts' = amounts
        BY <1>2, <2>1 DEF amounts
    <2> QED
        BY <2>1, <2>2
<1>12. ASSUME ledger'[a] # "settled", ledger[a] # "settled"
       PROVE  UNCHANGED amounts
    <2>1. AmountOf(a)' = AmountOf(a)
        BY <1>12 DEF AmountOf
    <2>2. amounts' = amounts
        BY <1>2, <2>1 DEF amounts
    <2> QED
        BY <2>2
<1>13. ASSUME ledger'[a] = "settled", settled'[a] = CostOf(a)
       PROVE  amounts' = [amounts EXCEPT ![a] = costs[a]]
    BY <1>2, <1>9, <1>13 DEF AmountOf
<1>14. \/ Contract!Reserves(a) \/ Contract!Starts(a) \/ Contract!Doubts(a) \/ Contract!Settles(a)
       \/ Contract!Cancels(a) \/ UNCHANGED <<ledger, amounts>>
    BY <1>1, <1>9, <1>11, <1>12, <1>13
       DEF FinopsMoves, Contract!Reserves, Contract!Starts, Contract!Doubts, Contract!Settles,
           Contract!Becomes, amounts, costs
\* The attempt.
<1>15. ASSUME fate'[a] = fate[a], Dispatched(a) => Dispatched(a)'
       PROVE  Contract!Runs(a) \/ UNCHANGED <<ran, Done, costs>>
    <2>1. costs' = costs
        <3>1. CostOf(a)' = CostOf(a)
            BY <1>15 DEF CostOf
        <3> QED
            BY <1>3, <3>1 DEF costs
    <2>2. Done' = Done
        BY <1>4, <1>15 DEF Done
    <2>3. ran' = ran \/ ran' = ran \cup {a}
        BY <1>4, <1>5, <1>6, <1>15
    <2>4. ledger[a] # "cancelled_before_call"
        BY DEF TypeOK
    <2> QED
        BY <2>1, <2>2, <2>3, <2>4 DEF Contract!Runs, ran, costs
<1>16. ASSUME Dispatched(a), Dispatched(a)', fate[a] = "none", fate'[a] # "none"
       PROVE  Contract!Finishes(a)
    <2>1. a \in ran \ Done /\ a \in Done'
        BY <1>5, <1>16 DEF Done
    <2>2. Done' = Done \cup {a} /\ ran' = ran
        BY <1>4, <1>6, <1>16, <2>1
    <2> QED
        BY <1>3, <1>10, <2>1, <2>2 DEF Contract!Finishes, ran, costs
<1>17. Contract!Runs(a) \/ Contract!Finishes(a) \/ UNCHANGED <<ran, Done, costs>>
    BY <1>15, <1>16 DEF CallMoves
<1>18. Done' \in {Done, Done \cup ({a} \cap Done' \cap told')}
    <2>1. Done' = Done \/ (Done' = Done \cup {a} /\ a \in Done')
        <3>1. CASE a \in Done' <=> a \in Done
            BY <1>4, <3>1
        <3>2. CASE a \in Done' /\ a \notin Done
            BY <1>4, <3>2
        <3>3. a \in Done => a \in Done'
            BY DEF Done, CallMoves
        <3> QED
            BY <3>1, <3>2, <3>3
    <2> QED
        BY <1>8, <2>1
<1> QED
    BY <1>7, <1>14, <1>17, <1>18 DEF Contract!Next, amounts, costs, ran, told

\* A step that none of the contract's variables sees, but for more traces.
LEMMA Unseen ==
    ASSUME TypeOK, UNCHANGED <<fate, finops>>,
           \A a \in Attempts : (Dispatched(a)' <=> Dispatched(a)) /\ (Traced(a) => Traced(a)'),
           TypeOK', StagesOK', TraceKept'
    PROVE  [Contract!Next]_(Contract!vars)
<1>1. CASE Attempts = {}
    <2>1. UNCHANGED Contract!vars
        BY <1>1 DEF TypeOK, Contract!vars, finops, Done
    <2> QED
        BY <2>1
<1>2. ASSUME NEW a \in Attempts PROVE Contract!Next
    <2>1. \A d \in Attempts : Still(d)
        BY DEF Still, finops
    <2>2. FinopsMoves(a) /\ CallMoves(a)
        BY DEF FinopsMoves, CallMoves, finops
    <2> QED
        BY <2>1, <2>2, Contracted
<1> QED
    BY <1>1, <1>2

\* FinOps takes a body for what it says of its attempt.
LEMMA SendingKeepsContract ==
    ASSUME TypeOK, StagesOK, TraceKept, TypeOK', StagesOK', TraceKept',
           NEW b \in Bodies, Just(b), NEW r \in Answers, Answered(b, r), AmountsOK,
           UNCHANGED <<at, fate, open>>
    PROVE  Contract!Next
<1> DEFINE a == b.attempt
<1>1. a \in Attempts /\ at[a] = "over" /\ a \in Done
    BY DEF Bodies, Just, Done
<1>2. \A d \in Attempts : Kept(d) /\ (d # a => ledger'[d] = ledger[d])
    BY Answering
<1>3. \A d \in Attempts : (Dispatched(d)' <=> Dispatched(d)) /\ (Traced(d) => Traced(d)')
    BY <1>2 DEF Dispatched, Traced, Kept
<1>4. \A d \in Attempts \ {a} : settled'[d] = settled[d]
    BY DEF Answered, Apply, finops, TypeOK
<1>5. FinopsMoves(a)
    <2>1. CASE Apply(b)
        <3>1. /\ ledger[a] \in {"in_flight", "settled", "pending_reconciliation"}
              /\ ledger'[a] = IF b.event = "usage_known" THEN "settled"
                              ELSE IF ledger[a] = "settled" THEN ledger[a] ELSE "pending_reconciliation"
              /\ settled'[a] = IF b.event = "usage_known" /\ ledger[a] # "settled" THEN b.amount ELSE settled[a]
            BY <1>1, <2>1 DEF TypeOK, TraceKept, Dispatched, Apply
        <3>2. b.event = "usage_known" => b.amount = CostOf(a) /\ CostOf(a) # NoAmount
            <4>1. b.event = "usage_known" =>
                     \/ b.amount = 0 /\ fate[a] \in {"rejected", "cache hit"}
                     \/ b.amount = Cost /\ fate[a] \in {"plain", "stream"}
                     \/ b.amount = Guess /\ fate[a] = "unreported"
                BY DEF Just
            <4>2. 0 # NoAmount /\ Cost # NoAmount /\ Guess # NoAmount
                BY GatewayAssumption DEF NoAmount
            <4> HIDE DEF a
            <4> QED
                BY <4>1, <4>2 DEF CostOf
        <3> HIDE DEF a
        <3> QED
            BY <1>1, <3>1, <3>2 DEF FinopsMoves
    <2>2. CASE UNCHANGED finops
        BY <2>2 DEF FinopsMoves, finops
    <2> QED
        BY <2>1, <2>2 DEF Answered
<1>6. CallMoves(a)
    BY <1>1, <1>3 DEF CallMoves
<1>7. \A d \in Attempts \ {a} : Still(d)
    BY <1>2, <1>3, <1>4 DEF Still
<1> QED
    BY <1>1, <1>3, <1>5, <1>6, <1>7, Contracted

\* What an attempt does before its hooks is allowed by the contract.
LEMMA AttemptKeepsContract ==
    ASSUME IInv, IInv', NEW a \in Attempts,
           Reserve(a) \/ Deny(a) \/ MarkStart(a) \/ MarkStartFailed(a) \/ ProviderEnds(a)
    PROVE  Contract!Next
<1> TypeOK /\ StagesOK /\ TypeOK' /\ StagesOK' /\ TraceKept'
    BY DEF IInv
<1> USE DEF Go, files, finops, Dispatched, Traced, Resolved
<1>1. \A d \in Attempts \ {a} : Still(d)
    BY DEF TypeOK, Still, Reserve, Deny, MarkStart, MarkStartFailed, ProviderEnds, PutOpen
<1>2. CASE Reserve(a)
    BY <1>1, <1>2, Contracted
       DEF TypeOK, StagesOK, Reserve, PutOpen, FinopsMoves, CallMoves
<1>3. CASE Deny(a)
    BY <1>1, <1>3, Contracted DEF TypeOK, StagesOK, Deny, FinopsMoves, CallMoves
<1>4. CASE MarkStart(a)
    BY <1>1, <1>4, Contracted DEF TypeOK, StagesOK, MarkStart, FinopsMoves, CallMoves
<1>5. CASE MarkStartFailed(a)
    BY <1>1, <1>5, Contracted DEF TypeOK, StagesOK, MarkStartFailed, FinopsMoves, CallMoves
<1>6. CASE ProviderEnds(a)
    <2>1. PICK f \in Fates \ {"none"} : fate' = [fate EXCEPT ![a] = f]
        BY <1>6 DEF ProviderEnds
    <2>2. fate[a] = "none" /\ fate'[a] # "none" /\ Dispatched(a) /\ Dispatched(a)'
        BY <1>6, <2>1 DEF TypeOK, StagesOK, ProviderEnds
    <2>3. FinopsMoves(a) /\ CallMoves(a) /\ (Traced(a) => Traced(a)')
        BY <1>6, <2>2 DEF ProviderEnds, FinopsMoves, CallMoves
    <2> QED
        BY <1>1, <2>3, Contracted
<1> QED
    BY <1>2, <1>3, <1>4, <1>5, <1>6

\* An attempt of the gateway keeps the contract of reservations: whatever the
\* order of its hooks, flushes and crashes, FinOps settles it at the one cost it
\* had, once and for good, and its open file leads to it until then.
THEOREM ContractKept == Spec => ImplementsContract
<1>1. Init => Contract!Init
    BY DEF Init, Contract!Init, Done, Dispatched, Traced, Resolved, AmountOf, CostOf
<1>2. IInv /\ IInv' /\ [Next]_vars => [Contract!Next]_(Contract!vars)
    <2> SUFFICES ASSUME IInv, IInv', [Next]_vars PROVE [Contract!Next]_(Contract!vars)
        OBVIOUS
    <2> /\ TypeOK /\ BodiesOK /\ AnswersOK /\ StagesOK /\ AmountsOK /\ TraceKept
        /\ TypeOK' /\ StagesOK' /\ TraceKept'
        BY DEF IInv
    <2>1. ASSUME NEW a \in Attempts,
                 Reserve(a) \/ Deny(a) \/ MarkStart(a) \/ MarkStartFailed(a) \/ ProviderEnds(a)
          PROVE  Contract!Next
        BY <2>1, AttemptKeepsContract
    \* Only an attempt that FinOps has settled loses its open file.
    <2>2. ASSUME UNCHANGED <<at, fate, finops>>, \A a \in open \ open' : Resolved(a)
          PROVE  [Contract!Next]_(Contract!vars)
        <3>1. \A a \in Attempts :
                 (Dispatched(a)' <=> Dispatched(a)) /\ (Traced(a) => Traced(a)')
            BY <2>2 DEF Dispatched, Traced, Resolved, finops
        <3> QED
            BY <2>2, <3>1, Unseen
    <2>3. ASSUME NEW a \in Attempts, NEW h \in Hooks, Send(a, h) \/ FindNothing(a, h)
          PROVE  [Contract!Next]_(Contract!vars)
        BY <2>2, <2>3 DEF Send, FindNothing, PutOpen, files
    <2>4. ASSUME NEW p \in posting, Answer(p) PROVE Contract!Next
        <3>1. p.body \in Bodies /\ Just(p.body)
            BY DEF TypeOK, BodiesOK
        <3>2. (\E r \in Answers : Answered(p.body, r)) /\ UNCHANGED <<at, fate, open>>
            BY <2>4 DEF Answer, Answers, files
        <3> QED
            BY <3>1, <3>2, SendingKeepsContract
    <2>5. ASSUME NEW p \in posting, Deliver(p) PROVE [Contract!Next]_(Contract!vars)
        <3>1. p.answer = "applied" => Resolved(p.body.attempt)
            BY DEF AnswersOK, Acked
        <3>2. UNCHANGED <<at, fate, finops>> /\ \A a \in open \ open' : Resolved(a)
            BY <2>5, <3>1 DEF Deliver, DropOpen, PutOpen
        <3> QED
            BY <2>2, <3>2
    <2>6. CASE FlushStarts
        BY <2>2, <2>6 DEF FlushStarts, files
    <2>7. ASSUME NEW b \in Bodies, FlushSends(b) PROVE Contract!Next
        <3>1. /\ Just(b) /\ UNCHANGED <<at, fate, open>>
              /\ \E r \in Answers : Answered(b, r)
            BY <2>7 DEF FlushSends, BodiesOK, files
        <3> QED
            BY <3>1, SendingKeepsContract
    <2>8. ASSUME NEW b \in Bodies, FlushHandles(b) PROVE [Contract!Next]_(Contract!vars)
        <3>1. flush.answer = "applied" => Resolved(b.attempt)
            BY <2>8 DEF FlushHandles, AnswersOK, Acked
        <3>2. UNCHANGED <<at, fate, finops>> /\ \A a \in open \ open' : Resolved(a)
            BY <2>8, <3>1 DEF FlushHandles, DropOpen, files
        <3> QED
            BY <2>2, <3>2
    <2>9. ASSUME NEW b \in Bodies, FlushExpires(b) PROVE [Contract!Next]_(Contract!vars)
        BY <2>2, <2>9 DEF FlushExpires
    \* A crash ends the attempts it finds at the provider, without an outcome.
    <2>10. CASE Crash
        <3>1. /\ UNCHANGED <<fate, finops>>
              /\ \A a \in Attempts :
                   (Dispatched(a)' <=> Dispatched(a)) /\ (Traced(a) => Traced(a)')
            BY <2>10 DEF Crash, TypeOK, Dispatched, Traced, Resolved, files, finops
        <3> QED
            BY <3>1, Unseen
    <2>11. CASE UNCHANGED vars
        BY <2>2, <2>11 DEF vars, files
    <2> QED
        BY <2>1, <2>3, <2>4, <2>5, <2>6, <2>7, <2>8, <2>9, <2>10, <2>11
           DEF Next, Attempt, Flushing
<1> QED
    BY <1>1, <1>2, InductiveInvariant, PTL DEF Spec, ImplementsContract, Contract!Spec
=============================================================================
