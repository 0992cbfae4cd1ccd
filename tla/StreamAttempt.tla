--------------------------- MODULE StreamAttempt ---------------------------
(***************************************************************************)
(* One streamed provider call (kazenai/streaming): the attempt, which owns *)
(* a local hold and a FinOps reservation until its only finalization       *)
(* (lifecycle.py), and the proxy the application iterates, closes and      *)
(* leaves (proxy.py, and the helpers of openai.py and anthropic.py).       *)
(* monitor.py and _async_provider.py make the attempt after the hold, the  *)
(* reservation and provider_started (MeteredCall has those) and hand the   *)
(* proxy out.                                                              *)
(*                                                                         *)
(* Actors are the threads or the asyncio tasks that use the same stream.   *)
(* A sync finalization is one step, under the attempt's lock; an async one *)
(* awaits outside the lock, where its task can be cancelled.  The settle   *)
(* journal is the set of the intents written to it.                        *)
(***************************************************************************)
EXTENDS Integers, FiniteSets

CONSTANTS
    Actors,      \* threads or tasks on the stream
    NoCount,     \* a token count the provider has not reported
    Input,       \* the input tokens of the call
    Partial,     \* output tokens, in the provider's first snapshot
    Final,       \* output tokens, in its last one
    Hold,        \* the exposure held for an unexpected service tier
    CanCut,      \* stream_cutoff_usd is set
    MaxCancels   \* bound: cancellations

ASSUME StreamAttemptAssumption ==
    /\ Input \in Nat /\ Partial \in Nat /\ Final \in Nat /\ Hold \in Nat
    /\ NoCount \notin Nat
    /\ CanCut \in BOOLEAN
    /\ MaxCancels \in Nat

VARIABLES
    kind,       \* what the call is; fixed
    phase,      \* "opening", "open", or "refused" when no stream came of it
    upstream,   \* what the provider has said of its counts
    over,       \* its stream has ended, or was closed
    closed,     \* proxy._closed
    entered,    \* proxy._upstream_entered
    ending,     \* how the iteration ended: "exhausted" (proxy._exhausted), "cutoff"
    at,         \* what each actor is doing
    aim,        \* the outcome its finalization reports
    usage,      \* attempt.observed_usage
    outcome,    \* attempt.terminal_outcome
    finalized,  \* attempt._finalized
    busy,       \* attempt._finalize_in_progress
    plan,       \* what the finalization in progress settles
    confidence, \* attempt.cost_confidence; financial_pending unless "exact"
    releases,   \* Enforcement.record_call: how often the hold was released
    spent,      \* and what it counted
    intents,    \* the settle intents journaled
    acked,      \* FinOps acknowledged usage_known
    cancels,    \* cancellations so far
    cut         \* history: one hit a close or a finalization

proxy == <<phase, upstream, over, closed, entered, ending>>
attempt == <<outcome, finalized, busy, plan, confidence>>
money == <<releases, spent, intents, acked>>
bounds == <<cancels, cut>>
vars == <<kind, proxy, at, aim, usage, attempt, money, bounds>>

Outcomes == {"COMPLETE", "CUTOFF", "CLIENT_CANCELLED", "PROVIDER_ERROR", "REJECTED"}
Confidences == {"unknown", "exact", "pending", "pending_reconciliation",
                "exact_usage_pending_settlement"}
Surfaces == {"chat", "responses", "messages"}
Kinds == [async : BOOLEAN, managed : BOOLEAN, reserved : BOOLEAN, surface : Surfaces]
Counts == {NoCount, Input, Partial, Final}
Usages == [input : Counts, output : Counts, authoritative : BOOLEAN]
Unreported == [input |-> NoCount, output |-> NoCount, authoritative |-> FALSE]
NoPlan == [cost |-> 0, confidence |-> "unknown"]
Plans == [cost : {0, Input + Partial, Input + Final, Hold}, confidence : Confidences]

\* Where a task awaits something other than its own finalization.
Waiting == {"opening", "entering", "next", "helper", "closeUp", "exitUp"}
Settling == {"reconcile", "rescue", "mark"}

Intent(event, amount) == [event |-> event, amount |-> amount]
UsageKnown(amount) == Intent("usage_known", amount)
OutcomeUnknown == Intent("outcome_unknown", 0)

TypeOK ==
    /\ kind \in Kinds
    /\ phase \in {"opening", "open", "refused"}
    /\ upstream \in {"fresh", "started", "told"}
    /\ over \in BOOLEAN
    /\ closed \in BOOLEAN /\ entered \in BOOLEAN
    /\ ending \in {"none", "exhausted", "cutoff"}
    /\ at \in [Actors -> {"idle", "finalize"} \cup Waiting \cup Settling]
    /\ aim \in [Actors -> Outcomes \cup {"none"}]
    /\ usage \in Usages
    /\ outcome \in Outcomes \cup {"none"}
    /\ finalized \in BOOLEAN /\ busy \in BOOLEAN
    /\ plan \in Plans
    /\ confidence \in Confidences
    /\ releases \in Nat
    /\ spent \in Nat
    /\ intents \subseteq {OutcomeUnknown} \cup
         {UsageKnown(a) : a \in {0, Input + Partial, Input + Final}}
    /\ acked \in BOOLEAN
    /\ cancels \in 0..MaxCancels
    /\ cut \in BOOLEAN

\* The attempt is made, and the request is on its way: the SDK call that
\* returns a stream, or the entering of a stream manager.
Init ==
    /\ kind \in Kinds
    /\ phase = "opening"
    /\ upstream = "fresh"
    /\ over = FALSE
    /\ closed = FALSE
    /\ entered = FALSE
    /\ ending = "none"
    /\ \E a \in Actors : at = [b \in Actors |-> IF b = a THEN "opening" ELSE "idle"]
    /\ aim = [a \in Actors |-> "none"]
    /\ usage = Unreported
    /\ outcome = "none"
    /\ finalized = FALSE
    /\ busy = FALSE
    /\ plan = NoPlan
    /\ confidence = "unknown"
    /\ releases = 0
    /\ spent = 0
    /\ intents = {}
    /\ acked = FALSE
    /\ cancels = 0
    /\ cut = FALSE

-----------------------------------------------------------------------------
(* Usage. *)

Known(u) == u.input # NoCount /\ u.output # NoCount

Latest(new, old) == IF new = NoCount THEN old ELSE new

\* Mutant: two counts make a final snapshot.
MergedWhenBoth(u, new) ==
    LET m == [input |-> Latest(new.input, u.input), output |-> Latest(new.output, u.output)] IN
    [input |-> m.input, output |-> m.output, authoritative |-> Known(m)]

\* The newest count wins; the merged snapshot is authoritative when both
\* counts are there and either snapshot was the provider's last.
Merged(u, new) ==
    LET m == [input |-> Latest(new.input, u.input), output |-> Latest(new.output, u.output)] IN
    [input |-> m.input, output |-> m.output,
     authoritative |-> Known(m) /\ (u.authoritative \/ new.authoritative)]

\* message_start of Anthropic: an initial output count, not authoritative.
StartSnapshot == [input |-> Input, output |-> Partial, authoritative |-> FALSE]

\* message_delta of Anthropic has the final output count alone.
DeltaSnapshot == [input |-> NoCount, output |-> Final, authoritative |-> TRUE]

\* The usage chunk of chat completions, and the terminal event of Responses.
ChatUsage == [input |-> Input, output |-> Final, authoritative |-> TRUE]
ResponsesUsage == [input |-> Input, output |-> Final, authoritative |-> TRUE]

\* What the final message of a stream helper adds, after the provider said this
\* much; Responses have no such.  The message of Anthropic has the counts of
\* message_start until a message_delta came, and they are taken for final.
HelperUsage(said) ==
    IF ~kind.managed \/ kind.surface = "responses" THEN {}
    ELSE {[input |-> Input, output |-> n, authoritative |-> TRUE] :
            n \in IF said = "told" THEN {Final}
                  ELSE IF said = "started" /\ kind.surface = "messages" THEN {Partial} ELSE {}}

\* Mutant: the input is counted twice.
CostInputTwice(u) == u.input + u.input + u.output

Cost(u) == u.input + u.output

-----------------------------------------------------------------------------
(* Finalization. *)

Go(a, p) == at' = [at EXCEPT ![a] = p]
Return(a) == Go(a, "idle") /\ aim' = [aim EXCEPT ![a] = "none"]
Aim(a, o) == aim' = [aim EXCEPT ![a] = o]
FinalizeAs(a, o) == Go(a, "finalize") /\ Aim(a, o)

Deal(cost, how) == [cost |-> cost, confidence |-> how]

\* What an outcome settles.  Of a completed stream: its usage, nothing when
\* it has no price, what is held when the provider reports an unexpected
\* tier.  An exception or a close never settles anything.
Decisions(o) ==
    IF o = "REJECTED" THEN {Deal(0, "exact")}
    ELSE IF o = "COMPLETE" /\ usage.authoritative
         THEN {Deal(Hold, "pending_reconciliation"), Deal(Cost(usage), "exact"),
               Deal(0, "pending")}
         ELSE {Deal(0, "pending")}

\* Local spend: what was settled or held, acknowledged or not.
Recorded(p) == IF p.confidence = "pending" THEN 0 ELSE p.cost

\* The end of both finalizations: the verdict, record_call, the model.call
\* event; whatever emitting the event raises, the attempt is finalized.
CompleteLocal(a, p) ==
    /\ finalized' = TRUE
    /\ busy' = FALSE
    /\ plan' = NoPlan
    /\ confidence' = p.confidence
    /\ releases' = releases + 1
    /\ spent' = spent + Recorded(p)
    /\ Return(a)

\* Mutant: an answer of False is taken for an acknowledgement.
UnackedExact(p) == p

Unacked(p) == [p EXCEPT !.confidence = "exact_usage_pending_settlement"]

\* Mutant: the flag that makes it once-only is not read.
FinalizeAgain(a) ==
    /\ at[a] = "finalize"
    /\ ~kind.async
    /\ outcome' = aim[a]
    /\ CompleteLocal(a, Deal(0, "pending"))
    /\ intents' = IF kind.reserved THEN intents \cup {OutcomeUnknown} ELSE intents
    /\ UNCHANGED <<kind, proxy, usage, acked, bounds>>

\* Mutant: a stream that is not settled leaves no intent.
FinalizeUnmarked(a) ==
    /\ at[a] = "finalize"
    /\ ~kind.async
    /\ ~finalized
    /\ outcome' = aim[a]
    /\ \E p \in Decisions(aim[a]) : CompleteLocal(a, p)
    /\ UNCHANGED <<kind, proxy, usage, intents, acked, bounds>>

\* finalize: under the lock from the flag to the event.  A settlement FinOps
\* does not acknowledge is followed by pending_fn, which has no amount.
Finalize(a) ==
    /\ at[a] = "finalize"
    /\ ~kind.async
    /\ ~finalized
    /\ outcome' = aim[a]
    /\ \E p \in Decisions(aim[a]) :
        \/ /\ p.confidence = "exact" \/ ~kind.reserved
           /\ CompleteLocal(a, p)
           /\ intents' = IF kind.reserved THEN intents \cup {UsageKnown(p.cost)} ELSE intents
           /\ acked' = kind.reserved
        \/ /\ p.confidence = "exact" /\ kind.reserved
           /\ CompleteLocal(a, Unacked(p))
           /\ intents' = intents \cup {UsageKnown(p.cost), OutcomeUnknown}
           /\ UNCHANGED acked
        \/ /\ p.confidence # "exact" /\ kind.reserved
           /\ CompleteLocal(a, p)
           /\ intents' = intents \cup {OutcomeUnknown}
           /\ UNCHANGED acked
    /\ UNCHANGED <<kind, proxy, usage, bounds>>

\* A later finalization, or one beside another in progress, returns at once.
FinalizeNothing(a) ==
    /\ at[a] = "finalize"
    /\ finalized \/ busy
    /\ Return(a)
    /\ UNCHANGED <<kind, proxy, usage, attempt, money, bounds>>

\* finalize_async: the decision under the lock; then the settlement or the
\* pending mark is journaled, and awaited outside it.
FinalizeAsync(a) ==
    /\ at[a] = "finalize"
    /\ kind.async
    /\ ~finalized /\ ~busy
    /\ outcome' = aim[a]
    /\ \E p \in Decisions(aim[a]) :
        \/ /\ ~kind.reserved
           /\ CompleteLocal(a, p)
           /\ UNCHANGED intents
        \/ /\ kind.reserved
           /\ busy' = TRUE
           /\ plan' = p
           /\ intents' = intents \cup
                {IF p.confidence = "exact" THEN UsageKnown(p.cost) ELSE OutcomeUnknown}
           /\ Go(a, IF p.confidence = "exact" THEN "reconcile" ELSE "mark")
           /\ UNCHANGED <<aim, finalized, confidence, releases, spent>>
    /\ UNCHANGED <<kind, proxy, usage, acked, bounds>>

ReconcileAcked(a) ==
    /\ at[a] = "reconcile"
    /\ CompleteLocal(a, plan)
    /\ acked' = TRUE
    /\ UNCHANGED <<kind, proxy, usage, outcome, intents, bounds>>

ReconcileUnacked(a) ==
    /\ at[a] = "reconcile"
    /\ plan' = Unacked(plan)
    /\ intents' = intents \cup {OutcomeUnknown}
    /\ Go(a, "mark")
    /\ UNCHANGED <<kind, proxy, aim, usage, outcome, finalized, busy, confidence, releases,
                   spent, acked, bounds>>

\* The mark of a pending outcome, or the one a cancelled settlement makes
\* before it raises.
Marked(a) ==
    /\ at[a] \in {"mark", "rescue"}
    /\ CompleteLocal(a, plan)
    /\ UNCHANGED <<kind, proxy, usage, outcome, intents, acked, bounds>>

-----------------------------------------------------------------------------
(* Opening. *)

UnchangedAttempt == UNCHANGED <<kind, usage, attempt, money, bounds>>

\* The SDK call returned a stream: the application gets the proxy.
Opened(a) ==
    /\ at[a] = "opening" /\ ~kind.managed
    /\ phase' = "open"
    /\ Go(a, "idle")
    /\ UnchangedAttempt /\ UNCHANGED <<upstream, over, closed, entered, aim, ending>>

\* It raised: a definitive 4xx is REJECTED.
OpenFailed(a) ==
    /\ at[a] = "opening" /\ ~kind.managed
    /\ phase' = "refused"
    /\ FinalizeAs(a, "PROVIDER_ERROR") \/ FinalizeAs(a, "REJECTED")
    /\ UnchangedAttempt /\ UNCHANGED <<upstream, over, closed, entered, ending>>

\* The stream manager was entered: what it gave is wrapped; or it raised.
ManagerEntered(a) ==
    /\ at[a] = "opening" /\ kind.managed
    /\ \/ phase' = "open" /\ Go(a, "idle") /\ UNCHANGED aim
       \/ phase' = "refused" /\ FinalizeAs(a, "PROVIDER_ERROR")
    /\ UnchangedAttempt /\ UNCHANGED <<upstream, over, closed, entered, ending>>

\* with stream: the upstream may be a context manager too.
Enter(a) ==
    /\ phase = "open" /\ at[a] = "idle"
    /\ ~entered /\ ~closed
    /\ Go(a, "entering")
    /\ UnchangedAttempt /\ UNCHANGED <<proxy, aim>>

EnterDone(a) ==
    /\ at[a] = "entering"
    /\ \/ entered' = TRUE /\ Go(a, "idle") /\ UNCHANGED aim
       \/ FinalizeAs(a, "PROVIDER_ERROR") /\ UNCHANGED entered
    /\ UnchangedAttempt /\ UNCHANGED <<phase, upstream, over, closed, ending>>

-----------------------------------------------------------------------------
(* Iterating. *)

NextChunk(a) ==
    /\ phase = "open" /\ at[a] = "idle"
    /\ Go(a, "next")
    /\ UnchangedAttempt /\ UNCHANGED <<proxy, aim>>

\* What the provider says with the next chunk, and whether the proxy sees it:
\* text_stream does not look for usage, an odd chunk is passed over.
Says(step, snapshot) ==
    /\ upstream' = step
    /\ usage' \in {usage, Merged(usage, snapshot)}

\* Chat completions and Responses report usage once, at the end.
ChatSays == kind.surface = "chat" /\ upstream = "fresh" /\ Says("told", ChatUsage)

ResponsesSays ==
    kind.surface = "responses" /\ upstream = "fresh" /\ Says("told", ResponsesUsage)

\* Messages begin with a snapshot and report the final output count later.
MessagesSay ==
    /\ kind.surface = "messages"
    /\ \/ upstream = "fresh" /\ Says("started", StartSnapshot)
       \/ upstream = "started" /\ Says("told", DeltaSnapshot)

\* After a chunk the local estimate may have reached the cutoff.
Chunk(a) ==
    /\ at[a] = "next"
    /\ ~over
    /\ ChatSays \/ ResponsesSays \/ MessagesSay \/ UNCHANGED <<upstream, usage>>
    /\ \/ Go(a, "idle") /\ UNCHANGED <<aim, ending>>
       \/ CanCut /\ Go(a, "closeUp") /\ Aim(a, "CUTOFF") /\ ending' = "cutoff"
    /\ UNCHANGED <<kind, phase, over, closed, entered, attempt, money, bounds>>

\* The usage of the helper's final message, if it has one.
WithHelper(said) == {usage} \cup {Merged(usage, u) : u \in HelperUsage(said)}

\* StopIteration, wherever the provider stopped: COMPLETE.
End(a) ==
    /\ at[a] = "next"
    /\ over' = TRUE
    /\ usage' \in WithHelper(upstream)
    /\ FinalizeAs(a, "COMPLETE")
    /\ ending' = "exhausted"
    /\ UNCHANGED <<kind, phase, upstream, closed, entered, attempt, money, bounds>>

\* The upstream raises: it is closed, then PROVIDER_ERROR.
Fail(a) ==
    /\ at[a] = "next"
    /\ over' = TRUE
    /\ Go(a, "closeUp") /\ Aim(a, "PROVIDER_ERROR")
    /\ UnchangedAttempt /\ UNCHANGED <<phase, upstream, closed, entered, ending>>

\* get_final_message, get_final_text, until_done of Messages exhaust the
\* upstream by themselves; those of the others iterate the proxy.
Helper(a) ==
    /\ phase = "open" /\ at[a] = "idle"
    /\ kind.managed /\ kind.surface = "messages"
    /\ Go(a, "helper")
    /\ UnchangedAttempt /\ UNCHANGED <<proxy, aim>>

\* How far the provider gets, if nobody has ended its stream.
Further ==
    IF over THEN {upstream}
    ELSE IF upstream = "fresh" THEN {"fresh", "started", "told"} ELSE {upstream, "told"}

HelperDone(a) ==
    /\ at[a] = "helper"
    /\ over' = TRUE
    /\ upstream' \in Further
    /\ \/ FinalizeAs(a, "COMPLETE") /\ usage' \in WithHelper(upstream')
       \/ FinalizeAs(a, "PROVIDER_ERROR") /\ UNCHANGED usage
    /\ UNCHANGED <<kind, phase, closed, entered, ending, attempt, money, bounds>>

-----------------------------------------------------------------------------
(* Closing. *)

\* close, aclose, the end of a generator, and __del__ (sync only).
Close(a) ==
    /\ phase = "open" /\ at[a] = "idle"
    /\ ~closed
    /\ closed' = TRUE
    /\ Go(a, "closeUp") /\ Aim(a, "CLIENT_CANCELLED")
    /\ UnchangedAttempt /\ UNCHANGED <<phase, upstream, over, entered, ending>>

\* The upstream's close returned or raised: either is noted, and finalize is
\* called with the outcome of the way that led here.
Closed(a) ==
    /\ at[a] = "closeUp"
    /\ over' = TRUE
    /\ Go(a, "finalize")
    /\ UnchangedAttempt /\ UNCHANGED <<phase, upstream, closed, entered, aim, ending>>

\* Leaving the context: the reason is the cutoff, the exhausted upstream, or
\* the consumer.
LeaveAs ==
    IF ending = "cutoff" THEN "CUTOFF"
    ELSE IF ending = "exhausted" THEN "COMPLETE" ELSE "CLIENT_CANCELLED"

\* Mutant: the context of an entered upstream is left without finalizing.
ExitDoneSilent(a) ==
    /\ at[a] = "exitUp"
    /\ closed' = TRUE
    /\ over' = TRUE
    /\ Go(a, "idle")
    /\ UnchangedAttempt /\ UNCHANGED <<phase, upstream, entered, aim, ending>>

\* __exit__ of a context whose upstream has one (a manager always has).
Exit(a) ==
    /\ phase = "open" /\ at[a] = "idle"
    /\ entered \/ kind.managed
    /\ Go(a, "exitUp")
    /\ UnchangedAttempt /\ UNCHANGED <<proxy, aim>>

ExitDone(a) ==
    /\ at[a] = "exitUp"
    /\ over' = TRUE
    /\ \/ /\ ~kind.managed                      \* __exit__ of the proxy
          /\ closed' = TRUE
          /\ \/ FinalizeAs(a, LeaveAs)
             \/ FinalizeAs(a, "PROVIDER_ERROR")
       \/ /\ kind.managed                       \* of the manager, then close
          /\ \/ /\ closed
                /\ Return(a)
                /\ UNCHANGED closed
             \/ /\ ~closed
                /\ closed' = TRUE
                /\ Go(a, "closeUp") /\ Aim(a, "CLIENT_CANCELLED")
             \/ FinalizeAs(a, "PROVIDER_ERROR") /\ UNCHANGED closed
    /\ UnchangedAttempt /\ UNCHANGED <<phase, upstream, entered, ending>>

\* __exit__ of a context whose upstream has none: the upstream is closed.
ExitPlain(a) ==
    /\ phase = "open" /\ at[a] = "idle"
    /\ ~entered /\ ~kind.managed
    /\ closed' = TRUE
    /\ Go(a, "closeUp") /\ Aim(a, LeaveAs)
    /\ UnchangedAttempt /\ UNCHANGED <<phase, upstream, over, entered, ending>>

-----------------------------------------------------------------------------
(* CancelledError is not an Exception: most handlers let it pass. *)

Cancel(a) ==
    /\ kind.async
    /\ cancels < MaxCancels
    /\ cancels' = cancels + 1
    /\ UNCHANGED <<kind, upstream, over, entered, ending, usage, outcome, finalized, confidence,
                   releases, spent, acked>>

\* The direct call catches it and finalizes; a manager's __aenter__ does not.
CancelOpening(a) ==
    /\ at[a] = "opening"
    /\ Cancel(a)
    /\ phase' = "refused"
    /\ IF kind.managed THEN Return(a) /\ cut' = TRUE
                       ELSE FinalizeAs(a, "CLIENT_CANCELLED") /\ UNCHANGED cut
    /\ UNCHANGED <<closed, busy, plan, intents>>

CancelUse(a) ==
    /\ at[a] \in {"entering", "next", "helper"}
    /\ Cancel(a)
    /\ Return(a)
    /\ UNCHANGED <<phase, closed, busy, plan, intents, cut>>

\* aclose has set _closed before it awaits; __aexit__ sets it in "finally".
CancelClosing(a) ==
    /\ at[a] \in {"closeUp", "exitUp"}
    /\ Cancel(a)
    /\ closed' = (closed \/ (at[a] = "exitUp" /\ ~kind.managed))
    /\ cut' = TRUE
    /\ Return(a)
    /\ UNCHANGED <<phase, busy, plan, intents>>

\* Mutant: a cancelled settlement is given up.
CancelReconcileSilent(a) ==
    /\ at[a] = "reconcile"
    /\ Cancel(a)
    /\ busy' = TRUE
    /\ Return(a)
    /\ UNCHANGED <<phase, closed, plan, intents, cut>>

\* During the settlement: the pending mark is still made, then it raises.
CancelReconcile(a) ==
    /\ at[a] = "reconcile"
    /\ Cancel(a)
    /\ plan' = Unacked(plan)
    /\ intents' = intents \cup {OutcomeUnknown}
    /\ Go(a, "rescue")
    /\ UNCHANGED <<phase, closed, aim, busy, cut>>

\* During a mark: not finalized, so that another may finalize again.
CancelMark(a) ==
    /\ at[a] \in {"mark", "rescue"}
    /\ Cancel(a)
    /\ busy' = FALSE
    /\ cut' = TRUE
    /\ Return(a)
    /\ UNCHANGED <<phase, closed, plan, intents>>

-----------------------------------------------------------------------------
Finalizing(a) ==
    \/ Finalize(a) \/ FinalizeNothing(a) \/ FinalizeAsync(a)
    \/ ReconcileAcked(a) \/ ReconcileUnacked(a) \/ Marked(a)

\* What an actor does once it is inside a call of the proxy.
Work(a) ==
    \/ Opened(a) \/ OpenFailed(a) \/ ManagerEntered(a) \/ EnterDone(a)
    \/ Chunk(a) \/ End(a) \/ Fail(a) \/ HelperDone(a)
    \/ Closed(a) \/ ExitDone(a)
    \/ Finalizing(a)

\* The calls it may make.
Call(a) == Enter(a) \/ NextChunk(a) \/ Helper(a) \/ Close(a) \/ Exit(a) \/ ExitPlain(a)

Cancelled(a) ==
    \/ CancelOpening(a) \/ CancelUse(a) \/ CancelClosing(a)
    \/ CancelReconcile(a) \/ CancelMark(a)

Next == \E a \in Actors : Work(a) \/ Call(a) \/ Cancelled(a)

Spec == Init /\ [][Next]_vars

\* A call that was made goes on: every wait in it has a timeout.  Nothing
\* forces the application to make one.
FairSpec == Spec /\ \A a \in Actors : WF_vars(Work(a))

-----------------------------------------------------------------------------
(* Properties. *)

\* "Finalize-once": however many threads or tasks exhaust, close, leave and
\* drop the same stream, record_call releases its hold once, and exactly when
\* the attempt is finalized.
HoldReleasedOnce == releases = IF finalized THEN 1 ELSE 0

\* A stream of the Anthropic helper that ended after message_start, without an
\* error and without a message_delta.
CutShort == kind.managed /\ kind.surface = "messages" /\ over /\ upstream = "started"

\* Of a stream that is over the provider's final counts are settled, or $0 of a
\* request it refused: no estimate, no count of a stream that goes on or was
\* interrupted, and an initial one only of an Anthropic helper cut short, whose
\* final message has no other.
OnlyFinalCounts ==
    \A i \in intents : i.event = "usage_known" =>
        \/ i.amount = Input + Final /\ over /\ upstream = "told"
        \/ i.amount = Input + Partial /\ CutShort
        \/ i.amount = 0 /\ phase = "refused"

\* The local counter and FinOps tell the same amount: an attempt that calls its
\* cost exact has FinOps' acknowledgement of it ("True is durable ack"), and what
\* the journal will settle is counted locally, acknowledged or not ("exact
\* provider usage stays on the local counter"), unless a cancellation interrupted
\* a finalization.
AmountsAgree ==
    /\ finalized /\ kind.reserved /\ confidence = "exact" => acked /\ UsageKnown(spent) \in intents
    /\ \A i \in intents : i.event = "usage_known" /\ finalized /\ ~cut => spent = i.amount

\* A finalized attempt has told the settle journal how its reservation ended, where
\* the journal can be written: finalize passes over an exception of
\* reconcile_fn and pending_fn (lifecycle.py:348, 369, 502).
EvidenceKept == finalized /\ kind.reserved => intents # {}

\* The stream was closed, and nobody is in a call any more.
Over == phase # "opening" /\ (closed \/ phase = "refused")
Quiet == Over /\ \A a \in Actors : at[a] = "idle"

\* Whoever closes or leaves a stream, and whatever the others did with it, the
\* attempt is finalized when they have returned, unless one was cancelled.
ClosedIsFinalized == Quiet /\ ~cut => finalized

\* A closed stream is finalized at last: no finalization waits for one that
\* does not end.
CloseFinalizes == Over ~> finalized \/ cut

=============================================================================
