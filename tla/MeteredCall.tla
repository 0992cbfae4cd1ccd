---------------------------- MODULE MeteredCall ----------------------------
(***************************************************************************)
(* A monitored provider call that does not stream (kazenai/monitor.py and  *)
(* kazenai/_async_provider.py), with the local budget its client shares    *)
(* with others (kazenai/enforcement.py) and the reservation it makes in    *)
(* Agent FinOps (kazenai/spine/guard.py):                                  *)
(*                                                                         *)
(*   check_local   takes a hold of the projected cost;                     *)
(*   reserve       asks FinOps for a reservation;                          *)
(*   start         signals provider_started, before the dispatch;          *)
(*   provider      the call itself;                                        *)
(*   reconcile     settles the usage the provider reported;                *)
(*   mark          signals the usage again, $0, or outcome_unknown;        *)
(*   record        record_call: gives the hold back, counts the cost.      *)
(*                                                                         *)
(* Calls are threads or asyncio tasks; a task can be cancelled wherever it *)
(* awaits.  Each method of Enforcement is one step, under its lock.  The   *)
(* settlement journal is the set of the intents it holds: SettleQueue has  *)
(* its files and what they promise.  Amounts are whole numbers.            *)
(***************************************************************************)
EXTENDS Integers, FiniteSets, FiniteSetsExt

CONSTANTS
    Calls,        \* the calls that share one Enforcement
    Cap,          \* max_cost_usd
    PerWindow,    \* calls_per_minute
    Projections,  \* what a call may be projected to cost
    Costs,        \* what a call may turn out to cost
    Unknown,      \* no usage, or no price for it
    OrgOpen,      \* the organisation chose fail-open (spine/org_policy.py)
    MaxCancels,   \* bound: cancellations
    MaxFaults     \* bound: journal writes that fail, and refusals of a fitting signal

ASSUME MeteredCallAssumption ==
    /\ IsFiniteSet(Calls)
    /\ Cap \in Nat
    /\ PerWindow \in Nat \ {0}
    /\ Projections \subseteq Nat
    /\ Costs \subseteq Nat
    /\ 0 \in Costs
    /\ Unknown \notin Costs
    /\ OrgOpen \in BOOLEAN
    /\ MaxCancels \in Nat
    /\ MaxFaults \in Nat

VARIABLES
    mode,        \* how each call runs: async or not, fail-closed (strict) or not
    at,          \* where each call is
    held,        \* the projection each call holds, or held
    reserved,    \* calls with a reservation id
    cost,        \* cost_usd of each call
    amount,      \* what each call settles: its cost, or Unknown
    leaving,     \* calls that will raise without record_call
    pending,     \* Enforcement._pending_projected_usd
    spent,       \* Enforcement._cumulative_cost_usd
    recent,      \* Enforcement._call_timestamps: how many in the window
    journal,     \* the settle intents journaled
    aside,       \* calls of whose outcome a record is in quarantine/
    ledger,      \* FinOps: the state of each call's reservation
    settled,     \* FinOps: the amount each reservation was settled at
    dispatched,  \* history: calls that reached the provider
    unjournaled, \* history: calls whose settle intent could not be written
    cancels,     \* cancellations so far
    faults       \* failed journal writes and refusals so far

budget == <<pending, spent, recent>>
finops == <<ledger, settled>>
call == <<mode, held, reserved, cost, amount, leaving>>
bounds == <<unjournaled, cancels, faults>>
files == <<journal, aside>>
vars == <<call, at, budget, files, finops, dispatched, bounds>>

Modes == [async : BOOLEAN, strict : BOOLEAN]
Amounts == Costs \cup {Unknown}
Events == {"provider_started", "usage_known", "outcome_unknown"}
Intents == [call : Calls, event : Events, amount : Amounts]

Sending == {"startSent", "reconcileSent", "markSent"}
Ended == {"denied", "returned", "abandoned"}
InCall == {"reserve", "start", "provider", "reconcile", "mark", "record"} \cup Sending

TypeOK ==
    /\ mode \in [Calls -> Modes]
    /\ at \in [Calls -> {"new"} \cup InCall \cup Ended]
    /\ held \in [Calls -> Projections \cup {0}]
    /\ reserved \subseteq Calls
    /\ cost \in [Calls -> Amounts]
    /\ amount \in [Calls -> Amounts]
    /\ leaving \subseteq Calls
    /\ pending \in Nat
    /\ spent \in Nat
    /\ recent \in 0..Cardinality(Calls)
    /\ journal \subseteq Intents
    /\ aside \subseteq Calls
    /\ ledger \in [Calls -> {"none", "reserved", "in_flight", "settled",
                             "pending_reconciliation"}]
    /\ settled \in [Calls -> Amounts]
    /\ dispatched \subseteq Calls
    /\ unjournaled \subseteq Calls
    /\ cancels \in 0..MaxCancels
    /\ faults \in 0..MaxFaults

Init ==
    /\ mode \in [Calls -> Modes]
    /\ \A c, d \in Calls : mode[c].strict = mode[d].strict   \* the deployment's
    /\ at = [c \in Calls |-> "new"]
    /\ held = [c \in Calls |-> 0]
    /\ reserved = {}
    /\ cost = [c \in Calls |-> Unknown]
    /\ amount = [c \in Calls |-> Unknown]
    /\ leaving = {}
    /\ pending = 0
    /\ spent = 0
    /\ recent = 0
    /\ journal = {}
    /\ aside = {}
    /\ ledger = [c \in Calls |-> "none"]
    /\ settled = [c \in Calls |-> Unknown]
    /\ dispatched = {}
    /\ unjournaled = {}
    /\ cancels = 0
    /\ faults = 0

-----------------------------------------------------------------------------
(* Enforcement. *)

Go(c, p) == at' = [at EXCEPT ![c] = p]

\* pending never goes below zero.
Give(c) == pending' = IF pending > held[c] THEN pending - held[c] ELSE 0

\* Mutant: concurrent calls see the same headroom.
FitsAlone(p) == recent < PerWindow /\ spent + p <= Cap

\* What check_local raises on: the rate of the calls already recorded, and
\* the cap against what is spent and held.
Fits(p) == recent < PerWindow /\ spent + pending + p <= Cap

CheckLocal(c) ==
    /\ at[c] = "new"
    /\ \E p \in Projections :
        /\ Fits(p)
        /\ held' = [held EXCEPT ![c] = p]
        /\ pending' = pending + p
    /\ Go(c, "reserve")
    /\ UNCHANGED <<mode, reserved, cost, amount, leaving, spent, recent, files, finops,
                   dispatched, bounds>>

RefuseLocally(c) ==
    /\ at[c] = "new"
    /\ \E p \in Projections : ~Fits(p)
    /\ Go(c, "denied")
    /\ UNCHANGED <<call, budget, files, finops, dispatched, bounds>>

\* Mutant: the denial does not unwind the hold.
RefuseHolding(c) == Go(c, "denied") /\ UNCHANGED budget

\* release_projection, before the exception goes on to the caller.
Refuse(c) ==
    /\ Give(c)
    /\ Go(c, "denied")
    /\ UNCHANGED <<spent, recent>>

\* record_call: the timestamp, the hold, and the cost if there is one.
Record(c) ==
    /\ at[c] = "record"
    /\ Give(c)
    /\ spent' = IF cost[c] = Unknown THEN spent ELSE spent + cost[c]
    /\ recent' = recent + 1
    /\ Go(c, "returned")
    /\ UNCHANGED <<call, files, finops, dispatched, bounds>>

\* Mutant: popleft from an empty window.
PruneEmpty ==
    /\ recent' = recent - 1
    /\ UNCHANGED <<call, at, pending, spent, files, finops, dispatched, bounds>>

\* _prune_locked: the oldest timestamp leaves the window.
Prune ==
    /\ recent > 0
    /\ recent' = recent - 1
    /\ UNCHANGED <<call, at, pending, spent, files, finops, dispatched, bounds>>

-----------------------------------------------------------------------------
(* The reservation. *)

\* FinOps reserves; the handle carries the reservation id.
Reserve(c) ==
    /\ at[c] = "reserve"
    /\ ledger' = [ledger EXCEPT ![c] = "reserved"]
    /\ reserved' = reserved \cup {c}
    /\ Go(c, "start")
    /\ UNCHANGED <<mode, held, cost, amount, leaving, budget, files, settled, dispatched,
                   bounds>>

\* HTTP 402 or a tier breaker: BudgetExceeded, however the call runs.
DenyReserve(c) ==
    /\ at[c] = "reserve"
    /\ Refuse(c)
    /\ UNCHANGED <<call, files, finops, dispatched, bounds>>

\* FinOps may have made the reservation whose answer the call did not get.
PerhapsReserved(c) ==
    /\ \/ ledger' = ledger
       \/ ledger' = [ledger EXCEPT ![c] = "reserved"]
    /\ UNCHANGED settled

\* No answer: BudgetUnavailable, under fail-closed reservations or, in either
\* mode of theirs, under fail-closed enforcement.
ReserveUnavailable(c) ==
    /\ at[c] = "reserve"
    /\ PerhapsReserved(c)
    /\ Refuse(c)
    /\ UNCHANGED <<call, files, dispatched, bounds>>

\* The request goes to the provider.
Dispatch(c) ==
    /\ dispatched' = dispatched \cup {c}
    /\ Go(c, "provider")

\* No answer, and the call may run without a reservation: no signal is sent
\* for it, so provider_started is passed over.
RunUnreserved(c) ==
    /\ at[c] = "reserve"
    /\ OrgOpen \/ ~mode[c].strict
    /\ PerhapsReserved(c)
    /\ Dispatch(c)
    /\ UNCHANGED <<call, budget, files, bounds>>

-----------------------------------------------------------------------------
(* Signals: an intent is journaled, then sent. *)

Intent(c, event) ==
    [call |-> c, event |-> event,
     amount |-> IF event = "usage_known" THEN amount[c] ELSE Unknown]

\* The signal of a call: usage_known, in the mark again, if the amount is known.
Signal(c) ==
    Intent(c, IF at[c] \in {"start", "startSent"} THEN "provider_started"
              ELSE IF amount[c] = Unknown THEN "outcome_unknown" ELSE "usage_known")

\* The transitions of a reservation: an outcome is not taken of one that FinOps
\* has not seen started ("FinOps refuses that transition").
Accepts(i) == i.event # "provider_started" => ledger[i.call] \notin {"none", "reserved"}

\* The settle endpoint takes a signal; one that comes too late or once more
\* leaves the reservation as it is.
Apply(i) ==
    LET c == i.call IN
    /\ Accepts(i)
    /\ \/ /\ i.event = "usage_known"
          /\ ledger' = [ledger EXCEPT ![c] = "settled"]
       \/ /\ i.event = "outcome_unknown"
          /\ ledger' = [ledger EXCEPT ![c] = IF @ = "in_flight" THEN "pending_reconciliation" ELSE @]
       \/ /\ i.event = "provider_started"
          /\ ledger' = [ledger EXCEPT ![c] = IF @ = "reserved" THEN "in_flight" ELSE @]
    /\ settled' = [settled EXCEPT ![c] =
         IF i.event = "usage_known" /\ ledger[c] # "settled" THEN i.amount ELSE @]

PerhapsApplied(i) == Apply(i) \/ UNCHANGED finops

\* After the last signal: record_call, unless an exception is on its way.
Finished(c) == IF c \in leaving THEN "abandoned" ELSE "record"

\* After an answered signal; an unanswered settlement is marked in its place.
Proceed(c, settle) ==
    \/ at[c] = "startSent" /\ Dispatch(c)
    \/ at[c] = "reconcileSent" /\ Go(c, settle) /\ UNCHANGED dispatched
    \/ at[c] = "markSent" /\ Go(c, Finished(c)) /\ UNCHANGED dispatched

Journal(c) ==
    /\ journal' = journal \cup {Signal(c)}
    /\ \/ at[c] = "start" /\ Go(c, "startSent")
       \/ at[c] = "reconcile" /\ Go(c, "reconcileSent")
       \/ at[c] = "mark" /\ Go(c, "markSent")
    /\ UNCHANGED <<call, aside, budget, finops, dispatched, bounds>>

\* FinOps acknowledges: the intent leaves the journal, the call goes on.
Acked(c) ==
    /\ Apply(Signal(c))
    /\ journal' = journal \ {Signal(c)}
    /\ Proceed(c, "record")
    /\ UNCHANGED <<call, aside, budget, bounds>>

\* An error, a timeout or no acknowledgement, with provider_started required:
\* BudgetUnavailable before the dispatch.
StartRefused(c) ==
    /\ at[c] = "startSent"
    /\ mode[c].strict
    /\ PerhapsApplied(Signal(c))
    /\ Refuse(c)
    /\ UNCHANGED <<call, files, dispatched, bounds>>

\* Mutant: required is not passed on.
UnackedOptional(c) ==
    /\ PerhapsApplied(Signal(c))
    /\ Proceed(c, "mark")
    /\ UNCHANGED <<call, budget, files, bounds>>

\* The same where the call goes on: False is returned, the intent stays.
Unacked(c) ==
    /\ at[c] = "startSent" => ~mode[c].strict
    /\ PerhapsApplied(Signal(c))
    /\ Proceed(c, "mark")
    /\ UNCHANGED <<call, budget, files, bounds>>

-----------------------------------------------------------------------------
(* The journal refuses the intent (disk, lock, conflict): nothing is sent. *)

Fault ==
    /\ faults < MaxFaults
    /\ faults' = faults + 1

\* Before the dispatch: the hold is released, or fail-open goes on.  The sync
\* path raises whatever its mode.
StartUnjournaled(c) ==
    /\ at[c] = "start"
    /\ Fault
    /\ \/ /\ mode[c].strict \/ ~mode[c].async
          /\ Refuse(c)
          /\ UNCHANGED dispatched
       \/ /\ ~mode[c].strict /\ mode[c].async
          /\ Dispatch(c)
          /\ UNCHANGED budget
    /\ UNCHANGED <<call, files, finops, unjournaled, cancels>>

\* After it, the exception of the sync path passes over record_call, and so
\* over the response; the async path takes it for a signal not acknowledged.
SettleUnjournaled(c) ==
    /\ at[c] \in {"reconcile", "mark"}
    /\ Fault
    /\ unjournaled' = unjournaled \cup {c}
    /\ \/ ~mode[c].async /\ Go(c, "abandoned")
       \/ mode[c].async /\ at[c] = "reconcile" /\ Go(c, "mark")
       \/ mode[c].async /\ at[c] = "mark" /\ Go(c, Finished(c))
    /\ UNCHANGED <<call, budget, files, finops, dispatched, cancels>>

-----------------------------------------------------------------------------
(* The provider call. *)

Outcome(c, usd, settles) ==
    /\ cost' = [cost EXCEPT ![c] = usd]
    /\ amount' = [amount EXCEPT ![c] = settles]
    /\ UNCHANGED <<mode, held, reserved, leaving, budget, files, finops, dispatched, bounds>>

\* A response: with usage and price, with a price that holds back the
\* settlement, or with neither.
ProviderAnswers(c) ==
    /\ at[c] = "provider"
    /\ \E usd \in Amounts : \E settles \in {usd, Unknown} :
        /\ Outcome(c, usd, settles)
        /\ Go(c, IF c \notin reserved THEN "record"
                 ELSE IF settles = Unknown THEN "mark" ELSE "reconcile")

\* A definitive 4xx costs nothing; any other exception has an unknown cost.
ProviderRaises(c) ==
    /\ at[c] = "provider"
    /\ \E settles \in {0, Unknown} : Outcome(c, settles, settles)
    /\ Go(c, IF c \in reserved THEN "mark" ELSE "record")

-----------------------------------------------------------------------------
(* CancelledError, in an async call that awaits.  Only "except Exception"  *)
(* guards the hold, and CancelledError is not an Exception.                *)

Cancel(c) ==
    /\ mode[c].async
    /\ cancels < MaxCancels
    /\ cancels' = cancels + 1
    /\ UNCHANGED <<mode, held, reserved, budget, files, dispatched, unjournaled, faults>>

CancelReserve(c) ==
    /\ at[c] = "reserve"
    /\ Cancel(c)
    /\ PerhapsReserved(c)
    /\ Go(c, "abandoned")
    /\ UNCHANGED <<cost, amount, leaving>>

\* During the signal of the start, or the last one.
CancelSignal(c) ==
    /\ at[c] \in {"startSent", "markSent"}
    /\ Cancel(c)
    /\ PerhapsApplied(Signal(c))
    /\ Go(c, "abandoned")
    /\ UNCHANGED <<cost, amount, leaving>>

\* During the provider call: outcome_unknown, then the exception.
CancelProvider(c) ==
    /\ at[c] = "provider"
    /\ Cancel(c)
    /\ leaving' = leaving \cup {c}
    /\ Go(c, IF c \in reserved THEN "mark" ELSE "abandoned")
    /\ UNCHANGED <<cost, amount, finops>>

\* Mutant: the hold is released without the cost that is being settled.
CancelReconcileReleased(c) ==
    /\ at[c] = "reconcileSent"
    /\ mode[c].async
    /\ cancels < MaxCancels
    /\ cancels' = cancels + 1
    /\ PerhapsApplied(Signal(c))
    /\ Refuse(c)
    /\ UNCHANGED <<call, files, dispatched, unjournaled, faults>>

\* During the settlement: outcome_unknown too, without the amount.
CancelReconcile(c) ==
    /\ at[c] = "reconcileSent"
    /\ Cancel(c)
    /\ PerhapsApplied(Signal(c))
    /\ leaving' = leaving \cup {c}
    /\ amount' = [amount EXCEPT ![c] = Unknown]
    /\ Go(c, "mark")
    /\ UNCHANGED cost

-----------------------------------------------------------------------------
(* The flusher, in this process or another, sends any journaled intent.    *)

Deliver(i) ==
    /\ Apply(i)
    /\ journal' = journal \ {i}
    /\ UNCHANGED <<aside, faults>>

\* Mutant: a refused record is removed.
DropRefused(i) ==
    /\ journal' = journal \ {i}
    /\ UNCHANGED <<aside, finops, faults>>

\* Any 4xx but 408 and 429, for a transition that is not allowed or else for the
\* key, the scope or the body: the record goes to quarantine/ and is not sent again.
Quarantine(i) ==
    /\ IF Accepts(i) THEN Fault ELSE UNCHANGED faults
    /\ journal' = journal \ {i}
    /\ aside' = IF i.event = "provider_started" THEN aside ELSE aside \cup {i.call}
    /\ UNCHANGED finops

Flush(i) ==
    /\ i \in journal
    /\ Deliver(i) \/ Quarantine(i)
    /\ UNCHANGED <<call, at, budget, dispatched, unjournaled, cancels>>

\* What a call does when nothing goes wrong inside the process.
Advance(c) ==
    \/ CheckLocal(c) \/ RefuseLocally(c)
    \/ Reserve(c) \/ DenyReserve(c) \/ ReserveUnavailable(c) \/ RunUnreserved(c)
    \/ Journal(c) \/ Acked(c) \/ StartRefused(c) \/ Unacked(c)
    \/ ProviderAnswers(c) \/ ProviderRaises(c)
    \/ Record(c)

Disturb(c) ==
    \/ StartUnjournaled(c) \/ SettleUnjournaled(c)
    \/ CancelReserve(c) \/ CancelSignal(c) \/ CancelProvider(c) \/ CancelReconcile(c)

Next ==
    \/ \E c \in Calls : Advance(c) \/ Disturb(c)
    \/ \E i \in journal : Flush(i)
    \/ Prune

Spec == Init /\ [][Next]_vars

-----------------------------------------------------------------------------
(* Properties. *)

Known(c) == cost[c] # Unknown
Holding(c) == at[c] \in InCall \cup {"abandoned"}

\* What amounts f of the calls in S add up to.
Total(f, S) == MapThenSumSet(LAMBDA c : f[c], S)

\* What the calls cost beyond their projections.
Excess(c) == IF Known(c) /\ cost[c] > held[c] THEN cost[c] - held[c] ELSE 0
Overrun == Total([c \in Calls |-> Excess(c)], Calls)

\* The cap of Enforcement.check_local holds for all concurrent calls together:
\* what is spent and what is held exceed it by no more than the calls that
\* cost more than they were projected to.
CapKept == spent + pending <= Cap + Overrun

\* Every hold taken by check_local is counted in _pending_projected_usd once,
\* until the call records or is refused, and only the calls that end without
\* either (a cancellation, a journal failure) leave theirs behind.
HoldsAccounted == pending = Total(held, {c \in Calls : Holding(c)})

\* Under fail-closed no provider is called on a reservation that FinOps still
\* takes for unstarted (the required provider_started of
\* _mark_stream_started_or_release).
StartedBeforeDispatch ==
    \A c \in dispatched \cap reserved : mode[c].strict => ledger[c] # "reserved"

Resolved(c) == ledger[c] \in {"settled", "pending_reconciliation"}

\* FinOps knows how the call ended, or there is a record of it, to be sent or set
\* aside for a person, or the journal could not be written.
Told(c) ==
    \/ Resolved(c)
    \/ \E i \in journal : i.call = c /\ i.event # "provider_started"
    \/ c \in aside
    \/ c \in unjournaled

\* However a call ended after its dispatch, FinOps has its outcome or there is a
\* record of it, in the journal or in quarantine, unless the journal could not be
\* written ("never leave a reservation without cleanup evidence", _async_provider.py).
\* Under fail-closed no order of delivery sets it aside, only a refusal for the key,
\* the scope or the body.
EvidenceKept ==
    \A c \in dispatched \cap reserved : at[c] \in Ended =>
        Told(c) /\ (mode[c].strict /\ c \in aside => faults > 0)

\* FinOps never settles a reservation at anything but what the call cost: in
\* particular an unknown outcome is never settled at zero.
SettledAtCost == \A c \in Calls : ledger[c] = "settled" => Known(c) /\ settled[c] = cost[c]

\* What FinOps has settled for these calls is within what Enforcement counts
\* against the cap, spent or held, at every moment of their settlement and
\* through every cancellation.
LocalCoversSettled ==
    Total(settled, {c \in Calls : ledger[c] = "settled"}) <= spent + pending + Overrun

\* The calls whose outcome is there, and those that ended with a reservation.
Done == {c \in dispatched : at[c] # "provider"}
Over == {c \in dispatched \cap reserved : at[c] \in Ended}

Contract == INSTANCE ReservationContract WITH
    Amounts <- Costs,
    account <- ledger,
    amount <- settled,
    ran <- dispatched,
    done <- Done,
    told <- {c \in Calls : Told(c)},
    over <- Over

\* A monitored call keeps the contract of reservations: through lost answers, late
\* redelivery, refusals and cancellations FinOps settles each reservation at the one
\* cost the call had, for good, only once it was started, and no evidence is dropped
\* before that: what FinOps refuses is set aside.
ImplementsContract == Contract!Spec

\* Once every call has ended, nothing is held (release_projection: "Release a
\* pre-call hold when dispatch never became a provider attempt").  Violated.
HoldsReleased == (\A c \in Calls : at[c] \in Ended \cup {"new"}) => pending = 0

=============================================================================
