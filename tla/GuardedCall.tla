---------------------------- MODULE GuardedCall ----------------------------
(***************************************************************************)
(* guarded_llm_call, aguarded_llm_call and guarded_embedding_call          *)
(* (kazenai/spine/guard.py) and the ownership of enforcement they run      *)
(* under (kazenai/enforcement_owner.py).                                   *)
(*                                                                         *)
(* _OWNER is a context variable: a task has its own copy, a task it starts *)
(* begins with the value of that moment.  claim_enforcement_owner opens a  *)
(* scope that restores the value it found.  A reservation is written into  *)
(* the value in force; a call that finds one there makes none.  Calls nest *)
(* (the function of one makes another) and follow each other.              *)
(*                                                                         *)
(* FinOps and the journal are those of MeteredCall; SettleQueue has the    *)
(* files of the journal.                                                   *)
(***************************************************************************)
EXTENDS Integers, FiniteSets, Sequences

CONSTANTS
    Tasks,      \* tasks or threads; one is there from the start
    Main,       \* that one
    Calls,      \* guarded calls
    None,       \* no owner, no call, no reservation
    Async,      \* the ones made with aguarded_llm_call
    Configured, \* KAZENAI_ENFORCEMENT_OWNER, or None
    MaxFrames,  \* bound: calls and scopes open in a task
    MaxScopes,  \* bound: scopes open in a task
    OrgOpen,    \* the organisation chose fail-open (spine/org_policy.py)
    MaxFaults   \* bound: failed journal writes, cancellations, refusals of a fitting signal

\* The values of _OWNER.
Owners == [by : {"sdk", "gateway"}, reservation : Calls \cup {None}]

ASSUME GuardedCallAssumption ==
    /\ IsFiniteSet(Tasks) /\ IsFiniteSet(Calls)
    /\ Main \in Tasks /\ Async \subseteq Calls
    /\ None \notin Calls \cup {"sdk", "gateway"} /\ None \notin Owners
    /\ Configured \in {"sdk", "gateway", None}
    /\ OrgOpen \in BOOLEAN
    /\ MaxFrames \in Nat /\ MaxScopes \in Nat /\ MaxFaults \in Nat

VARIABLES
    mode,     \* the deployment: required reservations, the lifecycle protocol
    at,       \* where each call is
    owner,    \* _OWNER in each task
    frames,   \* what each task has open, innermost first
    handle,   \* what reserve_budget returned to each call
    cost,     \* the actual cost of each call is known, or not
    sent,     \* calls whose journaled intent is on its way
    journal,  \* the intents in the settlement journal
    aside,    \* calls of whose outcome or cancellation a record is in quarantine/
    ledger,   \* FinOps: the state of each call's reservation
    ran,      \* history: calls whose provider function was called
    faults    \* failed journal writes, cancellations and refusals so far

files == <<journal, aside>>
vars == <<mode, at, owner, frames, handle, cost, sent, files, ledger, ran, faults>>

Modes == [strict : BOOLEAN, lifecycle : BOOLEAN]
\* ReservationHandle.
Handles == {"none", "lifecycle", "noop", "free", "legacy"}
Frames == [call : Calls \cup {None}, saved : Owners \cup {None}]
Events == {"provider_started", "usage_known", "outcome_unknown", "cancel_before_call"}
Steps == {"new", "reserve", "start", "provider", "settle", "mark", "cancel"}
Ended == {"returned", "refused", "abandoned"}

TypeOK ==
    /\ mode \in Modes
    /\ at \in [Calls -> Steps \cup Ended]
    /\ owner \in [Tasks -> Owners \cup {None}]
    /\ frames \in [Tasks -> Seq(Frames)]
    /\ \A t \in Tasks : Len(frames[t]) <= MaxFrames
    /\ handle \in [Calls -> Handles]
    /\ cost \in [Calls -> {"known", "unknown"}]
    /\ sent \subseteq {c \in Calls : at[c] \in {"start", "settle", "mark", "cancel"}}
    /\ journal \subseteq Calls \X Events
    /\ aside \subseteq Calls
    /\ ledger \in [Calls -> {"none", "reserved", "in_flight", "settled",
                             "pending_reconciliation", "cancelled_before_call"}]
    /\ ran \subseteq Calls
    /\ faults \in [journal : 0..MaxFaults, cancel : 0..MaxFaults, refusal : 0..MaxFaults]

Init ==
    /\ mode \in Modes
    /\ at = [c \in Calls |-> "new"]
    /\ owner = [t \in Tasks |-> None]
    /\ frames = [t \in Tasks |-> <<>>]
    /\ handle = [c \in Calls |-> "none"]
    /\ cost = [c \in Calls |-> "unknown"]
    /\ sent = {}
    /\ journal = {}
    /\ aside = {}
    /\ ledger = [c \in Calls |-> "none"]
    /\ ran = {}
    /\ faults = [journal |-> 0, cancel |-> 0, refusal |-> 0]

-----------------------------------------------------------------------------
(* Scopes and tasks. *)

Inner(t) == IF frames[t] = <<>> THEN None ELSE Head(frames[t]).call

\* User code runs in a task that is in no call, or in the function of one.
Free(t) == Len(frames[t]) < MaxFrames /\ (Inner(t) # None => at[Inner(t)] = "provider")

\* claim_enforcement_owner: a claim against the configured or the active owner
\* raises; one under the same owner keeps its reservation.
Claim(t, by) ==
    /\ Free(t)
    /\ Cardinality({i \in DOMAIN frames[t] : frames[t][i].call = None}) < MaxScopes
    /\ Configured \in {None, by}
    /\ (owner[t] # None => owner[t].by = by)
    /\ frames' = [frames EXCEPT ![t] = <<[call |-> None, saved |-> owner[t]]>> \o @]
    /\ owner' = [owner EXCEPT ![t] = IF @ = None THEN [by |-> by, reservation |-> None] ELSE @]
    /\ UNCHANGED <<mode, at, handle, cost, sent, files, ledger, ran, faults>>

\* The scope ends: _OWNER.reset.
Leave(t) ==
    /\ frames[t] # <<>> /\ Inner(t) = None
    /\ owner' = [owner EXCEPT ![t] = Head(frames[t]).saved]
    /\ frames' = [frames EXCEPT ![t] = Tail(@)]
    /\ UNCHANGED <<mode, at, handle, cost, sent, files, ledger, ran, faults>>

\* create_task, or to_thread: the new task begins with a copy of the context.
Spawn(t, u) ==
    /\ u # Main /\ owner[u] = None /\ frames[u] = <<>>
    /\ owner[t] # None
    /\ owner' = [owner EXCEPT ![u] = owner[t]]
    /\ UNCHANGED <<mode, at, frames, handle, cost, sent, files, ledger, ran, faults>>

-----------------------------------------------------------------------------
(* The reservation. *)

Begin(t, c) ==
    /\ at[c] = "new"
    /\ Free(t)
    /\ frames' = [frames EXCEPT ![t] = <<[call |-> c, saved |-> None]>> \o @]
    /\ at' = [at EXCEPT ![c] = "reserve"]
    /\ UNCHANGED <<mode, owner, handle, cost, sent, files, ledger, ran, faults>>

\* The call is the innermost of its task and goes on to step s.
Go(t, c, s) ==
    /\ Inner(t) = c
    /\ at' = [at EXCEPT ![c] = s]
    /\ frames' = [frames EXCEPT ![t] = IF s \in Ended THEN Tail(@) ELSE @]

\* Its function is called.
Run(t, c) ==
    /\ Go(t, c, "provider")
    /\ ran' = ran \cup {c}

\* should_skip_sdk_reserve.
Skipped(t) ==
    \/ Configured = "gateway"
    \/ IF owner[t] = None THEN FALSE
       ELSE owner[t].by = "gateway" \/ owner[t].reservation # None

\* _owner_noop_handle: it has no settlement capability, so nothing is signalled.
Skip(t, c) ==
    /\ at[c] = "reserve" /\ Skipped(t)
    /\ handle' = [handle EXCEPT ![c] = "noop"]
    /\ Run(t, c)
    /\ UNCHANGED <<mode, owner, cost, sent, files, ledger, faults>>

\* Mutant: the reservation is not written into the context.
BindNothing(t, c) == UNCHANGED owner

\* Mutant: the reservation takes the place of the owner.
BindOver(t, c) == owner' = [owner EXCEPT ![t] = IF @ = None THEN None ELSE c]

\* bind_decision_refs: nothing outside of a scope.
Bind(t, c) ==
    owner' = [owner EXCEPT ![t] = IF @ = None THEN None ELSE [@ EXCEPT !.reservation = c]]

Reserve(t, c) ==
    /\ at[c] = "reserve" /\ ~Skipped(t)
    /\ mode.lifecycle
    /\ ledger' = [ledger EXCEPT ![c] = "reserved"]
    /\ handle' = [handle EXCEPT ![c] = "lifecycle"]
    /\ Bind(t, c)
    /\ Go(t, c, "start")
    /\ UNCHANGED <<mode, cost, sent, files, ran, faults>>

\* /v1/budget/check: a float; the ids are bound if FinOps sends any.
ReserveLegacy(t, c) ==
    /\ at[c] = "reserve" /\ ~Skipped(t)
    /\ ~mode.lifecycle
    /\ ledger' = [ledger EXCEPT ![c] = "reserved"]
    /\ handle' = [handle EXCEPT ![c] = "legacy"]
    /\ Bind(t, c) \/ UNCHANGED owner
    /\ Run(t, c)
    /\ UNCHANGED <<mode, cost, sent, files, faults>>

PerhapsReserved(c) == ledger' \in {ledger, [ledger EXCEPT ![c] = "reserved"]}

\* A denial, or no answer under fail-closed: the call ends.
Refuse(t, c) ==
    /\ at[c] = "reserve" /\ ~Skipped(t)
    /\ PerhapsReserved(c)
    /\ Go(t, c, "refused")
    /\ UNCHANGED <<mode, owner, handle, cost, sent, files, ran, faults>>

\* No answer under fail-open, of the deployment or, in the lifecycle protocol, of
\* the organisation: it runs with nothing to settle.
RunFree(t, c) ==
    /\ at[c] = "reserve" /\ ~Skipped(t)
    /\ mode.strict => OrgOpen /\ mode.lifecycle
    /\ PerhapsReserved(c)
    /\ handle' = [handle EXCEPT ![c] = IF mode.lifecycle THEN "free" ELSE "legacy"]
    /\ Run(t, c)
    /\ UNCHANGED <<mode, owner, cost, sent, files, faults>>

-----------------------------------------------------------------------------
(* Signals. *)

Event(c) ==
    IF at[c] = "start" THEN "provider_started"
    ELSE IF at[c] = "cancel" THEN "cancel_before_call"
    ELSE IF cost[c] = "unknown" THEN "outcome_unknown" ELSE "usage_known"

\* The transitions of a reservation: it is started unless it is cancelled,
\* cancelled unless it was started, and has an outcome only after it was.
Accepts(c, event) ==
    IF event = "provider_started" THEN ledger[c] # "cancelled_before_call"
    ELSE IF event = "cancel_before_call" THEN ledger[c] \in {"reserved", "cancelled_before_call"}
    ELSE ledger[c] \in {"in_flight", "settled", "pending_reconciliation"}

\* FinOps takes a signal; one that comes too late or once more leaves the
\* reservation as it is.
Apply(c, event) ==
    /\ Accepts(c, event)
    /\ ledger' = [ledger EXCEPT ![c] =
         IF event = "usage_known" THEN "settled"
         ELSE IF event = "provider_started" /\ @ = "reserved" THEN "in_flight"
         ELSE IF event = "cancel_before_call" THEN "cancelled_before_call"
         ELSE IF event = "outcome_unknown" /\ @ = "in_flight" THEN "pending_reconciliation"
         ELSE @]

Journal(t, c) ==
    /\ handle[c] = "lifecycle" /\ c \notin sent
    /\ at[c] \in {"start", "settle", "mark", "cancel"} /\ Inner(t) = c
    /\ journal' = journal \cup {<<c, Event(c)>>}
    /\ sent' = sent \cup {c}
    /\ UNCHANGED <<mode, at, owner, frames, handle, cost, aside, ledger, ran, faults>>

\* After a cancel_before_call the exception that caused it goes on.
Acked(t, c) ==
    /\ c \in sent
    /\ Apply(c, Event(c))
    /\ journal' = journal \ {<<c, Event(c)>>}
    /\ sent' = sent \ {c}
    /\ IF at[c] = "start" THEN Run(t, c)
       ELSE Go(t, c, IF at[c] = "cancel" THEN "refused" ELSE "returned") /\ UNCHANGED ran
    /\ UNCHANGED <<mode, owner, handle, cost, aside, faults>>

\* What follows a signal that failed: a start that is required gives the
\* reservation back, a settlement is signalled once more, the last signals are
\* best effort.
Failed(t, c) ==
    \/ /\ at[c] = "start" /\ mode.strict
       /\ Go(t, c, "cancel") /\ UNCHANGED ran
    \/ /\ at[c] = "start" /\ ~mode.strict
       /\ Run(t, c)
    \/ /\ at[c] = "settle"
       /\ Go(t, c, "mark") /\ UNCHANGED ran
    \/ /\ at[c] \in {"mark", "cancel"}
       /\ Go(t, c, IF at[c] = "cancel" THEN "refused" ELSE "returned") /\ UNCHANGED ran

\* No acknowledgement, whether FinOps applied the signal or not.
Unacked(t, c) ==
    /\ c \in sent
    /\ Apply(c, Event(c)) \/ UNCHANGED ledger
    /\ sent' = sent \ {c}
    /\ Failed(t, c)
    /\ UNCHANGED <<mode, owner, handle, cost, files, faults>>

Fault(kind) ==
    /\ faults.journal + faults.cancel + faults.refusal < MaxFaults
    /\ faults' = [faults EXCEPT ![kind] = @ + 1]

\* The intent cannot be journaled.  The sync signal raises also where it is
\* not required, so that the start gives the reservation back.
Unjournaled(t, c) ==
    /\ handle[c] = "lifecycle" /\ c \notin sent
    /\ Fault("journal")
    /\ IF at[c] = "start" /\ c \notin Async THEN Go(t, c, "cancel") /\ UNCHANGED ran
       ELSE Failed(t, c)
    /\ UNCHANGED <<mode, owner, handle, cost, sent, files, ledger>>

-----------------------------------------------------------------------------
(* The function, and what settles it. *)

\* The call ends with this cost: settled if it is known; a legacy reservation
\* of unknown cost, a free and a noop handle have nothing to settle.
Settle(t, c, usd, step) ==
    /\ cost' = [cost EXCEPT ![c] = usd]
    /\ Go(t, c, IF handle[c] = "lifecycle" THEN step
                ELSE IF handle[c] = "legacy" /\ usd # "unknown" THEN "settle" ELSE "returned")

\* A response with usage, or without; an exception, of a definitive refusal
\* (exactly $0) or any other, a cancellation included; a response whose price
\* raises.
Returns(t, c) ==
    /\ at[c] = "provider"
    /\ \/ Settle(t, c, "known", "settle")
       \/ \E usd \in {"known", "unknown"} : Settle(t, c, usd, "mark")
    /\ UNCHANGED <<mode, owner, handle, sent, files, ledger, ran, faults>>

\* _guard_legacy_reconcile: one request, its failure is logged.
SettleLegacy(t, c) ==
    /\ at[c] = "settle" /\ handle[c] = "legacy"
    /\ ledger' \in {ledger, [ledger EXCEPT ![c] = "settled"]}
    /\ Go(t, c, "returned")
    /\ UNCHANGED <<mode, owner, handle, cost, sent, files, ran, faults>>

\* CancelledError, where an async call awaits FinOps: the start gives the
\* reservation back, any other step just ends.
Cancel(t, c) ==
    /\ c \in Async
    /\ Fault("cancel")
    /\ \/ /\ at[c] = "reserve" /\ ~Skipped(t)
          /\ PerhapsReserved(c)
          /\ Go(t, c, "abandoned")
          /\ UNCHANGED sent
       \/ /\ c \in sent
          /\ Apply(c, Event(c)) \/ UNCHANGED ledger
          /\ Go(t, c, IF at[c] = "start" THEN "cancel" ELSE "abandoned")
          /\ sent' = sent \ {c}
    /\ UNCHANGED <<mode, owner, handle, cost, files, ran>>

\* The flusher of the journal: FinOps takes the intent, or answers 4xx (not 408 or
\* 429) for a transition that is not allowed or else for the key, the scope or the
\* body, and the record goes to quarantine/ and is not sent again.
Deliver(c, event) == Apply(c, event) /\ UNCHANGED <<aside, faults>>

\* Mutant: a refused record is removed.
DropRefused(c, event) == UNCHANGED <<aside, ledger, faults>>

Quarantine(c, event) ==
    /\ IF Accepts(c, event) THEN Fault("refusal") ELSE UNCHANGED faults
    /\ aside' = IF event = "provider_started" THEN aside ELSE aside \cup {c}
    /\ UNCHANGED ledger

Flush(c, event) ==
    /\ <<c, event>> \in journal
    /\ Deliver(c, event) \/ Quarantine(c, event)
    /\ journal' = journal \ {<<c, event>>}
    /\ UNCHANGED <<mode, at, owner, frames, handle, cost, sent, ran>>

Scope(t) ==
    \/ \E by \in {"sdk", "gateway"} : Claim(t, by)
    \/ Leave(t)
    \/ \E u \in Tasks : Spawn(t, u)

Call(t, c) ==
    \/ Begin(t, c) \/ Skip(t, c) \/ Reserve(t, c) \/ ReserveLegacy(t, c)
    \/ Refuse(t, c) \/ RunFree(t, c)
    \/ Journal(t, c) \/ Acked(t, c) \/ Unacked(t, c) \/ Unjournaled(t, c)
    \/ Returns(t, c) \/ SettleLegacy(t, c) \/ Cancel(t, c)

Next ==
    \/ \E t \in Tasks : Scope(t) \/ \E c \in Calls : Call(t, c)
    \/ \E c \in Calls, event \in Events : Flush(c, event)

Spec == Init /\ [][Next]_vars

-----------------------------------------------------------------------------
(* Properties. *)

\* "Nested same-owner scopes reuse one reservation instead of double-charging":
\* a call inside a scope, made by the function of a call of that scope that
\* reserved, makes no reservation of its own, also through further scopes.
NestedChargedOnce ==
    \A t \in Tasks : \A i \in DOMAIN frames[t] : \A j \in 1..(i - 1) :
        LET c == frames[t][j].call  d == frames[t][i].call IN
        (/\ c # None /\ d # None /\ handle[d] = "lifecycle"
         /\ \E k \in (i + 1)..Len(frames[t]) : frames[t][k].call = None)
        => handle[c] # "lifecycle"

\* The outcome of a call that ran, and the cancellation of one refused at its
\* start, are at FinOps, in the journal or in quarantine, unless the journal failed:
\* lost answers, cancellations, and refusals for the order in which the flusher
\* delivers the intents of a call, lose nothing.  Where provider_started is required,
\* FinOps never refuses the outcome of a call that ran for its transition.
OutcomeKept ==
    faults.journal = 0 => \A c \in Calls : at[c] \in Ended /\ handle[c] = "lifecycle" =>
        \/ c \in ran /\ ledger[c] \in {"settled", "pending_reconciliation"}
        \/ c \notin ran /\ ledger[c] = "cancelled_before_call"
        \/ <<c, Event(c)>> \in journal
        \/ c \notin ran /\ <<c, "cancel_before_call">> \in journal
        \/ c \in aside /\ (mode.strict /\ c \in ran => faults.refusal > 0)

\* FinOps knows how the call ended, or a record tells it, to be sent or set aside for
\* a person, or the journal failed.
Evident(c) ==
    \/ ledger[c] \in {"settled", "pending_reconciliation"}
    \/ \E event \in {"usage_known", "outcome_unknown"} : <<c, event>> \in journal
    \/ c \in aside
    \/ faults.journal > 0

\* A call whose function has ended, and one that has ended with a reservation.
Done == {c \in ran : at[c] # "provider"}
Over == {c \in ran : at[c] \in Ended /\ handle[c] = "lifecycle"}

\* What FinOps has of the reservations of the lifecycle protocol.
Account(c) == IF handle[c] = "legacy" THEN "none" ELSE ledger[c]

Contract == INSTANCE ReservationContract WITH
    Amounts <- {"known"},
    Unknown <- "unknown",
    account <- [c \in Calls |-> Account(c)],
    amount <- [c \in Calls |-> IF Account(c) = "settled" THEN "known" ELSE "unknown"],
    done <- Done,
    told <- {c \in Calls : Evident(c)},
    over <- Over

\* A guarded call keeps the contract of reservations: whatever the order in which
\* the flusher delivers its signals, a call that ran is never cancelled at
\* FinOps, one that is cancelled never runs, a known cost is not undone, and what
\* FinOps refuses is set aside.
ImplementsContract == Contract!Spec

=============================================================================
