------------------------- MODULE GuardedCallProofs -------------------------
(***************************************************************************)
(* What the guarded calls promise for any number of tasks and calls, any   *)
(* depth of nesting and any number of faults: the three invariants of the  *)
(* run, and the contract of reservations. One half of the inductive        *)
(* invariant follows a reservation from the handle to FinOps, the other the*)
(* contents of the owner variable through the frames of a task.            *)
(***************************************************************************)
EXTENDS GuardedCall, TLAPS

USE DEF files

-----------------------------------------------------------------------------
(* The inductive invariant: what happens to a reservation. *)

\* What the step a call is in says of its handle and its function.
PhaseOK(c) ==
    /\ at[c] \in {"new", "reserve"} => handle[c] = "none"
    /\ at[c] \in {"start", "mark", "cancel"} => handle[c] = "lifecycle"
    /\ at[c] = "settle" => handle[c] \in {"lifecycle", "legacy"}
    /\ at[c] \in {"new", "reserve", "start", "cancel", "refused"} => c \notin ran
    /\ at[c] \in {"provider", "settle", "mark", "returned"} => c \in ran
    /\ c \in sent => handle[c] = "lifecycle"

Settled(c) == ledger[c] \in {"settled", "pending_reconciliation"}
Cancelled(c) == ledger[c] = "cancelled_before_call"
Filed(c, event) == <<c, event>> \in journal

\* A reservation whose call ran is not cancelled and never will be, one whose
\* call did not is not settled and never will be.  A call that had to be started
\* first was, and so only a refusal for another reason sets its outcome aside.
ReservationOK(c) ==
    /\ handle[c] # "lifecycle" => \A event \in Events : ~Filed(c, event)
    /\ handle[c] = "lifecycle" /\ c \in ran =>
         ledger[c] \in {"reserved", "in_flight"} \/ Settled(c)
    /\ handle[c] = "lifecycle" /\ c \notin ran =>
         ledger[c] \in {"reserved", "in_flight"} \/ Cancelled(c)
    /\ at[c] = "start" => ~Cancelled(c)
    /\ c \in ran \/ at[c] = "start" => ~Filed(c, "cancel_before_call")
    /\ c \notin ran => ~Filed(c, "usage_known") /\ ~Filed(c, "outcome_unknown")
    /\ handle[c] # "lifecycle" \/ at[c] = "start" => c \notin aside
    /\ mode.strict /\ c \in ran /\ handle[c] = "lifecycle" => ledger[c] # "reserved"
    /\ mode.strict /\ c \in ran /\ c \in aside => faults.refusal > 0

\* FinOps has the last signal of a call, or the journal has, or it is set aside.
Told(c) ==
    /\ c \in ran => Settled(c) \/ Filed(c, Event(c)) \/ c \in aside
    /\ c \notin ran => Cancelled(c) \/ Filed(c, "cancel_before_call") \/ c \in aside

ToldOK(c) ==
    /\ c \in sent /\ at[c] # "start" => Told(c)
    /\ faults.journal = 0 /\ at[c] \in Ended /\ handle[c] = "lifecycle" => Told(c)

Sound(c) == PhaseOK(c) /\ ReservationOK(c) /\ ToldOK(c)

-----------------------------------------------------------------------------
(* The inductive invariant: the owner variable. *)

\* A call is in one frame at most, and only an innermost one is not in its
\* function.
FramesOK ==
    \A t \in Tasks : \A i \in DOMAIN frames[t] :
        LET c == frames[t][i].call IN
        c # None =>
            /\ at[c] \in Steps \ {"new"}
            /\ i # 1 => at[c] = "provider"
            /\ \A u \in Tasks : \A j \in DOMAIN frames[u] :
                 frames[u][j].call = c => u = t /\ j = i

IsScope(t, i) == frames[t][i].call = None

\* Every value the variable of a task had inside of a scope is an owner.
ScopesOK ==
    \A t \in Tasks : \A i \in DOMAIN frames[t] : IsScope(t, i) =>
        /\ owner[t] # None
        /\ \A j \in 1..(i - 1) : IsScope(t, j) => frames[t][j].saved # None

Bound(o) == o # None /\ o.reservation # None

\* Inside of a scope, a call that reserved has left its reservation or another
\* in every value the variable had since, and the calls its function made
\* have none.
Inside(t, i) ==
    /\ ~IsScope(t, i) /\ handle[frames[t][i].call] = "lifecycle"
    /\ \E k \in (i + 1)..Len(frames[t]) : IsScope(t, k)

Covers(t, j) ==
    IF IsScope(t, j) THEN Bound(frames[t][j].saved) ELSE handle[frames[t][j].call] # "lifecycle"

BoundOK ==
    \A t \in Tasks : \A i \in DOMAIN frames[t] :
        Inside(t, i) => Bound(owner[t]) /\ \A j \in 1..(i - 1) : Covers(t, j)

IInv ==
    /\ TypeOK
    /\ \A c \in Calls : Sound(c)
    /\ FramesOK
    /\ ScopesOK
    /\ BoundOK

-----------------------------------------------------------------------------
(* Frames that are pushed and popped. *)

LEMMA Pushing ==
    ASSUME TypeOK, NEW t \in Tasks, NEW x \in Frames,
           frames' = [frames EXCEPT ![t] = <<x>> \o @]
    PROVE  /\ frames' \in [Tasks -> Seq(Frames)]
           /\ \A u \in Tasks \ {t} : frames'[u] = frames[u]
           /\ frames'[t] \in Seq(Frames) /\ Len(frames'[t]) = Len(frames[t]) + 1
           /\ frames'[t][1] = x
           /\ \A i \in DOMAIN frames'[t] : i # 1 =>
                i - 1 \in DOMAIN frames[t] /\ frames'[t][i] = frames[t][i - 1]
<1>1. frames \in [Tasks -> Seq(Frames)]
    BY DEF TypeOK
<1>2. frames'[t] = <<x>> \o frames[t]
    BY <1>1
<1>3. \A q \in Seq(Frames) :
         /\ <<x>> \o q \in Seq(Frames) /\ Len(<<x>> \o q) = Len(q) + 1
         /\ (<<x>> \o q)[1] = x
         /\ \A i \in DOMAIN (<<x>> \o q) : i # 1 =>
               i - 1 \in DOMAIN q /\ (<<x>> \o q)[i] = q[i - 1]
    OBVIOUS
<1> QED
    BY <1>1, <1>2, <1>3

LEMMA Popping ==
    ASSUME TypeOK, NEW t \in Tasks, frames[t] # <<>>,
           frames' = [frames EXCEPT ![t] = Tail(@)]
    PROVE  /\ frames' \in [Tasks -> Seq(Frames)]
           /\ \A u \in Tasks \ {t} : frames'[u] = frames[u]
           /\ frames'[t] \in Seq(Frames) /\ Len(frames'[t]) = Len(frames[t]) - 1
           /\ \A i \in DOMAIN frames'[t] :
                i + 1 \in DOMAIN frames[t] /\ frames'[t][i] = frames[t][i + 1]
<1>1. frames \in [Tasks -> Seq(Frames)]
    BY DEF TypeOK
<1>2. frames'[t] = Tail(frames[t])
    BY <1>1
<1>3. \A q \in Seq(Frames) : q # <<>> =>
         /\ Tail(q) \in Seq(Frames) /\ Len(Tail(q)) = Len(q) - 1
         /\ \A i \in DOMAIN Tail(q) : i + 1 \in DOMAIN q /\ Tail(q)[i] = q[i + 1]
    OBVIOUS
<1> QED
    BY <1>1, <1>2, <1>3

LEMMA FrameTyped ==
    ASSUME TypeOK, NEW t \in Tasks, NEW i \in DOMAIN frames[t]
    PROVE  /\ i \in Nat \ {0} /\ i <= Len(frames[t]) /\ Len(frames[t]) \in Nat
           /\ frames[t][i].call \in Calls \cup {None}
           /\ frames[t][i].saved \in Owners \cup {None}
<1>1. frames[t] \in Seq(Frames)
    BY DEF TypeOK
<1>2. frames[t][i] \in Frames /\ i \in 1..Len(frames[t]) /\ Len(frames[t]) \in Nat
    BY <1>1
<1> QED
    BY <1>2 DEF Frames

\* The innermost frame of a task.
LEMMA Innermost ==
    ASSUME TypeOK, NEW t \in Tasks
    PROVE  /\ frames[t] # <<>> => 1 \in DOMAIN frames[t] /\ Inner(t) = frames[t][1].call
           /\ \A c \in Calls : Inner(t) = c => frames[t] # <<>>
           /\ frames[t] # <<>> => Head(frames[t]) = frames[t][1] /\ frames[t][1] \in Frames
BY GuardedCallAssumption DEF TypeOK, Inner

\* A call that goes on is in the innermost frame of its task, which is popped
\* when the call ends.
LEMMA Going ==
    ASSUME TypeOK, NEW t \in Tasks, NEW c \in Calls, NEW s \in Steps \cup Ended, Go(t, c, s)
    PROVE  /\ frames[t] # <<>> /\ 1 \in DOMAIN frames[t] /\ frames[t][1].call = c
           /\ at' = [at EXCEPT ![c] = s]
           /\ IF s \in Ended THEN frames' = [frames EXCEPT ![t] = Tail(@)]
              ELSE frames' = frames
<1>1. frames \in [Tasks -> Seq(Frames)]
    BY DEF TypeOK
<1>2. s \notin Ended => frames' = frames
    BY <1>1 DEF Go, TypeOK
<1> QED
    BY <1>2, Innermost DEF Go

-----------------------------------------------------------------------------
(* What the steps of a call do to the frames, the owner and the handle. *)

\* Where a call may go.
Targets == (Steps \ {"new", "reserve"}) \cup Ended

LEMMA CallShape ==
    ASSUME TypeOK, NEW t \in Tasks, NEW c \in Calls, Call(t, c), ~Begin(t, c)
    PROVE  /\ at[c] # "new" /\ at[c] \notin Ended
           /\ \/ UNCHANGED <<at, frames>> /\ Inner(t) = c
              \/ \E s \in Targets : Go(t, c, s)
           /\ UNCHANGED owner \/ (at[c] = "reserve" /\ ~Skipped(t) /\ Bind(t, c))
           /\ \/ UNCHANGED handle
              \/ /\ at[c] = "reserve"
                 /\ \E h \in Handles : handle' = [handle EXCEPT ![c] = h]
           /\ handle'[c] = "lifecycle" /\ handle[c] # "lifecycle" => ~Skipped(t) /\ Bind(t, c)
<1>1. Journal(t, c) => Inner(t) = c /\ UNCHANGED <<at, frames, owner, handle>>
                       /\ at[c] \in {"start", "settle", "mark", "cancel"}
    BY DEF Journal
<1>2. CASE Skip(t, c)
    BY <1>2 DEF Skip, Run, TypeOK, Targets, Steps, Handles, Ended
<1>3. CASE Reserve(t, c)
    BY <1>3 DEF Reserve, Targets, Steps, Handles, Ended
<1>4. CASE ReserveLegacy(t, c)
    BY <1>4 DEF ReserveLegacy, Run, TypeOK, Targets, Steps, Handles, Ended
<1>5. CASE Refuse(t, c)
    BY <1>5 DEF Refuse, Targets, Steps, Handles, Ended
<1>6. CASE RunFree(t, c)
    BY <1>6 DEF RunFree, Run, TypeOK, Targets, Steps, Handles, Ended
<1>7. CASE Acked(t, c)
    BY <1>7 DEF Acked, Run, TypeOK, Targets, Steps, Ended
<1>8. CASE Unacked(t, c) \/ Unjournaled(t, c)
    BY <1>8 DEF Unacked, Unjournaled, Failed, Run, TypeOK, Targets, Steps, Ended
<1>9. CASE Returns(t, c) \/ SettleLegacy(t, c)
    BY <1>9 DEF Returns, Settle, SettleLegacy, TypeOK, Targets, Steps, Ended
<1>10. CASE Cancel(t, c)
    BY <1>10 DEF Cancel, TypeOK, Targets, Steps, Ended
<1> QED
    BY <1>1, <1>2, <1>3, <1>4, <1>5, <1>6, <1>7, <1>8, <1>9, <1>10 DEF Call, TypeOK, Ended

-----------------------------------------------------------------------------
(* Every step keeps the type. *)

FramesTyped ==
    /\ frames \in [Tasks -> Seq(Frames)]
    /\ \A t \in Tasks : Len(frames[t]) <= MaxFrames

LEMMA TypeOfGoing ==
    ASSUME TypeOK, NEW t \in Tasks, NEW c \in Calls, NEW s \in Steps \cup Ended, Go(t, c, s)
    PROVE  FramesTyped' /\ at' \in [Calls -> Steps \cup Ended]
<1>1. FramesTyped'
    <2>1. CASE s \in Ended
        <3>1. frames[t] # <<>> /\ frames' = [frames EXCEPT ![t] = Tail(@)]
            BY <2>1, Going
        <3>2. /\ frames' \in [Tasks -> Seq(Frames)] /\ Len(frames'[t]) = Len(frames[t]) - 1
              /\ \A u \in Tasks \ {t} : frames'[u] = frames[u]
            BY <3>1, Popping
        <3>3. Len(frames[t]) \in Nat /\ MaxFrames \in Nat
              /\ \A u \in Tasks : Len(frames[u]) <= MaxFrames
            BY GuardedCallAssumption DEF TypeOK
        <3>4. \A u \in Tasks : Len(frames'[u]) <= MaxFrames
            BY <3>2, <3>3
        <3> QED
            BY <3>2, <3>4 DEF FramesTyped
    <2>2. CASE s \notin Ended
        BY <2>2, Going DEF TypeOK, FramesTyped
    <2> QED
        BY <2>1, <2>2
<1>2. at' = [at EXCEPT ![c] = s]
    BY Going
<1> QED
    BY <1>1, <1>2 DEF TypeOK

LEMMA TypeOfBind ==
    ASSUME TypeOK, NEW t \in Tasks, NEW c \in Calls, Bind(t, c) \/ UNCHANGED owner
    PROVE  owner' \in [Tasks -> Owners \cup {None}]
<1>1. owner \in [Tasks -> Owners \cup {None}]
    BY DEF TypeOK
<1>2. \A o \in Owners : [o EXCEPT !.reservation = c] \in Owners
    BY DEF Owners
<1>3. CASE Bind(t, c)
    <2>1. (IF owner[t] = None THEN None ELSE [owner[t] EXCEPT !.reservation = c])
              \in Owners \cup {None}
        BY <1>1, <1>2
    <2> QED
        BY <1>1, <1>3, <2>1 DEF Bind
<1> QED
    BY <1>1, <1>3

LEMMA EventOK == ASSUME NEW c PROVE Event(c) \in Events
BY DEF Event, Events

LEMMA TypeOfApply ==
    ASSUME TypeOK, NEW c \in Calls, NEW event \in Events,
           Apply(c, event) \/ UNCHANGED ledger \/ PerhapsReserved(c)
    PROVE  ledger' \in [Calls -> {"none", "reserved", "in_flight", "settled",
                                  "pending_reconciliation", "cancelled_before_call"}]
BY DEF TypeOK, Apply, PerhapsReserved

\* A call on its way to FinOps has journaled its signal, and goes nowhere while
\* it is.
Waiting == {"start", "settle", "mark", "cancel"}

LEMMA TypeStep == TypeOK /\ (\A c \in Calls : PhaseOK(c)) /\ [Next]_vars => TypeOK'
<1> SUFFICES ASSUME TypeOK, \A c \in Calls : PhaseOK(c), [Next]_vars PROVE TypeOK'
    OBVIOUS
<1> USE GuardedCallAssumption
<1>1. ASSUME NEW t \in Tasks, NEW by \in {"sdk", "gateway"}, Claim(t, by) PROVE TypeOK'
    <2>1. [call |-> None, saved |-> owner[t]] \in Frames
        BY DEF TypeOK, Frames
    <2>2. owner' \in [Tasks -> Owners \cup {None}]
        BY <1>1 DEF Claim, TypeOK, Owners
    <2>3. FramesTyped'
        BY <1>1, <2>1, Pushing DEF Claim, Free, TypeOK, FramesTyped
    <2> QED
        BY <1>1, <2>2, <2>3 DEF Claim, TypeOK, FramesTyped
<1>2. ASSUME NEW t \in Tasks, Leave(t) PROVE TypeOK'
    <2>1. Head(frames[t]) \in Frames
        BY <1>2, Innermost DEF Leave
    <2>2. owner' \in [Tasks -> Owners \cup {None}]
        BY <1>2, <2>1 DEF Leave, TypeOK, Frames
    <2>3. FramesTyped'
        BY <1>2, Popping DEF Leave, TypeOK, FramesTyped
    <2> QED
        BY <1>2, <2>2, <2>3 DEF Leave, TypeOK, FramesTyped
<1>3. ASSUME NEW t \in Tasks, NEW u \in Tasks, Spawn(t, u) PROVE TypeOK'
    BY <1>3 DEF Spawn, TypeOK
<1>4. ASSUME NEW t \in Tasks, NEW c \in Calls, Begin(t, c) PROVE TypeOK'
    <2>1. [call |-> c, saved |-> None] \in Frames
        BY DEF Frames
    <2>2. FramesTyped'
        BY <1>4, <2>1, Pushing DEF Begin, Free, TypeOK, FramesTyped
    <2> QED
        BY <1>4, <2>2 DEF Begin, TypeOK, FramesTyped, Steps
<1>5. ASSUME NEW t \in Tasks, NEW c \in Calls, Call(t, c), ~Begin(t, c) PROVE TypeOK'
    <2>1. FramesTyped' /\ at' \in [Calls -> Steps \cup Ended]
        BY <1>5, CallShape, TypeOfGoing DEF Targets, TypeOK, FramesTyped
    <2>2. owner' \in [Tasks -> Owners \cup {None}]
        BY <1>5, CallShape, TypeOfBind
    <2>3. handle' \in [Calls -> Handles]
        BY <1>5, CallShape DEF TypeOK
    <2>4. ledger' \in [Calls -> {"none", "reserved", "in_flight", "settled",
                                 "pending_reconciliation", "cancelled_before_call"}]
        BY <1>5, EventOK, TypeOfApply
           DEF Call, Skip, Reserve, ReserveLegacy, Refuse, RunFree, Journal, Acked, Unacked,
               Unjournaled, Returns, SettleLegacy, Cancel, TypeOK
    <2>5. sent' \subseteq {d \in Calls : at'[d] \in Waiting}
        <3>1. \A d \in Calls \ {c} : at'[d] = at[d]
            <4>1. CASE UNCHANGED <<at, frames>>
                BY <4>1
            <4>2. ASSUME NEW s \in Targets, Go(t, c, s) PROVE at' = [at EXCEPT ![c] = s]
                BY <4>2 DEF Go
            <4> QED
                BY <1>5, <4>1, <4>2, CallShape DEF TypeOK
        <3>2. \A d \in Calls \ {c} : d \in sent' => d \in sent
            BY <1>5
               DEF Call, Skip, Reserve, ReserveLegacy, Refuse, RunFree, Journal, Acked, Unacked,
                   Unjournaled, Returns, SettleLegacy, Cancel
        <3>3. c \in sent' => at'[c] = at[c] /\ at[c] \in Waiting
            BY <1>5
               DEF Call, Skip, Reserve, ReserveLegacy, Refuse, RunFree, Journal, Acked, Unacked,
                   Unjournaled, Returns, SettleLegacy, Cancel, TypeOK, PhaseOK, Waiting
        <3>4. sent' \subseteq Calls
            BY <1>5
               DEF Call, Skip, Reserve, ReserveLegacy, Refuse, RunFree, Journal, Acked, Unacked,
                   Unjournaled, Returns, SettleLegacy, Cancel, TypeOK
        <3> QED
            BY <3>1, <3>2, <3>3, <3>4 DEF TypeOK, Waiting
    <2>6. cost' \in [Calls -> {"known", "unknown"}]
        BY <1>5
           DEF Call, Skip, Reserve, ReserveLegacy, Refuse, RunFree, Journal, Acked, Unacked,
               Unjournaled, Returns, Settle, SettleLegacy, Cancel, TypeOK
    <2>7. journal' \subseteq Calls \X Events /\ aside' \subseteq Calls
        BY <1>5, EventOK
           DEF Call, Skip, Reserve, ReserveLegacy, Refuse, RunFree, Journal, Acked, Unacked,
               Unjournaled, Returns, SettleLegacy, Cancel, TypeOK
    <2>8. ran' \subseteq Calls
        BY <1>5
           DEF Call, Skip, Reserve, ReserveLegacy, Refuse, RunFree, Journal, Acked, Unacked,
               Unjournaled, Failed, Returns, SettleLegacy, Cancel, Run, TypeOK
    <2>9. /\ faults' \in [journal : 0..MaxFaults, cancel : 0..MaxFaults, refusal : 0..MaxFaults]
          /\ UNCHANGED mode
        BY <1>5
           DEF Call, Skip, Reserve, ReserveLegacy, Refuse, RunFree, Journal, Acked, Unacked,
               Unjournaled, Returns, SettleLegacy, Cancel, Fault, TypeOK
    <2> QED
        BY <2>1, <2>2, <2>3, <2>4, <2>5, <2>6, <2>7, <2>8, <2>9
           DEF TypeOK, FramesTyped, Waiting
<1>6. ASSUME NEW c \in Calls, NEW event \in Events, Flush(c, event) PROVE TypeOK'
    <2>1. faults' \in [journal : 0..MaxFaults, cancel : 0..MaxFaults, refusal : 0..MaxFaults]
        BY <1>6 DEF Flush, Deliver, Quarantine, Fault, TypeOK
    <2> QED
        BY <1>6, <2>1, TypeOfApply DEF Flush, Deliver, Quarantine, TypeOK
<1>7. CASE UNCHANGED vars
    BY <1>7 DEF vars, TypeOK
<1> QED
    BY <1>1, <1>2, <1>3, <1>4, <1>5, <1>6, <1>7 DEF Next, Scope

-----------------------------------------------------------------------------
(* The half of a reservation. *)

\* What leaves everything about the reservation of a call as it was.
Untouched(d) ==
    /\ at'[d] = at[d] /\ handle'[d] = handle[d] /\ cost'[d] = cost[d]
    /\ d \in sent' <=> d \in sent
    /\ d \in ran' <=> d \in ran
    /\ ledger'[d] = ledger[d]
    /\ \A event \in Events : <<d, event>> \in journal' <=> <<d, event>> \in journal
    /\ d \in aside' <=> d \in aside

\* What every step leaves of the deployment and the faults.
Quiet ==
    /\ UNCHANGED mode
    /\ faults'.journal = 0 => faults.journal = 0
    /\ faults.refusal > 0 => faults'.refusal > 0

LEMMA OthersUntouched ==
    ASSUME TypeOK, NEW t \in Tasks, NEW c \in Calls, Call(t, c), NEW d \in Calls \ {c}
    PROVE  Untouched(d) /\ Quiet
<1> DEFINE ItsStep == Skip(t, c) \/ Reserve(t, c) \/ ReserveLegacy(t, c) \/ Refuse(t, c)
                     \/ RunFree(t, c) \/ Journal(t, c) \/ Acked(t, c) \/ Unacked(t, c)
                     \/ Unjournaled(t, c) \/ Returns(t, c) \/ SettleLegacy(t, c) \/ Cancel(t, c)
<1>1. CASE Begin(t, c)
    BY <1>1 DEF Begin, TypeOK, Untouched, Quiet
<1>2. CASE ~Begin(t, c)
    <2> ItsStep
        BY <1>2 DEF Call
    <2>1. at'[d] = at[d]
        <3>1. ASSUME NEW s \in Targets, Go(t, c, s) PROVE at' = [at EXCEPT ![c] = s]
            BY <3>1 DEF Go
        <3> QED
            BY <1>2, <3>1, CallShape DEF TypeOK
    <2>2. handle'[d] = handle[d]
        BY <1>2, CallShape DEF TypeOK
    <2>3. ledger'[d] = ledger[d]
        BY DEF Skip, Reserve, ReserveLegacy, Refuse, RunFree, Journal, Acked, Unacked,
               Unjournaled, Returns, SettleLegacy, Cancel, TypeOK, Apply, PerhapsReserved
    <2>4. cost'[d] = cost[d]
        BY DEF Skip, Reserve, ReserveLegacy, Refuse, RunFree, Journal, Acked, Unacked,
               Unjournaled, Returns, SettleLegacy, Settle, Cancel, TypeOK
    <2>5. /\ d \in sent' <=> d \in sent
          /\ \A event \in Events : <<d, event>> \in journal' <=> <<d, event>> \in journal
          /\ d \in aside' <=> d \in aside
        BY DEF Skip, Reserve, ReserveLegacy, Refuse, RunFree, Journal, Acked, Unacked,
               Unjournaled, Returns, SettleLegacy, Cancel
    <2>6. d \in ran' <=> d \in ran
        BY DEF Skip, Reserve, ReserveLegacy, Refuse, RunFree, Journal, Acked, Unacked,
               Unjournaled, Failed, Returns, SettleLegacy, Cancel, Run
    <2>7. Quiet
        BY DEF Skip, Reserve, ReserveLegacy, Refuse, RunFree, Journal, Acked, Unacked,
               Unjournaled, Returns, SettleLegacy, Cancel, Fault, TypeOK, Quiet
    <2> QED
        BY <2>1, <2>2, <2>3, <2>4, <2>5, <2>6, <2>7 DEF Untouched
<1> QED
    BY <1>1, <1>2

LEMMA UntouchedSound ==
    ASSUME NEW d, Sound(d), Untouched(d), Quiet
    PROVE  Sound(d)'
<1> DEFINE F(event) == Filed(d, event)
<1>1. /\ at'[d] = at[d] /\ handle'[d] = handle[d] /\ cost'[d] = cost[d]
      /\ d \in sent' <=> d \in sent
      /\ d \in ran' <=> d \in ran
      /\ ledger'[d] = ledger[d]
      /\ \A event \in Events : Filed(d, event)' <=> Filed(d, event)
      /\ d \in aside' <=> d \in aside
    BY DEF Untouched, Filed
<1>2. Event(d)' = Event(d) /\ Event(d) \in Events
    BY <1>1, EventOK DEF Event
<1>3. Told(d) => Told(d)'
    BY <1>1, <1>2 DEF Told, Settled, Cancelled, Events
<1>4. PhaseOK(d)'
    BY <1>1 DEF Sound, PhaseOK
<1>5. ReservationOK(d)'
    BY <1>1 DEF Sound, ReservationOK, Settled, Cancelled, Events, Quiet
<1> QED
    BY <1>1, <1>3, <1>4, <1>5 DEF Sound, ToldOK, Quiet

\* What FinOps makes of a signal of the call.
LEMMA Applying ==
    ASSUME TypeOK, NEW c \in Calls, Sound(c), handle[c] = "lifecycle",
           NEW event \in Events, Apply(c, event),
           c \in ran => event # "cancel_before_call",
           c \notin ran => event \in {"provider_started", "cancel_before_call"}
    PROVE  /\ c \in ran => /\ ledger'[c] \in {"reserved", "in_flight"} \/ Settled(c)'
                           /\ Settled(c) => Settled(c)'
                           /\ event \in {"usage_known", "outcome_unknown"} => Settled(c)'
           /\ c \notin ran => /\ ledger'[c] \in {"reserved", "in_flight"} \/ Cancelled(c)'
                              /\ Cancelled(c) => Cancelled(c)'
                              /\ event = "cancel_before_call" => Cancelled(c)'
                              /\ event # "cancel_before_call" /\ ~Cancelled(c) => ~Cancelled(c)'
           /\ ledger[c] # "reserved" \/ event = "provider_started" => ledger'[c] # "reserved"
BY DEF TypeOK, Sound, ReservationOK, Apply, Accepts, Settled, Cancelled, Events

\* The signal a call is about to send, or is sending.
LEMMA ItsEvent ==
    ASSUME TypeOK, NEW c \in Calls, Sound(c), at[c] \in Waiting, handle[c] = "lifecycle"
    PROVE  /\ at[c] = "start" => Event(c) = "provider_started" /\ c \notin ran
           /\ at[c] = "cancel" => Event(c) = "cancel_before_call" /\ c \notin ran
           /\ at[c] \in {"settle", "mark"} =>
                Event(c) \in {"usage_known", "outcome_unknown"} /\ c \in ran
           /\ Event(c) \in Events
BY DEF Waiting, Event, Events, Sound, PhaseOK

LEMMA SoundStep ==
    ASSUME TypeOK, NEW t \in Tasks, NEW c \in Calls, Sound(c), Call(t, c)
    PROVE  Sound(c)'
<1> USE DEF Sound, PhaseOK, ReservationOK, ToldOK
<1>1. CASE Begin(t, c)
    <2>1. /\ at[c] = "new" /\ at'[c] = "reserve" /\ c \notin sent
          /\ UNCHANGED <<handle, cost, sent, journal, aside, mode, ledger, ran, faults>>
        BY <1>1 DEF Begin, TypeOK
    <2> QED
        BY <2>1 DEF Filed, Settled, Cancelled, Ended
<1>2. CASE Skip(t, c) \/ ReserveLegacy(t, c) \/ RunFree(t, c)
    <2>1. /\ at[c] = "reserve" /\ at'[c] = "provider" /\ c \notin sent
          /\ handle'[c] \in {"noop", "legacy", "free"} /\ ran' = ran \cup {c}
          /\ UNCHANGED <<cost, sent, journal, aside, mode, faults>>
        BY <1>2 DEF Skip, ReserveLegacy, RunFree, Run, Go, TypeOK
    <2> QED
        BY <2>1 DEF Filed, Events, Ended
<1>3. CASE Reserve(t, c)
    <2>1. /\ at[c] = "reserve" /\ at'[c] = "start" /\ c \notin sent
          /\ handle'[c] = "lifecycle" /\ ledger'[c] = "reserved"
          /\ UNCHANGED <<cost, sent, journal, aside, mode, ran, faults>>
        BY <1>3 DEF Reserve, Go, TypeOK
    <2> QED
        BY <2>1 DEF Filed, Events, Cancelled, Ended
<1>4. CASE Refuse(t, c)
    <2>1. /\ at[c] = "reserve" /\ at'[c] = "refused" /\ c \notin sent
          /\ UNCHANGED <<handle, cost, sent, journal, aside, mode, ran, faults>>
        BY <1>4 DEF Refuse, Go, TypeOK
    <2> QED
        BY <2>1 DEF Filed, Events, Ended
<1>5. CASE Journal(t, c)
    <2>1. /\ at[c] \in Waiting /\ handle[c] = "lifecycle" /\ sent' = sent \cup {c}
          /\ journal' = journal \cup {<<c, Event(c)>>}
          /\ UNCHANGED <<at, handle, cost, aside, mode, ledger, ran, faults>>
        BY <1>5 DEF Journal, Waiting
    <2>2. Event(c)' = Event(c)
        BY <2>1 DEF Event
    <2>3. Filed(c, Event(c))'
        BY <2>1, <2>2 DEF Filed
    <2>4. \A event \in Events : event # Event(c) => (Filed(c, event)' <=> Filed(c, event))
        BY <2>1 DEF Filed
    <2>5. ReservationOK(c)'
        BY <2>1, <2>4, ItsEvent DEF Settled, Cancelled, Events, Waiting
    <2>6. at[c] # "start" => Told(c)'
        BY <2>1, <2>2, <2>3, ItsEvent DEF Told, Waiting
    <2> QED
        BY <2>1, <2>5, <2>6 DEF Waiting, Ended
<1>6. CASE Acked(t, c)
    <2>1. /\ c \in sent /\ at[c] \in Waiting /\ handle[c] = "lifecycle"
          /\ sent' = sent \ {c} /\ journal' = journal \ {<<c, Event(c)>>}
          /\ Apply(c, Event(c))
          /\ UNCHANGED <<handle, cost, aside, mode, faults>>
        BY <1>6 DEF Acked, TypeOK, Waiting
    <2>2. at[c] = "start" => at'[c] = "provider" /\ ran' = ran \cup {c}
        BY <1>6 DEF Acked, Run, Go, TypeOK
    <2>3. at[c] # "start" =>
            UNCHANGED ran /\ at'[c] = (IF at[c] = "cancel" THEN "refused" ELSE "returned")
        BY <1>6 DEF Acked, Go, TypeOK
    <2>4. \A event \in Events : Filed(c, event)' => Filed(c, event)
        BY <2>1 DEF Filed
    <2>5. CASE at[c] = "start"
        <3>1. ledger'[c] = "in_flight" /\ c \notin ran /\ c \notin aside
            BY <2>1, <2>5, ItsEvent, Applying
        <3> QED
            BY <2>1, <2>2, <2>4, <2>5, <3>1 DEF Events, Ended
    <2>6. CASE at[c] = "cancel"
        <3>1. Cancelled(c)' /\ c \notin ran
            BY <2>1, <2>6, ItsEvent, Applying
        <3> QED
            BY <2>1, <2>3, <2>4, <2>6, <3>1 DEF Told, Events
    <2>7. CASE at[c] \in {"settle", "mark"}
        <3>1. Settled(c)' /\ c \in ran
            BY <2>1, <2>7, ItsEvent, Applying
        <3> QED
            BY <2>1, <2>3, <2>4, <2>7, <3>1 DEF Told, Events, Settled
    <2> QED
        BY <2>1, <2>5, <2>6, <2>7 DEF Waiting
\* A signal that is not acknowledged is still filed, unless the flusher got it
\* through.
<1>7. CASE Unacked(t, c)
    <2>1. /\ c \in sent /\ at[c] \in Waiting /\ handle[c] = "lifecycle"
          /\ sent' = sent \ {c}
          /\ Apply(c, Event(c)) \/ UNCHANGED ledger
          /\ UNCHANGED <<handle, cost, journal, aside, mode, faults>>
        BY <1>7 DEF Unacked, TypeOK, Waiting
    <2>2. /\ at[c] = "start" => \/ at'[c] = "cancel" /\ UNCHANGED ran
                                \/ at'[c] = "provider" /\ ran' = ran \cup {c} /\ ~mode.strict
          /\ at[c] = "settle" => at'[c] = "mark" /\ UNCHANGED ran
          /\ at[c] = "mark" => at'[c] = "returned" /\ UNCHANGED ran
          /\ at[c] = "cancel" => at'[c] = "refused" /\ UNCHANGED ran
        BY <1>7 DEF Unacked, Failed, Run, Go, TypeOK
    <2>3. \A event \in Events : Filed(c, event)' <=> Filed(c, event)
        BY <2>1 DEF Filed
    <2>4. CASE at[c] = "start"
        <3>1. ledger'[c] \in {"reserved", "in_flight"} /\ c \notin ran /\ c \notin aside
            BY <2>1, <2>4, ItsEvent, Applying DEF Cancelled
        <3> QED
            BY <2>1, <2>2, <2>3, <2>4, <3>1 DEF Events, Ended
    <2>5. CASE at[c] = "cancel"
        <3>1. /\ c \notin ran
              /\ Cancelled(c)' \/ Filed(c, "cancel_before_call") \/ c \in aside
              /\ ledger'[c] \in {"reserved", "in_flight"} \/ Cancelled(c)'
            BY <2>1, <2>5, ItsEvent, Applying DEF Told, Cancelled
        <3> QED
            BY <2>1, <2>2, <2>3, <2>5, <3>1 DEF Told, Events
    <2>6. CASE at[c] \in {"settle", "mark"}
        <3>1. /\ c \in ran
              /\ Settled(c)' \/ Filed(c, Event(c)) \/ c \in aside
              /\ Settled(c)' \/ ledger'[c] \in {"reserved", "in_flight"}
              /\ ledger[c] # "reserved" => ledger'[c] # "reserved"
            BY <2>1, <2>6, ItsEvent, Applying DEF Told, Settled
        <3>2. Event(c)' = Event(c) /\ Event(c) \in Events
            BY <2>1, <2>2, <2>6, EventOK DEF Event
        <3> QED
            BY <2>1, <2>2, <2>3, <2>6, <3>1, <3>2 DEF Told, Events
    <2> QED
        BY <2>1, <2>4, <2>5, <2>6 DEF Waiting
<1>8. CASE Unjournaled(t, c)
    <2>1. /\ handle[c] = "lifecycle" /\ c \notin sent /\ faults'.journal # 0
          /\ UNCHANGED <<handle, cost, sent, journal, aside, mode, ledger>>
          /\ faults.refusal = faults'.refusal
        BY <1>8 DEF Unjournaled, Fault, TypeOK
    <2>2. \/ at[c] = "start" /\ at'[c] = "cancel" /\ UNCHANGED ran
          \/ /\ at[c] = "start" /\ at'[c] = "provider" /\ ran' = ran \cup {c}
             /\ ~mode.strict
          \/ at[c] = "settle" /\ at'[c] = "mark" /\ UNCHANGED ran
          \/ at[c] = "mark" /\ at'[c] = "returned" /\ UNCHANGED ran
          \/ at[c] = "cancel" /\ at'[c] = "refused" /\ UNCHANGED ran
        BY <1>8 DEF Unjournaled, Failed, Run, Go, TypeOK
    <2> QED
        BY <2>1, <2>2 DEF Filed, Settled, Cancelled, Events
<1>9. CASE Returns(t, c)
    <2>1. /\ at[c] = "provider" /\ c \notin sent
          /\ UNCHANGED <<handle, sent, journal, aside, mode, ledger, ran, faults>>
          /\ handle[c] = "lifecycle" => at'[c] \in {"settle", "mark"}
          /\ handle[c] # "lifecycle" => at'[c] = "returned" \/ (at'[c] = "settle" /\ handle[c] = "legacy")
        BY <1>9 DEF Returns, Settle, Go, TypeOK
    <2> QED
        BY <2>1 DEF Filed, Settled, Cancelled, Ended
<1>10. CASE SettleLegacy(t, c)
    <2>1. /\ at[c] = "settle" /\ handle[c] = "legacy" /\ at'[c] = "returned"
          /\ UNCHANGED <<handle, sent, journal, aside, mode, ran, faults>>
        BY <1>10 DEF SettleLegacy, Go, TypeOK
    <2> QED
        BY <2>1 DEF Filed
<1>11. CASE Cancel(t, c)
    <2>1. /\ sent' = sent \ {c} /\ faults'.journal = faults.journal
          /\ faults'.refusal = faults.refusal
          /\ UNCHANGED <<handle, cost, journal, aside, mode, ran>>
        BY <1>11 DEF Cancel, Fault, TypeOK
    <2>2. \A event \in Events : Filed(c, event)' <=> Filed(c, event)
        BY <2>1 DEF Filed
    <2>3. CASE at[c] = "reserve"
        <3>1. at'[c] = "abandoned"
            BY <1>11, <2>3 DEF Cancel, Go, TypeOK
        <3> QED
            BY <2>1, <2>2, <2>3, <3>1 DEF Events, Ended
    <2>4. CASE at[c] # "reserve"
        <3>1. /\ c \in sent /\ at[c] \in Waiting /\ handle[c] = "lifecycle"
              /\ Apply(c, Event(c)) \/ UNCHANGED ledger
              /\ at'[c] = (IF at[c] = "start" THEN "cancel" ELSE "abandoned")
            BY <1>11, <2>4 DEF Cancel, Go, TypeOK, Waiting
        <3>2. /\ c \in ran => ledger'[c] \in {"reserved", "in_flight"} \/ Settled(c)'
              /\ c \notin ran => ledger'[c] \in {"reserved", "in_flight"} \/ Cancelled(c)'
              /\ ledger[c] # "reserved" => ledger'[c] # "reserved"
            BY <3>1, ItsEvent, Applying DEF Settled, Cancelled, Waiting
        <3>3. at[c] = "start" => c \notin ran
            OBVIOUS
        <3> QED
            <4>1. PhaseOK(c)'
                BY <2>1, <3>1, <3>3
            <4>2. ReservationOK(c)'
                BY <2>1, <2>2, <3>1, <3>2, <3>3 DEF Events
            <4>3. at[c] # "start" => Told(c)'
                <5>1. CASE at[c] = "cancel"
                    <6>1. c \notin ran /\ (Cancelled(c) => Cancelled(c)')
                        BY <3>1, <5>1, ItsEvent, Applying DEF Cancelled
                    <6> QED
                        BY <2>1, <2>2, <3>1, <5>1, <6>1 DEF Told, Events
                <5>2. CASE at[c] \in {"settle", "mark"}
                    <6>1. c \in ran /\ (Settled(c) => Settled(c)')
                        BY <3>1, <5>2, ItsEvent, Applying DEF Settled
                    <6>2. Event(c)' = Event(c) /\ Event(c) \in Events
                        BY <2>1, <3>1, <5>2, EventOK DEF Event
                    <6> QED
                        BY <2>1, <2>2, <3>1, <5>2, <6>1, <6>2 DEF Told
                <5> QED
                    BY <3>1, <5>1, <5>2 DEF Waiting
            <4>4. ToldOK(c)'
                BY <2>1, <3>1, <4>3 DEF Ended
            <4> QED
                BY <4>1, <4>2, <4>4
    <2> QED
        BY <2>3, <2>4
<1> QED
    BY <1>1, <1>2, <1>3, <1>4, <1>5, <1>6, <1>7, <1>8, <1>9, <1>10, <1>11 DEF Call

\* The flusher delivers a signal beside the call, or sets it aside, at any time.
LEMMA FlushShape ==
    ASSUME TypeOK, NEW c \in Calls, Sound(c), NEW event \in Events, Flush(c, event)
    PROVE  /\ Filed(c, event) /\ journal' = journal \ {<<c, event>>}
           /\ UNCHANGED <<mode, at, handle, cost, sent, ran>> /\ Quiet
           /\ handle[c] = "lifecycle"
           /\ c \in ran => event # "cancel_before_call"
           /\ c \notin ran => event \in {"provider_started", "cancel_before_call"}
           /\ at[c] = "start" => event = "provider_started"
           /\ \A e \in Events : Filed(c, e)' <=> Filed(c, e) /\ e # event
<1>1. /\ Filed(c, event) /\ journal' = journal \ {<<c, event>>}
      /\ UNCHANGED <<mode, at, handle, cost, sent, ran>>
    BY DEF Flush, Filed
<1>2. Quiet
    BY <1>1 DEF Flush, Deliver, Quarantine, Fault, Quiet, TypeOK
<1> QED
    BY <1>1, <1>2 DEF Sound, PhaseOK, ReservationOK, Events, Filed

LEMMA FlushOthers ==
    ASSUME TypeOK, NEW c \in Calls, NEW event \in Events, Flush(c, event), NEW d \in Calls \ {c}
    PROVE  Untouched(d)
BY DEF Flush, Deliver, Quarantine, Apply, TypeOK, Untouched

LEMMA SoundFlush ==
    ASSUME TypeOK, NEW c \in Calls, Sound(c), NEW event \in Events, Flush(c, event)
    PROVE  Sound(c)'
<1>1. /\ Filed(c, event) /\ handle[c] = "lifecycle" /\ Quiet
      /\ UNCHANGED <<mode, at, handle, cost, sent, ran>>
      /\ c \in ran => event # "cancel_before_call"
      /\ c \notin ran => event \in {"provider_started", "cancel_before_call"}
      /\ at[c] = "start" => event = "provider_started"
      /\ \A e \in Events : Filed(c, e)' <=> Filed(c, e) /\ e # event
    BY FlushShape
<1>2. Event(c)' = Event(c) /\ Event(c) \in Events
    BY <1>1, EventOK DEF Event
<1>3. at[c] # "start" => /\ c \in ran => Event(c) \in {"usage_known", "outcome_unknown"}
                         /\ Event(c) # "provider_started"
    BY DEF Event, Sound, PhaseOK
<1>4. PhaseOK(c)'
    BY <1>1 DEF Sound, PhaseOK
<1>5. ASSUME Deliver(c, event)
      PROVE  (Told(c) /\ at[c] # "start" => Told(c)') /\ ReservationOK(c)'
    <2>1. Apply(c, event) /\ UNCHANGED <<aside, faults>>
        BY <1>5 DEF Deliver
    <2>2. Told(c) /\ at[c] # "start" => Told(c)'
        <3>1. CASE c \in ran
            BY <1>1, <1>2, <1>3, <2>1, <3>1, Applying DEF Told
        <3>2. CASE c \notin ran
            BY <1>1, <2>1, <3>2, Applying DEF Told, Events
        <3> QED
            BY <3>1, <3>2
    <2>3. ReservationOK(c)'
        BY <1>1, <2>1, Applying DEF Sound, ReservationOK, PhaseOK, Events
    <2> QED
        BY <2>2, <2>3
<1>6. ASSUME Quarantine(c, event)
      PROVE  (Told(c) /\ at[c] # "start" => Told(c)') /\ ReservationOK(c)'
    <2>1. /\ UNCHANGED ledger /\ aside \subseteq aside'
          /\ event # "provider_started" => c \in aside'
          /\ event = "provider_started" => aside' = aside
          /\ Accepts(c, event) => faults'.refusal > 0
        BY <1>6 DEF Quarantine, Fault, TypeOK
    <2>2. Told(c) /\ at[c] # "start" => Told(c)'
        BY <1>1, <1>2, <1>3, <2>1 DEF Told, Settled, Cancelled, Events
    <2>3. mode.strict /\ c \in ran /\ event # "provider_started" => Accepts(c, event)
        BY <1>1 DEF Sound, ReservationOK, Settled, Accepts, Events
    <2>4. ReservationOK(c)'
        BY <1>1, <2>1, <2>3 DEF Sound, ReservationOK, Settled, Cancelled, Quiet, Events
    <2> QED
        BY <2>2, <2>4
<1>7. (Told(c) /\ at[c] # "start" => Told(c)') /\ ReservationOK(c)'
    BY <1>5, <1>6 DEF Flush
<1> QED
    BY <1>1, <1>4, <1>7 DEF Sound, ToldOK, Ended, Quiet

-----------------------------------------------------------------------------
(* The half of the owner variable. *)

\* What a step of a call does to its task's innermost frame: nothing, or it is
\* popped.
LEMMA CallFrames ==
    ASSUME TypeOK, NEW t \in Tasks, NEW c \in Calls, Call(t, c), ~Begin(t, c)
    PROVE  /\ frames[t] # <<>> /\ 1 \in DOMAIN frames[t] /\ frames[t][1].call = c
           /\ \A d \in Calls \ {c} : at'[d] = at[d] /\ handle'[d] = handle[d]
           /\ \/ frames' = frames /\ at'[c] \in Steps \ {"new"}
              \/ frames' = [frames EXCEPT ![t] = Tail(@)]
<1>1. CASE UNCHANGED <<at, frames>> /\ Inner(t) = c
    BY <1>1, CallShape, Innermost DEF TypeOK
<1>2. ASSUME NEW s \in Targets, Go(t, c, s)
      PROVE  /\ frames[t] # <<>> /\ 1 \in DOMAIN frames[t] /\ frames[t][1].call = c
             /\ at' = [at EXCEPT ![c] = s]
             /\ \/ frames' = frames /\ s \in Steps \ {"new"}
                \/ frames' = [frames EXCEPT ![t] = Tail(@)]
    BY <1>2, Going DEF Targets
<1>3. at \in [Calls -> Steps \cup Ended] /\ handle \in [Calls -> Handles]
    BY DEF TypeOK
<1>4. \A d \in Calls \ {c} : handle'[d] = handle[d]
    BY <1>3, CallShape
<1>5. \A d \in Calls \ {c} : at'[d] = at[d]
    BY <1>2, <1>3, CallShape
<1>6. at[c] \in Steps \ {"new"}
    BY <1>3, CallShape
<1> QED
    BY <1>1, <1>2, <1>3, <1>4, <1>5, <1>6, CallShape

LEMMA FramesStep == TypeOK /\ TypeOK' /\ FramesOK /\ [Next]_vars => FramesOK'
<1> SUFFICES ASSUME TypeOK, TypeOK', FramesOK, [Next]_vars PROVE FramesOK'
    OBVIOUS
<1> USE GuardedCallAssumption
\* A frame is pushed while the innermost call, if any, is in its function.
<1>1. ASSUME NEW t \in Tasks, NEW x \in Frames, frames' = [frames EXCEPT ![t] = <<x>> \o @],
             frames[t] # <<>> /\ frames[t][1].call # None => at[frames[t][1].call] = "provider",
             x.call # None => at[x.call] = "new" /\ at'[x.call] = "reserve",
             \A d \in Calls : d # x.call => at'[d] = at[d]
      PROVE  FramesOK'
    <2> SUFFICES ASSUME NEW u \in Tasks, NEW i \in DOMAIN frames'[u], frames'[u][i].call # None
                 PROVE  /\ at'[frames'[u][i].call] \in Steps \ {"new"}
                        /\ i # 1 => at'[frames'[u][i].call] = "provider"
                        /\ \A v \in Tasks : \A j \in DOMAIN frames'[v] :
                             frames'[v][j].call = frames'[u][i].call => v = u /\ j = i
        BY DEF FramesOK
    <2> DEFINE was(v, j) == IF v = t THEN j - 1 ELSE j
    <2>1. \A v \in Tasks : \A j \in DOMAIN frames'[v] : ~(v = t /\ j = 1) =>
             was(v, j) \in DOMAIN frames[v] /\ frames'[v][j] = frames[v][was(v, j)]
        <3>1. /\ \A v \in Tasks \ {t} : frames'[v] = frames[v]
              /\ \A j \in DOMAIN frames'[t] : j # 1 =>
                   j - 1 \in DOMAIN frames[t] /\ frames'[t][j] = frames[t][j - 1]
            BY <1>1, Pushing
        <3> QED
            BY <3>1
    <2>2. 1 \in DOMAIN frames'[t] /\ frames'[t][1] = x
        BY <1>1, Pushing DEF TypeOK
    <2>3. \A v \in Tasks : \A j \in DOMAIN frames[v] :
             frames[v][j].call # None => frames[v][j].call # x.call /\ frames[v][j].call \in Calls
        BY <1>1, FrameTyped DEF FramesOK
    <2>4. CASE u = t /\ i = 1
        BY <1>1, <2>1, <2>2, <2>3, <2>4 DEF Steps
    <2>5. CASE ~(u = t /\ i = 1)
        <3>1. was(u, i) \in DOMAIN frames[u] /\ frames'[u][i] = frames[u][was(u, i)]
            BY <2>1, <2>5
        <3>2. at'[frames'[u][i].call] = at[frames[u][was(u, i)].call]
            BY <1>1, <2>3, <3>1
        <3>3. i # 1 => at[frames[u][was(u, i)].call] = "provider"
            BY <1>1, <3>1, <2>5 DEF FramesOK, TypeOK
        <3>4. ASSUME NEW v \in Tasks, NEW j \in DOMAIN frames'[v],
                     frames'[v][j].call = frames'[u][i].call
              PROVE  v = u /\ j = i
            <4>1. ~(v = t /\ j = 1)
                BY <2>2, <2>3, <3>1, <3>4
            <4>2. v = u /\ was(v, j) = was(u, i)
                BY <2>1, <3>1, <3>4, <4>1 DEF FramesOK
            <4> QED
                BY <4>2 DEF TypeOK
        <3> QED
            BY <3>1, <3>2, <3>3, <3>4 DEF FramesOK
    <2> QED
        BY <2>4, <2>5
\* A frame is popped, of a call that has ended or of a scope.
<1>2. ASSUME NEW t \in Tasks, frames[t] # <<>>, frames' = [frames EXCEPT ![t] = Tail(@)],
             \A d \in Calls : d # frames[t][1].call => at'[d] = at[d]
      PROVE  FramesOK'
    <2> SUFFICES ASSUME NEW u \in Tasks, NEW i \in DOMAIN frames'[u], frames'[u][i].call # None
                 PROVE  /\ at'[frames'[u][i].call] \in Steps \ {"new"}
                        /\ i # 1 => at'[frames'[u][i].call] = "provider"
                        /\ \A v \in Tasks : \A j \in DOMAIN frames'[v] :
                             frames'[v][j].call = frames'[u][i].call => v = u /\ j = i
        BY DEF FramesOK
    <2> DEFINE was(v, j) == IF v = t THEN j + 1 ELSE j
    <2>1. \A v \in Tasks : \A j \in DOMAIN frames'[v] :
             was(v, j) \in DOMAIN frames[v] /\ frames'[v][j] = frames[v][was(v, j)]
        <3>1. /\ \A v \in Tasks \ {t} : frames'[v] = frames[v]
              /\ \A j \in DOMAIN frames'[t] :
                   j + 1 \in DOMAIN frames[t] /\ frames'[t][j] = frames[t][j + 1]
            BY <1>2, Popping
        <3> QED
            BY <3>1
    <2>2. frames[u][was(u, i)].call \in Calls /\ ~(u = t /\ was(u, i) = 1)
        <3>1. frames[u][was(u, i)].call \in Calls
            BY <2>1, FrameTyped
        <3>2. i \in Nat \ {0}
            <4>1. frames'[u] \in Seq(Frames)
                BY DEF TypeOK
            <4> QED
                BY <4>1
        <3> QED
            BY <3>1, <3>2
    <2>3. frames[u][was(u, i)].call # frames[t][1].call
        BY <1>2, <2>1, <2>2, Innermost DEF FramesOK
    <2>4. at'[frames'[u][i].call] = at[frames[u][was(u, i)].call]
        BY <1>2, <2>1, <2>2, <2>3
    <2>5. i # 1 => was(u, i) # 1
        BY <2>1, <2>2 DEF TypeOK
    <2>6. ASSUME NEW v \in Tasks, NEW j \in DOMAIN frames'[v],
                 frames'[v][j].call = frames'[u][i].call
          PROVE  v = u /\ j = i
        <3>1. v = u /\ was(v, j) = was(u, i)
            BY <2>1, <2>6 DEF FramesOK
        <3> QED
            BY <3>1 DEF TypeOK
    <2> QED
        BY <2>1, <2>4, <2>5, <2>6 DEF FramesOK
<1>3. ASSUME NEW t \in Tasks, NEW by \in {"sdk", "gateway"}, Claim(t, by) PROVE FramesOK'
    <2>1. [call |-> None, saved |-> owner[t]] \in Frames
        BY DEF TypeOK, Frames
    <2>2. frames[t] # <<>> /\ frames[t][1].call # None => at[frames[t][1].call] = "provider"
        BY <1>3, Innermost DEF Claim, Free
    <2> QED
        BY <1>1, <1>3, <2>1, <2>2 DEF Claim
<1>4. ASSUME NEW t \in Tasks, NEW c \in Calls, Begin(t, c) PROVE FramesOK'
    <2>1. [call |-> c, saved |-> None] \in Frames
        BY DEF Frames
    <2>2. frames[t] # <<>> /\ frames[t][1].call # None => at[frames[t][1].call] = "provider"
        BY <1>4, Innermost DEF Begin, Free
    <2>3. at[c] = "new" /\ at'[c] = "reserve" /\ \A d \in Calls : d # c => at'[d] = at[d]
        BY <1>4 DEF Begin, TypeOK
    <2> QED
        BY <1>1, <1>4, <2>1, <2>2, <2>3 DEF Begin
<1>5. ASSUME NEW t \in Tasks, Leave(t) PROVE FramesOK'
    BY <1>2, <1>5 DEF Leave
<1>6. ASSUME NEW t \in Tasks, NEW c \in Calls, Call(t, c), ~Begin(t, c) PROVE FramesOK'
    <2>1. CASE frames' = [frames EXCEPT ![t] = Tail(@)]
        BY <1>2, <1>6, <2>1, CallFrames
    <2>2. CASE frames' = frames /\ at'[c] \in Steps \ {"new"}
        <3>1. frames[t][1].call = c /\ 1 \in DOMAIN frames[t]
              /\ \A d \in Calls \ {c} : at'[d] = at[d]
            BY <1>6, CallFrames
        <3>2. \A u \in Tasks : \A i \in DOMAIN frames[u] :
                 /\ frames[u][i].call # None => frames[u][i].call \in Calls
                 /\ frames[u][i].call = c => u = t /\ i = 1
            BY <3>1, FrameTyped DEF FramesOK
        <3> QED
            BY <2>2, <3>1, <3>2 DEF FramesOK
    <2> QED
        BY <1>6, <2>1, <2>2, CallFrames
<1>7. ASSUME UNCHANGED <<at, frames>> PROVE FramesOK'
    BY <1>7 DEF FramesOK
<1> QED
    BY <1>3, <1>4, <1>5, <1>6, <1>7 DEF Next, Scope, Spawn, Flush, vars

\* Whatever is bound in a scope stays an owner.
LEMMA ScopesStep == TypeOK /\ TypeOK' /\ ScopesOK /\ [Next]_vars => ScopesOK'
<1> SUFFICES ASSUME TypeOK, TypeOK', ScopesOK, [Next]_vars,
                    NEW u \in Tasks, NEW i \in DOMAIN frames'[u], frames'[u][i].call = None
             PROVE  /\ owner'[u] # None
                    /\ \A j \in 1..(i - 1) : frames'[u][j].call = None => frames'[u][j].saved # None
    BY DEF ScopesOK, IsScope
<1> USE GuardedCallAssumption
<1>0. i \in Nat \ {0} /\ i <= Len(frames'[u]) /\ \A j \in 1..(i - 1) : j \in DOMAIN frames'[u]
    <2>1. frames'[u] \in Seq(Frames)
        BY DEF TypeOK
    <2> QED
        BY <2>1
<1>1. ASSUME frames'[u] = frames[u], owner[u] # None => owner'[u] # None
      PROVE  /\ owner'[u] # None
             /\ \A j \in 1..(i - 1) : frames'[u][j].call = None => frames'[u][j].saved # None
    BY <1>0, <1>1 DEF ScopesOK, IsScope
<1>2. ASSUME NEW t \in Tasks, NEW by \in {"sdk", "gateway"}, Claim(t, by)
      PROVE  /\ owner'[u] # None
             /\ \A j \in 1..(i - 1) : frames'[u][j].call = None => frames'[u][j].saved # None
    <2> DEFINE x == [call |-> None, saved |-> owner[t]]
    <2>1. CASE u # t
        BY <1>1, <1>2, <2>1 DEF Claim, TypeOK
    <2>2. CASE u = t
        <3>1. owner'[t] # None
            <4>1. [by |-> by, reservation |-> None] \in Owners
                BY DEF Owners
            <4> QED
                BY <1>2, <4>1 DEF Claim, TypeOK
        <3>2. x \in Frames
            BY DEF TypeOK, Frames
        <3>3. /\ frames'[t][1] = x
              /\ \A j \in DOMAIN frames'[t] : j # 1 =>
                    j - 1 \in DOMAIN frames[t] /\ frames'[t][j] = frames[t][j - 1]
            BY <1>2, <3>2, Pushing DEF Claim
        <3>4. ASSUME NEW j \in 1..(i - 1), frames'[t][j].call = None
              PROVE  frames'[t][j].saved # None
            <4>1. i # 1 /\ i - 1 \in DOMAIN frames[t] /\ frames[t][i - 1].call = None
                BY <1>0, <2>2, <3>3, <3>4
            <4>2. CASE j = 1
                BY <3>3, <4>1, <4>2 DEF ScopesOK, IsScope
            <4>3. CASE j # 1
                <5>1. j - 1 \in 1..((i - 1) - 1) /\ frames'[t][j] = frames[t][j - 1]
                    BY <1>0, <2>2, <3>3, <4>3
                <5> QED
                    BY <3>4, <4>1, <5>1 DEF ScopesOK, IsScope
            <4> QED
                BY <4>2, <4>3
        <3> QED
            BY <2>2, <3>1, <3>4
    <2> QED
        BY <2>1, <2>2
<1>3. ASSUME NEW t \in Tasks, NEW c \in Calls, Begin(t, c)
      PROVE  /\ owner'[u] # None
             /\ \A j \in 1..(i - 1) : frames'[u][j].call = None => frames'[u][j].saved # None
    <2> DEFINE x == [call |-> c, saved |-> None]
    <2>1. CASE u # t
        BY <1>1, <1>3, <2>1 DEF Begin, TypeOK
    <2>2. CASE u = t
        <3>1. UNCHANGED owner
            BY <1>3 DEF Begin
        <3>2. x \in Frames
            BY DEF Frames
        <3>3. /\ frames'[t][1] = x
              /\ \A j \in DOMAIN frames'[t] : j # 1 =>
                    j - 1 \in DOMAIN frames[t] /\ frames'[t][j] = frames[t][j - 1]
            BY <1>3, <3>2, Pushing DEF Begin
        <3>4. i # 1 /\ i - 1 \in DOMAIN frames[t] /\ frames[t][i - 1].call = None
            BY <1>0, <2>2, <3>3
        <3>5. ASSUME NEW j \in 1..(i - 1), frames'[t][j].call = None
              PROVE  frames'[t][j].saved # None
            <4>1. j # 1
                BY <3>3, <3>5
            <4>2. j - 1 \in 1..((i - 1) - 1) /\ frames'[t][j] = frames[t][j - 1]
                BY <1>0, <2>2, <3>3, <4>1
            <4> QED
                BY <3>4, <3>5, <4>2 DEF ScopesOK, IsScope
        <3> QED
            BY <2>2, <3>1, <3>4, <3>5 DEF ScopesOK, IsScope
    <2> QED
        BY <2>1, <2>2
\* A frame is popped: what it saved, if it was a scope, was an owner.
<1>4. ASSUME NEW t \in Tasks, frames[t] # <<>>, frames' = [frames EXCEPT ![t] = Tail(@)],
             \A v \in Tasks \ {t} : owner'[v] = owner[v],
             \/ owner[t] # None => owner'[t] # None
             \/ frames[t][1].call = None /\ owner'[t] = frames[t][1].saved
      PROVE  /\ owner'[u] # None
             /\ \A j \in 1..(i - 1) : frames'[u][j].call = None => frames'[u][j].saved # None
    <2>1. CASE u # t
        BY <1>1, <1>4, <2>1 DEF TypeOK
    <2>2. CASE u = t
        <3>1. \A j \in DOMAIN frames'[t] :
                 j + 1 \in DOMAIN frames[t] /\ frames'[t][j] = frames[t][j + 1]
            BY <1>4, Popping
        <3>2. i + 1 \in DOMAIN frames[t] /\ frames[t][i + 1].call = None
            BY <2>2, <3>1
        <3>3. owner'[t] # None
            <4>1. owner[t] # None
                BY <3>2 DEF ScopesOK, IsScope
            <4>2. frames[t][1].call = None => frames[t][1].saved # None
                BY <1>0, <3>2 DEF ScopesOK, IsScope
            <4> QED
                BY <1>4, <4>1, <4>2
        <3>4. ASSUME NEW j \in 1..(i - 1), frames'[t][j].call = None
              PROVE  frames'[t][j].saved # None
            <4>1. j + 1 \in 1..((i + 1) - 1)
                BY <1>0
            <4>2. j \in DOMAIN frames'[t]
                BY <1>0, <2>2
            <4>3. frames'[t][j] = frames[t][j + 1]
                BY <3>1, <4>2
            <4> QED
                BY <3>2, <3>4, <4>1, <4>3 DEF ScopesOK, IsScope
        <3> QED
            BY <2>2, <3>3, <3>4
    <2> QED
        BY <2>1, <2>2
<1>5. ASSUME NEW t \in Tasks, Leave(t)
      PROVE  /\ owner'[u] # None
             /\ \A j \in 1..(i - 1) : frames'[u][j].call = None => frames'[u][j].saved # None
    <2>1. frames[t][1].call = None /\ Head(frames[t]) = frames[t][1]
        BY <1>5, Innermost DEF Leave
    <2>2. frames[t] # <<>> /\ frames' = [frames EXCEPT ![t] = Tail(@)]
        BY <1>5 DEF Leave
    <2>3. (\A v \in Tasks \ {t} : owner'[v] = owner[v]) /\ owner'[t] = Head(frames[t]).saved
        BY <1>5 DEF Leave, TypeOK
    <2> QED
        BY <1>4, <2>1, <2>2, <2>3
<1>6. ASSUME NEW t \in Tasks, NEW v \in Tasks, Spawn(t, v)
      PROVE  /\ owner'[u] # None
             /\ \A j \in 1..(i - 1) : frames'[u][j].call = None => frames'[u][j].saved # None
    BY <1>1, <1>6 DEF Spawn, TypeOK
<1>7. ASSUME NEW t \in Tasks, NEW c \in Calls, Call(t, c), ~Begin(t, c)
      PROVE  /\ owner'[u] # None
             /\ \A j \in 1..(i - 1) : frames'[u][j].call = None => frames'[u][j].saved # None
    <2>1. /\ \A v \in Tasks \ {t} : owner'[v] = owner[v]
          /\ owner[t] # None => owner'[t] # None
        <3>1. \A o \in Owners : [o EXCEPT !.reservation = c] \in Owners
            BY DEF Owners
        <3>2. Bind(t, c) => \/ owner[t] = None
                            \/ owner'[t] = [owner[t] EXCEPT !.reservation = c]
            BY DEF Bind, TypeOK
        <3>3. Bind(t, c) => \A v \in Tasks \ {t} : owner'[v] = owner[v]
            BY DEF Bind, TypeOK
        <3>4. UNCHANGED owner \/ Bind(t, c)
            BY <1>7, CallShape
        <3>5. owner[t] # None => owner[t] \in Owners
            BY DEF TypeOK
        <3>6. None \notin Owners
            BY GuardedCallAssumption
        <3> QED
            BY <3>1, <3>2, <3>3, <3>4, <3>5, <3>6
    <2> QED
        BY <1>1, <1>4, <1>7, <2>1, CallFrames
<1> QED
    BY <1>1, <1>2, <1>3, <1>5, <1>6, <1>7 DEF Next, Scope, Flush, vars

\* What a call left in the owner variable stays there, and covers the calls inside.
LEMMA BoundStep ==
    TypeOK /\ TypeOK' /\ FramesOK /\ ScopesOK /\ BoundOK /\ (\A c \in Calls : PhaseOK(c)) /\ [Next]_vars
      => BoundOK'
<1> SUFFICES ASSUME TypeOK, TypeOK', FramesOK, ScopesOK, \A c \in Calls : PhaseOK(c), [Next]_vars,
                    \A v \in Tasks : \A j \in DOMAIN frames[v] : Inside(v, j) =>
                        Bound(owner[v]) /\ \A k \in 1..(j - 1) : Covers(v, k),
                    NEW u \in Tasks, NEW i \in DOMAIN frames'[u], Inside(u, i)'
             PROVE  Bound(owner'[u]) /\ \A j \in 1..(i - 1) : Covers(u, j)'
    BY DEF BoundOK
<1> DEFINE Goal == Bound(owner'[u]) /\ \A j \in 1..(i - 1) : Covers(u, j)'
<1> USE GuardedCallAssumption
<1>0. /\ i \in Nat \ {0} /\ i <= Len(frames'[u]) /\ Len(frames'[u]) \in Nat
      /\ \A j \in 1..(i - 1) : j \in DOMAIN frames'[u]
      /\ \A k \in (i + 1)..Len(frames'[u]) : k \in DOMAIN frames'[u]
      /\ \A j \in DOMAIN frames'[u] : frames'[u][j].call \in Calls \cup {None}
    <2>1. frames'[u] \in Seq(Frames)
        BY DEF TypeOK
    <2>2. \A j \in DOMAIN frames'[u] : frames'[u][j] \in Frames
        BY <2>1
    <2> QED
        BY <2>1, <2>2 DEF Frames
\* Nothing of the task changes but handles its calls had before.
<1>1. ASSUME frames'[u] = frames[u], owner'[u] = owner[u],
             \A j \in DOMAIN frames[u] : frames[u][j].call # None =>
                handle'[frames[u][j].call] = handle[frames[u][j].call]
      PROVE  Goal
    <2>1. Inside(u, i)
        BY <1>0, <1>1 DEF Inside, IsScope
    <2>2. ASSUME NEW j \in 1..(i - 1) PROVE Covers(u, j)'
        BY <1>0, <1>1, <2>1, <2>2 DEF Covers, IsScope
    <2> QED
        BY <1>1, <2>1, <2>2
\* A scope is opened, or a call that has no handle yet begins.
<1>2. ASSUME NEW x \in Frames, frames' = [frames EXCEPT ![u] = <<x>> \o @],
             Bound(owner[u]) => owner'[u] = owner[u],
             UNCHANGED handle,
             x.call = None => x.saved = owner[u],
             x.call # None => handle[x.call] # "lifecycle"
      PROVE  Goal
    <2>1. /\ Len(frames'[u]) = Len(frames[u]) + 1
          /\ frames'[u][1] = x
          /\ \A j \in DOMAIN frames'[u] : j # 1 =>
                j - 1 \in DOMAIN frames[u] /\ frames'[u][j] = frames[u][j - 1]
        BY <1>2, Pushing
    <2>2. i # 1 /\ i - 1 \in DOMAIN frames[u] /\ frames'[u][i] = frames[u][i - 1]
        BY <1>2, <2>1 DEF Inside, IsScope
    <2>3. Inside(u, i - 1)
        <3>1. PICK k \in (i + 1)..Len(frames'[u]) : frames'[u][k].call = None
            BY DEF Inside, IsScope
        <3>2. /\ i \in Nat \ {0} /\ Len(frames[u]) \in Nat /\ k \in DOMAIN frames'[u]
            BY <1>0, <2>1, <3>1
        <3>3. k # 1 /\ k - 1 \in ((i - 1) + 1)..Len(frames[u])
            BY <2>1, <3>1, <3>2
        <3>4. frames[u][k - 1].call = None
            BY <2>1, <3>1, <3>2, <3>3
        <3>5. frames[u][i - 1].call # None /\ handle[frames[u][i - 1].call] = "lifecycle"
            BY <1>2, <2>2 DEF Inside, IsScope
        <3> QED
            BY <3>3, <3>4, <3>5 DEF Inside, IsScope
    <2>4. Bound(owner[u]) /\ \A k \in 1..((i - 1) - 1) : Covers(u, k)
        BY <2>2, <2>3
    <2>5. ASSUME NEW j \in 1..(i - 1) PROVE Covers(u, j)'
        <3>1. CASE j = 1
            BY <1>2, <2>1, <2>4, <3>1 DEF Covers, IsScope
        <3>2. CASE j # 1
            <4>1. j - 1 \in 1..((i - 1) - 1) /\ j \in DOMAIN frames'[u]
                BY <1>0, <3>2
            <4>2. frames'[u][j] = frames[u][j - 1]
                BY <2>1, <3>2, <4>1
            <4> QED
                BY <1>2, <2>4, <4>1, <4>2 DEF Covers, IsScope
        <3> QED
            BY <3>1, <3>2
    <2> QED
        BY <1>2, <2>4, <2>5
\* A frame is popped, and what a scope saved comes back.
<1>3. ASSUME frames[u] # <<>>, frames' = [frames EXCEPT ![u] = Tail(@)],
             \A d \in Calls : d # frames[u][1].call => handle'[d] = handle[d],
             \/ Bound(owner[u]) => owner'[u] = owner[u]
             \/ frames[u][1].call = None /\ owner'[u] = frames[u][1].saved
      PROVE  Goal
    <2>1. /\ Len(frames'[u]) = Len(frames[u]) - 1
          /\ \A j \in DOMAIN frames'[u] :
                j + 1 \in DOMAIN frames[u] /\ frames'[u][j] = frames[u][j + 1]
        BY <1>3, Popping
    <2>2. \A j \in DOMAIN frames[u] : j # 1 /\ frames[u][j].call # None =>
             handle'[frames[u][j].call] = handle[frames[u][j].call]
        BY <1>3, FrameTyped, Innermost DEF FramesOK
    <2>3. i + 1 \in DOMAIN frames[u] /\ frames'[u][i] = frames[u][i + 1] /\ i + 1 # 1
        BY <1>0, <2>1
    <2>4. Inside(u, i + 1)
        <3>1. PICK k \in (i + 1)..Len(frames'[u]) : frames'[u][k].call = None
            BY DEF Inside, IsScope
        <3>2. k \in DOMAIN frames'[u] /\ k \in Nat /\ k >= i + 1
            BY <1>0
        <3>3. k + 1 \in DOMAIN frames[u] /\ frames'[u][k] = frames[u][k + 1]
            BY <2>1, <3>2
        <3>4. k + 1 <= Len(frames[u]) /\ Len(frames[u]) \in Nat
            BY <3>3, FrameTyped
        <3>5. k + 1 \in ((i + 1) + 1)..Len(frames[u]) /\ frames[u][k + 1].call = None
            BY <1>0, <3>1, <3>2, <3>3, <3>4
        <3>6. frames[u][i + 1].call # None /\ handle[frames[u][i + 1].call] = "lifecycle"
            BY <2>2, <2>3 DEF Inside, IsScope
        <3> QED
            BY <3>5, <3>6 DEF Inside, IsScope
    <2>5. Bound(owner[u]) /\ \A k \in 1..((i + 1) - 1) : Covers(u, k)
        BY <2>3, <2>4
    <2>6. Bound(owner'[u])
        <3>1. 1 \in 1..((i + 1) - 1)
            BY <1>0
        <3> QED
            BY <1>3, <2>5, <3>1 DEF Covers, IsScope
    <2>7. ASSUME NEW j \in 1..(i - 1) PROVE Covers(u, j)'
        <3>1. j + 1 \in 1..((i + 1) - 1) /\ j + 1 # 1
            BY <1>0
        <3>2. j + 1 \in DOMAIN frames[u] /\ frames'[u][j] = frames[u][j + 1]
            BY <1>0, <2>1
        <3> QED
            BY <2>2, <2>5, <3>1, <3>2 DEF Covers, IsScope
    <2> QED
        BY <2>6, <2>7
<1>4. ASSUME NEW t \in Tasks, NEW by \in {"sdk", "gateway"}, Claim(t, by) PROVE Goal
    <2>1. CASE u # t
        BY <1>1, <1>4, <2>1 DEF Claim, TypeOK
    <2>2. CASE u = t
        <3>1. [call |-> None, saved |-> owner[u]] \in Frames
            BY DEF TypeOK, Frames
        <3>2. Bound(owner[u]) => owner'[u] = owner[u]
            BY <1>4, <2>2 DEF Claim, Bound, TypeOK
        <3> QED
            BY <1>2, <1>4, <2>2, <3>1, <3>2 DEF Claim
    <2> QED
        BY <2>1, <2>2
<1>5. ASSUME NEW t \in Tasks, NEW c \in Calls, Begin(t, c) PROVE Goal
    <2>1. CASE u # t
        BY <1>1, <1>5, <2>1 DEF Begin, TypeOK
    <2>2. CASE u = t
        <3>1. [call |-> c, saved |-> None] \in Frames
            BY DEF Frames
        <3>2. handle[c] = "none"
            BY <1>5 DEF Begin, PhaseOK
        <3> QED
            BY <1>2, <1>5, <2>2, <3>1, <3>2 DEF Begin
    <2> QED
        BY <2>1, <2>2
<1>6. ASSUME NEW t \in Tasks, Leave(t) PROVE Goal
    <2>1. CASE u # t
        BY <1>1, <1>6, <2>1 DEF Leave, TypeOK
    <2>2. CASE u = t
        <3>1. frames[u][1].call = None /\ owner'[u] = frames[u][1].saved
            BY <1>6, <2>2, Innermost DEF Leave, TypeOK
        <3> QED
            BY <1>3, <1>6, <2>2, <3>1 DEF Leave
    <2> QED
        BY <2>1, <2>2
<1>7. ASSUME NEW t \in Tasks, NEW v \in Tasks, Spawn(t, v) PROVE Goal
    <2>1. CASE u # v
        BY <1>1, <1>7, <2>1 DEF Spawn, TypeOK
    <2>2. CASE u = v
        BY <1>0, <1>7, <2>2 DEF Spawn
    <2> QED
        BY <2>1, <2>2
<1>8. ASSUME NEW t \in Tasks, NEW c \in Calls, Call(t, c), ~Begin(t, c) PROVE Goal
    <2>1. /\ frames[t] # <<>> /\ 1 \in DOMAIN frames[t] /\ frames[t][1].call = c
          /\ \A d \in Calls \ {c} : handle'[d] = handle[d]
          /\ frames' = frames \/ frames' = [frames EXCEPT ![t] = Tail(@)]
        BY <1>8, CallFrames
    <2>2. UNCHANGED owner \/ (~Skipped(t) /\ Bind(t, c))
        BY <1>8, CallShape
    <2>3. Bound(owner[t]) => Skipped(t)
        BY DEF Bound, Skipped
    <2>4. CASE u # t
        <3>1. frames'[u] = frames[u] /\ owner'[u] = owner[u]
            BY <2>1, <2>2, <2>4 DEF Bind, TypeOK
        <3>2. \A j \in DOMAIN frames[u] : frames[u][j].call # None =>
                 frames[u][j].call \in Calls \ {c}
            BY <2>1, <2>4, FrameTyped DEF FramesOK
        <3> QED
            BY <1>1, <2>1, <3>1, <3>2
    <2>5. CASE u = t /\ frames' = [frames EXCEPT ![t] = Tail(@)]
        BY <1>3, <2>1, <2>2, <2>3, <2>5
    <2>6. CASE u = t /\ frames' = frames
        <3>1. \A j \in DOMAIN frames[t] : j # 1 /\ frames[t][j].call # None =>
                 frames[t][j].call \in Calls \ {c}
            BY <2>1, FrameTyped DEF FramesOK
        <3>2. CASE Inside(t, i)
            <4>1. Bound(owner[t]) /\ UNCHANGED owner
                BY <2>2, <2>3, <2>6, <3>2
            <4>2. handle'[c] = "lifecycle" => handle[c] = "lifecycle"
                BY <1>8, <2>3, <4>1, CallShape
            <4>3. ASSUME NEW j \in 1..(i - 1) PROVE Covers(t, j)'
                <5>1. Covers(t, j) /\ j \in DOMAIN frames[t]
                    BY <1>0, <2>6, <3>2
                <5> QED
                    BY <2>1, <2>6, <3>1, <4>2, <5>1 DEF Covers, IsScope
            <4> QED
                BY <2>6, <4>1, <4>3
        \* The call reserves.
        <3>3. CASE ~Inside(t, i)
            <4>1. i = 1 /\ handle'[c] = "lifecycle" /\ handle[c] # "lifecycle"
                BY <2>1, <2>6, <3>1, <3>3 DEF Inside, IsScope
            <4>2. PICK k \in (i + 1)..Len(frames[t]) : frames[t][k].call = None
                BY <2>6 DEF Inside, IsScope
            <4>3. owner[t] # None
                BY <1>0, <2>6, <4>2 DEF ScopesOK, IsScope
            <4>4. owner'[t] = [owner[t] EXCEPT !.reservation = c]
                BY <1>8, <4>1, <4>3, CallShape DEF Bind, TypeOK
            <4>5. Bound(owner'[t])
                <5>1. \A o \in Owners : LET b == [o EXCEPT !.reservation = c] IN
                         b \in Owners /\ b.reservation = c
                    BY DEF Owners
                <5> QED
                    BY <4>3, <4>4, <5>1 DEF Bound, TypeOK
            <4> QED
                BY <2>6, <4>1, <4>5
        <3> QED
            BY <3>2, <3>3
    <2> QED
        BY <2>1, <2>4, <2>5, <2>6
<1>9. ASSUME UNCHANGED <<frames, owner, handle>> PROVE Goal
    BY <1>1, <1>9
<1> QED
    BY <1>4, <1>5, <1>6, <1>7, <1>8, <1>9 DEF Next, Scope, Flush, vars

-----------------------------------------------------------------------------
(* The theorems. *)

\* The strengthened invariant: every reservation is accounted for, and every
\* value of the owner variable inside of a scope carries the reservation that
\* was made there.
THEOREM InductiveInvariant == Spec => []IInv
<1>1. Init => IInv
    <2> SUFFICES ASSUME Init PROVE IInv
        OBVIOUS
    <2>1. TypeOK
        BY GuardedCallAssumption DEF Init, TypeOK, Handles, Steps
    <2>2. ASSUME NEW c \in Calls PROVE Sound(c)
        BY DEF Init, Sound, PhaseOK, ReservationOK, ToldOK, Filed, Ended
    <2>3. FramesOK /\ ScopesOK /\ BoundOK
        BY DEF Init, FramesOK, ScopesOK, BoundOK
    <2> QED
        BY <2>1, <2>2, <2>3 DEF IInv
<1>2. IInv /\ [Next]_vars => IInv'
    <2> SUFFICES ASSUME IInv, [Next]_vars PROVE IInv'
        OBVIOUS
    <2>1. TypeOK /\ (\A c \in Calls : Sound(c) /\ PhaseOK(c)) /\ FramesOK /\ ScopesOK /\ BoundOK
        BY DEF IInv, Sound
    <2>2. TypeOK'
        BY <2>1, TypeStep
    <2>3. FramesOK' /\ ScopesOK' /\ BoundOK'
        BY <2>1, <2>2, FramesStep, ScopesStep, BoundStep
    <2>4. ASSUME NEW d \in Calls PROVE Sound(d)'
        <3>1. ASSUME NEW t \in Tasks, NEW c \in Calls, Call(t, c) PROVE Sound(d)'
            BY <2>1, <3>1, SoundStep, OthersUntouched, UntouchedSound
        <3>2. ASSUME NEW c \in Calls, NEW event \in Events, Flush(c, event) PROVE Sound(d)'
            <4>1. CASE d = c
                BY <2>1, <3>2, <4>1, SoundFlush
            <4>2. CASE d # c
                <5>1. Untouched(d) /\ Quiet
                    BY <2>1, <3>2, <4>2, FlushShape, FlushOthers
                <5> QED
                    BY <2>1, <5>1, UntouchedSound
            <4> QED
                BY <4>1, <4>2
        <3>3. ASSUME UNCHANGED <<mode, at, handle, cost, sent, files, ledger, ran, faults>>
              PROVE  Sound(d)'
            BY <2>1, <3>3, UntouchedSound DEF Untouched, Quiet
        <3> QED
            BY <3>1, <3>2, <3>3 DEF Next, Scope, Claim, Leave, Spawn, vars
    <2> QED
        BY <2>2, <2>3, <2>4 DEF IInv
<1> QED
    BY <1>1, <1>2, PTL DEF Spec

\* The state keeps its type: no call waits for FinOps without having journaled
\* its signal, at any depth of nesting.
THEOREM TypeCorrect == Spec => []TypeOK
<1>1. IInv => TypeOK
    BY DEF IInv
<1> QED
    BY <1>1, InductiveInvariant, PTL

\* A call inside of a scope that its caller has reserved in makes no
\* reservation of its own, however scopes and calls nest.
THEOREM NestingChargesOnce == Spec => []NestedChargedOnce
<1>1. IInv => NestedChargedOnce
    <2> SUFFICES ASSUME IInv, NEW t \in Tasks, NEW i \in DOMAIN frames[t], NEW j \in 1..(i - 1),
                        frames[t][j].call # None, Inside(t, i)
                 PROVE  handle[frames[t][j].call] # "lifecycle"
        BY DEF NestedChargedOnce, Inside, IsScope
    <2> QED
        BY DEF IInv, BoundOK, Covers, IsScope
<1> QED
    BY <1>1, InductiveInvariant, PTL

\* Unless the journal fails, FinOps, the journal or quarantine has what became of
\* every call that reserved; and where provider_started is required, the outcome of
\* a call that ran is never set aside for its transition.
THEOREM OutcomesKept == Spec => []OutcomeKept
<1>1. IInv => OutcomeKept
    BY DEF IInv, Sound, ToldOK, Told, ReservationOK, Settled, Cancelled, Filed, OutcomeKept
<1> QED
    BY <1>1, InductiveInvariant, PTL

-----------------------------------------------------------------------------
(* Guarded calls implement ReservationContract.                            *)

\* A usage or an unknown outcome is filed only of a call whose function has
\* ended, and a usage only if the cost is known.
SignalsOK(c) ==
    /\ at[c] \in {"new", "reserve"} => ledger[c] = "none"
    /\ Filed(c, "usage_known") \/ Filed(c, "outcome_unknown") => at[c] # "provider"
    /\ Filed(c, "usage_known") => cost[c] = "known"

AllSignals == \A c \in Calls : SignalsOK(c)

\* What FinOps may do in a step, said of the one call.
AccountMoves(c) ==
    \/ Account(c)' = Account(c)
    \/ Account(c) = "none" /\ Account(c)' = "reserved"
    \/ Account(c) = "reserved" /\ Account(c)' = "in_flight"
    \/ /\ Account(c) = "in_flight" /\ Account(c)' = "pending_reconciliation"
       /\ c \in Done
    \/ /\ Account(c) \in {"in_flight", "pending_reconciliation"}
       /\ Account(c)' = "settled"
       /\ c \in Done /\ cost[c] = "known"
    \/ Account(c) = "reserved" /\ Account(c)' = "cancelled_before_call" /\ c \notin ran

\* And the call.
CallMoves(c) ==
    \/ /\ c \in ran => c \in ran'
       /\ c \in ran' \ ran => Account(c) # "cancelled_before_call"
       /\ c \in Done' <=> c \in Done
       /\ cost'[c] = cost[c]
    \/ c \in ran \ Done /\ c \in ran' /\ c \in Done'

EvidenceMoves(c) ==
    /\ Evident(c) => Evident(c)'
    /\ c \in Over => c \in Over'
    /\ c \in Over' => c \in Done' /\ Evident(c)'

\* FinOps' answer to a signal that is due is a move it may make.
LEMMA ApplyMoves ==
    ASSUME TypeOK, NEW c \in Calls, Sound(c), handle[c] = "lifecycle", UNCHANGED handle,
           NEW event \in Events, Apply(c, event),
           event \in {"usage_known", "outcome_unknown"} => c \in Done,
           event = "usage_known" => cost[c] = "known",
           event = "cancel_before_call" => c \notin ran
    PROVE  /\ AccountMoves(c)
           /\ event \in {"usage_known", "outcome_unknown"} => Settled(c)'
           /\ Settled(c) => Settled(c)'
<1>1. Account(c) = ledger[c] /\ Account(c)' = ledger'[c]
    BY DEF Account
<1>2. c \in Done => c \in ran
    BY DEF Done
<1>3. /\ c \in ran => ledger[c] \in {"reserved", "in_flight", "settled", "pending_reconciliation"}
      /\ c \notin ran => ledger[c] \in {"reserved", "in_flight", "cancelled_before_call"}
    BY DEF Sound, ReservationOK, Settled, Cancelled
<1>4. ledger'[c] =
        IF event = "usage_known" THEN "settled"
        ELSE IF event = "provider_started" /\ ledger[c] = "reserved" THEN "in_flight"
        ELSE IF event = "cancel_before_call" THEN "cancelled_before_call"
        ELSE IF event = "outcome_unknown" /\ ledger[c] = "in_flight"
             THEN "pending_reconciliation" ELSE ledger[c]
    BY DEF TypeOK, Apply
<1>5. AccountMoves(c)
    BY <1>1, <1>2, <1>3, <1>4 DEF AccountMoves, Events, Apply, Accepts
<1> QED
    BY <1>2, <1>3, <1>4, <1>5 DEF Settled, Apply, Accepts

\* The signal a call sends is due.
LEMMA ItsSignalDue ==
    ASSUME TypeOK, NEW c \in Calls, Sound(c), at[c] \in Waiting, handle[c] = "lifecycle"
    PROVE  /\ Event(c) \in Events
           /\ Event(c) \in {"usage_known", "outcome_unknown"} => c \in Done
           /\ Event(c) = "usage_known" => cost[c] = "known"
           /\ Event(c) = "cancel_before_call" => c \notin ran
           /\ c \in Done <=> at[c] \in {"settle", "mark"}
BY DEF TypeOK, Waiting, Event, Events, Sound, PhaseOK, Done

\* A call that has ended with its reservation is evident.
LEMMA EndsEvident ==
    ASSUME TypeOK', NEW c \in Calls, c \in Over', Sound(c)'
    PROVE  c \in Done' /\ Evident(c)'
<1>1. /\ c \in ran' /\ at'[c] \in Ended /\ handle'[c] = "lifecycle"
      /\ faults'.journal \in Nat
    BY GuardedCallAssumption DEF Over, TypeOK
<1>2. c \in Done'
    BY <1>1 DEF Done, Ended
<1>3. faults'.journal = 0 => Settled(c)' \/ Filed(c, Event(c))' \/ c \in aside'
    BY <1>1 DEF Sound, ToldOK, Told
<1>4. Event(c)' \in {"usage_known", "outcome_unknown"}
    BY <1>1 DEF Event, Ended
<1> QED
    BY <1>1, <1>2, <1>3, <1>4 DEF Evident, Settled, Filed

\* A step that leaves the journal's signals and takes no settlement back leaves
\* what is evident.
LEMMA StillEvident ==
    ASSUME NEW c, Settled(c) => Settled(c)', faults'.journal = 0 => faults.journal = 0,
           \A event \in {"usage_known", "outcome_unknown"} :
               Filed(c, event) => Filed(c, event)' \/ Settled(c)' \/ c \in aside',
           c \in aside => c \in aside', TypeOK, TypeOK'
    PROVE  Evident(c) => Evident(c)'
<1>1. faults.journal \in Nat /\ faults'.journal \in Nat
    BY GuardedCallAssumption DEF TypeOK
<1>2. faults.journal > 0 => faults'.journal > 0
    BY <1>1
<1> QED
    BY <1>2 DEF Evident, Settled, Filed

\* A step of a call is allowed by the contract.
LEMMA StepMoves ==
    ASSUME TypeOK, TypeOK', NEW t \in Tasks, NEW c \in Calls, Call(t, c),
           Sound(c), Sound(c)', SignalsOK(c), faults'.journal = 0 => faults.journal = 0
    PROVE  SignalsOK(c)' /\ AccountMoves(c) /\ CallMoves(c) /\ EvidenceMoves(c)
<1> DEFINE Goal == SignalsOK(c)' /\ AccountMoves(c) /\ CallMoves(c) /\ (Evident(c) => Evident(c)')
<1> USE DEF Sound, PhaseOK
<1>1. c \notin Over
    BY CallShape DEF Over, Begin, Ended
<1>2. c \in Over' => c \in Done' /\ Evident(c)'
    BY EndsEvident
<1> SUFFICES Goal
    BY <1>1, <1>2 DEF EvidenceMoves
<1>3. CASE Begin(t, c)
    <2>1. /\ at[c] = "new" /\ at'[c] = "reserve"
          /\ UNCHANGED <<handle, cost, journal, aside, ledger, ran, faults>>
        BY <1>3 DEF Begin, TypeOK
    <2> QED
        BY <2>1 DEF SignalsOK, AccountMoves, CallMoves, Evident, Account, Done, Filed
\* Nothing is filed of a call that has not run; FinOps may reserve.
<1>4. ASSUME at[c] = "reserve", UNCHANGED <<cost, journal, aside, faults>>,
             ledger'[c] \in {"none", "reserved"}
      PROVE  /\ ledger[c] = "none" /\ Account(c) = "none" /\ c \notin ran
             /\ AccountMoves(c) /\ (Evident(c) => Evident(c)')
             /\ ~Filed(c, "usage_known")' /\ ~Filed(c, "outcome_unknown")'
    <2>1. ledger[c] = "none" /\ handle[c] = "none" /\ c \notin ran
        BY <1>4 DEF SignalsOK
    <2>2. ~Filed(c, "usage_known") /\ ~Filed(c, "outcome_unknown")
        BY <2>1 DEF ReservationOK
    <2> QED
        BY <1>4, <2>1, <2>2 DEF AccountMoves, Account, Evident, Filed
<1>5. CASE Skip(t, c) \/ ReserveLegacy(t, c) \/ RunFree(t, c)
    <2>1. /\ at[c] = "reserve" /\ at'[c] = "provider" /\ ran' = ran \cup {c}
          /\ UNCHANGED <<cost, journal, aside, faults>>
        BY <1>5 DEF Skip, ReserveLegacy, RunFree, Run, Go, TypeOK
    <2>2. ledger'[c] \in {"none", "reserved"}
        BY <1>5, <2>1 DEF Skip, ReserveLegacy, RunFree, PerhapsReserved, SignalsOK, TypeOK
    <2> QED
        BY <1>4, <2>1, <2>2 DEF SignalsOK, CallMoves, Done
<1>6. CASE Reserve(t, c) \/ Refuse(t, c)
    <2>1. /\ at[c] = "reserve" /\ at'[c] \in {"start", "refused"}
          /\ UNCHANGED <<cost, journal, aside, ran, faults>>
        BY <1>6 DEF Reserve, Refuse, Go, TypeOK
    <2>2. ledger'[c] \in {"none", "reserved"}
        BY <1>6, <2>1 DEF Reserve, Refuse, PerhapsReserved, SignalsOK, TypeOK
    <2> QED
        BY <1>4, <2>1, <2>2 DEF SignalsOK, CallMoves, Done
<1>7. CASE Journal(t, c)
    <2>1. /\ at[c] \in Waiting /\ handle[c] = "lifecycle"
          /\ journal' = journal \cup {<<c, Event(c)>>}
          /\ UNCHANGED <<at, handle, cost, aside, ledger, ran, faults>>
        BY <1>7 DEF Journal, Waiting
    <2>2. \A event \in Events : Filed(c, event)' <=> Filed(c, event) \/ event = Event(c)
        BY <2>1 DEF Filed
    <2>3. Event(c) = "usage_known" => cost[c] = "known"
        BY <2>1, ItsSignalDue
    <2>4. SignalsOK(c)'
        BY <2>1, <2>2, <2>3 DEF SignalsOK, Events, Waiting
    <2>5. AccountMoves(c) /\ CallMoves(c)
        BY <2>1 DEF AccountMoves, CallMoves, Account, Done
    <2>6. Evident(c) => Evident(c)'
        BY <2>1 DEF Evident
    <2> QED
        BY <2>4, <2>5, <2>6
\* A signal that is on its way leaves the journal when FinOps has it.
<1>8. ASSUME c \in sent, Apply(c, Event(c)) \/ UNCHANGED ledger,
             \/ Apply(c, Event(c)) /\ journal' = journal \ {<<c, Event(c)>>}
             \/ UNCHANGED journal,
             UNCHANGED <<handle, cost, aside>>
      PROVE  /\ at[c] \in Waiting /\ handle[c] = "lifecycle"
             /\ AccountMoves(c) /\ (Evident(c) => Evident(c)')
             /\ \A event \in Events : Filed(c, event)' => Filed(c, event)
    <2>1. at[c] \in Waiting /\ handle[c] = "lifecycle"
        BY <1>8 DEF TypeOK, Waiting
    <2>2. AccountMoves(c) /\ (Settled(c) => Settled(c)')
          /\ (Event(c) \in {"usage_known", "outcome_unknown"} /\ Apply(c, Event(c)) => Settled(c)')
        <3>1. CASE Apply(c, Event(c))
            BY <1>8, <2>1, <3>1, ItsSignalDue, ApplyMoves
        <3>2. CASE UNCHANGED ledger /\ ~Apply(c, Event(c))
            BY <1>8, <3>2 DEF AccountMoves, Account, Settled
        <3> QED
            BY <1>8, <3>1, <3>2
    <2>3. \A event \in Events : /\ Filed(c, event)' => Filed(c, event)
                                /\ Filed(c, event) => \/ Filed(c, event)'
                                                      \/ event = Event(c) /\ Apply(c, Event(c))
        BY <1>8 DEF Filed
    <2>4. \A event \in {"usage_known", "outcome_unknown"} :
             Filed(c, event) => Filed(c, event)' \/ Settled(c)'
        BY <2>2, <2>3 DEF Events
    <2>5. Evident(c) => Evident(c)'
        BY <1>8, <2>2, <2>4, StillEvident
    <2> QED
        BY <2>1, <2>2, <2>3, <2>5
\* The call then goes on: one that starts runs, one whose function has ended
\* stays so.
<1>9. ASSUME at[c] \in Waiting, handle[c] = "lifecycle", UNCHANGED <<handle, cost>>,
             \A event \in Events : Filed(c, event)' => Filed(c, event),
             at[c] \in {"settle", "mark"} => at'[c] \in {"mark", "returned", "abandoned"} /\ UNCHANGED ran,
             at[c] = "cancel" => at'[c] \in {"refused", "abandoned"} /\ UNCHANGED ran,
             at[c] = "start" => \/ at'[c] = "cancel" /\ UNCHANGED ran
                                \/ at'[c] = "provider" /\ ran' = ran \cup {c}
      PROVE  SignalsOK(c)' /\ CallMoves(c)
    <2>1. CASE at[c] = "start"
        <3>1. /\ c \notin ran /\ ~Filed(c, "usage_known") /\ ~Filed(c, "outcome_unknown")
              /\ Account(c) # "cancelled_before_call"
            BY <1>9, <2>1 DEF ReservationOK, Account, Cancelled
        <3> QED
            BY <1>9, <2>1, <3>1 DEF SignalsOK, CallMoves, Done, Events
    <2>2. CASE at[c] # "start"
        BY <1>9, <2>2 DEF SignalsOK, CallMoves, Done, Events, Waiting
    <2> QED
        BY <2>1, <2>2
<1>10. CASE Acked(t, c)
    <2>1. /\ c \in sent /\ Apply(c, Event(c)) /\ journal' = journal \ {<<c, Event(c)>>}
          /\ UNCHANGED <<handle, cost, aside>>
        BY <1>10 DEF Acked
    <2>2. /\ at[c] = "start" => at'[c] = "provider" /\ ran' = ran \cup {c}
          /\ at[c] # "start" =>
                UNCHANGED ran /\ at'[c] = (IF at[c] = "cancel" THEN "refused" ELSE "returned")
        BY <1>10 DEF Acked, Run, Go, TypeOK
    <2> QED
        BY <1>8, <1>9, <2>1, <2>2
<1>11. CASE Unacked(t, c)
    <2>1. /\ c \in sent /\ (Apply(c, Event(c)) \/ UNCHANGED ledger)
          /\ UNCHANGED <<files, handle, cost>>
        BY <1>11 DEF Unacked
    <2>2. /\ at[c] = "start" => \/ at'[c] = "cancel" /\ UNCHANGED ran
                                \/ at'[c] = "provider" /\ ran' = ran \cup {c}
          /\ at[c] = "settle" => at'[c] = "mark" /\ UNCHANGED ran
          /\ at[c] = "mark" => at'[c] = "returned" /\ UNCHANGED ran
          /\ at[c] = "cancel" => at'[c] = "refused" /\ UNCHANGED ran
        BY <1>11 DEF Unacked, Failed, Run, Go, TypeOK
    <2> QED
        BY <1>8, <1>9, <2>1, <2>2
<1>12. CASE Unjournaled(t, c)
    <2>1. /\ handle[c] = "lifecycle" /\ UNCHANGED <<handle, cost, files, ledger>>
          /\ at[c] \in Waiting
        BY <1>12 DEF Unjournaled, Failed, Waiting
    <2>2. /\ at[c] = "start" => \/ at'[c] = "cancel" /\ UNCHANGED ran
                                \/ at'[c] = "provider" /\ ran' = ran \cup {c}
          /\ at[c] = "settle" => at'[c] = "mark" /\ UNCHANGED ran
          /\ at[c] = "mark" => at'[c] = "returned" /\ UNCHANGED ran
          /\ at[c] = "cancel" => at'[c] = "refused" /\ UNCHANGED ran
        BY <1>12 DEF Unjournaled, Failed, Run, Go, TypeOK
    <2>3. \A event \in Events : Filed(c, event)' <=> Filed(c, event)
        BY <2>1 DEF Filed
    <2>4. Evident(c) => Evident(c)'
        BY <2>1, <2>3, StillEvident DEF Settled, Events
    <2>5. AccountMoves(c)
        BY <2>1 DEF AccountMoves, Account
    <2> QED
        BY <1>9, <2>1, <2>2, <2>3, <2>4, <2>5
<1>13. CASE Returns(t, c)
    <2>1. /\ at[c] = "provider" /\ UNCHANGED <<handle, journal, aside, ledger, ran, faults>>
          /\ at'[c] \in {"settle", "mark", "returned"}
        BY <1>13 DEF Returns, Settle, Go, TypeOK
    <2>2. ~Filed(c, "usage_known") /\ ~Filed(c, "outcome_unknown") /\ c \in ran
        BY <2>1 DEF SignalsOK
    <2> QED
        BY <2>1, <2>2 DEF SignalsOK, AccountMoves, Account, CallMoves, Done, Evident, Filed
<1>14. CASE SettleLegacy(t, c)
    <2>1. /\ at[c] = "settle" /\ handle[c] = "legacy" /\ at'[c] = "returned"
          /\ UNCHANGED <<handle, cost, journal, aside, ran, faults>>
          /\ ledger'[c] \in {ledger[c], "settled"}
        BY <1>14 DEF SettleLegacy, Go, TypeOK
    <2> QED
        BY <2>1 DEF SignalsOK, AccountMoves, Account, CallMoves, Done, Evident, Filed
<1>15. CASE Cancel(t, c)
    <2>1. UNCHANGED <<handle, cost, files, ran>> /\ faults'.journal = faults.journal
        BY <1>15 DEF Cancel, Fault, TypeOK
    <2>2. CASE at[c] = "reserve"
        <3>1. at'[c] = "abandoned" /\ ledger'[c] \in {"none", "reserved"}
            BY <1>15, <2>2 DEF Cancel, Go, TypeOK, PerhapsReserved, SignalsOK
        <3>2. c \notin ran /\ ledger[c] = "none" /\ handle[c] = "none"
              /\ ~Filed(c, "usage_known") /\ ~Filed(c, "outcome_unknown")
            BY <2>2 DEF SignalsOK, ReservationOK
        <3> QED
            BY <2>1, <2>2, <3>1, <3>2
               DEF SignalsOK, AccountMoves, Account, CallMoves, Done, Evident, Filed
    <2>3. CASE at[c] # "reserve"
        <3>1. /\ c \in sent /\ (Apply(c, Event(c)) \/ UNCHANGED ledger)
              /\ at'[c] = (IF at[c] = "start" THEN "cancel" ELSE "abandoned")
            BY <1>15, <2>3 DEF Cancel, Go, TypeOK
        <3> QED
            BY <1>8, <1>9, <2>1, <3>1
    <2> QED
        BY <2>2, <2>3
<1> QED
    BY <1>3, <1>5, <1>6, <1>7, <1>10, <1>11, <1>12, <1>13, <1>14, <1>15 DEF Call

\* So is a delivery of the flusher, beside the call.
LEMMA FlushMoves ==
    ASSUME TypeOK, TypeOK', NEW c \in Calls, NEW event \in Events, Flush(c, event),
           Sound(c), Sound(c)', SignalsOK(c)
    PROVE  SignalsOK(c)' /\ AccountMoves(c) /\ CallMoves(c) /\ EvidenceMoves(c)
<1>1. /\ Filed(c, event) /\ handle[c] = "lifecycle" /\ Quiet
      /\ UNCHANGED <<at, handle, cost, ran>>
      /\ c \in ran => event # "cancel_before_call"
    BY FlushShape
<1>2. /\ event \in {"usage_known", "outcome_unknown"} => c \in Done
      /\ event = "usage_known" => cost[c] = "known"
      /\ event = "cancel_before_call" => c \notin ran
    BY <1>1 DEF Sound, ReservationOK, SignalsOK, Done, Events
<1>3. /\ AccountMoves(c) /\ (Settled(c) => Settled(c)') /\ (c \in aside => c \in aside')
      /\ event \in {"usage_known", "outcome_unknown"} => Settled(c)' \/ c \in aside'
    <2>1. CASE Deliver(c, event)
        BY <1>1, <1>2, <2>1, ApplyMoves DEF Deliver
    <2>2. CASE Quarantine(c, event)
        BY <1>1, <2>2 DEF Quarantine, AccountMoves, Account, Settled
    <2> QED
        BY <2>1, <2>2 DEF Flush
<1>4. \A e \in Events : Filed(c, e)' <=> Filed(c, e) /\ e # event
    BY FlushShape
<1>5. Evident(c) => Evident(c)'
    <2>1. \A e \in {"usage_known", "outcome_unknown"} :
             Filed(c, e) => Filed(c, e)' \/ Settled(c)' \/ c \in aside'
        BY <1>3, <1>4 DEF Events
    <2> QED
        BY <1>1, <1>3, <2>1, StillEvident DEF Quiet
<1>6. SignalsOK(c)'
    <2>1. at[c] \notin {"new", "reserve"}
        BY <1>1 DEF Sound, PhaseOK
    <2> QED
        BY <1>1, <1>4, <2>1 DEF SignalsOK, Events
<1>7. c \in Over' <=> c \in Over
    BY <1>1 DEF Over
<1>8. c \in Over' => c \in Done' /\ Evident(c)'
    BY EndsEvident
<1>9. CallMoves(c)
    BY <1>1 DEF CallMoves, Done
<1> QED
    BY <1>3, <1>5, <1>6, <1>7, <1>8, <1>9 DEF EvidenceMoves

\* A step that moves one call so is one of the contract.
LEMMA Contracted ==
    ASSUME TypeOK, TypeOK', NEW c \in Calls,
           \A d \in Calls \ {c} : Untouched(d), Quiet,
           AccountMoves(c), CallMoves(c), EvidenceMoves(c)
    PROVE  Contract!Next
<1> DEFINE accounts == [d \in Calls |-> Account(d)]
           amounts == [d \in Calls |-> IF Account(d) = "settled" THEN "known" ELSE "unknown"]
           evident == {d \in Calls : Evident(d)}
<1>1. \A d \in Calls \ {c} : Account(d)' = Account(d)
    BY DEF Untouched, Account
<1>2. /\ accounts' = [accounts EXCEPT ![c] = Account(c)'] /\ accounts[c] = Account(c)
      /\ amounts' = [amounts EXCEPT ![c] = IF Account(c)' = "settled" THEN "known" ELSE "unknown"]
    BY <1>1
<1>3. \A d \in Calls \ {c} : /\ d \in Done' <=> d \in Done
                             /\ d \in Over' <=> d \in Over
                             /\ d \in ran' <=> d \in ran
    BY DEF Untouched, Done, Over
<1>4. \A d \in Calls \ {c} : Evident(d) => Evident(d)'
    <2> SUFFICES ASSUME NEW d \in Calls \ {c} PROVE Evident(d) => Evident(d)'
        OBVIOUS
    <2>1. /\ ledger'[d] = ledger[d] /\ (d \in aside' <=> d \in aside)
          /\ \A event \in Events : Filed(d, event)' <=> Filed(d, event)
        BY DEF Untouched, Filed
    <2> QED
        BY <2>1, StillEvident DEF Settled, Events, Quiet
<1>5. evident \subseteq evident'
    BY <1>4 DEF EvidenceMoves
<1>6. /\ Done \subseteq Calls /\ Done' \subseteq Calls /\ Over \subseteq Calls /\ Over' \subseteq Calls
      /\ ran \subseteq Calls /\ ran' \subseteq Calls
    BY DEF TypeOK, Done, Over
<1>7. c \in evident' <=> Evident(c)'
    OBVIOUS
<1>8. cost' = [cost EXCEPT ![c] = cost'[c]] /\ cost'[c] \in {"known", "unknown"}
    BY DEF TypeOK, Untouched
<1>9. (Account(c)' = "settled" <=> Account(c) = "settled") => amounts' = amounts
    BY <1>1
<1> HIDE DEF accounts, amounts, evident
\* FinOps.
<1>10. \/ Contract!Reserves(c) \/ Contract!Starts(c) \/ Contract!Doubts(c) \/ Contract!Settles(c)
       \/ Contract!Cancels(c) \/ UNCHANGED <<accounts, amounts>>
    <2>1. CASE Account(c)' = Account(c)
        <3>1. accounts' = accounts /\ amounts' = amounts
            <4>1. accounts' = accounts
                BY <1>1, <2>1 DEF accounts
            <4> QED
                BY <1>9, <2>1, <4>1
        <3> QED
            BY <3>1
    <2>2. CASE Account(c)' = "settled" /\ Account(c) # "settled"
        <3>1. amounts' = [amounts EXCEPT ![c] = "known"]
            BY <1>2, <2>2
        <3> QED
            BY <1>2, <2>2, <3>1
               DEF AccountMoves, Contract!Settles, Contract!Becomes, accounts, amounts
    <2>3. CASE Account(c)' # "settled" /\ Account(c)' # Account(c)
        <3>1. amounts' = amounts
            BY <1>9, <2>3 DEF AccountMoves
        <3> QED
            BY <1>2, <2>3, <3>1
               DEF AccountMoves, Contract!Reserves, Contract!Starts, Contract!Doubts,
                   Contract!Cancels, Contract!Becomes, accounts, amounts
    <2> QED
        BY <2>1, <2>2, <2>3
\* The call.
<1>11. Contract!Runs(c) \/ Contract!Finishes(c) \/ UNCHANGED <<ran, Done, cost>>
    <2>1. CASE /\ c \in ran => c \in ran'
               /\ c \in ran' \ ran => Account(c) # "cancelled_before_call"
               /\ c \in Done' <=> c \in Done
               /\ cost'[c] = cost[c]
        <3>1. Done' = Done /\ cost' = cost
            <4>1. \A d \in Calls : d \in Done' <=> d \in Done
                BY <1>3, <2>1
            <4>2. cost' = cost
                BY <1>8, <2>1 DEF TypeOK
            <4> QED
                BY <1>6, <4>1, <4>2
        <3>2. CASE c \in ran' /\ c \notin ran
            <4>1. ran' = ran \cup {c}
                BY <1>3, <1>6, <3>2
            <4> QED
                BY <1>2, <2>1, <3>1, <3>2, <4>1 DEF Contract!Runs, accounts
        <3>3. CASE c \in ran' <=> c \in ran
            <4>1. ran' = ran
                BY <1>3, <1>6, <3>3
            <4> QED
                BY <3>1, <4>1
        <3> QED
            BY <2>1, <3>2, <3>3
    <2>2. CASE c \in ran \ Done /\ c \in ran' /\ c \in Done'
        <3>1. Done' = Done \cup {c} /\ ran' = ran
            BY <1>3, <1>6, <2>2
        <3> QED
            BY <1>8, <2>2, <3>1 DEF Contract!Finishes
    <2> QED
        BY <2>1, <2>2 DEF CallMoves
<1>12. Over' \in {Over, Over \cup ({c} \cap Done' \cap evident')}
    <2>1. CASE c \in Over' <=> c \in Over
        <3>1. Over' = Over
            BY <1>3, <1>6, <2>1
        <3> QED
            BY <3>1
    <2>2. CASE c \in Over' /\ c \notin Over
        <3>1. Over' = Over \cup {c}
            BY <1>3, <1>6, <2>2
        <3>2. {c} \cap Done' \cap evident' = {c}
            BY <1>7, <2>2 DEF EvidenceMoves
        <3> QED
            BY <3>1, <3>2
    <2> QED
        BY <2>1, <2>2 DEF EvidenceMoves
<1> QED
    BY <1>5, <1>10, <1>11, <1>12 DEF Contract!Next, accounts, amounts, evident

\* What a step does to the one call that moves.
LEMMA Moves ==
    ASSUME IInv, IInv', AllSignals, NEW c \in Calls,
           \/ \E t \in Tasks : Call(t, c)
           \/ \E event \in Events : Flush(c, event)
    PROVE  /\ \A d \in Calls \ {c} : Untouched(d)
           /\ Quiet
           /\ SignalsOK(c)' /\ AccountMoves(c) /\ CallMoves(c) /\ EvidenceMoves(c)
<1>1. TypeOK /\ TypeOK' /\ Sound(c) /\ Sound(c)' /\ SignalsOK(c)
    BY DEF IInv, AllSignals
<1>2. ASSUME NEW t \in Tasks, Call(t, c)
      PROVE  (\A d \in Calls \ {c} : Untouched(d)) /\ Quiet
    <2>1. \A d \in Calls \ {c} : Untouched(d)
        BY <1>1, <1>2, OthersUntouched
    <2>2. Quiet
        BY <1>1, <1>2
           DEF Call, Begin, Skip, Reserve, ReserveLegacy, Refuse, RunFree, Journal, Acked, Unacked,
               Unjournaled, Returns, SettleLegacy, Cancel, Fault, TypeOK, Quiet
    <2> QED
        BY <2>1, <2>2
<1>3. ASSUME NEW event \in Events, Flush(c, event)
      PROVE  (\A d \in Calls \ {c} : Untouched(d)) /\ Quiet
    BY <1>1, <1>3, FlushShape, FlushOthers
<1> QED
    BY <1>1, <1>2, <1>3, StepMoves, FlushMoves DEF Quiet

LEMMA SignalsInvariant == Spec => [](IInv /\ AllSignals)
<1>1. Init => AllSignals
    BY DEF Init, AllSignals, SignalsOK, Filed
<1>2. IInv /\ IInv' /\ AllSignals /\ [Next]_vars => AllSignals'
    <2> SUFFICES ASSUME IInv, IInv', AllSignals, [Next]_vars, NEW d \in Calls PROVE SignalsOK(d)'
        BY DEF AllSignals
    <2>1. ASSUME Untouched(d) PROVE SignalsOK(d)'
        BY <2>1 DEF AllSignals, SignalsOK, Untouched, Filed, Events
    <2>2. ASSUME NEW c \in Calls,
                 \/ \E t \in Tasks : Call(t, c)
                 \/ \E event \in Events : Flush(c, event)
          PROVE  SignalsOK(d)'
        BY <2>1, <2>2, Moves
    <2>3. ASSUME UNCHANGED <<at, handle, cost, sent, files, ledger, ran>> PROVE SignalsOK(d)'
        BY <2>1, <2>3 DEF Untouched
    <2> QED
        BY <2>2, <2>3 DEF Next, Scope, Claim, Leave, Spawn, vars
<1> QED
    BY <1>1, <1>2, InductiveInvariant, PTL DEF Spec

\* A guarded call keeps the contract of reservations, however calls, scopes and
\* tasks nest and in whatever order its signals arrive: FinOps never cancels a
\* call that ran, a cancelled one never runs, and one that ends with its
\* reservation is settled, pending or told by a record, in the journal or in
\* quarantine, unless the journal failed.
THEOREM ContractKept == Spec => ImplementsContract
<1>1. Init => Contract!Init
    BY DEF Init, TypeOK, Contract!Init, Account, Done, Over, Evident
<1>2. IInv /\ IInv' /\ AllSignals /\ [Next]_vars => [Contract!Next]_(Contract!vars)
    <2> SUFFICES ASSUME IInv, IInv', AllSignals, [Next]_vars
                 PROVE  [Contract!Next]_(Contract!vars)
        OBVIOUS
    <2>1. ASSUME NEW c \in Calls,
                 \/ \E t \in Tasks : Call(t, c)
                 \/ \E event \in Events : Flush(c, event)
          PROVE  Contract!Next
        BY <2>1, Moves, Contracted DEF IInv
    <2>2. ASSUME UNCHANGED <<at, handle, cost, files, ledger, ran, faults>>
          PROVE  UNCHANGED Contract!vars
        BY <2>2 DEF Contract!vars, Account, Done, Over, Evident
    <2> QED
        BY <2>1, <2>2 DEF Next, Scope, Claim, Leave, Spawn, vars
<1> QED
    BY <1>1, <1>2, SignalsInvariant, PTL DEF Spec, ImplementsContract, Contract!Spec
=============================================================================
