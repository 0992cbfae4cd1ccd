------------------------ MODULE StreamAttemptProofs ------------------------
(***************************************************************************)
(* The safety of a streamed call, for any number of threads or tasks on    *)
(* the stream, any number of cancellations and any token counts.  The      *)
(* argument is about who may finalize: a sync finalization is alone under  *)
(* the lock, an async one is alone because _finalize_in_progress is set    *)
(* exactly while one task settles, and a task that was cancelled there     *)
(* leaves its trace in "cut".                                              *)
(***************************************************************************)
EXTENDS StreamAttempt, TLAPS

-----------------------------------------------------------------------------
(* The inductive invariant. *)

\* The provider's last snapshot is the only authoritative one, but for an Anthropic
\* helper that was cut short.
UsageOK ==
    /\ usage.input \in {NoCount, Input}
    /\ usage.authoritative =>
         /\ usage.input = Input
         /\ \/ usage.output = Final /\ upstream = "told"
            \/ usage.output = Partial /\ CutShort

\* One actor opens the stream, and nobody uses it before; a stream is COMPLETE
\* when its upstream is over, REJECTED when there is none.
ActorsOK ==
    /\ phase = "opening" => ~closed /\ \A a \in Actors : at[a] \in {"idle", "opening"}
    /\ \A a \in Actors :
        /\ at[a] = "opening" => phase = "opening"
        /\ \A b \in Actors : at[a] = "opening" /\ at[b] = "opening" => a = b
        /\ at[a] = "finalize" /\ aim[a] = "COMPLETE" => over
        /\ aim[a] = "REJECTED" => phase = "refused"

\* One task settles at a time, and only an attempt that is not finalized.
SettlingOK ==
    /\ busy => \E a \in Actors : at[a] \in Settling
    /\ \A a \in Actors : at[a] \in Settling =>
        /\ busy /\ ~finalized /\ kind.async /\ kind.reserved
        /\ intents # {}
        /\ IF at[a] = "reconcile"
           THEN plan.confidence = "exact" /\ UsageKnown(plan.cost) \in intents
           ELSE plan.confidence # "exact"
        /\ \A b \in Actors : at[b] \in Settling => a = b

\* What is journaled and counted before the attempt is finalized.
MoneyOK ==
    /\ ~finalized => spent = 0
    /\ ~finalized /\ ~cut /\ ~busy => intents = {}
    /\ ~finalized /\ ~cut /\ busy =>
         \A i \in intents : i.event = "usage_known" => i.amount = Recorded(plan)

\* Somebody is on the way to finalize a stream that is over.
ClosersOK ==
    Over /\ ~cut /\ ~finalized =>
        \E a \in Actors : at[a] \in {"finalize", "closeUp"} \cup Settling

IInv ==
    /\ TypeOK
    /\ UsageOK
    /\ ActorsOK
    /\ SettlingOK
    /\ MoneyOK
    /\ ClosersOK
    /\ HoldReleasedOnce
    /\ OnlyFinalCounts
    /\ AmountsAgree
    /\ EvidenceKept

-----------------------------------------------------------------------------
(* Usage and decisions. *)

LEMMA Merging ==
    ASSUME TypeOK, UsageOK, NEW new \in Usages, new.input \in {NoCount, Input}
    PROVE  LET m == Merged(usage, new) IN
           /\ m \in Usages
           /\ m.input \in {NoCount, Input}
           /\ m.authoritative => m.input = Input /\ (usage.authoritative \/ new.authoritative)
           /\ new.output # NoCount => m.output = new.output
<1>1. /\ usage \in Usages /\ NoCount \notin Nat /\ Input \in Nat
      /\ Latest(new.input, usage.input) \in Counts /\ Latest(new.output, usage.output) \in Counts
    BY StreamAttemptAssumption DEF TypeOK, Usages, Latest
<1> QED
    BY <1>1 DEF UsageOK, Usages, Merged, Known, Latest

\* What the provider may say, and when: an authoritative snapshot follows all
\* others.
LEMMA Saying ==
    ASSUME TypeOK, UsageOK, ~over, kind' = kind, over' = over,
           ChatSays \/ ResponsesSays \/ MessagesSay
    PROVE  usage' \in Usages /\ upstream # "told" /\ upstream' \in {"started", "told"} /\ UsageOK'
<1>1. /\ {StartSnapshot, DeltaSnapshot, ChatUsage, ResponsesUsage} \subseteq Usages
      /\ NoCount \notin Nat /\ Input \in Nat /\ Final \in Nat
    BY StreamAttemptAssumption
       DEF StartSnapshot, DeltaSnapshot, ChatUsage, ResponsesUsage, Usages, Counts
<1>2. upstream # "told" => ~usage.authoritative
    BY DEF UsageOK, CutShort
<1>3. CASE ChatSays
    BY <1>1, <1>2, <1>3, Merging DEF ChatSays, Says, ChatUsage, UsageOK, TypeOK
<1>4. CASE ResponsesSays
    BY <1>1, <1>2, <1>4, Merging DEF ResponsesSays, Says, ResponsesUsage, UsageOK, TypeOK
<1>5. CASE MessagesSay /\ upstream = "fresh"
    BY <1>1, <1>2, <1>5, Merging DEF MessagesSay, Says, StartSnapshot, UsageOK, TypeOK
<1>6. CASE MessagesSay /\ upstream # "fresh"
    BY <1>1, <1>2, <1>6, Merging DEF MessagesSay, Says, DeltaSnapshot, UsageOK, TypeOK
<1> QED
    BY <1>3, <1>4, <1>5, <1>6

\* The final message of a helper, of a stream the provider has told all of or has
\* left after its first counts.
LEMMA Helping ==
    ASSUME TypeOK, UsageOK, NEW said, NEW u \in HelperUsage(said)
    PROVE  LET m == Merged(usage, u) IN
           /\ m \in Usages /\ m.input = Input
           /\ \/ m.output = Final /\ said = "told"
              \/ /\ m.output = Partial /\ said = "started"
                 /\ kind.managed /\ kind.surface = "messages"
<1>1. /\ Input \in Nat /\ Partial \in Nat /\ Final \in Nat /\ NoCount \notin Nat
    BY StreamAttemptAssumption
<1>2. /\ u \in Usages /\ u.input = Input /\ u.authoritative
      /\ \/ u.output = Final /\ said = "told"
         \/ u.output = Partial /\ said = "started" /\ kind.managed /\ kind.surface = "messages"
    <2>1. /\ kind.managed
          /\ \E n \in IF said = "told" THEN {Final}
                    ELSE IF said = "started" /\ kind.surface = "messages" THEN {Partial} ELSE {} :
               u = [input |-> Input, output |-> n, authoritative |-> TRUE]
        BY DEF HelperUsage
    <2>2. PICK n \in {Partial, Final} :
             /\ u = [input |-> Input, output |-> n, authoritative |-> TRUE]
             /\ \/ n = Final /\ said = "told"
                \/ n = Partial /\ said = "started" /\ kind.surface = "messages"
        BY <2>1
    <2> QED
        BY <2>1, <2>2 DEF Usages, Counts
<1>3. Merged(usage, u).input = Input
    BY <1>1, <1>2 DEF Merged, Latest
<1> QED
    BY <1>1, <1>2, <1>3, Merging

\* A decision settles the provider's counts, $0 of a refused request, or
\* nothing.
LEMMA Deciding ==
    ASSUME TypeOK, UsageOK, NEW o \in Outcomes \cup {"none"}, NEW p \in Decisions(o)
    PROVE  /\ p \in Plans /\ Unacked(p) \in Plans
           /\ Recorded(p) \in Nat
           /\ Recorded(Unacked(p)) = p.cost /\ Recorded(Unacked(p)) \in Nat
           /\ p.confidence \in {"exact", "pending", "pending_reconciliation"}
           /\ p.confidence = "exact" =>
                /\ Recorded(p) = p.cost
                /\ \/ o = "REJECTED" /\ p.cost = 0
                   \/ o = "COMPLETE" /\ p.cost = Input + Final /\ upstream = "told"
                   \/ o = "COMPLETE" /\ p.cost = Input + Partial /\ CutShort
<1>1. /\ Input \in Nat /\ Partial \in Nat /\ Final \in Nat /\ Hold \in Nat
      /\ usage.authoritative => \/ Cost(usage) = Input + Final /\ upstream = "told"
                                \/ Cost(usage) = Input + Partial /\ CutShort
    BY StreamAttemptAssumption DEF UsageOK, Cost
<1>2. \A c \in {0, Input + Partial, Input + Final, Hold} : \A h \in Confidences :
         Deal(c, h) \in Plans /\ Deal(c, h).cost = c /\ Deal(c, h).confidence = h
    BY DEF Deal, Plans
<1>3. \/ p = Deal(0, "exact") /\ o = "REJECTED"
      \/ p = Deal(Input + Final, "exact") /\ o = "COMPLETE" /\ upstream = "told"
      \/ p = Deal(Input + Partial, "exact") /\ o = "COMPLETE" /\ CutShort
      \/ p = Deal(Hold, "pending_reconciliation")
      \/ p = Deal(0, "pending")
    BY <1>1 DEF Decisions
<1>4. Unacked(p) = Deal(p.cost, "exact_usage_pending_settlement") 
      /\ p.cost \in {0, Input + Partial, Input + Final, Hold}
    BY <1>2, <1>3 DEF Unacked, Deal, Confidences
<1> QED
    BY <1>1, <1>2, <1>3, <1>4 DEF Recorded, Confidences

-----------------------------------------------------------------------------
(* What the actions do to an actor and to the attempt. *)

\* The end of a finalization.
LEMMA Completing ==
    ASSUME TypeOK, NEW a \in Actors, NEW p \in Plans, Recorded(p) \in Nat, CompleteLocal(a, p)
    PROVE  /\ finalized' /\ ~busy' /\ confidence' = p.confidence
           /\ releases' = releases + 1 /\ spent' = spent + Recorded(p)
           /\ releases' \in Nat /\ spent' \in Nat /\ plan' \in Plans /\ confidence' \in Confidences
           /\ at' = [at EXCEPT ![a] = "idle"] /\ aim' = [aim EXCEPT ![a] = "none"]
           /\ finalized' \in BOOLEAN /\ busy' \in BOOLEAN
<1>1. NoPlan \in Plans
    BY DEF NoPlan, Plans, Confidences
<1>2. finalized' /\ ~busy' /\ finalized' \in BOOLEAN /\ busy' \in BOOLEAN
    BY DEF CompleteLocal
<1>3. /\ confidence' = p.confidence /\ p.confidence \in Confidences
      /\ plan' \in Plans
    BY <1>1 DEF CompleteLocal, Plans
<1>4. /\ releases' = releases + 1 /\ spent' = spent + Recorded(p)
      /\ releases \in Nat /\ spent \in Nat
    BY DEF CompleteLocal, TypeOK
<1>5. at' = [at EXCEPT ![a] = "idle"] /\ aim' = [aim EXCEPT ![a] = "none"]
    BY DEF CompleteLocal, Return, Go
<1> QED
    BY <1>2, <1>3, <1>4, <1>5

\* A stream that is over stays so, and the provider takes nothing back.
Onwards ==
    /\ kind' = kind
    /\ over => over' /\ upstream' = upstream
    /\ upstream = "told" => upstream' = "told"

\* The actions that leave the attempt and the money alone.
Moves(a) ==
    \/ Opened(a) \/ OpenFailed(a) \/ ManagerEntered(a) \/ EnterDone(a)
    \/ Chunk(a) \/ End(a) \/ Fail(a) \/ HelperDone(a) \/ Closed(a) \/ ExitDone(a)
    \/ FinalizeNothing(a) \/ Call(a)
    \/ CancelOpening(a) \/ CancelUse(a) \/ CancelClosing(a)

LEMMA MoveShape ==
    ASSUME TypeOK, UsageOK, NEW a \in Actors, Moves(a)
    PROVE  /\ at[a] \notin Settling
           /\ \E q \in ({"idle", "finalize"} \cup Waiting) \ {"opening"} : at' = [at EXCEPT ![a] = q]
           /\ \E o \in Outcomes \cup {"none"} : aim' = [aim EXCEPT ![a] = o]
           /\ UNCHANGED <<kind, attempt, money>>
           /\ Onwards
           /\ phase' = phase \/ at[a] = "opening"
           /\ phase' # "opening" \/ at[a] # "opening"
           /\ cut => cut'
           /\ UNCHANGED cancels \/ (cancels < MaxCancels /\ cancels' = cancels + 1)
<1> USE DEF Go, Return, Aim, FinalizeAs, UnchangedAttempt, TypeOK, Onwards, proxy, attempt, money, bounds
<1>1. CASE Opened(a) \/ OpenFailed(a) \/ ManagerEntered(a) \/ EnterDone(a)
    BY <1>1 DEF Opened, OpenFailed, ManagerEntered, EnterDone, Settling, Waiting, Outcomes
<1>2. CASE Chunk(a)
    <2>1. /\ ~over /\ over' = over /\ kind' = kind
          /\ upstream = "told" => upstream' = "told"
        BY <1>2, Saying DEF Chunk
    <2> QED
        BY <1>2, <2>1 DEF Chunk, Settling, Waiting, Outcomes
<1>3. CASE End(a) \/ Fail(a) \/ HelperDone(a)
    BY <1>3 DEF End, Fail, HelperDone, Further, Settling, Waiting, Outcomes
<1>4. CASE Closed(a) \/ ExitDone(a) \/ FinalizeNothing(a)
    BY <1>4 DEF Closed, ExitDone, LeaveAs, FinalizeNothing, Settling, Waiting, Outcomes
<1>5. CASE Call(a)
    BY <1>5 DEF Call, Enter, NextChunk, Helper, Close, Exit, ExitPlain, LeaveAs, Settling, Waiting,
                Outcomes
<1>6. CASE CancelOpening(a) \/ CancelUse(a) \/ CancelClosing(a)
    BY <1>6 DEF CancelOpening, CancelUse, CancelClosing, Cancel, Settling, Waiting, Outcomes
<1> QED
    BY <1>1, <1>2, <1>3, <1>4, <1>5, <1>6 DEF Moves

\* The actions that settle: a begin, its awaits, and its end.
Settles(a) ==
    \/ Finalize(a) \/ FinalizeAsync(a) \/ ReconcileAcked(a) \/ ReconcileUnacked(a) \/ Marked(a)
    \/ CancelReconcile(a) \/ CancelMark(a)

LEMMA Split == ASSUME NEW a, Work(a) \/ Call(a) \/ Cancelled(a) PROVE Moves(a) \/ Settles(a)
BY DEF Work, Finalizing, Cancelled, Moves, Settles

\* The ways a finalization begins: it ends at once, with the settlement
\* acknowledged, without any, with one that is not, or with none to make; or
\* its task awaits the settlement or the mark.
Acknowledged(a, p) ==
    /\ p.confidence = "exact" /\ CompleteLocal(a, p)
    /\ intents' = intents \cup {UsageKnown(p.cost)} /\ acked' = TRUE
Unreserved(a, p) == ~kind.reserved /\ CompleteLocal(a, p) /\ UNCHANGED intents
Lost(a, p) ==
    /\ p.confidence = "exact" /\ CompleteLocal(a, Unacked(p))
    /\ intents' = intents \cup {UsageKnown(p.cost), OutcomeUnknown}
Pending(a, p) ==
    /\ p.confidence # "exact" /\ CompleteLocal(a, p)
    /\ intents' = intents \cup {OutcomeUnknown}
Awaits(a, p) ==
    /\ kind.async /\ kind.reserved
    /\ busy' = TRUE /\ plan' = p
    /\ IF p.confidence = "exact"
       THEN intents' = intents \cup {UsageKnown(p.cost)} /\ at' = [at EXCEPT ![a] = "reconcile"]
       ELSE intents' = intents \cup {OutcomeUnknown} /\ at' = [at EXCEPT ![a] = "mark"]
    /\ UNCHANGED <<aim, finalized, confidence, releases, spent>>

LEMMA BeginShape ==
    ASSUME TypeOK, SettlingOK, NEW a \in Actors, Finalize(a) \/ FinalizeAsync(a)
    PROVE  /\ at[a] = "finalize" /\ ~finalized /\ ~busy
           /\ outcome' \in Outcomes \cup {"none"} /\ acked' \in BOOLEAN
           /\ UNCHANGED <<kind, proxy, usage, bounds>>
           /\ \E p \in Decisions(aim[a]) :
                Acknowledged(a, p) \/ Unreserved(a, p) \/ Lost(a, p) \/ Pending(a, p) \/ Awaits(a, p)
<1>1. ~busy
    BY DEF Finalize, FinalizeAsync, SettlingOK
<1>2. outcome' \in Outcomes \cup {"none"} /\ acked' \in BOOLEAN
    BY DEF Finalize, FinalizeAsync, TypeOK, Kinds
<1>3. CASE Finalize(a)
    <2>1. PICK p \in Decisions(aim[a]) :
            \/ /\ p.confidence = "exact" \/ ~kind.reserved
               /\ CompleteLocal(a, p)
               /\ intents' = IF kind.reserved THEN intents \cup {UsageKnown(p.cost)} ELSE intents
               /\ acked' = kind.reserved
            \/ p.confidence = "exact" /\ Lost(a, p)
            \/ p.confidence # "exact" /\ Pending(a, p)
        BY <1>3 DEF Finalize, Lost, Pending
    <2>2. Acknowledged(a, p) \/ Unreserved(a, p) \/ Lost(a, p) \/ Pending(a, p)
        BY <2>1 DEF Acknowledged, Unreserved, TypeOK, Kinds
    <2> QED
        BY <1>1, <1>2, <1>3, <2>2 DEF Finalize
<1>4. CASE FinalizeAsync(a)
    <2>1. PICK p \in Decisions(aim[a]) : Unreserved(a, p) \/ Awaits(a, p)
        BY <1>4 DEF FinalizeAsync, Unreserved, Awaits, Go
    <2> QED
        BY <1>1, <1>2, <1>4, <2>1 DEF FinalizeAsync
<1> QED
    BY <1>3, <1>4

\* What the other settling actions change.
LEMMA SettleShape ==
    ASSUME NEW a \in Actors,
           ReconcileAcked(a) \/ ReconcileUnacked(a) \/ Marked(a) \/ CancelReconcile(a) \/ CancelMark(a)
    PROVE  /\ at[a] \in Settling
           /\ UNCHANGED <<kind, upstream, over, closed, entered, ending, usage, outcome, phase>>
           /\ cut => cut'
BY DEF ReconcileAcked, ReconcileUnacked, Marked, CancelReconcile, CancelMark, Cancel, Settling,
       proxy, bounds

-----------------------------------------------------------------------------
(* The type. *)

LEMMA TypeStep == TypeOK /\ UsageOK /\ SettlingOK /\ [Next]_vars => TypeOK'
<1> SUFFICES ASSUME TypeOK, UsageOK, SettlingOK, [Next]_vars PROVE TypeOK'
    OBVIOUS
<1> USE StreamAttemptAssumption
<1>1. ASSUME NEW a \in Actors, Moves(a) PROVE TypeOK'
    <2>1. /\ at' \in [Actors -> {"idle", "finalize"} \cup Waiting \cup Settling]
          /\ aim' \in [Actors -> Outcomes \cup {"none"}]
          /\ cancels' \in 0..MaxCancels
          /\ UNCHANGED <<kind, attempt, money>>
        BY <1>1, MoveShape DEF TypeOK
    <2>2. usage' \in Usages /\ upstream' \in {"fresh", "started", "told"} /\ over' \in BOOLEAN
        <3>1. CASE Chunk(a)
            <4>1. ~over /\ over' = over /\ kind' = kind
                BY <3>1 DEF Chunk
            <4> QED
                BY <3>1, <4>1, Saying DEF Chunk, TypeOK
        <3>2. CASE End(a) \/ HelperDone(a)
            <4>1. usage' = usage \/ \E u \in HelperUsage(upstream') : usage' = Merged(usage, u)
                BY <3>2 DEF End, HelperDone, WithHelper
            <4> QED
                BY <3>2, <4>1, Helping DEF End, HelperDone, Further, TypeOK
        <3>3. CASE ~Chunk(a) /\ ~End(a) /\ ~HelperDone(a)
            BY <1>1, <3>3
               DEF Moves, Opened, OpenFailed, ManagerEntered, EnterDone, Fail, Closed, ExitDone,
                   FinalizeNothing, Call, Enter, NextChunk, Helper, Close, Exit, ExitPlain,
                   CancelOpening, CancelUse, CancelClosing, Cancel, UnchangedAttempt, TypeOK, proxy
        <3> QED
            BY <3>1, <3>2, <3>3
    <2>3. /\ phase' \in {"opening", "open", "refused"}
          /\ entered' \in BOOLEAN
          /\ ending' \in {"none", "exhausted", "cutoff"}
        BY <1>1
           DEF Moves, Opened, OpenFailed, ManagerEntered, EnterDone, Chunk, End, Fail, HelperDone,
               Closed, ExitDone, FinalizeNothing, Call, Enter, NextChunk, Helper, Close, Exit,
               ExitPlain, CancelOpening, CancelUse, CancelClosing, Cancel, TypeOK, proxy
    <2>4. closed' \in BOOLEAN /\ cut' \in BOOLEAN
        BY <1>1
           DEF Moves, Opened, OpenFailed, ManagerEntered, EnterDone, Chunk, End, Fail, HelperDone,
               Closed, ExitDone, FinalizeNothing, Call, Enter, NextChunk, Helper, Close, Exit,
               ExitPlain, CancelOpening, CancelUse, CancelClosing, Cancel, UnchangedAttempt, TypeOK,
               proxy, bounds
    <2> QED
        BY <2>1, <2>2, <2>3, <2>4 DEF TypeOK, attempt, money
<1>2. ASSUME NEW a \in Actors, Finalize(a) \/ FinalizeAsync(a) PROVE TypeOK'
    <2>1. PICK p \in Decisions(aim[a]) :
             Acknowledged(a, p) \/ Unreserved(a, p) \/ Lost(a, p) \/ Pending(a, p) \/ Awaits(a, p)
        BY <1>2, BeginShape
    <2>2. /\ outcome' \in Outcomes \cup {"none"} /\ acked' \in BOOLEAN
          /\ UNCHANGED <<kind, proxy, usage, bounds>>
        BY <1>2, BeginShape
    <2>3. /\ p \in Plans /\ Unacked(p) \in Plans
          /\ Recorded(p) \in Nat /\ Recorded(Unacked(p)) \in Nat
          /\ p.confidence = "exact" => p.cost \in {0, Input + Partial, Input + Final}
        BY <2>1, Deciding DEF TypeOK, Plans
    <2>4. /\ releases' \in Nat /\ spent' \in Nat /\ plan' \in Plans /\ confidence' \in Confidences
          /\ finalized' \in BOOLEAN /\ busy' \in BOOLEAN
          /\ at' \in [Actors -> {"idle", "finalize"} \cup Waiting \cup Settling]
          /\ aim' \in [Actors -> Outcomes \cup {"none"}]
        <3>1. CASE CompleteLocal(a, p) \/ CompleteLocal(a, Unacked(p))
            BY <2>3, <3>1, Completing DEF TypeOK
        <3>2. CASE Awaits(a, p)
            BY <2>3, <3>2 DEF Awaits, TypeOK, Settling
        <3> QED
            BY <2>1, <3>1, <3>2 DEF Acknowledged, Unreserved, Lost, Pending
    <2>5. intents' \subseteq {OutcomeUnknown} \cup {UsageKnown(x) : x \in {0, Input + Partial, Input + Final}}
        BY <2>1, <2>3 DEF Acknowledged, Unreserved, Lost, Pending, Awaits, TypeOK
    <2> QED
        BY <2>2, <2>4, <2>5 DEF TypeOK, proxy, bounds
<1>3. ASSUME NEW a \in Actors, ReconcileAcked(a) \/ Marked(a) PROVE TypeOK'
    <2>1. CompleteLocal(a, plan) /\ plan \in Plans /\ Recorded(plan) \in Nat
        BY <1>3 DEF ReconcileAcked, Marked, TypeOK, Plans, Recorded
    <2>2. UNCHANGED <<kind, proxy, usage, outcome, intents, bounds>> /\ acked' \in BOOLEAN
        BY <1>3 DEF ReconcileAcked, Marked, TypeOK
    <2> QED
        BY <2>1, <2>2, Completing DEF TypeOK, proxy, bounds
<1>4. ASSUME NEW a \in Actors, ReconcileUnacked(a) \/ CancelReconcile(a) \/ CancelMark(a) PROVE TypeOK'
    <2>1. Unacked(plan) \in Plans
        BY DEF Unacked, TypeOK, Plans, Confidences
    <2>2. /\ at' \in [Actors -> {"idle", "finalize"} \cup Waiting \cup Settling]
          /\ aim' \in [Actors -> Outcomes \cup {"none"}]
        BY <1>4
           DEF ReconcileUnacked, CancelReconcile, CancelMark, Cancel, Go, Return, TypeOK, Settling
    <2>3. /\ plan' \in Plans /\ busy' \in BOOLEAN
          /\ intents' \in {intents, intents \cup {OutcomeUnknown}}
        BY <1>4, <2>1 DEF ReconcileUnacked, CancelReconcile, CancelMark, TypeOK
    <2>4. UNCHANGED cancels \/ (cancels < MaxCancels /\ cancels' = cancels + 1)
        BY <1>4 DEF ReconcileUnacked, CancelReconcile, CancelMark, Cancel, bounds
    <2>5. cut' \in BOOLEAN
        BY <1>4 DEF ReconcileUnacked, CancelReconcile, CancelMark, bounds, TypeOK
    <2>6. UNCHANGED <<finalized, confidence, releases, spent, acked>>
        BY <1>4 DEF ReconcileUnacked, CancelReconcile, CancelMark, Cancel
    <2>7. cancels' \in 0..MaxCancels
        BY <2>4 DEF TypeOK
    <2> QED
        BY <1>4, <2>2, <2>3, <2>5, <2>6, <2>7, SettleShape DEF TypeOK
<1>5. CASE UNCHANGED vars
    BY <1>5 DEF vars, proxy, attempt, money, bounds, TypeOK
<1> QED
    BY <1>1, <1>2, <1>3, <1>4, <1>5, Split DEF Next, Settles

-----------------------------------------------------------------------------
(* The other parts. *)

LEMMA UsageStep == TypeOK /\ UsageOK /\ SettlingOK /\ [Next]_vars => UsageOK'
<1> SUFFICES ASSUME TypeOK, UsageOK, SettlingOK, [Next]_vars PROVE UsageOK'
    OBVIOUS
<1>1. ASSUME UNCHANGED usage, Onwards PROVE UsageOK'
    BY <1>1 DEF UsageOK, Onwards, CutShort
<1>2. ASSUME NEW a \in Actors, Chunk(a) PROVE UsageOK'
    <2>1. ~over /\ over' = over /\ kind' = kind
        BY <1>2 DEF Chunk
    <2> QED
        BY <1>1, <1>2, <2>1, Saying DEF Chunk, Onwards
<1>3. ASSUME NEW a \in Actors, End(a) \/ HelperDone(a) PROVE UsageOK'
    <2>1. over' /\ kind' = kind /\ Onwards
        BY <1>3, MoveShape DEF End, HelperDone, Moves, Onwards
    <2>2. usage' = usage \/ \E u \in HelperUsage(upstream') : usage' = Merged(usage, u)
        BY <1>3 DEF End, HelperDone, WithHelper
    <2> QED
        BY <1>1, <2>1, <2>2, Helping DEF UsageOK, CutShort
<1>4. ASSUME NEW a \in Actors, Moves(a), ~Chunk(a), ~End(a), ~HelperDone(a) PROVE UsageOK'
    BY <1>1, <1>4, MoveShape
       DEF Moves, Opened, OpenFailed, ManagerEntered, EnterDone, Fail, Closed, ExitDone,
           FinalizeNothing, Call, Enter, NextChunk, Helper, Close, Exit, ExitPlain, CancelOpening,
           CancelUse, CancelClosing, Cancel, UnchangedAttempt, proxy
<1>5. ASSUME NEW a \in Actors, Settles(a) PROVE UsageOK'
    BY <1>1, <1>5, BeginShape, SettleShape DEF Settles, proxy, Onwards
<1>6. CASE UNCHANGED vars
    BY <1>1, <1>6 DEF vars, proxy, Onwards
<1> QED
    BY <1>2, <1>3, <1>4, <1>5, <1>6, Split DEF Next

\* A settling action takes its actor to "idle" or leaves it where it settles.
LEMMA SettleGoes ==
    ASSUME TypeOK, UsageOK, SettlingOK, NEW a \in Actors, Settles(a)
    PROVE  /\ at[a] \in {"finalize"} \cup Settling
           /\ \E q \in {"idle"} \cup Settling : at' = [at EXCEPT ![a] = q]
           /\ UNCHANGED aim \/ aim' = [aim EXCEPT ![a] = "none"]
           /\ UNCHANGED <<phase, upstream, over, closed, kind>>
           /\ cut => cut'
<1>1. CASE Finalize(a) \/ FinalizeAsync(a)
    <2>1. PICK p \in Decisions(aim[a]) :
             Acknowledged(a, p) \/ Unreserved(a, p) \/ Lost(a, p) \/ Pending(a, p) \/ Awaits(a, p)
        BY <1>1, BeginShape
    <2>2. p \in Plans /\ Unacked(p) \in Plans /\ Recorded(p) \in Nat /\ Recorded(Unacked(p)) \in Nat
        BY <2>1, Deciding DEF TypeOK
    <2>3. CASE CompleteLocal(a, p) \/ CompleteLocal(a, Unacked(p))
        BY <1>1, <2>2, <2>3, Completing, BeginShape DEF proxy, bounds
    <2>4. CASE Awaits(a, p)
        BY <1>1, <2>4, BeginShape DEF Awaits, Settling, proxy, bounds
    <2> QED
        BY <2>1, <2>3, <2>4 DEF Acknowledged, Unreserved, Lost, Pending
<1>2. CASE ~(Finalize(a) \/ FinalizeAsync(a))
    <2>1. /\ \E q \in {"idle"} \cup Settling : at' = [at EXCEPT ![a] = q]
          /\ UNCHANGED aim \/ aim' = [aim EXCEPT ![a] = "none"]
        BY <1>2
           DEF Settles, ReconcileAcked, ReconcileUnacked, Marked, CancelReconcile, CancelMark,
               CompleteLocal, Go, Return, Settling
    <2> QED
        BY <1>2, <2>1, SettleShape DEF Settles
<1> QED
    BY <1>1, <1>2

LEMMA ActorsStep == TypeOK /\ TypeOK' /\ UsageOK /\ SettlingOK /\ ActorsOK /\ [Next]_vars => ActorsOK'
<1> SUFFICES ASSUME TypeOK, TypeOK', UsageOK, SettlingOK, ActorsOK, [Next]_vars PROVE ActorsOK'
    OBVIOUS
<1>1. ASSUME NEW a \in Actors, Moves(a) PROVE ActorsOK'
    <2>1. PICK q \in ({"idle", "finalize"} \cup Waiting) \ {"opening"} : at' = [at EXCEPT ![a] = q]
        BY <1>1, MoveShape
    <2>2. PICK o \in Outcomes \cup {"none"} : aim' = [aim EXCEPT ![a] = o]
        BY <1>1, MoveShape
    <2>3. /\ \A b \in Actors \ {a} : at'[b] = at[b] /\ aim'[b] = aim[b]
          /\ at'[a] = q /\ aim'[a] = o
        BY <2>1, <2>2 DEF TypeOK
    <2>4. /\ over => over'
          /\ phase' = phase \/ at[a] = "opening"
          /\ phase' # "opening" \/ at[a] # "opening"
        BY <1>1, MoveShape DEF Onwards
    <2>5. q = "finalize" /\ o = "COMPLETE" => over'
        BY <1>1, <2>3
           DEF Moves, Opened, OpenFailed, ManagerEntered, EnterDone, Chunk, End, Fail, HelperDone,
               Closed, ExitDone, FinalizeNothing, Call, Enter, NextChunk, Helper, Close, Exit,
               ExitPlain, CancelOpening, CancelUse, CancelClosing, Go, Aim, FinalizeAs, Return,
               TypeOK
    <2>6. o = "REJECTED" => phase' = "refused" \/ (aim[a] = "REJECTED" /\ phase' = phase)
        <3>1. CASE Opened(a) \/ OpenFailed(a) \/ ManagerEntered(a) \/ EnterDone(a)
            BY <2>3, <2>4, <3>1, <2>2
               DEF Opened, OpenFailed, ManagerEntered, EnterDone, FinalizeAs, Aim, TypeOK, ActorsOK
        <3>2. CASE Chunk(a) \/ End(a) \/ Fail(a) \/ HelperDone(a)
            BY <2>3, <3>2 DEF Chunk, End, Fail, HelperDone, FinalizeAs, Aim, TypeOK
        <3>3. CASE Closed(a) \/ ExitDone(a) \/ FinalizeNothing(a)
            BY <2>3, <3>3 DEF Closed, ExitDone, LeaveAs, FinalizeNothing, FinalizeAs, Aim, Return,
                              proxy, TypeOK
        <3>4. CASE Call(a)
            BY <2>3, <3>4 DEF Call, Enter, NextChunk, Helper, Close, Exit, ExitPlain, LeaveAs, Aim,
                              proxy, TypeOK
        <3>5. CASE CancelOpening(a) \/ CancelUse(a) \/ CancelClosing(a)
            BY <2>3, <3>5 DEF CancelOpening, CancelUse, CancelClosing, FinalizeAs, Aim, Return, TypeOK
        <3> QED
            BY <1>1, <3>1, <3>2, <3>3, <3>4, <3>5 DEF Moves
    <2>7. phase = "opening" => at[a] = "opening"
        BY <1>1
           DEF Moves, Opened, OpenFailed, ManagerEntered, EnterDone, Chunk, End, Fail, HelperDone,
               Closed, ExitDone, FinalizeNothing, Call, Enter, NextChunk, Helper, Close, Exit,
               ExitPlain, CancelOpening, CancelUse, CancelClosing, ActorsOK
    <2>8. phase' # "opening"
        BY <2>4, <2>7
    <2> QED
        BY <2>3, <2>4, <2>5, <2>6, <2>8 DEF ActorsOK
<1>2. ASSUME NEW a \in Actors, Settles(a) PROVE ActorsOK'
    <2>1. PICK q \in {"idle"} \cup Settling : at' = [at EXCEPT ![a] = q]
        BY <1>2, SettleGoes
    <2>2. \A b \in Actors : /\ at'[b] = at[b] \/ at'[b] \in {"idle"} \cup Settling
                            /\ aim'[b] \in {aim[b], "none"}
        BY <1>2, <2>1, SettleGoes DEF TypeOK
    <2>3. phase' # "opening"
        BY <1>2, SettleGoes DEF ActorsOK, Settling
    <2> QED
        BY <1>2, <2>2, <2>3, SettleGoes DEF ActorsOK, Settling
<1>3. CASE UNCHANGED vars
    BY <1>3 DEF vars, proxy, ActorsOK
<1> QED
    BY <1>1, <1>2, <1>3, Split DEF Next

LEMMA SettlingStep == TypeOK /\ UsageOK /\ SettlingOK /\ [Next]_vars => SettlingOK'
<1> SUFFICES ASSUME TypeOK, UsageOK, SettlingOK, [Next]_vars PROVE SettlingOK'
    OBVIOUS
\* Nobody settles.
<1>1. ASSUME ~busy', \A b \in Actors : at'[b] \notin Settling PROVE SettlingOK'
    BY <1>1 DEF SettlingOK
<1>2. ASSUME NEW a \in Actors, Moves(a) PROVE SettlingOK'
    <2>1. PICK q \in ({"idle", "finalize"} \cup Waiting) \ {"opening"} : at' = [at EXCEPT ![a] = q]
        BY <1>2, MoveShape
    <2>2. \A b \in Actors : at'[b] \in Settling <=> at[b] \in Settling
        BY <1>2, <2>1, MoveShape DEF TypeOK, Settling, Waiting
    <2>3. \A b \in Actors : at'[b] \in Settling => at'[b] = at[b]
        BY <1>2, <2>1, MoveShape DEF TypeOK, Settling, Waiting
    <2> QED
        BY <1>2, <2>2, <2>3, MoveShape DEF SettlingOK, attempt, money
\* The actor is the one that settles, or the first to.
<1>3. ASSUME NEW a \in Actors, Settles(a) PROVE \A b \in Actors \ {a} : at[b] \notin Settling
    BY <1>3, BeginShape, SettleShape DEF Settles, SettlingOK
<1>4. ASSUME NEW a \in Actors, Settles(a), at'[a] = "idle", ~busy' PROVE SettlingOK'
    BY <1>1, <1>3, <1>4, SettleGoes DEF TypeOK, Settling
<1>5. ASSUME NEW a \in Actors, Settles(a), at'[a] \in Settling,
             busy' /\ ~finalized' /\ kind'.async /\ kind'.reserved,
             intents' # {},
             IF at'[a] = "reconcile"
             THEN plan'.confidence = "exact" /\ UsageKnown(plan'.cost) \in intents'
             ELSE plan'.confidence # "exact"
      PROVE  SettlingOK'
    <2>1. \A b \in Actors \ {a} : at'[b] \notin Settling
        BY <1>3, <1>5, SettleGoes DEF TypeOK
    <2> QED
        BY <1>5, <2>1 DEF SettlingOK
<1>6. ASSUME NEW a \in Actors, Finalize(a) \/ FinalizeAsync(a) PROVE SettlingOK'
    <2>1. PICK p \in Decisions(aim[a]) :
             Acknowledged(a, p) \/ Unreserved(a, p) \/ Lost(a, p) \/ Pending(a, p) \/ Awaits(a, p)
        BY <1>6, BeginShape
    <2>2. p \in Plans /\ Unacked(p) \in Plans /\ Recorded(p) \in Nat /\ Recorded(Unacked(p)) \in Nat
        BY <2>1, Deciding DEF TypeOK
    <2>3. CASE CompleteLocal(a, p) \/ CompleteLocal(a, Unacked(p))
        BY <1>4, <1>6, <2>2, <2>3, Completing DEF Settles, TypeOK
    <2>4. CASE Awaits(a, p)
        <3>1. at'[a] = (IF p.confidence = "exact" THEN "reconcile" ELSE "mark") /\ plan' = p
              /\ busy' /\ finalized' = finalized /\ ~finalized /\ kind' = kind
              /\ kind.async /\ kind.reserved
            BY <1>6, <2>4, BeginShape DEF Awaits, TypeOK
        <3>2. intents' # {} /\ (p.confidence = "exact" => UsageKnown(p.cost) \in intents')
            BY <2>4 DEF Awaits
        <3> QED
            BY <1>5, <1>6, <3>1, <3>2 DEF Settles, Settling
    <2> QED
        BY <2>1, <2>3, <2>4 DEF Acknowledged, Unreserved, Lost, Pending
<1>7. ASSUME NEW a \in Actors, ReconcileAcked(a) \/ Marked(a) PROVE SettlingOK'
    <2>1. CompleteLocal(a, plan) /\ plan \in Plans /\ Recorded(plan) \in Nat
        BY <1>7, StreamAttemptAssumption DEF ReconcileAcked, Marked, TypeOK, Plans, Recorded
    <2> QED
        BY <1>4, <1>7, <2>1, Completing DEF Settles, TypeOK
<1>8. ASSUME NEW a \in Actors, ReconcileUnacked(a) \/ CancelReconcile(a) PROVE SettlingOK'
    <2>1. at'[a] \in {"mark", "rescue"} /\ plan' = Unacked(plan) /\ intents' = intents \cup {OutcomeUnknown}
        BY <1>8 DEF ReconcileUnacked, CancelReconcile, Go, TypeOK
    <2>2. busy /\ ~finalized /\ kind.async /\ kind.reserved /\ UNCHANGED <<busy, finalized, kind>>
        BY <1>8, SettleShape DEF SettlingOK, ReconcileUnacked, CancelReconcile, Cancel
    <2>3. plan'.confidence = "exact_usage_pending_settlement"
        BY <2>1 DEF Unacked, TypeOK, Plans
    <2> QED
        BY <1>5, <1>8, <2>1, <2>2, <2>3 DEF Settles, Settling
<1>9. ASSUME NEW a \in Actors, CancelMark(a) PROVE SettlingOK'
    BY <1>4, <1>9 DEF CancelMark, Return, Go, Settles, TypeOK
<1>10. CASE UNCHANGED vars
    BY <1>10 DEF vars, attempt, money, SettlingOK
<1> QED
    BY <1>2, <1>6, <1>7, <1>8, <1>9, <1>10, Split DEF Next, Settles

-----------------------------------------------------------------------------
(* The hold, the amounts and the evidence. *)

AccountsOK == MoneyOK /\ HoldReleasedOnce /\ AmountsAgree /\ EvidenceKept

\* The end of a finalization that settled p, once its evidence is journaled.
LEMMA EndAccounts ==
    ASSUME TypeOK, AccountsOK, NEW a \in Actors, NEW p \in Plans, Recorded(p) \in Nat,
           CompleteLocal(a, p), ~finalized, kind' = kind,
           kind.reserved => intents' # {},
           kind.reserved /\ p.confidence = "exact" => acked' /\ UsageKnown(Recorded(p)) \in intents',
           ~cut' => \A i \in intents' : i.event = "usage_known" => i.amount = Recorded(p)
    PROVE  AccountsOK'
<1>1. /\ finalized' /\ releases' = 1 /\ confidence' = p.confidence
      /\ spent' = Recorded(p)
    BY Completing DEF AccountsOK, MoneyOK, HoldReleasedOnce
<1> QED
    BY <1>1 DEF AccountsOK, MoneyOK, HoldReleasedOnce, AmountsAgree, EvidenceKept

\* An attempt that goes on settling, or is given up by a cancelled task.
LEMMA GoingOnAccounts ==
    ASSUME AccountsOK, ~finalized, UNCHANGED <<finalized, releases, spent>>,
           ~cut' => busy' /\ \A i \in intents' : i.event = "usage_known" => i.amount = Recorded(plan')
    PROVE  AccountsOK'
BY DEF AccountsOK, MoneyOK, HoldReleasedOnce, AmountsAgree, EvidenceKept

LEMMA AccountsStep == TypeOK /\ UsageOK /\ SettlingOK /\ AccountsOK /\ [Next]_vars => AccountsOK'
<1> SUFFICES ASSUME TypeOK, UsageOK, SettlingOK, AccountsOK, [Next]_vars PROVE AccountsOK'
    OBVIOUS
<1>1. ASSUME UNCHANGED <<kind, attempt, money>>, cut => cut' PROVE AccountsOK'
    BY <1>1 DEF AccountsOK, MoneyOK, HoldReleasedOnce, AmountsAgree, EvidenceKept, attempt, money
<1>2. ASSUME NEW a \in Actors, Moves(a) PROVE AccountsOK'
    BY <1>1, <1>2, MoveShape
<1>3. ASSUME NEW a \in Actors, Finalize(a) \/ FinalizeAsync(a) PROVE AccountsOK'
    <2>1. PICK p \in Decisions(aim[a]) :
             Acknowledged(a, p) \/ Unreserved(a, p) \/ Lost(a, p) \/ Pending(a, p) \/ Awaits(a, p)
        BY <1>3, BeginShape
    <2>2. /\ p \in Plans /\ Unacked(p) \in Plans /\ Recorded(p) \in Nat
          /\ Recorded(Unacked(p)) = p.cost /\ Recorded(Unacked(p)) \in Nat
          /\ p.confidence = "exact" => Recorded(p) = p.cost
          /\ Unacked(p).confidence = "exact_usage_pending_settlement"
        BY <2>1, Deciding DEF TypeOK, Unacked, Plans
    <2>3. ~finalized /\ ~busy /\ kind' = kind /\ cut' = cut
        BY <1>3, BeginShape DEF bounds
    <2>4. ~cut => intents = {}
        BY <2>3 DEF AccountsOK, MoneyOK
    <2>5. \A c : /\ UsageKnown(c).event = "usage_known" /\ UsageKnown(c).amount = c
                 /\ OutcomeUnknown.event # "usage_known"
        BY DEF UsageKnown, OutcomeUnknown, Intent
    <2>6. CASE Acknowledged(a, p)
        BY <2>2, <2>3, <2>4, <2>5, <2>6, EndAccounts DEF Acknowledged
    <2>7. CASE Unreserved(a, p)
        BY <2>2, <2>3, <2>4, <2>7, EndAccounts DEF Unreserved
    <2>8. CASE Lost(a, p)
        BY <2>2, <2>3, <2>4, <2>5, <2>8, EndAccounts DEF Lost
    <2>9. CASE Pending(a, p)
        BY <2>2, <2>3, <2>4, <2>5, <2>9, EndAccounts DEF Pending
    <2>10. CASE Awaits(a, p)
        <3>1. plan' = p /\ busy' /\ UNCHANGED <<finalized, releases, spent>>
            BY <2>10 DEF Awaits
        <3>2. ~cut' => \A i \in intents' : i.event = "usage_known" => i.amount = Recorded(p)
            BY <2>2, <2>3, <2>4, <2>5, <2>10 DEF Awaits
        <3> QED
            BY <2>3, <3>1, <3>2, GoingOnAccounts
    <2> QED
        BY <2>1, <2>6, <2>7, <2>8, <2>9, <2>10
<1>4. ASSUME NEW a \in Actors, ReconcileAcked(a) \/ Marked(a) PROVE AccountsOK'
    <2>1. /\ CompleteLocal(a, plan) /\ plan \in Plans /\ Recorded(plan) \in Nat
          /\ plan.confidence = "exact" => Recorded(plan) = plan.cost
        BY <1>4, StreamAttemptAssumption DEF ReconcileAcked, Marked, TypeOK, Plans, Recorded
    <2>2. UNCHANGED <<kind, intents, cut>>
        BY <1>4 DEF ReconcileAcked, Marked, bounds
    <2>3. /\ busy /\ ~finalized /\ intents # {}
          /\ at[a] = "reconcile" => plan.confidence = "exact" /\ UsageKnown(plan.cost) \in intents
          /\ at[a] # "reconcile" => plan.confidence # "exact"
        BY <1>4, SettleShape DEF SettlingOK
    <2>4. ~cut => \A i \in intents : i.event = "usage_known" => i.amount = Recorded(plan)
        BY <2>3 DEF AccountsOK, MoneyOK
    <2>5. plan.confidence = "exact" => acked' /\ UsageKnown(plan.cost) \in intents
        BY <1>4, <2>3 DEF ReconcileAcked, Marked
    <2> QED
        BY <2>1, <2>2, <2>3, <2>4, <2>5, EndAccounts
<1>5. ASSUME NEW a \in Actors, ReconcileUnacked(a) \/ CancelReconcile(a) PROVE AccountsOK'
    <2>1. /\ at[a] = "reconcile" /\ plan' = Unacked(plan) /\ intents' = intents \cup {OutcomeUnknown}
          /\ UNCHANGED <<finalized, busy, releases, spent, cut>>
        BY <1>5 DEF ReconcileUnacked, CancelReconcile, Cancel, bounds
    <2>2. busy /\ ~finalized /\ plan.confidence = "exact"
        BY <2>1 DEF SettlingOK, Settling
    <2>3. Recorded(plan') = Recorded(plan)
        BY <2>1, <2>2 DEF Recorded, Unacked, TypeOK, Plans
    <2>4. OutcomeUnknown.event # "usage_known"
        BY DEF OutcomeUnknown, Intent
    <2> QED
        BY <2>1, <2>2, <2>3, <2>4, GoingOnAccounts DEF AccountsOK, MoneyOK
<1>6. ASSUME NEW a \in Actors, CancelMark(a) PROVE AccountsOK'
    <2>1. ~finalized
        BY <1>6, SettleShape DEF SettlingOK
    <2> QED
        BY <1>6, <2>1, GoingOnAccounts DEF CancelMark, Cancel
<1>7. CASE UNCHANGED vars
    BY <1>1, <1>7 DEF vars, bounds
<1> QED
    BY <1>2, <1>3, <1>4, <1>5, <1>6, <1>7, Split DEF Next, Settles

-----------------------------------------------------------------------------
(* What is settled, and who finalizes. *)

LEMMA CountsStep ==
    TypeOK /\ UsageOK /\ SettlingOK /\ ActorsOK /\ OnlyFinalCounts /\ [Next]_vars => OnlyFinalCounts'
<1> SUFFICES ASSUME TypeOK, UsageOK, SettlingOK, ActorsOK, OnlyFinalCounts, [Next]_vars
             PROVE  OnlyFinalCounts'
    OBVIOUS
<1>1. OutcomeUnknown.event # "usage_known"
    BY DEF OutcomeUnknown, Intent
<1>2. ASSUME Onwards, phase = "refused" => phase' = "refused",
             intents' \subseteq intents \cup {OutcomeUnknown}
      PROVE  OnlyFinalCounts'
    BY <1>1, <1>2 DEF OnlyFinalCounts, Onwards, CutShort
<1>3. ASSUME NEW a \in Actors, Moves(a) PROVE OnlyFinalCounts'
    <2>1. phase = "refused" => phase' = "refused"
        BY <1>3, MoveShape DEF ActorsOK
    <2> QED
        BY <1>2, <1>3, <2>1, MoveShape DEF money
<1>4. ASSUME NEW a \in Actors, Finalize(a) \/ FinalizeAsync(a) PROVE OnlyFinalCounts'
    <2>1. PICK p \in Decisions(aim[a]) :
             Acknowledged(a, p) \/ Unreserved(a, p) \/ Lost(a, p) \/ Pending(a, p) \/ Awaits(a, p)
        BY <1>4, BeginShape
    <2>2. at[a] = "finalize" /\ UNCHANGED <<phase, upstream, over, kind>> /\ Onwards
        BY <1>4, BeginShape DEF proxy, Onwards
    <2>3. CASE p.confidence # "exact" \/ Unreserved(a, p)
        BY <1>2, <2>1, <2>2, <2>3 DEF Acknowledged, Unreserved, Lost, Pending, Awaits
    <2>4. CASE p.confidence = "exact" /\ ~Unreserved(a, p)
        <3>1. intents' \subseteq intents \cup {UsageKnown(p.cost), OutcomeUnknown}
            BY <2>1, <2>4 DEF Acknowledged, Lost, Pending, Awaits
        <3>2. \/ p.cost = 0 /\ aim[a] = "REJECTED"
              \/ p.cost = Input + Final /\ aim[a] = "COMPLETE" /\ upstream = "told"
              \/ p.cost = Input + Partial /\ CutShort
            BY <2>1, <2>4, Deciding DEF TypeOK
        <3>3. \/ p.cost = 0 /\ phase' = "refused"
              \/ p.cost = Input + Final /\ over' /\ upstream' = "told"
              \/ p.cost = Input + Partial /\ CutShort'
            BY <2>2, <3>2 DEF ActorsOK, CutShort
        <3>4. UsageKnown(p.cost).amount = p.cost
            BY DEF UsageKnown, Intent
        <3> QED
            BY <1>1, <2>2, <3>1, <3>3, <3>4 DEF OnlyFinalCounts, CutShort
    <2> QED
        BY <2>3, <2>4
<1>5. ASSUME NEW a \in Actors,
             ReconcileAcked(a) \/ ReconcileUnacked(a) \/ Marked(a) \/ CancelReconcile(a) \/ CancelMark(a)
      PROVE  OnlyFinalCounts'
    <2>1. intents' \subseteq intents \cup {OutcomeUnknown}
        BY <1>5 DEF ReconcileAcked, ReconcileUnacked, Marked, CancelReconcile, CancelMark
    <2> QED
        BY <1>2, <1>5, <2>1, SettleShape DEF Onwards
<1>6. CASE UNCHANGED vars
    BY <1>2, <1>6 DEF vars, proxy, money, Onwards
<1> QED
    BY <1>3, <1>4, <1>5, <1>6, Split DEF Next, Settles

LEMMA ClosersStep ==
    TypeOK /\ UsageOK /\ SettlingOK /\ ActorsOK /\ ClosersOK /\ [Next]_vars => ClosersOK'
<1> SUFFICES ASSUME TypeOK, UsageOK, SettlingOK, ActorsOK, ClosersOK, [Next]_vars,
                    Over', ~cut', ~finalized'
             PROVE  \E b \in Actors : at'[b] \in {"finalize", "closeUp"} \cup Settling
    BY DEF ClosersOK
<1> DEFINE Going(q) == q \in {"finalize", "closeUp"} \cup Settling
<1>1. ASSUME NEW a \in Actors, Moves(a) PROVE \E b \in Actors : Going(at'[b])
    <2>1. PICK q \in ({"idle", "finalize"} \cup Waiting) \ {"opening"} : at' = [at EXCEPT ![a] = q]
        BY <1>1, MoveShape
    <2>2. \A b \in Actors \ {a} : at'[b] = at[b]
        BY <2>1 DEF TypeOK
    <2>3. ~cut /\ ~finalized /\ UNCHANGED busy
        BY <1>1, MoveShape DEF attempt
    \* Another one is on the way already.
    <2>4. CASE Over /\ ~Going(at[a])
        <3>1. PICK b \in Actors : Going(at[b])
            BY <2>3, <2>4 DEF ClosersOK
        <3> QED
            BY <2>2, <2>4, <3>1
    <2>5. CASE Over /\ Going(at[a])
        <3>1. CASE Closed(a)
            BY <3>1 DEF Closed, Go, TypeOK
        <3>2. CASE FinalizeNothing(a)
            <4>1. PICK b \in Actors : at[b] \in Settling
                BY <2>3, <3>2 DEF FinalizeNothing, SettlingOK
            <4> QED
                BY <1>1, <2>2, <4>1, MoveShape
        <3> QED
            BY <1>1, <2>5, <3>1, <3>2, <2>3
               DEF Moves, Opened, OpenFailed, ManagerEntered, EnterDone, Chunk, End, Fail, HelperDone,
                   ExitDone, Call, Enter, NextChunk, Helper, Close, Exit, ExitPlain, CancelOpening,
                   CancelUse, CancelClosing, Settling
    \* It is this actor that ends the stream.
    <2>6. CASE ~Over
        <3>1. CASE Opened(a) \/ OpenFailed(a) \/ ManagerEntered(a) \/ CancelOpening(a)
            BY <3>1
               DEF Opened, OpenFailed, ManagerEntered, CancelOpening, UnchangedAttempt, Go, FinalizeAs,
                   Over, TypeOK, ActorsOK
        <3>2. CASE Close(a) \/ ExitPlain(a) \/ ExitDone(a)
            BY <2>6, <3>2
               DEF Close, ExitPlain, ExitDone, Go, FinalizeAs, Return, Over, TypeOK, proxy
        <3>3. CASE CancelClosing(a)
            BY <3>3 DEF CancelClosing
        <3> QED
            BY <1>1, <2>6, <3>1, <3>2, <3>3
               DEF Moves, EnterDone, Chunk, End, Fail, HelperDone, Closed, FinalizeNothing, Call, Enter,
                   NextChunk, Helper, Exit, CancelUse, Over, proxy, UnchangedAttempt
    <2> QED
        BY <2>4, <2>5, <2>6
<1>2. ASSUME NEW a \in Actors, Settles(a) PROVE \E b \in Actors : Going(at'[b])
    <2>1. CASE Finalize(a) \/ FinalizeAsync(a)
        <3>1. PICK p \in Decisions(aim[a]) :
                 Acknowledged(a, p) \/ Unreserved(a, p) \/ Lost(a, p) \/ Pending(a, p) \/ Awaits(a, p)
            BY <2>1, BeginShape
        <3>2. Awaits(a, p)
            BY <3>1 DEF Acknowledged, Unreserved, Lost, Pending, CompleteLocal
        <3> QED
            BY <3>2 DEF Awaits, Settling, TypeOK
    <2>2. CASE ReconcileUnacked(a) \/ CancelReconcile(a)
        BY <2>2 DEF ReconcileUnacked, CancelReconcile, Go, Settling, TypeOK
    <2> QED
        BY <1>2, <2>1, <2>2 DEF Settles, ReconcileAcked, Marked, CompleteLocal, CancelMark
<1>3. CASE UNCHANGED vars
    BY <1>3 DEF vars, proxy, attempt, bounds, Over, ClosersOK
<1> QED
    BY <1>1, <1>2, <1>3, Split DEF Next

-----------------------------------------------------------------------------
(* The theorems. *)

LEMMA Initially == Init => IInv
<1> SUFFICES ASSUME Init PROVE IInv
    OBVIOUS
<1>1. TypeOK
    <2>1. PICK c \in Actors : at = [b \in Actors |-> IF b = c THEN "opening" ELSE "idle"]
        BY DEF Init
    <2>2. at \in [Actors -> {"idle", "finalize"} \cup Waiting \cup Settling]
        BY <2>1 DEF Waiting
    <2>3. usage \in Usages /\ plan \in Plans /\ confidence \in Confidences
        BY DEF Init, Unreported, Usages, Counts, NoPlan, Plans, Confidences
    <2>4. /\ releases \in Nat /\ spent \in Nat /\ cancels \in 0..MaxCancels
          /\ intents \subseteq {OutcomeUnknown} \cup
               {UsageKnown(x) : x \in {0, Input + Partial, Input + Final}}
        BY StreamAttemptAssumption DEF Init
    <2> QED
        BY <2>2, <2>3, <2>4 DEF Init, TypeOK
<1>2. UsageOK /\ OnlyFinalCounts /\ MoneyOK /\ HoldReleasedOnce /\ AmountsAgree /\ EvidenceKept /\ ClosersOK
    BY DEF Init, UsageOK, Unreported, OnlyFinalCounts, MoneyOK, HoldReleasedOnce, AmountsAgree,
           EvidenceKept, ClosersOK, Over
<1>3. PICK c \in Actors : at = [b \in Actors |-> IF b = c THEN "opening" ELSE "idle"]
    BY DEF Init
<1>4. ActorsOK /\ SettlingOK
    BY <1>3 DEF Init, ActorsOK, SettlingOK, Settling
<1> QED
    BY <1>1, <1>2, <1>4 DEF IInv

\* The inductive invariant holds of every behaviour: with it, whichever of the
\* threads or tasks exhausts, closes, leaves or drops the stream first, the rest
\* find the attempt finalized or being finalized (lifecycle.py: finalize,
\* finalize_async).
THEOREM InductiveInvariant == Spec => []IInv
<1>1. IInv /\ [Next]_vars => IInv'
    BY TypeStep, UsageStep, ActorsStep, SettlingStep, AccountsStep, CountsStep, ClosersStep
       DEF IInv, AccountsOK
<1> QED
    BY Initially, <1>1, PTL DEF Spec

\* The state stays in its type.
THEOREM TypeCorrect == Spec => []TypeOK
BY InductiveInvariant, PTL DEF IInv

\* record_call of Enforcement runs once for a stream, when it is finalized.
THEOREM HoldsReleasedOnce == Spec => []HoldReleasedOnce
BY InductiveInvariant, PTL DEF IInv

\* finalize settles the provider's last counts, or $0 of a refused request; of an
\* Anthropic helper that was cut short, its first counts.
THEOREM FinalCountsOnly == Spec => []OnlyFinalCounts
BY InductiveInvariant, PTL DEF IInv

\* The local counter and the settle journal agree about a finalized stream.
THEOREM AmountsAlwaysAgree == Spec => []AmountsAgree
BY InductiveInvariant, PTL DEF IInv

\* A finalized stream has told the journal how its reservation ended.
THEOREM EvidenceIsKept == Spec => []EvidenceKept
BY InductiveInvariant, PTL DEF IInv

\* A stream that was closed or left is finalized once nobody is in a call.
THEOREM ClosedAreFinalized == Spec => []ClosedIsFinalized
<1>1. IInv => ClosedIsFinalized
    BY DEF IInv, ClosersOK, ClosedIsFinalized, Quiet, Settling
<1> QED
    BY InductiveInvariant, <1>1, PTL

=============================================================================
