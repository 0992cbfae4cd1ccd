------------------------- MODULE SettleQueueProofs -------------------------
(***************************************************************************)
(* The settlement journal is correct for every number of writers, flushers,*)
(* intents and keys, and whatever the bounds on calls, crashes and ageings.*)
(*                                                                         *)
(* The inductive invariant IInv has one part per actor for where it is     *)
(* (Working), what it holds (FlushLocked, ClaimsLocked) and why it may     *)
(* remove a file (ForCause).  Every operation that ends in one of several  *)
(* ways is first reduced to what it does to its own actor (WriterMoves,    *)
(* ActorMoves); SteadyStep says what no other actor can take away.         *)
(* With IInv every step is one of IntentJournal, or changes nothing of it. *)
(***************************************************************************)
EXTENDS SettleQueue, TLAPS

-----------------------------------------------------------------------------
(* The inductive invariant, by parts. *)

\* An actor in the middle of a call has an intent, and a flusher has the
\* record of that intent in its listing.
WorkingOf(a) ==
    /\ pc[a] \notin {"idle", "flush"} => intent[a] \in Intents
    /\ a \in Writers => pc[a] \in WriterPoints
    /\ a \in Flushers => /\ pc[a] \in FlusherPoints
                         /\ pc[a] \notin {"idle", "flush"} =>
                              listing[a][intent[a]] \in Records

Working == \A a \in Actors : WorkingOf(a)

\* A flusher that is not idle holds .flush.lock.
FlushLocked == \A f \in Flushers : pc[f] # "idle" => flushLock = f

\* Who removes a claim holds claims/.lock; who releases one after an ack, as
\* a flusher only does, expects its own fingerprint.
LockedOf(a) ==
    /\ pc[a] \in {"steal", "unclaim", "remove"} => victim[a] \in Intents
    /\ pc[a] = "remove" => claimsLock = a
    /\ pc[a] = "unclaim" => victim[a] = intent[a]
    /\ a \in Flushers /\ pc[a] = "remove" => victim[a] = intent[a]

ClaimsLocked == \A a \in Actors : LockedOf(a)

\* What was journaled is kept, unless its claim was taken over.
Safe(i) == Kept(i) \/ i \in takenOver

Settled(i) == held[KeyOf[i]] = i \/ i \in takenOver

\* Only a settled record is acked.  A writer's claim binds until the ack of its
\* intent or a takeover, so one that finds it gone may withdraw its record.
CauseOf(a) ==
    /\ pc[a] \in {"ack", "unclaim"} => held[KeyFor(a)] = intent[a]
    /\ pc[a] = "remove" /\ victim[a] = intent[a] => held[KeyFor(a)] = intent[a]
    /\ a \in Writers =>
        /\ wrote[a] => /\ pc[a] \notin {"idle", "backfill", "check", "write"}
                       /\ Safe(intent[a])
        /\ pc[a] \in {"check", "write", "binds"} =>
              claim[KeyFor(a)] = intent[a] \/ Settled(intent[a])
        /\ wrote[a] /\ pc[a] \in {"claim", "link", "steal", "remove", "withdraw"} =>
              Settled(intent[a])
        /\ pc[a] \in {"withdraw", "binds"} => wrote[a]
        /\ pc[a] = "steal" => victim[a] # intent[a]

ForCause == \A a \in Actors : CauseOf(a)

IInv ==
    /\ TypeOK
    /\ Working
    /\ FlushLocked
    /\ ClaimsLocked
    /\ RemovalIsExact
    /\ ForCause
    /\ NoLostIntent

-----------------------------------------------------------------------------
(* How a call or an item of a flush ends. *)

LocalsOK ==
    /\ pc \in [Actors -> WriterPoints \cup FlusherPoints]
    /\ intent \in [Actors -> Intents \cup {None}]
    /\ victim \in [Actors -> Intents \cup {None}]
    /\ wrote \in [Actors -> BOOLEAN]
    /\ tries \in [Actors -> 0..(ClaimTries - 1)]
    /\ listing \in [Flushers -> [Intents -> Records \cup {Absent}]]

\* However an operation of the queue ends, it leaves its actor well-typed.
LEMMA EndsTyped ==
    ASSUME LocalsOK, NEW a \in Actors
    PROVE  /\ a \in Writers /\ Return(a) => LocalsOK'
           /\ a \in Flushers /\ NextItem(a) => LocalsOK'
           /\ Finish(a) => LocalsOK'
           /\ a \in Writers /\ Conflict(a) => LocalsOK'
           /\ a \in Writers /\ Again(a) => LocalsOK'
           /\ (a \in Flushers => victim[a] = intent[a]) /\ Unclaimed(a) => LocalsOK'
<1> USE SettleQueueAssumption DEF LocalsOK, Actors, WriterPoints, FlusherPoints, GoTo
<1>1. a \in Writers /\ Return(a) => LocalsOK'
    BY DEF Return
<1>2. a \in Flushers /\ NextItem(a) => LocalsOK'
    <2> SUFFICES ASSUME a \in Flushers, NextItem(a) PROVE LocalsOK'
        OBVIOUS
    <2>1. listing' \in [Flushers -> [Intents -> Records \cup {Absent}]]
        <3> DEFINE rest == [listing[a] EXCEPT ![intent[a]] = Absent]
        <3>1. listing' = [listing EXCEPT ![a] = rest]
            BY DEF NextItem
        <3>2. rest \in [Intents -> Records \cup {Absent}]
            OBVIOUS
        <3> QED
            BY <3>1, <3>2
    <2> QED
        BY <2>1 DEF NextItem
<1>3. Finish(a) => LocalsOK'
    BY <1>1, <1>2 DEF Finish
<1>4. a \in Writers /\ Conflict(a) => LocalsOK'
    BY <1>1 DEF Conflict, locals
<1>5. a \in Writers /\ Again(a) => LocalsOK'
    <2>1. ASSUME tries[a] + 1 < ClaimTries, tries' = [tries EXCEPT ![a] = @ + 1]
          PROVE  tries' \in [Actors -> 0..(ClaimTries - 1)]
        BY <2>1
    <2> QED
        BY <1>4, <2>1 DEF Again
<1>6. (a \in Flushers => victim[a] = intent[a]) /\ Unclaimed(a) => LocalsOK'
    BY <1>3, <1>5 DEF Unclaimed
<1> QED
    BY <1>1, <1>2, <1>3, <1>4, <1>5, <1>6

-----------------------------------------------------------------------------
(* Types. *)

OthersOK ==
    /\ record \in [Intents -> Records \cup {Absent}]
    /\ claim \in [Keys -> Intents \cup {None}]
    /\ stale \in [Keys -> BOOLEAN]
    /\ quarantined \subseteq Intents
    /\ claimsLock \in Actors \cup {None}
    /\ flushLock \in Flushers \cup {None}
    /\ held \in [Keys -> Intents \cup {None}]
    /\ late \subseteq Intents
    /\ calls \in [Writers -> 0..MaxCalls]
    /\ crashes \in 0..MaxCrashes
    /\ ageings \in 0..MaxAgeings
    /\ owed \subseteq Intents
    /\ takenOver \subseteq Intents

\* The types of the locals and of the rest make up TypeOK.
LEMMA TypeSplit == (TypeOK <=> LocalsOK /\ OthersOK) /\ (TypeOK' <=> LocalsOK' /\ OthersOK')
    BY DEF TypeOK, LocalsOK, OthersOK

\* Every step keeps the types.
LEMMA TypeStep ==
    TypeOK /\ Working /\ ClaimsLocked /\ [Next]_vars => TypeOK'
<1> SUFFICES ASSUME LocalsOK, OthersOK, Working, ClaimsLocked, [Next]_vars
             PROVE  LocalsOK' /\ OthersOK'
    BY TypeSplit
<1> USE SettleQueueAssumption
    DEF Actors, GoTo, KeyFor, vars, files, locks, finops, locals, history
<1>1. ASSUME NEW w \in Writers, NEW i \in Intents, StartSettle(w, i)
      PROVE  LocalsOK' /\ OthersOK'
    BY <1>1 DEF StartSettle,
       OthersOK, LocalsOK, Working, WorkingOf, Records, WriterPoints, FlusherPoints, Pending
<1>2. ASSUME NEW w \in Writers, NEW i \in Intents, StartProcess(w, i)
      PROVE  LocalsOK' /\ OthersOK'
    BY <1>2 DEF StartProcess,
       OthersOK, LocalsOK, Working, WorkingOf, Records, WriterPoints, FlusherPoints, Pending
<1>3. ASSUME NEW w \in Writers, ReadClaim(w)
      PROVE  LocalsOK' /\ OthersOK'
    <2>0. intent[w] \in Intents /\ KeyFor(w) \in Keys
        BY <1>3 DEF ReadClaim, Working, WorkingOf, OthersOK
    <2>1. LocalsOK'
        <3>1. CASE UNCHANGED locals /\ \E p \in WriterPoints : GoTo(w, p)
            BY <3>1 DEF LocalsOK
        <3>2. CASE /\ claim[KeyFor(w)] \notin {None, intent[w]}
                   /\ Orphaned(KeyFor(w))
            BY <2>0, <3>2, <1>3 DEF ReadClaim, LocalsOK, OthersOK, WriterPoints
        <3>3. CASE Conflict(w)
            BY <3>3, EndsTyped
        <3> QED
            BY <3>1, <3>2, <3>3, <1>3 DEF ReadClaim, Claimed, Journaled, WriterPoints,
               LocalsOK
    <2>2. OthersOK'
        BY <2>0, <1>3 DEF ReadClaim, Claimed, Journaled, OthersOK, Records, Pending
    <2> QED
        BY <2>1, <2>2
<1>4. ASSUME NEW w \in Writers, LinkClaim(w)
      PROVE  LocalsOK' /\ OthersOK'
    <2>0. intent[w] \in Intents /\ KeyFor(w) \in Keys
        BY <1>4 DEF LinkClaim, Working, WorkingOf, OthersOK
    <2>1. LocalsOK'
        BY <2>0, <1>4, EndsTyped DEF LinkClaim, Claimed, Journaled, LocalsOK, Working,
           WorkingOf, ClaimsLocked, LockedOf,
           WriterPoints, FlusherPoints
    <2>2. OthersOK'
        <3>1. CASE claim[KeyFor(w)] = None
            <4>1. owed' \subseteq Intents
                BY <2>0, <3>1, <1>4 DEF LinkClaim, Claimed, Journaled, OthersOK
            <4>2. claim' \in [Keys -> Intents \cup {None}] /\ stale' \in [Keys -> BOOLEAN]
                BY <2>0, <3>1, <1>4 DEF LinkClaim, OthersOK
            <4> QED
                BY <4>1, <4>2, <3>1, <1>4 DEF LinkClaim, OthersOK
        <3>2. CASE claim[KeyFor(w)] # None
            BY <3>2, <1>4 DEF LinkClaim, OthersOK
        <3> QED
            BY <3>1, <3>2
    <2> QED
        BY <2>1, <2>2
<1>5. ASSUME NEW w \in Writers, CheckRecord(w)
      PROVE  LocalsOK' /\ OthersOK'
    <2>1. LocalsOK'
        <3>1. UNCHANGED locals /\ \E p \in WriterPoints : GoTo(w, p)
            BY <1>5 DEF CheckRecord, Journaled, WriterPoints
        <3> QED
            BY <3>1 DEF LocalsOK
    <2>2. OthersOK'
        BY <1>5 DEF CheckRecord, Journaled, Working, WorkingOf, OthersOK
    <2> QED
        BY <2>1, <2>2
<1>6. ASSUME NEW w \in Writers, WriteRecord(w)
      PROVE  LocalsOK' /\ OthersOK'
    BY <1>6 DEF WriteRecord,
       OthersOK, LocalsOK, Working, WorkingOf, Records, WriterPoints, FlusherPoints, Pending
<1>7. ASSUME NEW w \in Writers, CheckBinds(w)
      PROVE  LocalsOK' /\ OthersOK'
    <2>0. intent[w] \in Intents /\ KeyFor(w) \in Keys
        BY <1>7 DEF CheckBinds, Working, WorkingOf, OthersOK
    <2>1. LocalsOK'
        BY <2>0, <1>7, EndsTyped DEF CheckBinds, Journaled, LocalsOK, Working, WorkingOf,
           ClaimsLocked, LockedOf,
           WriterPoints, FlusherPoints
    <2>2. OthersOK'
        BY <2>0, <1>7 DEF CheckBinds, Journaled, OthersOK, Records, Pending
    <2> QED
        BY <2>1, <2>2
<1>8. ASSUME NEW w \in Writers, Withdraw(w)
      PROVE  LocalsOK' /\ OthersOK'
    BY <1>8 DEF Withdraw, Return,
       OthersOK, LocalsOK, Working, WorkingOf, Records, WriterPoints, FlusherPoints, Pending
<1>9. ASSUME NEW w \in Writers, ReadForRelease(w)
      PROVE  LocalsOK' /\ OthersOK'
    <2>0. intent[w] \in Intents /\ KeyFor(w) \in Keys
        BY <1>9 DEF ReadForRelease, Working, WorkingOf, OthersOK
    <2>1. LocalsOK'
        BY <2>0, <1>9, EndsTyped DEF ReadForRelease, LocalsOK, Working, WorkingOf,
           ClaimsLocked, LockedOf,
           WriterPoints, FlusherPoints
    <2>2. OthersOK'
        BY <2>0, <1>9 DEF ReadForRelease, OthersOK, Records, Pending
    <2> QED
        BY <2>1, <2>2
<1>10. ASSUME NEW w \in Writers, BackfillClaim(w)
      PROVE  LocalsOK' /\ OthersOK'
    <2>0. intent[w] \in Intents /\ KeyFor(w) \in Keys
        BY <1>10 DEF BackfillClaim, Working, WorkingOf, OthersOK
    <2>1. LocalsOK'
        BY <2>0, <1>10, EndsTyped DEF BackfillClaim, LocalsOK, Working, WorkingOf,
           ClaimsLocked, LockedOf,
           WriterPoints, FlusherPoints
    <2>2. OthersOK'
        BY <2>0, <1>10 DEF BackfillClaim, OthersOK, Records, Pending
    <2> QED
        BY <2>1, <2>2
<1>11. ASSUME NEW f \in Flushers, StartFlush(f)
      PROVE  LocalsOK' /\ OthersOK'
    BY <1>11 DEF StartFlush,
       OthersOK, LocalsOK, Working, WorkingOf, Records, WriterPoints, FlusherPoints, Pending
<1>12. ASSUME NEW f \in Flushers, EndFlush(f)
      PROVE  LocalsOK' /\ OthersOK'
    BY <1>12 DEF EndFlush,
       OthersOK, LocalsOK, Working, WorkingOf, Records, WriterPoints, FlusherPoints, Pending
<1>13. ASSUME NEW f \in Flushers, Quarantine(f)
      PROVE  LocalsOK' /\ OthersOK'
    <2>0. intent[f] \in Intents /\ KeyFor(f) \in Keys
        BY <1>13 DEF Quarantine, Working, WorkingOf, OthersOK
    <2>1. LocalsOK'
        BY <2>0, <1>13, EndsTyped DEF Quarantine, LocalsOK, Working, WorkingOf,
           ClaimsLocked, LockedOf,
           WriterPoints, FlusherPoints
    <2>2. OthersOK'
        BY <2>0, <1>13 DEF Quarantine, OthersOK, Records, Pending
    <2> QED
        BY <2>1, <2>2
<1>14. ASSUME NEW f \in Flushers, NEW i \in Intents, FlushItem(f, i)
      PROVE  LocalsOK' /\ OthersOK'
    <2>1. listing' \in [Flushers -> [Intents -> Records \cup {Absent}]]
        <3> DEFINE rest == [listing[f] EXCEPT ![i] = Absent]
        <3>1. listing' = listing \/ listing' = [listing EXCEPT ![f] = rest]
            BY <1>14 DEF FlushItem
        <3>2. rest \in [Intents -> Records \cup {Absent}]
            BY DEF LocalsOK
        <3> QED
            BY <3>1, <3>2 DEF LocalsOK
    <2>2. LocalsOK'
        BY <1>14, <2>1 DEF FlushItem, LocalsOK, FlusherPoints
    <2>3. OthersOK'
        BY <1>14 DEF FlushItem, OthersOK
    <2> QED
        BY <2>2, <2>3
<1>15. ASSUME NEW a \in Actors, PostApplied(a)
      PROVE  LocalsOK' /\ OthersOK'
    BY <1>15 DEF PostApplied, Apply, Accepts,
       OthersOK, LocalsOK, Working, WorkingOf, Records, WriterPoints, FlusherPoints, Pending
<1>16. ASSUME NEW a \in Actors, PostAnswerLost(a)
      PROVE  LocalsOK' /\ OthersOK'
    BY <1>16 DEF PostAnswerLost, Apply, Accepts, Unacked,
       OthersOK, LocalsOK, Working, WorkingOf, Records, WriterPoints, FlusherPoints, Pending
<1>17. ASSUME NEW a \in Actors, PostFailed(a)
      PROVE  LocalsOK' /\ OthersOK'
    BY <1>17 DEF PostFailed, Unacked,
       OthersOK, LocalsOK, Working, WorkingOf, Records, WriterPoints, FlusherPoints, Pending
<1>18. ASSUME NEW a \in Actors, PostRefused(a)
      PROVE  LocalsOK' /\ OthersOK'
    BY <1>18 DEF PostRefused,
       OthersOK, LocalsOK, Working, WorkingOf, Records, WriterPoints, FlusherPoints, Pending
<1>19. ASSUME NEW a \in Actors, AckRecord(a)
      PROVE  LocalsOK' /\ OthersOK'
    <2>0. intent[a] \in Intents /\ KeyFor(a) \in Keys
        BY <1>19 DEF AckRecord, Working, WorkingOf, OthersOK
    <2>1. LocalsOK'
        BY <2>0, <1>19, EndsTyped DEF AckRecord, LocalsOK, Working, WorkingOf,
           ClaimsLocked, LockedOf,
           WriterPoints, FlusherPoints
    <2>2. OthersOK'
        BY <2>0, <1>19 DEF AckRecord, OthersOK, Records, Pending
    <2> QED
        BY <2>1, <2>2
<1>20. ASSUME NEW a \in Actors, RewriteRecord(a)
      PROVE  LocalsOK' /\ OthersOK'
    <2>0. intent[a] \in Intents /\ KeyFor(a) \in Keys
        BY <1>20 DEF RewriteRecord, Working, WorkingOf, OthersOK
    <2>1. LocalsOK'
        BY <2>0, <1>20, EndsTyped DEF RewriteRecord, LocalsOK, Working, WorkingOf,
           ClaimsLocked, LockedOf,
           WriterPoints, FlusherPoints
    <2>2. OthersOK'
        BY <2>0, <1>20 DEF RewriteRecord, OthersOK, Records, Pending, Working, WorkingOf
    <2> QED
        BY <2>1, <2>2
<1>21. ASSUME NEW a \in Actors, LockClaims(a)
      PROVE  LocalsOK' /\ OthersOK'
    <2>0. intent[a] \in Intents /\ KeyFor(a) \in Keys
        BY <1>21 DEF LockClaims, Working, WorkingOf, OthersOK
    <2>1. LocalsOK'
        BY <2>0, <1>21, EndsTyped DEF LockClaims, LocalsOK, Working, WorkingOf,
           ClaimsLocked, LockedOf,
           WriterPoints, FlusherPoints
    <2>2. OthersOK'
        BY <2>0, <1>21 DEF LockClaims, OthersOK, Records, Pending
    <2> QED
        BY <2>1, <2>2
<1>22. ASSUME NEW a \in Actors, RemoveClaim(a)
      PROVE  LocalsOK' /\ OthersOK'
    <2>0. intent[a] \in Intents /\ KeyFor(a) \in Keys
        BY <1>22 DEF RemoveClaim, Working, WorkingOf, OthersOK
    <2>1. LocalsOK'
        BY <2>0, <1>22, EndsTyped DEF RemoveClaim, LocalsOK, Working, WorkingOf,
           ClaimsLocked, LockedOf,
           WriterPoints, FlusherPoints
    <2>2. OthersOK'
        BY <2>0, <1>22 DEF RemoveClaim, OthersOK, Records, Pending, ClaimsLocked, LockedOf
    <2> QED
        BY <2>1, <2>2
<1>23. ASSUME NEW a \in Actors, Crash(a)
      PROVE  LocalsOK' /\ OthersOK'
    BY <1>23 DEF Crash,
       OthersOK, LocalsOK, Working, WorkingOf, Records, WriterPoints, FlusherPoints, Pending
<1>24. ASSUME NEW i \in Intents, LateArrival(i)
      PROVE  LocalsOK' /\ OthersOK'
    BY <1>24 DEF LateArrival, Apply,
       OthersOK, LocalsOK, Working, WorkingOf, Records, WriterPoints, FlusherPoints, Pending
<1>25. ASSUME NEW i \in Intents, Elapse(i)
      PROVE  LocalsOK' /\ OthersOK'
    BY <1>25 DEF Elapse,
       OthersOK, LocalsOK, Working, WorkingOf, Records, WriterPoints, FlusherPoints, Pending
<1>26. ASSUME NEW k \in Keys, Age(k)
      PROVE  LocalsOK' /\ OthersOK'
    BY <1>26 DEF Age,
       OthersOK, LocalsOK, Working, WorkingOf, Records, WriterPoints, FlusherPoints, Pending
<1>27. ASSUME UNCHANGED vars
      PROVE  LocalsOK' /\ OthersOK'
    BY <1>27 DEF vars,
       OthersOK, LocalsOK, Working, WorkingOf, Records, WriterPoints, FlusherPoints, Pending
<1> QED
    BY <1>1, <1>2, <1>3, <1>4, <1>5, <1>6, <1>7, <1>8, <1>9, <1>10, <1>11, <1>12, <1>13,
       <1>14, <1>15, <1>16, <1>17, <1>18, <1>19, <1>20, <1>21, <1>22, <1>23, <1>24, <1>25,
       <1>26, <1>27
       DEF Next, Start, Settle, Flush, Deliver

-----------------------------------------------------------------------------
(* What an ending does to the actor it ends, and to nobody else. *)

Others(a) ==
    \A b \in Actors \ {a} : /\ pc'[b] = pc[b]
                            /\ intent'[b] = intent[b]
                            /\ victim'[b] = victim[b]
                            /\ wrote'[b] = wrote[b]
                            /\ b \in Flushers => listing'[b] = listing[b]

At(a, p) == /\ pc'[a] = p
            /\ intent'[a] = intent[a]
            /\ victim'[a] = victim[a]
            /\ wrote'[a] = wrote[a]
            /\ a \in Flushers => listing'[a] = listing[a]

Over(a) == /\ pc'[a] = IF a \in Writers THEN "idle" ELSE "flush"
           /\ a \in Writers => ~wrote'[a]

Refused(w) == (~wrote[w] /\ Over(w)) \/ (wrote[w] /\ At(w, "withdraw"))

\* How the helpers that end an operation move their actor.
LEMMA Outcomes ==
    ASSUME LocalsOK, NEW a \in Actors
    PROVE  /\ \A p : GoTo(a, p) /\ UNCHANGED locals => Others(a) /\ At(a, p)
           /\ a \in Writers /\ Return(a) => Others(a) /\ Over(a)
           /\ a \in Flushers /\ NextItem(a) => Others(a) /\ Over(a)
           /\ Finish(a) => Others(a) /\ Over(a)
           /\ a \in Writers /\ Conflict(a) => Others(a) /\ Refused(a)
           /\ a \in Writers /\ Again(a) => Others(a) /\ (At(a, "claim") \/ Refused(a))
           /\ Unclaimed(a) /\ victim[a] = intent[a] => Others(a) /\ Over(a)
           /\ a \in Writers /\ Unclaimed(a) /\ victim[a] # intent[a]
                => Others(a) /\ (At(a, "claim") \/ Refused(a))
<1> USE SettleQueueAssumption DEF LocalsOK, Actors, GoTo, Others, At, Over
<1>1. \A p : GoTo(a, p) /\ UNCHANGED locals => Others(a) /\ At(a, p)
    BY DEF locals
<1>2. a \in Writers /\ Return(a) => Others(a) /\ Over(a)
    BY DEF Return
<1>3. a \in Flushers /\ NextItem(a) => Others(a) /\ Over(a)
    BY DEF NextItem
<1>4. Finish(a) => Others(a) /\ Over(a)
    BY <1>2, <1>3 DEF Finish
<1>5. a \in Writers /\ Conflict(a) => Others(a) /\ Refused(a)
    BY <1>2 DEF Conflict, Refused, locals
<1>6. a \in Writers /\ Again(a) => Others(a) /\ (At(a, "claim") \/ Refused(a))
    BY <1>5 DEF Again
<1> QED
    BY <1>1, <1>2, <1>3, <1>4, <1>5, <1>6 DEF Unclaimed

\* A takeover, and a release after an ack, note the claim they expect.
Stealing(w) == /\ pc'[w] = "steal"
               /\ intent'[w] = intent[w]
               /\ wrote'[w] = wrote[w]
               /\ victim'[w] = claim[KeyFor(w)]

Releasing(a) == /\ pc'[a] = "unclaim"
                /\ intent'[a] = intent[a]
                /\ wrote'[a] = wrote[a]
                /\ victim'[a] = intent[a]
                /\ a \in Flushers => listing'[a] = listing[a]

Unclaiming(a) ==
    \/ victim[a] = intent[a] /\ Over(a)
    \/ victim[a] # intent[a] /\ (At(a, "claim") \/ Refused(a))

\* Where each operation of enqueue and release leaves its writer.
LEMMA WriterMoves ==
    ASSUME LocalsOK, NEW w \in Writers
    PROVE  /\ ReadClaim(w) =>
                /\ Others(w)
                /\ LET bound == claim[KeyFor(w)] IN
                   \/ bound = intent[w] /\ ~wrote[w] /\ At(w, "check")
                   \/ bound = intent[w] /\ wrote[w] /\ At(w, "send")
                   \/ bound = None /\ At(w, "link")
                   \/ bound \notin {None, intent[w]} /\ (Stealing(w) \/ Refused(w))
           /\ LinkClaim(w) =>
                /\ Others(w)
                /\ \/ claim[KeyFor(w)] = None
                      /\ ((~wrote[w] /\ At(w, "check")) \/ (wrote[w] /\ At(w, "send")))
                   \/ claim' = claim /\ (At(w, "claim") \/ Refused(w))
           /\ CheckRecord(w) =>
                Others(w) /\ (At(w, "write") \/ (Pending(intent[w]) /\ At(w, "send")))
           /\ CheckBinds(w) =>
                Others(w) /\ ((claim[KeyFor(w)] # intent[w] /\ At(w, "claim")) \/ At(w, "send"))
           /\ Withdraw(w) => Others(w) /\ Over(w)
           /\ ReadForRelease(w) => Others(w) /\ (At(w, "rewrite") \/ Over(w))
           /\ BackfillClaim(w) => Others(w) /\ Over(w)
<1> w \in Actors
    BY DEF Actors
<1>1. ReadClaim(w) =>
        /\ Others(w)
        /\ LET bound == claim[KeyFor(w)] IN
           \/ bound = intent[w] /\ ~wrote[w] /\ At(w, "check")
           \/ bound = intent[w] /\ wrote[w] /\ At(w, "send")
           \/ bound = None /\ At(w, "link")
           \/ bound \notin {None, intent[w]} /\ (Stealing(w) \/ Refused(w))
    <2> SUFFICES ASSUME ReadClaim(w)
                 PROVE  /\ Others(w)
                        /\ LET bound == claim[KeyFor(w)] IN
                           \/ bound = intent[w] /\ ~wrote[w] /\ At(w, "check")
                           \/ bound = intent[w] /\ wrote[w] /\ At(w, "send")
                           \/ bound = None /\ At(w, "link")
                           \/ bound \notin {None, intent[w]} /\ (Stealing(w) \/ Refused(w))
        OBVIOUS
    <2>1. CASE claim[KeyFor(w)] \in {None, intent[w]}
        BY <2>1, Outcomes DEF ReadClaim, Claimed, Journaled
    <2>2. CASE claim[KeyFor(w)] \notin {None, intent[w]} /\ Conflict(w)
        BY <2>2, Outcomes
    <2>3. CASE claim[KeyFor(w)] \notin {None, intent[w]} /\ ~Conflict(w)
        BY <2>3 DEF ReadClaim, Others, Stealing, GoTo, LocalsOK, Actors
    <2> QED
        BY <2>1, <2>2, <2>3
<1>2. LinkClaim(w) =>
        /\ Others(w)
        /\ \/ claim[KeyFor(w)] = None
              /\ ((~wrote[w] /\ At(w, "check")) \/ (wrote[w] /\ At(w, "send")))
           \/ claim' = claim /\ (At(w, "claim") \/ Refused(w))
    <2>1. CASE claim[KeyFor(w)] = None
        <3>1. LinkClaim(w) /\ wrote[w] => UNCHANGED locals /\ GoTo(w, "send")
            BY <2>1 DEF LinkClaim, Claimed, Journaled
        <3>2. LinkClaim(w) /\ ~wrote[w] => UNCHANGED locals /\ GoTo(w, "check")
            BY <2>1 DEF LinkClaim, Claimed
        <3>3. LinkClaim(w) /\ wrote[w] => Others(w) /\ At(w, "send")
            BY <3>1, Outcomes
        <3>4. LinkClaim(w) /\ ~wrote[w] => Others(w) /\ At(w, "check")
            BY <3>2, Outcomes
        <3>5. wrote[w] \in BOOLEAN
            BY DEF LocalsOK
        <3> QED
            BY <2>1, <3>3, <3>4, <3>5
    <2>2. CASE claim[KeyFor(w)] # None
        BY <2>2, Outcomes DEF LinkClaim
    <2> QED
        BY <2>1, <2>2
<1>3. CheckRecord(w) =>
        Others(w) /\ (At(w, "write") \/ (Pending(intent[w]) /\ At(w, "send")))
    <2>1. CheckRecord(w) /\ Pending(intent[w]) => UNCHANGED locals /\ GoTo(w, "send")
        BY DEF CheckRecord, Journaled
    <2>2. CheckRecord(w) /\ ~Pending(intent[w]) => UNCHANGED locals /\ GoTo(w, "write")
        BY DEF CheckRecord
    <2>3. CheckRecord(w) /\ Pending(intent[w]) => Others(w) /\ At(w, "send")
        BY <2>1, Outcomes
    <2>4. CheckRecord(w) /\ ~Pending(intent[w]) => Others(w) /\ At(w, "write")
        BY <2>2, Outcomes
    <2> QED
        BY <2>3, <2>4 DEF Pending
<1>4. CheckBinds(w) =>
        Others(w) /\ ((claim[KeyFor(w)] # intent[w] /\ At(w, "claim")) \/ At(w, "send"))
    BY DEF CheckBinds, Journaled, Others, At, GoTo, LocalsOK, Actors
<1>5. Withdraw(w) => Others(w) /\ Over(w)
    BY Outcomes DEF Withdraw
<1>6. ReadForRelease(w) => Others(w) /\ (At(w, "rewrite") \/ Over(w))
    BY Outcomes DEF ReadForRelease
<1>7. BackfillClaim(w) => Others(w) /\ Over(w)
    BY Outcomes DEF BackfillClaim
<1> QED
    BY <1>1, <1>2, <1>3, <1>4, <1>5, <1>6, <1>7

\* The same for what writers and flushers have in common.
LEMMA ActorMoves ==
    ASSUME LocalsOK, Working, ClaimsLocked, NEW a \in Actors
    PROVE  /\ AckRecord(a) => Others(a) /\ (Releasing(a) \/ Over(a))
           /\ RewriteRecord(a) => Others(a) /\ Over(a)
           /\ a \in Flushers /\ Quarantine(a) => Others(a) /\ Over(a)
           /\ LockClaims(a) =>
                /\ Others(a)
                /\ \/ claim[KeyFor(a)] = victim[a] /\ claimsLock' = a /\ At(a, "remove")
                   \/ claimsLock' = claimsLock /\ Unclaiming(a)
           /\ RemoveClaim(a) => Others(a) /\ Unclaiming(a)
<1>1. AckRecord(a) => Others(a) /\ (Releasing(a) \/ Over(a))
    <2>1. CASE Pending(intent[a])
        BY <2>1 DEF AckRecord, Others, Releasing, GoTo, LocalsOK
    <2>2. CASE ~Pending(intent[a])
        BY <2>2, Outcomes DEF AckRecord
    <2> QED
        BY <2>1, <2>2
<1>2. RewriteRecord(a) => Others(a) /\ Over(a)
    BY Outcomes DEF RewriteRecord
<1>3. a \in Flushers /\ Quarantine(a) => Others(a) /\ Over(a)
    BY Outcomes DEF Quarantine
<1>4. (LockClaims(a) \/ RemoveClaim(a)) /\ Unclaimed(a) => Others(a) /\ Unclaiming(a)
    <2>1. CASE victim[a] = intent[a]
        BY <2>1, Outcomes DEF Unclaiming
    <2>2. CASE victim[a] # intent[a]
        <3>1. LockClaims(a) \/ RemoveClaim(a) => a \in Writers
            BY <2>2 DEF LockClaims, RemoveClaim, Working, WorkingOf, ClaimsLocked, LockedOf,
               Actors, FlusherPoints
        <3> QED
            BY <2>2, <3>1, Outcomes DEF Unclaiming
    <2> QED
        BY <2>1, <2>2
<1>5. LockClaims(a) =>
        /\ Others(a)
        /\ \/ claim[KeyFor(a)] = victim[a] /\ claimsLock' = a /\ At(a, "remove")
           \/ claimsLock' = claimsLock /\ Unclaiming(a)
    BY <1>4, Outcomes DEF LockClaims
<1>6. RemoveClaim(a) => Others(a) /\ Unclaiming(a)
    BY <1>4 DEF RemoveClaim
<1> QED
    BY <1>1, <1>2, <1>3, <1>5, <1>6

-----------------------------------------------------------------------------
(* The locks. *)

\* A flusher keeps .flush.lock until it ends.
LEMMA FlushLockedStep ==
    TypeOK /\ Working /\ FlushLocked /\ [Next]_vars => FlushLocked'
<1> SUFFICES ASSUME TypeOK, Working, FlushLocked, [Next]_vars
             PROVE  FlushLocked'
    OBVIOUS
<1> USE SettleQueueAssumption
    DEF TypeOK, Working, WorkingOf, FlushLocked, Actors, GoTo, vars, files, locks, finops,
       locals,
        history, WriterPoints, FlusherPoints
<1>1. ASSUME NEW w \in Writers, NEW i \in Intents, StartSettle(w, i) PROVE FlushLocked'
    BY <1>1 DEF StartSettle
<1>2. ASSUME NEW w \in Writers, NEW i \in Intents, StartProcess(w, i) PROVE FlushLocked'
    BY <1>2 DEF StartProcess
<1>3. ASSUME NEW w \in Writers, ReadClaim(w) PROVE FlushLocked'
    BY <1>3 DEF ReadClaim, Orphaned, Claimed, Journaled, Conflict, Return
<1>4. ASSUME NEW w \in Writers, LinkClaim(w) PROVE FlushLocked'
    BY <1>4 DEF LinkClaim, Claimed, Journaled, Again, Conflict, Return
<1>5. ASSUME NEW w \in Writers, CheckRecord(w) PROVE FlushLocked'
    BY <1>5 DEF CheckRecord, Journaled
<1>6. ASSUME NEW w \in Writers, WriteRecord(w) PROVE FlushLocked'
    BY <1>6 DEF WriteRecord
<1>7. ASSUME NEW w \in Writers, CheckBinds(w) PROVE FlushLocked'
    BY <1>7 DEF CheckBinds, Journaled
<1>8. ASSUME NEW w \in Writers, Withdraw(w) PROVE FlushLocked'
    BY <1>8 DEF Withdraw, Return
<1>9. ASSUME NEW w \in Writers, ReadForRelease(w) PROVE FlushLocked'
    BY <1>9 DEF ReadForRelease, Return
<1>10. ASSUME NEW w \in Writers, BackfillClaim(w) PROVE FlushLocked'
    BY <1>10 DEF BackfillClaim, Return
<1>11. ASSUME NEW f \in Flushers, StartFlush(f) PROVE FlushLocked'
    BY <1>11 DEF StartFlush
<1>12. ASSUME NEW f \in Flushers, EndFlush(f) PROVE FlushLocked'
    BY <1>12 DEF EndFlush
<1>13. ASSUME NEW f \in Flushers, Quarantine(f) PROVE FlushLocked'
    BY <1>13 DEF Quarantine, NextItem
<1>14. ASSUME NEW f \in Flushers, NEW i \in Intents, FlushItem(f, i) PROVE FlushLocked'
    BY <1>14 DEF FlushItem
<1>15. ASSUME NEW a \in Actors, PostApplied(a) PROVE FlushLocked'
    BY <1>15 DEF PostApplied, Apply, Accepts
<1>16. ASSUME NEW a \in Actors, PostAnswerLost(a) PROVE FlushLocked'
    BY <1>16 DEF PostAnswerLost, Apply, Accepts, Unacked
<1>17. ASSUME NEW a \in Actors, PostFailed(a) PROVE FlushLocked'
    BY <1>17 DEF PostFailed, Unacked
<1>18. ASSUME NEW a \in Actors, PostRefused(a) PROVE FlushLocked'
    BY <1>18 DEF PostRefused
<1>19. ASSUME NEW a \in Actors, AckRecord(a) PROVE FlushLocked'
    BY <1>19 DEF AckRecord, Finish, Return, NextItem
<1>20. ASSUME NEW a \in Actors, RewriteRecord(a) PROVE FlushLocked'
    BY <1>20 DEF RewriteRecord, Finish, Return, NextItem
<1>21. ASSUME NEW a \in Actors, LockClaims(a) PROVE FlushLocked'
    BY <1>21 DEF LockClaims, Unclaimed, Finish, Return, NextItem, Again, Conflict
<1>22. ASSUME NEW a \in Actors, RemoveClaim(a) PROVE FlushLocked'
    BY <1>22 DEF RemoveClaim, Unclaimed, Finish, Return, NextItem, Again, Conflict
<1>23. ASSUME NEW a \in Actors, Crash(a) PROVE FlushLocked'
    BY <1>23 DEF Crash
<1>24. ASSUME NEW i \in Intents, LateArrival(i) PROVE FlushLocked'
    BY <1>24 DEF LateArrival, Apply
<1>25. ASSUME NEW i \in Intents, Elapse(i) PROVE FlushLocked'
    BY <1>25 DEF Elapse
<1>26. ASSUME NEW k \in Keys, Age(k) PROVE FlushLocked'
    BY <1>26 DEF Age
<1>27. ASSUME UNCHANGED vars PROVE FlushLocked'
    BY <1>27 DEF vars
<1> QED
    BY <1>1, <1>2, <1>3, <1>4, <1>5, <1>6, <1>7, <1>8, <1>9, <1>10, <1>11, <1>12, <1>13,
       <1>14, <1>15, <1>16, <1>17, <1>18, <1>19, <1>20, <1>21, <1>22, <1>23, <1>24, <1>25,
       <1>26, <1>27
       DEF Next, Start, Settle, Flush, Deliver

\* Every actor stays between the points of its own kind.
LEMMA WorkingStep ==
    TypeOK /\ Working /\ ClaimsLocked /\ [Next]_vars => Working'
<1> SUFFICES ASSUME TypeOK, Working, ClaimsLocked, [Next]_vars
             PROVE  Working'
    OBVIOUS
<1> LocalsOK /\ OthersOK
    BY TypeSplit
<1> USE SettleQueueAssumption DEF Actors
<1>1. ASSUME NEW w \in Writers, NEW i \in Intents, StartSettle(w, i) PROVE Working'
    BY <1>1 DEF StartSettle, Working, WorkingOf, ClaimsLocked, LockedOf, Records, GoTo,
       KeyFor, vars, files, locks, finops, locals, history, LocalsOK, OthersOK,
       WriterPoints, FlusherPoints
<1>2. ASSUME NEW w \in Writers, NEW i \in Intents, StartProcess(w, i) PROVE Working'
    BY <1>2 DEF StartProcess, Working, WorkingOf, ClaimsLocked, LockedOf, Records, GoTo,
       KeyFor, vars, files, locks, finops, locals, history, LocalsOK, OthersOK,
       WriterPoints, FlusherPoints
<1>3. ASSUME NEW w \in Writers, ReadClaim(w) PROVE Working'
    <2>1. ASSUME NEW b \in Actors \ {w} PROVE WorkingOf(b)'
        BY <1>3, <2>1, WriterMoves DEF ReadClaim, Others, Working, WorkingOf
    <2>2. WorkingOf(w)'
        BY <1>3, WriterMoves DEF ReadClaim, At, Over, Refused, Stealing, Releasing,
           Unclaiming, LocalsOK, OthersOK, Working, WorkingOf, ClaimsLocked, LockedOf,
           KeyFor, locks, WriterPoints, FlusherPoints, Records
    <2> QED
        BY <2>1, <2>2 DEF Working
<1>4. ASSUME NEW w \in Writers, LinkClaim(w) PROVE Working'
    <2>1. ASSUME NEW b \in Actors \ {w} PROVE WorkingOf(b)'
        BY <1>4, <2>1, WriterMoves DEF LinkClaim, Others, Working, WorkingOf
    <2>2. WorkingOf(w)'
        BY <1>4, WriterMoves DEF LinkClaim, At, Over, Refused, Stealing, Releasing,
           Unclaiming, LocalsOK, OthersOK, Working, WorkingOf, ClaimsLocked, LockedOf,
           KeyFor, locks, WriterPoints, FlusherPoints, Records
    <2> QED
        BY <2>1, <2>2 DEF Working
<1>5. ASSUME NEW w \in Writers, CheckRecord(w) PROVE Working'
    <2>1. ASSUME NEW b \in Actors \ {w} PROVE WorkingOf(b)'
        BY <1>5, <2>1, WriterMoves DEF CheckRecord, Journaled, Others, Working, WorkingOf
    <2>2. WorkingOf(w)'
        BY <1>5, WriterMoves DEF CheckRecord, Journaled, At, Over, Refused, Stealing,
           Releasing, Unclaiming, LocalsOK, OthersOK, Working, WorkingOf, ClaimsLocked,
           LockedOf, KeyFor, locks, WriterPoints, FlusherPoints, Records
    <2> QED
        BY <2>1, <2>2 DEF Working
<1>6. ASSUME NEW w \in Writers, WriteRecord(w) PROVE Working'
    BY <1>6 DEF WriteRecord, Working, WorkingOf, ClaimsLocked, LockedOf, Records, GoTo,
       KeyFor, vars, files, locks, finops, locals, history, LocalsOK, OthersOK,
       WriterPoints, FlusherPoints
<1>7. ASSUME NEW w \in Writers, CheckBinds(w) PROVE Working'
    <2>1. ASSUME NEW b \in Actors \ {w} PROVE WorkingOf(b)'
        BY <1>7, <2>1, WriterMoves DEF CheckBinds, Others, Working, WorkingOf
    <2>2. WorkingOf(w)'
        BY <1>7, WriterMoves DEF CheckBinds, At, Over, Refused, Stealing, Releasing,
           Unclaiming, LocalsOK, OthersOK, Working, WorkingOf, ClaimsLocked, LockedOf,
           KeyFor, locks, WriterPoints, FlusherPoints, Records
    <2> QED
        BY <2>1, <2>2 DEF Working
<1>8. ASSUME NEW w \in Writers, Withdraw(w) PROVE Working'
    <2>1. ASSUME NEW b \in Actors \ {w} PROVE WorkingOf(b)'
        BY <1>8, <2>1, WriterMoves DEF Withdraw, Others, Working, WorkingOf
    <2>2. WorkingOf(w)'
        BY <1>8, WriterMoves DEF Withdraw, At, Over, Refused, Stealing, Releasing,
           Unclaiming, LocalsOK, OthersOK, Working, WorkingOf, ClaimsLocked, LockedOf,
           KeyFor, locks, WriterPoints, FlusherPoints, Records
    <2> QED
        BY <2>1, <2>2 DEF Working
<1>9. ASSUME NEW w \in Writers, ReadForRelease(w) PROVE Working'
    <2>1. ASSUME NEW b \in Actors \ {w} PROVE WorkingOf(b)'
        BY <1>9, <2>1, WriterMoves DEF ReadForRelease, Others, Working, WorkingOf
    <2>2. WorkingOf(w)'
        BY <1>9, WriterMoves DEF ReadForRelease, At, Over, Refused, Stealing, Releasing,
           Unclaiming, LocalsOK, OthersOK, Working, WorkingOf, ClaimsLocked, LockedOf,
           KeyFor, locks, WriterPoints, FlusherPoints, Records
    <2> QED
        BY <2>1, <2>2 DEF Working
<1>10. ASSUME NEW w \in Writers, BackfillClaim(w) PROVE Working'
    <2>1. ASSUME NEW b \in Actors \ {w} PROVE WorkingOf(b)'
        BY <1>10, <2>1, WriterMoves DEF BackfillClaim, Others, Working, WorkingOf
    <2>2. WorkingOf(w)'
        BY <1>10, WriterMoves DEF BackfillClaim, At, Over, Refused, Stealing, Releasing,
           Unclaiming, LocalsOK, OthersOK, Working, WorkingOf, ClaimsLocked, LockedOf,
           KeyFor, locks, WriterPoints, FlusherPoints, Records
    <2> QED
        BY <2>1, <2>2 DEF Working
<1>11. ASSUME NEW f \in Flushers, StartFlush(f) PROVE Working'
    BY <1>11 DEF StartFlush, Working, WorkingOf, ClaimsLocked, LockedOf, Records, GoTo,
       KeyFor, vars, files, locks, finops, locals, history, LocalsOK, OthersOK,
       WriterPoints, FlusherPoints
<1>12. ASSUME NEW f \in Flushers, EndFlush(f) PROVE Working'
    BY <1>12 DEF EndFlush, Working, WorkingOf, ClaimsLocked, LockedOf, Records, GoTo,
       KeyFor, vars, files, locks, finops, locals, history, LocalsOK, OthersOK,
       WriterPoints, FlusherPoints
<1>13. ASSUME NEW f \in Flushers, Quarantine(f) PROVE Working'
    <2>1. ASSUME NEW b \in Actors \ {f} PROVE WorkingOf(b)'
        BY <1>13, <2>1, ActorMoves DEF Quarantine, Others, Working, WorkingOf
    <2>2. WorkingOf(f)'
        BY <1>13, ActorMoves DEF Quarantine, At, Over, Refused, Stealing, Releasing,
           Unclaiming, LocalsOK, OthersOK, Working, WorkingOf, ClaimsLocked, LockedOf,
           KeyFor, locks, WriterPoints, FlusherPoints, Records
    <2> QED
        BY <2>1, <2>2 DEF Working
<1>14. ASSUME NEW f \in Flushers, NEW i \in Intents, FlushItem(f, i) PROVE Working'
    <2>1. CASE ~listing[f][i].due /\ UNCHANGED <<pc, intent>>
        <3>1. \A b \in Actors : b # f => (b \in Flushers => listing'[b] = listing[b])
            BY <1>14, <2>1 DEF FlushItem, LocalsOK
        <3>2. pc[f] = "flush"
            BY <1>14 DEF FlushItem
        <3> QED
            BY <2>1, <3>1, <3>2 DEF Working, WorkingOf, WriterPoints, FlusherPoints
    <2>2. CASE /\ UNCHANGED listing
               /\ intent' = [intent EXCEPT ![f] = i]
               /\ GoTo(f, IF i \in Foreign THEN "quarantine" ELSE "send")
        <3>1. listing[f][i] \in Records
            BY <1>14 DEF FlushItem, LocalsOK
        <3>2. f \notin Writers
            OBVIOUS
        <3> QED
            BY <2>2, <3>1, <3>2 DEF Working, WorkingOf, GoTo, LocalsOK, FlusherPoints
    <2> QED
        BY <1>14, <2>1, <2>2 DEF FlushItem
<1>15. ASSUME NEW a \in Actors, PostApplied(a) PROVE Working'
    BY <1>15 DEF PostApplied, Apply, Accepts, Working, WorkingOf, ClaimsLocked, LockedOf,
       Records, GoTo, KeyFor, vars, files, locks, finops, locals, history, LocalsOK,
       OthersOK, WriterPoints, FlusherPoints
<1>16. ASSUME NEW a \in Actors, PostAnswerLost(a) PROVE Working'
    BY <1>16 DEF PostAnswerLost, Apply, Accepts, Unacked, Working, WorkingOf,
       ClaimsLocked, LockedOf, Records, GoTo, KeyFor, vars, files, locks, finops, locals,
       history, LocalsOK, OthersOK, WriterPoints, FlusherPoints
<1>17. ASSUME NEW a \in Actors, PostFailed(a) PROVE Working'
    BY <1>17 DEF PostFailed, Unacked, Working, WorkingOf, ClaimsLocked, LockedOf, Records,
       GoTo, KeyFor, vars, files, locks, finops, locals, history, LocalsOK, OthersOK,
       WriterPoints, FlusherPoints
<1>18. ASSUME NEW a \in Actors, PostRefused(a) PROVE Working'
    BY <1>18 DEF PostRefused, Working, WorkingOf, ClaimsLocked, LockedOf, Records, GoTo,
       KeyFor, vars, files, locks, finops, locals, history, LocalsOK, OthersOK,
       WriterPoints, FlusherPoints
<1>19. ASSUME NEW a \in Actors, AckRecord(a) PROVE Working'
    <2>1. ASSUME NEW b \in Actors \ {a} PROVE WorkingOf(b)'
        BY <1>19, <2>1, ActorMoves DEF AckRecord, Others, Working, WorkingOf
    <2>2. WorkingOf(a)'
        BY <1>19, ActorMoves DEF AckRecord, At, Over, Refused, Stealing, Releasing,
           Unclaiming, LocalsOK, OthersOK, Working, WorkingOf, ClaimsLocked, LockedOf,
           KeyFor, locks, WriterPoints, FlusherPoints, Records
    <2> QED
        BY <2>1, <2>2 DEF Working
<1>20. ASSUME NEW a \in Actors, RewriteRecord(a) PROVE Working'
    <2>1. ASSUME NEW b \in Actors \ {a} PROVE WorkingOf(b)'
        BY <1>20, <2>1, ActorMoves DEF RewriteRecord, Others, Working, WorkingOf
    <2>2. WorkingOf(a)'
        BY <1>20, ActorMoves DEF RewriteRecord, At, Over, Refused, Stealing, Releasing,
           Unclaiming, LocalsOK, OthersOK, Working, WorkingOf, ClaimsLocked, LockedOf,
           KeyFor, locks, WriterPoints, FlusherPoints, Records
    <2> QED
        BY <2>1, <2>2 DEF Working
<1>21. ASSUME NEW a \in Actors, LockClaims(a) PROVE Working'
    <2>1. ASSUME NEW b \in Actors \ {a} PROVE WorkingOf(b)'
        BY <1>21, <2>1, ActorMoves DEF LockClaims, Others, Working, WorkingOf
    <2>2. WorkingOf(a)'
        BY <1>21, ActorMoves DEF LockClaims, At, Over, Refused, Stealing, Releasing,
           Unclaiming, LocalsOK, OthersOK, Working, WorkingOf, ClaimsLocked, LockedOf,
           KeyFor, locks, WriterPoints, FlusherPoints, Records
    <2> QED
        BY <2>1, <2>2 DEF Working
<1>22. ASSUME NEW a \in Actors, RemoveClaim(a) PROVE Working'
    <2>1. ASSUME NEW b \in Actors \ {a} PROVE WorkingOf(b)'
        BY <1>22, <2>1, ActorMoves DEF RemoveClaim, Others, Working, WorkingOf
    <2>2. WorkingOf(a)'
        BY <1>22, ActorMoves DEF RemoveClaim, At, Over, Refused, Stealing, Releasing,
           Unclaiming, LocalsOK, OthersOK, Working, WorkingOf, ClaimsLocked, LockedOf,
           KeyFor, locks, WriterPoints, FlusherPoints, Records
    <2> QED
        BY <2>1, <2>2 DEF Working
<1>23. ASSUME NEW a \in Actors, Crash(a) PROVE Working'
    BY <1>23 DEF Crash, Working, WorkingOf, ClaimsLocked, LockedOf, Records, GoTo, KeyFor,
       vars, files, locks, finops, locals, history, LocalsOK, OthersOK, WriterPoints,
       FlusherPoints
<1>24. ASSUME NEW i \in Intents, LateArrival(i) PROVE Working'
    BY <1>24 DEF LateArrival, Apply, Working, WorkingOf, ClaimsLocked, LockedOf, Records,
       GoTo, KeyFor, vars, files, locks, finops, locals, history, LocalsOK, OthersOK,
       WriterPoints, FlusherPoints
<1>25. ASSUME NEW i \in Intents, Elapse(i) PROVE Working'
    BY <1>25 DEF Elapse, Working, WorkingOf, ClaimsLocked, LockedOf, Records, GoTo,
       KeyFor, vars, files, locks, finops, locals, history, LocalsOK, OthersOK,
       WriterPoints, FlusherPoints
<1>26. ASSUME NEW k \in Keys, Age(k) PROVE Working'
    BY <1>26 DEF Age, Working, WorkingOf, ClaimsLocked, LockedOf, Records, GoTo, KeyFor,
       vars, files, locks, finops, locals, history, LocalsOK, OthersOK, WriterPoints,
       FlusherPoints
<1>27. ASSUME UNCHANGED vars PROVE Working'
    BY <1>27 DEF vars, Working, WorkingOf, ClaimsLocked, LockedOf, Records, GoTo, KeyFor,
       vars, files, locks, finops, locals, history, LocalsOK, OthersOK, WriterPoints,
       FlusherPoints
<1> QED
    BY <1>1, <1>2, <1>3, <1>4, <1>5, <1>6, <1>7, <1>8, <1>9, <1>10, <1>11, <1>12, <1>13,
       <1>14, <1>15, <1>16, <1>17, <1>18, <1>19, <1>20, <1>21, <1>22, <1>23, <1>24, <1>25,
       <1>26, <1>27
       DEF Next, Start, Settle, Flush, Deliver

\* A remover keeps claims/.lock until the claim is gone.
LEMMA ClaimsLockedStep ==
    TypeOK /\ Working /\ ClaimsLocked /\ [Next]_vars => ClaimsLocked'
<1> SUFFICES ASSUME TypeOK, Working, ClaimsLocked, [Next]_vars
             PROVE  ClaimsLocked'
    OBVIOUS
<1> LocalsOK /\ OthersOK
    BY TypeSplit
<1> USE SettleQueueAssumption DEF Actors
<1>1. ASSUME NEW w \in Writers, NEW i \in Intents, StartSettle(w, i) PROVE ClaimsLocked'
    BY <1>1 DEF StartSettle, Working, WorkingOf, ClaimsLocked, LockedOf, GoTo, KeyFor,
       vars, files, locks, finops, locals, history, LocalsOK, OthersOK, WriterPoints,
       FlusherPoints
<1>2. ASSUME NEW w \in Writers, NEW i \in Intents, StartProcess(w, i) PROVE ClaimsLocked'
    BY <1>2 DEF StartProcess, Working, WorkingOf, ClaimsLocked, LockedOf, GoTo, KeyFor,
       vars, files, locks, finops, locals, history, LocalsOK, OthersOK, WriterPoints,
       FlusherPoints
<1>3. ASSUME NEW w \in Writers, ReadClaim(w) PROVE ClaimsLocked'
    <2>1. ASSUME NEW b \in Actors \ {w} PROVE LockedOf(b)'
        BY <1>3, <2>1, WriterMoves DEF ReadClaim, Others, ClaimsLocked, LockedOf, locks,
           OthersOK
    <2>2. LockedOf(w)'
        <3>1. claim[KeyFor(w)] \in Intents \cup {None}
            BY <1>3 DEF ReadClaim, Working, WorkingOf, KeyFor, OthersOK
        <3>2. CASE claim[KeyFor(w)] \notin {None, intent[w]} /\ Stealing(w)
            BY <3>1, <3>2 DEF LockedOf, Stealing
        <3>3. \/ \E p \in {"check", "send", "link", "withdraw"} : At(w, p)
              \/ Over(w)
              \/ claim[KeyFor(w)] \notin {None, intent[w]} /\ Stealing(w)
            BY <1>3, WriterMoves DEF Refused
        <3> QED
            BY <3>2, <3>3 DEF LockedOf, At, Over
    <2> QED
        BY <2>1, <2>2 DEF ClaimsLocked
<1>4. ASSUME NEW w \in Writers, LinkClaim(w) PROVE ClaimsLocked'
    <2>1. ASSUME NEW b \in Actors \ {w} PROVE LockedOf(b)'
        BY <1>4, <2>1, WriterMoves DEF LinkClaim, Others, ClaimsLocked, LockedOf, locks,
           OthersOK
    <2>2. LockedOf(w)'
        BY <1>4, WriterMoves DEF LinkClaim, At, Over, Refused, Stealing, Releasing,
           Unclaiming, LocalsOK, OthersOK, Working, WorkingOf, ClaimsLocked, LockedOf,
           KeyFor, locks, WriterPoints, FlusherPoints
    <2> QED
        BY <2>1, <2>2 DEF ClaimsLocked
<1>5. ASSUME NEW w \in Writers, CheckRecord(w) PROVE ClaimsLocked'
    <2>1. ASSUME NEW b \in Actors \ {w} PROVE LockedOf(b)'
        BY <1>5, <2>1, WriterMoves DEF CheckRecord, Journaled, Others, ClaimsLocked,
           LockedOf, locks, OthersOK
    <2>2. LockedOf(w)'
        BY <1>5, WriterMoves DEF CheckRecord, Journaled, At, Over, Refused, Stealing,
           Releasing, Unclaiming, LocalsOK, OthersOK, Working, WorkingOf, ClaimsLocked,
           LockedOf, KeyFor, locks, WriterPoints, FlusherPoints
    <2> QED
        BY <2>1, <2>2 DEF ClaimsLocked
<1>6. ASSUME NEW w \in Writers, WriteRecord(w) PROVE ClaimsLocked'
    BY <1>6 DEF WriteRecord, Working, WorkingOf, ClaimsLocked, LockedOf, GoTo, KeyFor,
       vars, files, locks, finops, locals, history, LocalsOK, OthersOK, WriterPoints,
       FlusherPoints
<1>7. ASSUME NEW w \in Writers, CheckBinds(w) PROVE ClaimsLocked'
    <2>1. ASSUME NEW b \in Actors \ {w} PROVE LockedOf(b)'
        BY <1>7, <2>1, WriterMoves DEF CheckBinds, Others, ClaimsLocked, LockedOf, locks,
           OthersOK
    <2>2. LockedOf(w)'
        BY <1>7, WriterMoves DEF CheckBinds, At, Over, Refused, Stealing, Releasing,
           Unclaiming, LocalsOK, OthersOK, Working, WorkingOf, ClaimsLocked, LockedOf,
           KeyFor, locks, WriterPoints, FlusherPoints
    <2> QED
        BY <2>1, <2>2 DEF ClaimsLocked
<1>8. ASSUME NEW w \in Writers, Withdraw(w) PROVE ClaimsLocked'
    <2>1. ASSUME NEW b \in Actors \ {w} PROVE LockedOf(b)'
        <3>1. Others(w) /\ UNCHANGED claimsLock
            BY <1>8, WriterMoves DEF Withdraw, locks
        <3> QED
            BY <2>1, <3>1 DEF Others, ClaimsLocked, LockedOf
    <2>2. LockedOf(w)'
        BY <1>8, WriterMoves DEF Withdraw, At, Over, Refused, Stealing, Releasing,
           Unclaiming, LocalsOK, OthersOK, Working, WorkingOf, ClaimsLocked, LockedOf,
           KeyFor, locks, WriterPoints, FlusherPoints
    <2> QED
        BY <2>1, <2>2 DEF ClaimsLocked
<1>9. ASSUME NEW w \in Writers, ReadForRelease(w) PROVE ClaimsLocked'
    <2>1. ASSUME NEW b \in Actors \ {w} PROVE LockedOf(b)'
        BY <1>9, <2>1, WriterMoves DEF ReadForRelease, Others, ClaimsLocked, LockedOf,
           locks, OthersOK
    <2>2. LockedOf(w)'
        BY <1>9, WriterMoves DEF ReadForRelease, At, Over, Refused, Stealing, Releasing,
           Unclaiming, LocalsOK, OthersOK, Working, WorkingOf, ClaimsLocked, LockedOf,
           KeyFor, locks, WriterPoints, FlusherPoints
    <2> QED
        BY <2>1, <2>2 DEF ClaimsLocked
<1>10. ASSUME NEW w \in Writers, BackfillClaim(w) PROVE ClaimsLocked'
    <2>1. ASSUME NEW b \in Actors \ {w} PROVE LockedOf(b)'
        BY <1>10, <2>1, WriterMoves DEF BackfillClaim, Others, ClaimsLocked, LockedOf,
           locks, OthersOK
    <2>2. LockedOf(w)'
        BY <1>10, WriterMoves DEF BackfillClaim, At, Over, Refused, Stealing, Releasing,
           Unclaiming, LocalsOK, OthersOK, Working, WorkingOf, ClaimsLocked, LockedOf,
           KeyFor, locks, WriterPoints, FlusherPoints
    <2> QED
        BY <2>1, <2>2 DEF ClaimsLocked
<1>11. ASSUME NEW f \in Flushers, StartFlush(f) PROVE ClaimsLocked'
    BY <1>11 DEF StartFlush, Working, WorkingOf, ClaimsLocked, LockedOf, GoTo, KeyFor,
       vars, files, locks, finops, locals, history, LocalsOK, OthersOK, WriterPoints,
       FlusherPoints
<1>12. ASSUME NEW f \in Flushers, EndFlush(f) PROVE ClaimsLocked'
    BY <1>12 DEF EndFlush, Working, WorkingOf, ClaimsLocked, LockedOf, GoTo, KeyFor, vars,
       files, locks, finops, locals, history, LocalsOK, OthersOK, WriterPoints,
       FlusherPoints
<1>13. ASSUME NEW f \in Flushers, Quarantine(f) PROVE ClaimsLocked'
    <2>1. ASSUME NEW b \in Actors \ {f} PROVE LockedOf(b)'
        BY <1>13, <2>1, ActorMoves DEF Quarantine, Others, ClaimsLocked, LockedOf, locks,
           OthersOK
    <2>2. LockedOf(f)'
        BY <1>13, ActorMoves DEF Quarantine, At, Over, Refused, Stealing, Releasing,
           Unclaiming, LocalsOK, OthersOK, Working, WorkingOf, ClaimsLocked, LockedOf,
           KeyFor, locks, WriterPoints, FlusherPoints
    <2> QED
        BY <2>1, <2>2 DEF ClaimsLocked
<1>14. ASSUME NEW f \in Flushers, NEW i \in Intents, FlushItem(f, i) PROVE ClaimsLocked'
    BY <1>14 DEF FlushItem, Working, WorkingOf, ClaimsLocked, LockedOf, GoTo, KeyFor,
       vars, files, locks, finops, locals, history, LocalsOK, OthersOK, WriterPoints,
       FlusherPoints
<1>15. ASSUME NEW a \in Actors, PostApplied(a) PROVE ClaimsLocked'
    BY <1>15 DEF PostApplied, Apply, Accepts, Working, WorkingOf, ClaimsLocked, LockedOf,
       GoTo, KeyFor, vars, files, locks, finops, locals, history, LocalsOK, OthersOK,
       WriterPoints, FlusherPoints
<1>16. ASSUME NEW a \in Actors, PostAnswerLost(a) PROVE ClaimsLocked'
    BY <1>16 DEF PostAnswerLost, Apply, Accepts, Unacked, Working, WorkingOf,
       ClaimsLocked, LockedOf, GoTo, KeyFor, vars, files, locks, finops, locals, history,
       LocalsOK, OthersOK, WriterPoints, FlusherPoints
<1>17. ASSUME NEW a \in Actors, PostFailed(a) PROVE ClaimsLocked'
    BY <1>17 DEF PostFailed, Unacked, Working, WorkingOf, ClaimsLocked, LockedOf, GoTo,
       KeyFor, vars, files, locks, finops, locals, history, LocalsOK, OthersOK,
       WriterPoints, FlusherPoints
<1>18. ASSUME NEW a \in Actors, PostRefused(a) PROVE ClaimsLocked'
    BY <1>18 DEF PostRefused, Working, WorkingOf, ClaimsLocked, LockedOf, GoTo, KeyFor,
       vars, files, locks, finops, locals, history, LocalsOK, OthersOK, WriterPoints,
       FlusherPoints
<1>19. ASSUME NEW a \in Actors, AckRecord(a) PROVE ClaimsLocked'
    <2>1. ASSUME NEW b \in Actors \ {a} PROVE LockedOf(b)'
        BY <1>19, <2>1, ActorMoves DEF AckRecord, Others, ClaimsLocked, LockedOf, locks,
           OthersOK
    <2>2. LockedOf(a)'
        BY <1>19, ActorMoves DEF AckRecord, At, Over, Refused, Stealing, Releasing,
           Unclaiming, LocalsOK, OthersOK, Working, WorkingOf, ClaimsLocked, LockedOf,
           KeyFor, locks, WriterPoints, FlusherPoints
    <2> QED
        BY <2>1, <2>2 DEF ClaimsLocked
<1>20. ASSUME NEW a \in Actors, RewriteRecord(a) PROVE ClaimsLocked'
    <2>1. ASSUME NEW b \in Actors \ {a} PROVE LockedOf(b)'
        BY <1>20, <2>1, ActorMoves DEF RewriteRecord, Others, ClaimsLocked, LockedOf,
           locks, OthersOK
    <2>2. LockedOf(a)'
        BY <1>20, ActorMoves DEF RewriteRecord, At, Over, Refused, Stealing, Releasing,
           Unclaiming, LocalsOK, OthersOK, Working, WorkingOf, ClaimsLocked, LockedOf,
           KeyFor, locks, WriterPoints, FlusherPoints
    <2> QED
        BY <2>1, <2>2 DEF ClaimsLocked
<1>21. ASSUME NEW a \in Actors, LockClaims(a) PROVE ClaimsLocked'
    <2>1. ASSUME NEW b \in Actors \ {a} PROVE LockedOf(b)'
        BY <1>21, <2>1, ActorMoves DEF LockClaims, Others, ClaimsLocked, LockedOf, locks,
           OthersOK
    <2>2. LockedOf(a)'
        BY <1>21, ActorMoves DEF LockClaims, At, Over, Refused, Stealing, Releasing,
           Unclaiming, LocalsOK, OthersOK, Working, WorkingOf, ClaimsLocked, LockedOf,
           KeyFor, locks, WriterPoints, FlusherPoints
    <2> QED
        BY <2>1, <2>2 DEF ClaimsLocked
<1>22. ASSUME NEW a \in Actors, RemoveClaim(a) PROVE ClaimsLocked'
    <2>1. ASSUME NEW b \in Actors \ {a} PROVE LockedOf(b)'
        BY <1>22, <2>1, ActorMoves DEF RemoveClaim, Others, ClaimsLocked, LockedOf, locks,
           OthersOK
    <2>2. LockedOf(a)'
        BY <1>22, ActorMoves DEF RemoveClaim, At, Over, Refused, Stealing, Releasing,
           Unclaiming, LocalsOK, OthersOK, Working, WorkingOf, ClaimsLocked, LockedOf,
           KeyFor, locks, WriterPoints, FlusherPoints
    <2> QED
        BY <2>1, <2>2 DEF ClaimsLocked
<1>23. ASSUME NEW a \in Actors, Crash(a) PROVE ClaimsLocked'
    BY <1>23 DEF Crash, Working, WorkingOf, ClaimsLocked, LockedOf, GoTo, KeyFor, vars,
       files, locks, finops, locals, history, LocalsOK, OthersOK, WriterPoints,
       FlusherPoints
<1>24. ASSUME NEW i \in Intents, LateArrival(i) PROVE ClaimsLocked'
    BY <1>24 DEF LateArrival, Apply, Working, WorkingOf, ClaimsLocked, LockedOf, GoTo,
       KeyFor, vars, files, locks, finops, locals, history, LocalsOK, OthersOK,
       WriterPoints, FlusherPoints
<1>25. ASSUME NEW i \in Intents, Elapse(i) PROVE ClaimsLocked'
    BY <1>25 DEF Elapse, Working, WorkingOf, ClaimsLocked, LockedOf, GoTo, KeyFor, vars,
       files, locks, finops, locals, history, LocalsOK, OthersOK, WriterPoints,
       FlusherPoints
<1>26. ASSUME NEW k \in Keys, Age(k) PROVE ClaimsLocked'
    BY <1>26 DEF Age, Working, WorkingOf, ClaimsLocked, LockedOf, GoTo, KeyFor, vars,
       files, locks, finops, locals, history, LocalsOK, OthersOK, WriterPoints,
       FlusherPoints
<1>27. ASSUME UNCHANGED vars PROVE ClaimsLocked'
    BY <1>27 DEF vars, Working, WorkingOf, ClaimsLocked, LockedOf, GoTo, KeyFor, vars,
       files, locks, finops, locals, history, LocalsOK, OthersOK, WriterPoints,
       FlusherPoints
<1> QED
    BY <1>1, <1>2, <1>3, <1>4, <1>5, <1>6, <1>7, <1>8, <1>9, <1>10, <1>11, <1>12, <1>13,
       <1>14, <1>15, <1>16, <1>17, <1>18, <1>19, <1>20, <1>21, <1>22, <1>23, <1>24, <1>25,
       <1>26, <1>27
       DEF Next, Start, Settle, Flush, Deliver

\* What was checked under claims/.lock still holds when the claim is removed.
LEMMA RemovalIsExactStep ==
    TypeOK /\ Working /\ ClaimsLocked /\ RemovalIsExact /\ [Next]_vars => RemovalIsExact'
<1> SUFFICES ASSUME TypeOK, Working, ClaimsLocked, RemovalIsExact, [Next]_vars
             PROVE  RemovalIsExact'
    OBVIOUS
<1> LocalsOK /\ OthersOK
    BY TypeSplit
<1> USE SettleQueueAssumption
    DEF Actors, Working, WorkingOf, ClaimsLocked, LockedOf, RemovalIsExact, KeyFor, vars,
       files, locks,
        finops, history, LocalsOK, OthersOK, WriterPoints, FlusherPoints
<1>1. ASSUME NEW w \in Writers, NEW i \in Intents, StartSettle(w, i) PROVE RemovalIsExact'
    BY <1>1 DEF StartSettle, GoTo, locals
<1>2. ASSUME NEW w \in Writers, NEW i \in Intents, StartProcess(w, i) PROVE RemovalIsExact'
    BY <1>2 DEF StartProcess, GoTo, locals
<1>3. ASSUME NEW w \in Writers, ReadClaim(w) PROVE RemovalIsExact'
    BY <1>3 DEF ReadClaim, Orphaned, Claimed, Journaled, Conflict, Return, GoTo, locals
<1>4. ASSUME NEW w \in Writers, LinkClaim(w) PROVE RemovalIsExact'
    BY <1>4 DEF LinkClaim, Claimed, Journaled, Again, Conflict, Return, GoTo, locals
<1>5. ASSUME NEW w \in Writers, CheckRecord(w) PROVE RemovalIsExact'
    BY <1>5 DEF CheckRecord, Journaled, GoTo, locals
<1>6. ASSUME NEW w \in Writers, WriteRecord(w) PROVE RemovalIsExact'
    BY <1>6 DEF WriteRecord, GoTo, locals
<1>7. ASSUME NEW w \in Writers, CheckBinds(w) PROVE RemovalIsExact'
    BY <1>7 DEF CheckBinds, Journaled, GoTo, locals
<1>8. ASSUME NEW w \in Writers, Withdraw(w) PROVE RemovalIsExact'
    BY <1>8 DEF Withdraw, Return, GoTo, locals
<1>9. ASSUME NEW w \in Writers, ReadForRelease(w) PROVE RemovalIsExact'
    BY <1>9 DEF ReadForRelease, Return, GoTo, locals
<1>10. ASSUME NEW w \in Writers, BackfillClaim(w) PROVE RemovalIsExact'
    BY <1>10 DEF BackfillClaim, Return, GoTo, locals
<1>11. ASSUME NEW f \in Flushers, StartFlush(f) PROVE RemovalIsExact'
    BY <1>11 DEF StartFlush, GoTo, locals
<1>12. ASSUME NEW f \in Flushers, EndFlush(f) PROVE RemovalIsExact'
    BY <1>12 DEF EndFlush, GoTo, locals
<1>13. ASSUME NEW f \in Flushers, Quarantine(f) PROVE RemovalIsExact'
    BY <1>13 DEF Quarantine, NextItem, GoTo, locals
<1>14. ASSUME NEW f \in Flushers, NEW i \in Intents, FlushItem(f, i) PROVE RemovalIsExact'
    BY <1>14 DEF FlushItem, GoTo, locals
<1>15. ASSUME NEW a \in Actors, PostApplied(a) PROVE RemovalIsExact'
    BY <1>15 DEF PostApplied, Apply, Accepts, GoTo, locals
<1>16. ASSUME NEW a \in Actors, PostAnswerLost(a) PROVE RemovalIsExact'
    BY <1>16 DEF PostAnswerLost, Apply, Accepts, Unacked, GoTo, locals
<1>17. ASSUME NEW a \in Actors, PostFailed(a) PROVE RemovalIsExact'
    BY <1>17 DEF PostFailed, Unacked, GoTo, locals
<1>18. ASSUME NEW a \in Actors, PostRefused(a) PROVE RemovalIsExact'
    BY <1>18 DEF PostRefused, GoTo, locals
<1>19. ASSUME NEW a \in Actors, AckRecord(a) PROVE RemovalIsExact'
    BY <1>19 DEF AckRecord, Finish, Return, NextItem, GoTo, locals
<1>20. ASSUME NEW a \in Actors, RewriteRecord(a) PROVE RemovalIsExact'
    BY <1>20, Outcomes DEF RewriteRecord, Others, Over
<1>21. ASSUME NEW a \in Actors, LockClaims(a) PROVE RemovalIsExact'
    BY <1>21 DEF LockClaims, Unclaimed, Finish, Return, NextItem, Again, Conflict, GoTo,
       locals
<1>22. ASSUME NEW a \in Actors, RemoveClaim(a) PROVE RemovalIsExact'
    BY <1>22 DEF RemoveClaim, Unclaimed, Finish, Return, NextItem, Again, Conflict, GoTo,
       locals
<1>23. ASSUME NEW a \in Actors, Crash(a) PROVE RemovalIsExact'
    BY <1>23 DEF Crash, GoTo, locals
<1>24. ASSUME NEW i \in Intents, LateArrival(i) PROVE RemovalIsExact'
    BY <1>24 DEF LateArrival, Apply, GoTo, locals
<1>25. ASSUME NEW i \in Intents, Elapse(i) PROVE RemovalIsExact'
    BY <1>25 DEF Elapse, GoTo, locals
<1>26. ASSUME NEW k \in Keys, Age(k) PROVE RemovalIsExact'
    BY <1>26 DEF Age, GoTo, locals
<1>27. ASSUME UNCHANGED vars PROVE RemovalIsExact'
    BY <1>27 DEF vars, GoTo, locals
<1> QED
    BY <1>1, <1>2, <1>3, <1>4, <1>5, <1>6, <1>7, <1>8, <1>9, <1>10, <1>11, <1>12, <1>13,
       <1>14, <1>15, <1>16, <1>17, <1>18, <1>19, <1>20, <1>21, <1>22, <1>23, <1>24, <1>25,
       <1>26, <1>27
       DEF Next, Start, Settle, Flush, Deliver

-----------------------------------------------------------------------------
(* What no step undoes. *)

\* FinOps never replaces an intent it has applied.
LEMMA HeldStays ==
    TypeOK /\ Working /\ [Next]_vars =>
        \A i \in Intents : held[KeyOf[i]] = i => held'[KeyOf[i]] = i
<1> SUFFICES ASSUME TypeOK, Working, [Next]_vars
             PROVE  \A i \in Intents : held[KeyOf[i]] = i => held'[KeyOf[i]] = i
    OBVIOUS
<1>1. UNCHANGED held \/ \E i \in Intents : Apply(i)
    <2>1. ASSUME NEW w \in Writers, Start(w) \/ Settle(w)
          PROVE  UNCHANGED held
        BY <2>1 DEF Start, Settle, StartSettle, StartProcess, ReadClaim, LinkClaim,
           CheckRecord,
           WriteRecord, CheckBinds, Withdraw, ReadForRelease, BackfillClaim, finops
    <2>2. ASSUME NEW f \in Flushers, Flush(f)
          PROVE  UNCHANGED held
        BY <2>2 DEF Flush, StartFlush, EndFlush, Quarantine, FlushItem, finops
    <2>3. ASSUME NEW a \in Actors, PostApplied(a) \/ PostAnswerLost(a)
          PROVE  \E i \in Intents : Apply(i)
        BY <2>3 DEF PostApplied, PostAnswerLost, Working, WorkingOf
    <2>4. ASSUME NEW a \in Actors, \/ PostFailed(a) \/ PostRefused(a) \/ AckRecord(a) \/ RewriteRecord(a)
                                   \/ LockClaims(a) \/ RemoveClaim(a) \/ Crash(a)
          PROVE  UNCHANGED held
        BY <2>4 DEF PostFailed, PostRefused, AckRecord, RewriteRecord, LockClaims,
           RemoveClaim, Crash, finops
    <2>5. ASSUME NEW i \in Intents, LateArrival(i) PROVE Apply(i)
        BY <2>5 DEF LateArrival
    <2>6. ASSUME \/ \E i \in Intents : Elapse(i)
                 \/ \E k \in Keys : Age(k)
                 \/ UNCHANGED vars
          PROVE  UNCHANGED held
        BY <2>6 DEF Elapse, Age, vars, finops
    <2> QED
        BY <2>1, <2>2, <2>3, <2>4, <2>5, <2>6 DEF Next, Deliver
<1>2. ASSUME NEW j \in Intents, Apply(j)
      PROVE  \A i \in Intents : held[KeyOf[i]] = i => held'[KeyOf[i]] = i
    BY <1>2, SettleQueueAssumption DEF Apply, TypeOK
<1> QED
    BY <1>1, <1>2

\* A takeover, and a quarantine, are remembered.
LEMMA HistoryGrows ==
    [Next]_vars => takenOver \subseteq takenOver' /\ quarantined \subseteq quarantined'
<1> SUFFICES ASSUME [Next]_vars
             PROVE  takenOver \subseteq takenOver' /\ quarantined \subseteq quarantined'
    OBVIOUS
<1>1. ASSUME NEW w \in Writers, Start(w) \/ Settle(w)
      PROVE  UNCHANGED <<takenOver, quarantined>>
    BY <1>1 DEF Start, Settle, StartSettle, StartProcess, ReadClaim, LinkClaim, CheckRecord,
       WriteRecord, CheckBinds, Withdraw, ReadForRelease, BackfillClaim, history, files
<1>2. ASSUME NEW f \in Flushers, Flush(f)
      PROVE  UNCHANGED takenOver /\ quarantined \subseteq quarantined'
    BY <1>2 DEF Flush, StartFlush, EndFlush, Quarantine, FlushItem, history, files
<1>3. ASSUME NEW a \in Actors, Deliver(a) \/ Crash(a)
      PROVE  takenOver \subseteq takenOver' /\ UNCHANGED quarantined
    BY <1>3 DEF Deliver, PostApplied, PostAnswerLost, PostFailed, PostRefused, AckRecord,
       RewriteRecord, LockClaims, RemoveClaim, Crash, history, files
<1>4. ASSUME \/ \E i \in Intents : LateArrival(i) \/ Elapse(i)
             \/ \E k \in Keys : Age(k)
             \/ UNCHANGED vars
      PROVE  UNCHANGED <<takenOver, quarantined>>
    BY <1>4 DEF LateArrival, Elapse, Age, vars, history, files
<1> QED
    BY <1>1, <1>2, <1>3, <1>4 DEF Next

\* A record disappears only after FinOps holds its intent, into quarantine, or
\* because its writer withdraws it.
LEMMA RecordGone ==
    ASSUME TypeOK, Working, ForCause, [Next]_vars, NEW i \in Intents,
           Pending(i), record'[i] = Absent
    PROVE  \/ held[KeyOf[i]] = i
           \/ i \in quarantined'
           \/ \E w \in Writers : pc[w] = "withdraw" /\ intent[w] = i
<1> USE DEF Pending, TypeOK, Working, WorkingOf
<1>1. ASSUME NEW w \in Writers, Start(w) \/ Settle(w)
      PROVE  pc[w] = "withdraw" /\ intent[w] = i
    <2>1. CASE Withdraw(w)
        BY <2>1 DEF Withdraw
    <2>2. CASE WriteRecord(w)
        BY <2>2, SettleQueueAssumption DEF WriteRecord
    <2>3. CASE \/ Start(w) \/ ReadClaim(w) \/ LinkClaim(w) \/ CheckRecord(w) \/ CheckBinds(w)
               \/ ReadForRelease(w) \/ BackfillClaim(w)
        BY <2>3 DEF Start, StartSettle, StartProcess, ReadClaim, LinkClaim, CheckRecord,
           CheckBinds,
           ReadForRelease, BackfillClaim, files
    <2> QED
        BY <1>1, <2>1, <2>2, <2>3 DEF Settle
<1>2. ASSUME NEW f \in Flushers, Flush(f)
      PROVE  i \in quarantined'
    BY <1>2 DEF Flush, StartFlush, EndFlush, Quarantine, FlushItem, files
<1>3. ASSUME NEW a \in Actors, Deliver(a) \/ Crash(a)
      PROVE  held[KeyOf[i]] = i
    <2>1. CASE AckRecord(a)
        BY <2>1 DEF AckRecord, ForCause, CauseOf, KeyFor
    <2>2. CASE RewriteRecord(a)
        <3>1. ASSUME a \in Flushers PROVE listing[a][intent[a]].error \in {"pre_send", "sender_unacked"}
            BY <2>2, <3>1 DEF RewriteRecord, Records, Actors
        <3> QED
            BY <2>2, <3>1, SettleQueueAssumption DEF RewriteRecord, Actors
    <2>3. CASE \/ PostApplied(a) \/ PostAnswerLost(a) \/ PostFailed(a) \/ PostRefused(a)
               \/ LockClaims(a) \/ RemoveClaim(a) \/ Crash(a)
        BY <2>3 DEF PostApplied, PostAnswerLost, PostFailed, PostRefused, LockClaims,
           RemoveClaim,
           Crash, files
    <2> QED
        BY <1>3, <2>1, <2>2, <2>3 DEF Deliver
<1>4. ASSUME NEW j \in Intents, Elapse(j) PROVE FALSE
    <2>1. record[j].error \in {"pre_send", "sender_unacked"}
        BY <1>4 DEF Elapse, Records
    <2> QED
        BY <1>4, <2>1, SettleQueueAssumption DEF Elapse
<1>5. ~(\/ \E j \in Intents : LateArrival(j)
        \/ \E k \in Keys : Age(k)
        \/ UNCHANGED vars)
    BY DEF LateArrival, Age, vars, files
<1> QED
    BY <1>1, <1>2, <1>3, <1>4, <1>5 DEF Next

\* A claim disappears only once its intent is settled, or into a takeover.
LEMMA ClaimGone ==
    ASSUME TypeOK, Working, ClaimsLocked, RemovalIsExact, ForCause, [Next]_vars,
           NEW i \in Intents, claim[KeyOf[i]] = i, claim'[KeyOf[i]] # i
    PROVE  Settled(i)'
<1> USE SettleQueueAssumption DEF TypeOK, Working, WorkingOf, KeyFor
<1>1. ASSUME NEW w \in Writers, Start(w) \/ Settle(w)
      PROVE  FALSE
    <2>1. CASE LinkClaim(w)
        BY <2>1 DEF LinkClaim
    <2>2. CASE BackfillClaim(w)
        BY <2>2 DEF BackfillClaim
    <2>3. CASE \/ Start(w) \/ ReadClaim(w) \/ CheckRecord(w) \/ WriteRecord(w) \/ CheckBinds(w)
               \/ Withdraw(w) \/ ReadForRelease(w)
        BY <2>3 DEF Start, StartSettle, StartProcess, ReadClaim, CheckRecord, WriteRecord,
           CheckBinds, Withdraw, ReadForRelease, files
    <2> QED
        BY <1>1, <2>1, <2>2, <2>3 DEF Settle
<1>2. ASSUME NEW f \in Flushers, Flush(f)
      PROVE  FALSE
    BY <1>2 DEF Flush, StartFlush, EndFlush, Quarantine, FlushItem, files
<1>3. ASSUME NEW a \in Actors, RemoveClaim(a)
      PROVE  Settled(i)'
    <2>1. KeyFor(a) = KeyOf[i] /\ victim[a] = i
        BY <1>3 DEF RemoveClaim, RemovalIsExact
    <2>2. CASE victim[a] = intent[a]
        <3>1. held[KeyOf[i]] = i
            BY <1>3, <2>1, <2>2 DEF RemoveClaim, ForCause, CauseOf
        <3> QED
            BY <3>1, HeldStays DEF Settled
    <2>3. CASE victim[a] # intent[a]
        BY <1>3, <2>1, <2>3 DEF RemoveClaim, Settled
    <2> QED
        BY <2>2, <2>3
<1>4. ASSUME NEW a \in Actors, Deliver(a) \/ Crash(a), ~RemoveClaim(a)
      PROVE  FALSE
    BY <1>4 DEF Deliver, PostApplied, PostAnswerLost, PostFailed, PostRefused, AckRecord,
       RewriteRecord, LockClaims, Crash, files
<1>5. ~(\/ \E j \in Intents : LateArrival(j) \/ Elapse(j)
        \/ \E k \in Keys : Age(k)
        \/ UNCHANGED vars)
    BY DEF LateArrival, Elapse, Age, vars, files
<1> QED
    BY <1>1, <1>2, <1>3, <1>4, <1>5 DEF Next

Steady ==
    \A i \in Intents :
        /\ held[KeyOf[i]] = i => held'[KeyOf[i]] = i
        /\ Settled(i) => Settled(i)'
        /\ Safe(i) => Safe(i)'
        /\ claim[KeyOf[i]] = i => claim'[KeyOf[i]] = i \/ Settled(i)'

\* What an actor relies on stays true while the others work.
LEMMA SteadyStep ==
    TypeOK /\ Working /\ ClaimsLocked /\ RemovalIsExact /\ ForCause /\ [Next]_vars => Steady
<1> SUFFICES ASSUME TypeOK, Working, ClaimsLocked, RemovalIsExact, ForCause, [Next]_vars,
                    NEW i \in Intents
             PROVE  /\ held[KeyOf[i]] = i => held'[KeyOf[i]] = i
                    /\ Settled(i) => Settled(i)'
                    /\ Safe(i) => Safe(i)'
                    /\ claim[KeyOf[i]] = i => claim'[KeyOf[i]] = i \/ Settled(i)'
    BY DEF Steady
<1>1. held[KeyOf[i]] = i => held'[KeyOf[i]] = i
    BY HeldStays
<1>2. Settled(i) => Settled(i)'
    BY <1>1, HistoryGrows DEF Settled
<1>3. ASSUME Safe(i) PROVE Safe(i)'
    <2>1. CASE Pending(i) /\ record'[i] = Absent
        <3>1. CASE \E w \in Writers : pc[w] = "withdraw" /\ intent[w] = i
            <4>1. Settled(i)
                BY <3>1 DEF ForCause, CauseOf, Actors
            <4> QED
                BY <4>1, <1>2 DEF Settled, Safe, Kept
        <3>2. CASE held[KeyOf[i]] = i \/ i \in quarantined'
            BY <3>2, <1>1 DEF Safe, Kept
        <3> QED
            BY <2>1, <3>1, <3>2, RecordGone
    <2>2. CASE Pending(i) /\ record'[i] # Absent
        BY <2>2 DEF Safe, Kept, Pending
    <2>3. CASE ~Pending(i)
        BY <1>1, <1>3, <2>3, HistoryGrows DEF Safe, Kept
    <2> QED
        BY <2>1, <2>2, <2>3
<1>4. claim[KeyOf[i]] = i => claim'[KeyOf[i]] = i \/ Settled(i)'
    BY ClaimGone
<1> QED
    BY <1>1, <1>2, <1>3, <1>4

-----------------------------------------------------------------------------
(* Records are removed for cause. *)

\* A step of one actor leaves the causes of all the others in force.
LEMMA Bystanders ==
    ASSUME Steady, Working, ForCause, NEW a \in Actors, Others(a)
    PROVE  \A b \in Actors \ {a} : CauseOf(b)'
<1> SUFFICES ASSUME NEW b \in Actors \ {a} PROVE CauseOf(b)'
    OBVIOUS
<1>1. CASE pc[b] \in {"idle", "flush"}
    BY <1>1 DEF Others, ForCause, CauseOf, Working, WorkingOf, WriterPoints, FlusherPoints
<1>2. CASE intent[b] \in Intents
    BY <1>2 DEF Others, ForCause, CauseOf, Steady, KeyFor
<1> QED
    BY <1>1, <1>2 DEF Working, WorkingOf

\* Every step keeps the causes for which records are removed.
LEMMA ForCauseStep ==
    TypeOK /\ Working /\ ClaimsLocked /\ RemovalIsExact /\ ForCause /\ [Next]_vars => ForCause'
<1> SUFFICES ASSUME TypeOK, Working, ClaimsLocked, RemovalIsExact, ForCause, [Next]_vars
             PROVE  ForCause'
    OBVIOUS
<1> LocalsOK /\ OthersOK /\ Steady
    BY TypeSplit, SteadyStep
<1> USE SettleQueueAssumption DEF Actors
<1>1. ASSUME NEW w \in Writers, NEW i \in Intents, StartSettle(w, i) PROVE ForCause'
    <2>1. Others(w)
        BY <1>1 DEF StartSettle, Others, GoTo, locals, LocalsOK, Unacked
    <2>2. CauseOf(w)'
        BY <1>1 DEF StartSettle, Steady, Settled, GoTo, locals, ForCause, CauseOf,
           Working, WorkingOf, KeyFor, LocalsOK, OthersOK, WriterPoints, FlusherPoints
    <2> QED
        BY <2>1, <2>2, Bystanders DEF ForCause
<1>2. ASSUME NEW w \in Writers, NEW i \in Intents, StartProcess(w, i) PROVE ForCause'
    <2>1. Others(w)
        BY <1>2 DEF StartProcess, Others, GoTo, locals, LocalsOK, Unacked
    <2>2. CauseOf(w)'
        BY <1>2 DEF StartProcess, Steady, Settled, GoTo, locals, ForCause, CauseOf,
           Working, WorkingOf, KeyFor, LocalsOK, OthersOK, WriterPoints, FlusherPoints
    <2> QED
        BY <2>1, <2>2, Bystanders DEF ForCause
<1>3. ASSUME NEW w \in Writers, ReadClaim(w) PROVE ForCause'
    <2>1. Others(w)
        BY <1>3, WriterMoves
    <2>2. CauseOf(w)'
        <3>1. /\ intent[w] \in Intents
              /\ pc[w] = "claim"
              /\ wrote[w] \in BOOLEAN
              /\ UNCHANGED <<claim, held, takenOver>>
            BY <1>3 DEF ReadClaim, Working, WorkingOf, LocalsOK, files, finops
        <3>2. CASE claim[KeyFor(w)] = intent[w] /\ ~wrote[w] /\ At(w, "check")
            BY <3>1, <3>2 DEF At, CauseOf, KeyFor
        <3>5. CASE wrote[w] /\ At(w, "send")
            BY <3>1, <3>5 DEF At, ForCause, CauseOf, Steady
        <3>3. CASE At(w, "link") \/ (Stealing(w) /\ claim[KeyFor(w)] # intent[w])
            BY <3>1, <3>3 DEF At, Stealing, ForCause, CauseOf, KeyFor, Steady
        <3>4. CASE Refused(w)
            BY <3>1, <3>4 DEF Refused, At, Over, ForCause, CauseOf, KeyFor, Steady
        <3> QED
            BY <1>3, <3>2, <3>3, <3>4, <3>5, WriterMoves
    <2> QED
        BY <2>1, <2>2, Bystanders DEF ForCause
<1>4. ASSUME NEW w \in Writers, LinkClaim(w) PROVE ForCause'
    <2>1. Others(w)
        BY <1>4, WriterMoves
    <2>2. CauseOf(w)'
        BY <1>4, WriterMoves DEF LinkClaim, Steady, Settled, At, Over, Refused, Stealing,
           Releasing, Unclaiming, ForCause, CauseOf, Working, WorkingOf, KeyFor, LocalsOK,
           OthersOK, WriterPoints, FlusherPoints
    <2> QED
        BY <2>1, <2>2, Bystanders DEF ForCause
<1>5. ASSUME NEW w \in Writers, CheckRecord(w) PROVE ForCause'
    <2>1. Others(w)
        BY <1>5, WriterMoves
    <2>2. CauseOf(w)'
        BY <1>5, WriterMoves DEF CheckRecord, Steady, Settled, At, Over, Refused,
           Stealing, Releasing, Unclaiming, ForCause, CauseOf, Working, WorkingOf, KeyFor,
           LocalsOK, OthersOK, WriterPoints, FlusherPoints
    <2> QED
        BY <2>1, <2>2, Bystanders DEF ForCause
<1>6. ASSUME NEW w \in Writers, WriteRecord(w) PROVE ForCause'
    <2>1. Others(w)
        BY <1>6 DEF WriteRecord, Others, GoTo, locals, LocalsOK, Unacked
    <2>2. CauseOf(w)'
        <3>1. /\ intent[w] \in Intents
              /\ pc[w] = "write"
              /\ UNCHANGED <<claim, intent, takenOver>>
              /\ pc'[w] = "binds"
              /\ wrote'[w] = TRUE
            BY <1>6 DEF WriteRecord, Working, WorkingOf, LocalsOK, GoTo, history
        <3>2. Safe(intent[w])'
            <4>1. record'[intent[w]] = [error |-> "pre_send", due |-> FALSE]
                BY <1>6, <3>1 DEF WriteRecord, OthersOK
            <4>2. record'[intent[w]] # Absent
                <5>1. [error |-> "pre_send", due |-> FALSE] \in [error : {"pre_send", "sender_unacked"}, due : BOOLEAN]
                    OBVIOUS
                <5> QED
                    BY <4>1, <5>1, SettleQueueAssumption
            <4> QED
                BY <3>1, <4>2 DEF Safe, Kept, Pending
        <3> QED
            BY <3>1, <3>2 DEF ForCause, CauseOf, KeyFor, Steady
    <2> QED
        BY <2>1, <2>2, Bystanders DEF ForCause
<1>7. ASSUME NEW w \in Writers, CheckBinds(w) PROVE ForCause'
    <2>1. Others(w)
        BY <1>7, WriterMoves
    <2>2. CauseOf(w)'
        BY <1>7, WriterMoves DEF CheckBinds, Steady, Settled, At, Over, Refused, Stealing,
           Releasing, Unclaiming, ForCause, CauseOf, Working, WorkingOf, KeyFor, LocalsOK,
           OthersOK, WriterPoints, FlusherPoints
    <2> QED
        BY <2>1, <2>2, Bystanders DEF ForCause
<1>8. ASSUME NEW w \in Writers, Withdraw(w) PROVE ForCause'
    <2>1. Others(w)
        BY <1>8, WriterMoves
    <2>2. CauseOf(w)'
        BY <1>8, WriterMoves DEF Withdraw, Steady, Settled, At, Over, Refused, Stealing,
           Releasing, Unclaiming, ForCause, CauseOf, Working, WorkingOf, KeyFor, LocalsOK,
           OthersOK, WriterPoints, FlusherPoints
    <2> QED
        BY <2>1, <2>2, Bystanders DEF ForCause
<1>9. ASSUME NEW w \in Writers, ReadForRelease(w) PROVE ForCause'
    <2>1. Others(w)
        BY <1>9, WriterMoves
    <2>2. CauseOf(w)'
        BY <1>9, WriterMoves DEF ReadForRelease, Steady, Settled, At, Over, Refused,
           Stealing, Releasing, Unclaiming, ForCause, CauseOf, Working, WorkingOf, KeyFor,
           LocalsOK, OthersOK, WriterPoints, FlusherPoints
    <2> QED
        BY <2>1, <2>2, Bystanders DEF ForCause
<1>10. ASSUME NEW w \in Writers, BackfillClaim(w) PROVE ForCause'
    <2>1. Others(w)
        BY <1>10, WriterMoves
    <2>2. CauseOf(w)'
        BY <1>10, WriterMoves DEF BackfillClaim, Steady, Settled, At, Over, Refused,
           Stealing, Releasing, Unclaiming, ForCause, CauseOf, Working, WorkingOf, KeyFor,
           LocalsOK, OthersOK, WriterPoints, FlusherPoints
    <2> QED
        BY <2>1, <2>2, Bystanders DEF ForCause
<1>11. ASSUME NEW f \in Flushers, StartFlush(f) PROVE ForCause'
    <2>1. Others(f)
        BY <1>11 DEF StartFlush, Others, GoTo, locals, LocalsOK, Unacked
    <2>2. CauseOf(f)'
        BY <1>11 DEF StartFlush, Steady, Settled, GoTo, locals, ForCause, CauseOf,
           Working, WorkingOf, KeyFor, LocalsOK, OthersOK, WriterPoints, FlusherPoints
    <2> QED
        BY <2>1, <2>2, Bystanders DEF ForCause
<1>12. ASSUME NEW f \in Flushers, EndFlush(f) PROVE ForCause'
    <2>1. Others(f)
        BY <1>12 DEF EndFlush, Others, GoTo, locals, LocalsOK, Unacked
    <2>2. CauseOf(f)'
        BY <1>12 DEF EndFlush, Steady, Settled, GoTo, locals, ForCause, CauseOf, Working,
           WorkingOf, KeyFor, LocalsOK, OthersOK, WriterPoints, FlusherPoints
    <2> QED
        BY <2>1, <2>2, Bystanders DEF ForCause
<1>13. ASSUME NEW f \in Flushers, Quarantine(f) PROVE ForCause'
    <2>1. Others(f)
        BY <1>13, ActorMoves
    <2>2. CauseOf(f)'
        BY <1>13, ActorMoves DEF Quarantine, Steady, Settled, At, Over, Refused, Stealing,
           Releasing, Unclaiming, ForCause, CauseOf, Working, WorkingOf, KeyFor, LocalsOK,
           OthersOK, WriterPoints, FlusherPoints
    <2> QED
        BY <2>1, <2>2, Bystanders DEF ForCause
<1>14. ASSUME NEW f \in Flushers, NEW i \in Intents, FlushItem(f, i) PROVE ForCause'
    <2>1. Others(f)
        BY <1>14 DEF FlushItem, Others, GoTo, locals, LocalsOK, Unacked
    <2>2. CauseOf(f)'
        BY <1>14 DEF FlushItem, Steady, Settled, GoTo, locals, ForCause, CauseOf, Working,
           WorkingOf, KeyFor, LocalsOK, OthersOK, WriterPoints, FlusherPoints
    <2> QED
        BY <2>1, <2>2, Bystanders DEF ForCause
<1>15. ASSUME NEW a \in Actors, PostApplied(a) PROVE ForCause'
    <2>1. Others(a)
        BY <1>15 DEF PostApplied, Others, GoTo, locals, LocalsOK, Unacked
    <2>2. CauseOf(a)'
        BY <1>15 DEF PostApplied, Steady, Settled, GoTo, locals, Accepts, Apply, ForCause,
           CauseOf, Working, WorkingOf, KeyFor, LocalsOK, OthersOK, WriterPoints,
           FlusherPoints
    <2> QED
        BY <2>1, <2>2, Bystanders DEF ForCause
<1>16. ASSUME NEW a \in Actors, PostAnswerLost(a) PROVE ForCause'
    <2>1. Others(a)
        BY <1>16 DEF PostAnswerLost, Others, GoTo, locals, LocalsOK, Unacked
    <2>2. CauseOf(a)'
        BY <1>16 DEF PostAnswerLost, Steady, Settled, GoTo, locals, Unacked, ForCause,
           CauseOf, Working, WorkingOf, KeyFor, LocalsOK, OthersOK, WriterPoints,
           FlusherPoints
    <2> QED
        BY <2>1, <2>2, Bystanders DEF ForCause
<1>17. ASSUME NEW a \in Actors, PostFailed(a) PROVE ForCause'
    <2>1. Others(a)
        BY <1>17 DEF PostFailed, Others, GoTo, locals, LocalsOK, Unacked
    <2>2. CauseOf(a)'
        BY <1>17 DEF PostFailed, Steady, Settled, GoTo, locals, Unacked, ForCause,
           CauseOf, Working, WorkingOf, KeyFor, LocalsOK, OthersOK, WriterPoints,
           FlusherPoints
    <2> QED
        BY <2>1, <2>2, Bystanders DEF ForCause
<1>18. ASSUME NEW a \in Actors, PostRefused(a) PROVE ForCause'
    <2>1. Others(a)
        BY <1>18 DEF PostRefused, Others, GoTo, locals, LocalsOK, Unacked
    <2>2. CauseOf(a)'
        BY <1>18 DEF PostRefused, Steady, Settled, GoTo, locals, ForCause, CauseOf,
           Working, WorkingOf, KeyFor, LocalsOK, OthersOK, WriterPoints, FlusherPoints
    <2> QED
        BY <2>1, <2>2, Bystanders DEF ForCause
<1>19. ASSUME NEW a \in Actors, AckRecord(a) PROVE ForCause'
    <2>1. Others(a)
        BY <1>19, ActorMoves
    <2>2. CauseOf(a)'
        <3>1. intent[a] \in Intents /\ pc[a] = "ack"
            BY <1>19 DEF AckRecord, Working, WorkingOf
        <3>2. CASE Releasing(a)
            BY <3>1, <3>2 DEF Releasing, ForCause, CauseOf, KeyFor, Steady
        <3>3. CASE Over(a)
            BY <3>3 DEF Over, CauseOf
        <3> QED
            BY <1>19, <3>2, <3>3, ActorMoves
    <2> QED
        BY <2>1, <2>2, Bystanders DEF ForCause
<1>20. ASSUME NEW a \in Actors, RewriteRecord(a) PROVE ForCause'
    <2>1. Others(a)
        BY <1>20, ActorMoves
    <2>2. CauseOf(a)'
        BY <1>20, ActorMoves DEF RewriteRecord, Steady, Settled, At, Over, Refused,
           Stealing, Releasing, Unclaiming, ForCause, CauseOf, Working, WorkingOf, KeyFor,
           LocalsOK, OthersOK, WriterPoints, FlusherPoints
    <2> QED
        BY <2>1, <2>2, Bystanders DEF ForCause
<1>21. ASSUME NEW a \in Actors, LockClaims(a) PROVE ForCause'
    <2>1. Others(a)
        BY <1>21, ActorMoves
    <2>2. CauseOf(a)'
        <3>1. intent[a] \in Intents /\ pc[a] \in {"steal", "unclaim"}
            BY <1>21 DEF LockClaims, Working, WorkingOf
        <3>2. CASE At(a, "remove")
            <4>1. CASE pc[a] = "steal"
                <5>1. a \in Writers
                    BY <3>1, <4>1 DEF Working, WorkingOf, FlusherPoints
                <5> QED
                    BY <3>1, <3>2, <4>1, <5>1 DEF At, ForCause, CauseOf, KeyFor, Steady
            <4>2. CASE pc[a] = "unclaim"
                <5>1. held'[KeyOf[intent[a]]] = intent[a]
                    BY <3>1, <4>2 DEF ForCause, CauseOf, KeyFor, Steady
                <5>2. wrote[a] => Safe(intent[a])' /\ Settled(intent[a])'
                    BY <3>1, <5>1, <3>2 DEF At, Safe, Kept, Settled
                <5> QED
                    BY <3>1, <3>2, <4>2, <5>1, <5>2 DEF At, CauseOf, KeyFor
            <4> QED
                BY <3>1, <4>1, <4>2
        <3>3. CASE Unclaiming(a)
            <4>1. CASE Over(a)
                BY <4>1 DEF Over, CauseOf
            <4>2. CASE victim[a] # intent[a] /\ At(a, "claim")
                BY <3>1, <4>2 DEF At, ForCause, CauseOf, ClaimsLocked, LockedOf, KeyFor,
                   Steady
            <4>3. CASE victim[a] # intent[a] /\ wrote[a] /\ At(a, "withdraw")
                BY <3>1, <4>3 DEF At, ForCause, CauseOf, ClaimsLocked, LockedOf, KeyFor,
                   Steady
            <4> QED
                BY <3>3, <4>1, <4>2, <4>3 DEF Unclaiming, Refused
        <3> QED
            BY <1>21, <3>2, <3>3, ActorMoves
    <2> QED
        BY <2>1, <2>2, Bystanders DEF ForCause
<1>22. ASSUME NEW a \in Actors, RemoveClaim(a) PROVE ForCause'
    <2>1. Others(a)
        BY <1>22, ActorMoves
    <2>2. CauseOf(a)'
        <3>1. intent[a] \in Intents /\ pc[a] \in {"remove"}
            BY <1>22 DEF RemoveClaim, Working, WorkingOf
        <3>3. CASE Unclaiming(a)
            <4>1. CASE Over(a)
                BY <4>1 DEF Over, CauseOf
            <4>2. CASE victim[a] # intent[a] /\ At(a, "claim")
                BY <3>1, <4>2 DEF At, ForCause, CauseOf, ClaimsLocked, LockedOf, KeyFor,
                   Steady
            <4>3. CASE victim[a] # intent[a] /\ wrote[a] /\ At(a, "withdraw")
                BY <3>1, <4>3 DEF At, ForCause, CauseOf, ClaimsLocked, LockedOf, KeyFor,
                   Steady
            <4> QED
                BY <3>3, <4>1, <4>2, <4>3 DEF Unclaiming, Refused
        <3> QED
            BY <1>22, <3>3, ActorMoves
    <2> QED
        BY <2>1, <2>2, Bystanders DEF ForCause
<1>23. ASSUME NEW a \in Actors, Crash(a) PROVE ForCause'
    <2>1. Others(a)
        BY <1>23 DEF Crash, Others, GoTo, locals, LocalsOK, Unacked
    <2>2. CauseOf(a)'
        BY <1>23 DEF Crash, Steady, Settled, GoTo, locals, ForCause, CauseOf, Working,
           WorkingOf, KeyFor, LocalsOK, OthersOK, WriterPoints, FlusherPoints
    <2> QED
        BY <2>1, <2>2, Bystanders DEF ForCause
<1>24. ASSUME NEW i \in Intents, LateArrival(i) PROVE ForCause'
    <2>1. UNCHANGED <<pc, intent, victim, wrote>>
        BY <1>24 DEF LateArrival, vars, files, locals
    <2>2. ASSUME NEW b \in Actors PROVE CauseOf(b)'
        <3>1. CASE pc[b] \in {"idle", "flush"}
            BY <2>1, <3>1 DEF ForCause, CauseOf, Working, WorkingOf, WriterPoints,
               FlusherPoints
        <3>2. CASE intent[b] \in Intents
            BY <2>1, <3>2 DEF ForCause, CauseOf, Steady, KeyFor
        <3> QED
            BY <3>1, <3>2 DEF Working, WorkingOf
    <2> QED
        BY <2>2 DEF ForCause
<1>25. ASSUME NEW i \in Intents, Elapse(i) PROVE ForCause'
    <2>1. UNCHANGED <<pc, intent, victim, wrote>>
        BY <1>25 DEF Elapse, vars, files, locals
    <2>2. ASSUME NEW b \in Actors PROVE CauseOf(b)'
        <3>1. CASE pc[b] \in {"idle", "flush"}
            BY <2>1, <3>1 DEF ForCause, CauseOf, Working, WorkingOf, WriterPoints,
               FlusherPoints
        <3>2. CASE intent[b] \in Intents
            BY <2>1, <3>2 DEF ForCause, CauseOf, Steady, KeyFor
        <3> QED
            BY <3>1, <3>2 DEF Working, WorkingOf
    <2> QED
        BY <2>2 DEF ForCause
<1>26. ASSUME NEW k \in Keys, Age(k) PROVE ForCause'
    <2>1. UNCHANGED <<pc, intent, victim, wrote>>
        BY <1>26 DEF Age, vars, files, locals
    <2>2. ASSUME NEW b \in Actors PROVE CauseOf(b)'
        <3>1. CASE pc[b] \in {"idle", "flush"}
            BY <2>1, <3>1 DEF ForCause, CauseOf, Working, WorkingOf, WriterPoints,
               FlusherPoints
        <3>2. CASE intent[b] \in Intents
            BY <2>1, <3>2 DEF ForCause, CauseOf, Steady, KeyFor
        <3> QED
            BY <3>1, <3>2 DEF Working, WorkingOf
    <2> QED
        BY <2>2 DEF ForCause
<1>27. ASSUME UNCHANGED vars PROVE ForCause'
    <2>1. UNCHANGED <<pc, intent, victim, wrote>>
        BY <1>27 DEF vars, vars, files, locals
    <2>2. ASSUME NEW b \in Actors PROVE CauseOf(b)'
        <3>1. CASE pc[b] \in {"idle", "flush"}
            BY <2>1, <3>1 DEF ForCause, CauseOf, Working, WorkingOf, WriterPoints,
               FlusherPoints
        <3>2. CASE intent[b] \in Intents
            BY <2>1, <3>2 DEF ForCause, CauseOf, Steady, KeyFor
        <3> QED
            BY <3>1, <3>2 DEF Working, WorkingOf
    <2> QED
        BY <2>2 DEF ForCause
<1> QED
    BY <1>1, <1>2, <1>3, <1>4, <1>5, <1>6, <1>7, <1>8, <1>9, <1>10, <1>11, <1>12, <1>13,
       <1>14, <1>15, <1>16, <1>17, <1>18, <1>19, <1>20, <1>21, <1>22, <1>23, <1>24, <1>25,
       <1>26, <1>27
       DEF Next, Start, Settle, Flush, Deliver

\* A step after which the queue owes one more intent finds that intent kept.
LEMMA NoLostIntentStep ==
    TypeOK /\ Working /\ ClaimsLocked /\ RemovalIsExact /\ ForCause /\ NoLostIntent /\ [Next]_vars
        => NoLostIntent'
<1> SUFFICES ASSUME TypeOK, Working, ClaimsLocked, RemovalIsExact, ForCause, NoLostIntent, [Next]_vars
             PROVE  \A i \in owed' : Safe(i)'
    BY DEF NoLostIntent, Safe, Kept, Pending
<1> Steady
    BY SteadyStep
<1>1. \A i \in owed : Safe(i)'
    BY DEF NoLostIntent, Safe, Kept, TypeOK, Steady
<1>2. ASSUME NEW w \in Writers, owed' # owed, Start(w) \/ Settle(w)
      PROVE  /\ owed' = owed \cup {intent[w]}
             /\ Safe(intent[w])
    <2> w \in Actors
        BY DEF Actors
    <2>1. CASE CheckRecord(w)
        BY <1>2, <2>1 DEF CheckRecord, Journaled, Safe, Kept
    <2>2. CASE CheckBinds(w)
        BY <1>2, <2>2 DEF CheckBinds, Journaled, ForCause, CauseOf
    <2>3. CASE ReadClaim(w) \/ LinkClaim(w)
        BY <1>2, <2>3 DEF ReadClaim, LinkClaim, Claimed, Journaled, ForCause, CauseOf
    <2>4. ASSUME \/ Start(w) \/ WriteRecord(w) \/ Withdraw(w) \/ ReadForRelease(w) \/ BackfillClaim(w)
          PROVE  FALSE
        BY <1>2, <2>4 DEF Start, StartSettle, StartProcess, WriteRecord, Withdraw,
           ReadForRelease,
           BackfillClaim, history
    <2> QED
        BY <1>2, <2>1, <2>2, <2>3, <2>4 DEF Settle
<1>3. ASSUME NEW f \in Flushers, Flush(f) PROVE UNCHANGED owed
    BY <1>3 DEF Flush, StartFlush, EndFlush, Quarantine, FlushItem, history
<1>4. ASSUME NEW a \in Actors, Deliver(a) \/ Crash(a) PROVE UNCHANGED owed
    BY <1>4 DEF Deliver, PostApplied, PostAnswerLost, PostFailed, PostRefused, AckRecord,
       RewriteRecord, LockClaims, RemoveClaim, Crash, history
<1>5. ASSUME \/ \E i \in Intents : LateArrival(i) \/ Elapse(i)
             \/ \E k \in Keys : Age(k)
             \/ UNCHANGED vars
      PROVE  UNCHANGED owed
    BY <1>5 DEF LateArrival, Elapse, Age, vars, history
<1>6. CASE \E w \in Writers : owed' = owed \cup {intent[w]} /\ Safe(intent[w])
    <2> PICK w \in Writers : owed' = owed \cup {intent[w]} /\ Safe(intent[w])
        BY <1>6
    <2>1. CASE intent[w] \in Intents
        BY <1>1, <2>1 DEF Steady
    <2>2. CASE intent[w] \notin Intents
        BY <1>1, <2>2, TypeStep DEF TypeOK
    <2> QED
        BY <2>1, <2>2
<1>7. CASE UNCHANGED owed
    BY <1>1, <1>7
<1> QED
    BY <1>2, <1>3, <1>4, <1>5, <1>6, <1>7 DEF Next

-----------------------------------------------------------------------------
(* The theorems. *)

\* An empty journal satisfies the invariant.
LEMMA InitIInv == Init => IInv
    BY SettleQueueAssumption
       DEF Init, IInv, TypeOK, Working, WorkingOf, FlushLocked, ClaimsLocked, LockedOf,
          RemovalIsExact,
           ForCause, CauseOf, NoLostIntent, Actors, WriterPoints, FlusherPoints

\* The invariant is inductive.
LEMMA NextIInv == IInv /\ [Next]_vars => IInv'
    BY TypeStep, WorkingStep, FlushLockedStep, ClaimsLockedStep, RemovalIsExactStep,
       ForCauseStep,
       NoLostIntentStep DEF IInv

\* Every state of the journal satisfies the inductive invariant.
THEOREM InductiveInvariant == Spec => []IInv
<1>1. Init => IInv
    BY InitIInv
<1>2. IInv /\ [Next]_vars => IInv'
    BY NextIInv
<1> QED
    BY <1>1, <1>2, PTL DEF Spec

\* Every variable of the journal keeps its type.
THEOREM TypeCorrect == Spec => []TypeOK
<1>1. IInv => TypeOK
    BY DEF IInv
<1> QED
    BY <1>1, InductiveInvariant, PTL

\* No journaled intent is lost, unless another intent took its claim over.
THEOREM IntentsKept == Spec => []NoLostIntent
<1>1. IInv => NoLostIntent
    BY DEF IInv
<1> QED
    BY <1>1, InductiveInvariant, PTL

\* A removal of a claim removes the claim it checked.
THEOREM ClaimRemovalExact == Spec => []RemovalIsExact
<1>1. IInv => RemovalIsExact
    BY DEF IInv
<1> QED
    BY <1>1, InductiveInvariant, PTL

\* Two recovery passes never overlap.
THEOREM SingleFlusher == Spec => []OneFlusher
<1>1. IInv => OneFlusher
    BY DEF IInv, FlushLocked, OneFlusher
<1> QED
    BY <1>1, InductiveInvariant, PTL

\* A pending record is removed only when FinOps holds its intent, into
\* quarantine, or by the writer that lost its claim.
THEOREM RecordsRemovedForCause == Spec => RemovedForCause
<1>1. IInv /\ [Next]_vars =>
        [\A i \in Intents : Pending(i) /\ record'[i] = Absent =>
            \/ held[KeyOf[i]] = i
            \/ i \in quarantined'
            \/ \E w \in Writers : pc[w] = "withdraw" /\ intent[w] = i]_vars
    BY RecordGone DEF IInv
<1> QED
    BY <1>1, InductiveInvariant, PTL DEF Spec, RemovedForCause

-----------------------------------------------------------------------------
(* The settlement journal implements IntentJournal: a step of it changes   *)
(* one part of the abstract state, in the way one abstract action allows,  *)
(* or none.                                                                *)


OnRecord == {i \in Intents : Pending(i)}

\* Writing the record of an intent puts it on record, removing it takes it off.
LEMMA RecordSet ==
    ASSUME NEW i \in Intents, record \in [Intents -> Records \cup {Absent}], NEW r,
           record' = [record EXCEPT ![i] = r]
    PROVE  /\ r \in Records => OnRecord' = OnRecord \cup {i}
           /\ r = Absent => OnRecord' = OnRecord \ {i}
<1>1. \A j \in Intents : record'[j] = IF j = i THEN r ELSE record[j]
    OBVIOUS
<1>2. Absent \notin Records
    BY SettleQueueAssumption DEF Records
<1>3. ASSUME r \in Records PROVE OnRecord' = OnRecord \cup {i}
    BY <1>1, <1>2, <1>3 DEF OnRecord, Pending
<1>4. ASSUME r = Absent PROVE OnRecord' = OnRecord \ {i}
    BY <1>1, <1>4 DEF OnRecord, Pending
<1> QED
    BY <1>3, <1>4

\* A step that leaves the five parts of the abstract state alone is a stutter.
Same == UNCHANGED <<record, quarantined, takenOver, held, owed>>

LEMMA SameStutters == Same => UNCHANGED Journal!vars
    BY DEF Same, Journal!vars, Pending

\* What FinOps applies settles a free key, or changes nothing.
LEMMA AppliedStep ==
    ASSUME TypeOK, NEW i \in Intents, Apply(i),
           UNCHANGED <<record, quarantined, takenOver, owed>>
    PROVE  [Journal!Next]_(Journal!vars)
<1> KeyOf[i] \in Keys
    BY SettleQueueAssumption
<1>1. CASE held[KeyOf[i]] = None
    <2>1. held' = [held EXCEPT ![KeyOf[i]] = i]
        BY <1>1 DEF Apply, TypeOK
    <2>2. Journal!Settle(i)
        BY <1>1, <2>1 DEF Journal!Settle, Pending
    <2> QED
        BY <2>2 DEF Journal!Next
<1>2. CASE held[KeyOf[i]] # None
    <2>1. held' = held
        BY <1>2 DEF Apply, TypeOK
    <2> QED
        BY <2>1, SameStutters DEF Same
<1> QED
    BY <1>1, <1>2

\* A record that is written or changed is on record.
LEMMA WrittenStep ==
    ASSUME TypeOK, NEW i \in Intents, NEW r \in Records,
           record' = [record EXCEPT ![i] = r],
           UNCHANGED <<quarantined, takenOver, held, owed>>
    PROVE  [Journal!Next]_(Journal!vars)
<1>1. OnRecord' = OnRecord \cup {i}
    BY RecordSet DEF TypeOK
<1>2. Journal!Record(i)
    BY <1>1 DEF Journal!Record, OnRecord
<1> QED
    BY <1>2 DEF Journal!Next

\* A record is removed for an intent nobody needs to deliver any more.
LEMMA RemovedStep ==
    ASSUME TypeOK, NEW i \in Intents, Settled(i),
           record' = [record EXCEPT ![i] = Absent],
           UNCHANGED <<quarantined, takenOver, held, owed>>
    PROVE  [Journal!Next]_(Journal!vars)
<1>1. OnRecord' = OnRecord \ {i}
    BY RecordSet DEF TypeOK
<1>2. CASE Pending(i)
    <2>1. Journal!Remove(i)
        BY <1>1, <1>2 DEF Journal!Remove, Journal!Discharged, Journal!IsSettled, Settled, OnRecord
    <2> QED
        BY <2>1 DEF Journal!Next
<1>3. CASE ~Pending(i)
    <2>1. OnRecord' = OnRecord
        BY <1>1, <1>3 DEF OnRecord
    <2> QED
        BY <2>1 DEF Journal!vars, OnRecord
<1> QED
    BY <1>2, <1>3

\* The journal answers for an intent it has, or need not have.
LEMMA PromisedStep ==
    ASSUME TypeOK, NEW i \in Intents, Safe(i), owed' \in {owed, owed \cup {i}},
           UNCHANGED <<record, quarantined, takenOver, held>>
    PROVE  [Journal!Next]_(Journal!vars)
<1>1. CASE owed' = owed
    BY <1>1, SameStutters DEF Same
<1>2. CASE owed' = owed \cup {i}
    <2>1. Journal!Promise(i)
        BY <1>2 DEF Journal!Promise, Journal!Discharged, Journal!IsSettled, Safe, Kept, Pending
    <2> QED
        BY <2>1 DEF Journal!Next
<1> QED
    BY <1>1, <1>2

-----------------------------------------------------------------------------
(* The steps. *)

\* The steps of a settle call.
LEMMA SettleRefines ==
    ASSUME IInv, NEW w \in Writers, Start(w) \/ Settle(w)
    PROVE  [Journal!Next]_(Journal!vars)
<1> w \in Actors
    BY DEF Actors
<1> TypeOK
    BY DEF IInv
<1> CauseOf(w)
    BY DEF IInv, ForCause
<1>1. CASE Start(w)
    <2>1. Same
        BY <1>1 DEF Start, StartSettle, StartProcess, Same, files, finops, history
    <2> QED
        BY <2>1, SameStutters
<1>2. CASE ReadForRelease(w) \/ BackfillClaim(w)
    <2>1. Same
        BY <1>2 DEF ReadForRelease, BackfillClaim, Same, files, finops, history
    <2> QED
        BY <2>1, SameStutters
<1>3. CASE ReadClaim(w) \/ LinkClaim(w) \/ CheckRecord(w) \/ CheckBinds(w)
    <2>1. pc[w] \in {"claim", "link", "check", "binds"} /\ intent[w] \in Intents
        BY <1>3 DEF ReadClaim, LinkClaim, CheckRecord, CheckBinds, IInv, Working, WorkingOf
    <2>2. UNCHANGED <<record, quarantined, takenOver, held>>
        BY <1>3 DEF ReadClaim, LinkClaim, CheckRecord, CheckBinds, files, finops
    <2>3. CASE owed' = owed
        BY <2>2, <2>3, SameStutters DEF Same
    <2>4. CASE owed' # owed
        <3>1. owed' = owed \cup {intent[w]} /\ Safe(intent[w])
            <4>1. CASE CheckRecord(w)
                BY <2>4, <4>1 DEF CheckRecord, Journaled, Safe, Kept
            <4>2. CASE CheckBinds(w)
                BY <2>4, <4>2 DEF CheckBinds, Journaled, CauseOf
            <4>3. CASE ReadClaim(w) \/ LinkClaim(w)
                BY <2>4, <4>3 DEF ReadClaim, LinkClaim, Claimed, Journaled, CauseOf
            <4> QED
                BY <1>3, <4>1, <4>2, <4>3
        <3> QED
            BY <2>1, <2>2, <3>1, PromisedStep
    <2> QED
        BY <2>3, <2>4
<1>4. CASE WriteRecord(w)
    <2>1. intent[w] \in Intents
        BY <1>4 DEF WriteRecord, IInv, Working, WorkingOf
    <2>2. [error |-> "pre_send", due |-> FALSE] \in Records
        BY DEF Records
    <2>3. /\ record' = [record EXCEPT ![intent[w]] = [error |-> "pre_send", due |-> FALSE]]
          /\ UNCHANGED <<quarantined, takenOver, held, owed>>
        BY <1>4 DEF WriteRecord, finops, history
    <2> QED
        BY <2>1, <2>2, <2>3, WrittenStep
<1>5. CASE Withdraw(w)
    <2>1. intent[w] \in Intents
        BY <1>5 DEF Withdraw, IInv, Working, WorkingOf
    <2>2. Settled(intent[w])
        BY <1>5 DEF Withdraw, CauseOf
    <2>3. /\ record' = [record EXCEPT ![intent[w]] = Absent]
          /\ UNCHANGED <<quarantined, takenOver, held, owed>>
        BY <1>5 DEF Withdraw, finops, history
    <2> QED
        BY <2>1, <2>2, <2>3, RemovedStep
<1> QED
    BY <1>1, <1>2, <1>3, <1>4, <1>5 DEF Settle

\* The steps of a recovery pass.
LEMMA FlushRefines ==
    ASSUME IInv, NEW f \in Flushers, Flush(f)
    PROVE  [Journal!Next]_(Journal!vars)
<1> f \in Actors
    BY DEF Actors
<1>1. CASE Quarantine(f) /\ Pending(intent[f])
    <2>1. intent[f] \in Intents
        BY <1>1 DEF Quarantine, IInv, Working, WorkingOf
    <2>2. /\ record' = [record EXCEPT ![intent[f]] = Absent]
          /\ quarantined' = quarantined \cup {intent[f]}
          /\ UNCHANGED <<takenOver, held, owed>>
        BY <1>1 DEF Quarantine, finops, history
    <2>3. OnRecord' = OnRecord \ {intent[f]}
        BY <2>1, <2>2, RecordSet DEF IInv, TypeOK
    <2>4. Journal!SetAside(intent[f])
        BY <1>1, <2>1, <2>2, <2>3 DEF Journal!SetAside, OnRecord
    <2> QED
        BY <2>1, <2>4 DEF Journal!Next
<1>2. CASE Quarantine(f) /\ ~Pending(intent[f])
    <2>1. Same
        BY <1>2 DEF Quarantine, Same, finops, history
    <2> QED
        BY <2>1, SameStutters
<1>3. CASE StartFlush(f) \/ EndFlush(f) \/ \E i \in Intents : FlushItem(f, i)
    <2>1. Same
        BY <1>3 DEF StartFlush, EndFlush, FlushItem, Same, files, finops, history
    <2> QED
        BY <2>1, SameStutters
<1> QED
    BY <1>1, <1>2, <1>3 DEF Flush

\* The steps of a delivery.
LEMMA DeliverRefines ==
    ASSUME IInv, NEW a \in Actors, Deliver(a)
    PROVE  [Journal!Next]_(Journal!vars)
<1> TypeOK
    BY DEF IInv
<1> CauseOf(a)
    BY DEF IInv, ForCause
<1> LockedOf(a)
    BY DEF IInv, ClaimsLocked
<1> pc[a] \notin {"idle", "flush"} => intent[a] \in Intents
    BY DEF IInv, Working, WorkingOf
<1>1. CASE PostApplied(a) \/ PostAnswerLost(a)
    <2>1. /\ intent[a] \in Intents /\ Apply(intent[a])
          /\ UNCHANGED <<record, quarantined, takenOver, owed>>
        BY <1>1 DEF PostApplied, PostAnswerLost, files, history
    <2> QED
        BY <2>1, AppliedStep
<1>2. CASE PostFailed(a) \/ PostRefused(a) \/ LockClaims(a)
    <2>1. Same
        BY <1>2 DEF PostFailed, PostRefused, LockClaims, Same, files, finops, history
    <2> QED
        BY <2>1, SameStutters
<1>3. CASE AckRecord(a)
    <2>1. Settled(intent[a]) /\ intent[a] \in Intents
        BY <1>3 DEF AckRecord, CauseOf, Settled, KeyFor
    <2>2. CASE Pending(intent[a])
        <3>1. /\ record' = [record EXCEPT ![intent[a]] = Absent]
              /\ UNCHANGED <<quarantined, takenOver, held, owed>>
            BY <1>3, <2>2 DEF AckRecord, finops, history
        <3> QED
            BY <2>1, <3>1, RemovedStep
    <2>3. CASE ~Pending(intent[a])
        <3>1. Same
            BY <1>3, <2>3 DEF AckRecord, Same, finops, history
        <3> QED
            BY <3>1, SameStutters
    <2> QED
        BY <2>2, <2>3
<1>4. CASE RewriteRecord(a)
    <2> DEFINE r == IF a \in Writers THEN [error |-> "sender_unacked", due |-> TRUE]
                    ELSE [error |-> listing[a][intent[a]].error, due |-> FALSE]
    <2>1. r \in Records
        <3>1. CASE a \in Writers
            BY <3>1 DEF Records
        <3>2. CASE a \notin Writers
            <4>1. listing[a][intent[a]] \in Records
                BY <1>4, <3>2 DEF RewriteRecord, IInv, Working, WorkingOf, Actors
            <4> QED
                BY <3>2, <4>1 DEF Records
        <3> QED
            BY <3>1, <3>2
    <2>2. /\ intent[a] \in Intents
          /\ record' = [record EXCEPT ![intent[a]] = r]
          /\ UNCHANGED <<quarantined, takenOver, held, owed>>
        BY <1>4 DEF RewriteRecord, finops, history
    <2> HIDE DEF r
    <2> QED
        BY <2>1, <2>2, WrittenStep
<1>5. CASE RemoveClaim(a)
    <2>1. /\ takenOver' = takenOver \cup ({victim[a]} \ {intent[a]})
          /\ UNCHANGED <<record, quarantined, held, owed>>
          /\ victim[a] \in Intents
        BY <1>5 DEF RemoveClaim, finops, LockedOf
    <2>2. CASE victim[a] = intent[a]
        <3>1. takenOver' = takenOver
            BY <2>1, <2>2
        <3> QED
            BY <2>1, <3>1, SameStutters DEF Same
    <2>3. CASE victim[a] # intent[a]
        <3>1. Journal!Displace(victim[a])
            BY <2>1, <2>3 DEF Journal!Displace, Pending
        <3> QED
            BY <2>1, <3>1 DEF Journal!Next
    <2> QED
        BY <2>2, <2>3
<1> QED
    BY <1>1, <1>2, <1>3, <1>4, <1>5 DEF Deliver

\* Crashes, the network and the clock.
LEMMA RestRefines ==
    ASSUME IInv,
           \/ \E a \in Actors : Crash(a)
           \/ \E i \in Intents : LateArrival(i) \/ Elapse(i)
           \/ \E k \in Keys : Age(k)
           \/ UNCHANGED vars
    PROVE  [Journal!Next]_(Journal!vars)
<1> TypeOK
    BY DEF IInv
<1>1. CASE \/ \E a \in Actors : Crash(a)
           \/ \E k \in Keys : Age(k)
           \/ UNCHANGED vars
    <2>1. Same
        BY <1>1 DEF Crash, Age, Same, vars, files, finops, history
    <2> QED
        BY <2>1, SameStutters
<1>2. ASSUME NEW i \in Intents, LateArrival(i) PROVE [Journal!Next]_(Journal!vars)
    <2>1. Apply(i) /\ UNCHANGED <<record, quarantined, takenOver, owed>>
        BY <1>2 DEF LateArrival, files, history
    <2> QED
        BY <2>1, AppliedStep
<1>3. ASSUME NEW i \in Intents, Elapse(i) PROVE [Journal!Next]_(Journal!vars)
    <2> DEFINE r == [error |-> record[i].error, due |-> TRUE]
    <2>1. record[i] \in Records
        BY <1>3 DEF Elapse, Pending, TypeOK
    <2>2. r \in Records
        BY <2>1 DEF Records
    <2>3. /\ record' = [record EXCEPT ![i] = r]
          /\ UNCHANGED <<quarantined, takenOver, held, owed>>
        BY <1>3 DEF Elapse, TypeOK, finops, history
    <2> HIDE DEF r
    <2> QED
        BY <2>2, <2>3, WrittenStep
<1> QED
    BY <1>1, <1>2, <1>3

\* The journal starts as the abstract one does.
LEMMA InitRefines == Init => Journal!Init
    BY DEF Init, Journal!Init, Pending

\* SettleQueue implements IntentJournal: what enqueue, ack, release, the flusher,
\* crashes and takeovers do to the files never breaks the journal's promise.
THEOREM Implementation == Spec => ImplementsJournal
<1>1. Init => Journal!Init
    BY InitRefines
<1>2. IInv /\ [Next]_vars => [Journal!Next]_(Journal!vars)
    BY SettleRefines, FlushRefines, DeliverRefines, RestRefines DEF Next
<1> QED
    BY <1>1, <1>2, InductiveInvariant, PTL DEF Spec, ImplementsJournal, Journal!Spec
=============================================================================
