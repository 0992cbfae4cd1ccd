---------------------------- MODULE SettleQueue ----------------------------
(***************************************************************************)
(* The SDK's file-backed settlement journal (kazenai/spine/settle_queue.py)*)
(* shared by the processes of one host, and the two kinds of actor that    *)
(* work on it:                                                             *)
(*                                                                         *)
(*   writers   a settle call: journal the exact intent, POST it to FinOps, *)
(*             then ack the record or hand it to the flusher;              *)
(*   flushers  the recovery daemon of a process, or the CLI.               *)
(*                                                                         *)
(* One action is one file operation (or one request), because nothing but  *)
(* the two flock files orders the actors between those.  An intent stands  *)
(* for its fingerprint, a key for (organisation, destination, idempotency  *)
(* key): two intents with one key are a conflicting reuse of it.           *)
(***************************************************************************)
EXTENDS Naturals, FiniteSets

CONSTANTS
    Writers,         \* settle calls
    Flushers,        \* recovery daemons and CLI flushes
    Intents,         \* intent fingerprints
    Keys,            \* claim identities
    KeyOf,           \* the claim identity of each intent
    Foreign,         \* intents journaled for another FinOps than the flushers'
    None,            \* no intent, no actor
    Absent,          \* no such file
    ClaimTries,      \* turns of the loop in _acquire_claim (8 in the code)
    MaxCalls,        \* bound: settle calls each writer makes
    MaxCrashes,      \* bound: actors that die
    MaxAgeings,      \* bound: claims that outlive STALE_CLAIM_S
    PromptSenders    \* a send always ends within PRE_SEND_GRACE_S

ASSUME SettleQueueAssumption ==
    /\ KeyOf \in [Intents -> Keys]
    /\ Foreign \subseteq Intents
    /\ Writers \cap Flushers = {}
    /\ None \notin Intents \cup Writers \cup Flushers
    /\ Absent \notin [error : {"pre_send", "sender_unacked"}, due : BOOLEAN]
    /\ ClaimTries \in Nat \ {0}
    /\ MaxCalls \in Nat
    /\ MaxCrashes \in Nat
    /\ MaxAgeings \in Nat
    /\ PromptSenders \in BOOLEAN

Actors == Writers \cup Flushers

VARIABLES
    record,      \* pending/<fingerprint>.json
    claim,       \* claims/<identity>.claim
    stale,       \* the claim is older than STALE_CLAIM_S
    quarantined, \* intents whose record was moved to quarantine/
    claimsLock,  \* holder of claims/.lock
    flushLock,   \* holder of .flush.lock
    held,        \* FinOps: the intent it applied under each key
    late,        \* FinOps: requests still on the wire after the sender gave up
    pc,          \* where each actor is
    intent,      \* the intent it works on
    victim,      \* the fingerprint a claim removal expects to find
    wrote,       \* enqueue has written the record in this call
    tries,       \* turns of the _acquire_claim loop so far
    listing,     \* a flusher's list_pending(): the records, as it read them
    calls,       \* settle calls each writer has begun
    crashes,     \* actors that have died so far
    ageings,     \* claims that have gone stale so far
    owed,        \* history: intents some enqueue has returned a path for
    takenOver    \* history: intents whose claim another intent took over

files == <<record, claim, stale, quarantined>>
locks == <<claimsLock, flushLock>>
finops == <<held, late>>
locals == <<intent, victim, wrote, tries, listing>>
history == <<calls, crashes, ageings, owed, takenOver>>
vars == <<files, locks, finops, pc, locals, history>>

Records == [error : {"pre_send", "sender_unacked"}, due : BOOLEAN]

WriterPoints == {"idle", "claim", "link", "steal", "check", "write", "binds",
                 "withdraw", "send", "ack", "unclaim", "remove", "release",
                 "rewrite", "backfill"}
FlusherPoints == {"idle", "flush", "send", "ack", "unclaim", "remove",
                  "rewrite", "quarantine"}

TypeOK ==
    /\ record \in [Intents -> Records \cup {Absent}]
    /\ claim \in [Keys -> Intents \cup {None}]
    /\ stale \in [Keys -> BOOLEAN]
    /\ quarantined \subseteq Intents
    /\ claimsLock \in Actors \cup {None}
    /\ flushLock \in Flushers \cup {None}
    /\ held \in [Keys -> Intents \cup {None}]
    /\ late \subseteq Intents
    /\ pc \in [Actors -> WriterPoints \cup FlusherPoints]
    /\ intent \in [Actors -> Intents \cup {None}]
    /\ victim \in [Actors -> Intents \cup {None}]
    /\ wrote \in [Actors -> BOOLEAN]
    /\ tries \in [Actors -> 0..(ClaimTries - 1)]
    /\ listing \in [Flushers -> [Intents -> Records \cup {Absent}]]
    /\ calls \in [Writers -> 0..MaxCalls]
    /\ crashes \in 0..MaxCrashes
    /\ ageings \in 0..MaxAgeings
    /\ owed \subseteq Intents
    /\ takenOver \subseteq Intents

Init ==
    /\ record = [i \in Intents |-> Absent]
    /\ claim = [k \in Keys |-> None]
    /\ stale = [k \in Keys |-> FALSE]
    /\ quarantined = {}
    /\ claimsLock = None
    /\ flushLock = None
    /\ held = [k \in Keys |-> None]
    /\ late = {}
    /\ pc = [a \in Actors |-> "idle"]
    /\ intent = [a \in Actors |-> None]
    /\ victim = [a \in Actors |-> None]
    /\ wrote = [a \in Actors |-> FALSE]
    /\ tries = [a \in Actors |-> 0]
    /\ listing = [f \in Flushers |-> [i \in Intents |-> Absent]]
    /\ calls = [w \in Writers |-> 0]
    /\ crashes = 0
    /\ ageings = 0
    /\ owed = {}
    /\ takenOver = {}

-----------------------------------------------------------------------------

GoTo(a, point) == pc' = [pc EXCEPT ![a] = point]

Pending(i) == record[i] # Absent

KeyFor(a) == KeyOf[intent[a]]

\* A call is over: enqueue raised, or the sender is done with the record.
Return(w) ==
    /\ GoTo(w, "idle")
    /\ intent' = [intent EXCEPT ![w] = None]
    /\ victim' = [victim EXCEPT ![w] = None]
    /\ wrote' = [wrote EXCEPT ![w] = FALSE]
    /\ tries' = [tries EXCEPT ![w] = 0]
    /\ UNCHANGED listing

\* The flusher is done with one item of its listing.
NextItem(f) ==
    /\ GoTo(f, "flush")
    /\ intent' = [intent EXCEPT ![f] = None]
    /\ victim' = [victim EXCEPT ![f] = None]
    /\ listing' = [listing EXCEPT ![f][intent[f]] = Absent]
    /\ UNCHANGED <<wrote, tries>>

Finish(a) == IF a \in Writers THEN Return(a) ELSE NextItem(a)

-----------------------------------------------------------------------------
(* enqueue: claim the key, write the record, check that the claim still binds. *)

StartSettle(w, i) ==
    /\ pc[w] = "idle"
    /\ calls[w] < MaxCalls
    /\ calls' = [calls EXCEPT ![w] = @ + 1]
    /\ intent' = [intent EXCEPT ![w] = i]
    /\ GoTo(w, "claim")
    /\ UNCHANGED <<files, locks, finops, victim, wrote, tries, listing,
                   crashes, ageings, owed, takenOver>>

\* SettleIntentConflict: nothing is journaled, or what was written is withdrawn.
Conflict(w) ==
    IF wrote[w]
    THEN GoTo(w, "withdraw") /\ UNCHANGED locals
    ELSE Return(w)

\* Mutant of Again: one turn too many.
AgainOffByOne(w) ==
    IF tries[w] < ClaimTries
    THEN /\ tries' = [tries EXCEPT ![w] = @ + 1]
         /\ GoTo(w, "claim")
         /\ UNCHANGED <<intent, victim, wrote, listing>>
    ELSE Conflict(w)

\* The loop of _acquire_claim goes round again, at most ClaimTries times.
Again(w) ==
    IF tries[w] + 1 < ClaimTries
    THEN /\ tries' = [tries EXCEPT ![w] = @ + 1]
         /\ GoTo(w, "claim")
         /\ UNCHANGED <<intent, victim, wrote, listing>>
    ELSE Conflict(w)

\* enqueue returns the path: from here on the queue owes the intent.
Journaled(w) ==
    /\ owed' = owed \cup {intent[w]}
    /\ GoTo(w, "send")

Claimed(w) ==
    IF wrote[w] THEN Journaled(w) ELSE GoTo(w, "check") /\ UNCHANGED owed

\* A claim whose intent has no pending record, older than STALE_CLAIM_S.  It is
\* only a hint, taken in the same step as the claim is read: the removal that
\* follows looks at the claim again.
Orphaned(k) == ~Pending(claim[k]) /\ stale[k]

ReadClaim(w) ==
    /\ pc[w] = "claim"
    /\ LET k == KeyFor(w) IN
       \/ /\ claim[k] = intent[w]
          /\ Claimed(w)
          /\ UNCHANGED locals
       \/ /\ claim[k] = None
          /\ GoTo(w, "link")
          /\ UNCHANGED <<locals, owed>>
       \/ /\ claim[k] \notin {None, intent[w]}
          /\ Orphaned(k)
          /\ victim' = [victim EXCEPT ![w] = claim[k]]
          /\ GoTo(w, "steal")
          /\ UNCHANGED <<intent, wrote, tries, listing, owed>>
       \/ /\ claim[k] \notin {None, intent[w]}
          /\ ~Orphaned(k)
          /\ Conflict(w)
          /\ UNCHANGED owed
    /\ UNCHANGED <<files, locks, finops, calls, crashes, ageings, takenOver>>

\* os.link publishes the claim, or fails because there is one.
LinkClaim(w) ==
    /\ pc[w] = "link"
    /\ \/ /\ claim[KeyFor(w)] = None
          /\ claim' = [claim EXCEPT ![KeyFor(w)] = intent[w]]
          /\ stale' = [stale EXCEPT ![KeyFor(w)] = FALSE]
          /\ Claimed(w)
          /\ UNCHANGED locals
       \/ /\ claim[KeyFor(w)] # None
          /\ Again(w)
          /\ UNCHANGED <<claim, stale, owed>>
    /\ UNCHANGED <<record, quarantined, locks, finops, calls, crashes, ageings, takenOver>>

\* A record of the same intent is kept as it is, whatever its state.
CheckRecord(w) ==
    /\ pc[w] = "check"
    /\ IF Pending(intent[w]) THEN Journaled(w)
                             ELSE GoTo(w, "write") /\ UNCHANGED owed
    /\ UNCHANGED <<files, locks, finops, locals, calls, crashes, ageings, takenOver>>

WriteRecord(w) ==
    /\ pc[w] = "write"
    /\ record' = [record EXCEPT ![intent[w]] =
                    [error |-> "pre_send", due |-> FALSE]]
    /\ wrote' = [wrote EXCEPT ![w] = TRUE]
    /\ GoTo(w, "binds")
    /\ UNCHANGED <<claim, stale, quarantined, locks, finops, intent, victim,
                   tries, listing, history>>

\* The claim may have been released or taken over while the record was written.
CheckBinds(w) ==
    /\ pc[w] = "binds"
    /\ \/ /\ claim[KeyFor(w)] = intent[w]
          /\ Journaled(w)
          /\ UNCHANGED tries
       \/ /\ claim[KeyFor(w)] # intent[w]
          /\ tries' = [tries EXCEPT ![w] = 0]
          /\ GoTo(w, "claim")
          /\ UNCHANGED owed
    /\ UNCHANGED <<files, locks, finops, intent, victim, wrote, listing,
                   calls, crashes, ageings, takenOver>>

\* ack(release_claim=False): another intent holds the claim.
Withdraw(w) ==
    /\ pc[w] = "withdraw"
    /\ record' = [record EXCEPT ![intent[w]] = Absent]
    /\ Return(w)
    /\ UNCHANGED <<claim, stale, quarantined, locks, finops, history>>

-----------------------------------------------------------------------------
(* Claim removal, under claims/.lock: a stale takeover, or the release after *)
(* an ack.  The removal expects to find the fingerprint victim[a].           *)

Unclaimed(a) == IF victim[a] = intent[a] THEN Finish(a) ELSE Again(a)

\* Mutant of LockClaims: the check and the removal are not under one lock.
LockClaimsUnlocked(a) ==
    /\ pc[a] \in {"steal", "unclaim"}
    /\ \/ /\ claim[KeyFor(a)] = victim[a]
          /\ claimsLock' = a
          /\ GoTo(a, "remove")
          /\ UNCHANGED locals
       \/ /\ claim[KeyFor(a)] # victim[a]
          /\ Unclaimed(a)
          /\ UNCHANGED claimsLock
    /\ UNCHANGED <<files, flushLock, finops, history>>

LockClaims(a) ==
    /\ pc[a] \in {"steal", "unclaim"}
    /\ claimsLock = None
    /\ \/ /\ claim[KeyFor(a)] = victim[a]
          /\ claimsLock' = a
          /\ GoTo(a, "remove")
          /\ UNCHANGED locals
       \/ /\ claim[KeyFor(a)] # victim[a]
          /\ Unclaimed(a)
          /\ UNCHANGED claimsLock
    /\ UNCHANGED <<files, flushLock, finops, history>>

RemoveClaim(a) ==
    /\ pc[a] = "remove"
    /\ claim' = [claim EXCEPT ![KeyFor(a)] = None]
    /\ stale' = [stale EXCEPT ![KeyFor(a)] = FALSE]
    /\ claimsLock' = None
    /\ takenOver' = takenOver \cup ({victim[a]} \ {intent[a]})
    /\ Unclaimed(a)
    /\ UNCHANGED <<record, quarantined, flushLock, finops, calls, crashes,
                   ageings, owed>>

-----------------------------------------------------------------------------
(* Delivery: one POST, then ack, hand over, schedule a retry or quarantine. *)

Unacked(a) == GoTo(a, IF a \in Writers THEN "release" ELSE "rewrite")

Accepts(i) == held[KeyOf[i]] \in {None, i}

Apply(i) == held' = [held EXCEPT ![KeyOf[i]] = IF @ = None THEN i ELSE @]

\* FinOps applied the intent, or already had: "applied" or "duplicate".
PostApplied(a) ==
    /\ pc[a] = "send"
    /\ Accepts(intent[a])
    /\ Apply(intent[a])
    /\ GoTo(a, "ack")
    /\ UNCHANGED <<files, locks, late, locals, history>>

\* FinOps applied the intent and the answer was lost.
PostAnswerLost(a) ==
    /\ pc[a] = "send"
    /\ Accepts(intent[a])
    /\ Apply(intent[a])
    /\ Unacked(a)
    /\ UNCHANGED <<files, locks, late, locals, history>>

\* Mutant of PostFailed: any answer, "pending" too, counts as an ack.
PostFailedAcked(a) ==
    /\ pc[a] = "send"
    /\ late' \in {late, late \cup {intent[a]}}
    /\ GoTo(a, "ack")
    /\ UNCHANGED <<files, locks, held, locals, history>>

\* A timeout, a broken connection, a 5xx/408/429 or "pending": nothing was
\* applied, but the request may still be on the wire.  A flusher that has no
\* FinOps URL schedules its retry the same way, with nothing on the wire.
PostFailed(a) ==
    /\ pc[a] = "send"
    /\ late' \in {late, late \cup {intent[a]}}
    /\ Unacked(a)
    /\ UNCHANGED <<files, locks, held, locals, history>>

\* Mutant of PostRefused: a live call drops the record of a refused intent.
PostRefusedDropped(a) ==
    /\ pc[a] = "send"
    /\ held[KeyFor(a)] # intent[a]
    /\ GoTo(a, IF a \in Writers THEN "ack" ELSE "quarantine")
    /\ UNCHANGED <<files, locks, finops, locals, history>>

\* A 4xx for good: the key is settled with another intent, or FinOps does not
\* take this one.  Only recovery (raise_on_permanent) treats it differently.
PostRefused(a) ==
    /\ pc[a] = "send"
    /\ held[KeyFor(a)] # intent[a]
    /\ GoTo(a, IF a \in Writers THEN "release" ELSE "quarantine")
    /\ UNCHANGED <<files, locks, finops, locals, history>>

LateArrival(i) ==
    /\ i \in late
    /\ late' = late \ {i}
    /\ Apply(i)
    /\ UNCHANGED <<files, locks, pc, locals, history>>

\* ack: remove the record, then its claim if it still binds this intent.
AckRecord(a) ==
    /\ pc[a] = "ack"
    /\ \/ /\ Pending(intent[a])
          /\ record' = [record EXCEPT ![intent[a]] = Absent]
          /\ victim' = [victim EXCEPT ![a] = intent[a]]
          /\ GoTo(a, "unclaim")
          /\ UNCHANGED <<intent, wrote, tries, listing>>
       \/ /\ ~Pending(intent[a])
          /\ Finish(a)
          /\ UNCHANGED record
    /\ UNCHANGED <<claim, stale, quarantined, locks, finops, history>>

\* release reads the record: only one still marked pre_send is handed over.
ReadForRelease(w) ==
    /\ pc[w] = "release"
    /\ IF Pending(intent[w]) /\ record[intent[w]].error = "pre_send"
       THEN GoTo(w, "rewrite") /\ UNCHANGED locals
       ELSE Return(w)
    /\ UNCHANGED <<files, locks, finops, history>>

\* release and schedule_retry replace the file from what they read earlier,
\* whether or not it is still there.
RewriteRecord(a) ==
    /\ pc[a] = "rewrite"
    /\ record' = [record EXCEPT ![intent[a]] =
                    IF a \in Writers
                    THEN [error |-> "sender_unacked", due |-> TRUE]
                    ELSE [error |-> listing[a][intent[a]].error, due |-> FALSE]]
    /\ Finish(a)
    /\ UNCHANGED <<claim, stale, quarantined, locks, finops, history>>

-----------------------------------------------------------------------------
(* The flusher: one pass over the records, under .flush.lock. *)

\* Mutant of StartFlush: passes are not serialised.
StartFlushUnlocked(f) ==
    /\ pc[f] = "idle"
    /\ flushLock' = f
    /\ listing' = [listing EXCEPT ![f] = record]
    /\ GoTo(f, "flush")
    /\ UNCHANGED <<files, claimsLock, finops, intent, victim, wrote, tries, history>>

StartFlush(f) ==
    /\ pc[f] = "idle"
    /\ flushLock = None
    /\ flushLock' = f
    /\ listing' = [listing EXCEPT ![f] = record]
    /\ GoTo(f, "flush")
    /\ UNCHANGED <<files, claimsLock, finops, intent, victim, wrote, tries, history>>

\* The writer that journaled the record is still before the end of its send.
InItsSend(i) == \E w \in Writers : intent[w] = i /\ wrote[w]

\* The next_attempt_at of a record can pass: the grace of a send, or a backoff.
CanElapse(i) == PromptSenders => ~InItsSend(i)

\* The item is skipped unless its next_attempt_at, as it was read, has passed.
FlushItem(f, i) ==
    /\ pc[f] = "flush"
    /\ listing[f][i] # Absent
    /\ \/ /\ listing[f][i].due \/ CanElapse(i)
          /\ intent' = [intent EXCEPT ![f] = i]
          /\ GoTo(f, IF i \in Foreign THEN "quarantine" ELSE "send")
          /\ UNCHANGED listing
       \/ /\ ~listing[f][i].due
          /\ listing' = [listing EXCEPT ![f][i] = Absent]
          /\ UNCHANGED <<intent, pc>>
    /\ UNCHANGED <<files, locks, finops, victim, wrote, tries, history>>

\* _quarantine moves the file aside and leaves the claim where it is.
Quarantine(f) ==
    /\ pc[f] = "quarantine"
    /\ \/ /\ Pending(intent[f])
          /\ record' = [record EXCEPT ![intent[f]] = Absent]
          /\ quarantined' = quarantined \cup {intent[f]}
       \/ /\ ~Pending(intent[f])
          /\ UNCHANGED <<record, quarantined>>
    /\ NextItem(f)
    /\ UNCHANGED <<claim, stale, locks, finops, history>>

EndFlush(f) ==
    /\ pc[f] = "flush"
    /\ \A i \in Intents : listing[f][i] = Absent
    /\ flushLock' = None
    /\ GoTo(f, "idle")
    /\ UNCHANGED <<files, claimsLock, finops, locals, history>>

-----------------------------------------------------------------------------
(* Time, processes that start, and processes that die. *)

Elapse(i) ==
    /\ Pending(i)
    /\ ~record[i].due
    /\ CanElapse(i)
    /\ record' = [record EXCEPT ![i] = [error |-> @.error, due |-> TRUE]]
    /\ UNCHANGED <<claim, stale, quarantined, locks, finops, pc, locals, history>>

Age(k) ==
    /\ claim[k] # None
    /\ ~stale[k]
    /\ ageings < MaxAgeings
    /\ ageings' = ageings + 1
    /\ stale' = [stale EXCEPT ![k] = TRUE]
    /\ UNCHANGED <<record, claim, quarantined, locks, finops, pc, locals,
                   calls, crashes, owed, takenOver>>

\* A starting process lists the pending records, and claims for one that has
\* none.  Records are published whole, so none is ever unreadable.
StartProcess(w, i) ==
    /\ pc[w] = "idle"
    /\ Pending(i)
    /\ claim[KeyOf[i]] = None
    /\ intent' = [intent EXCEPT ![w] = i]
    /\ GoTo(w, "backfill")
    /\ UNCHANGED <<files, locks, finops, victim, wrote, tries, listing, history>>

BackfillClaim(w) ==
    /\ pc[w] = "backfill"
    /\ \/ /\ claim[KeyFor(w)] = None
          /\ claim' = [claim EXCEPT ![KeyFor(w)] = intent[w]]
          /\ stale' = [stale EXCEPT ![KeyFor(w)] = FALSE]
       \/ /\ claim[KeyFor(w)] # None
          /\ UNCHANGED <<claim, stale>>
    /\ Return(w)
    /\ UNCHANGED <<record, quarantined, locks, finops, history>>

\* Mutant of Crash: .flush.lock outlives its holder, as a pid file would.
CrashKeepsLock(a) ==
    /\ pc[a] # "idle"
    /\ crashes < MaxCrashes
    /\ crashes' = crashes + 1
    /\ claimsLock' = IF claimsLock = a THEN None ELSE claimsLock
    /\ late' \in IF pc[a] = "send" THEN {late, late \cup {intent[a]}} ELSE {late}
    /\ GoTo(a, "idle")
    /\ intent' = [intent EXCEPT ![a] = None]
    /\ victim' = [victim EXCEPT ![a] = None]
    /\ wrote' = [wrote EXCEPT ![a] = FALSE]
    /\ tries' = [tries EXCEPT ![a] = 0]
    /\ listing' = [f \in Flushers |->
                     IF f = a THEN [i \in Intents |-> Absent] ELSE listing[f]]
    /\ UNCHANGED <<files, flushLock, held, calls, ageings, owed, takenOver>>

\* An actor dies: the kernel drops its flocks, the files stay as they are.
Crash(a) ==
    /\ pc[a] # "idle"
    /\ crashes < MaxCrashes
    /\ crashes' = crashes + 1
    /\ claimsLock' = IF claimsLock = a THEN None ELSE claimsLock
    /\ flushLock' = IF flushLock = a THEN None ELSE flushLock
    /\ late' \in IF pc[a] = "send" THEN {late, late \cup {intent[a]}} ELSE {late}
    /\ GoTo(a, "idle")
    /\ intent' = [intent EXCEPT ![a] = None]
    /\ victim' = [victim EXCEPT ![a] = None]
    /\ wrote' = [wrote EXCEPT ![a] = FALSE]
    /\ tries' = [tries EXCEPT ![a] = 0]
    /\ listing' = [f \in Flushers |->
                     IF f = a THEN [i \in Intents |-> Absent] ELSE listing[f]]
    /\ UNCHANGED <<files, held, calls, ageings, owed, takenOver>>

-----------------------------------------------------------------------------

Start(w) == \E i \in Intents : StartSettle(w, i) \/ StartProcess(w, i)

Settle(w) ==
    \/ ReadClaim(w) \/ LinkClaim(w) \/ CheckRecord(w) \/ WriteRecord(w)
    \/ CheckBinds(w) \/ Withdraw(w) \/ ReadForRelease(w) \/ BackfillClaim(w)

Flush(f) ==
    \/ StartFlush(f) \/ EndFlush(f) \/ Quarantine(f)
    \/ \E i \in Intents : FlushItem(f, i)

Deliver(a) ==
    \/ PostApplied(a) \/ PostAnswerLost(a) \/ PostFailed(a) \/ PostRefused(a)
    \/ AckRecord(a) \/ RewriteRecord(a) \/ LockClaims(a) \/ RemoveClaim(a)

Next ==
    \/ \E w \in Writers : Start(w) \/ Settle(w)
    \/ \E f \in Flushers : Flush(f)
    \/ \E a \in Actors : Deliver(a) \/ Crash(a)
    \/ \E i \in Intents : LateArrival(i) \/ Elapse(i)
    \/ \E k \in Keys : Age(k)

Spec == Init /\ [][Next]_vars

\* FinOps gives a final answer to the request that is now on its way.
Answered(i) ==
    \E f \in Flushers : intent[f] = i /\ (PostApplied(f) \/ PostRefused(f))

\* Threads run: a call that began ends, the daemon's loop comes round every
\* five seconds, flock wakes its waiters, the clock moves on.  FinOps is not
\* always there, but a record retried for ever is answered at last.
Fairness ==
    /\ \A w \in Writers : WF_vars(Settle(w))
    /\ \A f \in Flushers : WF_vars(Flush(f))
    /\ \A a \in Actors : WF_vars(Deliver(a)) /\ SF_vars(LockClaims(a))
    /\ \A i \in Intents : WF_vars(Elapse(i)) /\ SF_vars(Answered(i))

FairSpec == Spec /\ Fairness

-----------------------------------------------------------------------------

Kept(i) == Pending(i) \/ held[KeyOf[i]] = i \/ i \in quarantined

\* An intent whose enqueue returned is not lost: its record is pending, or
\* FinOps holds the intent, or the record waits in quarantine for a person.
\* Only a takeover of its claim excuses it.
NoLostIntent == \A i \in owed : Kept(i) \/ i \in takenOver

\* With a flusher running, every intent whose enqueue returned is settled at
\* last, whatever was lost, refused or cut short on the way, or is set aside.
EventuallySettled ==
    \A i \in Intents :
        i \in owed ~> \/ held[KeyOf[i]] = i
                      \/ i \in quarantined
                      \/ i \in takenOver

\* Whoever is about to remove a claim removes the one it checked: neither a
\* takeover nor a release after an ack drops the claim of a third intent.
RemovalIsExact ==
    \A a \in Actors : pc[a] = "remove" => claim[KeyFor(a)] = victim[a]

\* Two recovery passes never run at once, also when one flusher was killed.
OneFlusher ==
    \A f, g \in Flushers : pc[f] # "idle" /\ pc[g] # "idle" => f = g

\* A record leaves pending/ only when FinOps holds exactly that intent, or for
\* quarantine, or when its own writer lost the claim to another intent.
RemovedForCause ==
    [][\A i \in Intents : Pending(i) /\ record'[i] = Absent =>
          \/ held[KeyOf[i]] = i
          \/ i \in quarantined'
          \/ \E w \in Writers : pc[w] = "withdraw" /\ intent[w] = i]_vars

\* The journal keeps the promise of IntentJournal: its record, claim, quarantine
\* and FinOps steps are that specification's, and every other step changes nothing
\* of it, in whatever order writers, flushers, crashes and late requests come.
Journal == INSTANCE IntentJournal WITH
    onRecord <- {i \in Intents : Pending(i)},
    aside <- quarantined,
    displaced <- takenOver,
    settled <- held,
    promised <- owed

ImplementsJournal == Journal!Spec

=============================================================================
