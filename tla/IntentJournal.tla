---------------------------- MODULE IntentJournal ----------------------------
(***************************************************************************)
(* What the settlement journal promises, without its files, claims, locks  *)
(* and actors: once enqueue has returned, an intent stays on record until  *)
(* FinOps holds it, a person has to look at it, or another intent took     *)
(* over its key; and each key is settled once.  SettleQueue implements it. *)
(***************************************************************************)
CONSTANTS
    Intents,    \* intent fingerprints
    Keys,       \* claim identities
    KeyOf,      \* the claim identity of each intent
    None        \* no intent

VARIABLES
    onRecord,   \* intents with a pending record
    aside,      \* intents set aside for a person
    displaced,  \* intents whose key another intent took over
    settled,    \* the intent FinOps holds under each key
    promised    \* intents the journal answers for

vars == <<onRecord, aside, displaced, settled, promised>>

Init ==
    /\ onRecord = {}
    /\ aside = {}
    /\ displaced = {}
    /\ settled = [k \in Keys |-> None]
    /\ promised = {}

IsSettled(i) == settled[KeyOf[i]] = i

\* An intent nobody needs to deliver any more.
Discharged(i) == IsSettled(i) \/ i \in displaced

\* A record is written, for the first time or again.
Record(i) ==
    /\ onRecord' = onRecord \cup {i}
    /\ UNCHANGED <<aside, displaced, settled, promised>>

\* The journal answers for an intent only if it has it or need not have it.
Promise(i) ==
    /\ i \in onRecord \cup aside \/ Discharged(i)
    /\ promised' = promised \cup {i}
    /\ UNCHANGED <<onRecord, aside, displaced, settled>>

\* FinOps applies an intent, once for each key.
Settle(i) ==
    /\ settled[KeyOf[i]] = None
    /\ settled' = [settled EXCEPT ![KeyOf[i]] = i]
    /\ UNCHANGED <<onRecord, aside, displaced, promised>>

\* A record goes only when nobody needs it.
Remove(i) ==
    /\ i \in onRecord /\ Discharged(i)
    /\ onRecord' = onRecord \ {i}
    /\ UNCHANGED <<aside, displaced, settled, promised>>

SetAside(i) ==
    /\ i \in onRecord
    /\ onRecord' = onRecord \ {i}
    /\ aside' = aside \cup {i}
    /\ UNCHANGED <<displaced, settled, promised>>

Displace(i) ==
    /\ displaced' = displaced \cup {i}
    /\ UNCHANGED <<onRecord, aside, settled, promised>>

Next == \E i \in Intents :
    Record(i) \/ Promise(i) \/ Settle(i) \/ Remove(i) \/ SetAside(i) \/ Displace(i)

Spec == Init /\ [][Next]_vars
=============================================================================
