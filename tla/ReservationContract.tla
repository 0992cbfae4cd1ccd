------------------------ MODULE ReservationContract ------------------------
(***************************************************************************)
(* What a metered call promises about its reservation, however it is made  *)
(* (monitored, guarded, as an attempt of the gateway) and whatever is      *)
(* between the call and FinOps (journal files, hooks, scopes, flushers,    *)
(* cancellations, crashes):                                                *)
(*                                                                         *)
(*  - a call has one outcome, and FinOps settles its reservation at that   *)
(*    outcome, once and for good, and only if the outcome is known and the *)
(*    reservation was started;                                             *)
(*  - FinOps takes an outcome for unknown only when the call is done, and  *)
(*    cancels only the reservation of a call that never runs;              *)
(*  - a call is over only when FinOps knows how it ended or there is       *)
(*    evidence of it (a record to be sent, or set aside for a person), and *)
(*    such evidence goes only when FinOps knows.                           *)
(*                                                                         *)
(* MeteredCall, GuardedCall and Gateway implement it.                      *)
(***************************************************************************)
CONSTANTS
    Calls,      \* metered calls
    Amounts,    \* what a call may cost
    Unknown     \* no amount

VARIABLES
    account,    \* FinOps: the state of the reservation of each call
    amount,     \* FinOps: what each reservation is settled at
    ran,        \* calls that reached the provider
    done,       \* those whose outcome is there
    cost,       \* what it is
    told,       \* calls whose outcome FinOps knows, or is evident
    over        \* calls that have ended with a reservation

vars == <<account, amount, ran, done, cost, told, over>>

Init ==
    /\ account = [c \in Calls |-> "none"]
    /\ amount = [c \in Calls |-> Unknown]
    /\ ran = {}
    /\ done = {}
    /\ cost = [c \in Calls |-> Unknown]
    /\ told = {}
    /\ over = {}

-----------------------------------------------------------------------------
(* FinOps. *)

Becomes(c, state) == account' = [account EXCEPT ![c] = state]

Reserves(c) ==
    /\ account[c] = "none" /\ Becomes(c, "reserved")
    /\ UNCHANGED amount

Starts(c) ==
    /\ account[c] = "reserved" /\ Becomes(c, "in_flight")
    /\ UNCHANGED amount

Doubts(c) ==
    /\ account[c] = "in_flight" /\ Becomes(c, "pending_reconciliation")
    /\ c \in done
    /\ UNCHANGED amount

Settles(c) ==
    /\ account[c] \in {"in_flight", "pending_reconciliation"} /\ Becomes(c, "settled")
    /\ c \in done /\ cost[c] # Unknown
    /\ amount' = [amount EXCEPT ![c] = cost[c]]

Cancels(c) ==
    /\ account[c] = "reserved" /\ Becomes(c, "cancelled_before_call")
    /\ c \notin ran
    /\ UNCHANGED amount

-----------------------------------------------------------------------------
(* The call. *)

Runs(c) ==
    /\ account[c] # "cancelled_before_call"
    /\ ran' = ran \cup {c}
    /\ UNCHANGED <<done, cost>>

Finishes(c) ==
    /\ c \in ran \ done
    /\ done' = done \cup {c}
    /\ \E usd \in Amounts \cup {Unknown} : cost' = [cost EXCEPT ![c] = usd]
    /\ UNCHANGED ran

-----------------------------------------------------------------------------
\* In one step FinOps and the call may both move, and the call may end if its
\* outcome is then evident.
Next == \E c \in Calls :
    /\ \/ Reserves(c) \/ Starts(c) \/ Doubts(c) \/ Settles(c) \/ Cancels(c)
       \/ UNCHANGED <<account, amount>>
    /\ Runs(c) \/ Finishes(c) \/ UNCHANGED <<ran, done, cost>>
    /\ told \subseteq told'
    /\ over' \in {over, over \cup ({c} \cap done' \cap told')}

Spec == Init /\ [][Next]_vars
=============================================================================
