------------------------- MODULE MeteredCallProofs -------------------------
(***************************************************************************)
(* What concurrent metered calls owe FinOps is right for any number of     *)
(* calls, amounts and bounds, and whatever the local cap: a call is started*)
(* before it is dispatched, settled at what it cost, and has left evidence *)
(* when it ends.  And the calls together keep the cap.  It implements the  *)
(* contract of reservations.                                               *)
(*                                                                         *)
(* Calls meet at the budget and the journal only, and what is claimed of   *)
(* one call speaks of its own intents.  That part of the invariant is      *)
(* local: CallOK(c) for each call c, with what is typed.  A step of another*)
(* call leaves it alone (Others, Framed), a step of c keeps it (OwnAdvance,*)
(* OwnDisturb), and so does the delivery of a journaled intent (FlushStep).*)
(* The budget is a sum over the calls (BudgetOK), of which a step changes  *)
(* one summand (BudgetShape, OneBudget).                                   *)
(***************************************************************************)
EXTENDS MeteredCall, FiniteSetTheorems, TLAPS

-----------------------------------------------------------------------------
(* The inductive invariant. *)

Before == {"new", "reserve", "start", "startSent"}

\* Until the dispatch nothing is known, and until the reservation none is held.
FreshOK(c) ==
    /\ at[c] \in Before => c \notin dispatched
    /\ at[c] \in {"new", "reserve"} => c \notin reserved
    /\ at[c] \in Before \cup {"provider", "denied"} => cost[c] = Unknown

\* What a call settles is its cost, or is not known.
AmountOK(c) ==
    /\ amount[c] \in {cost[c], Unknown}
    /\ at[c] \in {"reconcile", "reconcileSent"} => amount[c] # Unknown
    /\ \A i \in journal : i.call = c /\ i.event = "usage_known" =>
         i.amount = cost[c] /\ i.amount # Unknown

\* What FinOps has of the call.
LedgerOK(c) ==
    /\ c \in reserved => ledger[c] # "none"
    /\ ledger[c] = "settled" => Known(c) /\ settled[c] = cost[c]
    /\ c \in dispatched \cap reserved /\ mode[c].strict => ledger[c] # "reserved"

\* A call that is done after its dispatch has told FinOps; one whose last
\* signal is on its way has it on record, if FinOps has not got it.
ToldOK(c) ==
    /\ c \in dispatched \cap reserved /\ at[c] \in Ended \cup {"record"} => Told(c)
    /\ c \in reserved /\ at[c] \in {"reconcileSent", "markSent"} =>
         Signal(c) \in journal \/ Resolved(c) \/ c \in aside

CallOK(c) == FreshOK(c) /\ AmountOK(c) /\ LedgerOK(c) /\ ToldOK(c)

\* The window holds no more than the calls that returned.
Returned == {c \in Calls : at[c] = "returned"}
WindowOK == recent <= Cardinality(Returned)

\* What each call holds, what it has added to what is spent, and by how much
\* that is more than it held.
HoldOf == [c \in Calls |-> IF Holding(c) THEN held[c] ELSE 0]
SpentOf == [c \in Calls |-> IF at[c] = "returned" /\ Known(c) THEN cost[c] ELSE 0]
ExcessOf == [c \in Calls |-> IF at[c] = "returned" THEN Excess(c) ELSE 0]

\* The counters of Enforcement are the totals, and only recorded costs exceed the cap.
BudgetOK ==
    /\ pending = Total(HoldOf, Calls)
    /\ spent = Total(SpentOf, Calls)
    /\ spent + pending <= Cap + Total(ExcessOf, Calls)

\* The types, but for the window.
States == {"none", "reserved", "in_flight", "settled", "pending_reconciliation"}

Typed ==
    /\ mode \in [Calls -> Modes]
    /\ at \in [Calls -> {"new"} \cup InCall \cup Ended]
    /\ held \in [Calls -> Projections \cup {0}]
    /\ reserved \subseteq Calls
    /\ cost \in [Calls -> Amounts]
    /\ amount \in [Calls -> Amounts]
    /\ leaving \subseteq Calls
    /\ pending \in Nat
    /\ spent \in Nat
    /\ recent \in Nat
    /\ journal \subseteq Intents
    /\ aside \subseteq Calls
    /\ ledger \in [Calls -> States]
    /\ settled \in [Calls -> Amounts]
    /\ dispatched \subseteq Calls
    /\ unjournaled \subseteq Calls
    /\ cancels \in 0..MaxCancels
    /\ faults \in 0..MaxFaults

IInv ==
    /\ Typed
    /\ WindowOK
    /\ BudgetOK
    /\ \A c \in Calls : CallOK(c)

-----------------------------------------------------------------------------
(* Sums.  That the recursion of Total has a solution, and every fact about *)
(* sums after it, is by the least number of summands for which it fails.   *)

\* A set of numbers has a least one.
LEMMA LeastOf ==
    ASSUME NEW S \in SUBSET Nat, S # {}
    PROVE  \E i \in S : \A j \in S : i <= j
<1>. DEFINE R == OpToRel(<, Nat)
<1>1. IsWellFoundedOn(R, Nat)
    BY NatLessThanWellFounded
<1>2. S \subseteq Nat
    OBVIOUS
<1>. HIDE DEF R
<1>3. PICK i \in S : \A j \in S : ~(<<j, i>> \in R)
    BY <1>1, <1>2, WFMin
<1>4. ASSUME NEW j \in S, j < i PROVE FALSE
    <2>1. <<j, i>> \in R
        BY <1>2, <1>4 DEF R, OpToRel
    <2>. QED BY <1>3, <2>1
<1>5. \A j \in S : i <= j
    BY <1>2, <1>4
<1>. QED BY <1>5

\* What holds of no elements, and of n + 1 if of n, holds of any number of
\* them: holding is the set of the numbers it holds of.
LEMMA Induction ==
    ASSUME NEW holding, 0 \in holding, \A n \in Nat : n \in holding => n + 1 \in holding
    PROVE  \A n \in Nat : n \in holding
<1>. DEFINE failing == {n \in Nat : n \notin holding}
<1>1. CASE failing = {}
    BY <1>1
<1>2. CASE failing # {}
    <2>1. PICK n \in failing : \A m \in failing : n <= m
        BY <1>2, LeastOf
    <2>2. n \in Nat /\ n # 0
        OBVIOUS
    <2>3. n - 1 \in Nat /\ n - 1 \notin failing
        BY <2>1, <2>2
    <2>4. n - 1 \in holding /\ (n - 1) + 1 = n
        BY <2>2, <2>3
    <2>. QED BY <2>3, <2>4
<1>. QED BY <1>1, <1>2

Chosen(s) == CHOOSE x \in s : TRUE

\* What the recursion adds up.
Adds(f, it, s) == IF s = {} THEN 0 ELSE f[Chosen(s)] + it[s \ {Chosen(s)}]
Sums(f, it, D) == it = [s \in D |-> Adds(f, it, s)]

LEMMA TotalDef ==
    ASSUME NEW f, NEW S
    PROVE  Total(f, S) = (CHOOSE it : Sums(f, it, SUBSET S))[S]
BY DEF Total, MapThenSumSet, MapThenFoldSet, Sums, Adds, Chosen

\* The subsets of S of n elements at most.
UpTo(S, n) == {s \in SUBSET S : Cardinality(s) <= n}

\* A set is one element and a smaller set.
LEMMA OneLess ==
    ASSUME NEW S, IsFiniteSet(S), NEW s \in SUBSET S
    PROVE  /\ IsFiniteSet(s) /\ Cardinality(s) \in Nat
           /\ Cardinality(s) = 0 <=> s = {}
           /\ s # {} => Chosen(s) \in s
           /\ \A x \in s : s \ {x} \in SUBSET S /\ Cardinality(s \ {x}) = Cardinality(s) - 1
<1>1. IsFiniteSet(s)
    BY FS_Subset
<1>2. \A x \in s : Cardinality(s \ {x}) = Cardinality(s) - 1
    BY <1>1, FS_RemoveElement
<1>. QED BY <1>1, <1>2, FS_CardinalityType, FS_EmptySet DEF Chosen

\* The recursion has a solution.
LEMMA SumsExist ==
    ASSUME NEW f, NEW S, IsFiniteSet(S)
    PROVE  \E it : Sums(f, it, SUBSET S)
<1>. DEFINE holding == {n \in Nat : \E it : Sums(f, it, UpTo(S, n))}
<1>1. 0 \in holding
    <2>. DEFINE it == [s \in UpTo(S, 0) |-> 0]
    <2>1. \A s \in UpTo(S, 0) : s = {}
        BY OneLess DEF UpTo
    <2>2. Sums(f, it, UpTo(S, 0))
        BY <2>1 DEF Sums, Adds
    <2>. QED BY <2>2
<1>2. ASSUME NEW n \in Nat, n \in holding PROVE n + 1 \in holding
    <2>1. PICK it : Sums(f, it, UpTo(S, n))
        BY <1>2
    <2>. DEFINE jt == [s \in UpTo(S, n + 1) |-> Adds(f, it, s)]
    <2>2. ASSUME NEW s \in UpTo(S, n + 1) PROVE Adds(f, jt, s) = Adds(f, it, s)
        <3>1. CASE s = {}
            BY <3>1 DEF Adds
        <3>2. CASE s # {}
            <4>. DEFINE r == s \ {Chosen(s)}
            <4>1. r \in UpTo(S, n) /\ r \in UpTo(S, n + 1)
                BY <3>2, OneLess DEF UpTo
            <4>2. jt[r] = it[r]
                BY <2>1, <4>1 DEF Sums
            <4>. QED BY <3>2, <4>2 DEF Adds
        <3>. QED BY <3>1, <3>2
    <2>3. Sums(f, jt, UpTo(S, n + 1))
        BY <2>2 DEF Sums
    <2>. QED BY <2>3
<1>3. Cardinality(S) \in holding
    <2>. HIDE DEF holding
    <2>1. Cardinality(S) \in Nat
        BY OneLess
    <2>. QED BY <1>1, <1>2, <2>1, Induction
<1>4. UpTo(S, Cardinality(S)) = SUBSET S
    BY FS_Subset, FS_CardinalityType DEF UpTo
<1>. QED BY <1>3, <1>4

\* A solution for S gives the total of every subset of it.
LEMMA TotalIs ==
    ASSUME NEW f, NEW S, IsFiniteSet(S), NEW it, Sums(f, it, SUBSET S)
    PROVE  \A T \in SUBSET S : Total(f, T) = it[T]
<1>. SUFFICES ASSUME NEW T \in SUBSET S PROVE Total(f, T) = it[T]
    OBVIOUS
<1>. DEFINE jt == CHOOSE jt : Sums(f, jt, SUBSET T)
<1>1. IsFiniteSet(T) /\ Cardinality(T) \in Nat
    BY OneLess
<1>2. Sums(f, jt, SUBSET T)
    BY <1>1, SumsExist
<1>. DEFINE holding == {n \in Nat : \A s \in SUBSET T : Cardinality(s) = n => it[s] = jt[s]}
<1>. HIDE DEF jt
<1>3. 0 \in holding
    <2>1. \A s \in SUBSET T : Cardinality(s) = 0 => s = {}
        BY <1>1, OneLess
    <2>. QED BY <1>2, <2>1 DEF Sums, Adds
<1>4. ASSUME NEW n \in Nat, n \in holding PROVE n + 1 \in holding
    <2>. SUFFICES ASSUME NEW s \in SUBSET T, Cardinality(s) = n + 1 PROVE it[s] = jt[s]
        OBVIOUS
    <2>. DEFINE r == s \ {Chosen(s)}
    <2>1. s # {} /\ r \in SUBSET T /\ Cardinality(r) = n
        BY <1>1, OneLess
    <2>2. it[r] = jt[r]
        BY <1>4, <2>1
    <2>3. it[s] = Adds(f, it, s) /\ jt[s] = Adds(f, jt, s)
        BY <1>2 DEF Sums
    <2>. QED BY <2>1, <2>2, <2>3 DEF Adds
<1>5. it[T] = jt[T]
    <2>1. Cardinality(T) \in holding
        <3>. HIDE DEF holding
        <3>. QED BY <1>1, <1>3, <1>4, Induction
    <2>. QED BY <2>1
<1>. QED BY <1>5, TotalDef DEF jt

\* Total satisfies its recursion.
LEMMA TotalStep ==
    ASSUME NEW f, NEW S, IsFiniteSet(S)
    PROVE  /\ Total(f, {}) = 0
           /\ S # {} => Total(f, S) = f[Chosen(S)] + Total(f, S \ {Chosen(S)})
<1>1. PICK it : Sums(f, it, SUBSET S)
    BY SumsExist
<1>2. \A T \in SUBSET S : Total(f, T) = it[T]
    BY <1>1, TotalIs
<1>3. {} \in SUBSET S /\ S \in SUBSET S /\ S \ {Chosen(S)} \in SUBSET S
    OBVIOUS
<1>. QED BY <1>1, <1>2, <1>3 DEF Sums, Adds

\* Amounts of elements of S.
AmountsOf(f, S) == \A x \in S : f[x] \in Nat

\* A statement about f and finite sets holds of S if it holds of the empty set
\* and of a set when it holds of the set without one element.
LEMMA TotalType ==
    ASSUME NEW f, NEW S, IsFiniteSet(S), AmountsOf(f, S)
    PROVE  Total(f, S) \in Nat
<1>. DEFINE holding == {n \in Nat : \A s \in SUBSET S : Cardinality(s) = n => Total(f, s) \in Nat}
<1>1. 0 \in holding
    <2>1. \A s \in SUBSET S : Cardinality(s) = 0 => s = {}
        BY OneLess
    <2>2. Total(f, {}) = 0
        BY TotalStep
    <2>. QED BY <2>1, <2>2
<1>2. ASSUME NEW n \in Nat, n \in holding PROVE n + 1 \in holding
    <2>. SUFFICES ASSUME NEW s \in SUBSET S, Cardinality(s) = n + 1 PROVE Total(f, s) \in Nat
        OBVIOUS
    <2>. DEFINE r == s \ {Chosen(s)}
    <2>1. s # {} /\ IsFiniteSet(s) /\ Chosen(s) \in s /\ r \in SUBSET S /\ Cardinality(r) = n
        BY OneLess
    <2>2. Total(f, r) \in Nat /\ f[Chosen(s)] \in Nat
        BY <1>2, <2>1 DEF AmountsOf
    <2>3. Total(f, s) = f[Chosen(s)] + Total(f, r)
        BY <2>1, TotalStep
    <2>. QED BY <2>2, <2>3
<1>3. Cardinality(S) \in holding
    <2>. HIDE DEF holding
    <2>. QED BY <1>1, <1>2, OneLess, Induction
<1>. QED BY <1>3

\* Any element can be added last.
LEMMA TotalApart ==
    ASSUME NEW f, NEW S, IsFiniteSet(S), AmountsOf(f, S), NEW x \in S
    PROVE  Total(f, S) = f[x] + Total(f, S \ {x})
<1>. DEFINE holding == {n \in Nat : \A s \in SUBSET S : Cardinality(s) = n =>
                                        \A y \in s : Total(f, s) = f[y] + Total(f, s \ {y})}
<1>1. 0 \in holding
    <2>1. \A s \in SUBSET S : Cardinality(s) = 0 => s = {}
        BY OneLess
    <2>. QED BY <2>1
<1>2. ASSUME NEW n \in Nat, n \in holding PROVE n + 1 \in holding
    <2>. SUFFICES ASSUME NEW s \in SUBSET S, Cardinality(s) = n + 1, NEW y \in s
         PROVE  Total(f, s) = f[y] + Total(f, s \ {y})
        OBVIOUS
    <2>. DEFINE z == Chosen(s)
    <2>1. IsFiniteSet(s) /\ s # {} /\ z \in s
        BY OneLess
    <2>2. Total(f, s) = f[z] + Total(f, s \ {z})
        BY <2>1, TotalStep
    <2>3. CASE y = z
        BY <2>2, <2>3
    <2>4. CASE y # z
        <3>. HIDE DEF z
        <3>1. /\ s \ {z} \in SUBSET S /\ Cardinality(s \ {z}) = n
              /\ s \ {y} \in SUBSET S /\ Cardinality(s \ {y}) = n
              /\ y \in s \ {z} /\ z \in s \ {y}
            BY <2>1, <2>4, OneLess
        <3>2. /\ Total(f, s \ {z}) = f[y] + Total(f, (s \ {z}) \ {y})
              /\ Total(f, s \ {y}) = f[z] + Total(f, (s \ {y}) \ {z})
            BY <1>2, <3>1
        <3>3. (s \ {z}) \ {y} = (s \ {y}) \ {z}
            OBVIOUS
        <3>4. PICK w \in SUBSET S : w = (s \ {y}) \ {z}
            OBVIOUS
        <3>5. Total(f, w) \in Nat /\ f[y] \in Nat /\ f[z] \in Nat
            <4>1. IsFiniteSet(w) /\ AmountsOf(f, w)
                BY FS_Subset DEF AmountsOf
            <4>. QED BY <2>1, <4>1, TotalType DEF AmountsOf
        <3>. QED BY <2>2, <3>2, <3>3, <3>4, <3>5
    <2>. QED BY <2>3, <2>4
<1>3. Cardinality(S) \in holding
    <2>. HIDE DEF holding
    <2>. QED BY <1>1, <1>2, OneLess, Induction
<1>. QED BY <1>3

\* A total of what is within two other amounts and a third is within their totals.
LEMMA TotalWithin ==
    ASSUME NEW S, IsFiniteSet(S),
           NEW f, AmountsOf(f, S), NEW a, AmountsOf(a, S), NEW b, AmountsOf(b, S), NEW o, AmountsOf(o, S),
           \A x \in S : f[x] <= a[x] + b[x] + o[x]
    PROVE  Total(f, S) <= Total(a, S) + Total(b, S) + Total(o, S)
<1>. DEFINE holding == {n \in Nat : \A s \in SUBSET S : Cardinality(s) = n =>
                            Total(f, s) <= Total(a, s) + Total(b, s) + Total(o, s)}
<1>1. 0 \in holding
    <2>1. \A s \in SUBSET S : Cardinality(s) = 0 => s = {}
        BY OneLess
    <2>2. Total(f, {}) = 0 /\ Total(a, {}) = 0 /\ Total(b, {}) = 0 /\ Total(o, {}) = 0
        BY TotalStep
    <2>. QED BY <2>1, <2>2
<1>2. ASSUME NEW n \in Nat, n \in holding PROVE n + 1 \in holding
    <2>. SUFFICES ASSUME NEW s \in SUBSET S, Cardinality(s) = n + 1
         PROVE  Total(f, s) <= Total(a, s) + Total(b, s) + Total(o, s)
        OBVIOUS
    <2>. DEFINE z == Chosen(s)
    <2>1. IsFiniteSet(s) /\ s # {} /\ z \in s /\ z \in S /\ s \ {z} \in SUBSET S
          /\ Cardinality(s \ {z}) = n /\ IsFiniteSet(s \ {z})
        BY OneLess
    <2>2. /\ Total(f, s) = f[z] + Total(f, s \ {z}) /\ Total(a, s) = a[z] + Total(a, s \ {z})
          /\ Total(b, s) = b[z] + Total(b, s \ {z}) /\ Total(o, s) = o[z] + Total(o, s \ {z})
        BY <2>1, TotalStep
    <2>. HIDE DEF z
    <2>3. PICK r \in SUBSET S : r = s \ {z}
        BY <2>1
    <2>4. Total(f, r) <= Total(a, r) + Total(b, r) + Total(o, r)
        BY <1>2, <2>1, <2>3
    <2>5. /\ Total(f, r) \in Nat /\ Total(a, r) \in Nat /\ Total(b, r) \in Nat /\ Total(o, r) \in Nat
        <3>1. IsFiniteSet(r) /\ AmountsOf(f, r) /\ AmountsOf(a, r) /\ AmountsOf(b, r) /\ AmountsOf(o, r)
            BY <2>1, <2>3 DEF AmountsOf
        <3>. QED BY <3>1, TotalType
    <2>6. /\ f[z] \in Nat /\ a[z] \in Nat /\ b[z] \in Nat /\ o[z] \in Nat
          /\ f[z] <= a[z] + b[z] + o[z]
        BY <2>1 DEF AmountsOf
    <2>. QED BY <2>2, <2>3, <2>4, <2>5, <2>6
<1>3. Cardinality(S) \in holding
    <2>. HIDE DEF holding
    <2>. QED BY <1>1, <1>2, OneLess, Induction
<1>. QED BY <1>3

\* A total depends on the amounts only.
LEMMA TotalSame ==
    ASSUME NEW f, NEW g, NEW S, IsFiniteSet(S), \A x \in S : f[x] = g[x]
    PROVE  Total(f, S) = Total(g, S)
<1>1. PICK it : Sums(f, it, SUBSET S)
    BY SumsExist
<1>2. \A s \in SUBSET S : Adds(f, it, s) = Adds(g, it, s)
    BY OneLess DEF Adds
<1>3. Sums(g, it, SUBSET S)
    BY <1>1, <1>2 DEF Sums
<1>. QED BY <1>1, <1>3, TotalIs

\* One amount changes.
LEMMA TotalMoves ==
    ASSUME NEW S, IsFiniteSet(S), NEW f, AmountsOf(f, S), NEW g, AmountsOf(g, S),
           NEW x \in S, \A y \in S \ {x} : g[y] = f[y]
    PROVE  Total(g, S) = Total(f, S) - f[x] + g[x] /\ Total(f, S) >= f[x]
<1>1. PICK r \in SUBSET S : r = S \ {x}
    OBVIOUS
<1>2. Total(f, S) = f[x] + Total(f, r) /\ Total(g, S) = g[x] + Total(g, r)
    BY <1>1, TotalApart
<1>3. IsFiniteSet(r) /\ AmountsOf(f, r)
    BY FS_Subset DEF AmountsOf
<1>4. Total(g, r) = Total(f, r) /\ Total(f, r) \in Nat
    BY <1>1, <1>3, TotalSame, TotalType
<1>. QED BY <1>2, <1>4 DEF AmountsOf

\* The others of S count nothing.
LEMMA TotalMasked ==
    ASSUME NEW f, NEW S, IsFiniteSet(S), NEW T \in SUBSET S, AmountsOf(f, T),
           NEW m, \A x \in S : m[x] = IF x \in T THEN f[x] ELSE 0
    PROVE  Total(f, T) = Total(m, S)
<1>. DEFINE holding == {n \in Nat : \A s \in SUBSET S : Cardinality(s) = n =>
                            Total(f, s \cap T) = Total(m, s)}
<1>1. 0 \in holding
    <2>1. \A s \in SUBSET S : Cardinality(s) = 0 => s = {}
        BY OneLess
    <2>2. Total(f, {}) = 0 /\ Total(m, {}) = 0 /\ {} \cap T = {}
        BY TotalStep
    <2>. QED BY <2>1, <2>2
<1>2. ASSUME NEW n \in Nat, n \in holding PROVE n + 1 \in holding
    <2>. SUFFICES ASSUME NEW s \in SUBSET S, Cardinality(s) = n + 1
         PROVE  Total(f, s \cap T) = Total(m, s)
        OBVIOUS
    <2>. DEFINE z == Chosen(s)
    <2>1. IsFiniteSet(s) /\ s # {} /\ z \in s /\ s \ {z} \in SUBSET S
          /\ Cardinality(s \ {z}) = n /\ IsFiniteSet(s \ {z}) /\ IsFiniteSet(s \cap T)
        BY OneLess, FS_Subset
    <2>2. Total(m, s) = m[z] + Total(m, s \ {z})
        BY <2>1, TotalStep
    <2>. HIDE DEF z
    <2>3. Total(f, (s \ {z}) \cap T) = Total(m, s \ {z})
        BY <1>2, <2>1
    <2>4. AmountsOf(f, s \cap T) /\ AmountsOf(m, s \ {z})
        BY DEF AmountsOf
    <2>5. Total(m, s \ {z}) \in Nat
        BY <2>1, <2>4, TotalType
    <2>6. CASE z \in T
        <3>1. Total(f, s \cap T) = f[z] + Total(f, (s \cap T) \ {z})
            BY <2>1, <2>4, <2>6, TotalApart
        <3>2. (s \cap T) \ {z} = (s \ {z}) \cap T
            OBVIOUS
        <3>3. m[z] = f[z]
            BY <2>1, <2>6
        <3>. QED BY <2>2, <2>3, <3>1, <3>2, <3>3
    <2>7. CASE z \notin T
        <3>1. s \cap T = (s \ {z}) \cap T
            BY <2>7
        <3>2. m[z] = 0
            BY <2>1, <2>7
        <3>3. Total(m, s) = Total(m, s \ {z})
            BY <2>2, <2>5, <3>2
        <3>. QED BY <2>3, <3>1, <3>3
    <2>. QED BY <2>6, <2>7
<1>3. Cardinality(S) \in holding
    <2>. HIDE DEF holding
    <2>. QED BY <1>1, <1>2, OneLess, Induction
<1>4. S \cap T = T
    OBVIOUS
<1>. QED BY <1>3, <1>4

\* Nothing adds up to nothing.
LEMMA TotalNothing ==
    ASSUME NEW f, NEW S, IsFiniteSet(S), \A x \in S : f[x] = 0
    PROVE  Total(f, S) = 0
<1>1. AmountsOf(f, {}) /\ \A x \in S : f[x] = IF x \in {} THEN f[x] ELSE 0
    BY DEF AmountsOf
<1>2. Total(f, {}) = Total(f, S)
    BY <1>1, TotalMasked
<1>. QED BY <1>2, TotalStep

-----------------------------------------------------------------------------
(* Signals and their delivery. *)

\* A signal is an intent of its call.
LEMMA SignalTyped ==
    ASSUME Typed, NEW c \in Calls
    PROVE  /\ Signal(c) \in Intents
           /\ Signal(c).call = c
           /\ at[c] \in {"start", "startSent"} =>
                Signal(c) = [call |-> c, event |-> "provider_started", amount |-> Unknown]
           /\ at[c] \notin {"start", "startSent"} /\ amount[c] # Unknown =>
                Signal(c) = [call |-> c, event |-> "usage_known", amount |-> amount[c]]
           /\ at[c] \notin {"start", "startSent"} /\ amount[c] = Unknown =>
                Signal(c) = [call |-> c, event |-> "outcome_unknown", amount |-> Unknown]
    BY DEF Typed, Signal, Intent, Intents, Events, Amounts

\* What the delivery of an intent does to the reservation of its call, and that
\* it does nothing to another.
LEMMA Delivered ==
    ASSUME Typed, NEW i \in Intents, Apply(i)
    PROVE  /\ ledger' \in [Calls -> States]
           /\ settled' \in [Calls -> Amounts]
           /\ \A c \in Calls \ {i.call} : ledger'[c] = ledger[c] /\ settled'[c] = settled[c]
           /\ i.call \in Calls
           /\ i.event # "provider_started" => ledger[i.call] \notin {"none", "reserved"}
           /\ i.event = "usage_known" =>
                /\ ledger'[i.call] = "settled"
                /\ ledger[i.call] # "settled" => settled'[i.call] = i.amount
           /\ ledger[i.call] = "settled" =>
                ledger'[i.call] = "settled" /\ settled'[i.call] = settled[i.call]
           /\ ledger'[i.call] = "settled" =>
                ledger[i.call] = "settled" \/ i.event = "usage_known"
           /\ ledger[i.call] = "pending_reconciliation" =>
                ledger'[i.call] \in {"settled", "pending_reconciliation"}
           /\ ledger'[i.call] = "reserved" =>
                ledger[i.call] = "reserved" /\ i.event # "provider_started"
           /\ ledger'[i.call] = "none" => ledger[i.call] = "none"
           /\ i.event = "outcome_unknown" /\ ledger[i.call] # "none" =>
                ledger'[i.call] \in {"settled", "pending_reconciliation"}
<1>1. /\ i.call \in Calls
      /\ i.event \in Events
      /\ i.amount \in Amounts
    BY DEF Intents
<1> QED
    BY <1>1 DEF Typed, Apply, Accepts, States, Events

-----------------------------------------------------------------------------
(* Types. *)

\* A hold is a natural number, and giving it back leaves one held.
LEMMA Gives ==
    ASSUME Typed, NEW c \in Calls
    PROVE  /\ Give(c) => pending' \in Nat
           /\ cost[c] # Unknown => spent + cost[c] \in Nat
<1>1. held[c] \in Nat
    <2>1. held[c] \in Projections \cup {0}
        BY DEF Typed
    <2> QED
        BY <2>1, MeteredCallAssumption
<1>2. cost[c] # Unknown => cost[c] \in Nat
    BY MeteredCallAssumption DEF Typed, Amounts
<1>3. pending \in Nat /\ spent \in Nat
    BY DEF Typed
<1> QED
    BY <1>1, <1>2, <1>3 DEF Give

\* Every step keeps the types.
LEMMA TypedStep ==
    ASSUME Typed, [Next]_vars
    PROVE  Typed'
<1> USE MeteredCallAssumption DEF Typed, InCall, Ended, Sending, Go
<1>1. ASSUME NEW c \in Calls, Advance(c) PROVE Typed'
    <2>1. CASE CheckLocal(c)
        BY <2>1 DEF files, CheckLocal, finops, bounds
    <2>2. CASE RefuseLocally(c)
        BY <2>2 DEF files, RefuseLocally, call, budget, finops, bounds
    <2>3. CASE Reserve(c)
        BY <2>3 DEF files, Reserve, budget, bounds, States
    <2>4. CASE DenyReserve(c)
        BY <2>4, Gives DEF files, DenyReserve, Refuse, call, finops, bounds
    <2>5. CASE ReserveUnavailable(c)
        BY <2>5, Gives DEF files, ReserveUnavailable, PerhapsReserved, Refuse, call, bounds, States
    <2>6. CASE RunUnreserved(c)
        BY <2>6 DEF files, RunUnreserved, PerhapsReserved, Dispatch, call, budget, bounds, States
    <2>7. CASE Journal(c)
        BY <2>7, SignalTyped DEF Journal, call, budget, finops, bounds
    <2>8. CASE Acked(c)
        BY <2>8, SignalTyped, Delivered DEF Acked, Proceed, Dispatch, Finished, call, budget, bounds
    <2>9. CASE StartRefused(c)
        BY <2>9, SignalTyped, Delivered, Gives
           DEF files, StartRefused, PerhapsApplied, Refuse, call, finops, bounds
    <2>10. CASE Unacked(c)
        BY <2>10, SignalTyped, Delivered
           DEF files, Unacked, PerhapsApplied, Proceed, Dispatch, Finished, call, budget, finops, bounds
    <2>11. CASE ProviderAnswers(c)
        BY <2>11 DEF files, ProviderAnswers, Outcome, Amounts, budget, finops, bounds
    <2>12. CASE ProviderRaises(c)
        BY <2>12 DEF files, ProviderRaises, Outcome, Amounts, budget, finops, bounds
    <2>13. CASE Record(c)
        BY <2>13, Gives DEF files, Record, call, finops, bounds
    <2> QED
        BY <1>1, <2>1, <2>2, <2>3, <2>4, <2>5, <2>6, <2>7, <2>8, <2>9, <2>10, <2>11, <2>12,
           <2>13 DEF Advance
<1>2. ASSUME NEW c \in Calls, Disturb(c) PROVE Typed'
    <2>1. CASE StartUnjournaled(c)
        BY <2>1, Gives DEF files, StartUnjournaled, Fault, Refuse, Dispatch, call, budget, finops
    <2>2. CASE SettleUnjournaled(c)
        BY <2>2 DEF files, SettleUnjournaled, Fault, Finished, call, budget, finops
    <2>3. CASE CancelReserve(c)
        BY <2>3 DEF files, CancelReserve, Cancel, PerhapsReserved, budget, States
    <2>4. CASE CancelSignal(c)
        BY <2>4, SignalTyped, Delivered DEF files, CancelSignal, Cancel, PerhapsApplied, budget, finops
    <2>5. CASE CancelProvider(c)
        BY <2>5 DEF files, CancelProvider, Cancel, budget, finops
    <2>6. CASE CancelReconcile(c)
        BY <2>6, SignalTyped, Delivered
           DEF files, CancelReconcile, Cancel, PerhapsApplied, Amounts, budget, finops
    <2> QED
        BY <1>2, <2>1, <2>2, <2>3, <2>4, <2>5, <2>6 DEF Disturb
<1>3. ASSUME NEW i \in journal, Flush(i) PROVE Typed'
    <2>1. i \in Intents /\ i.call \in Calls
        BY DEF Intents
    <2>2. CASE Deliver(i)
        BY <1>3, <2>1, <2>2, Delivered DEF Flush, Deliver, call, budget
    <2>3. CASE Quarantine(i)
        BY <1>3, <2>1, <2>3 DEF Flush, Quarantine, Fault, call, budget, finops
    <2> QED
        BY <1>3, <2>2, <2>3 DEF Flush
<1>4. CASE Prune
    BY <1>4 DEF files, Prune, call, finops, bounds
<1>5. CASE UNCHANGED vars
    BY <1>5 DEF files, vars, call, budget, finops, bounds
<1> QED
    BY <1>1, <1>2, <1>3, <1>4, <1>5 DEF Next

-----------------------------------------------------------------------------
(* The calls that a step does not move. *)

\* A step that changes nothing the invariant says of c.
Frame(c) ==
    /\ mode' = mode
    /\ at'[c] = at[c]
    /\ cost'[c] = cost[c]
    /\ amount'[c] = amount[c]
    /\ ledger'[c] = ledger[c]
    /\ settled'[c] = settled[c]
    /\ c \in reserved' <=> c \in reserved
    /\ c \in dispatched' <=> c \in dispatched
    /\ c \in unjournaled' <=> c \in unjournaled
    /\ c \in aside' <=> c \in aside
    /\ \A i \in Intents : i.call = c => (i \in journal' <=> i \in journal)

\* What holds of a call goes on holding when a step frames it.
LEMMA Framed ==
    ASSUME Typed, Typed', NEW c \in Calls, CallOK(c), Frame(c)
    PROVE  CallOK(c)'
<1>1. Signal(c)' = Signal(c) /\ Signal(c) \in Intents /\ Signal(c).call = c
    BY SignalTyped DEF Frame, Signal, Intent
<1>2. journal \subseteq Intents /\ journal' \subseteq Intents
    BY DEF Typed
<1>3. FreshOK(c)' /\ LedgerOK(c)'
    BY DEF CallOK, FreshOK, LedgerOK, Frame, Known
<1>4. AmountOK(c)'
    BY <1>2 DEF CallOK, AmountOK, Frame
<1>5. Told(c) => Told(c)'
    BY <1>2 DEF Told, Resolved, Frame
<1>6. ToldOK(c)'
    BY <1>1, <1>5 DEF CallOK, ToldOK, Resolved, Frame
<1> QED
    BY <1>3, <1>4, <1>6 DEF CallOK

\* A step of one call frames the others.
LEMMA Others ==
    ASSUME Typed, NEW c \in Calls, NEW d \in Calls \ {c}, Advance(d) \/ Disturb(d)
    PROVE  Frame(c)
<1> USE DEF Typed, Frame, Go
<1>1. ASSUME PerhapsReserved(d)
      PROVE  ledger'[c] = ledger[c] /\ settled'[c] = settled[c]
    BY <1>1 DEF PerhapsReserved
<1>2. ASSUME PerhapsApplied(Signal(d))
      PROVE  ledger'[c] = ledger[c] /\ settled'[c] = settled[c]
    BY <1>2, SignalTyped, Delivered DEF PerhapsApplied, finops
<1>3. \A i \in Intents : i.call = c => i # Signal(d)
    BY SignalTyped
<1>4. CASE Advance(d)
    <2>1. CASE CheckLocal(d) \/ RefuseLocally(d)
        BY <2>1 DEF files, CheckLocal, RefuseLocally, call, finops, bounds
    <2>2. CASE Reserve(d) \/ DenyReserve(d)
        BY <2>2 DEF files, Reserve, DenyReserve, Refuse, call, finops, bounds
    <2>3. CASE ReserveUnavailable(d) \/ RunUnreserved(d)
        BY <2>3, <1>1 DEF files, ReserveUnavailable, RunUnreserved, Refuse, Dispatch, call, bounds
    <2>4. CASE Journal(d)
        BY <2>4, <1>3 DEF Journal, call, finops, bounds
    <2>5. CASE Acked(d)
        BY <2>5, <1>2, <1>3 DEF Acked, PerhapsApplied, Proceed, Dispatch, call, bounds
    <2>6. CASE StartRefused(d) \/ Unacked(d)
        BY <2>6, <1>2 DEF files, StartRefused, Unacked, Refuse, Proceed, Dispatch, call, bounds
    <2>7. CASE ProviderAnswers(d) \/ ProviderRaises(d)
        BY <2>7 DEF files, ProviderAnswers, ProviderRaises, Outcome, finops, bounds
    <2>8. CASE Record(d)
        BY <2>8 DEF files, Record, call, finops, bounds
    <2> QED
        BY <1>4, <2>1, <2>2, <2>3, <2>4, <2>5, <2>6, <2>7, <2>8 DEF Advance
<1>5. CASE Disturb(d)
    <2>1. CASE StartUnjournaled(d) \/ SettleUnjournaled(d)
        BY <2>1 DEF files, StartUnjournaled, SettleUnjournaled, Fault, Refuse, Dispatch, call, finops
    <2>2. CASE CancelReserve(d)
        BY <2>2, <1>1 DEF files, CancelReserve, Cancel
    <2>3. CASE CancelSignal(d) \/ CancelReconcile(d)
        BY <2>3, <1>2 DEF files, CancelSignal, CancelReconcile, Cancel
    <2>4. CASE CancelProvider(d)
        BY <2>4 DEF files, CancelProvider, Cancel, finops
    <2> QED
        BY <1>5, <2>1, <2>2, <2>3, <2>4 DEF Disturb
<1> QED
    BY <1>4, <1>5

-----------------------------------------------------------------------------
(* The call that moves. *)

\* Delivering an intent of c, which states its cost if it states any, keeps the
\* ledger right, and any intent but the start resolves the reservation.
LEMMA DeliveryOK ==
    ASSUME Typed, NEW c \in Calls, CallOK(c), NEW i \in Intents, i.call = c,
           i.event = "usage_known" => i.amount = cost[c] /\ i.amount # Unknown,
           Apply(i)
    PROVE  /\ c \in reserved => ledger'[c] # "none"
           /\ ledger'[c] = "settled" => Known(c) /\ settled'[c] = cost[c]
           /\ ledger'[c] = "reserved" => ledger[c] = "reserved" /\ i.event # "provider_started"
           /\ c \in reserved /\ i.event # "provider_started" =>
                ledger'[c] \in {"settled", "pending_reconciliation"}
           /\ Resolved(c) => ledger'[c] \in {"settled", "pending_reconciliation"}
<1>1. i.event \in {"provider_started", "usage_known", "outcome_unknown"}
    BY DEF Intents, Events
<1> QED
    BY <1>1, Delivered DEF CallOK, LedgerOK, Known, Resolved

\* The signal of a call states its cost if it states any.
LEMMA SignalOK ==
    ASSUME Typed, NEW c \in Calls, CallOK(c)
    PROVE  /\ Signal(c) \in Intents
           /\ Signal(c).call = c
           /\ Signal(c).event = "usage_known" =>
                Signal(c).amount = cost[c] /\ Signal(c).amount # Unknown
           /\ Signal(c).event = "provider_started" <=> at[c] \in {"start", "startSent"}
<1>1. amount[c] \in {cost[c], Unknown}
    BY DEF CallOK, AmountOK
<1> QED
    BY <1>1, SignalTyped

\* Whether or not the signal arrives, the ledger stays right.
LEMMA PerhapsOK ==
    ASSUME Typed, NEW c \in Calls, CallOK(c), PerhapsApplied(Signal(c))
    PROVE  /\ c \in reserved => ledger'[c] # "none"
           /\ ledger'[c] = "settled" => Known(c) /\ settled'[c] = cost[c]
           /\ ledger'[c] = "reserved" => ledger[c] = "reserved"
           /\ Resolved(c) => ledger'[c] \in {"settled", "pending_reconciliation"}
<1>1. CASE Apply(Signal(c))
    BY <1>1, SignalOK, DeliveryOK
<1>2. CASE UNCHANGED finops
    BY <1>2 DEF CallOK, LedgerOK, Resolved, finops
<1> QED
    BY <1>1, <1>2 DEF PerhapsApplied

\* What a call does keeps what holds of it.
LEMMA OwnAdvance ==
    ASSUME Typed, Typed', NEW c \in Calls, CallOK(c), Advance(c)
    PROVE  CallOK(c)'
<1> USE MeteredCallAssumption
    DEF Typed, CallOK, FreshOK, AmountOK, LedgerOK, ToldOK, Told, Resolved, Known, Before, Ended,
        Go
<1>1. CASE CheckLocal(c) \/ RefuseLocally(c)
    BY <1>1 DEF files, CheckLocal, RefuseLocally, call, finops, bounds
<1>2. CASE Reserve(c)
    BY <1>2 DEF files, Reserve, bounds
<1>3. CASE DenyReserve(c)
    BY <1>3 DEF files, DenyReserve, Refuse, call, finops, bounds
<1>4. CASE ReserveUnavailable(c) \/ RunUnreserved(c)
    BY <1>4 DEF files, ReserveUnavailable, RunUnreserved, PerhapsReserved, Refuse, Dispatch, call, bounds
<1>5. CASE Journal(c)
    <2>1. Signal(c)' = Signal(c)
        BY <1>5 DEF Journal, Signal, Intent, call
    <2>2. AmountOK(c)'
        BY <1>5, SignalOK DEF Journal, call
    <2> QED
        BY <1>5, <2>1, <2>2 DEF Journal, call, finops, bounds
<1>6. CASE Acked(c)
    <2>1. /\ c \in reserved => ledger'[c] # "none"
          /\ ledger'[c] = "settled" => Known(c) /\ settled'[c] = cost[c]
          /\ ledger'[c] = "reserved" => ledger[c] = "reserved" /\ at[c] # "startSent"
          /\ c \in reserved /\ at[c] \in {"reconcileSent", "markSent"} =>
                ledger'[c] \in {"settled", "pending_reconciliation"}
        BY <1>6, SignalOK, DeliveryOK DEF Acked
    <2> QED
        BY <1>6, <2>1 DEF Acked, Proceed, Dispatch, Finished, call, bounds
<1>7. CASE StartRefused(c)
    BY <1>7, PerhapsOK DEF files, StartRefused, Refuse, call, bounds
<1>8. CASE Unacked(c)
    BY <1>8, PerhapsOK, SignalOK DEF files, Unacked, Proceed, Dispatch, Finished, call, bounds
<1>9. CASE ProviderAnswers(c)
    BY <1>9 DEF files, ProviderAnswers, Outcome, Amounts, finops, bounds
<1>10. CASE ProviderRaises(c)
    BY <1>10 DEF files, ProviderRaises, Outcome, Amounts, finops, bounds
<1>11. CASE Record(c)
    BY <1>11 DEF files, Record, call, finops, bounds
<1> QED
    BY <1>1, <1>2, <1>3, <1>4, <1>5, <1>6, <1>7, <1>8, <1>9, <1>10, <1>11 DEF Advance

\* So does what befalls it.
LEMMA OwnDisturb ==
    ASSUME Typed, Typed', NEW c \in Calls, CallOK(c), Disturb(c)
    PROVE  CallOK(c)'
<1> USE MeteredCallAssumption
    DEF Typed, CallOK, FreshOK, AmountOK, LedgerOK, ToldOK, Told, Resolved, Known, Before, Ended,
        Go
<1>1. CASE StartUnjournaled(c)
    BY <1>1 DEF files, StartUnjournaled, Fault, Refuse, Dispatch, call, finops
<1>2. CASE SettleUnjournaled(c)
    BY <1>2 DEF files, SettleUnjournaled, Fault, Finished, call, finops
<1>3. CASE CancelReserve(c)
    BY <1>3 DEF files, CancelReserve, Cancel, PerhapsReserved
<1>4. CASE CancelSignal(c)
    BY <1>4, PerhapsOK, SignalOK DEF files, CancelSignal, Cancel
<1>5. CASE CancelProvider(c)
    BY <1>5 DEF files, CancelProvider, Cancel, finops
<1>6. CASE CancelReconcile(c)
    BY <1>6, PerhapsOK DEF files, CancelReconcile, Cancel
<1> QED
    BY <1>1, <1>2, <1>3, <1>4, <1>5, <1>6 DEF Disturb

\* The flusher delivers an intent of any call, or sets it aside.
LEMMA FlushStep ==
    ASSUME Typed, Typed', NEW c \in Calls, CallOK(c), NEW i \in journal, Flush(i)
    PROVE  CallOK(c)'
<1>1. i \in Intents
    BY DEF Typed
<1>2. UNCHANGED <<call, at, dispatched, unjournaled>> /\ journal' = journal \ {i}
    BY DEF Flush, Deliver, Quarantine
<1>3. CASE i.call # c
    <2>1. Frame(c)
        BY <1>1, <1>2, <1>3, Delivered DEF Flush, Deliver, Quarantine, Frame, call, finops
    <2> QED
        BY <2>1, Framed
<1>4. CASE i.call = c
    <2>1. i.event = "usage_known" => i.amount = cost[c] /\ i.amount # Unknown
        BY <1>4 DEF CallOK, AmountOK
    <2>2. /\ c \in reserved => ledger'[c] # "none"
          /\ ledger'[c] = "settled" => Known(c) /\ settled'[c] = cost[c]
          /\ ledger'[c] = "reserved" => ledger[c] = "reserved"
          /\ c \in reserved /\ i.event # "provider_started" =>
                ledger'[c] \in {"settled", "pending_reconciliation"} \/ c \in aside'
          /\ Resolved(c) => ledger'[c] \in {"settled", "pending_reconciliation"}
          /\ c \in aside => c \in aside'
        <3>1. CASE Deliver(i)
            BY <1>1, <1>4, <2>1, <3>1, DeliveryOK DEF Deliver
        <3>2. CASE Quarantine(i)
            BY <1>4, <3>2 DEF Quarantine, finops, CallOK, LedgerOK, Resolved
        <3> QED
            BY <3>1, <3>2 DEF Flush
    <2>4. FreshOK(c)' /\ AmountOK(c)' /\ LedgerOK(c)'
        BY <1>2, <2>2 DEF CallOK, FreshOK, AmountOK, LedgerOK, Known, call
    <2>5. Signal(c)' = Signal(c)
        BY <1>2 DEF Signal, Intent, call
    <2>6. at[c] \in {"reconcileSent", "markSent"} => Signal(c).event # "provider_started"
        BY SignalOK
    <2>7. ToldOK(c)'
        BY <1>2, <1>4, <2>2, <2>5, <2>6 DEF CallOK, ToldOK, Told, Resolved, call
    <2> QED
        BY <2>4, <2>7 DEF CallOK
<1> QED
    BY <1>3, <1>4

-----------------------------------------------------------------------------
(* The window. *)

\* A call that returns adds the one entry it stands for; nothing else does.
LEMMA WindowStep ==
    ASSUME Typed, WindowOK, [Next]_vars
    PROVE  WindowOK'
<1> USE DEF Typed, Go
<1>1. IsFiniteSet(Returned) /\ Cardinality(Returned) \in Nat
    BY MeteredCallAssumption, FS_Subset, FS_CardinalityType DEF Returned
<1>2. ASSUME NEW c \in Calls, Record(c) PROVE WindowOK'
    <2>1. Returned' = Returned \cup {c} /\ c \notin Returned
        BY <1>2 DEF Record, Returned
    <2>2. Cardinality(Returned') = Cardinality(Returned) + 1
        BY <1>1, <2>1, FS_AddElement
    <2> QED
        BY <1>1, <1>2, <2>2 DEF Record, WindowOK
<1>3. ASSUME Returned' = Returned, recent' = recent \/ Prune PROVE WindowOK'
    BY <1>1, <1>3 DEF Prune, WindowOK
<1>4. ASSUME NEW c \in Calls, NEW p, p # "returned", at[c] # "returned", Go(c, p)
      PROVE  Returned' = Returned
    BY <1>4 DEF Returned
<1>5. ASSUME NEW c \in Calls, Advance(c), ~Record(c) PROVE WindowOK'
    <2>1. recent' = recent
        BY <1>5 DEF Advance, CheckLocal, RefuseLocally, Reserve, DenyReserve, ReserveUnavailable,
           RunUnreserved, Journal, Acked, StartRefused, Unacked, ProviderAnswers,
           ProviderRaises, Outcome, Refuse, budget
    <2>2. at[c] # "returned"
        BY <1>5 DEF Advance, CheckLocal, RefuseLocally, Reserve, DenyReserve, ReserveUnavailable,
           RunUnreserved, Journal, Acked, StartRefused, Unacked, Proceed, ProviderAnswers,
           ProviderRaises
    <2>3. \E p : p # "returned" /\ Go(c, p)
        BY <1>5 DEF Advance, CheckLocal, RefuseLocally, Reserve, DenyReserve, ReserveUnavailable,
           RunUnreserved, Journal, Acked, StartRefused, Unacked, Proceed, Dispatch, Finished,
           ProviderAnswers, ProviderRaises, Refuse
    <2> QED
        BY <1>3, <1>4, <2>1, <2>2, <2>3
<1>6. ASSUME NEW c \in Calls, Disturb(c) PROVE WindowOK'
    <2>1. recent' = recent
        BY <1>6 DEF Disturb, StartUnjournaled, SettleUnjournaled, CancelReserve, CancelSignal,
           CancelProvider, CancelReconcile, Cancel, Refuse, budget
    <2>2. at[c] # "returned"
        BY <1>6 DEF Disturb, StartUnjournaled, SettleUnjournaled, CancelReserve, CancelSignal,
           CancelProvider, CancelReconcile
    <2>3. \E p : p # "returned" /\ Go(c, p)
        BY <1>6 DEF Disturb, StartUnjournaled, SettleUnjournaled, CancelReserve, CancelSignal,
           CancelProvider, CancelReconcile, Refuse, Dispatch, Finished
    <2> QED
        BY <1>3, <1>4, <2>1, <2>2, <2>3
<1>7. ASSUME (\E i \in journal : Flush(i)) \/ Prune \/ UNCHANGED vars PROVE WindowOK'
    BY <1>3, <1>7 DEF Flush, Prune, vars, budget, Returned
<1> QED
    BY <1>2, <1>5, <1>6, <1>7 DEF Next

-----------------------------------------------------------------------------
(* The budget. *)

\* The amounts of the calls are natural numbers.
LEMMA AmountsTyped ==
    ASSUME Typed
    PROVE  /\ HoldOf \in [Calls -> Nat] /\ SpentOf \in [Calls -> Nat] /\ ExcessOf \in [Calls -> Nat]
           /\ \A c \in Calls : held[c] \in Nat /\ Excess(c) \in Nat /\ (Known(c) => cost[c] \in Nat)
<1>1. ASSUME NEW c \in Calls PROVE held[c] \in Nat /\ (Known(c) => cost[c] \in Nat)
    <2>1. held[c] \in Projections \cup {0} /\ cost[c] \in Costs \cup {Unknown}
        BY DEF Typed, Amounts
    <2>. QED BY <2>1, MeteredCallAssumption DEF Known
<1>2. \A c \in Calls : Excess(c) \in Nat
    BY <1>1 DEF Excess
<1>. QED BY <1>1, <1>2 DEF HoldOf, SpentOf, ExcessOf

\* So they are after a step.
LEMMA AmountsTypedNext ==
    ASSUME Typed'
    PROVE  /\ HoldOf' \in [Calls -> Nat] /\ SpentOf' \in [Calls -> Nat] /\ ExcessOf' \in [Calls -> Nat]
           /\ \A c \in Calls : held'[c] \in Nat
<1>1. ASSUME NEW c \in Calls PROVE held'[c] \in Nat /\ (Known(c)' => cost'[c] \in Nat)
    <2>1. held'[c] \in Projections \cup {0} /\ cost'[c] \in Costs \cup {Unknown}
        BY DEF Typed, Amounts
    <2>. QED BY <2>1, MeteredCallAssumption DEF Known
<1>2. \A c \in Calls : (Excess(c))' \in Nat
    BY <1>1 DEF Excess, Known
<1>3. HoldOf' \in [Calls -> Nat]
    BY <1>1 DEF HoldOf
<1>4. SpentOf' \in [Calls -> Nat]
    BY <1>1 DEF SpentOf, Known
<1>5. ExcessOf' \in [Calls -> Nat]
    BY <1>2 DEF ExcessOf
<1>. QED BY <1>1, <1>3, <1>4, <1>5

\* The hold of a call is counted in what is held.
LEMMA HeldCounted ==
    ASSUME Typed, BudgetOK, NEW c \in Calls, Holding(c)
    PROVE  held[c] <= pending
<1>1. PICK h \in [Calls -> Nat] : h = HoldOf
    BY AmountsTyped
<1>2. Total(h, Calls) >= h[c]
    BY MeteredCallAssumption, TotalMoves DEF AmountsOf
<1>. QED BY <1>1, <1>2 DEF BudgetOK, HoldOf

\* A step that moves one call, and the counters with its amounts.
LEMMA OneBudget ==
    ASSUME Typed, Typed', BudgetOK, NEW c \in Calls,
           \A d \in Calls \ {c} : at'[d] = at[d] /\ held'[d] = held[d] /\ cost'[d] = cost[d],
           pending' = pending - HoldOf[c] + HoldOf'[c],
           spent' = spent - SpentOf[c] + SpentOf'[c],
           \/ spent' + pending' <= Cap
           \/ (SpentOf'[c] + HoldOf'[c]) - (SpentOf[c] + HoldOf[c]) <= ExcessOf'[c] - ExcessOf[c]
    PROVE  BudgetOK'
<1>1. PICK h0 \in [Calls -> Nat], s0 \in [Calls -> Nat], e0 \in [Calls -> Nat] :
        h0 = HoldOf /\ s0 = SpentOf /\ e0 = ExcessOf
    BY AmountsTyped
<1>2. PICK h1 \in [Calls -> Nat], s1 \in [Calls -> Nat], e1 \in [Calls -> Nat] :
        h1 = HoldOf' /\ s1 = SpentOf' /\ e1 = ExcessOf'
    BY AmountsTypedNext
<1>3. \A d \in Calls \ {c} : h1[d] = h0[d] /\ s1[d] = s0[d] /\ e1[d] = e0[d]
    BY <1>1, <1>2 DEF HoldOf, SpentOf, ExcessOf, Holding, Known, Excess
<1>4. IsFiniteSet(Calls) /\ Cap \in Nat
    BY MeteredCallAssumption
<1>5. /\ AmountsOf(h0, Calls) /\ AmountsOf(s0, Calls) /\ AmountsOf(e0, Calls)
      /\ AmountsOf(h1, Calls) /\ AmountsOf(s1, Calls) /\ AmountsOf(e1, Calls)
    BY DEF AmountsOf
<1>6. /\ Total(h1, Calls) = Total(h0, Calls) - h0[c] + h1[c]
      /\ Total(s1, Calls) = Total(s0, Calls) - s0[c] + s1[c]
      /\ Total(e1, Calls) = Total(e0, Calls) - e0[c] + e1[c]
    BY <1>3, <1>4, <1>5, TotalMoves
<1>7. Total(e0, Calls) \in Nat /\ Total(e1, Calls) \in Nat
    BY <1>4, <1>5, TotalType
<1>8. /\ pending = Total(h0, Calls) /\ spent = Total(s0, Calls)
      /\ spent + pending <= Cap + Total(e0, Calls)
    BY <1>1 DEF BudgetOK
<1>9. pending' = Total(h1, Calls) /\ spent' = Total(s1, Calls)
    BY <1>1, <1>2, <1>6, <1>8
<1>10. spent' + pending' <= Cap + Total(e1, Calls)
    <2>1. pending \in Nat /\ spent \in Nat /\ pending' \in Nat /\ spent' \in Nat
        BY DEF Typed
    <2>. QED BY <1>1, <1>2, <1>4, <1>6, <1>7, <1>8, <1>9, <2>1
<1>. QED BY <1>2, <1>9, <1>10 DEF BudgetOK

\* What is held and spent of a call is not touched by a step that leaves it
\* where it holds.
Stays(c) ==
    /\ Holding(c) /\ Holding(c)' /\ held'[c] = held[c]
    /\ pending' = pending /\ spent' = spent

\* The other steps of a call: it takes its hold, is refused before or after it
\* has one, or records.
Takes(c) ==
    /\ at[c] = "new" /\ at'[c] = "reserve"
    /\ pending' = pending + held'[c] /\ spent' = spent
    /\ spent + pending + held'[c] <= Cap
Denied(c) == at[c] = "new" /\ at'[c] = "denied" /\ pending' = pending /\ spent' = spent
Refused(c) == Holding(c) /\ at'[c] = "denied" /\ Give(c) /\ spent' = spent

\* Each keeps the counters the totals.
LEMMA BudgetMoves ==
    ASSUME Typed, Typed', BudgetOK, NEW c \in Calls,
           \A d \in Calls \ {c} : at'[d] = at[d] /\ held'[d] = held[d] /\ cost'[d] = cost[d],
           Stays(c) \/ Takes(c) \/ Denied(c) \/ Refused(c) \/ Record(c)
    PROVE  BudgetOK'
<1>1. /\ pending \in Nat /\ spent \in Nat /\ held[c] \in Nat /\ held'[c] \in Nat
      /\ Known(c) => cost[c] \in Nat
    BY AmountsTyped, AmountsTypedNext DEF Typed
<1>2. "new" \notin InCall /\ "denied" \notin InCall /\ "returned" \notin InCall /\ "reserve" \in InCall
    BY DEF InCall, Sending
<1>3. /\ HoldOf[c] = IF Holding(c) THEN held[c] ELSE 0
      /\ HoldOf'[c] = IF Holding(c)' THEN held'[c] ELSE 0
      /\ at[c] # "returned" => SpentOf[c] = 0 /\ ExcessOf[c] = 0
      /\ at'[c] # "returned" => SpentOf'[c] = 0 /\ ExcessOf'[c] = 0
    BY DEF HoldOf, SpentOf, ExcessOf
<1>4. CASE Stays(c)
    <2>1. at[c] # "returned" /\ at'[c] # "returned"
        BY <1>2, <1>4 DEF Stays, Holding
    <2>2. /\ pending' = pending - HoldOf[c] + HoldOf'[c]
          /\ spent' = spent - SpentOf[c] + SpentOf'[c]
          /\ (SpentOf'[c] + HoldOf'[c]) - (SpentOf[c] + HoldOf[c]) <= ExcessOf'[c] - ExcessOf[c]
        BY <1>1, <1>3, <1>4, <2>1 DEF Stays
    <2>. QED BY <2>2, OneBudget
<1>5. CASE Takes(c)
    <2>1. ~Holding(c) /\ Holding(c)'
        BY <1>2, <1>5 DEF Takes, Holding
    <2>2. /\ pending' = pending - HoldOf[c] + HoldOf'[c]
          /\ spent' = spent - SpentOf[c] + SpentOf'[c]
          /\ spent' + pending' <= Cap
        BY <1>1, <1>3, <1>5, <2>1, MeteredCallAssumption DEF Takes
    <2>. QED BY <2>2, OneBudget
<1>6. CASE Denied(c)
    <2>1. ~Holding(c) /\ ~Holding(c)'
        BY <1>2, <1>6 DEF Denied, Holding
    <2>2. /\ pending' = pending - HoldOf[c] + HoldOf'[c]
          /\ spent' = spent - SpentOf[c] + SpentOf'[c]
          /\ (SpentOf'[c] + HoldOf'[c]) - (SpentOf[c] + HoldOf[c]) <= ExcessOf'[c] - ExcessOf[c]
        BY <1>1, <1>3, <1>6, <2>1 DEF Denied
    <2>. QED BY <2>2, OneBudget
<1>7. CASE Refused(c)
    <2>1. at[c] # "returned" /\ ~Holding(c)'
        BY <1>2, <1>7 DEF Refused, Holding
    <2>2. pending' = pending - held[c]
        BY <1>1, <1>7, HeldCounted DEF Refused, Give
    <2>3. /\ pending' = pending - HoldOf[c] + HoldOf'[c]
          /\ spent' = spent - SpentOf[c] + SpentOf'[c]
          /\ (SpentOf'[c] + HoldOf'[c]) - (SpentOf[c] + HoldOf[c]) <= ExcessOf'[c] - ExcessOf[c]
        BY <1>1, <1>3, <1>7, <2>1, <2>2 DEF Refused
    <2>. QED BY <2>3, OneBudget
<1>8. CASE Record(c)
    <2>1. /\ at[c] = "record" /\ at'[c] = "returned" /\ Give(c)
          /\ held' = held /\ cost' = cost
          /\ spent' = IF Known(c) THEN spent + cost[c] ELSE spent
        BY <1>8 DEF Record, Go, call, Known, Typed
    <2>2. Holding(c) /\ ~Holding(c)'
        BY <1>2, <2>1 DEF Holding, InCall
    <2>3. pending' = pending - held[c]
        BY <1>1, <2>1, <2>2, HeldCounted DEF Give
    <2>4. /\ SpentOf'[c] = IF Known(c) THEN cost[c] ELSE 0
          /\ ExcessOf'[c] = IF Known(c) /\ cost[c] > held[c] THEN cost[c] - held[c] ELSE 0
        BY <2>1 DEF SpentOf, ExcessOf, Known, Excess
    <2>5. /\ pending' = pending - HoldOf[c] + HoldOf'[c]
          /\ spent' = spent - SpentOf[c] + SpentOf'[c]
          /\ (SpentOf'[c] + HoldOf'[c]) - (SpentOf[c] + HoldOf[c]) <= ExcessOf'[c] - ExcessOf[c]
        BY <1>1, <1>3, <2>1, <2>2, <2>3, <2>4
    <2>. QED BY <2>5, <2>1, OneBudget
<1>. QED BY <1>4, <1>5, <1>6, <1>7, <1>8

\* What a call does, or what befalls it, is one of them.
LEMMA BudgetShape ==
    ASSUME Typed, NEW c \in Calls, Advance(c) \/ Disturb(c)
    PROVE  /\ \A d \in Calls \ {c} : at'[d] = at[d] /\ held'[d] = held[d] /\ cost'[d] = cost[d]
           /\ Stays(c) \/ Takes(c) \/ Denied(c) \/ Refused(c) \/ Record(c)
<1>. USE DEF Typed, Go
<1>1. ASSUME NEW d \in Calls \ {c}
      PROVE  at'[d] = at[d] /\ held'[d] = held[d] /\ cost'[d] = cost[d]
    <2>1. Frame(d)
        BY Others
    <2>2. held'[d] = held[d]
        BY DEF Advance, CheckLocal, RefuseLocally, Reserve, DenyReserve, ReserveUnavailable,
           RunUnreserved, Journal, Acked, StartRefused, Unacked, ProviderAnswers,
           ProviderRaises, Outcome, Record, Disturb, StartUnjournaled, SettleUnjournaled,
           CancelReserve, CancelSignal, CancelProvider, CancelReconcile, Cancel, call
    <2>. QED BY <2>1, <2>2 DEF Frame
<1>2. CASE CheckLocal(c)
    BY <1>1, <1>2 DEF CheckLocal, Fits, Takes
<1>3. CASE RefuseLocally(c)
    BY <1>1, <1>3 DEF RefuseLocally, Denied, budget
<1>4. CASE DenyReserve(c) \/ ReserveUnavailable(c) \/ StartRefused(c)
    BY <1>1, <1>4 DEF DenyReserve, ReserveUnavailable, StartRefused, Refuse, Refused, Holding, InCall, Sending
<1>5. CASE Reserve(c) \/ RunUnreserved(c) \/ Journal(c)
    BY <1>5 DEF Reserve, RunUnreserved, Dispatch, Journal, Stays, Holding, InCall, Sending, call, budget
<1>6. CASE Acked(c) \/ Unacked(c)
    BY <1>6 DEF Acked, Unacked, Proceed, Dispatch, Finished, Stays, Holding, InCall, Sending, call, budget
<1>7. CASE ProviderAnswers(c) \/ ProviderRaises(c)
    BY <1>7 DEF ProviderAnswers, ProviderRaises, Outcome, Stays, Holding, InCall, Sending, budget
<1>8. CASE StartUnjournaled(c)
    BY <1>8 DEF StartUnjournaled, Refuse, Refused, Dispatch, Stays, Holding, InCall, Sending, call, budget
<1>9. CASE SettleUnjournaled(c)
    BY <1>9 DEF SettleUnjournaled, Finished, Stays, Holding, InCall, Sending, call, budget
<1>10. CASE CancelReserve(c) \/ CancelSignal(c) \/ CancelProvider(c) \/ CancelReconcile(c)
    BY <1>10 DEF CancelReserve, CancelSignal, CancelProvider, CancelReconcile, Cancel, Stays,
       Holding, InCall, Sending, budget
<1>11. CASE Advance(c)
    <2>1. \/ CheckLocal(c) \/ RefuseLocally(c) \/ Reserve(c) \/ DenyReserve(c)
          \/ ReserveUnavailable(c) \/ RunUnreserved(c) \/ Journal(c) \/ Acked(c)
          \/ StartRefused(c) \/ Unacked(c) \/ ProviderAnswers(c) \/ ProviderRaises(c) \/ Record(c)
        BY ONLY <1>11 DEF Advance
    <2>. QED BY ONLY <2>1, <1>1, <1>2, <1>3, <1>4, <1>5, <1>6, <1>7
<1>12. CASE Disturb(c)
    <2>1. \/ StartUnjournaled(c) \/ SettleUnjournaled(c) \/ CancelReserve(c) \/ CancelSignal(c)
          \/ CancelProvider(c) \/ CancelReconcile(c)
        BY ONLY <1>12 DEF Disturb
    <2>. QED BY ONLY <2>1, <1>1, <1>8, <1>9, <1>10
<1>. QED BY <1>11, <1>12

\* Every step keeps the counters the totals.
LEMMA BudgetStep ==
    ASSUME Typed, Typed', BudgetOK, [Next]_vars
    PROVE  BudgetOK'
<1>1. ASSUME NEW c \in Calls, Advance(c) \/ Disturb(c) PROVE BudgetOK'
    BY <1>1, BudgetShape, BudgetMoves
<1>2. ASSUME UNCHANGED <<at, held, cost, pending, spent>> PROVE BudgetOK'
    BY <1>2 DEF BudgetOK, HoldOf, SpentOf, ExcessOf, Holding, Known, Excess
<1>3. ASSUME (\E i \in journal : Flush(i)) \/ Prune \/ UNCHANGED vars PROVE BudgetOK'
    BY <1>2, <1>3 DEF Flush, Prune, vars, call, budget
<1>. QED BY <1>1, <1>3 DEF Next

-----------------------------------------------------------------------------
(* The theorems. *)

\* The invariant holds before the first call.
LEMMA InitIInv == Init => IInv
<1> SUFFICES ASSUME Init PROVE IInv
    OBVIOUS
<1>1. Typed
    BY MeteredCallAssumption DEF Init, Typed, InCall, Ended, Amounts, States
<1>2. IsFiniteSet(Returned) /\ Cardinality(Returned) \in Nat
    BY MeteredCallAssumption, FS_Subset, FS_CardinalityType DEF Returned
<1>3. WindowOK
    BY <1>2 DEF Init, WindowOK
<1>4. \A c \in Calls : CallOK(c)
    BY DEF Init, CallOK, FreshOK, AmountOK, LedgerOK, ToldOK, Before, Ended
<1>5. BudgetOK
    <2>1. PICK h \in [Calls -> Nat], s \in [Calls -> Nat], e \in [Calls -> Nat] :
            h = HoldOf /\ s = SpentOf /\ e = ExcessOf
        BY <1>1, AmountsTyped
    <2>2. \A c \in Calls : h[c] = 0 /\ s[c] = 0 /\ e[c] = 0
        BY <2>1 DEF Init, HoldOf, SpentOf, ExcessOf, Holding, InCall, Sending
    <2>3. Total(h, Calls) = 0 /\ Total(s, Calls) = 0 /\ Total(e, Calls) = 0
        BY <2>2, MeteredCallAssumption, TotalNothing
    <2>. QED BY <2>1, <2>3, MeteredCallAssumption DEF Init, BudgetOK
<1> QED
    BY <1>1, <1>3, <1>4, <1>5 DEF IInv

\* It is inductive.
LEMMA NextIInv == IInv /\ [Next]_vars => IInv'
<1> SUFFICES ASSUME IInv, [Next]_vars PROVE IInv'
    OBVIOUS
<1> Typed /\ WindowOK /\ BudgetOK /\ \A c \in Calls : CallOK(c)
    BY DEF IInv
<1> Typed'
    BY TypedStep
<1>1. ASSUME NEW c \in Calls PROVE CallOK(c)'
    <2>1. ASSUME NEW d \in Calls, Advance(d) \/ Disturb(d) PROVE CallOK(c)'
        <3>1. CASE d = c
            BY <2>1, <3>1, OwnAdvance, OwnDisturb
        <3>2. CASE d # c
            <4>1. Frame(c)
                BY <2>1, <3>2, Others
            <4> QED
                BY <4>1, Framed
        <3> QED
            BY <3>1, <3>2
    <2>2. ASSUME NEW i \in journal, Flush(i) PROVE CallOK(c)'
        BY <2>2, FlushStep
    <2>3. CASE Prune \/ UNCHANGED vars
        <3>1. Frame(c)
            BY <2>3 DEF Prune, vars, Frame, call, finops, files, bounds
        <3> QED
            BY <3>1, Framed
    <2> QED
        BY <2>1, <2>2, <2>3 DEF Next
<1> QED
    BY <1>1, WindowStep, BudgetStep DEF IInv

\* Every state of the calls satisfies the inductive invariant.
THEOREM InductiveInvariant == Spec => []IInv
<1>1. Init => IInv
    BY InitIInv
<1>2. IInv /\ [Next]_vars => IInv'
    BY NextIInv
<1> QED
    BY <1>1, <1>2, PTL DEF Spec

\* Every variable keeps its type; the rate window never counts more calls than
\* there are.
THEOREM TypeCorrect == Spec => []TypeOK
<1>1. IInv => TypeOK
    <2> SUFFICES ASSUME IInv PROVE TypeOK
        OBVIOUS
    <2>1. recent \in 0..Cardinality(Calls)
        <3>1. /\ Cardinality(Returned) <= Cardinality(Calls)
              /\ Cardinality(Returned) \in Nat
              /\ Cardinality(Calls) \in Nat
            BY MeteredCallAssumption, FS_Subset, FS_CardinalityType DEF Returned
        <3> QED
            BY <3>1 DEF IInv, Typed, WindowOK
    <2> QED
        BY <2>1 DEF IInv, Typed, TypeOK, States
<1> QED
    BY <1>1, InductiveInvariant, PTL

\* Under fail-closed nothing is dispatched on a reservation that FinOps takes
\* for unstarted (the required provider_started).
THEOREM DispatchedAreStarted == Spec => []StartedBeforeDispatch
<1>1. IInv => StartedBeforeDispatch
    BY DEF IInv, Typed, CallOK, LedgerOK, StartedBeforeDispatch
<1> QED
    BY <1>1, InductiveInvariant, PTL

\* Every reservation FinOps settles is settled at what its call cost, whatever
\* was lost, repeated or cancelled.
THEOREM SettlementExact == Spec => []SettledAtCost
<1>1. IInv => SettledAtCost
    BY DEF IInv, CallOK, LedgerOK, SettledAtCost
<1> QED
    BY <1>1, InductiveInvariant, PTL

\* Every hold is counted once, until its call records or is refused; only the
\* calls that end without either leave theirs behind.
THEOREM HoldsAreCounted == Spec => []HoldsAccounted
<1>1. IInv => HoldsAccounted
    <2>. SUFFICES ASSUME IInv PROVE HoldsAccounted
        OBVIOUS
    <2>01. PICK h, f : h = HoldOf /\ f = held
        OBVIOUS
    <2>02. PICK T \in SUBSET Calls : T = {c \in Calls : Holding(c)}
        OBVIOUS
    <2>1. h = HoldOf /\ f = held /\ T = {c \in Calls : Holding(c)}
        BY <2>01, <2>02
    <2>2. AmountsOf(f, T) /\ \A c \in Calls : h[c] = IF c \in T THEN f[c] ELSE 0
        BY <2>1, AmountsTyped DEF IInv, AmountsOf, HoldOf
    <2>3. Total(f, T) = Total(h, Calls)
        BY <2>2, MeteredCallAssumption, TotalMasked
    <2>. QED BY <2>1, <2>3 DEF IInv, BudgetOK, HoldsAccounted
<1> QED
    BY <1>1, InductiveInvariant, PTL

\* What is over the cap is no more than what the calls cost beyond their
\* projections, for any number of concurrent calls.
THEOREM CapIsKept == Spec => []CapKept
<1>1. IInv => CapKept
    <2>. SUFFICES ASSUME IInv PROVE CapKept
        OBVIOUS
    <2>. DEFINE none == [c \in Calls |-> 0]
    <2>1. PICK e, o : e = ExcessOf /\ o = [c \in Calls |-> Excess(c)]
        OBVIOUS
    <2>2. /\ AmountsOf(e, Calls) /\ AmountsOf(o, Calls) /\ AmountsOf(none, Calls)
          /\ \A c \in Calls : e[c] <= o[c] + none[c] + none[c]
        BY <2>1, AmountsTyped DEF IInv, AmountsOf, ExcessOf
    <2>3. Total(e, Calls) <= Total(o, Calls) + Total(none, Calls) + Total(none, Calls)
        BY <2>2, MeteredCallAssumption, TotalWithin
    <2>4. Total(none, Calls) = 0
        BY MeteredCallAssumption, TotalNothing
    <2>. HIDE DEF none
    <2>5. /\ spent + pending <= Cap + Total(e, Calls)
          /\ Overrun = Total(o, Calls)
        BY <2>1 DEF IInv, BudgetOK, Overrun
    <2>6. Total(e, Calls) \in Nat /\ Total(o, Calls) \in Nat
        BY <2>2, MeteredCallAssumption, TotalType
    <2>. QED BY <2>3, <2>4, <2>5, <2>6, MeteredCallAssumption DEF IInv, Typed, CapKept
<1> QED
    BY <1>1, InductiveInvariant, PTL

\* What FinOps has settled is within what Enforcement counts against the cap at
\* every moment of the settlement.
THEOREM SettledIsCovered == Spec => []LocalCoversSettled
<1>1. IInv => LocalCoversSettled
    <2>. SUFFICES ASSUME IInv PROVE LocalCoversSettled
        OBVIOUS
    <2>01. PICK f : f = settled
        OBVIOUS
    <2>02. PICK T \in SUBSET Calls : T = {c \in Calls : ledger[c] = "settled"}
        OBVIOUS
    <2>1. f = settled /\ T = {c \in Calls : ledger[c] = "settled"}
        BY <2>01, <2>02
    <2>2. PICK s, h, o : s = SpentOf /\ h = HoldOf /\ o = [c \in Calls |-> Excess(c)]
        OBVIOUS
    <2>3. \A c \in T : Known(c) /\ f[c] = cost[c]
        BY <2>1 DEF IInv, CallOK, LedgerOK
    <2>4. AmountsOf(f, T)
        BY <2>3, AmountsTyped DEF IInv, AmountsOf
    <2>. DEFINE m == [c \in Calls |-> IF c \in T THEN f[c] ELSE 0]
    <2>5. AmountsOf(m, Calls) /\ AmountsOf(s, Calls) /\ AmountsOf(h, Calls) /\ AmountsOf(o, Calls)
        BY <2>2, <2>4, AmountsTyped DEF IInv, AmountsOf
    <2>6. ASSUME NEW c \in Calls PROVE m[c] <= s[c] + h[c] + o[c]
        <3>1. s[c] \in Nat /\ h[c] \in Nat /\ o[c] \in Nat
            BY <2>5 DEF AmountsOf
        <3>2. CASE c \in T
            <4>1. Known(c) /\ m[c] = cost[c] /\ cost[c] \in Nat /\ held[c] \in Nat
                BY <2>3, <3>2, AmountsTyped DEF IInv
            <4>2. at[c] = "returned" \/ Holding(c)
                BY <4>1 DEF IInv, CallOK, FreshOK, Typed, Before, Known, Holding, Ended
            <4>. QED BY <2>2, <3>1, <4>1, <4>2 DEF SpentOf, HoldOf, Excess
        <3>3. CASE c \notin T
            BY <3>1, <3>3
        <3>. QED BY <3>2, <3>3
    <2>7. Total(f, T) = Total(m, Calls)
        BY <2>4, MeteredCallAssumption, TotalMasked
    <2>8. Total(m, Calls) <= Total(s, Calls) + Total(h, Calls) + Total(o, Calls)
        <3>. HIDE DEF m
        <3>. QED BY <2>5, <2>6, MeteredCallAssumption, TotalWithin
    <2>9. spent = Total(s, Calls) /\ pending = Total(h, Calls) /\ Overrun = Total(o, Calls)
        BY <2>2 DEF IInv, BudgetOK, Overrun
    <2>. QED BY <2>1, <2>7, <2>8, <2>9 DEF LocalCoversSettled
<1> QED
    BY <1>1, InductiveInvariant, PTL


-----------------------------------------------------------------------------
(* Metered calls implement ReservationContract.                            *)

Settling == {"reconcile", "reconcileSent", "mark", "markSent"}

\* How far a call is, and what the journal may hold of it: nothing but the start
\* of a call whose outcome is not there.
DoneOK(c) ==
    /\ at[c] \in {"new", "reserve"} => ledger[c] = "none"
    /\ at[c] \in {"start", "startSent"} \cup Settling => c \in reserved
    /\ at[c] \in {"provider", "record", "returned"} \cup Settling => c \in dispatched
    /\ cost[c] # Unknown => c \in Done
    /\ \A i \in journal : i.call = c =>
         c \in reserved /\ (i.event # "provider_started" => c \in Done)

AllDone == \A c \in Calls : DoneOK(c)

\* A step that frames a call keeps how far it is.
LEMMA DoneFramed ==
    ASSUME Typed, Typed', NEW c \in Calls, DoneOK(c), Frame(c)
    PROVE  DoneOK(c)'
<1>1. journal \subseteq Intents /\ journal' \subseteq Intents
    BY DEF Typed
<1>. QED BY <1>1 DEF DoneOK, Frame, Done

\* So do the steps of the call.
LEMMA DoneAdvance ==
    ASSUME Typed, Typed', NEW c \in Calls, CallOK(c), DoneOK(c), Advance(c)
    PROVE  DoneOK(c)'
<1>. USE MeteredCallAssumption
    DEF Typed, CallOK, FreshOK, DoneOK, Settling, Done, Before, Ended, Go
<1>1. CASE CheckLocal(c) \/ RefuseLocally(c)
    BY <1>1 DEF files, CheckLocal, RefuseLocally, call, finops, bounds
<1>2. CASE Reserve(c)
    BY <1>2 DEF files, Reserve, bounds
<1>3. CASE DenyReserve(c)
    BY <1>3 DEF files, DenyReserve, Refuse, call, finops, bounds
<1>4. CASE ReserveUnavailable(c) \/ RunUnreserved(c)
    BY <1>4 DEF files, ReserveUnavailable, RunUnreserved, PerhapsReserved, Refuse, Dispatch, call, bounds
<1>5. CASE Journal(c)
    <2>1. Signal(c).event = "provider_started" <=> at[c] \in {"start", "startSent"}
        BY SignalOK
    <2>. QED BY <1>5, <2>1 DEF Journal, call, finops, bounds
<1>6. CASE Acked(c)
    BY <1>6 DEF Acked, Proceed, Dispatch, Finished, call, bounds
<1>7. CASE StartRefused(c)
    BY <1>7 DEF files, StartRefused, Refuse, call, bounds
<1>8. CASE Unacked(c)
    BY <1>8 DEF files, Unacked, Proceed, Dispatch, Finished, call, bounds
<1>9. CASE ProviderAnswers(c)
    BY <1>9 DEF files, ProviderAnswers, Outcome, finops, bounds
<1>10. CASE ProviderRaises(c)
    BY <1>10 DEF files, ProviderRaises, Outcome, finops, bounds
<1>11. CASE Record(c)
    BY <1>11 DEF files, Record, call, finops, bounds
<1>. QED
    BY <1>1, <1>2, <1>3, <1>4, <1>5, <1>6, <1>7, <1>8, <1>9, <1>10, <1>11 DEF Advance

LEMMA DoneDisturb ==
    ASSUME Typed, Typed', NEW c \in Calls, CallOK(c), DoneOK(c), Disturb(c)
    PROVE  DoneOK(c)'
<1>. USE MeteredCallAssumption
    DEF Typed, CallOK, FreshOK, DoneOK, Settling, Done, Before, Ended, Go
<1>1. CASE StartUnjournaled(c)
    BY <1>1 DEF files, StartUnjournaled, Fault, Refuse, Dispatch, call, finops
<1>2. CASE SettleUnjournaled(c)
    BY <1>2 DEF files, SettleUnjournaled, Fault, Finished, call, finops
<1>3. CASE CancelReserve(c)
    BY <1>3 DEF files, CancelReserve, Cancel, PerhapsReserved
<1>4. CASE CancelSignal(c)
    BY <1>4 DEF files, CancelSignal, Cancel
<1>5. CASE CancelProvider(c)
    BY <1>5 DEF files, CancelProvider, Cancel, finops
<1>6. CASE CancelReconcile(c)
    BY <1>6 DEF files, CancelReconcile, Cancel
<1>. QED
    BY <1>1, <1>2, <1>3, <1>4, <1>5, <1>6 DEF Disturb

\* How far every call is, in every state.
LEMMA DoneInvariant == Spec => [](IInv /\ AllDone)
<1>1. Init => AllDone
    BY DEF Init, AllDone, DoneOK, Done, Settling
<1>2. IInv /\ IInv' /\ AllDone /\ [Next]_vars => AllDone'
    <2>. SUFFICES ASSUME IInv, IInv', AllDone, [Next]_vars, NEW c \in Calls
                  PROVE  DoneOK(c)'
        BY DEF AllDone
    <2>. Typed /\ Typed' /\ CallOK(c) /\ \A d \in Calls : DoneOK(d) /\ CallOK(d)
        BY DEF IInv, AllDone
    <2>1. ASSUME NEW d \in Calls, Advance(d) \/ Disturb(d) PROVE DoneOK(c)'
        BY <2>1, DoneAdvance, DoneDisturb, DoneFramed, Others
    <2>2. ASSUME NEW i \in journal, Flush(i) PROVE DoneOK(c)'
        <3>1. i \in Intents /\ (i.call = c => c \in reserved)
            BY DEF Typed, DoneOK
        <3>2. ledger[c] = "none" => ledger'[c] = "none"
            BY <2>2, <3>1, Delivered DEF Flush, Deliver, Quarantine, finops, CallOK, LedgerOK
        <3>. QED BY <2>2, <3>2 DEF Flush, Deliver, Quarantine, DoneOK, Done, call
    <2>3. CASE Prune \/ UNCHANGED vars
        <3>1. Frame(c)
            BY <2>3 DEF files, Prune, vars, Frame, call, finops, bounds
        <3>. QED BY <3>1, DoneFramed
    <2>. QED BY <2>1, <2>2, <2>3 DEF Next
<1>. QED BY <1>1, <1>2, InductiveInvariant, PTL DEF Spec

\* What is set aside tells the outcome of a call that was dispatched; one that is
\* fail-closed was started, and so FinOps refused its outcome for another reason.
AsideOK ==
    \A c \in aside : c \in reserved \cap dispatched /\ (mode[c].strict => faults > 0)

\* What no step takes back, and what only the flusher changes.
Growing ==
    /\ mode' = mode /\ reserved \subseteq reserved' /\ dispatched \subseteq dispatched'
    /\ faults' \in {faults, faults + 1}
    /\ aside' = aside

LEMMA CallsGrow ==
    ASSUME NEW c \in Calls, Advance(c) \/ Disturb(c)
    PROVE  Growing
<1>. USE DEF Growing, files, call, bounds
<1>1. CASE CheckLocal(c) \/ RefuseLocally(c) \/ Reserve(c) \/ DenyReserve(c)
    BY <1>1 DEF CheckLocal, RefuseLocally, Reserve, DenyReserve
<1>2. CASE ReserveUnavailable(c) \/ RunUnreserved(c)
    BY <1>2 DEF ReserveUnavailable, RunUnreserved, Dispatch
<1>3. CASE Journal(c) \/ Acked(c) \/ StartRefused(c) \/ Unacked(c)
    BY <1>3 DEF Journal, Acked, StartRefused, Unacked, Proceed, Dispatch
<1>4. CASE ProviderAnswers(c) \/ ProviderRaises(c) \/ Record(c)
    BY <1>4 DEF ProviderAnswers, ProviderRaises, Outcome, Record
<1>5. CASE StartUnjournaled(c) \/ SettleUnjournaled(c)
    BY <1>5 DEF StartUnjournaled, SettleUnjournaled, Fault, Dispatch
<1>6. CASE CancelReserve(c) \/ CancelSignal(c) \/ CancelProvider(c) \/ CancelReconcile(c)
    BY <1>6 DEF CancelReserve, CancelSignal, CancelProvider, CancelReconcile, Cancel
<1>. QED BY <1>1, <1>2, <1>3, <1>4, <1>5, <1>6 DEF Advance, Disturb

LEMMA AsideInvariant == Spec => [](IInv /\ AsideOK)
<1>1. Init => AsideOK
    BY DEF Init, AsideOK
<1>2. IInv /\ IInv' /\ AllDone /\ AsideOK /\ [Next]_vars => AsideOK'
    <2>. SUFFICES ASSUME IInv, IInv', AllDone, AsideOK, [Next]_vars PROVE AsideOK'
        OBVIOUS
    <2>. Typed /\ Typed' /\ faults \in Nat /\ faults' \in Nat
        BY MeteredCallAssumption DEF IInv, Typed
    <2>1. CASE Growing
        BY <2>1 DEF Growing, AsideOK
    <2>2. ASSUME NEW i \in journal, Flush(i) PROVE AsideOK'
        <3>1. i \in Intents /\ i.call \in Calls
            BY DEF Typed, Intents
        <3>2. UNCHANGED <<mode, reserved, dispatched>>
            BY <2>2 DEF Flush, Deliver, Quarantine, call
        <3>3. CASE Deliver(i)
            BY <3>2, <3>3 DEF Deliver, AsideOK
        <3>4. CASE Quarantine(i) /\ i.event = "provider_started"
            BY <3>2, <3>4 DEF Quarantine, Fault, AsideOK
        <3>5. CASE Quarantine(i) /\ i.event # "provider_started"
            <4>1. i.call \in reserved \cap dispatched
                BY <3>1, <3>5 DEF AllDone, DoneOK, Done
            <4>2. mode[i.call].strict => Accepts(i)
                BY <3>1, <4>1 DEF IInv, CallOK, LedgerOK, Accepts
            <4>3. /\ faults' \in {faults, faults + 1} /\ aside' = aside \cup {i.call}
                  /\ mode[i.call].strict => faults' = faults + 1
                BY <3>5, <4>2 DEF Quarantine, Fault
            <4>. QED BY <3>2, <4>1, <4>3 DEF AsideOK
        <3>. QED BY <2>2, <3>3, <3>4, <3>5 DEF Flush
    <2>3. CASE Prune \/ UNCHANGED vars
        BY <2>1, <2>3 DEF Prune, vars, files, call, bounds, Growing
    <2>. QED BY <2>1, <2>2, <2>3, CallsGrow DEF Next
<1>. QED BY <1>1, <1>2, DoneInvariant, InductiveInvariant, PTL DEF Spec

\* However a dispatched call ends, the evidence of its outcome is with FinOps, in
\* the journal or in quarantine, unless it could not be written; and while nothing
\* fails, that of a call that is fail-closed is never set aside.
THEOREM EndsWithEvidence == Spec => []EvidenceKept
<1>1. IInv /\ AsideOK => EvidenceKept
    BY DEF IInv, Typed, CallOK, ToldOK, Told, AsideOK, EvidenceKept
<1>. QED BY <1>1, AsideInvariant, PTL

\* What FinOps may do in a step, said of the one call.
FinopsMoves(c) ==
    \/ ledger'[c] = ledger[c] /\ settled'[c] = settled[c]
    \/ /\ settled'[c] = settled[c]
       /\ \/ ledger[c] = "none" /\ ledger'[c] = "reserved"
          \/ ledger[c] = "reserved" /\ ledger'[c] = "in_flight"
          \/ /\ ledger[c] = "in_flight"
             /\ ledger'[c] = "pending_reconciliation" /\ c \in Done
    \/ /\ ledger[c] \in {"in_flight", "pending_reconciliation"}
       /\ ledger'[c] = "settled" /\ settled'[c] = cost[c]
       /\ c \in Done /\ cost[c] # Unknown

\* And the call.
CallMoves(c) ==
    \/ /\ c \in dispatched => c \in dispatched'
       /\ c \in Done' <=> c \in Done
       /\ cost'[c] = cost[c]
    \/ c \in dispatched \ Done /\ c \in dispatched' /\ c \in Done'

EvidenceMoves(c) ==
    /\ Told(c) => Told(c)'
    /\ c \in Over => c \in Over'
    /\ c \in Over' => c \in Done' /\ Told(c)'

\* A step of one call is one of the contract if what it changes of that call is.
LEMMA Contracted ==
    ASSUME Typed, Typed', NEW c \in Calls, \A d \in Calls \ {c} : Frame(d),
           FinopsMoves(c), CallMoves(c), EvidenceMoves(c)
    PROVE  Contract!Next
<1>. USE DEF Typed
<1>1. Contract!Reserves(c) \/ Contract!Starts(c) \/ Contract!Doubts(c) \/ Contract!Settles(c)
        \/ Contract!Cancels(c) \/ UNCHANGED <<ledger, settled>>
    <2>1. ledger' = [ledger EXCEPT ![c] = ledger'[c]] /\ settled' = [settled EXCEPT ![c] = settled'[c]]
        BY DEF Frame
    <2>2. CASE ledger'[c] = ledger[c] /\ settled'[c] = settled[c]
        BY <2>1, <2>2
    <2>3. CASE settled'[c] = settled[c] /\ ledger'[c] # ledger[c]
        <3>1. settled' = settled
            BY <2>1, <2>3
        <3>. QED BY <2>1, <2>3, <3>1 DEF FinopsMoves, Contract!Reserves, Contract!Starts,
                    Contract!Doubts, Contract!Settles, Contract!Becomes
    <2>4. CASE settled'[c] # settled[c]
        BY <2>1, <2>4 DEF FinopsMoves, Contract!Settles, Contract!Becomes
    <2>. QED BY <2>2, <2>3, <2>4
<1>2. Contract!Runs(c) \/ Contract!Finishes(c) \/ UNCHANGED <<dispatched, Done, cost>>
    <2>1. \A d \in Calls \ {c} : /\ d \in dispatched' <=> d \in dispatched
                                 /\ d \in Done' <=> d \in Done
        BY DEF Frame, Done
    <2>2. cost' = [cost EXCEPT ![c] = cost'[c]] /\ cost'[c] \in Costs \cup {Unknown}
        BY DEF Frame, Amounts
    <2>3. Done \subseteq Calls /\ Done' \subseteq Calls
        BY DEF Done
    <2>6. dispatched \subseteq Calls /\ dispatched' \subseteq Calls
        OBVIOUS
    <2>4. CASE (c \in Done' <=> c \in Done) /\ cost'[c] = cost[c] /\ (c \in dispatched => c \in dispatched')
        <3>1. Done' = Done /\ cost' = cost
            <4>1. \A d \in Calls : d \in Done' <=> d \in Done
                BY <2>1, <2>4
            <4>2. Done' = Done
                BY <2>3, <4>1
            <4>3. cost' = cost
                BY <2>2, <2>4
            <4>. QED BY <4>2, <4>3
        <3>2. dispatched' = dispatched \/ dispatched' = dispatched \cup {c}
            <4>1. CASE c \in dispatched' => c \in dispatched
                <5>1. \A d \in Calls : d \in dispatched' <=> d \in dispatched
                    BY <2>1, <2>4, <4>1
                <5>. QED BY <2>6, <5>1
            <4>2. CASE c \in dispatched'
                <5>1. \A d \in Calls : d \in dispatched' <=> d \in dispatched \cup {c}
                    BY <2>1, <4>2
                <5>. QED BY <2>6, <5>1
            <4>. QED BY <4>1, <4>2
        <3>3. ledger[c] # "cancelled_before_call"
            BY DEF States
        <3>. QED BY <3>1, <3>2, <3>3 DEF Contract!Runs
    <2>5. CASE c \in dispatched \ Done /\ c \in dispatched' /\ c \in Done'
        <3>1. /\ \A d \in Calls : d \in dispatched' <=> d \in dispatched
              /\ \A d \in Calls : d \in Done' <=> d \in Done \cup {c}
            BY <2>1, <2>5
        <3>2. dispatched' = dispatched /\ Done' = Done \cup {c}
            BY <2>3, <2>6, <3>1
        <3>. QED BY <2>2, <2>5, <3>2 DEF Contract!Finishes
    <2>. QED BY <2>4, <2>5 DEF CallMoves
<1>3. \A d \in Calls \ {c} : (Told(d) => Told(d)') /\ (d \in Over' <=> d \in Over)
    BY DEF Frame, Told, Resolved, Over
<1>4. {d \in Calls : Told(d)} \subseteq {d \in Calls : Told(d)}'
    BY <1>3 DEF EvidenceMoves
<1>5. Over' \in {Over, Over \cup ({c} \cap Done' \cap {d \in Calls : Told(d)}')}
    <2>1. Over \subseteq Calls /\ Over' \subseteq Calls
        BY DEF Over
    <2>2. CASE c \in Over' <=> c \in Over
        <3>1. \A d \in Calls : d \in Over' <=> d \in Over
            BY <1>3, <2>2
        <3>. QED BY <2>1, <3>1
    <2>3. CASE c \in Over' /\ c \notin Over
        <3>1. Over' = Over \cup {c}
            BY <1>3, <2>1, <2>3
        <3>2. {c} \cap Done' \cap {d \in Calls : Told(d)}' = {c}
            BY <2>3 DEF EvidenceMoves
        <3>. QED BY <3>1, <3>2
    <2>. QED BY <2>2, <2>3 DEF EvidenceMoves
<1>. QED BY <1>1, <1>2, <1>4, <1>5 DEF Contract!Next

\* The delivery of a signal is a step of FinOps that the contract has.
LEMMA DeliveryMoves ==
    ASSUME Typed, NEW c \in Calls, CallOK(c), DoneOK(c), c \in reserved,
           NEW i \in Intents, i.call = c, Apply(i),
           i.event # "provider_started" => c \in Done,
           i.event = "usage_known" => i.amount = cost[c] /\ i.amount # Unknown
    PROVE  FinopsMoves(c)
<1>1. i.event \in {"provider_started", "usage_known", "outcome_unknown"}
    BY DEF Intents, Events
<1>2. ledger[c] \in States \ {"none"}
    BY DEF Typed, CallOK, LedgerOK
<1>3. /\ i.event # "provider_started" => ledger[c] # "reserved"
      /\ ledger'[c] = IF i.event = "usage_known" THEN "settled"
                      ELSE IF i.event = "outcome_unknown"
                           THEN IF ledger[c] = "in_flight"
                                THEN "pending_reconciliation" ELSE ledger[c]
                           ELSE IF ledger[c] = "reserved" THEN "in_flight" ELSE ledger[c]
      /\ settled'[c] = IF i.event = "usage_known" /\ ledger[c] # "settled" THEN i.amount ELSE settled[c]
    BY <1>1 DEF Typed, Apply, Accepts
<1>. QED BY <1>1, <1>2, <1>3 DEF FinopsMoves, States

\* The step of a call that sends a signal.
LEMMA SignalMoves ==
    ASSUME Typed, NEW c \in Calls, CallOK(c), DoneOK(c), PerhapsApplied(Signal(c)),
           at[c] \in Sending
    PROVE  FinopsMoves(c)
<1>1. c \in reserved /\ (Signal(c).event # "provider_started" => c \in Done)
    BY SignalOK DEF DoneOK, Sending, Settling, Done
<1>2. CASE Apply(Signal(c))
    BY <1>1, <1>2, SignalOK, DeliveryMoves
<1>3. CASE UNCHANGED finops
    BY <1>3 DEF FinopsMoves, finops
<1>. QED BY <1>2, <1>3 DEF PerhapsApplied

\* A step that leaves the journal and FinOps alone changes no evidence.
LEMMA StillTold ==
    ASSUME NEW c \in Calls, Resolved(c) => Resolved(c)', journal \subseteq journal',
           c \in unjournaled => c \in unjournaled', c \in aside => c \in aside'
    PROVE  Told(c) => Told(c)'
BY DEF Told

\* An intent that FinOps applies and the journal gives up takes no evidence away.
LEMMA ToldBy ==
    ASSUME Typed, NEW c \in Calls, CallOK(c), c \in reserved, NEW i \in Intents, i.call = c, Apply(i),
           i.event = "usage_known" => i.amount = cost[c] /\ i.amount # Unknown,
           journal' = journal \ {i}, UNCHANGED <<aside, unjournaled>>
    PROVE  /\ Told(c) => Told(c)'
           /\ i.event # "provider_started" => Told(c)'
<1>1. /\ i.event # "provider_started" => Resolved(c)'
      /\ Resolved(c) => Resolved(c)'
    BY DeliveryOK DEF Resolved
<1>. QED BY <1>1 DEF Told

\* What a call does is allowed by the contract.
LEMMA AdvanceKeepsContract ==
    ASSUME IInv, Typed', NEW c \in Calls, CallOK(c)', DoneOK(c), Advance(c)
    PROVE  FinopsMoves(c) /\ CallMoves(c) /\ EvidenceMoves(c)
<1>. CallOK(c) /\ Typed
    BY DEF IInv
<1>. USE DEF Typed, Go
<1>a. /\ at[c] \in {"new", "reserve"} => c \notin dispatched /\ c \notin reserved /\ ledger[c] = "none"
      /\ at[c] \in {"start", "startSent"} => c \notin dispatched
      /\ at[c] \in {"provider", "record", "returned"} \cup Settling => c \in dispatched
      /\ at[c] \in {"start", "startSent"} \cup Settling => c \in reserved
    BY DEF CallOK, FreshOK, DoneOK, Before
<1>b. c \in Over' => Told(c)'
    BY DEF CallOK, ToldOK, Over
<1>1. CASE CheckLocal(c) \/ RefuseLocally(c)
    <2>1. FinopsMoves(c) /\ CallMoves(c)
        BY <1>1, <1>a DEF files, CheckLocal, RefuseLocally, call, finops, bounds, FinopsMoves, CallMoves, Done
    <2>2. UNCHANGED <<finops, files, unjournaled, dispatched>> /\ at[c] = "new"
        BY <1>1 DEF files, CheckLocal, RefuseLocally, call, finops, bounds
    <2>3. EvidenceMoves(c)
        BY <1>a, <2>2 DEF EvidenceMoves, Told, Resolved, finops, files, Over
    <2>. QED BY <2>1, <2>3
<1>2. CASE Reserve(c) \/ DenyReserve(c) \/ ReserveUnavailable(c)
    <2>1. FinopsMoves(c) /\ CallMoves(c)
        BY <1>2, <1>a DEF files, Reserve, DenyReserve, ReserveUnavailable, PerhapsReserved, Refuse, call,
            finops, bounds, FinopsMoves, CallMoves, Done
    <2>2. /\ UNCHANGED <<files, unjournaled, dispatched>> /\ at[c] = "reserve"
          /\ ledger'[c] = ledger[c] \/ ledger[c] = "none"
        BY <1>2, <1>a DEF files, Reserve, DenyReserve, ReserveUnavailable, PerhapsReserved, Refuse, call,
            finops, bounds
    <2>3. EvidenceMoves(c)
        BY <1>a, <2>2 DEF EvidenceMoves, Told, Resolved, files, Over
    <2>. QED BY <2>1, <2>3
<1>3. CASE RunUnreserved(c)
    <2>1. FinopsMoves(c) /\ CallMoves(c)
        BY <1>3, <1>a DEF files, RunUnreserved, PerhapsReserved, Dispatch, call, finops, bounds,
            FinopsMoves, CallMoves, Done
    <2>2. /\ UNCHANGED <<files, unjournaled, reserved>> /\ at[c] = "reserve"
          /\ ledger'[c] = ledger[c] \/ ledger[c] = "none"
        BY <1>3, <1>a DEF files, RunUnreserved, PerhapsReserved, call, bounds
    <2>3. EvidenceMoves(c)
        BY <1>a, <2>2 DEF EvidenceMoves, Told, Resolved, files, Over
    <2>. QED BY <2>1, <2>3
<1>4. CASE Journal(c)
    <2>1. FinopsMoves(c) /\ CallMoves(c)
        BY <1>4, <1>a DEF Journal, call, finops, bounds, FinopsMoves, CallMoves, Done, Settling
    <2>2. /\ UNCHANGED <<aside, finops, unjournaled, dispatched, reserved>> /\ journal \subseteq journal'
          /\ at[c] \notin Ended /\ at'[c] \notin Ended
        BY <1>4 DEF Journal, finops, bounds, call, Ended
    <2>3. EvidenceMoves(c)
        BY <2>2, StillTold DEF files, EvidenceMoves, Resolved, finops, Over
    <2>. QED BY <2>1, <2>3
<1>5. CASE Acked(c)
    <2>1. at[c] \in Sending
        BY <1>5 DEF Acked, Proceed, Sending
    <2>2. FinopsMoves(c)
        BY <1>5, <2>1, SignalMoves DEF Acked, PerhapsApplied
    <2>3. CallMoves(c)
        BY <1>5, <1>a DEF Acked, Proceed, Dispatch, Finished, call, CallMoves, Done, Settling
    <2>4. Told(c) => Told(c)'
        BY <1>5, <1>a, <2>1, SignalOK, ToldBy DEF Acked, bounds, Sending, Settling
    <2>5. at[c] \notin Ended /\ (c \in Over' => c \in Done')
        BY <1>5, <1>a DEF Acked, Proceed, Dispatch, Over, Done, Ended, Settling
    <2>. QED BY <1>b, <2>2, <2>3, <2>4, <2>5 DEF EvidenceMoves, Over
<1>6. CASE StartRefused(c) \/ Unacked(c)
    <2>1. at[c] \in Sending /\ PerhapsApplied(Signal(c))
        BY <1>6 DEF files, StartRefused, Unacked, Proceed, Sending
    <2>2. FinopsMoves(c)
        BY <2>1, SignalMoves
    <2>3. CallMoves(c)
        BY <1>6, <1>a DEF files, StartRefused, Refuse, Unacked, Proceed, Dispatch, Finished, call,
            CallMoves, Done, Settling
    <2>4. Told(c) => Told(c)'
        BY <1>6, <2>1, StillTold, PerhapsOK DEF files, StartRefused, Unacked, bounds, Resolved
    <2>5. at[c] \notin Ended /\ (c \in Over' => c \in Done')
        BY <1>6, <1>a DEF files, StartRefused, Refuse, Unacked, Proceed, Dispatch, Over, Done, Ended,
            Settling, call
    <2>. QED BY <1>b, <2>2, <2>3, <2>4, <2>5 DEF EvidenceMoves, Over
<1>7. CASE ProviderAnswers(c) \/ ProviderRaises(c)
    <2>1. /\ UNCHANGED <<finops, files, unjournaled, dispatched, reserved>>
          /\ at[c] = "provider" /\ at'[c] \in {"record", "mark", "reconcile"}
        BY <1>7 DEF files, ProviderAnswers, ProviderRaises, Outcome, bounds
    <2>2. FinopsMoves(c) /\ CallMoves(c)
        BY <1>a, <2>1 DEF FinopsMoves, CallMoves, Done, finops
    <2>3. EvidenceMoves(c)
        BY <2>1, StillTold DEF files, EvidenceMoves, Resolved, finops, Over, Ended
    <2>. QED BY <2>2, <2>3
<1>8. CASE Record(c)
    <2>1. /\ UNCHANGED <<finops, files, unjournaled, dispatched, reserved, cost>>
          /\ at[c] = "record" /\ at'[c] = "returned"
        BY <1>8 DEF files, Record, bounds, call
    <2>2. FinopsMoves(c) /\ CallMoves(c)
        BY <1>a, <2>1 DEF FinopsMoves, CallMoves, Done, finops
    <2>3. EvidenceMoves(c)
        BY <1>a, <1>b, <2>1, StillTold DEF files, EvidenceMoves, Resolved, finops, Over, Ended, Done
    <2>. QED BY <2>2, <2>3
<1>. QED BY <1>1, <1>2, <1>3, <1>4, <1>5, <1>6, <1>7, <1>8 DEF Advance

\* So is what befalls it.
LEMMA DisturbKeepsContract ==
    ASSUME IInv, Typed', NEW c \in Calls, CallOK(c)', DoneOK(c), Disturb(c)
    PROVE  FinopsMoves(c) /\ CallMoves(c) /\ EvidenceMoves(c)
<1>. CallOK(c) /\ Typed
    BY DEF IInv
<1>. USE DEF Typed, Go
<1>a. /\ at[c] \in {"new", "reserve"} => c \notin dispatched /\ c \notin reserved /\ ledger[c] = "none"
      /\ at[c] \in {"start", "startSent"} => c \notin dispatched
      /\ at[c] \in {"provider", "record", "returned"} \cup Settling => c \in dispatched
    BY DEF CallOK, FreshOK, DoneOK, Before
<1>b. c \in Over' => Told(c)'
    BY DEF CallOK, ToldOK, Over
<1>1. CASE StartUnjournaled(c)
    <2>1. /\ UNCHANGED <<finops, files, unjournaled, cost, reserved>> /\ at[c] = "start"
          /\ \/ dispatched' = dispatched /\ at'[c] = "denied"
             \/ dispatched' = dispatched \cup {c} /\ at'[c] = "provider"
        BY <1>1 DEF files, StartUnjournaled, Fault, Refuse, Dispatch, call
    <2>2. FinopsMoves(c) /\ CallMoves(c)
        BY <1>a, <2>1 DEF FinopsMoves, CallMoves, Done, finops
    <2>3. EvidenceMoves(c)
        BY <1>a, <2>1, StillTold DEF files, EvidenceMoves, Resolved, finops, Over, Ended
    <2>. QED BY <2>2, <2>3
<1>2. CASE SettleUnjournaled(c)
    <2>1. /\ UNCHANGED <<finops, files, cost, reserved, dispatched>>
          /\ unjournaled \subseteq unjournaled'
          /\ at[c] \in Settling /\ at'[c] # "provider"
        BY <1>2 DEF files, SettleUnjournaled, Fault, Finished, call, Settling
    <2>2. FinopsMoves(c) /\ CallMoves(c)
        BY <1>a, <2>1 DEF FinopsMoves, CallMoves, Done, finops, Settling
    <2>3. EvidenceMoves(c)
        BY <1>a, <1>b, <2>1, StillTold DEF files, EvidenceMoves, Resolved, finops, Over, Ended, Done, Settling
    <2>. QED BY <2>2, <2>3
<1>3. CASE CancelReserve(c)
    <2>1. /\ UNCHANGED <<files, unjournaled, cost, reserved, dispatched, settled>>
          /\ at[c] = "reserve"
          /\ ledger'[c] = ledger[c] \/ ledger'[c] = "reserved"
        BY <1>3 DEF files, CancelReserve, Cancel, PerhapsReserved
    <2>2. FinopsMoves(c) /\ CallMoves(c)
        BY <1>a, <2>1 DEF FinopsMoves, CallMoves, Done
    <2>3. EvidenceMoves(c)
        BY <1>a, <2>1, StillTold DEF files, EvidenceMoves, Resolved, Over
    <2>. QED BY <2>2, <2>3
<1>4. CASE CancelSignal(c) \/ CancelReconcile(c)
    <2>1. /\ at[c] \in Sending /\ PerhapsApplied(Signal(c))
          /\ at'[c] \in {"mark", "abandoned"} /\ (at[c] = "startSent" => at'[c] = "abandoned")
          /\ UNCHANGED <<files, unjournaled, cost, reserved, dispatched>>
        BY <1>4 DEF files, CancelSignal, CancelReconcile, Cancel, Sending
    <2>2. FinopsMoves(c)
        BY <2>1, SignalMoves
    <2>3. CallMoves(c)
        BY <1>a, <2>1 DEF CallMoves, Done, Sending
    <2>4. Told(c) => Told(c)'
        BY <2>1, StillTold, PerhapsOK DEF files, Resolved
    <2>5. at[c] \notin Ended /\ (c \in Over' => c \in Done')
        BY <2>1 DEF Sending, Ended, Over, Done
    <2>. QED BY <1>b, <2>2, <2>3, <2>4, <2>5 DEF EvidenceMoves, Over
<1>5. CASE CancelProvider(c)
    <2>1. /\ UNCHANGED <<finops, files, unjournaled, dispatched, reserved>>
          /\ at[c] = "provider" /\ at'[c] = (IF c \in reserved THEN "mark" ELSE "abandoned")
        BY <1>5 DEF files, CancelProvider, Cancel
    <2>2. FinopsMoves(c) /\ CallMoves(c)
        BY <1>a, <2>1 DEF FinopsMoves, CallMoves, Done, finops
    <2>3. EvidenceMoves(c)
        BY <2>1, StillTold DEF files, EvidenceMoves, Resolved, finops, Over, Ended
    <2>. QED BY <2>2, <2>3
<1>. QED BY <1>1, <1>2, <1>3, <1>4, <1>5 DEF Disturb

\* So is the delivery of an intent by the flusher, or its refusal.
LEMMA FlushKeepsContract ==
    ASSUME IInv, Typed', NEW i \in journal, Flush(i), \A c \in Calls : CallOK(c)' /\ DoneOK(c)
    PROVE  Contract!Next
<1>. Typed /\ \A c \in Calls : CallOK(c)
    BY DEF IInv
<1>. DEFINE c == i.call
<1>1. i \in Intents /\ c \in Calls
    BY DEF Typed, Intents
<1>2. /\ c \in reserved /\ (i.event # "provider_started" => c \in Done)
      /\ i.event = "usage_known" => i.amount = cost[c] /\ i.amount # Unknown
    BY <1>1 DEF DoneOK, CallOK, AmountOK
<1>3. /\ UNCHANGED <<mode, cost, amount, reserved, at, dispatched, unjournaled>>
      /\ journal' = journal \ {i}
    BY DEF Flush, Deliver, Quarantine, call
<1>. HIDE DEF c
<1>4. i.call = c
    BY DEF c
<1>5. FinopsMoves(c) /\ (Told(c) => Told(c)')
    <2>1. CASE Deliver(i)
        BY <1>1, <1>2, <1>3, <1>4, <2>1, DeliveryMoves, ToldBy DEF Deliver
    <2>2. CASE Quarantine(i)
        BY <1>3, <1>4, <2>2 DEF Quarantine, FinopsMoves, Told, Resolved, finops
    <2>. QED BY <2>1, <2>2 DEF Flush
<1>6. CallMoves(c)
    BY <1>3 DEF CallMoves, Done
<1>7. EvidenceMoves(c)
    <2>2. Over' = Over
        BY <1>3 DEF Over
    <2>3. c \in Over => Told(c) /\ c \in Done
        BY <1>1 DEF Over, Done, CallOK, ToldOK, Ended
    <2>4. Done' = Done
        BY <1>3 DEF Done
    <2>. QED BY <1>5, <2>2, <2>3, <2>4 DEF EvidenceMoves
<1>8. \A d \in Calls \ {c} : Frame(d)
    BY <1>1, <1>3, <1>4, Delivered DEF Frame, Flush, Deliver, Quarantine, finops
<1>. QED BY <1>1, <1>5, <1>6, <1>7, <1>8, Contracted

\* A metered call keeps the contract of reservations, however many calls there
\* are beside it and whatever becomes of its signals: FinOps settles it at its
\* one cost, once and for good, and evidence leaves the journal for FinOps or for
\* quarantine.
THEOREM ContractKept == Spec => ImplementsContract
<1>1. Init => Contract!Init
    BY DEF Init, Contract!Init, Done, Over, Told, Resolved
<1>2. IInv /\ AllDone /\ IInv' /\ [Next]_vars => [Contract!Next]_(Contract!vars)
    <2>. SUFFICES ASSUME IInv, AllDone, IInv', [Next]_vars PROVE [Contract!Next]_(Contract!vars)
        OBVIOUS
    <2>. IInv /\ IInv' /\ Typed /\ Typed' /\ \A c \in Calls : DoneOK(c) /\ CallOK(c)'
        BY DEF IInv, AllDone
    <2>1. ASSUME NEW c \in Calls, Advance(c) \/ Disturb(c) PROVE Contract!Next
        <3>1. \A d \in Calls \ {c} : Frame(d)
            BY <2>1, Others
        <3>2. FinopsMoves(c) /\ CallMoves(c) /\ EvidenceMoves(c)
            BY <2>1, AdvanceKeepsContract, DisturbKeepsContract
        <3>. QED BY <3>1, <3>2, Contracted
    <2>2. ASSUME NEW i \in journal, Flush(i) PROVE Contract!Next
        BY <2>2, FlushKeepsContract
    <2>3. CASE Prune \/ UNCHANGED vars
        <3>1. UNCHANGED <<finops, dispatched, at, cost, reserved, files, unjournaled>>
            BY <2>3 DEF files, Prune, vars, call, bounds
        <3>2. UNCHANGED <<Done, Over, {c \in Calls : Told(c)}>>
            BY <3>1 DEF Done, Over, Told, Resolved, finops, files
        <3>. QED BY <3>1, <3>2 DEF files, Contract!vars, finops
    <2>. QED BY <2>1, <2>2, <2>3 DEF Next
<1>. QED BY <1>1, <1>2, DoneInvariant, PTL DEF Spec, ImplementsContract, Contract!Spec
=============================================================================
