------------------------ MODULE FrameworkRunsProofs ------------------------
(***************************************************************************)
(* Runs of the LangGraph and CrewAI adapters are accounted for correctly,  *)
(* for any number of contexts, crews, threads, processes and runs.         *)
(*                                                                         *)
(* Runs nest in contexts and are inherited by the tasks they start, so the *)
(* invariant says first which runs a context has entered itself (FramesOK):*)
(* those are running, and each in one place.  From that follow what a run  *)
(* has told at each stage (RunOK) and what is on a crew's stack (StackOK). *)
(* What a thread resumes is kept by the one run under way on it (StoreOK)  *)
(* and, where one process runs all the contexts, by its cache (CacheOK).   *)
(***************************************************************************)
EXTENDS FrameworkRuns, FiniteSetTheorems, SequenceTheorems, TLAPS

-----------------------------------------------------------------------------
(* The inductive invariant. *)

Stages == Live \cup {"done", "refused", "killed"}
Running == {"kickoff", "invoke", "stream"}

\* The types; every operation that is stored anywhere has been minted.
Typed ==
    /\ runs \in Seq(RunRecords) /\ Len(runs) <= MaxRuns
    /\ frames \in [Contexts -> Seq(DOMAIN runs)]
    /\ inherited \in [Contexts -> Nat]
    /\ \A x \in Contexts : inherited[x] <= Len(frames[x])
    /\ active \in [Crews -> Seq(DOMAIN runs)]
    /\ listening \subseteq Crews /\ holds \subseteq Crews /\ owned \subseteq Crews
    /\ memory \in [Processes -> [Threads -> DOMAIN runs \cup {None}]]
    /\ file \in [Threads -> DOMAIN runs \cup {None}]
    /\ saved \subseteq Threads
    /\ waiting \in [Threads -> DOMAIN runs \cup {None}]
    /\ \A n \in DOMAIN runs : runs[n].op \in DOMAIN runs

\* What a run has told at each stage, and the stages of a kickoff and of a graph.
RunOK(n) ==
    LET r == runs[n]
    IN  /\ r.of \in Crews => r.at = Home[r.of] /\ r.stage \in {"kickoff", "done", "refused", "killed"}
        /\ r.of \in Threads => r.stage # "kickoff"
        /\ r.stage = "refused" => r.told = <<>>
        /\ r.stage \in Running \cup {"idle"} => r.told = <<"start">>
        /\ r.stage = "held" => r.told = <<"start", "suspend">>
        /\ r.stage = "killed" => \/ r.told = <<"start">>
                                 \/ r.told = <<"start", "suspend">> /\ r.of \notin Crews
        /\ r.stage = "done" =>
             IF r.of \in Crews THEN r.told \in {<<"start", "outcome">>, <<"start", "heard", "outcome">>}
             ELSE r.told \in {<<"start">>, <<"start", "end">>, <<"start", "error">>,
                              <<"start", "error", "error">>,
                              <<"start", "suspend">>, <<"start", "suspend", "error">>}

\* The runs that a context has entered itself are running in its process, each
\* in one place of one context.
Within(x, i) == i \in DOMAIN frames[x] /\ i > inherited[x]

FramesOK ==
    \A x \in Contexts, i \in Nat : Within(x, i) =>
       /\ runs[frames[x][i]].stage \in Running
       /\ runs[frames[x][i]].at = Home[x]
       /\ \A y \in Contexts, j \in Nat :
             Within(y, j) /\ frames[y][j] = frames[x][i] => x = y /\ i = j

\* A crew's stack has the scope of each of its running kickoffs once, and while
\* it has any the crew's listener, if still attached, owns what the crew holds.
StackOK(c) ==
    /\ \A n \in DOMAIN runs : runs[n].of = c /\ runs[n].stage = "kickoff" <=> n \in ToSet(active[c])
    /\ \A i, j \in DOMAIN active[c] : active[c][i] = active[c][j] => i = j
    /\ active[c] # <<>> /\ c \in holds /\ c \in listening => c \in owned

\* One run at most is under way on a thread, and the cache of its process has
\* its operation.  An operation waited for was suspended, at a checkpoint.
IsUnderWay(n, t) == runs[n].of = t /\ runs[n].stage \in {"invoke", "stream", "idle"}

StoreOK(t) ==
    /\ \A n \in DOMAIN runs : IsUnderWay(n, t) =>
          /\ memory[runs[n].at][t] = runs[n].op
          /\ \A m \in DOMAIN runs : IsUnderWay(m, t) => m = n
    /\ waiting[t] # None =>
          /\ t \in saved
          /\ \E n \in DOMAIN runs : /\ runs[n].of = t /\ runs[n].op = waiting[t]
                                    /\ "suspend" \in ToSet(runs[n].told)

\* All the contexts run in one process.
OneHome == \A x, y \in Contexts : Home[x] = Home[y]

\* Then its cache and the file disagree only when neither is what is waited for.
CacheOK(p, t) ==
    \/ memory[p][t] \in {None, waiting[t]}
    \/ waiting[t] \notin {memory[p][t], file[t]}

IInv ==
    /\ Typed
    /\ \A n \in DOMAIN runs : RunOK(n)
    /\ FramesOK
    /\ \A c \in Crews : StackOK(c)
    /\ \A t \in Threads : StoreOK(t)
    /\ OneHome => \A x \in Contexts, t \in Threads : waiting[t] # None => CacheOK(Home[x], t)

-----------------------------------------------------------------------------
(* Sequences. *)

\* All but the last element.
LEMMA FrontOf ==
    ASSUME NEW S, NEW s \in Seq(S), Len(s) > 0
    PROVE  /\ Front(s) \in Seq(S) /\ Len(Front(s)) = Len(s) - 1
           /\ \A i \in 1..(Len(s) - 1) : Front(s)[i] = s[i]
<1>. DEFINE k == Len(s) - 1
<1>1. Len(s) \in Nat /\ k \in Nat /\ \A i \in 1..k : s[i] \in S
    BY LenProperties, ElementOfSeq
<1>2. Front(s) = SubSeq(s, 1, k)
    BY DEF Front
<1>. HIDE DEF k
<1>3. /\ SubSeq(s, 1, k) \in Seq(S)
      /\ Len(SubSeq(s, 1, k)) = IF 1 <= k THEN k - 1 + 1 ELSE 0
      /\ \A i \in 1..(k - 1 + 1) : SubSeq(s, 1, k)[i] = s[1 + i - 1]
    <2>1. 1 \in Int /\ k \in Int
        BY <1>1
    <2>. QED BY ONLY <1>1, <2>1, SubSeqProperties
<1>4. k - 1 + 1 = k /\ \A i \in 1..k : 1 + i - 1 = i
    BY <1>1
<1>5. Len(SubSeq(s, 1, k)) = k
    BY <1>1, <1>3
<1>. QED BY <1>2, <1>3, <1>4, <1>5 DEF k

\* An element taken off a sequence that has it once.
LEMMA RemovedOnce ==
    ASSUME NEW S, NEW s \in Seq(S), NEW e \in ToSet(s),
           \A i, j \in DOMAIN s : s[i] = s[j] => i = j
    PROVE  /\ RemoveFirst(s, e) \in Seq(S)
           /\ ToSet(RemoveFirst(s, e)) = ToSet(s) \ {e}
           /\ \A i, j \in DOMAIN RemoveFirst(s, e) :
                 RemoveFirst(s, e)[i] = RemoveFirst(s, e)[j] => i = j
<1>1. DOMAIN s = 1..Len(s) /\ Len(s) \in Nat /\ \A i \in 1..Len(s) : s[i] \in S
    BY LenProperties, ElementOfSeq
<1>2. PICK k \in 1..Len(s) : s[k] = e
    BY <1>1 DEF ToSet
<1>3. {i \in 1..Len(s) : s[i] = e} = {k}
    BY <1>1, <1>2
<1>4. Min({k}) = k
    BY <1>2 DEF Min
<1>5. RemoveFirst(s, e) = SubSeq(s, 1, k - 1) \o SubSeq(s, k + 1, Len(s))
    BY <1>2, <1>3, <1>4 DEF RemoveFirst, SelectInSeq, RemoveAt
<1>. DEFINE a == SubSeq(s, 1, k - 1)
            b == SubSeq(s, k + 1, Len(s))
            r == RemoveFirst(s, e)
<1>6. /\ a \in Seq(S) /\ Len(a) = k - 1 /\ \A i \in 1..(k - 1) : a[i] = s[i]
    <2>1. \A i \in 1..(k - 1) : s[i] \in S
        BY <1>1
    <2>. QED BY <1>1, <1>2, <2>1, SubSeqProperties
<1>7. /\ b \in Seq(S) /\ Len(b) = Len(s) - k
      /\ \A i \in 1..(Len(s) - k) : b[i] = s[k + i]
    <2>1. \A i \in (k + 1)..Len(s) : s[i] \in S
        BY <1>1
    <2>2. /\ b \in Seq(S)
          /\ Len(b) = IF k + 1 <= Len(s) THEN Len(s) - (k + 1) + 1 ELSE 0
          /\ \A i \in 1..(Len(s) - (k + 1) + 1) : b[i] = s[(k + 1) + i - 1]
        <3>1. k + 1 \in Int /\ Len(s) \in Int
            BY <1>1, <1>2
        <3>. QED BY ONLY <2>1, <3>1, SubSeqProperties DEF b
    <2>. HIDE DEF b
    <2>3. Len(s) - (k + 1) + 1 = Len(s) - k /\ \A i \in 1..(Len(s) - k) : (k + 1) + i - 1 = k + i
        BY <1>1, <1>2
    <2>4. Len(b) = Len(s) - k
        <3>1. k \in Nat /\ Len(s) \in Nat /\ k <= Len(s)
            BY <1>1, <1>2
        <3>2. Len(b) = IF k + 1 <= Len(s) THEN Len(s) - (k + 1) + 1 ELSE 0
            BY <2>2
        <3>. QED BY ONLY <3>1, <3>2
    <2>. QED BY <2>2, <2>3, <2>4
<1>. HIDE DEF a, b
<1>8. r = a \o b
    BY <1>5 DEF a, b
<1>9. /\ r \in Seq(S) /\ Len(r) = Len(s) - 1
      /\ \A i \in 1..(Len(s) - 1) : r[i] = IF i < k THEN s[i] ELSE s[i + 1]
    <2>1. /\ a \o b \in Seq(S) /\ Len(a \o b) = Len(a) + Len(b)
          /\ \A i \in 1..Len(a) + Len(b) : (a \o b)[i] = IF i <= Len(a) THEN a[i] ELSE b[i - Len(a)]
        BY <1>6, <1>7, ConcatProperties
    <2>2. Len(a) + Len(b) = Len(s) - 1
        BY <1>1, <1>2, <1>6, <1>7
    <2>3. ASSUME NEW i \in 1..(Len(s) - 1) PROVE r[i] = IF i < k THEN s[i] ELSE s[i + 1]
        <3>1. r[i] = IF i <= k - 1 THEN a[i] ELSE b[i - (k - 1)]
            BY <1>6, <1>8, <2>1, <2>2
        <3>2. CASE i < k
            BY <1>1, <1>2, <1>6, <3>1, <3>2
        <3>3. CASE ~(i < k)
            <4>1. i - (k - 1) \in 1..(Len(s) - k) /\ k + (i - (k - 1)) = i + 1 /\ ~(i <= k - 1)
                BY <1>1, <1>2, <3>3
            <4>2. b[i - (k - 1)] = s[k + (i - (k - 1))]
                BY <1>7, <4>1
            <4>. QED BY <3>1, <3>3, <4>1, <4>2
        <3>. QED BY <3>2, <3>3
    <2>. QED BY <1>8, <2>1, <2>2, <2>3
<1>. HIDE DEF r
<1>10. DOMAIN r = 1..(Len(s) - 1)
    BY <1>9, LenProperties
<1>11. \A i, j \in DOMAIN r : r[i] = r[j] => i = j
    <2>. SUFFICES ASSUME NEW i \in DOMAIN r, NEW j \in DOMAIN r, r[i] = r[j] PROVE i = j
        OBVIOUS
    <2>. DEFINE at(l) == IF l < k THEN l ELSE l + 1
    <2>1. i \in 1..(Len(s) - 1) /\ j \in 1..(Len(s) - 1)
        BY <1>10
    <2>2. at(i) \in 1..Len(s) /\ at(j) \in 1..Len(s) /\ s[at(i)] = s[at(j)]
        BY <1>1, <1>2, <1>9, <2>1
    <2>3. at(i) = at(j)
        BY <1>1, <2>2
    <2>. QED BY <1>2, <2>1, <2>3
<1>12. ASSUME NEW x \in ToSet(r) PROVE x \in ToSet(s) \ {e}
    <2>1. PICK i \in 1..(Len(s) - 1) : x = r[i]
        BY <1>10 DEF ToSet
    <2>2. PICK j \in 1..Len(s) : x = s[j] /\ j # k
        BY <1>1, <1>2, <1>9, <2>1
    <2>. QED BY <1>1, <1>2, <2>2 DEF ToSet
<1>13. ASSUME NEW x \in ToSet(s) \ {e} PROVE x \in ToSet(r)
    <2>1. PICK i \in 1..Len(s) : x = s[i] /\ i # k
        BY <1>1, <1>2 DEF ToSet
    <2>2. CASE i < k
        BY <1>1, <1>2, <1>9, <1>10, <2>1, <2>2 DEF ToSet
    <2>3. CASE i > k
        <3>1. i - 1 \in 1..(Len(s) - 1) /\ r[i - 1] = s[i]
            BY <1>1, <1>2, <1>9, <2>1, <2>3
        <3>. QED BY <1>10, <2>1, <3>1 DEF ToSet
    <2>. QED BY <1>2, <2>1, <2>2, <2>3
<1>. QED BY <1>9, <1>11, <1>12, <1>13 DEF r

\* What is added to a sequence takes nothing away.
LEMMA KeepsElements ==
    ASSUME NEW S, NEW s \in Seq(S), NEW t \in Seq(S)
    PROVE  \A e \in ToSet(s) : e \in ToSet(s \o t)
<1>1. /\ s \o t \in Seq(S) /\ Len(s \o t) = Len(s) + Len(t)
      /\ \A i \in 1..Len(s) + Len(t) : (s \o t)[i] = IF i <= Len(s) THEN s[i] ELSE t[i - Len(s)]
    BY ConcatProperties
<1>2. /\ Len(s) \in Nat /\ Len(t) \in Nat /\ DOMAIN s = 1..Len(s)
      /\ DOMAIN (s \o t) = 1..Len(s \o t)
    BY <1>1, LenProperties
<1>. SUFFICES ASSUME NEW e \in ToSet(s) PROVE e \in ToSet(s \o t)
    OBVIOUS
<1>3. PICK i \in 1..Len(s) : s[i] = e
    BY <1>2 DEF ToSet
<1>4. i \in DOMAIN (s \o t) /\ (s \o t)[i] = e
    BY <1>1, <1>2, <1>3
<1>. QED BY <1>4 DEF ToSet

-----------------------------------------------------------------------------
(* What a step does to the runs and to the frames. *)

\* A run that is told of goes to its stage and has told more.
LEMMA ToldRun ==
    ASSUME runs \in Seq(RunRecords), NEW n \in DOMAIN runs, NEW s \in Stages,
           NEW e \in Seq(Events), Tell(n, s, e)
    PROVE  /\ runs' \in Seq(RunRecords) /\ Len(runs') = Len(runs) /\ DOMAIN runs' = DOMAIN runs
           /\ \A m \in DOMAIN runs : /\ runs'[m].of = runs[m].of /\ runs'[m].at = runs[m].at
                                     /\ runs'[m].op = runs[m].op
                                     /\ m # n => runs'[m] = runs[m]
           /\ runs'[n].stage = s /\ runs'[n].told = runs[n].told \o e
<1>1. DOMAIN runs = 1..Len(runs) /\ runs[n] \in RunRecords
    BY LenProperties, ElementOfSeq
<1>. DEFINE r == [runs[n] EXCEPT !.stage = s, !.told = @ \o e]
<1>2. runs[n].told \o e \in Seq(Events)
    BY <1>1, ConcatProperties DEF RunRecords
<1>3. /\ r \in RunRecords /\ r.of = runs[n].of /\ r.at = runs[n].at /\ r.op = runs[n].op
      /\ r.stage = s /\ r.told = runs[n].told \o e
    BY <1>1, <1>2 DEF RunRecords, Stages
<1>4. runs' = [runs EXCEPT ![n] = r]
    BY DEF Tell
<1>. HIDE DEF r
<1>5. /\ runs' \in Seq(RunRecords) /\ Len(runs') = Len(runs)
      /\ \A m \in 1..Len(runs) : runs'[m] = IF m = n THEN r ELSE runs[m]
    BY <1>1, <1>3, <1>4, ExceptSeq
<1>. QED BY <1>1, <1>3, <1>5, LenProperties

\* A run that starts is the last.
LEMMA NewRun ==
    ASSUME runs \in Seq(RunRecords), NEW r \in RunRecords, runs' = Append(runs, r)
    PROVE  /\ runs' \in Seq(RunRecords) /\ Len(runs') = Len(runs) + 1
           /\ Len(runs) + 1 \notin DOMAIN runs
           /\ DOMAIN runs' = DOMAIN runs \cup {Len(runs) + 1}
           /\ \A m \in DOMAIN runs : runs'[m] = runs[m]
           /\ runs'[Len(runs) + 1] = r
<1>1. DOMAIN runs = 1..Len(runs) /\ Len(runs) \in Nat
    BY LenProperties
<1>2. /\ runs' \in Seq(RunRecords) /\ Len(runs') = Len(runs) + 1
      /\ \A m \in 1..Len(runs) : runs'[m] = runs[m]
      /\ runs'[Len(runs) + 1] = r
    BY AppendProperties
<1>3. DOMAIN runs' = 1..(Len(runs) + 1)
    BY <1>2, LenProperties
<1>. QED BY <1>1, <1>2, <1>3

\* The frames of a context that enters a run or leaves one, and of the others.
LEMMA Entering ==
    ASSUME Typed, NEW x \in Contexts, NEW n, Enter(x, n), NEW S, DOMAIN runs \subseteq S, n \in S
    PROVE  /\ frames' \in [Contexts -> Seq(S)]
           /\ \A y \in Contexts \ {x} : frames'[y] = frames[y]
           /\ Len(frames'[x]) = Len(frames[x]) + 1
           /\ \A i \in DOMAIN frames[x] : frames'[x][i] = frames[x][i]
           /\ frames'[x][Len(frames[x]) + 1] = n
           /\ DOMAIN frames'[x] = DOMAIN frames[x] \cup {Len(frames[x]) + 1}
<1>1. \A y \in Contexts : frames[y] \in Seq(S)
    BY SeqMonotonic DEF Typed
<1>2. frames'[x] = Append(frames[x], n) /\ \A y \in Contexts \ {x} : frames'[y] = frames[y]
    BY DEF Typed, Enter
<1>3. DOMAIN frames[x] = 1..Len(frames[x]) /\ Len(frames[x]) \in Nat
    BY <1>1, LenProperties
<1>4. /\ Append(frames[x], n) \in Seq(S)
      /\ Len(Append(frames[x], n)) = Len(frames[x]) + 1
      /\ \A i \in 1..Len(frames[x]) : Append(frames[x], n)[i] = frames[x][i]
      /\ Append(frames[x], n)[Len(frames[x]) + 1] = n
    BY <1>1, AppendProperties
<1>5. frames' \in [Contexts -> Seq(S)]
    <2>1. \A y \in Contexts : frames'[y] \in Seq(S)
        BY <1>1, <1>2, <1>4
    <2>. QED BY <2>1 DEF Typed, Enter
<1>6. DOMAIN frames'[x] = 1..(Len(frames[x]) + 1)
    BY <1>2, <1>4, LenProperties
<1>. QED BY <1>2, <1>3, <1>4, <1>5, <1>6

LEMMA Leaving ==
    ASSUME Typed, NEW x \in Contexts, Entered(x), Leave(x)
    PROVE  /\ frames' \in [Contexts -> Seq(DOMAIN runs)]
           /\ \A y \in Contexts \ {x} : frames'[y] = frames[y]
           /\ Len(frames'[x]) = Len(frames[x]) - 1
           /\ DOMAIN frames'[x] = DOMAIN frames[x] \ {Len(frames[x])}
           /\ \A i \in DOMAIN frames'[x] : frames'[x][i] = frames[x][i]
           /\ Len(frames[x]) \in Nat \ {0}
           /\ Within(x, Len(frames[x])) /\ Top(x) = frames[x][Len(frames[x])]
           /\ Top(x) \in DOMAIN runs
<1>1. \A y \in Contexts : frames[y] \in Seq(DOMAIN runs)
    BY DEF Typed
<1>2. DOMAIN frames[x] = 1..Len(frames[x]) /\ Len(frames[x]) \in Nat
    BY <1>1, LenProperties
<1>3. Len(frames[x]) > 0
    BY <1>2 DEF Typed, Entered
<1>4. frames'[x] = Front(frames[x]) /\ \A y \in Contexts \ {x} : frames'[y] = frames[y]
    BY DEF Typed, Leave
<1>5. /\ Front(frames[x]) \in Seq(DOMAIN runs)
      /\ Len(Front(frames[x])) = Len(frames[x]) - 1
      /\ \A i \in 1..(Len(frames[x]) - 1) : Front(frames[x])[i] = frames[x][i]
    BY <1>1, <1>3, FrontOf
<1>6. frames' \in [Contexts -> Seq(DOMAIN runs)]
    <2>1. \A y \in Contexts : frames'[y] \in Seq(DOMAIN runs)
        BY <1>1, <1>4, <1>5
    <2>. QED BY <2>1 DEF Typed, Leave
<1>7. DOMAIN frames'[x] = 1..(Len(frames[x]) - 1)
    BY <1>4, <1>5, LenProperties
<1>8. Top(x) = frames[x][Len(frames[x])] /\ Top(x) \in DOMAIN runs
    BY <1>1, <1>2, <1>3, ElementOfSeq DEF Top, Last
<1>9. Within(x, Len(frames[x]))
    BY <1>2, <1>3 DEF Within, Entered
<1>. QED BY <1>2, <1>3, <1>4, <1>5, <1>6, <1>7, <1>8, <1>9

-----------------------------------------------------------------------------
(* The steps, by what they do. *)

\* A graph run goes to a stage in which it does not execute.
Stops(x, s, e) ==
    /\ Executing(x, {"invoke", "stream"}) /\ Tell(Top(x), s, e) /\ Leave(x)
    /\ \/ s = "done" /\ e \in {<<>>, <<"end">>, <<"error">>, <<"error", "error">>, <<"suspend">>}
       \/ s = "idle" /\ e = <<>>
       \/ s = "held" /\ e = <<"suspend">>
    /\ saved \subseteq saved' /\ saved' \subseteq saved \cup {Thread(x)}
    /\ \/ waiting' = waiting
       \/ waiting' = [waiting EXCEPT ![Thread(x)] = None]
       \/ /\ e = <<"suspend">> /\ Thread(x) \in saved'
          /\ waiting' = [waiting EXCEPT ![Thread(x)] = runs[Top(x)].op]
    /\ UNCHANGED <<inherited, crewVars, storeVars>>

\* A stream that is not executing goes on, or is over.
Resumes(x, n) ==
    /\ runs[n].stage = "idle" /\ runs[n].at = Home[x]
    /\ Tell(n, "stream", <<>>) /\ Enter(x, n)
    /\ UNCHANGED <<inherited, crewVars, storeVars, graphVars>>

Drops(n, e) ==
    /\ runs[n].stage \in {"idle", "held"} /\ e \in {<<>>, <<"error">>}
    /\ Tell(n, "done", e)
    /\ UNCHANGED <<frames, inherited, crewVars, storeVars, graphVars>>

\* Every step is one of these, starts a run, ends a kickoff, or is of a context,
\* a listener or a process.
LEMMA Steps ==
    ASSUME Next
    PROVE  \/ \E x \in Contexts, c \in Crews : Kickoff(x, c)
           \/ \E x \in Contexts, t \in Threads, mode \in {"invoke", "stream"} : StartGraph(x, t, mode)
           \/ \E x \in Contexts : KickoffEnds(x)
           \/ \E x \in Contexts : \E s, e : Stops(x, s, e)
           \/ \E x \in Contexts, n \in DOMAIN runs : Resumes(x, n)
           \/ \E n \in DOMAIN runs : \E e : Drops(n, e)
           \/ \E x, y \in Contexts : Fork(x, y)
           \/ \E y \in Contexts : TaskEnds(y)
           \/ \E c \in Crews : Detach(c)
           \/ \E p \in Processes : Restart(p)
<1>1. ASSUME NEW x \in Contexts, GraphEnds(x) PROVE Stops(x, "done", <<"end">>)
    BY <1>1 DEF GraphEnds, Stops
<1>2. ASSUME NEW x \in Contexts, GraphSuspends(x) PROVE Stops(x, "done", <<"suspend">>)
    BY <1>2 DEF GraphSuspends, Suspends, Stops
<1>3. ASSUME NEW x \in Contexts, InterruptItem(x) PROVE Stops(x, "held", <<"suspend">>)
    BY <1>3 DEF InterruptItem, Suspends, Stops, Executing
<1>4. ASSUME NEW x \in Contexts, GraphFails(x) PROVE \E e : Stops(x, "done", e)
    <2>1. PICK e \in {<<"error">>, <<"error", "error">>} : Tell(Top(x), "done", e)
        <3>1. PICK told \in {<<"error">>} \cup (IF Executing(x, {"stream"}) THEN {<<"error", "error">>} ELSE {}) :
                Tell(Top(x), "done", told)
            BY <1>4 DEF GraphFails
        <3>2. told \in {<<"error">>, <<"error", "error">>}
            OBVIOUS
        <3>. QED BY <3>1, <3>2
    <2>2. Stops(x, "done", e)
        BY <1>4, <2>1 DEF GraphFails, PerhapsSaved, Stops
    <2>. QED BY <2>2
<1>5. ASSUME NEW x \in Contexts, GraphAborts(x) PROVE \E e : Stops(x, "done", e)
    <2>1. PICK e \in {<<>>, <<"error">>, <<"end">>} : Tell(Top(x), "done", e)
        <3>1. PICK told \in IF runs[Top(x)].stage = "invoke" THEN {<<>>} ELSE {<<"error">>, <<"end">>} :
                Tell(Top(x), "done", told)
            BY <1>5 DEF GraphAborts
        <3>2. told \in {<<>>, <<"error">>, <<"end">>}
            OBVIOUS
        <3>. QED BY <3>1, <3>2
    <2>2. Stops(x, "done", e)
        BY <1>5, <2>1 DEF GraphAborts, PerhapsSaved, Stops
    <2>. QED BY <2>2
<1>6. ASSUME NEW x \in Contexts, Yield(x) PROVE Stops(x, "idle", <<>>)
    BY <1>6 DEF Yield, PerhapsSaved, Stops, Executing
<1>7. ASSUME NEW x \in Contexts, NEW n \in DOMAIN runs, NextItem(x, n)
      PROVE  Resumes(x, n) \/ Drops(n, <<>>)
    BY <1>7 DEF NextItem, Resumes, Drops
<1>8. ASSUME NEW x \in Contexts, NEW n \in DOMAIN runs, Close(x, n)
      PROVE  Drops(n, <<>>) \/ Drops(n, <<"error">>)
    BY <1>8 DEF Close, Drops
<1>9. ASSUME NEW n \in DOMAIN runs, NextAfterInterrupt(n) PROVE Drops(n, <<>>)
    BY <1>9 DEF NextAfterInterrupt, Drops
<1>10. ASSUME NEW x \in Contexts,
              \/ GraphEnds(x) \/ GraphSuspends(x) \/ InterruptItem(x)
              \/ GraphFails(x) \/ GraphAborts(x) \/ Yield(x)
       PROVE  \E s, e : Stops(x, s, e)
    BY <1>1, <1>2, <1>3, <1>4, <1>5, <1>6, <1>10
<1>11. ASSUME NEW x \in Contexts, NEW n \in DOMAIN runs, NextItem(x, n) \/ Close(x, n)
       PROVE  Resumes(x, n) \/ \E e : Drops(n, e)
    BY <1>7, <1>8, <1>11
<1>. QED BY <1>9, <1>10, <1>11 DEF Next

-----------------------------------------------------------------------------
(* What keeps each part. *)

\* The runs so far keep what they are, and what they have told.
Keeps ==
    /\ runs' \in Seq(RunRecords)
    /\ \A n \in DOMAIN runs :
          /\ n \in DOMAIN runs'
          /\ runs'[n].of = runs[n].of /\ runs'[n].at = runs[n].at /\ runs'[n].op = runs[n].op
          /\ \A e \in ToSet(runs[n].told) : e \in ToSet(runs'[n].told)

\* What is typed by the runs so far stays so.
LEMMA TypesGrow ==
    ASSUME Typed, Keeps
    PROVE  /\ DOMAIN runs \subseteq DOMAIN runs'
           /\ frames \in [Contexts -> Seq(DOMAIN runs')]
           /\ active \in [Crews -> Seq(DOMAIN runs')]
           /\ memory \in [Processes -> [Threads -> DOMAIN runs' \cup {None}]]
           /\ file \in [Threads -> DOMAIN runs' \cup {None}]
           /\ waiting \in [Threads -> DOMAIN runs' \cup {None}]
           /\ \A n \in DOMAIN runs : runs'[n].op \in DOMAIN runs'
<1>1. DOMAIN runs \subseteq DOMAIN runs'
    BY DEF Keeps
<1>2. \A x \in Contexts : frames[x] \in Seq(DOMAIN runs')
    BY <1>1, SeqMonotonic DEF Typed
<1>3. \A c \in Crews : active[c] \in Seq(DOMAIN runs')
    BY <1>1, SeqMonotonic DEF Typed
<1>4. \A p \in Processes : memory[p] \in [Threads -> DOMAIN runs' \cup {None}]
    <2>. TAKE p \in Processes
    <2>1. memory[p] \in [Threads -> DOMAIN runs \cup {None}]
        BY DEF Typed
    <2>. QED BY <1>1, <2>1
<1>5. frames \in [Contexts -> Seq(DOMAIN runs')] /\ active \in [Crews -> Seq(DOMAIN runs')]
    BY <1>2, <1>3 DEF Typed
<1>6. memory \in [Processes -> [Threads -> DOMAIN runs' \cup {None}]]
    BY <1>4 DEF Typed
<1>7. /\ file \in [Threads -> DOMAIN runs' \cup {None}]
      /\ waiting \in [Threads -> DOMAIN runs' \cup {None}]
      /\ \A n \in DOMAIN runs : runs'[n].op \in DOMAIN runs'
    BY <1>1 DEF Typed, Keeps
<1>. QED BY <1>1, <1>5, <1>6, <1>7

\* The frames stay when the runs that execute do.
LEMMA FramesKept ==
    ASSUME Typed, FramesOK, Keeps, UNCHANGED <<frames, inherited>>,
           \A n \in DOMAIN runs : runs[n].stage \in Running => runs'[n].stage \in Running
    PROVE  FramesOK'
<1>. SUFFICES ASSUME NEW x \in Contexts, NEW i \in Nat, Within(x, i)'
     PROVE  /\ runs'[frames'[x][i]].stage \in Running
            /\ runs'[frames'[x][i]].at = Home[x]
            /\ \A y \in Contexts, j \in Nat :
                  Within(y, j)' /\ frames'[y][j] = frames'[x][i] => x = y /\ i = j
    BY DEF FramesOK
<1>1. \A y \in Contexts, j \in Nat : Within(y, j)' <=> Within(y, j)
    BY DEF Within
<1>2. frames[x][i] \in DOMAIN runs
    <2>1. frames[x] \in Seq(DOMAIN runs) /\ i \in DOMAIN frames[x]
        BY DEF Typed, Within
    <2>. QED BY <2>1, LenProperties, ElementOfSeq
<1>. QED BY <1>1, <1>2 DEF FramesOK, Keeps

\* So they do when a context enters a run that none has entered.
LEMMA FramesEntered ==
    ASSUME Typed, FramesOK, Keeps, NEW x \in Contexts, NEW n \in DOMAIN runs', Enter(x, n),
           inherited' = inherited,
           n \in DOMAIN runs => runs[n].stage \notin Running,
           runs'[n].stage \in Running, runs'[n].at = Home[x],
           \A m \in DOMAIN runs : runs[m].stage \in Running => runs'[m].stage \in Running
    PROVE  FramesOK'
<1>1. /\ \A y \in Contexts \ {x} : frames'[y] = frames[y]
      /\ \A i \in DOMAIN frames[x] : frames'[x][i] = frames[x][i]
      /\ frames'[x][Len(frames[x]) + 1] = n
      /\ DOMAIN frames'[x] = DOMAIN frames[x] \cup {Len(frames[x]) + 1}
    BY TypesGrow, Entering
<1>2. \A y \in Contexts, j \in Nat : Within(y, j) => frames[y][j] \in DOMAIN runs
    <2>. TAKE y \in Contexts, j \in Nat
    <2>. HAVE Within(y, j)
    <2>1. frames[y] \in Seq(DOMAIN runs) /\ j \in DOMAIN frames[y]
        BY DEF Typed, Within
    <2>. QED BY <2>1, LenProperties, ElementOfSeq
<1>3. \A y \in Contexts, j \in Nat : Within(y, j) => frames[y][j] # n /\ frames'[y][j] = frames[y][j]
    BY <1>1, <1>2 DEF FramesOK, Within
<1>4. \A y \in Contexts, j \in Nat :
         Within(y, j)' => Within(y, j) \/ (y = x /\ j = Len(frames[x]) + 1 /\ frames'[y][j] = n)
    BY <1>1 DEF Within
<1>. SUFFICES ASSUME NEW y \in Contexts, NEW i \in Nat, Within(y, i)'
     PROVE  /\ runs'[frames'[y][i]].stage \in Running
            /\ runs'[frames'[y][i]].at = Home[y]
            /\ \A z \in Contexts, j \in Nat :
                  Within(z, j)' /\ frames'[z][j] = frames'[y][i] => y = z /\ i = j
    BY DEF FramesOK
<1>5. runs'[frames'[y][i]].stage \in Running /\ runs'[frames'[y][i]].at = Home[y]
    BY <1>2, <1>3, <1>4 DEF FramesOK, Keeps
<1>6. ASSUME NEW z \in Contexts, NEW j \in Nat, Within(z, j)', frames'[z][j] = frames'[y][i]
      PROVE  y = z /\ i = j
    BY <1>3, <1>4, <1>6 DEF FramesOK
<1>. QED BY <1>5, <1>6

\* And when a context leaves the run that it is in.
LEMMA FramesLeft ==
    ASSUME Typed, FramesOK, Keeps, NEW x \in Contexts, Entered(x), Leave(x), inherited' = inherited,
           \A m \in DOMAIN runs : m # Top(x) => runs'[m] = runs[m]
    PROVE  FramesOK'
<1>1. /\ \A y \in Contexts \ {x} : frames'[y] = frames[y]
      /\ DOMAIN frames'[x] = DOMAIN frames[x] \ {Len(frames[x])}
      /\ \A i \in DOMAIN frames'[x] : frames'[x][i] = frames[x][i]
      /\ Len(frames[x]) \in Nat
      /\ Within(x, Len(frames[x])) /\ Top(x) = frames[x][Len(frames[x])]
    BY Leaving
<1>2. \A y \in Contexts, j \in Nat : Within(y, j) => frames[y][j] \in DOMAIN runs
    <2>. TAKE y \in Contexts, j \in Nat
    <2>. HAVE Within(y, j)
    <2>1. frames[y] \in Seq(DOMAIN runs) /\ j \in DOMAIN frames[y]
        BY DEF Typed, Within
    <2>. QED BY <2>1, LenProperties, ElementOfSeq
<1>3. \A y \in Contexts, j \in Nat :
         Within(y, j)' => /\ Within(y, j) /\ frames'[y][j] = frames[y][j]
                          /\ ~(y = x /\ j = Len(frames[x]))
    BY <1>1 DEF Within
<1>4. \A y \in Contexts, j \in Nat : Within(y, j)' => frames[y][j] # Top(x)
    BY <1>1, <1>3 DEF FramesOK
<1>. SUFFICES ASSUME NEW y \in Contexts, NEW i \in Nat, Within(y, i)'
     PROVE  /\ runs'[frames'[y][i]].stage \in Running
            /\ runs'[frames'[y][i]].at = Home[y]
            /\ \A z \in Contexts, j \in Nat :
                  Within(z, j)' /\ frames'[z][j] = frames'[y][i] => y = z /\ i = j
    BY DEF FramesOK
<1>5. runs'[frames'[y][i]] = runs[frames[y][i]]
    BY <1>2, <1>3, <1>4
<1>. QED BY <1>3, <1>5 DEF FramesOK

\* The stacks stay when no kickoff starts or ends.
LEMMA StacksKept ==
    ASSUME Typed, \A c \in Crews : StackOK(c), Keeps, UNCHANGED <<active, listening, holds, owned>>,
           \A n \in DOMAIN runs : runs[n].of \in Crews => runs'[n].stage = runs[n].stage,
           \A n \in DOMAIN runs' \ DOMAIN runs : ~(runs'[n].of \in Crews /\ runs'[n].stage = "kickoff")
    PROVE  \A c \in Crews : StackOK(c)'
<1>. SUFFICES ASSUME NEW c \in Crews PROVE StackOK(c)'
    OBVIOUS
<1>1. active[c] \in Seq(DOMAIN runs)
    BY DEF Typed
<1>2. ToSet(active[c]) \subseteq DOMAIN runs
    BY <1>1, LenProperties, ElementOfSeq DEF ToSet
<1>3. ASSUME NEW n \in DOMAIN runs'
      PROVE  runs'[n].of = c /\ runs'[n].stage = "kickoff" <=> n \in ToSet(active[c])
    BY <1>2 DEF StackOK, Keeps
<1>. QED BY <1>3 DEF StackOK

\* The threads stay as they are when no run of theirs starts or suspends.
LEMMA StoresKept ==
    ASSUME Typed, \A t \in Threads : StoreOK(t), Keeps, UNCHANGED <<storeVars, graphVars>>,
           \A n \in DOMAIN runs, t \in Threads : IsUnderWay(n, t)' => IsUnderWay(n, t),
           \A n \in DOMAIN runs' \ DOMAIN runs, t \in Threads : ~IsUnderWay(n, t)'
    PROVE  \A t \in Threads : StoreOK(t)'
<1>. SUFFICES ASSUME NEW t \in Threads PROVE StoreOK(t)'
    OBVIOUS
<1>. memory' = memory /\ waiting' = waiting /\ saved' = saved
    BY DEF storeVars, graphVars
<1>1. ASSUME NEW n \in DOMAIN runs', IsUnderWay(n, t)'
      PROVE  /\ n \in DOMAIN runs /\ IsUnderWay(n, t)
             /\ memory'[runs'[n].at][t] = runs'[n].op
    BY <1>1 DEF StoreOK, Keeps
<1>2. \A n \in DOMAIN runs' : IsUnderWay(n, t)' =>
         /\ memory'[runs'[n].at][t] = runs'[n].op
         /\ \A m \in DOMAIN runs' : IsUnderWay(m, t)' => m = n
    BY <1>1 DEF StoreOK
<1>3. waiting[t] # None =>
         /\ t \in saved
         /\ \E n \in DOMAIN runs' : /\ runs'[n].of = t /\ runs'[n].op = waiting[t]
                                    /\ "suspend" \in ToSet(runs'[n].told)
    <2>. HAVE waiting[t] # None
    <2>1. PICK n \in DOMAIN runs : /\ runs[n].of = t /\ runs[n].op = waiting[t]
                                   /\ "suspend" \in ToSet(runs[n].told)
        BY DEF StoreOK
    <2>2. /\ n \in DOMAIN runs' /\ runs'[n].of = t /\ runs'[n].op = waiting[t]
          /\ "suspend" \in ToSet(runs'[n].told)
        BY <2>1 DEF Keeps
    <2>. QED BY <2>2 DEF StoreOK
<1>. QED BY <1>2, <1>3 DEF StoreOK

\* A run that is told of keeps what it is and has told.
LEMMA ToldKeeps ==
    ASSUME Typed, NEW n \in DOMAIN runs, NEW s \in Stages, NEW e \in Seq(Events), Tell(n, s, e)
    PROVE  /\ Keeps /\ DOMAIN runs' = DOMAIN runs /\ Len(runs') = Len(runs)
           /\ \A m \in DOMAIN runs \ {n} : runs'[m] = runs[m]
           /\ runs'[n].stage = s /\ runs'[n].told = runs[n].told \o e
<1>1. /\ runs' \in Seq(RunRecords) /\ Len(runs') = Len(runs) /\ DOMAIN runs' = DOMAIN runs
      /\ \A m \in DOMAIN runs : /\ runs'[m].of = runs[m].of /\ runs'[m].at = runs[m].at
                                /\ runs'[m].op = runs[m].op
                                /\ m # n => runs'[m] = runs[m]
      /\ runs'[n].stage = s /\ runs'[n].told = runs[n].told \o e
    BY ToldRun DEF Typed
<1>2. runs[n].told \in Seq(Events)
    <2>1. runs[n] \in RunRecords
        BY LenProperties, ElementOfSeq DEF Typed
    <2>. QED BY <2>1 DEF RunRecords
<1>3. \A x \in ToSet(runs[n].told) : x \in ToSet(runs'[n].told)
    BY <1>1, <1>2, KeepsElements
<1>4. \A m \in DOMAIN runs : \A x \in ToSet(runs[m].told) : x \in ToSet(runs'[m].told)
    BY <1>1, <1>3
<1>. QED BY <1>1, <1>4 DEF Keeps

\* A run that starts leaves the others what they are.
LEMMA NewKeeps ==
    ASSUME Typed, NEW r \in RunRecords, runs' = Append(runs, r)
    PROVE  /\ Keeps
           /\ Len(runs') = Len(runs) + 1 /\ Len(runs) + 1 \notin DOMAIN runs
           /\ DOMAIN runs' = DOMAIN runs \cup {Len(runs) + 1}
           /\ \A m \in DOMAIN runs : runs'[m] = runs[m]
           /\ runs'[Len(runs) + 1] = r
<1>1. /\ runs' \in Seq(RunRecords) /\ Len(runs') = Len(runs) + 1
      /\ Len(runs) + 1 \notin DOMAIN runs
      /\ DOMAIN runs' = DOMAIN runs \cup {Len(runs) + 1}
      /\ \A m \in DOMAIN runs : runs'[m] = runs[m]
      /\ runs'[Len(runs) + 1] = r
    BY NewRun DEF Typed
<1>. QED BY <1>1 DEF Keeps

\* The record of a new run.
LEMMA NewRecord ==
    ASSUME Typed, NEW x \in Contexts, NEW of \in Crews \cup Threads, NEW op \in Operations,
           NEW mode \in Modes, NEW refused \in BOOLEAN
    PROVE  LET r == Run(of, x, op, mode, refused)
           IN  /\ r \in RunRecords
               /\ r.of = of /\ r.at = Home[x] /\ r.op = op
               /\ r.stage = IF refused THEN "refused" ELSE mode
               /\ r.told = IF refused THEN <<>> ELSE <<"start">>
<1>1. Home[x] \in Processes
    BY RunsAssumption
<1>2. <<>> \in Seq(Events) /\ <<"start">> \in Seq(Events)
    BY DEF Events
<1>. QED BY <1>1, <1>2 DEF Run, RunRecords, Live

\* What one or two elements become.
LEMMA ShortSequences ==
    ASSUME NEW S, NEW a \in S, NEW b \in S, NEW c \in S
    PROVE  /\ <<a>> \o <<>> = <<a>> /\ <<a, b>> \o <<>> = <<a, b>>
           /\ <<a>> \o <<b>> = <<a, b>> /\ <<a, b>> \o <<c>> = <<a, b, c>>
           /\ <<a>> \o <<b, c>> = <<a, b, c>>
           /\ <<>> \in Seq(S) /\ <<b>> \in Seq(S) /\ <<b, c>> \in Seq(S)
<1>1. <<a>> \o <<>> = <<a>> /\ <<a, b>> \o <<>> = <<a, b>>
    BY <<a>> \in Seq(S), <<a, b>> \in Seq(S), ConcatEmptySeq
<1>2. <<a>> \o <<b>> = <<a, b>>
    BY <<a>> \in Seq(S), <<b>> \in Seq(S), <<a, b>> = Append(<<a>>, b), AppendIsConcat
<1>3. <<a, b>> \o <<c>> = <<a, b, c>>
    BY <<a, b>> \in Seq(S), <<c>> \in Seq(S), <<a, b, c>> = Append(<<a, b>>, c), AppendIsConcat
<1>4. <<a>> \o <<b, c>> = <<a, b, c>>
    <2>1. <<b, c>> = <<b>> \o <<c>>
        BY <<b>> \in Seq(S), <<c>> \in Seq(S), <<b, c>> = Append(<<b>>, c), AppendIsConcat
    <2>2. <<a>> \o (<<b>> \o <<c>>) = (<<a>> \o <<b>>) \o <<c>>
        BY <<a>> \in Seq(S), <<b>> \in Seq(S), <<c>> \in Seq(S), ConcatAssociative
    <2>. QED BY <1>2, <1>3, <2>1, <2>2
<1>. QED BY <1>1, <1>2, <1>3, <1>4

LEMMA ToldAfterStart ==
    ASSUME NEW b \in Events, NEW c \in Events
    PROVE  /\ <<"start">> \o <<>> = <<"start">> /\ <<"start">> \o <<b>> = <<"start", b>>
           /\ <<"start", b>> \o <<>> = <<"start", b>>
           /\ <<"start", b>> \o <<c>> = <<"start", b, c>>
           /\ <<"start">> \o <<b, c>> = <<"start", b, c>>
           /\ <<>> \in Seq(Events) /\ <<b>> \in Seq(Events) /\ <<b, c>> \in Seq(Events)
<1>1. PICK a \in Events : a = "start"
    BY DEF Events
<1>2. /\ <<a>> \o <<>> = <<a>> /\ <<a>> \o <<b>> = <<a, b>> /\ <<a, b>> \o <<>> = <<a, b>>
      /\ <<a, b>> \o <<c>> = <<a, b, c>> /\ <<b>> \in Seq(Events) /\ <<>> \in Seq(Events)
      /\ <<a>> \o <<b, c>> = <<a, b, c>> /\ <<b, c>> \in Seq(Events)
    BY ShortSequences
<1>. QED BY <1>1, <1>2

\* What a run has told when it stops or ends, by what it had told.
LEMMA Endings ==
    /\ <<"start">> \o <<>> = <<"start">>
    /\ <<"start">> \o <<"end">> = <<"start", "end">>
    /\ <<"start">> \o <<"error">> = <<"start", "error">>
    /\ <<"start">> \o <<"suspend">> = <<"start", "suspend">>
    /\ <<"start">> \o <<"error", "error">> = <<"start", "error", "error">>
    /\ <<"start">> \o <<"outcome">> = <<"start", "outcome">>
    /\ <<"start">> \o <<"heard", "outcome">> = <<"start", "heard", "outcome">>
    /\ <<"start", "suspend">> \o <<>> = <<"start", "suspend">>
    /\ <<"start", "suspend">> \o <<"error">> = <<"start", "suspend", "error">>
    /\ {<<>>, <<"end">>, <<"error">>, <<"error", "error">>, <<"suspend">>, <<"outcome">>,
        <<"heard", "outcome">>} \subseteq Seq(Events)
<1>1. PICK b, c, d, e, h \in Events :
         b = "end" /\ c = "error" /\ d = "suspend" /\ e = "outcome" /\ h = "heard"
    BY DEF Events
<1>2. /\ <<"start">> \o <<>> = <<"start">>
      /\ <<"start">> \o <<b>> = <<"start", b>>
      /\ <<"start">> \o <<c>> = <<"start", c>>
      /\ <<"start">> \o <<d>> = <<"start", d>>
      /\ <<"start">> \o <<c, c>> = <<"start", c, c>>
      /\ <<"start">> \o <<e>> = <<"start", e>>
      /\ <<"start">> \o <<h, e>> = <<"start", h, e>>
      /\ <<"start", d>> \o <<>> = <<"start", d>>
      /\ <<"start", d>> \o <<c>> = <<"start", d, c>>
      /\ {<<>>, <<b>>, <<c>>, <<c, c>>, <<d>>, <<e>>, <<h, e>>} \subseteq Seq(Events)
    BY ToldAfterStart
<1>. QED BY <1>1, <1>2

-----------------------------------------------------------------------------
(* The steps keep the invariant. *)

\* A graph run that stops.
LEMMA StopsStep ==
    ASSUME IInv, NEW x \in Contexts, NEW s, NEW e, Stops(x, s, e)
    PROVE  IInv'
<1>. DEFINE n == Top(x)
<1>. Typed /\ FramesOK
    BY DEF IInv
<1>0. s \in Stages /\ e \in Seq(Events) /\ s # "killed" /\ s # "refused"
    <2>1. e \in {<<>>, <<"end">>, <<"error">>, <<"error", "error">>, <<"suspend">>}
        BY DEF Stops
    <2>. QED BY <2>1, Endings DEF Stops, Stages, Live
<1>1. /\ frames' \in [Contexts -> Seq(DOMAIN runs)]
      /\ Len(frames'[x]) = Len(frames[x]) - 1 /\ \A y \in Contexts \ {x} : frames'[y] = frames[y]
      /\ Len(frames[x]) \in Nat \ {0}
      /\ n \in DOMAIN runs /\ Entered(x)
    BY Leaving DEF Stops, Executing
<1>2. /\ Keeps /\ DOMAIN runs' = DOMAIN runs /\ Len(runs') = Len(runs)
      /\ \A m \in DOMAIN runs \ {n} : runs'[m] = runs[m]
      /\ runs'[n].stage = s /\ runs'[n].told = runs[n].told \o e
    BY <1>0, <1>1, ToldKeeps DEF Stops
<1>3. runs[n].stage \in {"invoke", "stream"} /\ runs[n].of = Thread(x) /\ Thread(x) \in Threads
    BY DEF Stops, Executing, Thread
<1>4. /\ runs'[n].of = Thread(x) /\ runs'[n].at = runs[n].at /\ runs'[n].op = runs[n].op
      /\ Thread(x) \notin Crews
    BY <1>1, <1>2, <1>3, RunsAssumption DEF Keeps
<1>. HIDE DEF n
<1>5. Typed'
    <2>1. waiting' \in [Threads -> DOMAIN runs \cup {None}]
        BY <1>1, <1>3 DEF Stops, Typed, n
    <2>2. \A y \in Contexts : inherited[y] <= Len(frames'[y])
        <3>1. inherited[x] \in Nat /\ Len(frames[x]) > inherited[x]
            BY <1>1 DEF Entered, Typed
        <3>2. inherited[x] <= Len(frames'[x])
            BY <1>1, <3>1
        <3>. QED BY <1>1, <3>2 DEF Typed
    <2>3. saved' \subseteq Threads
        BY <1>3 DEF Stops, Typed
    <2>4. \A m \in DOMAIN runs : runs'[m].op \in DOMAIN runs
        BY <1>2, TypesGrow
    <2>5. UNCHANGED <<inherited, active, listening, holds, owned, memory, file>>
        BY DEF Stops, crewVars, storeVars
    <2>. QED BY <1>1, <1>2, <2>1, <2>2, <2>3, <2>4, <2>5 DEF Typed, Keeps
<1>6. \A m \in DOMAIN runs' : RunOK(m)'
    <2>. SUFFICES ASSUME NEW m \in DOMAIN runs PROVE RunOK(m)'
        BY <1>2
    <2>0. RunOK(m)
        BY DEF IInv
    <2>1. CASE m # n
        BY <1>2, <2>0, <2>1 DEF RunOK
    <2>2. CASE m = n
        <3>1. runs[n].told = <<"start">>
            BY <1>3, <2>0, <2>2 DEF RunOK, Running
        <3>2. runs'[n].told = <<"start">> \o e
            BY <1>2, <3>1
        <3>. QED BY <1>2, <1>4, <2>2, <3>2, Endings DEF Stops, RunOK, Running
    <2>. QED BY <2>1, <2>2
<1>7. FramesOK'
    BY <1>1, <1>2, FramesLeft DEF Stops, n
<1>8. \A c \in Crews : StackOK(c)'
    <2>1. \A m \in DOMAIN runs : runs[m].of \in Crews => runs'[m].stage = runs[m].stage
        BY <1>2, <1>3, <1>4
    <2>2. UNCHANGED <<active, listening, holds, owned>>
        BY DEF Stops, crewVars
    <2>. QED BY <1>2, <2>1, <2>2, StacksKept DEF IInv
<1>9. \A t \in Threads : StoreOK(t)'
    <2>. SUFFICES ASSUME NEW t \in Threads PROVE StoreOK(t)'
        OBVIOUS
    <2>0. StoreOK(t) /\ memory' = memory /\ file' = file
        BY DEF IInv, Stops, storeVars
    <2>1. \A m \in DOMAIN runs : IsUnderWay(m, t)' => IsUnderWay(m, t)
        BY <1>2, <1>3, <1>4 DEF IsUnderWay
    <2>2. \A m \in DOMAIN runs' : IsUnderWay(m, t)' =>
             /\ memory'[runs'[m].at][t] = runs'[m].op
             /\ \A l \in DOMAIN runs' : IsUnderWay(l, t)' => l = m
        BY <1>2, <2>0, <2>1 DEF StoreOK, Keeps
    <2>3. ASSUME waiting'[t] # None
          PROVE  /\ t \in saved'
                 /\ \E m \in DOMAIN runs' : /\ runs'[m].of = t /\ runs'[m].op = waiting'[t]
                                            /\ "suspend" \in ToSet(runs'[m].told)
        <3>1. CASE waiting'[t] = waiting[t]
            <4>1. t \in saved'
                BY <2>0, <2>3, <3>1 DEF StoreOK, Stops
            <4>2. PICK m \in DOMAIN runs : /\ runs[m].of = t /\ runs[m].op = waiting[t]
                                           /\ "suspend" \in ToSet(runs[m].told)
                BY <2>0, <2>3, <3>1 DEF StoreOK
            <4>. QED BY <1>2, <3>1, <4>1, <4>2 DEF Keeps
        <3>2. CASE waiting'[t] # waiting[t]
            <4>1. /\ e = <<"suspend">> /\ t = Thread(x) /\ t \in saved'
                  /\ waiting'[t] = runs[n].op
                BY <1>3, <2>3, <3>2 DEF Stops, Typed, n
            <4>2. runs'[n].told = <<"start", "suspend">>
                <5>1. runs[n].told = <<"start">>
                    BY <1>1, <1>3 DEF IInv, RunOK, Running
                <5>. QED BY <1>2, <4>1, <5>1, Endings
            <4>3. "suspend" \in ToSet(runs'[n].told)
                <5>1. 2 \in DOMAIN <<"start", "suspend">> /\ <<"start", "suspend">>[2] = "suspend"
                    OBVIOUS
                <5>. QED BY <4>2, <5>1 DEF ToSet
            <4>. QED BY <1>1, <1>2, <1>4, <4>1, <4>3
        <3>. QED BY <3>1, <3>2
    <2>. QED BY <2>2, <2>3 DEF StoreOK
<1>10. ASSUME OneHome, NEW y \in Contexts, NEW t \in Threads, waiting'[t] # None
       PROVE  CacheOK(Home[y], t)'
    <2>0. memory' = memory /\ file' = file
        BY DEF Stops, storeVars
    <2>1. CASE waiting'[t] = waiting[t]
        BY <1>10, <2>0, <2>1 DEF IInv, CacheOK
    <2>2. CASE waiting'[t] # waiting[t]
        <3>1. t = Thread(x) /\ waiting'[t] = runs[n].op
            BY <1>3, <1>10, <2>2 DEF Stops, Typed, n
        <3>2. runs[n].at = Home[y]
            <4>1. runs[n].at = Home[x]
                BY <1>1, Leaving DEF FramesOK, Stops, n
            <4>. QED BY <1>10, <4>1 DEF OneHome
        <3>3. memory[Home[y]][t] = runs[n].op
            BY <1>1, <1>3, <3>1, <3>2 DEF IInv, StoreOK, IsUnderWay
        <3>. QED BY <2>0, <3>1, <3>3 DEF CacheOK
    <2>. QED BY <2>1, <2>2
<1>. QED BY <1>5, <1>6, <1>7, <1>8, <1>9, <1>10 DEF IInv, OneHome

\* A stream that goes on.
LEMMA ResumesStep ==
    ASSUME IInv, NEW x \in Contexts, NEW n \in DOMAIN runs, Resumes(x, n)
    PROVE  IInv'
<1>. Typed /\ FramesOK /\ RunOK(n) /\ (\A c \in Crews : StackOK(c)) /\ \A t \in Threads : StoreOK(t)
    BY DEF IInv
<1>1. /\ Keeps /\ DOMAIN runs' = DOMAIN runs /\ Len(runs') = Len(runs)
      /\ \A m \in DOMAIN runs \ {n} : runs'[m] = runs[m]
      /\ runs'[n].stage = "stream" /\ runs'[n].told = runs[n].told \o <<>>
    <2>1. "stream" \in Stages /\ <<>> \in Seq(Events)
        BY Endings DEF Stages, Live, Modes
    <2>. QED BY <2>1, ToldKeeps DEF Resumes
<1>2. runs[n].stage = "idle" /\ runs[n].at = Home[x] /\ runs[n].of \notin Crews
    BY DEF Resumes, RunOK
<1>3. /\ runs'[n].of = runs[n].of /\ runs'[n].at = runs[n].at /\ runs'[n].op = runs[n].op
    BY <1>1 DEF Keeps
<1>4. UNCHANGED <<inherited, active, listening, holds, owned, memory, file, saved, waiting>>
    BY DEF Resumes, crewVars, storeVars, graphVars
<1>5. Typed'
    <2>1. /\ frames' \in [Contexts -> Seq(DOMAIN runs)]
          /\ \A y \in Contexts \ {x} : frames'[y] = frames[y]
          /\ Len(frames'[x]) = Len(frames[x]) + 1
        BY Entering DEF Resumes
    <2>2. \A y \in Contexts : inherited[y] <= Len(frames'[y])
        <3>1. inherited[x] \in Nat /\ Len(frames[x]) \in Nat /\ Len(frames[x]) >= inherited[x]
            BY LenProperties DEF Typed
        <3>2. inherited[x] <= Len(frames'[x])
            BY <2>1, <3>1
        <3>. QED BY <2>1, <3>2 DEF Typed
    <2>3. \A m \in DOMAIN runs : runs'[m].op \in DOMAIN runs
        BY <1>1, TypesGrow
    <2>. QED BY <1>1, <1>4, <2>1, <2>2, <2>3 DEF Typed, Keeps
<1>6. \A m \in DOMAIN runs' : RunOK(m)'
    <2>. SUFFICES ASSUME NEW m \in DOMAIN runs PROVE RunOK(m)'
        BY <1>1
    <2>1. CASE m # n
        BY <1>1, <2>1 DEF IInv, RunOK
    <2>2. CASE m = n
        <3>1. runs'[n].told = <<"start">>
            BY <1>1, <1>2, Endings DEF RunOK
        <3>. QED BY <1>1, <1>2, <1>3, <2>2, <3>1 DEF RunOK
    <2>. QED BY <2>1, <2>2
<1>7. FramesOK'
    <2>1. \A m \in DOMAIN runs : runs[m].stage \in Running => runs'[m].stage \in Running
        BY <1>1, <1>2 DEF Running
    <2>. QED BY <1>1, <1>2, <1>3, <2>1, FramesEntered DEF Resumes, Running
<1>8. \A c \in Crews : StackOK(c)'
    BY <1>1, <1>2, <1>4, StacksKept
<1>9. \A t \in Threads : StoreOK(t)'
    <2>1. \A m \in DOMAIN runs, t \in Threads : IsUnderWay(m, t)' => IsUnderWay(m, t)
        BY <1>1, <1>2, <1>3 DEF IsUnderWay
    <2>. QED BY <1>1, <2>1, StoresKept DEF Resumes
<1>10. OneHome => \A y \in Contexts, t \in Threads : waiting'[t] # None => CacheOK(Home[y], t)'
    BY <1>4 DEF IInv, CacheOK
<1>. QED BY <1>5, <1>6, <1>7, <1>8, <1>9, <1>10 DEF IInv, OneHome

\* A stream that is over without going on.
LEMMA DropsStep ==
    ASSUME IInv, NEW n \in DOMAIN runs, NEW e, Drops(n, e)
    PROVE  IInv'
<1>. Typed /\ FramesOK /\ RunOK(n) /\ (\A c \in Crews : StackOK(c)) /\ \A t \in Threads : StoreOK(t)
    BY DEF IInv
<1>1. /\ Keeps /\ DOMAIN runs' = DOMAIN runs /\ Len(runs') = Len(runs)
      /\ \A m \in DOMAIN runs \ {n} : runs'[m] = runs[m]
      /\ runs'[n].stage = "done" /\ runs'[n].told = runs[n].told \o e
    <2>1. "done" \in Stages /\ e \in Seq(Events)
        BY Endings DEF Drops, Stages, Live, Modes
    <2>. QED BY <2>1, ToldKeeps DEF Drops
<1>2. runs[n].stage \in {"idle", "held"} /\ runs[n].of \notin Crews
    BY DEF Drops, RunOK
<1>3. /\ runs'[n].of = runs[n].of /\ runs'[n].at = runs[n].at /\ runs'[n].op = runs[n].op
    BY <1>1 DEF Keeps
<1>4. UNCHANGED <<frames, inherited, active, listening, holds, owned, memory, file, saved, waiting>>
    BY DEF Drops, crewVars, storeVars, graphVars
<1>5. Typed'
    <2>1. \A m \in DOMAIN runs : runs'[m].op \in DOMAIN runs
        BY <1>1, TypesGrow
    <2>. QED BY <1>1, <1>4, <2>1 DEF Typed, Keeps
<1>6. \A m \in DOMAIN runs' : RunOK(m)'
    <2>. SUFFICES ASSUME NEW m \in DOMAIN runs PROVE RunOK(m)'
        BY <1>1
    <2>1. CASE m # n
        BY <1>1, <2>1 DEF IInv, RunOK
    <2>2. CASE m = n
        <3>1. runs[n].told \in {<<"start">>, <<"start", "suspend">>}
            BY <1>2 DEF RunOK
        <3>2. runs'[n].told \in {<<"start">>, <<"start", "error">>, <<"start", "suspend">>,
                                 <<"start", "suspend", "error">>}
            BY <1>1, <3>1, Endings DEF Drops
        <3>. QED BY <1>1, <1>2, <1>3, <2>2, <3>2 DEF RunOK, Running
    <2>. QED BY <2>1, <2>2
<1>7. FramesOK'
    <2>1. \A m \in DOMAIN runs : runs[m].stage \in Running => runs'[m].stage \in Running
        BY <1>1, <1>2 DEF Running
    <2>. QED BY <1>1, <1>4, <2>1, FramesKept
<1>8. \A c \in Crews : StackOK(c)'
    BY <1>1, <1>2, <1>4, StacksKept
<1>9. \A t \in Threads : StoreOK(t)'
    <2>1. \A m \in DOMAIN runs, t \in Threads : IsUnderWay(m, t)' => IsUnderWay(m, t)
        BY <1>1, <1>2, <1>3 DEF IsUnderWay
    <2>. QED BY <1>1, <2>1, StoresKept DEF Drops
<1>10. OneHome => \A y \in Contexts, t \in Threads : waiting'[t] # None => CacheOK(Home[y], t)'
    BY <1>4 DEF IInv, CacheOK
<1>. QED BY <1>5, <1>6, <1>7, <1>8, <1>9, <1>10 DEF IInv, OneHome

\* A kickoff that ends.
LEMMA KickoffEndsStep ==
    ASSUME IInv, NEW x \in Contexts, KickoffEnds(x)
    PROVE  IInv'
<1>. DEFINE n == Top(x)
            c == runs[n].of
<1>. Typed /\ FramesOK /\ (\A d \in Crews : StackOK(d)) /\ \A t \in Threads : StoreOK(t)
    BY DEF IInv
<1>1. /\ frames' \in [Contexts -> Seq(DOMAIN runs)]
      /\ Len(frames'[x]) = Len(frames[x]) - 1 /\ \A y \in Contexts \ {x} : frames'[y] = frames[y]
      /\ Len(frames[x]) \in Nat \ {0}
      /\ n \in DOMAIN runs /\ Entered(x)
    BY Leaving DEF KickoffEnds
<1>2. c \in Crews /\ runs[n].stage = "kickoff" /\ runs[n].told = <<"start">>
    <2>1. runs[n].stage \in Running
        BY Leaving DEF KickoffEnds, FramesOK
    <2>. QED BY <1>1, <2>1 DEF KickoffEnds, IInv, RunOK, Running
<1>3. /\ Keeps /\ DOMAIN runs' = DOMAIN runs /\ Len(runs') = Len(runs)
      /\ \A m \in DOMAIN runs \ {n} : runs'[m] = runs[m]
      /\ runs'[n].stage = "done"
      /\ runs'[n].told \in {runs[n].told \o <<"outcome">>, runs[n].told \o <<"heard", "outcome">>}
    <2>1. PICK told \in {<<"outcome">>, <<"heard", "outcome">>} : Tell(n, "done", told)
        <3>1. PICK told \in Reports(c, n) : Tell(n, "done", told)
            BY DEF KickoffEnds
        <3>2. told \in {<<"outcome">>, <<"heard", "outcome">>}
            BY <3>1 DEF Reports
        <3>. QED BY <3>1, <3>2
    <2>2. "done" \in Stages /\ told \in Seq(Events)
        BY Endings DEF Stages
    <2>. HIDE DEF n
    <2>3. /\ Keeps /\ DOMAIN runs' = DOMAIN runs /\ Len(runs') = Len(runs)
          /\ \A m \in DOMAIN runs \ {n} : runs'[m] = runs[m]
          /\ runs'[n].stage = "done" /\ runs'[n].told = runs[n].told \o told
        BY <1>1, <2>1, <2>2, ToldKeeps
    <2>. QED BY <2>1, <2>3
<1>4. /\ runs'[n].of = c /\ runs'[n].at = runs[n].at /\ runs'[n].op = runs[n].op
    BY <1>1, <1>3 DEF Keeps
<1>5. UNCHANGED <<inherited, listening, holds, owned, memory, file, saved, waiting>>
    BY DEF KickoffEnds, storeVars, graphVars
<1>6. /\ \A d \in Crews \ {c} : active'[d] = active[d]
      /\ active'[c] \in Seq(DOMAIN runs) /\ active' \in [Crews -> Seq(DOMAIN runs)]
      /\ ToSet(active'[c]) = ToSet(active[c]) \ {n}
      /\ \A i, j \in DOMAIN active'[c] : active'[c][i] = active'[c][j] => i = j
    <2>1. active[c] \in Seq(DOMAIN runs) /\ n \in ToSet(active[c])
        BY <1>1, <1>2 DEF Typed, StackOK
    <2>2. active' = [active EXCEPT ![c] = RemoveFirst(active[c], n)]
        BY <2>1 DEF KickoffEnds, Unbind
    <2>3. active'[c] = RemoveFirst(active[c], n)
        BY <1>2, <2>2 DEF Typed
    <2>4. /\ RemoveFirst(active[c], n) \in Seq(DOMAIN runs)
          /\ ToSet(RemoveFirst(active[c], n)) = ToSet(active[c]) \ {n}
          /\ \A i, j \in DOMAIN RemoveFirst(active[c], n) :
                RemoveFirst(active[c], n)[i] = RemoveFirst(active[c], n)[j] => i = j
        <3>1. \A i, j \in DOMAIN active[c] : active[c][i] = active[c][j] => i = j
            BY <1>2 DEF StackOK
        <3>. QED BY <2>1, <3>1, RemovedOnce
    <2>5. active' \in [Crews -> Seq(DOMAIN runs)]
        BY <1>2, <2>2, <2>4 DEF Typed
    <2>. QED BY <2>2, <2>3, <2>4, <2>5 DEF Typed
<1>. HIDE DEF n, c
<1>7. Typed'
    <2>1. \A y \in Contexts : inherited[y] <= Len(frames'[y])
        <3>1. inherited[x] \in Nat /\ Len(frames[x]) > inherited[x]
            BY <1>1 DEF Entered, Typed
        <3>2. inherited[x] <= Len(frames'[x])
            BY <1>1, <3>1
        <3>. QED BY <1>1, <3>2 DEF Typed
    <2>2. \A m \in DOMAIN runs : runs'[m].op \in DOMAIN runs
        BY <1>3, TypesGrow
    <2>. QED BY <1>1, <1>3, <1>5, <1>6, <2>1, <2>2 DEF Typed, Keeps
<1>8. \A m \in DOMAIN runs' : RunOK(m)'
    <2>. SUFFICES ASSUME NEW m \in DOMAIN runs PROVE RunOK(m)'
        BY <1>3
    <2>1. CASE m # n
        BY <1>3, <2>1 DEF IInv, RunOK
    <2>2. CASE m = n
        <3>1. runs'[n].told \in {<<"start", "outcome">>, <<"start", "heard", "outcome">>}
            BY <1>2, <1>3, Endings
        <3>2. runs[n].at = Home[c] /\ c \notin Threads
            BY <1>1, <1>2, RunsAssumption DEF IInv, RunOK, c
        <3>. QED BY <1>2, <1>3, <1>4, <2>2, <3>1, <3>2 DEF RunOK, Running
    <2>. QED BY <2>1, <2>2
<1>9. FramesOK'
    BY <1>1, <1>3, <1>5, FramesLeft DEF KickoffEnds, n
<1>10. ASSUME NEW d \in Crews PROVE StackOK(d)'
    <2>1. CASE d = c
        <3>1. ASSUME NEW m \in DOMAIN runs'
              PROVE  runs'[m].of = d /\ runs'[m].stage = "kickoff" <=> m \in ToSet(active'[d])
            <4>1. CASE m = n
                BY <1>3, <1>6, <2>1, <4>1
            <4>2. CASE m # n
                BY <1>3, <1>6, <2>1, <4>2 DEF StackOK
            <4>. QED BY <4>1, <4>2
        <3>2. d \in holds' /\ d \in listening' /\ active'[d] # <<>> => d \in owned'
            <4>1. n \in ToSet(active[c])
                BY <1>1, <1>2 DEF StackOK, c
            <4>2. active[c] # <<>>
                BY <4>1 DEF ToSet
            <4>. QED BY <1>2, <1>5, <2>1, <4>2 DEF StackOK
        <3>. QED BY <1>6, <2>1, <3>1, <3>2 DEF StackOK
    <2>2. CASE d # c
        <3>1. ASSUME NEW m \in DOMAIN runs'
              PROVE  runs'[m].of = d /\ runs'[m].stage = "kickoff" <=> m \in ToSet(active'[d])
            <4>1. CASE m = n
                BY <1>1, <1>2, <1>3, <1>4, <1>6, <2>2, <4>1 DEF StackOK, c
            <4>2. CASE m # n
                <5>1. runs'[m] = runs[m] /\ m \in DOMAIN runs /\ active'[d] = active[d]
                    BY <1>3, <1>6, <2>2, <4>2
                <5>. QED BY <5>1 DEF StackOK
            <4>. QED BY <4>1, <4>2
        <3>. QED BY <1>5, <1>6, <2>2, <3>1 DEF StackOK
    <2>. QED BY <2>1, <2>2
<1>11. \A t \in Threads : StoreOK(t)'
    <2>1. \A m \in DOMAIN runs, t \in Threads : IsUnderWay(m, t)' => IsUnderWay(m, t)
        BY <1>3 DEF IsUnderWay
    <2>. QED BY <1>3, <2>1, StoresKept DEF KickoffEnds
<1>12. OneHome => \A y \in Contexts, t \in Threads : waiting'[t] # None => CacheOK(Home[y], t)'
    BY <1>5 DEF IInv, CacheOK
<1>. QED BY <1>7, <1>8, <1>9, <1>10, <1>11, <1>12 DEF IInv, OneHome

\* A run that is refused: a graph's may have read the file into the cache.
LEMMA RefusedStep ==
    ASSUME IInv, NEW n, NEW r \in RunRecords, NEW x \in Contexts,
           n = Len(runs) + 1, n <= MaxRuns, runs' = Append(runs, r),
           r.stage = "refused", r.told = <<>>, r.at = Home[x],
           r.of \in Crews => r.at = Home[r.of],
           r.op \in DOMAIN runs \cup {n},
           UNCHANGED <<frames, inherited, crewVars, file, graphVars>>,
           memory' \in [Processes -> [Threads -> DOMAIN runs \cup {None}]],
           \A t \in Threads : (\E m \in DOMAIN runs : IsUnderWay(m, t)) =>
              \A p \in Processes : memory'[p][t] = memory[p][t],
           OneHome => \A y \in Contexts, t \in Threads :
                         waiting[t] # None => CacheOK(Home[y], t)'
    PROVE  IInv'
<1>. Typed /\ FramesOK /\ (\A d \in Crews : StackOK(d)) /\ \A t \in Threads : StoreOK(t)
    BY DEF IInv
<1>1. /\ Keeps /\ Len(runs') = n /\ n \notin DOMAIN runs
      /\ DOMAIN runs' = DOMAIN runs \cup {n}
      /\ \A m \in DOMAIN runs : runs'[m] = runs[m]
      /\ runs'[n] = r
    BY NewKeeps
<1>2. UNCHANGED <<active, listening, holds, owned, saved, waiting>>
    BY DEF crewVars, graphVars
<1>3. Typed'
    <2>1. /\ DOMAIN runs \subseteq DOMAIN runs'
          /\ frames \in [Contexts -> Seq(DOMAIN runs')]
          /\ active \in [Crews -> Seq(DOMAIN runs')]
          /\ file \in [Threads -> DOMAIN runs' \cup {None}]
          /\ waiting \in [Threads -> DOMAIN runs' \cup {None}]
          /\ \A m \in DOMAIN runs : runs'[m].op \in DOMAIN runs'
        BY <1>1, TypesGrow
    <2>2. memory' \in [Processes -> [Threads -> DOMAIN runs' \cup {None}]]
        <3>1. \A p \in Processes : memory'[p] \in [Threads -> DOMAIN runs' \cup {None}]
            <4>. TAKE p \in Processes
            <4>1. memory'[p] \in [Threads -> DOMAIN runs \cup {None}]
                OBVIOUS
            <4>. QED BY <2>1, <4>1
        <3>. QED BY <3>1
    <2>3. \A m \in DOMAIN runs' : runs'[m].op \in DOMAIN runs'
        BY <1>1, <2>1
    <2>. QED BY <1>1, <1>2, <2>1, <2>2, <2>3 DEF Typed, Keeps
<1>4. \A m \in DOMAIN runs' : RunOK(m)'
    <2>. SUFFICES ASSUME NEW m \in DOMAIN runs' PROVE RunOK(m)'
        OBVIOUS
    <2>1. CASE m \in DOMAIN runs
        BY <1>1, <2>1 DEF IInv, RunOK
    <2>2. CASE m = n
        BY <1>1, <2>2 DEF RunOK, Running
    <2>. QED BY <1>1, <2>1, <2>2
<1>5. FramesOK'
    BY <1>1, FramesKept
<1>6. \A d \in Crews : StackOK(d)'
    BY <1>1, <1>2, StacksKept
<1>7. ASSUME NEW t \in Threads PROVE StoreOK(t)'
    <2>1. \A m \in DOMAIN runs' : IsUnderWay(m, t)' => m \in DOMAIN runs /\ IsUnderWay(m, t)
        BY <1>1 DEF IsUnderWay
    <2>2. \A m \in DOMAIN runs' : IsUnderWay(m, t)' =>
             /\ memory'[runs'[m].at][t] = runs'[m].op
             /\ \A l \in DOMAIN runs' : IsUnderWay(l, t)' => l = m
        <3>. TAKE m \in DOMAIN runs'
        <3>. HAVE IsUnderWay(m, t)'
        <3>1. m \in DOMAIN runs /\ IsUnderWay(m, t) /\ runs'[m] = runs[m]
            BY <1>1, <2>1
        <3>2. runs[m].at \in Processes
            <4>1. runs[m] \in RunRecords
                BY <3>1, LenProperties, ElementOfSeq DEF Typed
            <4>. QED BY <4>1 DEF RunRecords
        <3>. QED BY <2>1, <3>1, <3>2 DEF StoreOK
    <2>3. ASSUME waiting[t] # None
          PROVE  /\ t \in saved
                 /\ \E m \in DOMAIN runs' : /\ runs'[m].of = t /\ runs'[m].op = waiting[t]
                                            /\ "suspend" \in ToSet(runs'[m].told)
        <3>1. PICK m \in DOMAIN runs : /\ runs[m].of = t /\ runs[m].op = waiting[t]
                                       /\ "suspend" \in ToSet(runs[m].told)
            BY <2>3 DEF StoreOK
        <3>2. m \in DOMAIN runs' /\ runs'[m] = runs[m]
            BY <1>1, <3>1
        <3>. QED BY <2>3, <3>1, <3>2 DEF StoreOK
    <2>. QED BY <1>2, <2>2, <2>3 DEF StoreOK
<1>. QED BY <1>2, <1>3, <1>4, <1>5, <1>6, <1>7 DEF IInv, OneHome

\* A kickoff.
LEMMA KickoffStep ==
    ASSUME IInv, NEW x \in Contexts, NEW c \in Crews, Kickoff(x, c)
    PROVE  IInv'
<1>. DEFINE n == Len(runs) + 1
            refused == Conflicts(x, n) /\ ~IsChild(x, c)
            r == Run(c, x, n, "kickoff", refused)
<1>. Typed /\ FramesOK /\ (\A d \in Crews : StackOK(d)) /\ \A t \in Threads : StoreOK(t)
    BY DEF IInv
<1>1. /\ r \in RunRecords /\ r.of = c /\ r.at = Home[x] /\ Home[x] = Home[c] /\ r.op = n
      /\ r.stage = IF refused THEN "refused" ELSE "kickoff"
      /\ r.told = IF refused THEN <<>> ELSE <<"start">>
    <2>1. n \in Operations /\ Home[x] = Home[c]
        BY LenProperties, RunsAssumption DEF Kickoff, Operations, Typed
    <2>2. "kickoff" \in Modes /\ refused \in BOOLEAN
        BY DEF Modes
    <2>3. PICK k \in Operations, b \in BOOLEAN : k = n /\ b = refused
        BY <2>1, <2>2
    <2>4. LET s == Run(c, x, k, "kickoff", b)
          IN  /\ s \in RunRecords /\ s.of = c /\ s.at = Home[x] /\ s.op = k
              /\ s.stage = IF b THEN "refused" ELSE "kickoff"
              /\ s.told = IF b THEN <<>> ELSE <<"start">>
        BY <2>2, NewRecord
    <2>5. r = Run(c, x, k, "kickoff", b)
        BY <2>3
    <2>. HIDE DEF r, refused, n
    <2>. QED BY <2>1, <2>3, <2>4, <2>5
<1>2. runs' = Append(runs, r) /\ n <= MaxRuns
    BY DEF Kickoff
<1>3. /\ refused => UNCHANGED <<frames, owned, active>>
      /\ ~refused => Enter(x, n) /\ Bind(c, n)
      /\ UNCHANGED <<inherited, listening, holds, memory, file, saved, waiting>>
    BY DEF Kickoff, storeVars, graphVars
<1>. HIDE DEF r, refused
<1>4. CASE refused
    <2>1. UNCHANGED <<frames, inherited, crewVars, file, graphVars, memory>>
        BY <1>3, <1>4 DEF crewVars, graphVars
    <2>2. memory' \in [Processes -> [Threads -> DOMAIN runs \cup {None}]]
        BY <2>1 DEF Typed
    <2>3. OneHome => \A y \in Contexts, t \in Threads : waiting[t] # None => CacheOK(Home[y], t)'
        BY <1>3, <2>1 DEF IInv, CacheOK
    <2>. QED BY <1>1, <1>2, <1>4, <2>1, <2>2, <2>3, RefusedStep
<1>5. CASE ~refused
    <2>1. /\ Keeps /\ Len(runs') = n /\ n \notin DOMAIN runs
          /\ DOMAIN runs' = DOMAIN runs \cup {n}
          /\ \A m \in DOMAIN runs : runs'[m] = runs[m]
          /\ runs'[n] = r
        BY <1>1, <1>2, NewKeeps
    <2>. HIDE DEF n
    <2>2. /\ DOMAIN runs \subseteq DOMAIN runs'
          /\ active \in [Crews -> Seq(DOMAIN runs')]
          /\ memory \in [Processes -> [Threads -> DOMAIN runs' \cup {None}]]
          /\ file \in [Threads -> DOMAIN runs' \cup {None}]
          /\ waiting \in [Threads -> DOMAIN runs' \cup {None}]
          /\ \A m \in DOMAIN runs : runs'[m].op \in DOMAIN runs'
        BY <2>1, TypesGrow
    <2>3. /\ frames' \in [Contexts -> Seq(DOMAIN runs')]
          /\ \A y \in Contexts \ {x} : frames'[y] = frames[y]
          /\ Len(frames'[x]) = Len(frames[x]) + 1
        BY <1>3, <1>5, <2>1, <2>2, Entering
    <2>4. /\ active[c] \in Seq(DOMAIN runs) /\ active[c] \in Seq(DOMAIN runs')
          /\ active'[c] = Append(active[c], n) /\ active' \in [Crews -> Seq(DOMAIN runs')]
          /\ \A d \in Crews \ {c} : active'[d] = active[d]
        <3>1. active[c] \in Seq(DOMAIN runs) /\ active[c] \in Seq(DOMAIN runs') /\ n \in DOMAIN runs'
            BY <2>1, <2>2 DEF Typed
        <3>2. active' = [active EXCEPT ![c] = Append(active[c], n)]
            BY <1>3, <1>5 DEF Bind
        <3>3. Append(active[c], n) \in Seq(DOMAIN runs')
            BY <3>1, AppendProperties
        <3>. QED BY <2>2, <3>1, <3>2, <3>3 DEF Typed
    <2>5. /\ ToSet(active'[c]) = ToSet(active[c]) \cup {n}
          /\ \A i, j \in DOMAIN active'[c] : active'[c][i] = active'[c][j] => i = j
          /\ active'[c] # <<>> /\ ToSet(active[c]) \subseteq DOMAIN runs
        <3>1. /\ DOMAIN active[c] = 1..Len(active[c]) /\ Len(active[c]) \in Nat
              /\ \A i \in 1..Len(active[c]) : active[c][i] \in DOMAIN runs
            BY <2>4, LenProperties, ElementOfSeq
        <3>2. /\ active'[c] \in Seq(DOMAIN runs') /\ Len(active'[c]) = Len(active[c]) + 1
              /\ \A i \in 1..Len(active[c]) : active'[c][i] = active[c][i]
              /\ active'[c][Len(active[c]) + 1] = n /\ active'[c] # <<>>
            BY <2>1, <2>4, AppendProperties
        <3>3. DOMAIN active'[c] = DOMAIN active[c] \cup {Len(active[c]) + 1}
            BY <3>1, <3>2, LenProperties
        <3>4. \A i, j \in DOMAIN active'[c] : active'[c][i] = active'[c][j] => i = j
            <4>. SUFFICES ASSUME NEW i \in DOMAIN active'[c], NEW j \in DOMAIN active'[c],
                                 active'[c][i] = active'[c][j]
                 PROVE  i = j
                OBVIOUS
            <4>1. ASSUME NEW k \in DOMAIN active[c]
                  PROVE  active'[c][k] = active[c][k] /\ active'[c][k] # n
                BY <2>1, <3>1, <3>2
            <4>2. CASE i \in DOMAIN active[c] /\ j \in DOMAIN active[c]
                <5>1. active[c][i] = active[c][j]
                    BY <4>1, <4>2
                <5>. QED BY <4>2, <5>1 DEF StackOK
            <4>3. CASE ~(i \in DOMAIN active[c] /\ j \in DOMAIN active[c])
                BY <3>2, <3>3, <4>1, <4>3
            <4>. QED BY <4>2, <4>3
        <3>5. ToSet(active'[c]) = ToSet(active[c]) \cup {n}
            BY <3>1, <3>2, <3>3 DEF ToSet
        <3>6. ToSet(active[c]) \subseteq DOMAIN runs
            BY <3>1 DEF ToSet
        <3>. QED BY <3>2, <3>4, <3>5, <3>6
    <2>6. /\ owned' = Refreshed(c) /\ owned' \subseteq Crews
          /\ c \in holds => c \in owned' /\ \A d \in Crews \ {c} : d \in owned => d \in owned'
        BY <1>3, <1>5 DEF Bind, Refreshed, Typed
    <2>7. \A d \in Crews \ {c} : d \in owned => d \in owned'
        BY <1>3, <1>5 DEF Bind, Refreshed
    <2>8. r.of = c /\ r.at = Home[x] /\ r.op = n /\ r.stage = "kickoff" /\ r.told = <<"start">>
        BY <1>1, <1>5
    <2>9. Typed'
        <3>1. \A y \in Contexts : inherited[y] <= Len(frames'[y])
            <4>1. inherited[x] \in Nat /\ Len(frames[x]) \in Nat /\ Len(frames[x]) >= inherited[x]
                BY LenProperties DEF Typed
            <4>2. inherited[x] <= Len(frames'[x])
                BY <2>3, <4>1
            <4>. QED BY <2>3, <4>2 DEF Typed
        <3>2. \A m \in DOMAIN runs' : runs'[m].op \in DOMAIN runs'
            BY <2>1, <2>2, <2>8
        <3>. QED BY <1>2, <1>3, <2>1, <2>2, <2>3, <2>4, <2>6, <3>1, <3>2 DEF Typed, Keeps
    <2>10. \A m \in DOMAIN runs' : RunOK(m)'
        <3>. SUFFICES ASSUME NEW m \in DOMAIN runs' PROVE RunOK(m)'
            OBVIOUS
        <3>1. CASE m \in DOMAIN runs
            BY <2>1, <3>1 DEF IInv, RunOK
        <3>2. CASE m = n
            BY <1>1, <2>1, <2>8, <3>2, RunsAssumption DEF RunOK, Running
        <3>. QED BY <2>1, <3>1, <3>2
    <2>11. FramesOK'
        <3>1. \A m \in DOMAIN runs : runs[m].stage \in Running => runs'[m].stage \in Running
            BY <2>1
        <3>2. n \in DOMAIN runs' /\ runs'[n].stage \in Running /\ runs'[n].at = Home[x]
            BY <2>1, <2>8 DEF Running
        <3>. QED BY <1>3, <1>5, <2>1, <3>1, <3>2, FramesEntered
    <2>12. ASSUME NEW d \in Crews PROVE StackOK(d)'
        <3>1. CASE d = c
            <4>1. ASSUME NEW m \in DOMAIN runs'
                  PROVE  runs'[m].of = d /\ runs'[m].stage = "kickoff" <=> m \in ToSet(active'[d])
                <5>1. CASE m = n
                    BY <2>1, <2>5, <2>8, <3>1, <5>1
                <5>2. CASE m # n
                    BY <2>1, <2>5, <3>1, <5>2 DEF StackOK
                <5>. QED BY <5>1, <5>2
            <4>. QED BY <1>3, <2>5, <2>6, <3>1, <4>1 DEF StackOK
        <3>2. CASE d # c
            <4>0. ToSet(active[d]) \subseteq DOMAIN runs
                <5>1. active[d] \in Seq(DOMAIN runs)
                    BY DEF Typed
                <5>. QED BY <5>1, LenProperties, ElementOfSeq DEF ToSet
            <4>1. ASSUME NEW m \in DOMAIN runs'
                  PROVE  runs'[m].of = d /\ runs'[m].stage = "kickoff" <=> m \in ToSet(active'[d])
                <5>1. CASE m = n
                    BY <2>1, <2>4, <2>8, <3>2, <4>0, <5>1
                <5>2. CASE m # n
                    BY <2>1, <2>4, <3>2, <5>2 DEF StackOK
                <5>. QED BY <5>1, <5>2
            <4>. QED BY <1>3, <2>4, <2>7, <3>2, <4>1 DEF StackOK
        <3>. QED BY <3>1, <3>2
    <2>13. \A t \in Threads : StoreOK(t)'
        <3>1. \A m \in DOMAIN runs, t \in Threads : IsUnderWay(m, t)' => IsUnderWay(m, t)
            BY <2>1 DEF IsUnderWay
        <3>2. \A m \in DOMAIN runs' \ DOMAIN runs, t \in Threads : ~IsUnderWay(m, t)'
            BY <2>1, <2>8 DEF IsUnderWay
        <3>. QED BY <1>3, <2>1, <3>1, <3>2, StoresKept DEF storeVars, graphVars
    <2>14. OneHome => \A y \in Contexts, t \in Threads : waiting'[t] # None => CacheOK(Home[y], t)'
        BY <1>3 DEF IInv, CacheOK
    <2>. QED BY <2>9, <2>10, <2>11, <2>12, <2>13, <2>14 DEF IInv, OneHome
<1>. QED BY <1>4, <1>5

\* What the store of a process has for a thread is an operation minted before.
LEMMA LoadedTyped ==
    ASSUME Typed, NEW p \in Processes, NEW t \in Threads
    PROVE  /\ memory[p][t] \in DOMAIN runs \cup {None} /\ file[t] \in DOMAIN runs \cup {None}
           /\ Loaded(p, t) \in DOMAIN runs \cup {None}
           /\ FreshOp(p, t) \in DOMAIN runs \cup {Len(runs) + 1}
           /\ waiting[t] \in DOMAIN runs \cup {None}
           /\ Len(runs) + 1 \notin DOMAIN runs /\ Len(runs) + 1 # None
<1>1. /\ memory[p][t] \in DOMAIN runs \cup {None} /\ file[t] \in DOMAIN runs \cup {None}
      /\ waiting[t] \in DOMAIN runs \cup {None}
    BY DEF Typed
<1>2. Loaded(p, t) \in DOMAIN runs \cup {None}
    BY <1>1 DEF Loaded
<1>3. DOMAIN runs = 1..Len(runs) /\ Len(runs) \in Nat
    BY LenProperties DEF Typed
<1>4. Len(runs) + 1 \notin DOMAIN runs /\ Len(runs) + 1 # None
    BY <1>3, RunsAssumption
<1>. QED BY <1>1, <1>2, <1>4 DEF FreshOp

\* A graph run that starts or is refused takes the operation a resumption must
\* find, wherever the cache and the file agree on it.
LEMMA FreshResumes ==
    ASSUME Typed, NEW p \in Processes, NEW t \in Threads, StoreOK(t),
           waiting[t] # None, CacheOK(p, t), waiting[t] \in {memory[p][t], file[t]}
    PROVE  FreshOp(p, t) = waiting[t] /\ Loaded(p, t) = waiting[t]
<1>1. Loaded(p, t) = waiting[t]
    BY DEF CacheOK, Loaded
<1>. QED BY <1>1 DEF FreshOp, HasCheckpoint, StoreOK

\* A run of a graph.
LEMMA StartGraphStep ==
    ASSUME IInv, NEW x \in Contexts, NEW t \in Threads, NEW mode \in {"invoke", "stream"},
           StartGraph(x, t, mode)
    PROVE  IInv'
<1>. DEFINE n == Len(runs) + 1
            p == Home[x]
            op == FreshOp(p, t)
            refused == Conflicts(x, op)
            r == Run(t, x, op, mode, refused)
<1>. Typed /\ FramesOK /\ (\A d \in Crews : StackOK(d)) /\ \A u \in Threads : StoreOK(u)
    BY DEF IInv
<1>0. p \in Processes /\ n <= MaxRuns /\ t \notin Crews
    BY RunsAssumption DEF StartGraph
<1>1. op \in DOMAIN runs \cup {n} /\ n \notin DOMAIN runs
    BY <1>0, LoadedTyped
<1>2. /\ r \in RunRecords /\ r.of = t /\ r.at = p /\ r.op = op
      /\ r.stage = IF refused THEN "refused" ELSE mode
      /\ r.told = IF refused THEN <<>> ELSE <<"start">>
    <2>1. op \in Operations
        <3>1. DOMAIN runs = 1..Len(runs) /\ Len(runs) \in Nat /\ MaxRuns \in Nat
            BY LenProperties, RunsAssumption DEF Typed
        <3>. HIDE DEF op
        <3>. QED BY <1>0, <1>1, <3>1 DEF Operations
    <2>2. mode \in Modes /\ refused \in BOOLEAN
        BY DEF Modes, Conflicts
    <2>3. PICK k \in Operations, b \in BOOLEAN : k = op /\ b = refused
        BY <2>1, <2>2
    <2>4. LET s == Run(t, x, k, mode, b)
          IN  /\ s \in RunRecords /\ s.of = t /\ s.at = Home[x] /\ s.op = k
              /\ s.stage = IF b THEN "refused" ELSE mode
              /\ s.told = IF b THEN <<>> ELSE <<"start">>
        BY <2>2, NewRecord
    <2>5. r = Run(t, x, k, mode, b)
        BY <2>3
    <2>. HIDE DEF r, refused, op
    <2>. QED BY <2>3, <2>4, <2>5
<1>3. runs' = Append(runs, r) /\ ~UnderWay(t)
    BY DEF StartGraph
<1>4. /\ UNCHANGED <<inherited, active, listening, holds, owned, saved, waiting>>
      /\ refused => /\ memory' = IF HasCheckpoint(t) THEN [memory EXCEPT ![p][t] = Loaded(p, t)] ELSE memory
                    /\ UNCHANGED <<frames, file>>
      /\ ~refused => Store(p, t, op) /\ Enter(x, n)
    BY DEF StartGraph, crewVars, graphVars
<1>5. \A m \in DOMAIN runs : ~IsUnderWay(m, t)
    BY <1>3 DEF UnderWay, IsUnderWay
<1>6. OneHome => \A y \in Contexts, u \in Threads : waiting[u] # None => CacheOK(Home[y], u)
    BY DEF IInv
<1>7. OneHome => \A y \in Contexts : Home[y] = p
    BY DEF OneHome
<1>. HIDE DEF r, refused, op, p
<1>8. CASE refused
    <2>1. UNCHANGED <<frames, inherited, crewVars, file, graphVars>>
        BY <1>4, <1>8 DEF crewVars, graphVars
    <2>2. /\ memory' \in [Processes -> [Threads -> DOMAIN runs \cup {None}]]
          /\ \A q \in Processes, u \in Threads : u # t => memory'[q][u] = memory[q][u]
          /\ memory'[p][t] \in {memory[p][t], Loaded(p, t)}
        <3>1. CASE HasCheckpoint(t)
            <4>1. Loaded(p, t) \in DOMAIN runs \cup {None}
                BY <1>0, LoadedTyped
            <4>2. memory' = [memory EXCEPT ![p][t] = Loaded(p, t)]
                BY <1>4, <1>8, <3>1
            <4>. QED BY <1>0, <4>1, <4>2 DEF Typed
        <3>2. CASE ~HasCheckpoint(t)
            BY <1>4, <1>8, <3>2 DEF Typed
        <3>. QED BY <3>1, <3>2
    <2>3. \A u \in Threads : (\E m \in DOMAIN runs : IsUnderWay(m, u)) =>
             \A q \in Processes : memory'[q][u] = memory[q][u]
        BY <1>5, <2>2
    <2>4. ASSUME OneHome, NEW y \in Contexts, NEW u \in Threads, waiting[u] # None
          PROVE  CacheOK(Home[y], u)'
        <3>0. Home[y] = p /\ CacheOK(p, u) /\ file' = file /\ waiting' = waiting
            BY <1>4, <1>6, <1>7, <1>8, <2>4
        <3>1. CASE u # t
            BY <1>0, <2>2, <3>0, <3>1 DEF CacheOK
        <3>2. CASE u = t
            <4>1. Loaded(p, t) \in {memory[p][t], file[t]}
                BY DEF Loaded
            <4>2. Loaded(p, t) # waiting[t] => waiting[t] \notin {memory[p][t], file[t]}
                BY <1>0, <2>4, <3>0, <3>2, FreshResumes
            <4>3. memory'[p][t] \in {None, waiting[t]} \/ waiting[t] \notin {memory'[p][t], file[t]}
                BY <2>2, <3>0, <3>2, <4>1, <4>2 DEF CacheOK
            <4>. QED BY <3>0, <3>2, <4>3 DEF CacheOK
        <3>. QED BY <3>1, <3>2
    <2>5. r.stage = "refused" /\ r.told = <<>> /\ r.at = Home[x] /\ r.of \notin Crews
        BY <1>0, <1>2, <1>8 DEF p
    <2>6. r.op \in DOMAIN runs \cup {n} /\ n = Len(runs) + 1
        BY <1>1, <1>2
    <2>. HIDE DEF n
    <2>. QED BY <1>0, <1>2, <1>3, <2>1, <2>2, <2>3, <2>4, <2>5, <2>6, RefusedStep
<1>9. CASE ~refused
    <2>1. /\ Keeps /\ Len(runs') = n
          /\ DOMAIN runs' = DOMAIN runs \cup {n}
          /\ \A m \in DOMAIN runs : runs'[m] = runs[m]
          /\ runs'[n] = r
        BY <1>2, <1>3, NewKeeps
    <2>. HIDE DEF n
    <2>2. /\ DOMAIN runs \subseteq DOMAIN runs'
          /\ active \in [Crews -> Seq(DOMAIN runs')]
          /\ memory \in [Processes -> [Threads -> DOMAIN runs' \cup {None}]]
          /\ file \in [Threads -> DOMAIN runs' \cup {None}]
          /\ waiting \in [Threads -> DOMAIN runs' \cup {None}]
          /\ \A m \in DOMAIN runs : runs'[m].op \in DOMAIN runs'
        BY <2>1, TypesGrow
    <2>3. /\ frames' \in [Contexts -> Seq(DOMAIN runs')]
          /\ \A y \in Contexts \ {x} : frames'[y] = frames[y]
          /\ Len(frames'[x]) = Len(frames[x]) + 1
        BY <1>4, <1>9, <2>1, <2>2, Entering
    <2>4. /\ r.of = t /\ r.at = p /\ r.op = op /\ r.stage = mode /\ r.told = <<"start">>
          /\ op \in DOMAIN runs'
        BY <1>1, <1>2, <1>9, <2>1
    <2>5. /\ memory' = [memory EXCEPT ![p][t] = op]
          /\ file' = file \/ file' = [file EXCEPT ![t] = op]
        BY <1>4, <1>9 DEF Store, Persist
    <2>6. /\ memory' \in [Processes -> [Threads -> DOMAIN runs' \cup {None}]]
          /\ memory'[p][t] = op
          /\ \A q \in Processes, u \in Threads : u # t => memory'[q][u] = memory[q][u]
        BY <1>0, <2>2, <2>4, <2>5
    <2>7. /\ file' \in [Threads -> DOMAIN runs' \cup {None}]
          /\ file'[t] \in {file[t], op}
          /\ \A u \in Threads : u # t => file'[u] = file[u]
        BY <2>2, <2>4, <2>5
    <2>8. Typed'
        <3>1. \A y \in Contexts : inherited[y] <= Len(frames'[y])
            <4>1. inherited[x] \in Nat /\ Len(frames[x]) \in Nat /\ Len(frames[x]) >= inherited[x]
                BY LenProperties DEF Typed
            <4>2. inherited[x] <= Len(frames'[x])
                BY <2>3, <4>1
            <4>. QED BY <2>3, <4>2 DEF Typed
        <3>2. \A m \in DOMAIN runs' : runs'[m].op \in DOMAIN runs'
            BY <2>1, <2>2, <2>4
        <3>. QED BY <1>0, <1>4, <2>1, <2>2, <2>3, <2>6, <2>7, <3>1, <3>2 DEF Typed, Keeps
    <2>9. \A m \in DOMAIN runs' : RunOK(m)'
        <3>. SUFFICES ASSUME NEW m \in DOMAIN runs' PROVE RunOK(m)'
            OBVIOUS
        <3>1. CASE m \in DOMAIN runs
            BY <2>1, <3>1 DEF IInv, RunOK
        <3>2. CASE m = n
            BY <1>0, <2>1, <2>4, <3>2 DEF RunOK, Running
        <3>. QED BY <2>1, <3>1, <3>2
    <2>10. FramesOK'
        <3>1. \A m \in DOMAIN runs : runs[m].stage \in Running => runs'[m].stage \in Running
            BY <2>1
        <3>2. n \in DOMAIN runs' /\ runs'[n].stage \in Running /\ runs'[n].at = Home[x]
            BY <2>1, <2>4 DEF Running, p
        <3>. QED BY <1>1, <1>4, <1>9, <2>1, <3>1, <3>2, FramesEntered
    <2>11. \A d \in Crews : StackOK(d)'
        BY <1>0, <1>4, <2>1, <2>4, StacksKept
    <2>12. ASSUME NEW u \in Threads PROVE StoreOK(u)'
        <3>1. \A m \in DOMAIN runs : IsUnderWay(m, u)' => IsUnderWay(m, u) /\ u # t
            BY <1>5, <2>1 DEF IsUnderWay
        <3>2. \A l \in DOMAIN runs' : l = n /\ IsUnderWay(l, u)' => u = t
            BY <2>1, <2>4 DEF IsUnderWay
        <3>3. ASSUME NEW m \in DOMAIN runs', IsUnderWay(m, u)'
              PROVE  /\ memory'[runs'[m].at][u] = runs'[m].op
                     /\ \A l \in DOMAIN runs' : IsUnderWay(l, u)' => l = m
            <4>1. CASE m = n
                BY <2>1, <2>4, <2>6, <3>1, <3>2, <3>3, <4>1
            <4>2. CASE m # n
                <5>1. m \in DOMAIN runs /\ IsUnderWay(m, u) /\ u # t /\ runs'[m] = runs[m]
                    BY <2>1, <3>1, <3>3, <4>2
                <5>2. runs[m].at \in Processes
                    <6>1. runs[m] \in RunRecords
                        BY <5>1, LenProperties, ElementOfSeq DEF Typed
                    <6>. QED BY <6>1 DEF RunRecords
                <5>3. \A l \in DOMAIN runs' : IsUnderWay(l, u)' => l = m
                    BY <2>1, <3>1, <3>2, <5>1 DEF StoreOK
                <5>. QED BY <2>6, <5>1, <5>2, <5>3 DEF StoreOK
            <4>. QED BY <4>1, <4>2
        <3>4. ASSUME waiting[u] # None
              PROVE  /\ u \in saved
                     /\ \E m \in DOMAIN runs' : /\ runs'[m].of = u /\ runs'[m].op = waiting[u]
                                                /\ "suspend" \in ToSet(runs'[m].told)
            <4>1. PICK m \in DOMAIN runs : /\ runs[m].of = u /\ runs[m].op = waiting[u]
                                           /\ "suspend" \in ToSet(runs[m].told)
                BY <3>4 DEF StoreOK
            <4>2. m \in DOMAIN runs' /\ runs'[m] = runs[m]
                BY <2>1, <4>1
            <4>. QED BY <3>4, <4>1, <4>2 DEF StoreOK
        <3>. QED BY <1>4, <3>3, <3>4 DEF StoreOK
    <2>13. ASSUME OneHome, NEW y \in Contexts, NEW u \in Threads, waiting'[u] # None
           PROVE  CacheOK(Home[y], u)'
        <3>0. Home[y] = p /\ CacheOK(p, u) /\ waiting' = waiting /\ waiting[u] # None
            BY <1>4, <1>6, <1>7, <2>13
        <3>1. CASE u # t
            BY <1>0, <2>6, <2>7, <3>0, <3>1 DEF CacheOK
        <3>2. CASE u = t
            <4>1. CASE waiting[t] \in {memory[p][t], file[t]}
                BY <1>0, <2>6, <3>0, <3>2, <4>1, FreshResumes DEF CacheOK, op
            <4>2. CASE waiting[t] \notin {memory[p][t], file[t]}
                <5>1. op # waiting[t]
                    <6>1. /\ Loaded(p, t) \in {memory[p][t], file[t]}
                          /\ op = Loaded(p, t) \/ op = Len(runs) + 1
                        BY DEF Loaded, FreshOp, op
                    <6>2. waiting[t] # Len(runs) + 1
                        BY <1>0, LoadedTyped
                    <6>. QED BY <4>2, <6>1, <6>2
                <5>. QED BY <2>6, <2>7, <3>0, <3>2, <4>2, <5>1 DEF CacheOK
            <4>. QED BY <4>1, <4>2
        <3>. QED BY <3>1, <3>2
    <2>. QED BY <2>8, <2>9, <2>10, <2>11, <2>12, <2>13 DEF IInv, OneHome
<1>. QED BY <1>8, <1>9

\* A task or a worker thread that starts with the frames of its parent.
LEMMA ForkStep ==
    ASSUME IInv, NEW x \in Contexts, NEW y \in Contexts, Fork(x, y)
    PROVE  IInv'
<1>. Typed /\ FramesOK /\ (\A d \in Crews : StackOK(d)) /\ \A t \in Threads : StoreOK(t)
    BY DEF IInv
<1>1. /\ frames' = [frames EXCEPT ![y] = frames[x]]
      /\ inherited' = [inherited EXCEPT ![y] = Len(frames[x])]
      /\ UNCHANGED <<runs, active, listening, holds, owned, memory, file, saved, waiting>>
    BY DEF Fork, crewVars, storeVars, graphVars
<1>2. frames[x] \in Seq(DOMAIN runs) /\ Len(frames[x]) \in Nat /\ DOMAIN frames[x] = 1..Len(frames[x])
    BY LenProperties DEF Typed
<1>3. Typed'
    <2>1. \A z \in Contexts : inherited'[z] <= Len(frames'[z])
        BY <1>1, <1>2 DEF Typed
    <2>. QED BY <1>1, <1>2, <2>1 DEF Typed
<1>4. FramesOK'
    <2>1. \A z \in Contexts, i \in Nat : Within(z, i)' => Within(z, i) /\ frames'[z] = frames[z]
        <3>. TAKE z \in Contexts, i \in Nat
        <3>1. CASE z = y
            BY <1>1, <1>2, <3>1 DEF Within, Typed
        <3>2. CASE z # y
            BY <1>1, <3>2 DEF Within, Typed
        <3>. QED BY <3>1, <3>2
    <2>. QED BY <1>1, <2>1 DEF FramesOK
<1>5. /\ \A m \in DOMAIN runs' : RunOK(m)'
      /\ \A d \in Crews : StackOK(d)'
      /\ \A t \in Threads : StoreOK(t)'
    BY <1>1 DEF IInv, RunOK, StackOK, StoreOK, IsUnderWay
<1>6. OneHome => \A z \in Contexts, t \in Threads : waiting'[t] # None => CacheOK(Home[z], t)'
    BY <1>1 DEF IInv, CacheOK
<1>. QED BY <1>3, <1>4, <1>5, <1>6 DEF IInv, OneHome

\* That task ends.
LEMMA TaskEndsStep ==
    ASSUME IInv, NEW y \in Contexts, TaskEnds(y)
    PROVE  IInv'
<1>. Typed /\ FramesOK /\ (\A d \in Crews : StackOK(d)) /\ \A t \in Threads : StoreOK(t)
    BY DEF IInv
<1>1. /\ frames' = [frames EXCEPT ![y] = <<>>]
      /\ inherited' = [inherited EXCEPT ![y] = 0]
      /\ UNCHANGED <<runs, active, listening, holds, owned, memory, file, saved, waiting>>
    BY DEF TaskEnds, crewVars, storeVars, graphVars
<1>2. Typed'
    <2>1. <<>> \in Seq(DOMAIN runs) /\ Len(<<>>) = 0
        OBVIOUS
    <2>2. \A z \in Contexts : inherited'[z] <= Len(frames'[z])
        BY <1>1, <2>1 DEF Typed
    <2>. QED BY <1>1, <2>1, <2>2 DEF Typed
<1>3. FramesOK'
    <2>1. \A z \in Contexts, i \in Nat : Within(z, i)' => Within(z, i) /\ frames'[z] = frames[z]
        <3>. TAKE z \in Contexts, i \in Nat
        <3>1. CASE z = y
            BY <1>1, <3>1 DEF Within, Typed
        <3>2. CASE z # y
            BY <1>1, <3>2 DEF Within, Typed
        <3>. QED BY <3>1, <3>2
    <2>. QED BY <1>1, <2>1 DEF FramesOK
<1>4. /\ \A m \in DOMAIN runs' : RunOK(m)'
      /\ \A d \in Crews : StackOK(d)'
      /\ \A t \in Threads : StoreOK(t)'
    BY <1>1 DEF IInv, RunOK, StackOK, StoreOK, IsUnderWay
<1>5. OneHome => \A z \in Contexts, t \in Threads : waiting'[t] # None => CacheOK(Home[z], t)'
    BY <1>1 DEF IInv, CacheOK
<1>. QED BY <1>2, <1>3, <1>4, <1>5 DEF IInv, OneHome

\* A listener that is detached: its crew may be running.
LEMMA DetachStep ==
    ASSUME IInv, NEW c \in Crews, Detach(c)
    PROVE  IInv'
<1>. Typed /\ FramesOK /\ (\A d \in Crews : StackOK(d)) /\ \A t \in Threads : StoreOK(t)
    BY DEF IInv
<1>1. /\ listening' = listening \ {c} /\ owned' = owned \ {c}
      /\ UNCHANGED <<runs, frames, inherited, active, holds, memory, file, saved, waiting>>
    BY DEF Detach, storeVars, graphVars
<1>2. Typed'
    BY <1>1 DEF Typed
<1>3. FramesOK'
    BY <1>1 DEF FramesOK, Within
<1>4. \A d \in Crews : StackOK(d)'
    BY <1>1 DEF StackOK
<1>5. /\ \A m \in DOMAIN runs' : RunOK(m)'
      /\ \A t \in Threads : StoreOK(t)'
    BY <1>1 DEF IInv, RunOK, StoreOK, IsUnderWay
<1>6. OneHome => \A z \in Contexts, t \in Threads : waiting'[t] # None => CacheOK(Home[z], t)'
    BY <1>1 DEF IInv, CacheOK
<1>. QED BY <1>2, <1>3, <1>4, <1>5, <1>6 DEF IInv, OneHome

\* A process that restarts.
LEMMA RestartStep ==
    ASSUME IInv, NEW p \in Processes, Restart(p)
    PROVE  IInv'
<1>. DEFINE crews == {c \in Crews : Home[c] = p}
            killed(n) == [runs[n] EXCEPT !.stage = "killed"]
<1>. Typed /\ FramesOK /\ (\A d \in Crews : StackOK(d)) /\ \A t \in Threads : StoreOK(t)
    BY DEF IInv
<1>1. /\ runs' = [n \in DOMAIN runs |-> IF runs[n].at = p /\ runs[n].stage \in Live THEN killed(n) ELSE runs[n]]
      /\ frames' = [x \in Contexts |-> IF Home[x] = p THEN <<>> ELSE frames[x]]
      /\ inherited' = [x \in Contexts |-> IF Home[x] = p THEN 0 ELSE inherited[x]]
      /\ active' = [c \in Crews |-> IF Home[c] = p THEN <<>> ELSE active[c]]
      /\ listening' = listening \cup crews /\ owned' = (owned \ crews) \cup (holds \cap crews)
      /\ memory' = [memory EXCEPT ![p] = [t \in Threads |-> None]]
      /\ file' \in {file, [t \in Threads |-> None]}
      /\ UNCHANGED <<holds, saved, waiting>>
    BY DEF Restart, graphVars
<1>2. DOMAIN runs = 1..Len(runs) /\ Len(runs) \in Nat /\ \A n \in DOMAIN runs : runs[n] \in RunRecords
    BY LenProperties, ElementOfSeq DEF Typed
<1>3. ASSUME NEW n \in DOMAIN runs
      PROVE  /\ runs'[n] \in RunRecords
             /\ runs'[n].of = runs[n].of /\ runs'[n].at = runs[n].at /\ runs'[n].op = runs[n].op
             /\ runs'[n].told = runs[n].told
             /\ runs[n].at = p /\ runs[n].stage \in Live => runs'[n].stage = "killed"
             /\ ~(runs[n].at = p /\ runs[n].stage \in Live) => runs'[n] = runs[n]
    BY <1>1, <1>2 DEF RunRecords
<1>4. runs' \in Seq(RunRecords) /\ DOMAIN runs' = DOMAIN runs /\ Len(runs') = Len(runs)
    <2>1. runs' \in [1..Len(runs) -> RunRecords]
        BY <1>1, <1>2, <1>3
    <2>2. runs' \in Seq(RunRecords)
        BY <1>2, <2>1, SeqDef
    <2>3. DOMAIN runs' = DOMAIN runs
        BY <1>1
    <2>. QED BY <1>2, <2>2, <2>3, LenProperties
<1>5. Typed'
    <2>0. <<>> \in Seq(DOMAIN runs) /\ Len(<<>>) = 0
        OBVIOUS
    <2>1. \A x \in Contexts : frames'[x] \in Seq(DOMAIN runs) /\ inherited'[x] \in Nat
                              /\ inherited'[x] <= Len(frames'[x])
        <3>. TAKE x \in Contexts
        <3>1. CASE Home[x] = p
            <4>1. frames'[x] = <<>> /\ inherited'[x] = 0
                BY <1>1, <3>1
            <4>. QED BY <2>0, <4>1
        <3>2. CASE Home[x] # p
            <4>1. frames'[x] = frames[x] /\ inherited'[x] = inherited[x]
                BY <1>1, <3>2
            <4>. QED BY <4>1 DEF Typed
        <3>. QED BY <3>1, <3>2
    <2>2. frames' \in [Contexts -> Seq(DOMAIN runs)] /\ inherited' \in [Contexts -> Nat]
        BY <1>1, <2>1
    <2>3. active' \in [Crews -> Seq(DOMAIN runs)]
        <3>1. \A c \in Crews : active'[c] \in Seq(DOMAIN runs)
            BY <1>1, <2>0 DEF Typed
        <3>. QED BY <1>1, <3>1
    <2>4. memory' \in [Processes -> [Threads -> DOMAIN runs \cup {None}]]
        BY <1>1 DEF Typed
    <2>5. listening' \subseteq Crews /\ owned' \subseteq Crews
        BY <1>1 DEF Typed
    <2>6. \A n \in DOMAIN runs : runs'[n].op \in DOMAIN runs
        BY <1>3 DEF Typed
    <2>7. file' \in [Threads -> DOMAIN runs \cup {None}]
        BY <1>1 DEF Typed
    <2>. HIDE DEF crews
    <2>. QED BY <1>1, <1>4, <2>1, <2>2, <2>3, <2>4, <2>5, <2>6, <2>7 DEF Typed
<1>6. \A m \in DOMAIN runs' : RunOK(m)'
    <2>. SUFFICES ASSUME NEW m \in DOMAIN runs PROVE RunOK(m)'
        BY <1>4
    <2>0. RunOK(m)
        BY DEF IInv
    <2>1. CASE runs[m].at = p /\ runs[m].stage \in Live
        <3>1. \/ runs[m].told = <<"start">>
              \/ runs[m].told = <<"start", "suspend">> /\ runs[m].of \notin Crews
            BY <2>0, <2>1 DEF RunOK, Live, Modes, Running
        <3>. QED BY <1>3, <2>0, <2>1, <3>1 DEF RunOK, Running
    <2>2. CASE ~(runs[m].at = p /\ runs[m].stage \in Live)
        BY <1>3, <2>0, <2>2 DEF RunOK
    <2>. QED BY <2>1, <2>2
<1>7. FramesOK'
    <2>1. \A x \in Contexts, i \in Nat :
             Within(x, i)' => Within(x, i) /\ frames'[x] = frames[x] /\ Home[x] # p
        BY <1>1 DEF Within
    <2>2. \A x \in Contexts, i \in Nat : Within(x, i) => frames[x][i] \in DOMAIN runs
        <3>. TAKE x \in Contexts, i \in Nat
        <3>. HAVE Within(x, i)
        <3>1. frames[x] \in Seq(DOMAIN runs) /\ i \in DOMAIN frames[x]
            BY DEF Typed, Within
        <3>. QED BY <3>1, LenProperties, ElementOfSeq
    <2>. SUFFICES ASSUME NEW x \in Contexts, NEW i \in Nat, Within(x, i)'
         PROVE  /\ runs'[frames'[x][i]].stage \in Running
                /\ runs'[frames'[x][i]].at = Home[x]
                /\ \A y \in Contexts, j \in Nat :
                      Within(y, j)' /\ frames'[y][j] = frames'[x][i] => x = y /\ i = j
        BY DEF FramesOK
    <2>3. runs'[frames'[x][i]] = runs[frames[x][i]]
        BY <1>3, <2>1, <2>2 DEF FramesOK
    <2>. QED BY <2>1, <2>3 DEF FramesOK
<1>8. ASSUME NEW c \in Crews PROVE StackOK(c)'
    <2>0. \A n \in DOMAIN runs : runs[n].of = c => runs[n].at = Home[c]
        BY DEF IInv, RunOK
    <2>1. CASE Home[c] = p
        <3>1. active'[c] = <<>> /\ ToSet(<<>>) = {}
            BY <1>1, <2>1 DEF ToSet
        <3>2. \A n \in DOMAIN runs : ~(runs'[n].of = c /\ runs'[n].stage = "kickoff")
            BY <1>3, <2>0, <2>1 DEF Live, Modes
        <3>. QED BY <1>4, <3>1, <3>2 DEF StackOK
    <2>2. CASE Home[c] # p
        <3>1. /\ active'[c] = active[c] /\ holds' = holds /\ (c \in owned => c \in owned')
              /\ c \in listening' => c \in listening
            BY <1>1, <2>2
        <3>2. \A n \in DOMAIN runs : runs[n].of = c => runs'[n] = runs[n]
            BY <1>3, <2>0, <2>2
        <3>3. \A n \in DOMAIN runs : runs'[n].of = c /\ runs'[n].stage = "kickoff" <=> n \in ToSet(active[c])
            BY <1>3, <3>2 DEF StackOK
        <3>. QED BY <1>4, <3>1, <3>3 DEF StackOK
    <2>. QED BY <2>1, <2>2
<1>9. ASSUME NEW t \in Threads PROVE StoreOK(t)'
    <2>1. \A n \in DOMAIN runs : IsUnderWay(n, t)' => IsUnderWay(n, t) /\ runs[n].at # p /\ runs'[n] = runs[n]
        BY <1>3 DEF IsUnderWay, Live, Modes
    <2>2. \A q \in Processes : q # p => memory'[q] = memory[q]
        BY <1>1 DEF Typed
    <2>3. \A n \in DOMAIN runs' : IsUnderWay(n, t)' =>
             /\ memory'[runs'[n].at][t] = runs'[n].op
             /\ \A m \in DOMAIN runs' : IsUnderWay(m, t)' => m = n
        <3>1. \A n \in DOMAIN runs : runs[n].at \in Processes
            BY <1>2 DEF RunRecords
        <3>. QED BY <1>4, <2>1, <2>2, <3>1 DEF StoreOK
    <2>4. ASSUME waiting[t] # None
          PROVE  /\ t \in saved
                 /\ \E m \in DOMAIN runs' : /\ runs'[m].of = t /\ runs'[m].op = waiting[t]
                                            /\ "suspend" \in ToSet(runs'[m].told)
        <3>1. PICK m \in DOMAIN runs : /\ runs[m].of = t /\ runs[m].op = waiting[t]
                                       /\ "suspend" \in ToSet(runs[m].told)
            BY <2>4 DEF StoreOK
        <3>2. /\ m \in DOMAIN runs' /\ runs'[m].of = t /\ runs'[m].op = waiting[t]
              /\ "suspend" \in ToSet(runs'[m].told)
            BY <1>3, <1>4, <3>1
        <3>. QED BY <2>4, <3>2 DEF StoreOK
    <2>. QED BY <1>1, <2>3, <2>4 DEF StoreOK
<1>10. ASSUME OneHome, NEW y \in Contexts, NEW t \in Threads, waiting'[t] # None
       PROVE  CacheOK(Home[y], t)'
    <2>1. /\ Home[y] \in Processes /\ CacheOK(Home[y], t) /\ waiting' = waiting
          /\ file'[t] \in {file[t], None}
        BY <1>1, <1>10, RunsAssumption DEF IInv
    <2>2. memory'[Home[y]][t] \in {None, memory[Home[y]][t]}
        BY <1>1, <2>1 DEF Typed
    <2>. QED BY <1>10, <2>1, <2>2 DEF CacheOK
<1>. QED BY <1>5, <1>6, <1>7, <1>8, <1>9, <1>10 DEF IInv, OneHome

-----------------------------------------------------------------------------
(* The theorems. *)

\* The invariant holds before the first run.
LEMMA InitIInv == Init => IInv
<1> SUFFICES ASSUME Init PROVE IInv
    OBVIOUS
<1>0. <<>> \in Seq(RunRecords) /\ Len(<<>>) = 0 /\ DOMAIN <<>> = {} /\ \A S : <<>> \in Seq(S)
    OBVIOUS
<1>1. Typed
    <2>1. Len(runs) <= MaxRuns
        BY <1>0, RunsAssumption DEF Init
    <2>2. \A x \in Contexts : frames[x] = <<>> /\ inherited[x] = 0
        BY DEF Init
    <2>3. \A x \in Contexts : inherited[x] <= Len(frames[x])
        BY <1>0, <2>2
    <2>4. \A p \in Processes : memory[p] \in [Threads -> DOMAIN runs \cup {None}]
        BY DEF Init
    <2>. QED BY <1>0, <2>1, <2>3, <2>4 DEF Init, Typed
<1>2. \A n \in DOMAIN runs : RunOK(n)
    BY <1>0 DEF Init
<1>3. FramesOK
    BY <1>0 DEF Init, FramesOK, Within
<1>4. \A c \in Crews : StackOK(c)
    BY <1>0 DEF Init, StackOK, ToSet
<1>5. \A t \in Threads : StoreOK(t) /\ waiting[t] = None
    BY <1>0 DEF Init, StoreOK
<1> QED
    BY <1>1, <1>2, <1>3, <1>4, <1>5 DEF IInv

\* It is inductive.
LEMMA NextIInv == IInv /\ [Next]_vars => IInv'
<1> SUFFICES ASSUME IInv, [Next]_vars PROVE IInv'
    OBVIOUS
<1>1. CASE Next
    <2>1. ASSUME NEW x \in Contexts, \E s, e : Stops(x, s, e) PROVE IInv'
        BY <2>1, StopsStep
    <2>2. ASSUME NEW n \in DOMAIN runs, \E e : Drops(n, e) PROVE IInv'
        BY <2>2, DropsStep
    <2>. QED BY <1>1, <2>1, <2>2, Steps, KickoffStep, StartGraphStep, KickoffEndsStep, ResumesStep,
                ForkStep, TaskEndsStep, DetachStep, RestartStep
<1>2. CASE UNCHANGED vars
    <2>1. UNCHANGED <<runs, frames, inherited, active, listening, holds, owned, memory, file, saved, waiting>>
        BY <1>2 DEF vars, crewVars, storeVars, graphVars
    <2>2. Typed' /\ FramesOK'
        BY <2>1 DEF IInv, Typed, FramesOK, Within
    <2>3. /\ \A n \in DOMAIN runs' : RunOK(n)'
          /\ \A c \in Crews : StackOK(c)'
          /\ \A t \in Threads : StoreOK(t)'
        BY <2>1 DEF IInv, RunOK, StackOK, StoreOK, IsUnderWay
    <2>4. OneHome => \A x \in Contexts, t \in Threads : waiting'[t] # None => CacheOK(Home[x], t)'
        BY <2>1 DEF IInv, CacheOK
    <2>. QED BY <2>2, <2>3, <2>4 DEF IInv, OneHome
<1> QED
    BY <1>1, <1>2

\* Every state of the adapters satisfies the inductive invariant.
THEOREM InductiveInvariant == Spec => []IInv
<1>1. Init => IInv
    BY InitIInv
<1>2. IInv /\ [Next]_vars => IInv'
    BY NextIInv
<1> QED
    BY <1>1, <1>2, PTL DEF Spec

\* _ACTIVE_OPS: the stack of a crew has the scopes of the crew's running kickoffs
\* and no other, whichever of them ends first.
THEOREM TypeCorrect == Spec => []TypeOK
<1>1. IInv => TypeOK
    <2> SUFFICES ASSUME IInv PROVE TypeOK
        OBVIOUS
    <2>. Typed
        BY DEF IInv
    <2>1. DOMAIN runs = 1..Len(runs) /\ Len(runs) \in Nat /\ DOMAIN runs \subseteq Operations
        BY LenProperties, RunsAssumption DEF Typed, Operations
    <2>2. \A x \in Contexts : inherited[x] \in 0..Len(frames[x])
        <3>. TAKE x \in Contexts
        <3>1. Len(frames[x]) \in Nat
            BY LenProperties DEF Typed
        <3>. QED BY <3>1 DEF Typed
    <2>3. /\ memory \in [Processes -> [Threads -> Operations \cup {None}]]
          /\ file \in [Threads -> Operations \cup {None}]
          /\ waiting \in [Threads -> Operations \cup {None}]
        <3>1. \A p \in Processes : memory[p] \in [Threads -> Operations \cup {None}]
            <4>. TAKE p \in Processes
            <4>1. memory[p] \in [Threads -> DOMAIN runs \cup {None}]
                BY DEF Typed
            <4>. QED BY <2>1, <4>1
        <3>. QED BY <2>1, <3>1 DEF Typed
    <2>4. ASSUME NEW c \in Crews
          PROVE  ToSet(active[c]) = {n \in DOMAIN runs : runs[n].of = c /\ runs[n].stage = "kickoff"}
        <3>1. active[c] \in Seq(DOMAIN runs)
            BY DEF Typed
        <3>2. ToSet(active[c]) \subseteq DOMAIN runs
            BY <3>1, LenProperties, ElementOfSeq DEF ToSet
        <3>. QED BY <3>2 DEF IInv, StackOK
    <2>. QED BY <2>2, <2>3, <2>4 DEF Typed, TypeOK
<1> QED
    BY <1>1, InductiveInvariant, PTL

\* owns_event and _op_for: what a crew's kickoff emits in its own contexts is
\* reported by no other crew's listener and under the kickoff's operation, whenever
\* listeners are detached; so is what its workers emit that can be told from other
\* crews' events.
THEOREM EventsReachOwnRun == Spec => []EventsOfOwnRun
<1>1. IInv => EventsOfOwnRun
    <2>. SUFFICES ASSUME IInv, NEW c \in Crews, NEW n \in ToSet(active[c]),
                         NEW source \in {c} \cup (IF c \in holds THEN {Shared} ELSE {}),
                         NEW named \in BOOLEAN
         PROVE  /\ \A x \in Contexts, d \in Crews : ScopeOf(frames[x]) = n =>
                      \A op \in Heard(d, source, named, n) : d = c /\ op = runs[n].op
                /\ Distinct(c, source, named) =>
                      \A d \in Crews : \A op \in Heard(d, source, named, 0) :
                         d = c /\ (Len(active[c]) = 1 => op = runs[n].op)
        BY DEF EventsOfOwnRun
    <2>. Typed /\ StackOK(c)
        BY DEF IInv
    <2>1. /\ active[c] \in Seq(DOMAIN runs) /\ DOMAIN active[c] = 1..Len(active[c])
          /\ Len(active[c]) \in Nat /\ \A i \in 1..Len(active[c]) : active[c][i] \in DOMAIN runs
        BY LenProperties, ElementOfSeq DEF Typed
    <2>2. PICK i \in 1..Len(active[c]) : active[c][i] = n
        BY <2>1 DEF ToSet
    <2>3. n \in DOMAIN runs /\ n # 0 /\ runs[n].of = c /\ active[c] # <<>>
        <3>1. n \in DOMAIN runs /\ DOMAIN runs = 1..Len(runs)
            BY <2>1, <2>2, LenProperties DEF Typed
        <3>2. active[c] # <<>>
            BY <2>1, <2>2
        <3>. QED BY <3>1, <3>2 DEF StackOK
    <2>4. ASSUME NEW d \in Crews, NEW op \in Heard(d, source, named, n)
          PROVE  d = c /\ op = runs[n].op
        <3>1. OwnsEvent(d, source, named, n) /\ op = OpFor(d, n)
            BY <2>4 DEF Heard, Handles
        <3>. QED BY <2>3, <3>1 DEF OwnsEvent, OpFor
    <2>5. ASSUME Distinct(c, source, named), NEW d \in Crews, NEW op \in Heard(d, source, named, 0)
          PROVE  d = c /\ (Len(active[c]) = 1 => op = runs[n].op)
        <3>1. OwnsEvent(d, source, named, 0) /\ op = OpFor(d, 0)
            BY <2>5 DEF Heard, Handles
        <3>2. d = c
            <4>1. source = d \/ (source = Shared /\ (owned = {d} \/ named))
                BY <3>1 DEF OwnsEvent
            <4>2. CASE source = d
                BY <4>2, RunsAssumption
            <4>3. CASE source = Shared
                <5>1. c \in holds /\ c \in listening /\ ~named
                    BY <2>5, <4>3, RunsAssumption DEF Distinct
                <5>2. c \in owned
                    BY <2>3, <5>1 DEF StackOK
                <5>3. source # d
                    BY <4>3, RunsAssumption
                <5>. QED BY <4>1, <5>1, <5>2, <5>3
            <4>. QED BY <4>1, <4>2, <4>3
        <3>3. ASSUME Len(active[c]) = 1 PROVE op = runs[n].op
            <4>1. Last(active[c]) = n
                BY <2>2, <3>3 DEF Last
            <4>. QED BY <2>3, <3>1, <3>2, <4>1 DEF OpFor
        <3>. QED BY <3>2, <3>3
    <2>. QED BY <2>4, <2>5
<1> QED
    BY <1>1, InductiveInvariant, PTL

\* Where the outcomes are in what a run has told, and where the listener's report is.
OutcomesIn(s) == {i \in DOMAIN s : s[i] \notin {"start", "heard"}}
HeardIn(s) == {i \in DOMAIN s : s[i] = "heard"}

LEMMA Outcomes ==
    /\ OutcomesIn(<<>>) = {} /\ HeardIn(<<>>) = {}
    /\ OutcomesIn(<<"start">>) = {} /\ HeardIn(<<"start">>) = {}
    /\ \A e \in Events \ {"start", "heard"} :
          OutcomesIn(<<"start", e>>) = {2} /\ HeardIn(<<"start", e>>) = {}
    /\ OutcomesIn(<<"start", "heard", "outcome">>) = {3}
    /\ HeardIn(<<"start", "heard", "outcome">>) = {2}
<1>1. /\ OutcomesIn(<<>>) = {} /\ HeardIn(<<>>) = {}
      /\ OutcomesIn(<<"start">>) = {} /\ HeardIn(<<"start">>) = {}
    BY DEF OutcomesIn, HeardIn
<1>2. ASSUME NEW e \in Events \ {"start", "heard"}
      PROVE  OutcomesIn(<<"start", e>>) = {2} /\ HeardIn(<<"start", e>>) = {}
    <2>1. DOMAIN <<"start", e>> = {1, 2} /\ <<"start", e>>[1] = "start" /\ <<"start", e>>[2] = e
        OBVIOUS
    <2>. QED BY <2>1 DEF OutcomesIn, HeardIn
<1>3. /\ OutcomesIn(<<"start", "heard", "outcome">>) = {3}
      /\ HeardIn(<<"start", "heard", "outcome">>) = {2}
    <2>. DEFINE s == <<"start", "heard", "outcome">>
    <2>1. DOMAIN s = {1, 2, 3} /\ s[1] = "start" /\ s[2] = "heard" /\ s[3] = "outcome"
        OBVIOUS
    <2>. HIDE DEF s
    <2>2. OutcomesIn(s) = {3} /\ HeardIn(s) = {2}
        BY <2>1 DEF OutcomesIn, HeardIn
    <2>. QED BY <2>2 DEF s
<1>. QED BY <1>1, <1>2, <1>3

\* emit_framework_event: the adapter reports one outcome of a run at most, but for two
\* endings of a stream, and of a kickoff that is over exactly one, the crew's listener
\* one more at most; a thread waits only for what was reported suspended.
THEOREM OutcomesReportedOnce == Spec => []OneOutcome
<1>1. IInv => OneOutcome
    <2>. SUFFICES ASSUME IInv PROVE OneOutcome
        OBVIOUS
    <2>1. ASSUME NEW n \in DOMAIN runs
          PROVE  /\ \/ Terminals(n) <= 1
                    \/ /\ runs[n].of \in Threads /\ runs[n].stage = "done"
                       /\ runs[n].told \in {<<"start", "suspend", "error">>, <<"start", "error", "error">>}
                 /\ runs[n].of \in Crews =>
                       /\ runs[n].stage = "done" => Terminals(n) = 1
                       /\ Echoes(n) <= Terminals(n)
        <3>0. RunOK(n) /\ runs[n] \in RunRecords
            BY LenProperties, ElementOfSeq DEF IInv, Typed
        <3>1. runs[n].stage \in Running \cup {"refused", "idle", "held", "killed", "done"}
            BY <3>0 DEF RunRecords, Live, Modes, Running
        <3>2. Cardinality({}) = 0 /\ Cardinality({2}) = 1 /\ Cardinality({3}) = 1
            BY FS_EmptySet, FS_Singleton
        <3>3. /\ Terminals(n) = Cardinality(OutcomesIn(runs[n].told))
              /\ Echoes(n) = Cardinality(HeardIn(runs[n].told))
            BY DEF Terminals, Echoes, OutcomesIn, HeardIn
        <3>4. ASSUME runs[n].told \in {<<>>, <<"start">>} PROVE Terminals(n) = 0 /\ Echoes(n) = 0
            BY <3>2, <3>3, <3>4, Outcomes
        <3>5. ASSUME NEW e \in Events \ {"start", "heard"}, runs[n].told = <<"start", e>>
              PROVE  Terminals(n) = 1 /\ Echoes(n) = 0
            BY <3>2, <3>3, <3>5, Outcomes
        <3>6. ASSUME runs[n].told = <<"start", "heard", "outcome">>
              PROVE  Terminals(n) = 1 /\ Echoes(n) = 1
            BY <3>2, <3>3, <3>6, Outcomes
        <3>7. CASE runs[n].of \in Crews
            <4>1. /\ runs[n].stage = "done" =>
                        runs[n].told \in {<<"start", "outcome">>, <<"start", "heard", "outcome">>}
                  /\ runs[n].stage # "done" => runs[n].told \in {<<>>, <<"start">>}
                BY <3>0, <3>7 DEF RunOK, Running
            <4>2. "outcome" \in Events \ {"start", "heard"}
                BY DEF Events
            <4>3. runs[n].stage = "done" => Terminals(n) = 1 /\ Echoes(n) <= 1
                BY <3>5, <3>6, <4>1, <4>2
            <4>4. runs[n].stage # "done" => Terminals(n) = 0 /\ Echoes(n) = 0
                BY <3>4, <4>1
            <4>. QED BY <4>3, <4>4
        <3>8. CASE runs[n].of \notin Crews
            <4>1. runs[n].of \in Threads
                BY <3>0, <3>8 DEF RunRecords
            <4>2. \/ runs[n].told \in {<<>>, <<"start">>}
                  \/ \E e \in {"end", "error", "suspend"} : runs[n].told = <<"start", e>>
                  \/ /\ runs[n].stage = "done"
                     /\ runs[n].told \in {<<"start", "suspend", "error">>, <<"start", "error", "error">>}
                BY <3>0, <3>1, <3>8 DEF RunOK
            <4>3. {"end", "error", "suspend"} \subseteq Events \ {"start", "heard"}
                BY DEF Events
            <4>4. (\E e \in {"end", "error", "suspend"} : runs[n].told = <<"start", e>>) => Terminals(n) = 1
                BY <3>5, <4>3
            <4>. QED BY <3>4, <3>8, <4>1, <4>2, <4>4
        <3>. QED BY <3>7, <3>8
    <2>2. \A t \in Threads : waiting[t] # None =>
             \E n \in DOMAIN runs : /\ runs[n].of = t /\ runs[n].op = waiting[t]
                                    /\ "suspend" \in ToSet(runs[n].told)
        BY DEF IInv, StoreOK
    <2>. QED BY <2>1, <2>2 DEF OneOutcome
<1> QED
    BY <1>1, InductiveInvariant, PTL

\* The only run of a graph that a step adds is the one it starts.
LEMMA AddsRun ==
    ASSUME IInv, [Next]_vars, NEW n \in DOMAIN runs' \ DOMAIN runs, runs'[n].of \in Threads
    PROVE  \E x \in Contexts : /\ runs'[n].at = Home[x]
                               /\ runs'[n].op = FreshOp(Home[x], runs'[n].of)
<1>. Typed
    BY DEF IInv
<1>1. ASSUME NEW x \in Contexts, NEW c \in Crews, Kickoff(x, c) PROVE FALSE
    <2>1. PICK b, k : b = (Conflicts(x, k) /\ ~IsChild(x, c)) /\ k = Len(runs) + 1
        OBVIOUS
    <2>2. runs' = Append(runs, Run(c, x, k, "kickoff", b))
        BY <1>1, <2>1 DEF Kickoff
    <2>3. n = Len(runs) + 1 /\ runs'[Len(runs) + 1] = Run(c, x, k, "kickoff", b)
        BY <2>2, LenProperties DEF Typed
    <2>. QED BY <2>3, RunsAssumption DEF Run
<1>2. ASSUME NEW x \in Contexts, NEW t \in Threads, NEW mode \in {"invoke", "stream"}, StartGraph(x, t, mode)
      PROVE  runs'[n].at = Home[x] /\ runs'[n].op = FreshOp(Home[x], runs'[n].of)
    <2>1. PICK op, b : op = FreshOp(Home[x], t) /\ b = Conflicts(x, op)
        OBVIOUS
    <2>2. runs' = Append(runs, Run(t, x, op, mode, b))
        BY <1>2, <2>1 DEF StartGraph
    <2>3. n = Len(runs) + 1 /\ runs'[Len(runs) + 1] = Run(t, x, op, mode, b)
        BY <2>2, LenProperties DEF Typed
    <2>. QED BY <2>1, <2>3 DEF Run
<1>3. ASSUME NEW x \in Contexts, KickoffEnds(x) PROVE FALSE
    BY <1>3 DEF KickoffEnds, Tell
<1>4. ASSUME NEW x \in Contexts, NEW s, NEW e, Stops(x, s, e) PROVE FALSE
    BY <1>4 DEF Stops, Tell
<1>5. ASSUME NEW x \in Contexts, NEW m \in DOMAIN runs, Resumes(x, m) PROVE FALSE
    BY <1>5 DEF Resumes, Tell
<1>6. ASSUME NEW m \in DOMAIN runs, NEW e, Drops(m, e) PROVE FALSE
    BY <1>6 DEF Drops, Tell
<1>7. ASSUME runs' = runs PROVE FALSE
    BY <1>7
<1>8. ASSUME NEW p \in Processes, Restart(p) PROVE FALSE
    BY <1>8 DEF Restart
<1>9. (\E x, y \in Contexts : Fork(x, y)) \/ (\E y \in Contexts : TaskEnds(y))
        \/ (\E c \in Crews : Detach(c)) \/ UNCHANGED vars => runs' = runs
    BY DEF Fork, TaskEnds, Detach, vars
<1>. QED BY <1>1, <1>2, <1>3, <1>4, <1>5, <1>6, <1>7, <1>8, <1>9, Steps

\* _fresh_op: with one process a run that resumes a suspended run is accounted to
\* its operation, as long as the cache or the file names it.
THEOREM ResumptionsKeepOperation == OneHome => (Spec => ResumeKeepsOperation)
<1> SUFFICES ASSUME OneHome PROVE Spec => ResumeKeepsOperation
    OBVIOUS
<1>1. ASSUME IInv, [Next]_vars
      PROVE  [\A n \in DOMAIN runs' \ DOMAIN runs : runs'[n].of \in Threads =>
                 Resumable(runs'[n].at, runs'[n].of) \in {None, runs'[n].op}]_vars
    <2>. SUFFICES ASSUME NEW n \in DOMAIN runs' \ DOMAIN runs, runs'[n].of \in Threads
                  PROVE  Resumable(runs'[n].at, runs'[n].of) \in {None, runs'[n].op}
        OBVIOUS
    <2>1. PICK x \in Contexts : /\ runs'[n].at = Home[x]
                                /\ runs'[n].op = FreshOp(Home[x], runs'[n].of)
        BY <1>1, AddsRun
    <2>2. PICK p \in Processes, t \in Threads : p = Home[x] /\ t = runs'[n].of
        BY RunsAssumption
    <2>3. CASE waiting[t] # None /\ waiting[t] \in {memory[p][t], file[t]}
        <3>1. Typed /\ StoreOK(t) /\ CacheOK(p, t)
            BY <1>1, <2>2, <2>3 DEF IInv
        <3>. QED BY <2>1, <2>2, <2>3, <3>1, FreshResumes DEF Resumable
    <2>4. CASE ~(waiting[t] # None /\ waiting[t] \in {memory[p][t], file[t]})
        BY <2>1, <2>2, <2>4 DEF Resumable
    <2>. QED BY <2>3, <2>4
<1> QED
    BY <1>1, InductiveInvariant, PTL DEF Spec, ResumeKeepsOperation
=============================================================================
