--------------------------- MODULE FrameworkRuns ---------------------------
(***************************************************************************)
(* The LangGraph and CrewAI adapters: which operation a run is accounted   *)
(* to, and what is reported of it.                                         *)
(*                                                                         *)
(* LangGraphAdapter.invoke, ainvoke, stream and astream run a graph on a   *)
(* thread.  A run of a thread that has a checkpoint takes the operation of *)
(* the side store: a cache of the process, then a file, both written when  *)
(* a run starts.  CrewAdapter.kickoff and its async forms run a crew; the  *)
(* listener of a crew hears the events of every crew of the process and    *)
(* must keep its own, by the scope, the objects and the ids an event has.  *)
(*                                                                         *)
(* A context is a Python context: an asyncio task or a thread, and what it *)
(* inherited when it was started.  frames[x] are the runs entered in it,   *)
(* the innermost last.  Only one run of a thread is under way at a time.   *)
(***************************************************************************)
EXTENDS Naturals, Sequences, FiniteSets, SequencesExt

CONSTANTS
    Contexts,    \* tasks and threads
    Crews,       \* crews, each with its adapter and listener
    Threads,     \* thread ids of a graph, all in one checkpoint store
    Processes,   \* processes using that store
    Home,        \* the process of each context and each crew
    MaxRuns,     \* bound: runs of one behaviour
    MaxDetached, \* bound: crews detached since their process started
    Shared,      \* an agent, or an LLM, that a crew holds, or several do
    None

ASSUME RunsAssumption ==
    /\ MaxRuns \in Nat /\ MaxDetached \in Nat
    /\ Home \in [Contexts \cup Crews -> Processes]
    /\ Crews \cap Threads = {}
    /\ Shared \notin Crews
    /\ None \notin Nat

VARIABLES
    runs,        \* the runs so far; the operation a run mints is its own index
    frames,      \* runs entered in each context (enter_operation, _TASK_SCOPE)
    inherited,   \* how many of them the context was started with
    active,      \* _ACTIVE_OPS: the scopes of each crew
    listening,   \* crews whose listener is registered
    holds,       \* crews that hold the shared agent or LLM (never changes)
    owned,       \* crews whose listener has it in _OWNERSHIP, and its id in _owned_keys
    memory,      \* _THREAD_ENVELOPES of each process: the operation stored
    file,        \* the durable envelope of each thread
    saved,       \* threads the checkpointer has state for
    waiting      \* the operation of the suspended run of each thread

crewVars  == <<active, listening, holds, owned>>
storeVars == <<memory, file>>
graphVars == <<saved, waiting>>
vars == <<runs, frames, inherited, crewVars, storeVars, graphVars>>

Operations == 1..MaxRuns
Modes == {"kickoff", "invoke", "stream"}
Live == Modes \cup {"idle", "held"}
Events == {"start", "end", "suspend", "error", "outcome", "heard"}

Init ==
    /\ runs = <<>>
    /\ frames = [x \in Contexts |-> <<>>]
    /\ inherited = [x \in Contexts |-> 0]
    /\ active = [c \in Crews |-> <<>>]
    /\ listening = Crews
    /\ holds \in SUBSET Crews \ {{}}
    /\ owned \in SUBSET Crews   \* as it was when the listeners were registered
    /\ memory = [p \in Processes |-> [t \in Threads |-> None]]
    /\ file = [t \in Threads |-> None]
    /\ saved = {}
    /\ waiting = [t \in Threads |-> None]

-----------------------------------------------------------------------------
(* Scopes *)

\* The innermost run entered in a context, and whether the context entered it.
Top(x) == Last(frames[x])
Entered(x) == Len(frames[x]) > inherited[x]

\* What _TASK_SCOPE holds in a context entered with these frames, 0 for None.
ScopeOf(fs) == LET i == SelectLastInSeq(fs, LAMBDA n : runs[n].of \in Crews)
               IN  IF i = 0 THEN 0 ELSE fs[i]

\* The operation of the ambient attribution.
Attributed(x) == IF frames[x] = <<>> THEN None ELSE runs[Top(x)].op

\* use_attribution refuses another operation inside the ambient one.
Conflicts(x, op) == Attributed(x) \notin {None, op}

\* _new_op: inside another crew's scope a kickoff is a child, which has its own.
IsChild(x, c) == LET outer == ScopeOf(frames[x])
                 IN  outer # 0 /\ runs[outer].of # c

\* A new run: refused before anything is emitted, or started in its mode.
Run(of, x, op, mode, refused) ==
    [of |-> of, at |-> Home[x], op |-> op, stage |-> IF refused THEN "refused" ELSE mode,
     told |-> IF refused THEN <<>> ELSE <<"start">>]

Enter(x, n) == frames' = [frames EXCEPT ![x] = Append(@, n)]
Leave(x) == frames' = [frames EXCEPT ![x] = Front(@)]

\* Run n goes to a stage and emits the events.
Tell(n, stage, events) ==
    runs' = [runs EXCEPT ![n].stage = stage, ![n].told = @ \o events]

-----------------------------------------------------------------------------
(* Crews *)

BindStale(c, n) == active' = [active EXCEPT ![c] = Append(@, n)] /\ UNCHANGED owned

\* refresh_ownership: the objects of the crew are read anew and registered.
Refreshed(c) == IF c \in holds THEN owned \cup {c} ELSE owned \ {c}

\* _bind: the ownership is refreshed and the scope pushed.
Bind(c, n) ==
    /\ owned' = Refreshed(c)
    /\ active' = [active EXCEPT ![c] = Append(@, n)]

UnbindLast(stack, n) == Front(stack)

\* _unbind: a scope that ends is taken off its crew's stack, wherever it is.
Unbind(stack, n) == IF n \in ToSet(stack) THEN RemoveFirst(stack, n) ELSE Front(stack)

\* kickoff, akickoff, and kickoff_async in the context of its worker thread.
Kickoff(x, c) ==
    LET n == Len(runs) + 1
        refused == Conflicts(x, n) /\ ~IsChild(x, c)
    IN  /\ n <= MaxRuns /\ Home[x] = Home[c]
        /\ runs' = Append(runs, Run(c, x, n, "kickoff", refused))
        /\ IF refused THEN UNCHANGED <<frames, owned, active>>
                      ELSE Enter(x, n) /\ Bind(c, n)
        /\ UNCHANGED <<inherited, listening, holds, storeVars, graphVars>>

\* detach, whatever the crew is doing; a later kickoff owns its objects again, but
\* its listener does not return to the bus.
Detach(c) ==
    /\ Cardinality(Crews \ (listening \ {c})) <= MaxDetached
    /\ listening' = listening \ {c}
    /\ owned' = owned \ {c}
    /\ UNCHANGED <<runs, frames, inherited, active, holds, storeVars, graphVars>>

\* owns_event: whether the listener of c takes an event of a source emitted in a
\* scope.  The shared object is taken by its only owner, and when the event names
\* the shared agent (agent_id), by every owner.
OwnsEvent(c, source, named, scope) ==
    /\ scope # 0 => runs[scope].of = c
    /\ \/ source = c
       \/ source = Shared /\ c \in owned /\ (owned = {c} \/ named)
       \/ scope # 0

\* _op_for: the operation the listener of c emits the event under.
OpFor(c, scope) ==
    IF scope # 0 THEN runs[scope].op
    ELSE IF active[c] = <<>> THEN None ELSE runs[Last(active[c])].op

\* A handler on the bus, registered by _register_listener, passes the event on.
Handles(c, source, named, scope) == c \in listening /\ OwnsEvent(c, source, named, scope)

\* The operations under which the handlers of c report the event: one or none.
Heard(c, source, named, scope) ==
    IF Handles(c, source, named, scope) THEN {OpFor(c, scope)} \ {None} ELSE {}

\* The reports of how kickoff n of c ended: the adapter's, and the listener's when it
\* hears the crew announce that it completed or failed.
Reports(c, n) ==
    {<<"outcome">>} \cup
    (IF runs[n].op \in Heard(c, c, FALSE, n) THEN {<<"heard", "outcome">>} ELSE {})

\* The crew returns, raises, is cancelled, or is stopped by a HookAborted.  Which of
\* workflow.end, .error and .suspend is reported is not told apart.
KickoffEnds(x) ==
    /\ Entered(x) /\ runs[Top(x)].of \in Crews
    /\ \E told \in Reports(runs[Top(x)].of, Top(x)) : Tell(Top(x), "done", told)
    /\ Leave(x)
    /\ active' = [active EXCEPT ![runs[Top(x)].of] = Unbind(@, Top(x))]
    /\ UNCHANGED <<inherited, listening, holds, owned, storeVars, graphVars>>

-----------------------------------------------------------------------------
(* Graphs *)

UnderWay(t) == \E n \in DOMAIN runs : runs[n].of = t /\ runs[n].stage \in {"invoke", "stream", "idle"}

\* _load_thread_envelope: the process cache first, then the durable file.
LoadedFileFirst(p, t) == IF file[t] # None THEN file[t] ELSE memory[p][t]
Loaded(p, t) == IF memory[p][t] # None THEN memory[p][t] ELSE file[t]

\* _thread_has_checkpoint.
HasCheckpoint(t) == t \in saved

\* _fresh_op: only a thread with a checkpoint takes the stored operation.
FreshOp(p, t) ==
    IF HasCheckpoint(t) /\ Loaded(p, t) # None THEN Loaded(p, t) ELSE Len(runs) + 1

\* _persist_durable_envelope: a failed write is swallowed.
Persist(t, op) == file' \in {file, [file EXCEPT ![t] = op]}

\* _merge_config stores the envelope of a run in the cache and the file.
Store(p, t, op) == memory' = [memory EXCEPT ![p][t] = op] /\ Persist(t, op)

\* The operation a resumption must find: some store of the process still names it.
Resumable(p, t) == IF waiting[t] \in {memory[p][t], file[t]} THEN waiting[t] ELSE None

\* invoke and ainvoke, and stream and astream up to the end of their first next.
StartGraph(x, t, mode) ==
    LET n == Len(runs) + 1
        p == Home[x]
        op == FreshOp(p, t)
    IN  /\ n <= MaxRuns /\ ~UnderWay(t)
        /\ runs' = Append(runs, Run(t, x, op, mode, Conflicts(x, op)))
        /\ IF Conflicts(x, op)
           THEN /\ memory' = IF HasCheckpoint(t) THEN [memory EXCEPT ![p][t] = Loaded(p, t)] ELSE memory
                /\ UNCHANGED <<frames, file>>
           ELSE /\ Store(p, t, op)
                /\ Enter(x, n)
        /\ UNCHANGED <<inherited, crewVars, graphVars>>

\* The graph run that context x is executing.
Executing(x, modes) ==
    Entered(x) /\ runs[Top(x)].of \in Threads /\ runs[Top(x)].stage \in modes

Thread(x) == runs[Top(x)].of

\* The graph finishes.
GraphEnds(x) ==
    /\ Executing(x, {"invoke", "stream"})
    /\ Tell(Top(x), "done", <<"end">>) /\ Leave(x)
    /\ saved' = saved \cup {Thread(x)}
    /\ waiting' = [waiting EXCEPT ![Thread(x)] = None]
    /\ UNCHANGED <<inherited, crewVars, storeVars>>

\* The graph suspends: an interrupt is raised, or __interrupt__ is in the result.
\* A stream yields the item that carries it, and is held there by its consumer.
Suspends(x, stage) ==
    /\ Tell(Top(x), stage, <<"suspend">>) /\ Leave(x)
    /\ saved' = saved \cup {Thread(x)}
    /\ waiting' = [waiting EXCEPT ![Thread(x)] = runs[Top(x)].op]
    /\ UNCHANGED <<inherited, crewVars, storeVars>>

GraphSuspends(x) == Executing(x, {"invoke", "stream"}) /\ Suspends(x, "done")
InterruptGoesOn(x) == Executing(x, {"stream"}) /\ Suspends(x, "idle")
InterruptItem(x) == Executing(x, {"stream"}) /\ Suspends(x, "held")

\* A step of the graph has been checkpointed before the run broke off, or not.
PerhapsSaved(x) == saved' \in {saved, saved \cup {Thread(x)}}

\* An exception.  A stream reports one that is called CancelledError twice.
GraphFails(x) ==
    /\ Executing(x, {"invoke", "stream"})
    /\ \E told \in {<<"error">>} \cup (IF Executing(x, {"stream"}) THEN {<<"error", "error">>} ELSE {}) :
          Tell(Top(x), "done", told)
    /\ Leave(x) /\ PerhapsSaved(x)
    /\ UNCHANGED <<inherited, crewVars, storeVars, waiting>>

\* A cancellation or KeyboardInterrupt: invoke and ainvoke catch Exception only;
\* of the streams, astream reports a cancellation and stream a KeyboardInterrupt as an end.
GraphAborts(x) ==
    /\ Executing(x, {"invoke", "stream"})
    /\ \E told \in IF runs[Top(x)].stage = "invoke" THEN {<<>>} ELSE {<<"error">>, <<"end">>} :
          Tell(Top(x), "done", told)
    /\ Leave(x) /\ PerhapsSaved(x)
    /\ UNCHANGED <<inherited, crewVars, storeVars, waiting>>

\* A stream yields an item: its consumer runs outside the operation.
Yield(x) ==
    /\ Executing(x, {"stream"})
    /\ Tell(Top(x), "idle", <<>>) /\ Leave(x) /\ PerhapsSaved(x)
    /\ UNCHANGED <<inherited, crewVars, storeVars, waiting>>

\* The consumer, outside the stream's own nodes, asks for the next item.  Inside
\* another run the operation cannot be entered: neither the next item nor the
\* end is reached.
NextItem(x, n) ==
    /\ runs[n].stage = "idle" /\ runs[n].at = Home[x] /\ n \notin ToSet(frames[x])
    /\ IF Conflicts(x, runs[n].op) THEN Tell(n, "done", <<>>) /\ UNCHANGED frames
                                   ELSE Tell(n, "stream", <<>>) /\ Enter(x, n)
    /\ UNCHANGED <<inherited, crewVars, storeVars, graphVars>>

\* After the interrupt item there is none.
NextAfterInterrupt(n) ==
    /\ runs[n].stage = "held"
    /\ Tell(n, "done", <<>>)
    /\ UNCHANGED <<frames, inherited, crewVars, storeVars, graphVars>>

\* The consumer closes the stream, or drops it: GeneratorExit at the yield.
Close(x, n) ==
    /\ runs[n].stage \in {"idle", "held"} /\ runs[n].at = Home[x]
    /\ Tell(n, "done", IF Conflicts(x, runs[n].op) THEN <<>> ELSE <<"error">>)
    /\ UNCHANGED <<frames, inherited, crewVars, storeVars, graphVars>>

-----------------------------------------------------------------------------
(* Contexts and processes *)

\* A run starts a task or a worker thread, which inherits its context.
Fork(x, y) ==
    /\ Home[x] = Home[y] /\ frames[x] # <<>> /\ frames[y] = <<>>
    /\ frames' = [frames EXCEPT ![y] = frames[x]]
    /\ inherited' = [inherited EXCEPT ![y] = Len(frames[x])]
    /\ UNCHANGED <<runs, crewVars, storeVars, graphVars>>

\* That task ends, perhaps long after the run that started it.
TaskEnds(y) ==
    /\ inherited[y] > 0 /\ ~Entered(y)
    /\ frames' = [frames EXCEPT ![y] = <<>>]
    /\ inherited' = [inherited EXCEPT ![y] = 0]
    /\ UNCHANGED <<runs, crewVars, storeVars, graphVars>>

\* A process stops and starts again: only the files and the checkpoints are left, and
\* the files are found only if the id of the store outlives the process: one from the
\* environment or a path does, the saver's id() does not.
Restart(p) ==
    LET here == {x \in Contexts : Home[x] = p}
        crews == {c \in Crews : Home[c] = p}
    IN  /\ runs' = [n \in DOMAIN runs |->
                      IF runs[n].at = p /\ runs[n].stage \in Live
                      THEN [runs[n] EXCEPT !.stage = "killed"] ELSE runs[n]]
        /\ frames' = [x \in Contexts |-> IF x \in here THEN <<>> ELSE frames[x]]
        /\ inherited' = [x \in Contexts |-> IF x \in here THEN 0 ELSE inherited[x]]
        /\ active' = [c \in Crews |-> IF c \in crews THEN <<>> ELSE active[c]]
        /\ listening' = listening \cup crews
        /\ owned' = (owned \ crews) \cup (holds \cap crews)
        /\ memory' = [memory EXCEPT ![p] = [t \in Threads |-> None]]
        /\ file' \in {file, [t \in Threads |-> None]}
        /\ UNCHANGED <<holds, graphVars>>

Next ==
    \/ \E x \in Contexts :
          \/ \E c \in Crews : Kickoff(x, c)
          \/ \E t \in Threads, mode \in {"invoke", "stream"} : StartGraph(x, t, mode)
          \/ KickoffEnds(x) \/ GraphEnds(x) \/ GraphSuspends(x) \/ InterruptItem(x)
          \/ GraphFails(x) \/ GraphAborts(x) \/ Yield(x) \/ TaskEnds(x)
          \/ \E y \in Contexts : Fork(x, y)
          \/ \E n \in DOMAIN runs : NextItem(x, n) \/ Close(x, n)
    \/ \E n \in DOMAIN runs : NextAfterInterrupt(n)
    \/ \E c \in Crews : Detach(c)
    \/ \E p \in Processes : Restart(p)

Spec == Init /\ [][Next]_vars

-----------------------------------------------------------------------------
(* Properties *)

RunRecords ==
    [of : Crews \cup Threads, at : Processes, op : Operations,
     stage : Live \cup {"done", "refused", "killed"}, told : Seq(Events)]

\* The state has its type; every scope on a crew's stack is of a kickoff of that
\* crew that is still running, and every kickoff running has its scope there: an
\* end takes away its own, whichever of a crew's kickoffs ends first.
TypeOK ==
    /\ runs \in Seq(RunRecords) /\ Len(runs) <= MaxRuns
    /\ frames \in [Contexts -> Seq(DOMAIN runs)]
    /\ \A x \in Contexts : inherited[x] \in 0..Len(frames[x])
    /\ listening \subseteq Crews /\ holds \subseteq Crews /\ owned \subseteq Crews
    /\ memory \in [Processes -> [Threads -> Operations \cup {None}]]
    /\ file \in [Threads -> Operations \cup {None}]
    /\ saved \subseteq Threads
    /\ waiting \in [Threads -> Operations \cup {None}]
    /\ DOMAIN active = Crews
    /\ \A c \in Crews :
          ToSet(active[c]) = {n \in DOMAIN runs : runs[n].of = c /\ runs[n].stage = "kickoff"}

\* A run that resumes a suspended run of its thread is accounted to the operation
\* of that run, as long as a store the process can read still names it: over
\* failures, restarts, turns on the same thread and failed writes of the file.
\* It holds of one process: the cache of another one, whose own file write failed,
\* keeps an operation that nothing invalidates.
ResumeKeepsOperation ==
    [][\A n \in DOMAIN runs' \ DOMAIN runs : runs'[n].of \in Threads =>
          Resumable(runs'[n].at, runs'[n].of) \in {None, runs'[n].op}]_vars

\* An event of c from a worker without a scope can be told from other crews': it is of
\* the crew's own objects, or of the shared one while the crew's listener is attached
\* and the event does not name the shared agent.
Distinct(c, source, named) == source = c \/ (c \in listening /\ ~named)

\* What a crew's kickoff emits is reported by no other crew's listener, and under
\* the kickoff's operation: in its own contexts always, over detaches and whatever
\* the event names; and from a worker without a context, if the event can be told
\* from other crews', when no other kickoff of the crew is running.
EventsOfOwnRun ==
    \A c \in Crews : \A n \in ToSet(active[c]) :
       \A source \in {c} \cup (IF c \in holds THEN {Shared} ELSE {}), named \in BOOLEAN :
          /\ \A x \in Contexts, d \in Crews : ScopeOf(frames[x]) = n =>
                \A op \in Heard(d, source, named, n) : d = c /\ op = runs[n].op
          /\ Distinct(c, source, named) =>
                \A d \in Crews : \A op \in Heard(d, source, named, 0) :
                   d = c /\ (Len(active[c]) = 1 => op = runs[n].op)

\* How often the adapter reported an outcome of a run, and how often the listener did.
Terminals(n) == Cardinality({i \in DOMAIN runs[n].told : runs[n].told[i] \notin {"start", "heard"}})
Echoes(n) == Cardinality({i \in DOMAIN runs[n].told : runs[n].told[i] = "heard"})

\* The adapter reports one outcome of a run at most; of a kickoff that is over exactly
\* one, to which the crew's listener adds one at most.  No end is reported beside
\* another outcome: the two exceptions are a stream dropped at its interrupt, and one
\* whose graph raised a CancelledError, whose error comes second or twice.  A
\* thread waits only for an operation whose suspension was reported.
OneOutcome ==
    /\ \A n \in DOMAIN runs :
          \/ Terminals(n) <= 1
          \/ /\ runs[n].of \in Threads /\ runs[n].stage = "done"
             /\ runs[n].told \in {<<"start", "suspend", "error">>, <<"start", "error", "error">>}
    /\ \A n \in DOMAIN runs : runs[n].of \in Crews =>
          /\ runs[n].stage = "done" => Terminals(n) = 1
          /\ Echoes(n) <= Terminals(n)
    /\ \A t \in Threads : waiting[t] # None =>
          \E n \in DOMAIN runs : /\ runs[n].of = t /\ runs[n].op = waiting[t]
                                 /\ "suspend" \in ToSet(runs[n].told)
=============================================================================
