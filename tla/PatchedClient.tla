--------------------------- MODULE PatchedClient ---------------------------
(***************************************************************************)
(* A provider client under monitor() or patch_openai() and their Anthropic *)
(* and async twins (kazenai/monitor.py, kazenai/_async_provider.py), and   *)
(* the gate behind the patches (kazenai/_dispatch_gate.py).                *)
(*                                                                         *)
(* A patch puts a layer on a client: a wrapper around each method that     *)
(* spends, and a gate that every request of the client meets twice, in     *)
(* client.request and in its view of the HTTP client.  The view is of the  *)
(* last layer only; a copy of the client starts with it.  A wrapper        *)
(* reserves and then dispatches with the capability of its gate, in a      *)
(* context variable of its task.  The transport of a request may run code  *)
(* that makes further calls.                                               *)
(*                                                                         *)
(* What becomes of a reservation is in MeteredCall and StreamAttempt.      *)
(***************************************************************************)
EXTENDS Integers, FiniteSets, Sequences

CONSTANTS
    Clients,   \* provider clients
    Original,  \* the one that is there from the start; the others are copies
    Tasks,     \* tasks or threads
    None,      \* no gate, no client, no reference
    Methods,   \* "create" (and parse), "stream" (the helper), "request" (of the client),
               \* "other" (no wrapper: embeddings), "free" (reads, allow_unmetered)
    MaxGates,  \* bound: patches ever made
    MaxFrames  \* bound: wrappers and requests in progress in a task

ASSUME PatchedClientAssumption ==
    /\ Original \in Clients
    /\ None \notin Clients /\ None \notin Nat
    /\ Methods \subseteq {"create", "stream", "request", "other", "free"}
    /\ MaxGates \in Nat \ {0} /\ MaxFrames \in Nat

VARIABLES
    layers,    \* the gates on each client, outermost last
    inherited, \* the view a copy started with
    before,    \* what the client's layers were when a gate was put on it
    gateOf,    \* the client of each gate; None if not made
    budget,    \* the Enforcement of each gate, named for the gate it was made with
    latest,    \* _kazenai_enforcement of each client
    root,      \* the client whose monitor() wraps with_options, or None
    saved,     \* a reference some code has stored, or None
    frames     \* what each task is in, innermost first

vars == <<layers, inherited, before, gateOf, budget, latest, root, saved, frames>>
clientVars == <<layers, inherited, before, gateOf, budget, latest, root>>

Gates == 1..MaxGates

\* A reference: a method of a client, and rest, the layers it still goes through.
\* A call of the stream helper has the create method of that moment.
\* A call that goes down the layers; a wrapper that holds budget and perhaps a
\* reservation; a request that has been sent, with the gate of the client then.
Call(r, create) == [kind |-> "call", client |-> r.client, ref |-> r, create |-> create]
Wrapper(g, c, by, reserved) ==
    [kind |-> "wrapper", client |-> c, gate |-> g, by |-> by, reserved |-> reserved]
Wire(r, gated) == [kind |-> "wire", client |-> r.client, method |-> r.method, gated |-> gated]

Live == {c \in Clients : c = Original \/ inherited[c] # None}

TypeOK ==
    /\ \A c \in Clients :
        /\ \A i \in DOMAIN layers[c] : layers[c][i] \in Gates /\ gateOf[layers[c][i]] = c
        /\ inherited[c] \in Gates \cup {None, 0}
        /\ latest[c] \in Gates \cup {None}
        /\ root[c] \in Clients \cup {None}
    /\ \A g \in Gates : gateOf[g] = None <=> budget[g] = None
    /\ \A t \in Tasks : \A i \in DOMAIN frames[t] :
        frames[t][i].kind = "call" => i = 1 /\ frames[t][i].client \in Live

Init ==
    /\ layers = [c \in Clients |-> <<>>]
    /\ inherited = [c \in Clients |-> None]
    /\ before = [g \in Gates |-> <<>>]
    /\ gateOf = [g \in Gates |-> None]
    /\ budget = [g \in Gates |-> None]
    /\ latest = [c \in Clients |-> None]
    /\ root = [c \in Clients |-> None]
    /\ saved = None
    /\ frames = [t \in Tasks |-> <<>>]

-----------------------------------------------------------------------------
(* Patches. *)

\* The bound on patches: beside calls that are at most two wrappers deep.
Early == \A t \in Tasks : Len(frames[t]) < MaxFrames - 1

New(g) == Early /\ gateOf[g] = None /\ \A h \in 1..(g - 1) : gateOf[h] # None

\* The gate that sees what the HTTP client of c sends: 0 and None are none.
View(c) == IF layers[c] = <<>> THEN inherited[c] ELSE layers[c][Len(layers[c])]

\* The wrappers around what the client has: patches, and setattr.
Wrapped(c, g, to) == [to EXCEPT ![c] = Append(@, g)]

\* Mutant: the gate is recorded on the client that was copied.
LayeredElsewhere(c, g, b, to) ==
    /\ before' = [before EXCEPT ![g] = to[c]]
    /\ layers' = Wrapped(c, g, to)
    /\ gateOf' = [gateOf EXCEPT ![g] = Original]
    /\ budget' = [budget EXCEPT ![g] = b]

\* install_dispatch_gate and the wrappers.
Layered(c, g, b, to) ==
    /\ before' = [before EXCEPT ![g] = to[c]]
    /\ layers' = Wrapped(c, g, to)
    /\ gateOf' = [gateOf EXCEPT ![g] = c]
    /\ budget' = [budget EXCEPT ![g] = b]

\* patch_openai: an Enforcement of its own, nothing done about copies.
Patch(c, g) ==
    /\ c \in Live /\ New(g)
    /\ Layered(c, g, g, layers)
    /\ UNCHANGED <<inherited, latest, root, saved, frames>>

\* monitor: the copies are patched too.
Monitor(c, g) ==
    /\ c \in Live /\ New(g)
    /\ Layered(c, g, g, layers)
    /\ latest' = [latest EXCEPT ![c] = g]
    /\ root' = [root EXCEPT ![c] = IF @ = None THEN c ELSE @]
    /\ UNCHANGED <<inherited, saved, frames>>

\* undo() puts back what its patch found: later layers go with it, and a layer
\* undone before comes back.
Undo(g) ==
    /\ Early /\ gateOf[g] # None
    /\ latest[gateOf[g]] = None
    /\ layers' = [layers EXCEPT ![gateOf[g]] = before[g]]
    /\ UNCHANGED <<inherited, before, gateOf, budget, latest, root, saved, frames>>

\* A copy shares the HTTP client in force.
Shares(c, d) == inherited' = [inherited EXCEPT ![d] = IF View(c) = None THEN 0 ELSE View(c)]

\* Mutant: a copy is patched with a budget of its own.
CopyAfresh(c, d, g) ==
    /\ c \in Live /\ d \notin Live /\ root[c] # None /\ New(g)
    /\ Shares(c, d)
    /\ Layered(d, g, g, layers)
    /\ latest' = [latest EXCEPT ![d] = latest[root[c]]]
    /\ root' = [root EXCEPT ![d] = root[c]]
    /\ UNCHANGED <<saved, frames>>

\* with_options or copy of a monitored client: _rewrap_clone, once however
\* often it was monitored, with the enforcement its original has now.
Copy(c, d, g) ==
    /\ c \in Live /\ d \notin Live /\ root[c] # None /\ New(g)
    /\ Shares(c, d)
    /\ Layered(d, g, latest[root[c]], layers)
    /\ latest' = [latest EXCEPT ![d] = latest[root[c]]]
    /\ root' = [root EXCEPT ![d] = root[c]]
    /\ UNCHANGED <<saved, frames>>

\* Without monitor(), or with a with_options saved before it.
CopyBare(c, d) ==
    /\ c \in Live /\ d \notin Live
    /\ Shares(c, d)
    /\ UNCHANGED <<layers, before, gateOf, budget, latest, root, saved, frames>>

-----------------------------------------------------------------------------
(* Calls. *)

Reads(c, m) ==
    [method |-> m, client |-> c, rest |-> IF m \in {"create", "stream", "request"} THEN layers[c] ELSE <<>>]

\* The bound on saving: between calls.
Between == \A t \in Tasks : frames[t] = <<>>

Save(c, m) ==
    /\ c \in Live /\ saved = None /\ Between
    /\ m \in Methods \cap {"create", "stream", "request"}
    /\ saved' = Reads(c, m)
    /\ UNCHANGED <<clientVars, frames>>

\* The bound on frames: two tasks are together in a call that one wrapper or one
\* request is around; deeper calls are of one task.
Room(t) ==
    LET others == UNION {DOMAIN frames[u] : u \in Tasks \ {t}} IN
    /\ Len(frames[t]) < MaxFrames
    /\ Len(frames[t]) + Cardinality(others) < 3 \/ others = {}

\* A task calls what the client has now, or what was saved; a task that is
\* sending does it in its transport.
Begin(t, r) ==
    /\ Room(t)
    /\ frames[t] # <<>> => Head(frames[t]).kind = "wire"
    /\ frames' = [frames EXCEPT ![t] = <<Call(r, IF r.method = "stream" THEN layers[r.client] ELSE <<>>)>> \o @]
    /\ UNCHANGED <<clientVars, saved>>

Calling(t) == frames[t] # <<>> /\ Head(frames[t]).kind = "call"
Ref(t) == Head(frames[t]).ref
Next_(r) == r.rest[Len(r.rest)]
Deeper(r) == [r EXCEPT !.rest = SubSeq(@, 1, Len(@) - 1)]

Wrappers(t) == {i \in DOMAIN frames[t] : frames[t][i].kind = "wrapper"}

\* _HELPER_INNER_CREATE_BYPASS: a stream helper of any client is entering.
Bypass(t) == \E i \in Wrappers(t) : frames[t][i].by = "stream"

\* Mutant: each wrapper reserves.
CoveredNever(t) == FALSE

\* The scope of a create wrapper is open and has a reservation: one further in
\* makes none.  That of a stream helper was closed when it had reserved.
Covered(t) == \E i \in Wrappers(t) : frames[t][i].by = "create" /\ frames[t][i].reserved

\* A create wrapper that finds the bypass calls the method it wraps.
Pass(t) ==
    /\ Calling(t) /\ Ref(t).method = "create" /\ Ref(t).rest # <<>>
    /\ Bypass(t)
    /\ frames' = [frames EXCEPT ![t] = <<Call(Deeper(Ref(t)), <<>>)>> \o Tail(@)]
    /\ UNCHANGED <<clientVars, saved>>

\* A wrapper holds budget, reserves unless it is covered, marks the start, and
\* calls what it wraps.
Enter(t, by) ==
    /\ Calling(t) /\ Ref(t).method = by /\ Ref(t).rest # <<>>
    /\ Room(t)
    /\ LET r == Ref(t) IN
        frames' = [frames EXCEPT ![t] =
            <<Call(Deeper(r), Head(frames[t]).create), Wrapper(Next_(r), r.client, by, ~Covered(t))>> \o Tail(@)]
    /\ UNCHANGED <<clientVars, saved>>

EnterCreate(t) == ~Bypass(t) /\ Enter(t, "create")
EnterStream(t) == Enter(t, "stream")

\* The helper of the SDK dispatches with the create method it found.
Help(t) ==
    /\ Calling(t) /\ Ref(t).method = "stream" /\ Ref(t).rest = <<>>
    /\ frames' = [frames EXCEPT ![t] =
        <<Call([Ref(t) EXCEPT !.method = "create", !.rest = Head(frames[t]).create], <<>>)>> \o Tail(@)]
    /\ UNCHANGED <<clientVars, saved>>

\* Mutant: one flag for the process.
CapabilitiesOfAll(t) == UNION {{frames[u][i].gate : i \in Wrappers(u)} : u \in Tasks}

\* _AUTHORIZED: the gates of the wrappers that dispatch in this task.
Capabilities(t) == {frames[t][i].gate : i \in Wrappers(t)}

\* A saved client.request goes through the gates it was wrapped in, any other
\* method through those of the request method of now; all through the view.
Checks(r) ==
    LET path == IF r.method = "request" THEN r.rest ELSE layers[r.client] IN
    {path[i] : i \in DOMAIN path} \cup ({View(r.client)} \ {None, 0})

Spends(m) == m # "free"

AtRequest(t) ==
    /\ Calling(t)
    /\ CASE Ref(t).method = "create" -> Ref(t).rest = <<>>
         [] Ref(t).method = "stream" -> FALSE
         [] OTHER -> TRUE

Send(t) ==
    /\ AtRequest(t)
    /\ Spends(Ref(t).method) => Checks(Ref(t)) \subseteq Capabilities(t)
    /\ frames' = [frames EXCEPT ![t] =
        <<Wire(Ref(t), layers[Ref(t).client] # <<>>)>> \o Tail(@)]
    /\ UNCHANGED <<clientVars, saved>>

\* Where the transport, whose call this was, goes on.
Outer(t) ==
    LET sending == {i \in 2..Len(frames[t]) : frames[t][i].kind = "wire"} IN
    IF sending = {} THEN <<>>
    ELSE SubSeq(frames[t], CHOOSE i \in sending : \A j \in sending : i <= j, Len(frames[t]))

\* A check, the cap, FinOps or a gate refuses: the exception ends every wrapper.
Refuse(t) ==
    /\ Calling(t)
    /\ Ref(t).rest # <<>> \/ (AtRequest(t) /\ ~(Checks(Ref(t)) \subseteq Capabilities(t)))
    /\ frames' = [frames EXCEPT ![t] = Outer(t)]
    /\ UNCHANGED <<clientVars, saved>>

\* The provider answers or fails, and the wrappers return.
Answer(t) ==
    /\ frames[t] # <<>> /\ Head(frames[t]).kind = "wire"
    /\ frames' = [frames EXCEPT ![t] = Outer(t)]
    /\ UNCHANGED <<clientVars, saved>>

Next ==
    \/ \E c \in Clients, g \in Gates : Patch(c, g) \/ Monitor(c, g)
    \/ \E g \in Gates : Undo(g)
    \/ \E c, d \in Clients : CopyBare(c, d) \/ \E g \in Gates : Copy(c, d, g)
    \/ \E c \in Live, m \in Methods : Save(c, m) \/ \E t \in Tasks : Begin(t, Reads(c, m))
    \/ \E t \in Tasks :
        \/ saved # None /\ Begin(t, saved)
        \/ Pass(t) \/ EnterCreate(t) \/ EnterStream(t) \/ Help(t)
        \/ Send(t) \/ Refuse(t) \/ Answer(t)

Spec == Init /\ [][Next]_vars

-----------------------------------------------------------------------------
(* Properties. *)

Sent(t) == {i \in DOMAIN frames[t] : frames[t][i].kind = "wire" /\ Spends(frames[t][i].method)}

\* "Anything else raises UnsupportedModeError before it is sent": a request that
\* spends leaves a patched client only while a wrapper of this client, in this
\* task, holds budget; whatever references were saved, copies made, layers
\* undone, and helpers of other clients entering around it.
SpendIsHeld ==
    \A t \in Tasks : \A i \in Sent(t) : frames[t][i].gated =>
        \E j \in Wrappers(t) : j > i /\ frames[t][j].client = frames[t][i].client

\* The wrappers of one call, from a request it sends out to the next transport.
OneCall(t, i) ==
    {j \in Wrappers(t) : j > i /\ \A k \in i..j : k > i => frames[t][k].kind # "wire"}

\* A call through the create wrappers of a client monitored twice, or made in
\* the transport of another, is reserved once at FinOps: by its outermost
\* wrapper, or by the call around it.
ReservedOnce ==
    \A t \in Tasks : \A i \in Sent(t) :
        (OneCall(t, i) # {} /\ \A j \in OneCall(t, i) : frames[t][j].by = "create") =>
            Cardinality({j \in Wrappers(t) :
                j > i /\ frames[t][j].reserved
                /\ (j \in OneCall(t, i) \/ frames[t][j].by = "create")}) = 1

\* "Clones must share the same Enforcement counter (not a fresh budget)": what a
\* copy of a monitored client spends is held against a budget that its original
\* was monitored with, for copies of copies too.
ClonesShareBudget ==
    \A t \in Tasks : \A i \in Sent(t) :
        LET c == frames[t][i].client IN
        (frames[t][i].gated /\ root[c] \notin {None, c}) =>
            \E j \in Wrappers(t) : j > i /\ frames[t][j].client = c
                /\ gateOf[budget[frames[t][j].gate]] = root[c]

=============================================================================
