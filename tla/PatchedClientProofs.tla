-------------------------- MODULE PatchedClientProofs --------------------------
(***************************************************************************)
(* Proofs about PatchedClient: its type invariant, and that what a patched *)
(* client sends is held, reserved once and within the budget of its        *)
(* family, for any number of clients, tasks, patches and nested calls.     *)
(*                                                                         *)
(* Every reference names gates of its own client only, every wrapper on a  *)
(* stack is one of its gate's client, and the layers of a copy begin with  *)
(* the gate that has its family's budget; so the capability that a gate    *)
(* asks for can only be that of a wrapper of the same client.              *)
(***************************************************************************)
EXTENDS PatchedClient, FiniteSetTheorems, TLAPS

-----------------------------------------------------------------------------
(* The inductive invariant. *)

AnyMethod == {"create", "stream", "request", "other", "free"}
Refs == [method : AnyMethod, client : Clients, rest : Seq(Gates)]
CallFrames == [kind : {"call"}, client : Clients, ref : Refs, create : Seq(Gates)]
WrapperFrames == [kind : {"wrapper"}, client : Clients, gate : Gates,
                  by : {"create", "stream"}, reserved : BOOLEAN]
WireFrames == [kind : {"wire"}, client : Clients, method : AnyMethod, gated : BOOLEAN]
Frames == CallFrames \cup WrapperFrames \cup WireFrames

TypesOK ==
    /\ layers \in [Clients -> Seq(Gates)]
    /\ inherited \in [Clients -> Gates \cup {None, 0}]
    /\ before \in [Gates -> Seq(Gates)]
    /\ gateOf \in [Gates -> Clients \cup {None}]
    /\ budget \in [Gates -> Gates \cup {None}]
    /\ latest \in [Clients -> Gates \cup {None}]
    /\ root \in [Clients -> Clients \cup {None}]
    /\ saved \in Refs \cup {None}
    /\ frames \in [Tasks -> Seq(Frames)]

\* The gates of s are of client c.
PathOf(s, c) == \A i \in DOMAIN s : gateOf[s[i]] = c

IsCopy(c) == root[c] \notin {None, c}

\* g holds a budget that the original of c was monitored with.
Shared(g, c) == gateOf[budget[g]] = root[c]

\* The innermost layer of a copy is the one it was made with.
FirstShared(s, c) == IsCopy(c) => s # <<>> /\ Shared(s[1], c)

GatesOK ==
    /\ \A c \in Clients : PathOf(layers[c], c)
    /\ \A g \in Gates :
        /\ gateOf[g] = None <=> budget[g] = None
        /\ gateOf[g] \in Live \cup {None}
        /\ gateOf[g] # None => PathOf(before[g], gateOf[g])
        /\ budget[g] # None => gateOf[budget[g]] # None

FamilyOK ==
    \A c \in Clients :
        /\ root[c] # None =>
            /\ c \in Live /\ root[c] \in Live
            /\ root[root[c]] = root[c]
            /\ latest[c] # None
        /\ root[c] = c => gateOf[latest[c]] = c
        /\ FirstShared(layers[c], c)

RefOK(r) ==
    /\ r.client \in Live
    /\ PathOf(r.rest, r.client)
    /\ r.method = "request" => FirstShared(r.rest, r.client)

SavedOK == saved # None => RefOK(saved)

\* Around the request f[i] there is a wrapper of its client, of the budget of
\* its family.
Held(f, i) ==
    \E j \in DOMAIN f :
        /\ j > i /\ f[j].kind = "wrapper" /\ f[j].client = f[i].client
        /\ IsCopy(f[i].client) => Shared(f[j].gate, f[i].client)

FrameOK(f, i) ==
    /\ f[i].client \in Live
    /\ f[i].kind = "call" =>
        /\ i = 1
        /\ f[i].ref.client = f[i].client
        /\ RefOK(f[i].ref)
        /\ PathOf(f[i].create, f[i].client)
    /\ f[i].kind = "wrapper" => gateOf[f[i].gate] = f[i].client
    /\ f[i].kind = "wire" /\ f[i].method # "free" /\ f[i].gated => Held(f, i)

StackOK(f) == \A i \in DOMAIN f : FrameOK(f, i)

IsCreate(w) == w.kind = "wrapper" /\ w.by = "create"

\* Of the create wrappers on a stack the outermost has reserved, alone.
OutermostReserves(f) ==
    (\E j \in DOMAIN f : IsCreate(f[j])) =>
        \E m \in DOMAIN f :
            /\ IsCreate(f[m]) /\ f[m].reserved
            /\ \A k \in DOMAIN f : IsCreate(f[k]) => k <= m /\ (f[k].reserved => k = m)

StacksOK == \A t \in Tasks : StackOK(frames[t]) /\ OutermostReserves(frames[t])

IInv == TypesOK /\ GatesOK /\ FamilyOK /\ SavedOK /\ StacksOK

-----------------------------------------------------------------------------
(* Stacks: a frame put on top, in the place of the top, two in its place,  *)
(* and what is left when the frames above one have returned.               *)

\* A layer is put around those of a client.
LEMMA Appended ==
    ASSUME NEW S, NEW s \in Seq(S), NEW x \in S, NEW h, h = Append(s, x)
    PROVE  /\ h \in Seq(S) /\ h # <<>>
           /\ DOMAIN h = 1..(Len(s) + 1) /\ DOMAIN s = 1..Len(s)
           /\ h[Len(s) + 1] = x
           /\ \A k \in 1..Len(s) : h[k] = s[k]
OBVIOUS

\* A call begins in a transport.
LEMMA Pushed ==
    ASSUME NEW S, NEW s \in Seq(S), NEW x \in S, NEW h, h = <<x>> \o s
    PROVE  /\ h \in Seq(S) /\ Len(h) = Len(s) + 1
           /\ h[1] = x
           /\ \A k \in 1..Len(s) : h[k + 1] = s[k]
OBVIOUS

\* A call moves down a layer, or becomes a request.
LEMMA Replaced ==
    ASSUME NEW S, NEW s \in Seq(S), s # <<>>, NEW x \in S, NEW h, h = <<x>> \o Tail(s)
    PROVE  /\ h \in Seq(S) /\ Len(h) = Len(s)
           /\ h[1] = x
           /\ \A k \in 2..Len(s) : h[k] = s[k]
<1>1. Tail(s) \in Seq(S) /\ Len(Tail(s)) = Len(s) - 1
    OBVIOUS
<1>2. \A k \in 1..(Len(s) - 1) : Tail(s)[k] = s[k + 1]
    OBVIOUS
<1>. QED BY <1>1, <1>2, Pushed

\* A wrapper dispatches.
LEMMA Doubled ==
    ASSUME NEW S, NEW s \in Seq(S), s # <<>>, NEW x \in S, NEW y \in S,
           NEW h, h = <<x, y>> \o Tail(s)
    PROVE  /\ h \in Seq(S) /\ Len(h) = Len(s) + 1
           /\ h[1] = x /\ h[2] = y
           /\ \A k \in 2..Len(s) : h[k + 1] = s[k]
<1>1. Tail(s) \in Seq(S) /\ Len(Tail(s)) = Len(s) - 1
    OBVIOUS
<1>2. \A k \in 1..(Len(s) - 1) : Tail(s)[k] = s[k + 1]
    OBVIOUS
<1>3. h \in Seq(S) /\ Len(h) = Len(s) + 1 /\ h[1] = x /\ h[2] = y
    BY <1>1
<1>4. \A k \in 1..(Len(s) - 1) : h[k + 2] = Tail(s)[k]
    BY <1>1
<1>. QED BY <1>2, <1>3, <1>4

\* Exceptions and returns end the frames above.
LEMMA CutOff ==
    ASSUME NEW S, NEW s \in Seq(S), NEW i \in DOMAIN s, NEW h, h = SubSeq(s, i, Len(s))
    PROVE  /\ h \in Seq(S) /\ Len(h) = Len(s) - i + 1
           /\ \A k \in i..Len(s) : h[k - i + 1] = s[k]
OBVIOUS

-----------------------------------------------------------------------------
\* Frames that stay on a stack, d places further out, stay right.
LEMMA Shifted ==
    ASSUME NEW f \in Seq(Frames), NEW h \in Seq(Frames), NEW d \in Int, NEW lo \in Nat \ {0},
           lo + d >= 1,
           Len(h) = Len(f) + d,
           \A k \in lo..Len(f) : h[k + d] = f[k],
           \A k \in lo..Len(f) : f[k].kind # "call",
           StackOK(f)
    PROVE  \A k \in (lo + d)..Len(h) : FrameOK(h, k)
<1>. SUFFICES ASSUME NEW k \in (lo + d)..Len(h) PROVE FrameOK(h, k)
    OBVIOUS
<1>. DEFINE i == k - d
<1>1. i \in lo..Len(f) /\ i \in DOMAIN f /\ h[k] = f[i] /\ k \in DOMAIN h
    OBVIOUS
<1>2. FrameOK(f, i) /\ f[i].kind # "call"
    BY <1>1 DEF StackOK
<1>3. ASSUME Held(f, i) PROVE Held(h, k)
    <2>1. PICK j \in DOMAIN f :
            /\ j > i /\ f[j].kind = "wrapper" /\ f[j].client = f[i].client
            /\ IsCopy(f[i].client) => Shared(f[j].gate, f[i].client)
        BY <1>3 DEF Held
    <2>2. j + d \in DOMAIN h /\ j + d > k /\ h[j + d] = f[j]
        BY <1>1, <2>1
    <2>. QED BY <1>1, <2>1, <2>2 DEF Held
<1>. QED BY <1>1, <1>2, <1>3 DEF FrameOK

\* So does who has reserved, if no create wrapper is put on top.
LEMMA StillReserved ==
    ASSUME NEW f \in Seq(Frames), NEW h \in Seq(Frames), NEW d \in Int, NEW lo \in Nat \ {0},
           lo + d >= 1,
           Len(h) = Len(f) + d,
           \A k \in lo..Len(f) : h[k + d] = f[k],
           \A k \in 1..(lo + d - 1) : k \in DOMAIN h => ~IsCreate(h[k]),
           OutermostReserves(f)
    PROVE  OutermostReserves(h)
<1>. SUFFICES ASSUME NEW j \in DOMAIN h, IsCreate(h[j])
     PROVE  \E m \in DOMAIN h :
                /\ IsCreate(h[m]) /\ h[m].reserved
                /\ \A k \in DOMAIN h : IsCreate(h[k]) => k <= m /\ (h[k].reserved => k = m)
    BY DEF OutermostReserves
<1>1. \A k \in DOMAIN h : IsCreate(h[k]) =>
        k - d \in lo..Len(f) /\ k - d \in DOMAIN f /\ h[k] = f[k - d]
    <2>. SUFFICES ASSUME NEW k \in DOMAIN h, IsCreate(h[k])
         PROVE  k - d \in lo..Len(f) /\ k - d \in DOMAIN f /\ h[k] = f[k - d]
        OBVIOUS
    <2>1. k \in 1..Len(h) /\ ~(k \in 1..(lo + d - 1))
        OBVIOUS
    <2>2. k - d \in lo..Len(f)
        BY <2>1
    <2>. QED BY <2>2
<1>2. j - d \in DOMAIN f /\ IsCreate(f[j - d]) /\ j - d >= lo
    BY <1>1
<1>3. PICK m \in DOMAIN f :
        /\ IsCreate(f[m]) /\ f[m].reserved
        /\ \A k \in DOMAIN f : IsCreate(f[k]) => k <= m /\ (f[k].reserved => k = m)
    BY <1>2 DEF OutermostReserves
<1>4. m >= lo /\ m + d \in DOMAIN h /\ h[m + d] = f[m]
    <2>1. j - d <= m
        BY <1>2, <1>3
    <2>2. m \in lo..Len(f)
        BY <1>2, <2>1
    <2>. QED BY <2>2
<1>5. \A k \in DOMAIN h : IsCreate(h[k]) => k <= m + d /\ (h[k].reserved => k = m + d)
    BY <1>1, <1>3
<1>. QED BY <1>3, <1>4, <1>5

-----------------------------------------------------------------------------
(* What a reference or a stack has been told does not change: the client   *)
(* of a gate, its budget, the original of a copy.                          *)

GatesKept ==
    /\ \A g \in Gates : gateOf[g] # None => gateOf'[g] = gateOf[g] /\ budget'[g] = budget[g]
    /\ Live \subseteq Live'

RootKept(c) == IsCopy(c)' => IsCopy(c) /\ root'[c] = root[c]

\* The gates of a live client are still its own.
LEMMA PathKept ==
    ASSUME PatchedClientAssumption, GatesKept,
           NEW c \in Live, NEW s \in Seq(Gates), PathOf(s, c)
    PROVE  PathOf(s, c)'
BY DEF PathOf, GatesKept, Live, PatchedClientAssumption

\* A gate that was made has the budget it had.
LEMMA SharedKept ==
    ASSUME PatchedClientAssumption, TypesOK, GatesOK, GatesKept,
           NEW c \in Live, RootKept(c), IsCopy(c)',
           NEW g \in Gates, gateOf[g] # None, Shared(g, c)
    PROVE  Shared(g, c)'
<1>1. budget'[g] = budget[g] /\ budget[g] \in Gates /\ gateOf[budget[g]] # None
    BY DEF TypesOK, GatesOK, GatesKept
<1>2. gateOf'[budget[g]] = gateOf[budget[g]]
    BY <1>1 DEF GatesKept
<1>. QED BY <1>1, <1>2 DEF Shared, RootKept

\* The innermost layer a reference to a copy goes through is the same.
LEMMA FirstKept ==
    ASSUME PatchedClientAssumption, TypesOK, GatesOK, GatesKept,
           NEW c \in Live, RootKept(c),
           NEW s \in Seq(Gates), PathOf(s, c), FirstShared(s, c)
    PROVE  FirstShared(s, c)'
<1>. SUFFICES ASSUME IsCopy(c)' PROVE s # <<>> /\ Shared(s[1], c)'
    BY DEF FirstShared
<1>1. s # <<>> /\ Shared(s[1], c)
    BY DEF FirstShared, RootKept
<1>2. s[1] \in Gates /\ gateOf[s[1]] = c /\ c # None
    BY <1>1 DEF PathOf, Live, PatchedClientAssumption
<1>. QED BY <1>1, <1>2, SharedKept

\* Patches and copies leave references and stacks right.
LEMMA Kept ==
    ASSUME PatchedClientAssumption, IInv, GatesKept, \A c \in Live : RootKept(c),
           UNCHANGED <<frames, saved>>
    PROVE  SavedOK' /\ StacksOK'
<1>. USE PatchedClientAssumption DEF IInv
<1>0. Live \subseteq Clients /\ None \notin Live
    BY DEF Live, PatchedClientAssumption
<1>1. ASSUME NEW r \in Refs, RefOK(r) PROVE RefOK(r)'
    <2>1. r.client \in Live /\ r.client \in Live' /\ r.rest \in Seq(Gates)
        BY <1>1 DEF RefOK, Refs, GatesKept
    <2>2. PathOf(r.rest, r.client)'
        BY <1>1, <2>1, PathKept DEF RefOK
    <2>3. r.method = "request" => FirstShared(r.rest, r.client)'
        BY <1>1, <2>1, FirstKept DEF RefOK
    <2>. QED BY <2>1, <2>2, <2>3 DEF RefOK
<1>2. SavedOK'
    BY <1>1 DEF IInv, TypesOK, SavedOK
<1>3. ASSUME NEW f \in Seq(Frames), NEW i \in DOMAIN f, StackOK(f) PROVE FrameOK(f, i)'
    <2>0. FrameOK(f, i) /\ f[i] \in Frames /\ f[i].client \in Live
        BY <1>3 DEF StackOK, FrameOK
    <2>1. f[i].client \in Live'
        BY <2>0 DEF GatesKept
    <2>2. ASSUME f[i].kind = "call"
          PROVE  i = 1 /\ f[i].ref.client = f[i].client /\ RefOK(f[i].ref)' /\ PathOf(f[i].create, f[i].client)'
        <3>1. f[i].ref \in Refs /\ f[i].create \in Seq(Gates)
            BY <2>0, <2>2 DEF Frames, CallFrames, WrapperFrames, WireFrames
        <3>. QED BY <1>1, <2>0, <2>2, <3>1, PathKept DEF FrameOK
    <2>3. ASSUME f[i].kind = "wrapper" PROVE gateOf'[f[i].gate] = f[i].client
        <3>1. f[i].gate \in Gates
            BY <2>0, <2>3 DEF Frames, CallFrames, WrapperFrames, WireFrames
        <3>. QED BY <1>0, <2>0, <2>3, <3>1 DEF FrameOK, GatesKept
    <2>4. ASSUME Held(f, i) PROVE Held(f, i)'
        <3>1. PICK j \in DOMAIN f :
                /\ j > i /\ f[j].kind = "wrapper" /\ f[j].client = f[i].client
                /\ IsCopy(f[i].client) => Shared(f[j].gate, f[i].client)
            BY <2>4 DEF Held
        <3>2. FrameOK(f, j) /\ f[j] \in Frames
            BY <1>3 DEF StackOK
        <3>3. f[j].gate \in Gates /\ gateOf[f[j].gate] = f[i].client /\ f[i].client # None
            BY <1>0, <2>0, <3>1, <3>2 DEF FrameOK, Frames, CallFrames, WrapperFrames, WireFrames
        <3>4. IsCopy(f[i].client)' => Shared(f[j].gate, f[i].client)'
            BY <2>0, <3>1, <3>3, SharedKept DEF RootKept
        <3>. QED BY <3>1, <3>4 DEF Held
    <2>. QED BY <2>0, <2>1, <2>2, <2>3, <2>4 DEF FrameOK
<1>4. StacksOK'
    <2>. SUFFICES ASSUME NEW t \in Tasks PROVE StackOK(frames[t])' /\ OutermostReserves(frames[t])'
        BY DEF StacksOK
    <2>1. frames[t] \in Seq(Frames) /\ StackOK(frames[t]) /\ OutermostReserves(frames[t])
        BY DEF IInv, TypesOK, StacksOK
    <2>2. \A i \in DOMAIN frames[t] : FrameOK(frames[t], i)'
        BY <1>3, <2>1
    <2>3. StackOK(frames[t])'
        BY <2>2 DEF StackOK
    <2>4. OutermostReserves(frames[t])'
        BY <2>1 DEF OutermostReserves, IsCreate
    <2>. QED BY <2>3, <2>4
<1>. QED BY <1>2, <1>4

-----------------------------------------------------------------------------
(* Patches and copies. *)

\* The initial state: one client, no gate, nothing on the stacks.
LEMMA InitIInv == ASSUME PatchedClientAssumption PROVE Init => IInv
<1>. SUFFICES ASSUME Init PROVE IInv
    OBVIOUS
<1>. USE PatchedClientAssumption DEF PatchedClientAssumption, Init
<1>1. TypesOK
    BY DEF TypesOK, Gates
<1>2. GatesOK
    BY DEF GatesOK, PathOf, Live
<1>3. FamilyOK
    BY DEF FamilyOK, FirstShared, IsCopy
<1>4. SavedOK /\ StacksOK
    BY DEF SavedOK, StacksOK, StackOK, OutermostReserves
<1>. QED BY <1>1, <1>2, <1>3, <1>4 DEF IInv

\* A gate put on a client that is or becomes live, with its own budget or that
\* of a gate that was made.
LEMMA LayeredGates ==
    ASSUME PatchedClientAssumption, TypesOK, GatesOK,
           NEW c \in Clients, NEW g \in Gates, NEW b \in Gates,
           gateOf[g] = None, b = g \/ gateOf[b] # None,
           Layered(c, g, b, layers),
           Live \subseteq Live', c \in Live'
    PROVE  /\ layers' \in [Clients -> Seq(Gates)]
           /\ before' \in [Gates -> Seq(Gates)]
           /\ gateOf' \in [Gates -> Clients \cup {None}]
           /\ budget' \in [Gates -> Gates \cup {None}]
           /\ layers'[c] = Append(layers[c], g)
           /\ \A x \in Clients \ {c} : layers'[x] = layers[x]
           /\ layers'[c] # <<>>
           /\ layers'[c][1] = IF layers[c] = <<>> THEN g ELSE layers[c][1]
           /\ gateOf'[g] = c /\ budget'[g] = b
           /\ gateOf'[b] # None
           /\ GatesKept /\ GatesOK'
<1>. USE PatchedClientAssumption DEF PatchedClientAssumption, TypesOK
<1>0. None \notin Gates
    BY DEF Gates
<1>1. /\ layers' = [layers EXCEPT ![c] = Append(layers[c], g)]
      /\ before' = [before EXCEPT ![g] = layers[c]]
      /\ gateOf' = [gateOf EXCEPT ![g] = c]
      /\ budget' = [budget EXCEPT ![g] = b]
    BY DEF Layered, Wrapped
<1>2. Append(layers[c], g) \in Seq(Gates) /\ layers[c] \in Seq(Gates)
    OBVIOUS
<1>3. GatesKept
    BY <1>1 DEF GatesKept
<1>4. /\ layers' \in [Clients -> Seq(Gates)]
      /\ before' \in [Gates -> Seq(Gates)]
      /\ gateOf' \in [Gates -> Clients \cup {None}]
      /\ budget' \in [Gates -> Gates \cup {None}]
      /\ layers'[c] = Append(layers[c], g)
      /\ \A x \in Clients \ {c} : layers'[x] = layers[x]
      /\ gateOf'[g] = c /\ budget'[g] = b /\ before'[g] = layers[c]
      /\ \A h \in Gates \ {g} : gateOf'[h] = gateOf[h] /\ budget'[h] = budget[h] /\ before'[h] = before[h]
    BY <1>1, <1>2
<1>. DEFINE s == layers[c]  l == layers'[c]
<1>a. /\ DOMAIN l = 1..(Len(s) + 1) /\ DOMAIN s = 1..Len(s)
      /\ l[Len(s) + 1] = g
      /\ \A k \in 1..Len(s) : l[k] = s[k]
    BY <1>2, <1>4, Appended
<1>5. gateOf'[b] # None
    BY <1>4
<1>6. \A p \in Seq(Gates), x \in Clients : PathOf(p, x) => PathOf(p, x)'
    BY <1>4 DEF PathOf
<1>8. \A x \in Clients : PathOf(layers[x], x)'
    <2>. SUFFICES ASSUME NEW x \in Clients, NEW i \in DOMAIN layers'[x]
         PROVE  gateOf'[layers'[x][i]] = x
        BY DEF PathOf
    <2>1. CASE x # c
        BY <1>4, <2>1 DEF GatesOK, PathOf
    <2>2. CASE x = c
        <3>1. CASE i = Len(layers[c]) + 1
            BY <1>4, <1>a, <2>2, <3>1
        <3>2. CASE i # Len(layers[c]) + 1
            <4>1. i \in DOMAIN layers[c] /\ layers'[x][i] = layers[c][i]
                BY <1>2, <1>a, <2>2, <3>2
            <4>2. gateOf[layers[c][i]] = c /\ layers[c][i] \in Gates
                BY <1>2, <4>1 DEF GatesOK, PathOf
            <4>. QED BY <1>4, <2>2, <4>1, <4>2
        <3>. QED BY <3>1, <3>2
    <2>. QED BY <2>1, <2>2
<1>9. ASSUME NEW h \in Gates
      PROVE  /\ gateOf'[h] = None <=> budget'[h] = None
             /\ gateOf'[h] \in Live' \cup {None}
             /\ gateOf'[h] # None => PathOf(before[h], gateOf[h])'
             /\ budget'[h] # None => gateOf'[budget'[h]] # None
    <2>1. CASE h = g
        <3>1. \A i \in DOMAIN layers[c] : gateOf'[layers[c][i]] = c
            BY <1>2, <1>4 DEF GatesOK, PathOf
        <3>2. PathOf(before[h], gateOf[h])'
            BY <1>4, <2>1, <3>1 DEF PathOf
        <3>. QED BY <1>0, <1>4, <1>5, <2>1, <3>2
    <2>2. CASE h # g
        <3>1. gateOf'[h] # None => PathOf(before[h], gateOf[h])'
            <4>. SUFFICES ASSUME gateOf'[h] # None, NEW i \in DOMAIN before'[h]
                 PROVE  gateOf'[before'[h][i]] = gateOf'[h]
                BY DEF PathOf
            <4>1. before'[h] = before[h] /\ gateOf'[h] = gateOf[h] /\ before[h] \in Seq(Gates)
                BY <1>4, <2>2
            <4>2. before[h][i] \in Gates /\ gateOf[before[h][i]] = gateOf[h]
                BY <4>1 DEF GatesOK, PathOf
            <4>. QED BY <1>4, <4>1, <4>2
        <3>2. budget'[h] # None => gateOf'[budget'[h]] # None
            BY <1>4, <2>2 DEF GatesOK
        <3>. QED BY <1>4, <2>2, <3>1, <3>2 DEF GatesOK
    <2>. QED BY <2>1, <2>2
<1>10. GatesOK'
    BY <1>8, <1>9 DEF GatesOK
<1>11. l # <<>> /\ l[1] = IF s = <<>> THEN g ELSE s[1]
    <2>1. l # <<>>
        <3>. HIDE DEF l
        <3>1. Len(s) \in Nat
            BY <1>2
        <3>2. 1 \in DOMAIN l
            BY <1>a, <3>1
        <3>. QED BY <3>2
    <2>2. CASE s = <<>>
        BY <1>a, <2>2
    <2>3. CASE s # <<>>
        <3>1. 1 \in 1..Len(s)
            BY <1>2, <2>3
        <3>. QED BY <1>a, <2>3, <3>1
    <2>. QED BY <2>1, <2>2, <2>3
<1>. QED BY <1>3, <1>4, <1>5, <1>10, <1>11

\* The innermost layer of a copy that has one stays where it is.
LEMMA InnermostStays ==
    ASSUME PatchedClientAssumption, TypesOK, GatesOK, FamilyOK, GatesKept,
           NEW x \in Clients, RootKept(x),
           layers[x] # <<>> => layers'[x] # <<>> /\ layers'[x][1] = layers[x][1]
    PROVE  FirstShared(layers[x], x)'
<1>. SUFFICES ASSUME IsCopy(x)' PROVE layers'[x] # <<>> /\ Shared(layers[x][1], x)'
    BY DEF FirstShared
<1>1. IsCopy(x) /\ x \in Live
    BY DEF RootKept, IsCopy, FamilyOK
<1>2. layers[x] \in Seq(Gates) /\ layers[x] # <<>> /\ PathOf(layers[x], x)
      /\ Shared(layers[x][1], x)
    BY <1>1 DEF TypesOK, FamilyOK, GatesOK, FirstShared
<1>3. PICK h \in Gates : h = layers[x][1] /\ gateOf[h] # None /\ Shared(h, x)
    BY <1>2 DEF PathOf, PatchedClientAssumption
<1>4. Shared(h, x)'
    BY <1>1, <1>3, SharedKept
<1>. QED BY <1>2, <1>3, <1>4 DEF Shared

\* patch_openai: a copy keeps the layer it was made with.
LEMMA PatchIInv ==
    ASSUME PatchedClientAssumption, IInv, NEW c \in Clients, NEW g \in Gates, Patch(c, g)
    PROVE  IInv'
<1>. USE PatchedClientAssumption DEF IInv
<1>1. c \in Live /\ gateOf[g] = None /\ Layered(c, g, g, layers)
      /\ UNCHANGED <<inherited, latest, root, saved, frames>>
    BY DEF Patch, New
<1>2. Live' = Live
    BY <1>1 DEF Live
<1>3. /\ layers' \in [Clients -> Seq(Gates)]
      /\ layers'[c] = Append(layers[c], g)
      /\ \A x \in Clients \ {c} : layers'[x] = layers[x]
      /\ GatesKept /\ GatesOK' /\ TypesOK'
    BY <1>1, <1>2, LayeredGates DEF TypesOK
<1>4. \A x \in Live : RootKept(x)
    BY <1>1 DEF RootKept, IsCopy
<1>5. SavedOK' /\ StacksOK'
    BY <1>1, <1>3, <1>4, Kept
<1>6. \A x \in Clients : FirstShared(layers[x], x)'
    <2>1. \A x \in Clients : RootKept(x)
        BY <1>1 DEF RootKept, IsCopy
    <2>. QED BY <1>3, <2>1, InnermostStays
<1>7. FamilyOK'
    BY <1>1, <1>2, <1>3, <1>6 DEF FamilyOK, GatesKept, TypesOK
<1>. QED BY <1>3, <1>5, <1>7

\* monitor: the client is its own original, unless it is a copy.
LEMMA MonitorIInv ==
    ASSUME PatchedClientAssumption, IInv, NEW c \in Clients, NEW g \in Gates, Monitor(c, g)
    PROVE  IInv'
<1>. USE PatchedClientAssumption DEF IInv
<1>1. /\ c \in Live /\ gateOf[g] = None /\ Layered(c, g, g, layers)
      /\ latest' = [latest EXCEPT ![c] = g]
      /\ root' = [root EXCEPT ![c] = IF root[c] = None THEN c ELSE root[c]]
      /\ UNCHANGED <<inherited, saved, frames>>
    BY DEF Monitor, New
<1>2. Live' = Live
    BY <1>1 DEF Live
<1>3. /\ latest' \in [Clients -> Gates \cup {None}]
      /\ root' \in [Clients -> Clients \cup {None}]
      /\ latest'[c] = g
      /\ root[c] = None => root'[c] = c
      /\ root[c] # None => root'[c] = root[c]
      /\ \A x \in Clients \ {c} : latest'[x] = latest[x] /\ root'[x] = root[x]
    BY <1>1 DEF TypesOK
<1>4. /\ layers' \in [Clients -> Seq(Gates)]
      /\ layers[c] # <<>> => layers'[c][1] = layers[c][1]
      /\ layers'[c] # <<>>
      /\ \A x \in Clients \ {c} : layers'[x] = layers[x]
      /\ gateOf'[g] = c
      /\ GatesKept /\ GatesOK' /\ TypesOK'
    BY <1>1, <1>2, <1>3, LayeredGates DEF TypesOK
<1>5. \A x \in Clients : RootKept(x)
    BY <1>3 DEF RootKept, IsCopy
<1>6. SavedOK' /\ StacksOK'
    BY <1>1, <1>4, <1>5, Kept DEF Live
<1>7. \A x \in Clients : FirstShared(layers[x], x)'
    BY <1>4, <1>5, InnermostStays
<1>8. None \notin Clients /\ None \notin Gates
    BY DEF PatchedClientAssumption, Gates
<1>9. ASSUME NEW x \in Clients, root'[x] # None
      PROVE  x \in Live' /\ root'[x] \in Live' /\ root'[root'[x]] = root'[x] /\ latest'[x] # None
    BY <1>1, <1>2, <1>3, <1>8, <1>9 DEF FamilyOK, Live
<1>10. ASSUME NEW x \in Clients, root'[x] = x PROVE gateOf'[latest'[x]] = x
    <2>1. CASE x = c
        BY <1>3, <1>4, <2>1
    <2>2. CASE x # c
        <3>1. root[x] = x /\ latest[x] \in Gates /\ gateOf[latest[x]] = x
            BY <1>3, <1>8, <1>10, <2>2 DEF FamilyOK, TypesOK
        <3>. QED BY <1>3, <1>4, <1>8, <2>2, <3>1 DEF GatesKept
    <2>. QED BY <2>1, <2>2
<1>11. FamilyOK'
    BY <1>7, <1>9, <1>10 DEF FamilyOK
<1>. QED BY <1>4, <1>6, <1>11

\* undo: it is refused a monitored client, and a copy of one is monitored.
LEMMA UndoIInv ==
    ASSUME PatchedClientAssumption, IInv, NEW g \in Gates, Undo(g)
    PROVE  IInv'
<1>. USE PatchedClientAssumption DEF IInv
<1>. DEFINE c == gateOf[g]
<1>1. /\ c \in Clients /\ c # None /\ latest[c] = None
      /\ layers' = [layers EXCEPT ![c] = before[g]]
      /\ UNCHANGED <<inherited, before, gateOf, budget, latest, root, saved, frames>>
    BY DEF Undo, TypesOK
<1>2. Live' = Live /\ GatesKept
    BY <1>1 DEF Live, GatesKept
<1>3. before[g] \in Seq(Gates) /\ PathOf(before[g], c)
    BY <1>1 DEF TypesOK, GatesOK
<1>4. TypesOK'
    BY <1>1, <1>3 DEF TypesOK
<1>5. \A x \in Clients : RootKept(x)
    BY <1>1 DEF RootKept, IsCopy
<1>6. SavedOK' /\ StacksOK'
    BY <1>1, <1>2, <1>5, Kept DEF Live
<1>7. \A x \in Clients : PathOf(layers[x], x)'
    BY <1>1, <1>3 DEF GatesOK, PathOf, TypesOK
<1>8. GatesOK'
    <2>1. \A h \in Gates : gateOf[h] # None => PathOf(before[h], gateOf[h])'
        BY <1>1 DEF GatesOK, PathOf
    <2>. QED BY <1>1, <1>2, <1>7, <2>1 DEF GatesOK
<1>9. ASSUME NEW x \in Clients PROVE FirstShared(layers[x], x)'
    <2>1. CASE x = c
        BY <1>1, <2>1 DEF FamilyOK, FirstShared, IsCopy
    <2>2. CASE x # c
        BY <1>1, <1>2, <1>5, <2>2, InnermostStays DEF TypesOK
    <2>. QED BY <2>1, <2>2
<1>10. FamilyOK'
    BY <1>1, <1>2, <1>9 DEF FamilyOK
<1>. QED BY <1>4, <1>6, <1>8, <1>10

\* The view of a client is a gate, or none of two kinds.
LEMMA ViewType ==
    ASSUME PatchedClientAssumption, TypesOK, NEW c \in Clients
    PROVE  View(c) \in Gates \cup {None, 0}
<1>1. CASE layers[c] = <<>>
    BY <1>1 DEF View, TypesOK
<1>2. CASE layers[c] # <<>>
    <2>1. layers[c] \in Seq(Gates) /\ Len(layers[c]) \in DOMAIN layers[c]
        BY <1>2 DEF TypesOK
    <2>. QED BY <1>2, <2>1 DEF View
<1>. QED BY <1>1, <1>2

\* A copy is live, and nothing referred to it before.
LEMMA SharesLive ==
    ASSUME PatchedClientAssumption, IInv,
           NEW c \in Clients, NEW d \in Clients, d \notin Live, Shares(c, d)
    PROVE  /\ inherited' \in [Clients -> Gates \cup {None, 0}]
           /\ Live' = Live \cup {d}
           /\ layers[d] = <<>> /\ root[d] = None
           /\ \A x \in Clients : root[x] # d
<1>. USE PatchedClientAssumption DEF IInv
<1>1. View(c) \in Gates \cup {None, 0}
    BY ViewType
<1>2. inherited'[d] # None /\ inherited' \in [Clients -> Gates \cup {None, 0}]
      /\ \A x \in Clients \ {d} : inherited'[x] = inherited[x]
    BY <1>1 DEF Shares, TypesOK, PatchedClientAssumption
<1>3. Live' = Live \cup {d}
    BY <1>2 DEF Live
<1>4. root[d] = None /\ \A x \in Clients : root[x] # d
    BY DEF FamilyOK, PatchedClientAssumption
<1>5. layers[d] = <<>>
    <2>. SUFFICES ASSUME layers[d] # <<>> PROVE FALSE
        OBVIOUS
    <2>1. layers[d] \in Seq(Gates) /\ 1 \in DOMAIN layers[d]
        BY DEF TypesOK
    <2>2. layers[d][1] \in Gates /\ gateOf[layers[d][1]] = d
        BY <2>1 DEF GatesOK, PathOf
    <2>. QED BY <2>2 DEF GatesOK, PatchedClientAssumption
<1>. QED BY <1>2, <1>3, <1>4, <1>5

\* with_options of a monitored client: the copy has the budget of the original.
LEMMA CopyIInv ==
    ASSUME PatchedClientAssumption, IInv,
           NEW c \in Clients, NEW d \in Clients, NEW g \in Gates, Copy(c, d, g)
    PROVE  IInv'
<1>. USE PatchedClientAssumption DEF IInv
<1>. DEFINE r == root[c]  b == latest[r]
<1>1. /\ c \in Live /\ d \notin Live /\ r # None /\ gateOf[g] = None
      /\ Shares(c, d) /\ Layered(d, g, b, layers)
      /\ latest' = [latest EXCEPT ![d] = b]
      /\ root' = [root EXCEPT ![d] = r]
      /\ UNCHANGED <<saved, frames>>
    BY DEF Copy, New
<1>2. /\ inherited' \in [Clients -> Gates \cup {None, 0}]
      /\ Live' = Live \cup {d}
      /\ layers[d] = <<>> /\ root[d] = None
      /\ \A x \in Clients : root[x] # d
    BY <1>1, SharesLive
<1>3. /\ r \in Live /\ r \in Clients /\ r # d /\ root[r] = r
      /\ b \in Gates /\ gateOf[b] = r /\ b # None /\ r # None
    BY <1>1 DEF FamilyOK, TypesOK, Live, PatchedClientAssumption
<1>. HIDE DEF b, r
<1>4. /\ latest' \in [Clients -> Gates \cup {None}]
      /\ root' \in [Clients -> Clients \cup {None}]
      /\ latest'[d] = b /\ root'[d] = r
      /\ \A x \in Clients \ {d} : latest'[x] = latest[x] /\ root'[x] = root[x]
    BY <1>1, <1>3 DEF TypesOK
<1>5. /\ layers' \in [Clients -> Seq(Gates)]
      /\ layers'[d] # <<>> /\ layers'[d][1] = g
      /\ \A x \in Clients \ {d} : layers'[x] = layers[x]
      /\ gateOf'[g] = d /\ budget'[g] = b
      /\ GatesKept /\ GatesOK'
      /\ before' \in [Gates -> Seq(Gates)]
      /\ gateOf' \in [Gates -> Clients \cup {None}]
      /\ budget' \in [Gates -> Gates \cup {None}]
    BY <1>1, <1>2, <1>3, LayeredGates
<1>6. TypesOK'
    BY <1>1, <1>2, <1>4, <1>5 DEF TypesOK
<1>7. \A x \in Clients \ {d} : RootKept(x)
    BY <1>4 DEF RootKept, IsCopy
<1>8. SavedOK' /\ StacksOK'
    BY <1>1, <1>5, <1>7, Kept DEF Live
<1>9. ASSUME NEW x \in Clients PROVE FirstShared(layers[x], x)'
    <2>1. CASE x = d
        <3>1. gateOf'[b] = r
            BY <1>3, <1>5 DEF GatesKept
        <3>. QED BY <1>4, <1>5, <2>1, <3>1 DEF FirstShared, Shared
    <2>2. CASE x # d
        BY <1>5, <1>7, <2>2, InnermostStays
    <2>. QED BY <2>1, <2>2
<1>10. ASSUME NEW x \in Clients, root'[x] # None
       PROVE  x \in Live' /\ root'[x] \in Live' /\ root'[root'[x]] = root'[x] /\ latest'[x] # None
    <2>1. CASE x = d
        BY <1>2, <1>3, <1>4, <2>1
    <2>2. CASE x # d
        <3>1. root[x] # None /\ root'[x] = root[x] /\ root[x] # d /\ latest'[x] = latest[x]
            BY <1>2, <1>4, <1>10, <2>2
        <3>2. x \in Live /\ root[x] \in Live /\ root[root[x]] = root[x] /\ latest[x] # None
            BY <3>1 DEF FamilyOK
        <3>. QED BY <1>2, <1>4, <3>1, <3>2 DEF Live
    <2>. QED BY <2>1, <2>2
<1>11. ASSUME NEW x \in Clients, root'[x] = x PROVE gateOf'[latest'[x]] = x
    <2>1. x # d /\ root[x] = x /\ latest'[x] = latest[x]
        BY <1>3, <1>4, <1>11
    <2>2. latest[x] \in Gates /\ gateOf[latest[x]] = x /\ x # None
        BY <2>1 DEF FamilyOK, TypesOK, PatchedClientAssumption
    <2>. QED BY <1>5, <2>1, <2>2 DEF GatesKept
<1>12. FamilyOK'
    BY <1>9, <1>10, <1>11 DEF FamilyOK
<1>. QED BY <1>5, <1>6, <1>8, <1>12

\* with_options of a client that is not monitored.
LEMMA CopyBareIInv ==
    ASSUME PatchedClientAssumption, IInv,
           NEW c \in Clients, NEW d \in Clients, CopyBare(c, d)
    PROVE  IInv'
<1>. USE PatchedClientAssumption DEF IInv
<1>1. /\ d \notin Live /\ Shares(c, d)
      /\ UNCHANGED <<layers, before, gateOf, budget, latest, root, saved, frames>>
    BY DEF CopyBare
<1>2. /\ inherited' \in [Clients -> Gates \cup {None, 0}]
      /\ Live' = Live \cup {d}
    BY <1>1, SharesLive
<1>3. TypesOK'
    BY <1>1, <1>2 DEF TypesOK
<1>4. GatesKept /\ \A x \in Live : RootKept(x)
    BY <1>1, <1>2 DEF GatesKept, RootKept, IsCopy
<1>5. SavedOK' /\ StacksOK'
    BY <1>1, <1>4, Kept
<1>6. GatesOK'
    BY <1>1, <1>2 DEF GatesOK, PathOf
<1>7. FamilyOK'
    BY <1>1, <1>2 DEF FamilyOK, FirstShared, Shared, IsCopy
<1>. QED BY <1>3, <1>5, <1>6, <1>7

-----------------------------------------------------------------------------
(* Calls. *)

\* The stacks are right as long as the clients are as they are.
LEMMA SameClients ==
    ASSUME UNCHANGED clientVars, NEW f \in Seq(Frames), StackOK(f), OutermostReserves(f)
    PROVE  StackOK(f)' /\ OutermostReserves(f)'
<1>1. Live' = Live
    BY DEF Live, clientVars
<1>. QED BY <1>1 DEF StackOK, FrameOK, RefOK, PathOf, Held, Shared, IsCopy, FirstShared,
        OutermostReserves, IsCreate, clientVars

\* A step that changes one stack only.
LEMMA OneStack ==
    ASSUME IInv, UNCHANGED <<clientVars, saved>>,
           NEW t \in Tasks, NEW h \in Seq(Frames),
           frames' = [frames EXCEPT ![t] = h],
           StackOK(h), OutermostReserves(h)
    PROVE  IInv'
<1>. USE DEF IInv, clientVars
<1>1. TypesOK'
    BY DEF TypesOK
<1>2. Live' = Live
    BY DEF Live
<1>3. GatesOK' /\ FamilyOK' /\ SavedOK'
    BY <1>2 DEF GatesOK, FamilyOK, SavedOK, RefOK, PathOf, FirstShared, Shared, IsCopy
<1>5. ASSUME NEW u \in Tasks PROVE StackOK(frames[u])' /\ OutermostReserves(frames[u])'
    <2>1. PICK f \in Seq(Frames) : f = frames'[u] /\ StackOK(f) /\ OutermostReserves(f)
        BY DEF TypesOK, StacksOK
    <2>2. StackOK(f)' /\ OutermostReserves(f)'
        BY <2>1, SameClients
    <2>. QED BY <2>1, <2>2 DEF StackOK, OutermostReserves
<1>6. StacksOK'
    BY <1>5 DEF StacksOK
<1>. QED BY <1>1, <1>3, <1>6

\* What a client has now is a reference to it.
LEMMA ReadsOK ==
    ASSUME PatchedClientAssumption, IInv, NEW c \in Live, NEW m \in Methods
    PROVE  Reads(c, m) \in Refs /\ RefOK(Reads(c, m))
<1>. USE PatchedClientAssumption DEF IInv, PatchedClientAssumption
<1>1. c \in Clients /\ m \in AnyMethod /\ layers[c] \in Seq(Gates)
      /\ PathOf(layers[c], c) /\ FirstShared(layers[c], c)
    BY DEF Live, AnyMethod, TypesOK, GatesOK, FamilyOK
<1>2. PathOf(<<>>, c)
    BY DEF PathOf
<1>. QED BY <1>1, <1>2 DEF Reads, Refs, RefOK

\* A reference is stored.
LEMMA SaveIInv ==
    ASSUME PatchedClientAssumption, IInv, NEW c \in Clients, NEW m \in Methods, Save(c, m)
    PROVE  IInv'
<1>1. /\ c \in Live /\ saved' = Reads(c, m)
      /\ UNCHANGED <<clientVars, frames>>
    BY DEF Save
<1>2. Live' = Live
    BY <1>1 DEF Live, clientVars
<1>3. PICK r \in Refs : r = Reads(c, m) /\ RefOK(r)
    BY <1>1, ReadsOK
<1>4. TypesOK'
    BY <1>1, <1>3 DEF IInv, TypesOK, clientVars
<1>5. RefOK(r)'
    BY <1>1, <1>2, <1>3 DEF RefOK, PathOf, FirstShared, Shared, IsCopy, clientVars
<1>6. SavedOK'
    BY <1>1, <1>3, <1>5 DEF SavedOK, RefOK, PathOf
<1>7. GatesOK' /\ FamilyOK'
    BY <1>1, <1>2 DEF IInv, GatesOK, FamilyOK, PathOf, FirstShared, Shared, IsCopy, clientVars
<1>8. ASSUME NEW u \in Tasks PROVE StackOK(frames[u])' /\ OutermostReserves(frames[u])'
    <2>1. PICK f \in Seq(Frames) : f = frames[u] /\ StackOK(f) /\ OutermostReserves(f)
        BY DEF IInv, TypesOK, StacksOK
    <2>2. StackOK(f)' /\ OutermostReserves(f)'
        BY <1>1, <2>1, SameClients
    <2>. QED BY <1>1, <2>1, <2>2 DEF StackOK, OutermostReserves
<1>9. StacksOK'
    BY <1>8 DEF StacksOK
<1>. QED BY <1>4, <1>6, <1>7, <1>9 DEF IInv

\* The first frame of a stack that goes on is a request, or it is the only call.
LEMMA OneCallOnTop ==
    ASSUME NEW f \in Seq(Frames), StackOK(f)
    PROVE  \A k \in 2..Len(f) : f[k].kind # "call"
BY DEF StackOK, FrameOK

\* A reference is called, from outside or in a transport.
LEMMA BeginIInv ==
    ASSUME PatchedClientAssumption, IInv, NEW t \in Tasks,
           NEW r \in Refs, RefOK(r), Begin(t, r)
    PROVE  IInv'
<1>. USE PatchedClientAssumption DEF IInv
<1>. DEFINE f == frames[t]
            create == IF r.method = "stream" THEN layers[r.client] ELSE <<>>
            h == <<Call(r, create)>> \o f
<1>1. /\ f # <<>> => Head(f).kind = "wire"
      /\ frames' = [frames EXCEPT ![t] = h]
      /\ UNCHANGED <<clientVars, saved>>
    BY DEF Begin
<1>2. f \in Seq(Frames) /\ StackOK(f) /\ OutermostReserves(f)
    BY DEF TypesOK, StacksOK
<1>3. create \in Seq(Gates) /\ PathOf(create, r.client) /\ r.client \in Live /\ r.client \in Clients
    BY DEF RefOK, Refs, TypesOK, GatesOK, PathOf
<1>4. Call(r, create) \in Frames
    BY <1>3 DEF Call, Frames, CallFrames
<1>5. /\ h \in Seq(Frames) /\ Len(h) = Len(f) + 1
      /\ h[1] = Call(r, create)
      /\ \A k \in 1..Len(f) : h[k + 1] = f[k]
    BY <1>2, <1>4, Pushed
<1>. HIDE DEF h, create
<1>6. \A k \in 1..Len(f) : f[k].kind # "call"
    BY <1>1, <1>2, OneCallOnTop
<1>7. \A k \in (1 + 1)..Len(h) : FrameOK(h, k)
    <2>1. 1 \in Int /\ 1 \in Nat \ {0} /\ 1 + 1 >= 1
        OBVIOUS
    <2>. QED BY <1>2, <1>5, <1>6, <2>1, Shifted
<1>8. FrameOK(h, 1)
    BY <1>3, <1>5 DEF FrameOK, Call
<1>9. StackOK(h)
    BY <1>5, <1>7, <1>8 DEF StackOK
<1>10. ~IsCreate(h[1])
    BY <1>5 DEF IsCreate, Call
<1>11. OutermostReserves(h)
    <2>1. \A k \in 1..(1 + 1 - 1) : k \in DOMAIN h => ~IsCreate(h[k])
        BY <1>10
    <2>2. 1 \in Int /\ 1 \in Nat \ {0} /\ 1 + 1 >= 1
        OBVIOUS
    <2>. QED BY <1>2, <1>5, <2>1, <2>2, StillReserved
<1>. QED BY <1>1, <1>5, <1>9, <1>11, OneStack

\* The frame on top is replaced by one that is not a create wrapper.
LEMMA ReplaceIInv ==
    ASSUME PatchedClientAssumption, IInv, UNCHANGED <<clientVars, saved>>,
           NEW t \in Tasks, frames[t] # <<>>,
           NEW x \in Frames, x.kind # "wrapper",
           NEW h, h = <<x>> \o Tail(frames[t]), frames' = [frames EXCEPT ![t] = h],
           FrameOK(h, 1)
    PROVE  IInv'
<1>1. PICK f \in Seq(Frames) : f = frames[t] /\ f # <<>> /\ StackOK(f) /\ OutermostReserves(f)
    BY DEF IInv, TypesOK, StacksOK
<1>2. /\ h \in Seq(Frames) /\ Len(h) = Len(f) + 0
      /\ h[1] = x
      /\ \A k \in 2..Len(f) : h[k] = f[k]
    BY <1>1, Replaced
<1>a. \A k \in 2..Len(f) : h[k + 0] = f[k]
    BY <1>1, <1>2
<1>b. 0 \in Int /\ 2 \in Nat \ {0} /\ 2 + 0 >= 1
    OBVIOUS
<1>3. \A k \in (2 + 0)..Len(h) : FrameOK(h, k)
    <2>1. \A k \in 2..Len(f) : f[k].kind # "call"
        BY <1>1, OneCallOnTop
    <2>. QED BY <1>1, <1>2, <1>a, <1>b, <2>1, Shifted
<1>4. StackOK(h)
    BY <1>1, <1>2, <1>3 DEF StackOK
<1>5. OutermostReserves(h)
    <2>. SUFFICES ASSUME NEW j \in DOMAIN h, IsCreate(h[j])
         PROVE  \E m \in DOMAIN h :
                    /\ IsCreate(h[m]) /\ h[m].reserved
                    /\ \A k \in DOMAIN h : IsCreate(h[k]) => k <= m /\ (h[k].reserved => k = m)
        BY DEF OutermostReserves
    <2>1. \A k \in DOMAIN h : IsCreate(h[k]) => k \in 2..Len(f) /\ k \in DOMAIN f /\ h[k] = f[k]
        BY <1>1, <1>2 DEF IsCreate
    <2>2. PICK m \in DOMAIN f :
            /\ IsCreate(f[m]) /\ f[m].reserved
            /\ \A k \in DOMAIN f : IsCreate(f[k]) => k <= m /\ (f[k].reserved => k = m)
        BY <1>1, <2>1 DEF OutermostReserves
    <2>3. j <= m
        BY <2>1, <2>2
    <2>4. Len(f) \in Nat /\ m \in 1..Len(f) /\ j \in 2..Len(f)
        BY <1>1, <2>1
    <2>5. m \in 2..Len(f)
        BY <2>3, <2>4
    <2>6. DOMAIN h = 1..Len(f)
        BY <1>1, <1>2
    <2>7. m \in DOMAIN h /\ h[m] = f[m]
        BY <1>2, <2>5, <2>6, <2>4
    <2>. QED BY <2>1, <2>2, <2>7
<1>. QED BY <1>2, <1>4, <1>5, OneStack

\* The call on top of a stack.
LEMMA CallOnTop ==
    ASSUME IInv, NEW t \in Tasks, Calling(t)
    PROVE  /\ frames[t] \in Seq(Frames) /\ frames[t] # <<>>
           /\ Head(frames[t]) = frames[t][1] /\ 1 \in DOMAIN frames[t]
           /\ Head(frames[t]) \in CallFrames
           /\ Ref(t) = Head(frames[t]).ref /\ Ref(t) \in Refs /\ RefOK(Ref(t))
           /\ Head(frames[t]).create \in Seq(Gates)
           /\ PathOf(Head(frames[t]).create, Ref(t).client)
<1>1. /\ frames[t] \in Seq(Frames) /\ frames[t] # <<>>
      /\ Head(frames[t]) = frames[t][1] /\ 1 \in DOMAIN frames[t]
      /\ Head(frames[t]).kind = "call"
    BY DEF IInv, TypesOK, Calling
<1>2. Head(frames[t]) \in Frames
    BY <1>1
<1>3. Head(frames[t]) \in CallFrames
    BY <1>1, <1>2 DEF Frames, CallFrames, WrapperFrames, WireFrames
<1>4. FrameOK(frames[t], 1)
    BY <1>1 DEF IInv, StacksOK, StackOK
<1>. QED BY <1>1, <1>3, <1>4 DEF FrameOK, Ref, CallFrames

\* One layer less is still a path of the client.
LEMMA DeeperOK ==
    ASSUME NEW r \in Refs, RefOK(r), r.rest # <<>>, r.method \in {"create", "stream"}
    PROVE  /\ Deeper(r) \in Refs /\ RefOK(Deeper(r))
           /\ Deeper(r).client = r.client
           /\ Next_(r) \in Gates /\ gateOf[Next_(r)] = r.client
<1>1. r.rest \in Seq(Gates) /\ Len(r.rest) \in DOMAIN r.rest
    BY DEF Refs
<1>2. SubSeq(r.rest, 1, Len(r.rest) - 1) \in Seq(Gates)
      /\ PathOf(SubSeq(r.rest, 1, Len(r.rest) - 1), r.client)
    BY <1>1 DEF RefOK, PathOf
<1>3. /\ Deeper(r) \in Refs
      /\ Deeper(r).method = r.method /\ Deeper(r).client = r.client
      /\ Deeper(r).rest = SubSeq(r.rest, 1, Len(r.rest) - 1)
    BY <1>2 DEF Deeper, Refs
<1>4. RefOK(Deeper(r))
    BY <1>2, <1>3 DEF RefOK
<1>5. Next_(r) \in Gates /\ gateOf[Next_(r)] = r.client
    BY <1>1 DEF Next_, RefOK, PathOf
<1>. QED BY <1>3, <1>4, <1>5

\* A call is in the place of a call.
LEMMA CallReplaces ==
    ASSUME PatchedClientAssumption, IInv, NEW t \in Tasks, Calling(t),
           UNCHANGED <<clientVars, saved>>,
           NEW r \in Refs, RefOK(r),
           frames' = [frames EXCEPT ![t] = <<Call(r, <<>>)>> \o Tail(@)]
    PROVE  IInv'
<1>. DEFINE x == Call(r, <<>>)
<1>1. frames[t] \in Seq(Frames) /\ frames[t] # <<>>
    BY CallOnTop
<1>2. x \in Frames /\ x.kind = "call" /\ x.client = r.client /\ x.ref = r /\ x.create = <<>>
    BY DEF Call, Frames, CallFrames, Refs
<1>. HIDE DEF x
<1>3. PICK h : h = <<x>> \o Tail(frames[t])
    OBVIOUS
<1>4. frames' = [frames EXCEPT ![t] = h]
    BY <1>3 DEF x
<1>5. h[1] = x
    BY <1>1, <1>2, <1>3, Replaced
<1>6. FrameOK(h, 1)
    BY <1>2, <1>5 DEF FrameOK, RefOK, PathOf
<1>. QED BY <1>1, <1>2, <1>3, <1>4, <1>6, ReplaceIInv

\* A create wrapper is passed through.
LEMMA PassIInv ==
    ASSUME PatchedClientAssumption, IInv, NEW t \in Tasks, Pass(t)
    PROVE  IInv'
<1>1. /\ Calling(t) /\ Ref(t).method = "create" /\ Ref(t).rest # <<>>
      /\ frames' = [frames EXCEPT ![t] = <<Call(Deeper(Ref(t)), <<>>)>> \o Tail(@)]
      /\ UNCHANGED <<clientVars, saved>>
    BY DEF Pass
<1>2. PICK r \in Refs : r = Ref(t) /\ RefOK(r)
    BY <1>1, CallOnTop
<1>3. PICK q \in Refs : q = Deeper(r) /\ RefOK(q)
    BY <1>1, <1>2, DeeperOK
<1>. QED BY <1>1, <1>2, <1>3, CallReplaces

\* The helper of the SDK goes on with the create method it found.
LEMMA HelpIInv ==
    ASSUME PatchedClientAssumption, IInv, NEW t \in Tasks, Help(t)
    PROVE  IInv'
<1>. DEFINE c == Head(frames[t]).create
            q == [Ref(t) EXCEPT !.method = "create", !.rest = c]
<1>1. /\ Calling(t)
      /\ frames' = [frames EXCEPT ![t] = <<Call(q, <<>>)>> \o Tail(@)]
      /\ UNCHANGED <<clientVars, saved>>
    BY DEF Help
<1>2. Ref(t) \in Refs /\ RefOK(Ref(t)) /\ c \in Seq(Gates) /\ PathOf(c, Ref(t).client)
    BY <1>1, CallOnTop
<1>3. q \in Refs /\ q.method = "create" /\ q.client = Ref(t).client /\ q.rest = c
    BY <1>2 DEF Refs, AnyMethod
<1>4. RefOK(q)
    BY <1>2, <1>3 DEF RefOK
<1>5. PICK r \in Refs : r = q /\ RefOK(r)
    BY <1>3, <1>4
<1>. QED BY <1>1, <1>5, CallReplaces

\* A wrapper that is dispatching with the capability of one of its client's gates.
LEMMA CapableWrapper ==
    ASSUME PatchedClientAssumption, IInv, NEW t \in Tasks, NEW g \in Gates,
           NEW c \in Clients, gateOf[g] = c, g \in Capabilities(t)
    PROVE  \E j \in DOMAIN frames[t] :
              frames[t][j].kind = "wrapper" /\ frames[t][j].gate = g /\ frames[t][j].client = c
<1>1. PICK j \in DOMAIN frames[t] : frames[t][j].kind = "wrapper" /\ frames[t][j].gate = g
    BY DEF Capabilities, Wrappers
<1>2. FrameOK(frames[t], j)
    BY DEF IInv, StacksOK, StackOK
<1>. QED BY <1>1, <1>2 DEF FrameOK

\* A request that spends and meets a gate has the capability of the last layer
\* and, if the client is a copy, of the one it was made with.
LEMMA SendIInv ==
    ASSUME PatchedClientAssumption, IInv, NEW t \in Tasks, Send(t)
    PROVE  IInv'
<1>. USE PatchedClientAssumption
<1>. DEFINE r == Ref(t)  c == r.client  gated == layers[c] # <<>>  x == Wire(r, gated)
<1>1. /\ Calling(t)
      /\ r.method # "free" => Checks(r) \subseteq Capabilities(t)
      /\ frames' = [frames EXCEPT ![t] = <<x>> \o Tail(@)]
      /\ UNCHANGED <<clientVars, saved>>
    BY DEF Send, AtRequest, Spends
<1>2. /\ frames[t] \in Seq(Frames) /\ frames[t] # <<>> /\ frames[t][1].kind = "call"
      /\ r \in Refs /\ RefOK(r)
    BY <1>1, CallOnTop DEF CallFrames
<1>3. /\ x \in Frames /\ x.kind = "wire" /\ x.client = c /\ x.method = r.method
      /\ x.gated = gated /\ c \in Clients /\ c \in Live /\ c # None
    BY <1>2 DEF Wire, Frames, WireFrames, Refs, RefOK, PatchedClientAssumption
<1>. HIDE DEF x
<1>4. PICK h : h = <<x>> \o Tail(frames[t])
    OBVIOUS
<1>5. frames' = [frames EXCEPT ![t] = h]
    BY <1>1, <1>4
<1>6. /\ h[1] = x /\ h \in Seq(Frames) /\ Len(h) = Len(frames[t])
      /\ \A k \in 2..Len(frames[t]) : h[k] = frames[t][k]
    BY <1>2, <1>3, <1>4, Replaced
<1>7. ASSUME r.method # "free", gated PROVE Held(h, 1)
    <2>1. \E g \in Gates : g \in Checks(r) /\ gateOf[g] = c /\ (IsCopy(c) => Shared(g, c))
        <3>1. /\ layers[c] \in Seq(Gates) /\ layers[c] # <<>>
              /\ PathOf(layers[c], c) /\ FirstShared(layers[c], c)
            BY <1>3, <1>7 DEF IInv, TypesOK, GatesOK, FamilyOK
        <3>2. CASE ~IsCopy(c)
            <4>1. Len(layers[c]) \in DOMAIN layers[c] /\ View(c) = layers[c][Len(layers[c])]
                BY <3>1 DEF View
            <4>2. View(c) \in Gates /\ gateOf[View(c)] = c
                BY <3>1, <4>1 DEF PathOf
            <4>3. View(c) # None /\ View(c) # 0
                BY <4>2 DEF Gates, PatchedClientAssumption
            <4>. QED BY <3>2, <4>2, <4>3 DEF Checks
        <3>3. CASE IsCopy(c)
            <4>1. CASE r.method = "request"
                <5>1. /\ r.rest \in Seq(Gates) /\ r.rest # <<>>
                      /\ PathOf(r.rest, c) /\ Shared(r.rest[1], c)
                    BY <1>2, <3>3, <4>1 DEF RefOK, Refs, FirstShared
                <5>2. 1 \in DOMAIN r.rest /\ r.rest[1] \in Gates /\ gateOf[r.rest[1]] = c
                    BY <5>1 DEF PathOf
                <5>. QED BY <4>1, <5>1, <5>2 DEF Checks
            <4>2. CASE r.method # "request"
                <5>1. Shared(layers[c][1], c)
                    BY <3>1, <3>3 DEF FirstShared
                <5>2. 1 \in DOMAIN layers[c] /\ layers[c][1] \in Gates /\ gateOf[layers[c][1]] = c
                    BY <3>1 DEF PathOf
                <5>. QED BY <4>2, <5>1, <5>2 DEF Checks
            <4>. QED BY <4>1, <4>2
        <3>. QED BY <3>2, <3>3
    <2>2. PICK g \in Gates : g \in Capabilities(t) /\ gateOf[g] = c /\ (IsCopy(c) => Shared(g, c))
        BY <1>1, <1>7, <2>1
    <2>3. PICK j \in DOMAIN frames[t] :
            frames[t][j].kind = "wrapper" /\ frames[t][j].gate = g /\ frames[t][j].client = c
        BY <1>3, <2>2, CapableWrapper
    <2>4. j > 1 /\ j \in DOMAIN h /\ h[j] = frames[t][j]
        <3>1. j # 1
            BY <1>2, <2>3
        <3>. QED BY <1>2, <1>6, <3>1
    <2>. QED BY <1>3, <1>6, <2>2, <2>3, <2>4 DEF Held
<1>8. FrameOK(h, 1)
    BY <1>3, <1>6, <1>7 DEF FrameOK
<1>. QED BY <1>1, <1>2, <1>3, <1>4, <1>5, <1>8, ReplaceIInv

-----------------------------------------------------------------------------
(* Wrappers that dispatch. *)

\* The wrapper that enters is the outermost of the create wrappers, or covered
\* by the one that is.
LEMMA EnteredReserves ==
    ASSUME NEW f \in Seq(Frames), NEW h \in Seq(Frames), f # <<>>,
           f[1].kind = "call", OutermostReserves(f),
           Len(h) = Len(f) + 1,
           \A k \in 2..Len(f) : h[k + 1] = f[k],
           h[1].kind = "call",
           h[2].reserved <=> ~(\E i \in DOMAIN f : IsCreate(f[i]) /\ f[i].reserved)
    PROVE  OutermostReserves(h)
<1>. SUFFICES ASSUME NEW j \in DOMAIN h, IsCreate(h[j])
     PROVE  \E m \in DOMAIN h :
                /\ IsCreate(h[m]) /\ h[m].reserved
                /\ \A k \in DOMAIN h : IsCreate(h[k]) => k <= m /\ (h[k].reserved => k = m)
    BY DEF OutermostReserves
<1>0. Len(f) \in Nat \ {0} /\ DOMAIN f = 1..Len(f) /\ DOMAIN h = 1..(Len(f) + 1)
    OBVIOUS
<1>1. \A k \in DOMAIN h : IsCreate(h[k]) =>
        k = 2 \/ (k - 1 \in 2..Len(f) /\ k - 1 \in DOMAIN f /\ h[k] = f[k - 1])
    <2>. SUFFICES ASSUME NEW k \in DOMAIN h, IsCreate(h[k]), k # 2
         PROVE  k - 1 \in 2..Len(f) /\ k - 1 \in DOMAIN f /\ h[k] = f[k - 1]
        OBVIOUS
    <2>1. k # 1
        BY DEF IsCreate
    <2>2. k - 1 \in 2..Len(f)
        BY <1>0, <2>1
    <2>3. h[(k - 1) + 1] = f[k - 1]
        BY <2>2
    <2>. QED BY <1>0, <2>2, <2>3
<1>2. CASE \E i \in DOMAIN f : IsCreate(f[i])
    <2>1. PICK m \in DOMAIN f :
            /\ IsCreate(f[m]) /\ f[m].reserved
            /\ \A k \in DOMAIN f : IsCreate(f[k]) => k <= m /\ (f[k].reserved => k = m)
        BY <1>2 DEF OutermostReserves
    <2>2. m # 1
        BY <2>1 DEF IsCreate
    <2>3. m \in 2..Len(f) /\ m + 1 \in DOMAIN h /\ h[m + 1] = f[m]
        BY <1>0, <2>2
    <2>4. ~h[2].reserved
        BY <2>1
    <2>5. ASSUME NEW k \in DOMAIN h, IsCreate(h[k])
          PROVE  k <= m + 1 /\ (h[k].reserved => k = m + 1)
        <3>1. CASE k = 2
            BY <2>3, <2>4, <3>1
        <3>2. CASE k # 2
            <4>1. k - 1 <= m /\ (f[k - 1].reserved => k - 1 = m)
                BY <1>1, <2>1, <2>5, <3>2
            <4>. QED BY <1>0, <1>1, <2>3, <2>5, <3>2, <4>1
        <3>. QED BY <3>1, <3>2
    <2>. QED BY <2>1, <2>3, <2>5
<1>3. CASE ~(\E i \in DOMAIN f : IsCreate(f[i]))
    <2>1. \A k \in DOMAIN h : IsCreate(h[k]) => k = 2
        BY <1>1, <1>3
    <2>2. h[2].reserved
        BY <1>3
    <2>. QED BY <2>1, <2>2
<1>. QED BY <1>2, <1>3

\* A wrapper holds budget and calls what it wraps.
LEMMA EnterIInv ==
    ASSUME PatchedClientAssumption, IInv, NEW t \in Tasks,
           NEW by \in {"create", "stream"}, Enter(t, by)
    PROVE  IInv'
<1>. DEFINE r == Ref(t)
            create == Head(frames[t]).create
            x == Call(Deeper(r), create)
            y == Wrapper(Next_(r), r.client, by, ~Covered(t))
<1>1. /\ Calling(t) /\ r.method = by /\ r.rest # <<>>
      /\ frames' = [frames EXCEPT ![t] = <<x, y>> \o Tail(frames[t])]
      /\ UNCHANGED <<clientVars, saved>>
    BY DEF Enter
<1>2. /\ frames[t] \in Seq(Frames) /\ frames[t] # <<>> /\ frames[t][1].kind = "call"
      /\ r \in Refs /\ RefOK(r)
      /\ create \in Seq(Gates) /\ PathOf(create, r.client)
    BY <1>1, CallOnTop DEF CallFrames
<1>3. PICK q \in Refs : q = Deeper(r) /\ RefOK(q) /\ q.client = r.client
    BY <1>1, <1>2, DeeperOK
<1>4. Next_(r) \in Gates /\ gateOf[Next_(r)] = r.client
    BY <1>1, <1>2, DeeperOK
<1>5. /\ x \in Frames /\ x.kind = "call" /\ x.client = r.client /\ x.ref = q
      /\ x.create = create
    BY <1>2, <1>3 DEF Call, Frames, CallFrames, Refs
<1>6. /\ y \in Frames /\ y.kind = "wrapper" /\ y.client = r.client /\ y.gate = Next_(r)
      /\ y.reserved <=> ~Covered(t)
    BY <1>2, <1>4 DEF Wrapper, Frames, WrapperFrames, Refs, Covered
<1>. HIDE DEF x, y
<1>7. PICK f \in Seq(Frames) : f = frames[t] /\ f # <<>> /\ StackOK(f) /\ OutermostReserves(f)
    BY <1>2 DEF IInv, StacksOK
<1>8. PICK h : h = <<x, y>> \o Tail(f)
    OBVIOUS
<1>9. /\ h \in Seq(Frames) /\ Len(h) = Len(f) + 1
      /\ h[1] = x /\ h[2] = y
      /\ \A k \in 2..Len(f) : h[k + 1] = f[k]
    BY <1>5, <1>6, <1>7, <1>8, Doubled
<1>10. \A k \in (2 + 1)..Len(h) : FrameOK(h, k)
    <2>1. \A k \in 2..Len(f) : f[k].kind # "call"
        BY <1>7, OneCallOnTop
    <2>2. 1 \in Int /\ 2 \in Nat \ {0} /\ 2 + 1 >= 1
        OBVIOUS
    <2>. QED BY <1>7, <1>9, <2>1, <2>2, Shifted
<1>11. FrameOK(h, 1)
    BY <1>2, <1>3, <1>5, <1>9 DEF FrameOK, RefOK
<1>12. FrameOK(h, 2)
    BY <1>2, <1>4, <1>6, <1>9 DEF FrameOK, RefOK
<1>13. StackOK(h)
    BY <1>7, <1>9, <1>10, <1>11, <1>12 DEF StackOK
<1>14. Covered(t) <=> \E i \in DOMAIN f : IsCreate(f[i]) /\ f[i].reserved
    BY <1>7 DEF Covered, Wrappers, IsCreate
<1>15. OutermostReserves(h)
    <2>1. h[2].reserved <=> ~(\E i \in DOMAIN f : IsCreate(f[i]) /\ f[i].reserved)
        BY <1>6, <1>9, <1>14
    <2>. QED BY <1>2, <1>5, <1>7, <1>9, <2>1, EnteredReserves
<1>16. frames' = [frames EXCEPT ![t] = h]
    BY <1>1, <1>7, <1>8
<1>. QED BY <1>1, <1>9, <1>13, <1>15, <1>16, OneStack

-----------------------------------------------------------------------------
(* Returns and exceptions. *)

\* The innermost of the requests further out.
LEMMA LeastOf ==
    ASSUME NEW S \in SUBSET Nat, S # {}
    PROVE  \E i \in S : \A j \in S : i <= j
<1>. DEFINE R == OpToRel(<, Nat)
<1>1. IsWellFoundedOn(R, Nat)
    BY NatLessThanWellFounded
<1>2. S \subseteq Nat
    OBVIOUS
<1>. HIDE DEF R
<1>3. PICK i \in S : \A j \in S : ~(<<j, i>> \in R)
    BY <1>1, <1>2, WFMin
<1>4. ASSUME NEW j \in S, j < i PROVE FALSE
    <2>1. <<j, i>> \in R
        BY <1>2, <1>4 DEF R, OpToRel
    <2>. QED BY <1>3, <2>1
<1>5. \A j \in S : i <= j
    BY <1>2, <1>4
<1>. QED BY <1>5

\* What is left of a stack: nothing, or the requests further out and what is
\* around them.
LEMMA OuterOf ==
    ASSUME IInv, NEW t \in Tasks
    PROVE  \/ Outer(t) = <<>>
           \/ \E i \in 2..Len(frames[t]) :
                Outer(t) = SubSeq(frames[t], i, Len(frames[t]))
<1>. DEFINE sending == {i \in 2..Len(frames[t]) : frames[t][i].kind = "wire"}
            least == CHOOSE i \in sending : \A j \in sending : i <= j
<1>1. Outer(t) = IF sending = {} THEN <<>> ELSE SubSeq(frames[t], least, Len(frames[t]))
    BY DEF Outer
<1>2. Len(frames[t]) \in Nat
    BY DEF IInv, TypesOK
<1>3. sending \in SUBSET Nat /\ sending \subseteq 2..Len(frames[t])
    BY <1>2
<1>. HIDE DEF sending
<1>4. CASE sending # {}
    <2>1. \E i \in sending : \A j \in sending : i <= j
        BY <1>3, <1>4, LeastOf
    <2>2. least \in sending
        BY <2>1
    <2>. HIDE DEF least
    <2>. QED BY <1>1, <1>3, <1>4, <2>2
<1>. QED BY <1>1, <1>4

\* The frames above the request end.
LEMMA OuterIInv ==
    ASSUME PatchedClientAssumption, IInv, NEW t \in Tasks,
           frames' = [frames EXCEPT ![t] = Outer(t)],
           UNCHANGED <<clientVars, saved>>
    PROVE  IInv'
<1>1. PICK f \in Seq(Frames) : f = frames[t] /\ StackOK(f) /\ OutermostReserves(f)
    BY DEF IInv, TypesOK, StacksOK
<1>2. PICK h : h = Outer(t)
    OBVIOUS
<1>3. frames' = [frames EXCEPT ![t] = h]
    BY <1>2
<1>4. CASE h = <<>>
    <2>1. h \in Seq(Frames) /\ StackOK(h) /\ OutermostReserves(h)
        BY <1>4 DEF StackOK, OutermostReserves
    <2>. QED BY <1>3, <2>1, OneStack
<1>5. ASSUME NEW i \in 2..Len(f), h = SubSeq(f, i, Len(f)) PROVE IInv'
    <2>. DEFINE d == 1 - i
    <2>1. /\ i \in DOMAIN f /\ d \in Int /\ i \in Nat \ {0} /\ i + d = 1 /\ i + d >= 1
        BY <1>1
    <2>2. /\ h \in Seq(Frames) /\ Len(h) = Len(f) - i + 1
          /\ \A k \in i..Len(f) : h[k - i + 1] = f[k]
        <3>1. f \in Seq(Frames) /\ i \in DOMAIN f
            BY <2>1
        <3>. HIDE DEF d
        <3>. QED BY ONLY <1>5, <3>1, CutOff
    <2>3. Len(h) = Len(f) + d /\ \A k \in i..Len(f) : h[k + d] = f[k]
        <3>1. \A k \in i..Len(f) : k + d = k - i + 1
            BY <1>1, <1>5
        <3>2. Len(f) + d = Len(f) - i + 1
            BY <1>1, <1>5
        <3>. QED BY <2>2, <3>1, <3>2
    <2>. HIDE DEF d
    <2>4. \A k \in (i + d)..Len(h) : FrameOK(h, k)
        <3>1. \A k \in i..Len(f) : f[k].kind # "call"
            BY <1>1, <1>5, OneCallOnTop
        <3>. QED BY <1>1, <2>1, <2>2, <2>3, <3>1, Shifted
    <2>5. StackOK(h)
        BY <2>1, <2>2, <2>4 DEF StackOK
    <2>6. OutermostReserves(h)
        <3>1. \A k \in 1..(i + d - 1) : k \in DOMAIN h => ~IsCreate(h[k])
            BY <2>1
        <3>. QED BY <1>1, <2>1, <2>2, <2>3, <3>1, StillReserved
    <2>. QED BY <1>3, <2>2, <2>5, <2>6, OneStack
<1>6. h = <<>> \/ \E i \in 2..Len(f) : h = SubSeq(f, i, Len(f))
    BY <1>1, <1>2, OuterOf
<1>. QED BY <1>4, <1>5, <1>6

-----------------------------------------------------------------------------
(* The invariant, and what follows from it. *)

\* Every step keeps the invariant.
LEMMA NextIInv ==
    ASSUME PatchedClientAssumption, IInv, [Next]_vars
    PROVE  IInv'
<1>1. ASSUME NEW c \in Clients, NEW g \in Gates, Patch(c, g) PROVE IInv'
    BY <1>1, PatchIInv
<1>2. ASSUME NEW c \in Clients, NEW g \in Gates, Monitor(c, g) PROVE IInv'
    BY <1>2, MonitorIInv
<1>3. ASSUME NEW g \in Gates, Undo(g) PROVE IInv'
    BY <1>3, UndoIInv
<1>4. ASSUME NEW c \in Clients, NEW d \in Clients, CopyBare(c, d) PROVE IInv'
    BY <1>4, CopyBareIInv
<1>5. ASSUME NEW c \in Clients, NEW d \in Clients, NEW g \in Gates, Copy(c, d, g) PROVE IInv'
    BY <1>5, CopyIInv
<1>6. ASSUME NEW c \in Live, NEW m \in Methods, Save(c, m) PROVE IInv'
    BY <1>6, SaveIInv DEF Live
<1>7. ASSUME NEW c \in Live, NEW m \in Methods, NEW t \in Tasks, Begin(t, Reads(c, m)) PROVE IInv'
    <2>1. PICK r \in Refs : r = Reads(c, m) /\ RefOK(r)
        BY ReadsOK
    <2>. QED BY <1>7, <2>1, BeginIInv
<1>8. ASSUME NEW t \in Tasks, saved # None, Begin(t, saved) PROVE IInv'
    <2>1. PICK r \in Refs : r = saved /\ RefOK(r)
        BY <1>8 DEF IInv, TypesOK, SavedOK
    <2>. QED BY <1>8, <2>1, BeginIInv
<1>9. ASSUME NEW t \in Tasks, Pass(t) PROVE IInv'
    BY <1>9, PassIInv
<1>10. ASSUME NEW t \in Tasks, EnterCreate(t) PROVE IInv'
    BY <1>10, EnterIInv DEF EnterCreate
<1>11. ASSUME NEW t \in Tasks, EnterStream(t) PROVE IInv'
    BY <1>11, EnterIInv DEF EnterStream
<1>12. ASSUME NEW t \in Tasks, Help(t) PROVE IInv'
    BY <1>12, HelpIInv
<1>13. ASSUME NEW t \in Tasks, Send(t) PROVE IInv'
    BY <1>13, SendIInv
<1>14. ASSUME NEW t \in Tasks, Refuse(t) PROVE IInv'
    BY <1>14, OuterIInv DEF Refuse
<1>15. ASSUME NEW t \in Tasks, Answer(t) PROVE IInv'
    BY <1>15, OuterIInv DEF Answer
<1>16. CASE UNCHANGED vars
    <2>1. UNCHANGED <<clientVars, saved, frames>>
        BY <1>16 DEF vars, clientVars
    <2>2. TypesOK'
        BY <2>1 DEF IInv, TypesOK, clientVars
    <2>3. Live' = Live
        BY <2>1 DEF Live, clientVars
    <2>4. GatesOK' /\ FamilyOK' /\ SavedOK'
        BY <2>1, <2>3 DEF IInv, GatesOK, FamilyOK, SavedOK, RefOK, PathOf, FirstShared, Shared,
            IsCopy, clientVars
    <2>5. ASSUME NEW u \in Tasks PROVE StackOK(frames[u])' /\ OutermostReserves(frames[u])'
        <3>1. PICK f \in Seq(Frames) : f = frames[u] /\ StackOK(f) /\ OutermostReserves(f)
            BY DEF IInv, TypesOK, StacksOK
        <3>2. StackOK(f)' /\ OutermostReserves(f)'
            BY <2>1, <3>1, SameClients
        <3>. QED BY <2>1, <3>1, <3>2 DEF StackOK, OutermostReserves
    <2>6. StacksOK'
        BY <2>5 DEF StacksOK
    <2>. QED BY <2>2, <2>4, <2>6 DEF IInv
<1>17. CASE \E c \in Clients, g \in Gates : Patch(c, g) \/ Monitor(c, g)
    BY <1>1, <1>2, <1>17
<1>18. CASE \E g \in Gates : Undo(g)
    BY <1>3, <1>18
<1>19. CASE \E c, d \in Clients : CopyBare(c, d) \/ \E g \in Gates : Copy(c, d, g)
    BY <1>4, <1>5, <1>19
<1>20. CASE \E c \in Live, m \in Methods : Save(c, m) \/ \E t \in Tasks : Begin(t, Reads(c, m))
    BY <1>6, <1>7, <1>20
<1>21. CASE \E t \in Tasks :
        \/ saved # None /\ Begin(t, saved)
        \/ Pass(t) \/ EnterCreate(t) \/ EnterStream(t) \/ Help(t)
        \/ Send(t) \/ Refuse(t) \/ Answer(t)
    BY <1>8, <1>9, <1>10, <1>11, <1>12, <1>13, <1>14, <1>15, <1>21
<1>. QED BY <1>16, <1>17, <1>18, <1>19, <1>20, <1>21 DEF Next

\* Every reference names gates of its own client, every wrapper is of its
\* gate's client, and the innermost layer of a copy has its family's budget.
THEOREM InductiveInvariant == Spec => []IInv
<1>. USE PatchedClientAssumption
<1>1. Init => IInv
    BY InitIInv
<1>2. IInv /\ [Next]_vars => IInv'
    BY NextIInv
<1>. QED BY <1>1, <1>2, PTL DEF Spec

\* Type correctness, and that a gate belongs to the client it is a layer of and
\* a call on a stack is of a client that exists.
THEOREM TypeCorrect == Spec => []TypeOK
<1>1. IInv => TypeOK
    <2>. SUFFICES ASSUME IInv PROVE TypeOK
        OBVIOUS
    <2>1. ASSUME NEW c \in Clients
          PROVE  /\ \A i \in DOMAIN layers[c] : layers[c][i] \in Gates /\ gateOf[layers[c][i]] = c
                 /\ inherited[c] \in Gates \cup {None, 0}
                 /\ latest[c] \in Gates \cup {None}
                 /\ root[c] \in Clients \cup {None}
        <3>1. layers[c] \in Seq(Gates) /\ PathOf(layers[c], c)
            BY DEF IInv, TypesOK, GatesOK
        <3>. QED BY <3>1 DEF IInv, TypesOK, PathOf
    <2>2. \A g \in Gates : gateOf[g] = None <=> budget[g] = None
        BY DEF IInv, GatesOK
    <2>3. ASSUME NEW t \in Tasks, NEW i \in DOMAIN frames[t], frames[t][i].kind = "call"
          PROVE  i = 1 /\ frames[t][i].client \in Live
        BY <2>3 DEF IInv, StacksOK, StackOK, FrameOK
    <2>. QED BY <2>1, <2>2, <2>3 DEF TypeOK
<1>. QED BY <1>1, InductiveInvariant, PTL

\* "Anything else raises UnsupportedModeError before it is sent": what a patched
\* client sends is inside a wrapper of that client, in that task, that holds
\* budget, whatever is saved, copied, undone or called in a transport.
THEOREM SpendsAreHeld == Spec => []SpendIsHeld
<1>1. IInv => SpendIsHeld
    <2>. SUFFICES ASSUME IInv, NEW t \in Tasks, NEW i \in Sent(t), frames[t][i].gated
         PROVE  \E j \in Wrappers(t) : j > i /\ frames[t][j].client = frames[t][i].client
        BY DEF SpendIsHeld
    <2>1. Held(frames[t], i)
        BY DEF IInv, StacksOK, StackOK, FrameOK, Sent, Spends
    <2>. QED BY <2>1 DEF Held, Wrappers
<1>. QED BY <1>1, InductiveInvariant, PTL

\* "Clones must share the same Enforcement counter (not a fresh budget)": so do
\* copies of copies, however many, and whatever is undone.
THEOREM ClonesShare == Spec => []ClonesShareBudget
<1>1. IInv => ClonesShareBudget
    <2>. SUFFICES ASSUME IInv, NEW t \in Tasks, NEW i \in Sent(t),
                         frames[t][i].gated, root[frames[t][i].client] \notin {None, frames[t][i].client}
         PROVE  \E j \in Wrappers(t) :
                    /\ j > i /\ frames[t][j].client = frames[t][i].client
                    /\ gateOf[budget[frames[t][j].gate]] = root[frames[t][i].client]
        BY DEF ClonesShareBudget
    <2>1. Held(frames[t], i)
        BY DEF IInv, StacksOK, StackOK, FrameOK, Sent, Spends
    <2>. QED BY <2>1 DEF Held, Wrappers, Shared, IsCopy
<1>. QED BY <1>1, InductiveInvariant, PTL

\* However many layers a create call goes through, and whatever call it is made
\* in, there is one reservation of FinOps for it.
THEOREM ReservationsOnce == Spec => []ReservedOnce
<1>1. IInv => ReservedOnce
    <2>. SUFFICES ASSUME IInv, NEW t \in Tasks, NEW i \in Sent(t),
                         OneCall(t, i) # {}, \A j \in OneCall(t, i) : frames[t][j].by = "create"
         PROVE  Cardinality({j \in Wrappers(t) :
                    j > i /\ frames[t][j].reserved
                    /\ (j \in OneCall(t, i) \/ frames[t][j].by = "create")}) = 1
        BY DEF ReservedOnce
    <2>. DEFINE paid == {j \in Wrappers(t) :
                    j > i /\ frames[t][j].reserved
                    /\ (j \in OneCall(t, i) \/ frames[t][j].by = "create")}
    <2>1. frames[t] \in Seq(Frames) /\ OutermostReserves(frames[t]) /\ i \in DOMAIN frames[t]
        BY DEF IInv, TypesOK, StacksOK, Sent
    <2>2. PICK w \in DOMAIN frames[t] : w > i /\ IsCreate(frames[t][w])
        BY DEF OneCall, Wrappers, IsCreate
    <2>3. PICK m \in DOMAIN frames[t] :
            /\ IsCreate(frames[t][m]) /\ frames[t][m].reserved
            /\ \A k \in DOMAIN frames[t] :
                IsCreate(frames[t][k]) => k <= m /\ (frames[t][k].reserved => k = m)
        BY <2>1, <2>2 DEF OutermostReserves
    <2>4. m > i
        BY <2>1, <2>2, <2>3
    <2>5. paid = {m}
        BY <2>3, <2>4 DEF Wrappers, IsCreate
    <2>. QED BY <2>5, FS_Singleton
<1>. QED BY <1>1, InductiveInvariant, PTL

=============================================================================
