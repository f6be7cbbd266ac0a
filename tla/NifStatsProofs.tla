--------------------------- MODULE NifStatsProofs ----------------------------
(***************************************************************************)
(* Proofs about NifStats, for any number of operations and nodes and any   *)
(* width of the counters that is enough to count the operations.           *)
(*                                                                         *)
(* Placed ties the counters that count an operation to where it is in its  *)
(* constructor or destructor: a fetch_add meets an operation that this     *)
(* counter does not count yet, and nobody is counted on a node that has no *)
(* entry, so that creating one loses nothing.  From this a counter is the  *)
(* number of operations it counts.  HighIsHigh and SeenWasReached say what *)
(* the values loaded late are worth.                                       *)
(***************************************************************************)
EXTENDS NifStats, FiniteSetTheorems, TLAPS

Counting == {"add", "load", "compare", "storePeak", "storeTtl"}
Counted(o) == {kind[o], LastCounter(o)}

Placed(o) ==
    \* the node of an asynchronous operation that counts
    /\ node[o] # NoNode => kind[o] = "async" /\ pc[o] # "idle"
    /\ kind[o] = "async" /\ pc[o] \in Counting \cup {"create", "sub"} => node[o] # NoNode
    /\ pc[o] = "create" => kind[o] = "async"
    /\ node[o] # NoNode /\ pc[o] # "create" => node[o] \in entries
    \* the counter it works on
    /\ at[o] \in Counted(o) /\ (pc[o] \notin Counting \cup {"sub"} => at[o] = kind[o])
    \* the counters that count it
    /\ held[o] \subseteq Counted(o) \ {NoNode}
    /\ pc[o] \in {"idle", "create"} => held[o] = {}
    /\ pc[o] = "add" => held[o] = Counted(o) \ {at[o], LastCounter(o)}
    /\ pc[o] = "sub" => held[o] \subseteq {at[o], LastCounter(o)}

\* No counter counts more operations than it once did.
HighIsHigh == \A c \in Counters : Holders(held, c) <= high[c]

\* What a constructor has loaded its counter has counted.
SeenWasReached ==
    ~switched /\ zeroed = {} => \A o \in Ops, c \in Counters : seen[o][c] <= high[c]

IInv == /\ TypeOK
        /\ \A o \in Ops : Placed(o)
        /\ CountersExact
        /\ HighIsHigh
        /\ PeakWasReached
        /\ SeenWasReached
-----------------------------------------------------------------------------
(* Numbers *)

LEMMA Remainder ==
    ASSUME NEW m \in Nat \ {0}, NEW x \in Int
    PROVE  /\ x % m \in 0..(m - 1)
           /\ x \in 0..(m - 1) => x % m = x
OBVIOUS

LEMMA Numbers == Modulus \in Nat \ {0} /\ Ttl \in Nat /\ Outdated \in Nat /\ Clock \subseteq Nat
BY NumbersAssumption, ClockAssumption

LEMMA Names == /\ Counters = {"sync", "async"} \cup Nodes /\ NoNode \notin Counters
               /\ \A n \in Nodes : n \notin {"sync", "async", NoNode}
BY NodesAssumption DEF Counters

-----------------------------------------------------------------------------
(* How many operations a counter counts *)

LEMMA HoldersNumber ==
    ASSUME NEW h, NEW c
    PROVE  /\ IsFiniteSet({o \in Ops : c \in h[o]})
           /\ Holders(h, c) \in Nat /\ Holders(h, c) < Modulus
<1> DEFINE S == {o \in Ops : c \in h[o]}
<1>1. S \in SUBSET Ops /\ IsFiniteSet(Ops) /\ Cardinality(Ops) < Modulus
  BY OpsAssumption
<1> HIDE DEF S
<1>2. IsFiniteSet(S) /\ Cardinality(S) <= Cardinality(Ops)
  BY <1>1, FS_Subset
<1>3. Cardinality(S) \in Nat /\ Cardinality(Ops) \in Nat
  BY <1>1, <1>2, FS_CardinalityType
<1> QED
  BY <1>1, <1>2, <1>3, Numbers DEF S, Holders

LEMMA HoldersNone ==
    ASSUME NEW h, NEW c
    PROVE  Holders(h, c) = 0 <=> \A o \in Ops : c \notin h[o]
<1> DEFINE S == {o \in Ops : c \in h[o]}
<1>1. S = {} <=> \A o \in Ops : c \notin h[o]
  OBVIOUS
<1>2. IsFiniteSet(S)
  BY HoldersNumber
<1> HIDE DEF S
<1>3. Cardinality(S) = 0 <=> S = {}
  BY <1>2, FS_EmptySet
<1> QED
  BY <1>1, <1>3 DEF S, Holders

LEMMA HoldersMore ==
    ASSUME NEW h \in [Ops -> SUBSET Counters], NEW o \in Ops, NEW c \in Counters, c \notin h[o],
           NEW g, g[o] = h[o] \cup {c}, \A p \in Ops : p # o => g[p] = h[p]
    PROVE  /\ Holders(g, c) = Holders(h, c) + 1
           /\ \A d \in Counters : d # c => Holders(g, d) = Holders(h, d)
<1> DEFINE S(d) == {p \in Ops : d \in h[p]}
           T(d) == {p \in Ops : d \in g[p]}
<1>1. T(c) = S(c) \cup {o} /\ o \notin S(c)
  OBVIOUS
<1>2. \A d \in Counters : d # c => T(d) = S(d)
  OBVIOUS
<1>3. IsFiniteSet(S(c))
  BY HoldersNumber
<1>4. Holders(g, c) = Cardinality(T(c)) /\ Holders(h, c) = Cardinality(S(c))
  BY DEF Holders
<1>5. \A d \in Counters : Holders(g, d) = Cardinality(T(d)) /\ Holders(h, d) = Cardinality(S(d))
  BY DEF Holders
<1> HIDE DEF S, T
<1>6. Cardinality(S(c) \cup {o}) = Cardinality(S(c)) + 1
  BY <1>1, <1>3, FS_AddElement
<1> QED
  BY <1>1, <1>2, <1>4, <1>5, <1>6

\* An operation that leaves a counter, whether it was counted or not.
LEMMA HoldersFewer ==
    ASSUME NEW h \in [Ops -> SUBSET Counters], NEW o \in Ops, NEW c \in Counters,
           NEW g, g[o] = h[o] \ {c}, \A p \in Ops : p # o => g[p] = h[p]
    PROVE  /\ c \in h[o] => Holders(g, c) = Holders(h, c) - 1
           /\ c \notin h[o] => Holders(g, c) = Holders(h, c)
           /\ \A d \in Counters : d # c => Holders(g, d) = Holders(h, d)
<1> DEFINE S(d) == {p \in Ops : d \in h[p]}
           T(d) == {p \in Ops : d \in g[p]}
<1>1. T(c) = S(c) \ {o} /\ (o \in S(c) <=> c \in h[o])
  OBVIOUS
<1>2. \A d \in Counters : d # c => T(d) = S(d)
  OBVIOUS
<1>3. IsFiniteSet(S(c))
  BY HoldersNumber
<1>4. \A d \in Counters : Holders(g, d) = Cardinality(T(d)) /\ Holders(h, d) = Cardinality(S(d))
  BY DEF Holders
<1> HIDE DEF S, T
<1>5. Cardinality(S(c) \ {o}) = IF o \in S(c) THEN Cardinality(S(c)) - 1 ELSE Cardinality(S(c))
  BY <1>3, FS_RemoveElement
<1> QED
  BY <1>1, <1>2, <1>4, <1>5

\* Who is counted by less counters makes no counter count more.
LEMMA HoldersAtMost ==
    ASSUME NEW h, NEW g, \A o \in Ops : g[o] \subseteq h[o], NEW c
    PROVE  Holders(g, c) <= Holders(h, c)
<1> DEFINE S == {o \in Ops : c \in h[o]}
           T == {o \in Ops : c \in g[o]}
<1>1. T \in SUBSET S /\ IsFiniteSet(S)
  BY HoldersNumber
<1>2. Holders(g, c) = Cardinality(T) /\ Holders(h, c) = Cardinality(S)
  BY DEF Holders
<1> HIDE DEF S, T
<1> QED
  BY <1>1, <1>2, FS_Subset
-----------------------------------------------------------------------------
(* Where an operation is *)

LEMMA CounterOf ==
    ASSUME TypeOK, NEW o \in Ops, Placed(o)
    PROVE  /\ kind[o] \in Counters /\ at[o] \in Counters
           /\ pc[o] \in Counting \cup {"create", "sub"} => LastCounter(o) \in Counters
           /\ pc[o] = "create" => node[o] \in Nodes
<1>1. /\ kind[o] \in {"sync", "async"} /\ at[o] \in Counters
      /\ node[o] \in Nodes \cup {NoNode}
  BY DEF TypeOK
<1> QED
  BY <1>1, Names DEF Placed, LastCounter

\* An operation that a step does not touch is where it was.
LEMMA PlacedSame ==
    ASSUME NEW o, Placed(o), entries \subseteq entries',
           kind'[o] = kind[o], pc'[o] = pc[o], at'[o] = at[o], node'[o] = node[o], held'[o] = held[o]
    PROVE  Placed(o)'
BY DEF Placed, Counted, LastCounter

\* The steps of an operation: what they do to where it is.
MovesOnly(o) ==
    \A p \in Ops : p # o => /\ pc'[p] = pc[p] /\ at'[p] = at[p]
                            /\ node'[p] = node[p] /\ held'[p] = held[p]

LEMMA PlacedOthers ==
    ASSUME \A p \in Ops : Placed(p), NEW o \in Ops, MovesOnly(o), kind' = kind,
           entries \subseteq entries', Placed(o)'
    PROVE  \A p \in Ops : Placed(p)'
<1> SUFFICES ASSUME NEW p \in Ops, p # o PROVE Placed(p)'
  OBVIOUS
<1> QED
  BY PlacedSame DEF MovesOnly

LEMMA BeginPlaced ==
    ASSUME TypeOK, NEW o \in Ops, \A p \in Ops : Placed(p),
           BeginUncounted(o) \/ BeginSync(o) \/ \E n \in Nodes : BeginAsync(o, n)
    PROVE  TypeOK' /\ \A p \in Ops : Placed(p)'
<1>1. PICK to \in {"running", "add", "create"} :
         pc[o] = "idle" /\ pc' = [pc EXCEPT ![o] = to]
  BY DEF BeginUncounted, BeginSync, BeginAsync, Begin
<1>2. UNCHANGED <<enabled, now, switches, current, peak, ttl, entries, kind, at, seen, stamp,
                  held, poll, high, zeroed, switched>>
  BY DEF BeginUncounted, BeginSync, BeginAsync, Begin, clockVars, statVars, localVars, ghostVars
<1>3. PICK n \in Nodes \cup {NoNode} :
         /\ node' = [node EXCEPT ![o] = n]
         /\ IF n = NoNode THEN (to = "running" \/ (to = "add" /\ kind[o] = "sync"))
                          ELSE /\ kind[o] = "async"
                               /\ to = IF n \in entries THEN "add" ELSE "create"
  <2>1. node[o] = NoNode /\ node \in [Ops -> Nodes \cup {NoNode}]
    BY <1>1, Names DEF Placed, TypeOK
  <2>2. CASE BeginUncounted(o) \/ BeginSync(o)
    <3>1. node' = [node EXCEPT ![o] = NoNode]
      BY <2>1, <2>2 DEF BeginUncounted, BeginSync
    <3>2. to = "running" \/ (to = "add" /\ kind[o] = "sync")
      BY <1>1, <2>2 DEF BeginUncounted, BeginSync, Begin, TypeOK
    <3>3. QED
      BY <3>1, <3>2
  <2>3. ASSUME NEW n \in Nodes, BeginAsync(o, n)
        PROVE  /\ node' = [node EXCEPT ![o] = n] /\ kind[o] = "async" /\ n # NoNode
               /\ to = IF n \in entries THEN "add" ELSE "create"
    BY <1>1, <2>3, Names DEF BeginAsync, Begin, TypeOK
  <2>4. QED
    BY <2>2, <2>3
<1>4. /\ pc'[o] = to /\ node'[o] = n
      /\ \A p \in Ops : p # o => pc'[p] = pc[p] /\ node'[p] = node[p]
      /\ pc' \in [Ops -> {"idle", "create", "add", "load", "compare",
                          "storePeak", "storeTtl", "running", "sub"}]
      /\ node' \in [Ops -> Nodes \cup {NoNode}]
  BY <1>1, <1>3 DEF TypeOK
<1>5. TypeOK'
  BY <1>2, <1>4 DEF TypeOK
<1>6. Placed(o)'
  <2>1. at'[o] = kind[o] /\ held'[o] = {} /\ kind'[o] = kind[o] /\ kind[o] \in {"sync", "async"}
        /\ pc'[o] = to /\ node'[o] = n /\ entries' = entries
    BY <1>1, <1>2, <1>4 DEF Placed, TypeOK, Counting
  <2>2. CASE n = NoNode
    BY <1>3, <2>1, <2>2 DEF Placed, Counted, LastCounter, Counting
  <2>3. CASE n # NoNode
    BY <1>3, <2>1, <2>3 DEF Placed, Counted, LastCounter, Counting
  <2>4. QED
    BY <2>2, <2>3
<1>7. MovesOnly(o)
  BY <1>2, <1>4 DEF MovesOnly
<1> QED
  BY <1>2, <1>5, <1>6, <1>7, PlacedOthers

LEMMA CreatePlaced ==
    ASSUME TypeOK, NEW o \in Ops, \A p \in Ops : Placed(p), Create(o)
    PROVE  TypeOK' /\ \A p \in Ops : Placed(p)'
<1>1. /\ pc[o] = "create" /\ pc' = [pc EXCEPT ![o] = "add"]
      /\ UNCHANGED <<enabled, now, switches, kind, at, node, seen, stamp, held, poll,
                     high, zeroed, switched>>
  BY DEF Create, CreateUnless, clockVars, localVars, ghostVars
<1>2. node[o] \in Nodes /\ node[o] \in Counters
  BY <1>1, CounterOf, Names
<1>3. /\ entries' = entries \cup {node[o]}
      /\ \/ node[o] \in entries /\ UNCHANGED <<current, peak, ttl>>
         \/ /\ current' = [current EXCEPT ![node[o]] = 0]
            /\ peak' = [peak EXCEPT ![node[o]] = 0]
            /\ ttl' = [ttl EXCEPT ![node[o]] = 0]
  BY DEF Create, CreateUnless, statVars
<1>4. /\ current' \in [Counters -> 0..(Modulus - 1)]
      /\ peak' \in [Counters -> 0..(Modulus - 1)]
      /\ ttl' \in [Counters -> Nat]
  <2>1. 0 \in 0..(Modulus - 1)
    BY Numbers
  <2>2. /\ current \in [Counters -> 0..(Modulus - 1)]
        /\ peak \in [Counters -> 0..(Modulus - 1)]
        /\ ttl \in [Counters -> Nat]
    BY DEF TypeOK
  <2>3. CASE UNCHANGED <<current, peak, ttl>>
    BY <2>2, <2>3
  <2>4. CASE /\ current' = [current EXCEPT ![node[o]] = 0]
             /\ peak' = [peak EXCEPT ![node[o]] = 0]
             /\ ttl' = [ttl EXCEPT ![node[o]] = 0]
    BY <2>1, <2>2, <2>4
  <2>5. QED
    BY <1>3, <2>3, <2>4
<1>5. /\ pc' \in [Ops -> {"idle", "create", "add", "load", "compare",
                          "storePeak", "storeTtl", "running", "sub"}]
      /\ pc'[o] = "add" /\ \A p \in Ops : p # o => pc'[p] = pc[p]
  BY <1>1 DEF TypeOK
<1>6. TypeOK'
  BY <1>1, <1>2, <1>3, <1>4, <1>5 DEF TypeOK
<1>7. Placed(o)'
  BY <1>1, <1>3, <1>5 DEF Placed, Counted, LastCounter, Counting
<1>8. MovesOnly(o)
  BY <1>1, <1>5 DEF MovesOnly
<1> QED
  BY <1>1, <1>3, <1>6, <1>7, <1>8, PlacedOthers
LEMMA AddPlaced ==
    ASSUME TypeOK, NEW o \in Ops, \A p \in Ops : Placed(p), Add(o)
    PROVE  TypeOK' /\ \A p \in Ops : Placed(p)'
<1>1. /\ pc[o] = "add"
      /\ current' = [current EXCEPT ![at[o]] = (@ + 1) % Modulus]
      /\ held' = [held EXCEPT ![o] = @ \cup {at[o]}]
      /\ high' = [high EXCEPT ![at[o]] = IF Holders(held', at[o]) > @
                                         THEN Holders(held', at[o]) ELSE @]
      /\ UNCHANGED <<enabled, now, switches, peak, ttl, entries, kind, node, seen, stamp, poll,
                     zeroed, switched>>
  BY DEF Add, Advance, clockVars, localVars
<1>2. at[o] \in Counters /\ kind[o] \in Counters /\ LastCounter(o) \in Counters /\ Placed(o)
  BY <1>1, CounterOf DEF Counting
<1>3. PICK to \in {"add", "load"}, a \in Counters :
         /\ pc' = [pc EXCEPT ![o] = to] /\ at' = [at EXCEPT ![o] = a]
         /\ \/ to = "load" /\ at[o] = LastCounter(o) /\ a = kind[o]
            \/ to = "add" /\ at[o] # LastCounter(o) /\ a = LastCounter(o)
  <2>1. CASE at[o] = LastCounter(o)
    BY <1>2, <2>1 DEF Add, Advance
  <2>2. CASE at[o] # LastCounter(o)
    <3>1. pc' = [pc EXCEPT ![o] = "add"]
      BY <1>1, <2>2 DEF Add, Advance, TypeOK
    <3>2. at' = [at EXCEPT ![o] = LastCounter(o)]
      BY <2>2 DEF Add, Advance
    <3>3. QED
      BY <1>2, <2>2, <3>1, <3>2
  <2>3. QED
    BY <2>1, <2>2
<1>4. /\ pc' \in [Ops -> {"idle", "create", "add", "load", "compare",
                          "storePeak", "storeTtl", "running", "sub"}]
      /\ at' \in [Ops -> Counters] /\ held' \in [Ops -> SUBSET Counters]
      /\ pc'[o] = to /\ at'[o] = a /\ held'[o] = held[o] \cup {at[o]}
      /\ \A p \in Ops : p # o => pc'[p] = pc[p] /\ at'[p] = at[p] /\ held'[p] = held[p]
  BY <1>1, <1>2, <1>3 DEF TypeOK
<1>5. current' \in [Counters -> 0..(Modulus - 1)]
  <2>1. current \in [Counters -> 0..(Modulus - 1)]
    BY DEF TypeOK
  <2>2. PICK x \in Int : x = current[at[o]] + 1
    BY <1>2, <2>1
  <2>3. x % Modulus \in 0..(Modulus - 1)
    BY Remainder, Numbers
  <2>4. current' = [current EXCEPT ![at[o]] = x % Modulus]
    BY <1>1, <2>2
  <2>5. QED
    BY <1>2, <2>1, <2>3, <2>4
<1>6. high' \in [Counters -> Nat]
  <2>1. high \in [Counters -> Nat] /\ Holders(held', at[o]) \in Nat
    BY HoldersNumber DEF TypeOK
  <2>2. QED
    BY <1>1, <1>2, <2>1
<1>7. TypeOK'
  BY <1>1, <1>4, <1>5, <1>6 DEF TypeOK
<1>8. Placed(o)'
  <2>1. /\ pc'[o] = to /\ at'[o] = a /\ held'[o] = held[o] \cup {at[o]}
        /\ kind'[o] = kind[o] /\ node'[o] = node[o] /\ entries' = entries
    BY <1>1, <1>4
  <2>2. at[o] # NoNode /\ held[o] = Counted(o) \ {at[o], LastCounter(o)} /\ at[o] \in Counted(o)
    BY <1>1, <1>2, Names DEF Placed
  <2>3. QED
    BY <1>1, <1>2, <1>3, <2>1, <2>2 DEF Placed, Counted, LastCounter, Counting
<1>9. MovesOnly(o)
  BY <1>1, <1>4 DEF MovesOnly
<1> QED
  BY <1>1, <1>7, <1>8, <1>9, PlacedOthers

LEMMA LoadPlaced ==
    ASSUME TypeOK, NEW o \in Ops, \A p \in Ops : Placed(p), Load(o)
    PROVE  TypeOK' /\ \A p \in Ops : Placed(p)'
<1>1. /\ pc[o] = "load"
      /\ seen' = [seen EXCEPT ![o][at[o]] = current[at[o]]]
      /\ stamp' = [stamp EXCEPT ![o] = now]
      /\ UNCHANGED <<enabled, now, switches, current, peak, ttl, entries, kind, node, held, poll,
                     high, zeroed, switched>>
  BY DEF Load, Advance, clockVars, statVars, ghostVars
<1>2. at[o] \in Counters /\ kind[o] \in Counters /\ LastCounter(o) \in Counters /\ Placed(o)
  BY <1>1, CounterOf DEF Counting
<1>3. PICK to \in {"load", "compare"}, a \in {kind[o], LastCounter(o)} :
         pc' = [pc EXCEPT ![o] = to] /\ at' = [at EXCEPT ![o] = a]
  <2>1. CASE at[o] = LastCounter(o)
    BY <2>1 DEF Load, Advance
  <2>2. CASE at[o] # LastCounter(o)
    <3>1. pc' = [pc EXCEPT ![o] = "load"]
      BY <1>1, <2>2 DEF Load, Advance, TypeOK
    <3>2. at' = [at EXCEPT ![o] = LastCounter(o)]
      BY <2>2 DEF Load, Advance
    <3>3. QED
      BY <3>1, <3>2
  <2>3. QED
    BY <2>1, <2>2
<1>4. /\ pc' \in [Ops -> {"idle", "create", "add", "load", "compare",
                          "storePeak", "storeTtl", "running", "sub"}]
      /\ at' \in [Ops -> Counters]
      /\ pc'[o] = to /\ at'[o] = a
      /\ \A p \in Ops : p # o => pc'[p] = pc[p] /\ at'[p] = at[p]
  BY <1>2, <1>3 DEF TypeOK
<1>5. seen' \in [Ops -> [Counters -> 0..(Modulus - 1)]] /\ stamp' \in [Ops -> Nat]
  <2>1. /\ current[at[o]] \in 0..(Modulus - 1) /\ now \in Nat /\ stamp \in [Ops -> Nat]
        /\ seen \in [Ops -> [Counters -> 0..(Modulus - 1)]]
    BY <1>2, Numbers DEF TypeOK
  <2>2. QED
    BY <1>1, <1>2, <2>1
<1>6. TypeOK'
  BY <1>1, <1>4, <1>5 DEF TypeOK
<1>7. Placed(o)'
  BY <1>1, <1>2, <1>3, <1>4 DEF Placed, Counted, LastCounter, Counting
<1>8. MovesOnly(o)
  BY <1>1, <1>4 DEF MovesOnly
<1> QED
  BY <1>1, <1>6, <1>7, <1>8, PlacedOthers

\* Compare, and the two stores: the constructor stays with its counter, or is
\* done with it.
LEMMA FinishPlaced ==
    ASSUME TypeOK, NEW o \in Ops, \A p \in Ops : Placed(p), Finish(o),
           pc[o] \in {"compare", "storeTtl"},
           UNCHANGED <<enabled, now, switches, current, peak, entries, kind, node, held, poll,
                       high, zeroed, switched>>,
           ttl' \in [Counters -> Nat]
    PROVE  TypeOK' /\ \A p \in Ops : Placed(p)'
<1>1. at[o] \in Counters /\ kind[o] \in Counters /\ LastCounter(o) \in Counters /\ Placed(o)
  BY CounterOf DEF Counting
<1>2. PICK to \in {"running", "compare"}, a \in {kind[o], LastCounter(o)} :
         /\ pc' = [pc EXCEPT ![o] = to] /\ at' = [at EXCEPT ![o] = a]
         /\ to = "running" => a = kind[o]
  BY DEF Finish
<1>3. /\ pc' \in [Ops -> {"idle", "create", "add", "load", "compare",
                          "storePeak", "storeTtl", "running", "sub"}]
      /\ at' \in [Ops -> Counters]
      /\ pc'[o] = to /\ at'[o] = a
      /\ \A p \in Ops : p # o => pc'[p] = pc[p] /\ at'[p] = at[p]
  BY <1>1, <1>2 DEF TypeOK
<1>4. seen' \in [Ops -> [Counters -> 0..(Modulus - 1)]] /\ stamp' \in [Ops -> Nat]
  <2>1. 0 \in 0..(Modulus - 1) /\ stamp \in [Ops -> Nat]
        /\ seen \in [Ops -> [Counters -> 0..(Modulus - 1)]]
    BY Numbers DEF TypeOK
  <2>2. seen' = [seen EXCEPT ![o][at[o]] = 0] /\ (stamp' = [stamp EXCEPT ![o] = 0] \/ stamp' = stamp)
    BY DEF Finish
  <2>3. QED
    BY <1>1, <2>1, <2>2
<1>5. TypeOK'
  BY <1>3, <1>4 DEF TypeOK
<1>6. Placed(o)'
  BY <1>1, <1>2, <1>3 DEF Placed, Counted, LastCounter, Counting
<1>7. MovesOnly(o)
  BY <1>3 DEF MovesOnly
<1> QED
  BY <1>5, <1>6, <1>7, PlacedOthers
LEMMA ComparePlaced ==
    ASSUME TypeOK, NEW o \in Ops, \A p \in Ops : Placed(p),
           Compare(o) \/ StorePeak(o) \/ StoreTtl(o)
    PROVE  TypeOK' /\ \A p \in Ops : Placed(p)'
<1>1. CASE Compare(o) /\ Finish(o)
  <2>1. /\ pc[o] = "compare"
        /\ UNCHANGED <<enabled, now, switches, current, peak, ttl, entries, kind, node, held, poll,
                       high, zeroed, switched>>
    BY <1>1 DEF Compare, clockVars, statVars, ghostVars
  <2>2. ttl' \in [Counters -> Nat]
    BY <2>1 DEF TypeOK
  <2>3. QED
    BY <1>1, <2>1, <2>2, FinishPlaced
<1>2. CASE StoreTtl(o)
  <2>1. /\ pc[o] = "storeTtl" /\ Finish(o) /\ ttl' = [ttl EXCEPT ![at[o]] = stamp[o] + Ttl]
        /\ UNCHANGED <<enabled, now, switches, current, peak, entries, kind, node, held, poll,
                       high, zeroed, switched>>
    BY <1>2 DEF StoreTtl, clockVars, ghostVars
  <2>2. ttl \in [Counters -> Nat] /\ stamp[o] + Ttl \in Nat
    BY Numbers DEF TypeOK
  <2>3. ttl' \in [Counters -> Nat]
    BY <2>1, <2>2
  <2>4. QED
    BY <2>1, <2>3, FinishPlaced
<1>3. CASE StorePeak(o) \/ (Compare(o) /\ ~Finish(o))
  <2>1. PICK to \in {"storePeak", "storeTtl"} :
           pc[o] \in {"compare", "storePeak"} /\ pc' = [pc EXCEPT ![o] = to]
    BY <1>3 DEF StorePeak, StorePeakAs, Compare
  <2>2. UNCHANGED <<enabled, now, switches, current, ttl, entries, kind, at, node, seen, stamp,
                    held, poll, high, zeroed, switched>>
    BY <1>3 DEF StorePeak, StorePeakAs, Compare, clockVars, statVars, localVars, ghostVars
  <2>3. at[o] \in Counters
    BY CounterOf
  <2>4. peak' \in [Counters -> 0..(Modulus - 1)]
    <3>1. /\ peak \in [Counters -> 0..(Modulus - 1)]
          /\ seen[o][at[o]] \in 0..(Modulus - 1)
      BY <2>3 DEF TypeOK
    <3>2. CASE StorePeak(o)
      BY <3>1, <3>2 DEF StorePeak, StorePeakAs
    <3>3. CASE Compare(o)
      BY <3>1, <3>3 DEF Compare, statVars
    <3>4. QED
      BY <1>3, <3>2, <3>3
  <2>5. /\ pc' \in [Ops -> {"idle", "create", "add", "load", "compare",
                            "storePeak", "storeTtl", "running", "sub"}]
        /\ pc'[o] = to /\ \A p \in Ops : p # o => pc'[p] = pc[p]
    BY <2>1 DEF TypeOK
  <2>6. TypeOK'
    BY <2>2, <2>4, <2>5 DEF TypeOK
  <2>7. Placed(o)'
    BY <2>1, <2>2, <2>5 DEF Placed, Counted, LastCounter, Counting
  <2>8. MovesOnly(o)
    BY <2>2, <2>5 DEF MovesOnly
  <2>9. QED
    BY <2>2, <2>6, <2>7, <2>8, PlacedOthers
<1> QED
  BY <1>1, <1>2, <1>3

LEMMA EndPlaced ==
    ASSUME TypeOK, NEW o \in Ops, \A p \in Ops : Placed(p), EndUncounted(o) \/ BeginEnd(o)
    PROVE  TypeOK' /\ \A p \in Ops : Placed(p)'
<1>1. Placed(o) /\ kind[o] \in Counters /\ kind[o] \in {"sync", "async"}
  BY CounterOf DEF TypeOK
<1>2. CASE EndUncounted(o)
  <2>1. /\ pc[o] = "running" /\ pc' = [pc EXCEPT ![o] = "idle"]
        /\ at' = [at EXCEPT ![o] = kind[o]] /\ node' = [node EXCEPT ![o] = NoNode]
        /\ held' = [held EXCEPT ![o] = {}]
        /\ switched' = (switched \/ held[o] # {})
        /\ UNCHANGED <<enabled, now, switches, current, peak, ttl, entries, kind, seen, stamp,
                       poll, high, zeroed>>
    BY <1>2 DEF EndUncounted, Idle, clockVars, statVars, localVars
  <2>2. /\ pc' \in [Ops -> {"idle", "create", "add", "load", "compare",
                            "storePeak", "storeTtl", "running", "sub"}]
        /\ at' \in [Ops -> Counters] /\ held' \in [Ops -> SUBSET Counters]
        /\ node' \in [Ops -> Nodes \cup {NoNode}]
        /\ pc'[o] = "idle" /\ at'[o] = kind[o] /\ node'[o] = NoNode /\ held'[o] = {}
        /\ \A p \in Ops : p # o => /\ pc'[p] = pc[p] /\ at'[p] = at[p]
                                   /\ node'[p] = node[p] /\ held'[p] = held[p]
    BY <1>1, <2>1 DEF TypeOK
  <2>3. switched' \in BOOLEAN
    BY <2>1
  <2>4. TypeOK'
    BY <2>1, <2>2, <2>3 DEF TypeOK
  <2>5. Placed(o)'
    BY <2>1, <2>2 DEF Placed, Counted, LastCounter, Counting
  <2>6. MovesOnly(o)
    BY <2>2 DEF MovesOnly
  <2>7. QED
    BY <2>1, <2>4, <2>5, <2>6, PlacedOthers
<1>3. CASE BeginEnd(o)
  <2>1. /\ pc[o] = "running" /\ pc' = [pc EXCEPT ![o] = "sub"]
        /\ kind[o] = "sync" \/ node[o] # NoNode
        /\ UNCHANGED <<enabled, now, switches, current, peak, ttl, entries, kind, at, node,
                       seen, stamp, held, poll, high, zeroed, switched>>
    BY <1>3 DEF BeginEnd, clockVars, statVars, localVars, ghostVars
  <2>2. /\ pc' \in [Ops -> {"idle", "create", "add", "load", "compare",
                            "storePeak", "storeTtl", "running", "sub"}]
        /\ pc'[o] = "sub" /\ \A p \in Ops : p # o => pc'[p] = pc[p]
    BY <2>1 DEF TypeOK
  <2>3. TypeOK'
    BY <2>1, <2>2 DEF TypeOK
  <2>4. Placed(o)'
    BY <1>1, <2>1, <2>2 DEF Placed, Counted, LastCounter, Counting
  <2>5. MovesOnly(o)
    BY <2>1, <2>2 DEF MovesOnly
  <2>6. QED
    BY <2>1, <2>3, <2>4, <2>5, PlacedOthers
<1> QED
  BY <1>2, <1>3

LEMMA SubPlaced ==
    ASSUME TypeOK, NEW o \in Ops, \A p \in Ops : Placed(p), Sub(o)
    PROVE  TypeOK' /\ \A p \in Ops : Placed(p)'
<1>1. /\ pc[o] = "sub"
      /\ current' = [current EXCEPT ![at[o]] = (current[at[o]] - 1) % Modulus]
      /\ held' = [held EXCEPT ![o] = @ \ {at[o]}]
      /\ switched' = (switched \/ at[o] \notin held[o])
      /\ UNCHANGED <<enabled, now, switches, peak, ttl, entries, kind, seen, stamp, poll,
                     high, zeroed>>
  BY DEF Sub, SubTo, clockVars, localVars
<1>2. at[o] \in Counters /\ kind[o] \in Counters /\ LastCounter(o) \in Counters /\ Placed(o)
  BY <1>1, CounterOf
<1>3. PICK to \in {"idle", "sub"}, a \in Counters, n \in Nodes \cup {NoNode} :
         /\ pc' = [pc EXCEPT ![o] = to] /\ at' = [at EXCEPT ![o] = a]
         /\ node' = [node EXCEPT ![o] = n]
         /\ \/ to = "idle" /\ at[o] = LastCounter(o) /\ a = kind[o] /\ n = NoNode
            \/ to = "sub" /\ at[o] # LastCounter(o) /\ a = LastCounter(o) /\ n = node[o]
  <2>1. CASE at[o] = LastCounter(o)
    BY <1>2, <2>1 DEF Sub, SubTo, Idle
  <2>2. CASE at[o] # LastCounter(o)
    <3>1. /\ pc' = [pc EXCEPT ![o] = "sub"] /\ node' = [node EXCEPT ![o] = node[o]]
          /\ node[o] \in Nodes \cup {NoNode}
      BY <1>1, <2>2 DEF Sub, SubTo, TypeOK
    <3>2. at' = [at EXCEPT ![o] = LastCounter(o)]
      BY <2>2 DEF Sub, SubTo
    <3>3. QED
      BY <1>2, <2>2, <3>1, <3>2
  <2>3. QED
    BY <2>1, <2>2
<1>4. /\ pc' \in [Ops -> {"idle", "create", "add", "load", "compare",
                          "storePeak", "storeTtl", "running", "sub"}]
      /\ at' \in [Ops -> Counters] /\ held' \in [Ops -> SUBSET Counters]
      /\ node' \in [Ops -> Nodes \cup {NoNode}]
      /\ pc'[o] = to /\ at'[o] = a /\ node'[o] = n /\ held'[o] = held[o] \ {at[o]}
      /\ \A p \in Ops : p # o => /\ pc'[p] = pc[p] /\ at'[p] = at[p]
                                 /\ node'[p] = node[p] /\ held'[p] = held[p]
  BY <1>1, <1>2, <1>3 DEF TypeOK
<1>5. current' \in [Counters -> 0..(Modulus - 1)]
  <2>1. current \in [Counters -> 0..(Modulus - 1)]
    BY DEF TypeOK
  <2>2. PICK x \in Int : x = current[at[o]] - 1
    BY <1>2, <2>1
  <2>3. x % Modulus \in 0..(Modulus - 1)
    BY Remainder, Numbers
  <2>4. current' = [current EXCEPT ![at[o]] = x % Modulus]
    BY <1>1, <2>2
  <2>5. QED
    BY <1>2, <2>1, <2>3, <2>4
<1>6. TypeOK'
  <2>1. switched' \in BOOLEAN
    BY <1>1
  <2>2. QED
    BY <1>1, <1>4, <1>5, <2>1 DEF TypeOK
<1>7. Placed(o)'
  <2>1. /\ pc'[o] = to /\ at'[o] = a /\ node'[o] = n /\ held'[o] = held[o] \ {at[o]}
        /\ kind'[o] = kind[o] /\ entries' = entries
    BY <1>1, <1>4
  <2>2. CASE to = "idle" /\ at[o] = LastCounter(o) /\ a = kind[o] /\ n = NoNode
    <3>1. held'[o] = {}
      BY <1>1, <1>2, <2>1, <2>2 DEF Placed
    <3>2. QED
      BY <2>1, <2>2, <3>1 DEF Placed, Counted, LastCounter, Counting
  <2>3. CASE to = "sub" /\ at[o] # LastCounter(o) /\ a = LastCounter(o) /\ n = node[o]
    <3>1. LastCounter(o)' = LastCounter(o) /\ Counted(o)' = Counted(o)
      BY <2>1, <2>3 DEF Counted, LastCounter
    <3>2. held'[o] \subseteq {a}
      BY <1>1, <1>2, <2>1, <2>3 DEF Placed
    <3>3. QED
      BY <1>1, <1>2, <2>1, <2>3, <3>1, <3>2 DEF Placed, Counted, Counting
  <2>4. QED
    BY <1>3, <2>2, <2>3
<1>8. MovesOnly(o)
  BY <1>4 DEF MovesOnly
<1> QED
  BY <1>1, <1>6, <1>7, <1>8, PlacedOthers
-----------------------------------------------------------------------------
(* The poll, the switch and the clock: operations stay where they are *)

Polls == [pc : {"idle", "lock", "visit", "zeroCurrent", "zeroPeak"}, at : Counters,
          left : SUBSET Counters, some : SUBSET {"sync", "async"}, cut : Int]

LEMMA PollDoneType ==
    ASSUME poll \in Polls, NEW left \in SUBSET Counters
    PROVE  PollDone(left) \in Polls
<1>1. NoPoll \in Polls
  BY Names DEF Polls, NoPoll
<1>2. [poll EXCEPT !.pc = "visit", !.at = "sync", !.left = left] \in Polls
  BY Names DEF Polls
<1> QED
  BY <1>1, <1>2 DEF PollDone

LEMMA PollTypes ==
    ASSUME TypeOK, Poll
    PROVE  /\ poll' \in Polls
           /\ current' \in [Counters -> 0..(Modulus - 1)]
           /\ peak' \in [Counters -> 0..(Modulus - 1)]
           /\ zeroed' \subseteq Counters
<1>1. /\ poll \in Polls /\ now \in Nat /\ entries \subseteq Counters /\ zeroed \subseteq Counters
      /\ current \in [Counters -> 0..(Modulus - 1)]
      /\ peak \in [Counters -> 0..(Modulus - 1)]
      /\ 0 \in 0..(Modulus - 1)
  BY Names, Numbers DEF TypeOK, Polls
<1>2. CASE PollBegin
  <2>1. now - Outdated \in Int /\ {c \in {"sync", "async"} : peak[c] > 0} \in SUBSET {"sync", "async"}
        /\ "sync" \in Counters /\ {"sync", "async"} \in SUBSET Counters
    BY <1>1, Numbers, Names
  <2>2. poll' \in Polls
    BY <1>2, <2>1 DEF PollBegin, Polls
  <2>3. QED
    BY <1>1, <1>2, <2>2 DEF PollBegin, statVars, ghostVars
<1>3. CASE PollLock
  <2>1. poll' \in Polls
    BY <1>1, <1>3 DEF PollLock, Polls
  <2>2. QED
    BY <1>1, <1>3, <2>1 DEF PollLock, statVars, ghostVars
<1>4. ASSUME NEW c \in Counters, PollVisit(c)
      PROVE  poll' \in Polls /\ UNCHANGED <<current, peak, zeroed>>
  <2>1. poll.left \ {c} \in SUBSET Counters
    BY <1>1 DEF Polls
  <2>2. PollDone(poll.left \ {c}) \in Polls
    BY <1>1, <2>1, PollDoneType
  <2>3. [poll EXCEPT !.pc = "zeroCurrent", !.at = c] \in Polls
    BY <1>1 DEF Polls
  <2>4. QED
    BY <1>4, <2>2, <2>3 DEF PollVisit, statVars, ghostVars
<1>5. poll.at \in Counters /\ poll.left \ {poll.at} \in SUBSET Counters
  BY <1>1 DEF Polls
<1>6. CASE PollZeroCurrent
  <2>1. poll' \in Polls
    BY <1>1, <1>6 DEF PollZeroCurrent, Polls
  <2>2. QED
    BY <1>1, <1>5, <1>6, <2>1 DEF PollZeroCurrent
<1>7. CASE PollZeroPeak
  <2>1. poll' \in Polls
    BY <1>1, <1>5, <1>7, PollDoneType DEF PollZeroPeak
  <2>2. QED
    BY <1>1, <1>5, <1>7, <2>1 DEF PollZeroPeak, ghostVars
<1> QED
  BY <1>1, <1>2, <1>3, <1>4, <1>6, <1>7 DEF Poll

LEMMA PollPlaced ==
    ASSUME TypeOK, \A p \in Ops : Placed(p), Poll \/ EnableStatisticCollection \/ Tick
    PROVE  TypeOK' /\ \A p \in Ops : Placed(p)'
<1>1. UNCHANGED <<ttl, entries, kind, pc, at, node, seen, stamp, held, high, switched>>
  BY DEF Poll, PollBegin, PollLock, PollVisit, PollZeroCurrent, PollZeroPeak,
         EnableStatisticCollection, Tick, statVars, opVars, localVars, ghostVars
<1>2. \A p \in Ops : Placed(p)'
  BY <1>1, PlacedSame
<1>3. enabled' \in BOOLEAN /\ now' \in Clock /\ switches' \in Nat
  <2>1. CASE Poll
    BY <2>1 DEF TypeOK, Poll, PollBegin, PollLock, PollVisit, PollZeroCurrent, PollZeroPeak,
                clockVars
  <2>2. CASE EnableStatisticCollection
    BY <2>2 DEF TypeOK, EnableStatisticCollection
  <2>3. CASE Tick
    BY <2>3 DEF TypeOK, Tick
  <2>4. QED
    BY <2>1, <2>2, <2>3
<1>4. /\ poll' \in Polls
      /\ current' \in [Counters -> 0..(Modulus - 1)]
      /\ peak' \in [Counters -> 0..(Modulus - 1)]
      /\ zeroed' \subseteq Counters
  <2>1. CASE Poll
    BY <2>1, PollTypes
  <2>2. CASE EnableStatisticCollection \/ Tick
    BY <2>2 DEF TypeOK, Polls, EnableStatisticCollection, Tick, statVars, ghostVars
  <2>3. QED
    BY <2>1, <2>2
<1>5. TypeOK'
  BY <1>1, <1>3, <1>4 DEF TypeOK, Polls
<1> QED
  BY <1>2, <1>5

LEMMA PlacedStep ==
    ASSUME TypeOK, \A p \in Ops : Placed(p), [Next]_vars
    PROVE  TypeOK' /\ \A p \in Ops : Placed(p)'
<1>1. ASSUME NEW o \in Ops, Construct(o) PROVE TypeOK' /\ \A p \in Ops : Placed(p)'
  BY <1>1, BeginPlaced, CreatePlaced, AddPlaced, LoadPlaced, ComparePlaced DEF Construct
<1>2. ASSUME NEW o \in Ops, Destruct(o) PROVE TypeOK' /\ \A p \in Ops : Placed(p)'
  BY <1>2, EndPlaced, SubPlaced DEF Destruct
<1>3. CASE UNCHANGED vars
  <2>1. UNCHANGED <<enabled, now, switches, current, peak, ttl, entries, kind, pc, at, node, seen,
                    stamp, held, poll, high, zeroed, switched>>
    BY <1>3 DEF vars, clockVars, statVars, opVars, localVars, ghostVars
  <2>2. TypeOK'
    BY <2>1 DEF TypeOK
  <2>3. QED
    BY <2>1, <2>2, PlacedSame
<1> QED
  BY <1>1, <1>2, <1>3, PollPlaced DEF Next

-----------------------------------------------------------------------------
(* The counters *)

\* What CountersExact says of one counter.
Counts(c) == ~switched /\ c \notin zeroed => Exact(c)

LEMMA CountsEach == CountersExact <=> \A c \in Counters : Counts(c)
BY DEF CountersExact, Counts

\* fetch_add: the operation is not yet counted, and the counter is wide enough.
LEMMA AddCounts ==
    ASSUME IInv, NEW o \in Ops, Add(o), NEW c \in Counters
    PROVE  Counts(c)' /\ Holders(held', c) <= high'[c] /\ high[c] <= high'[c]
<1>1. /\ pc[o] = "add"
      /\ current' = [current EXCEPT ![at[o]] = (@ + 1) % Modulus]
      /\ held' = [held EXCEPT ![o] = @ \cup {at[o]}]
      /\ high' = [high EXCEPT ![at[o]] = IF Holders(held', at[o]) > @
                                         THEN Holders(held', at[o]) ELSE @]
      /\ UNCHANGED <<zeroed, switched>>
  BY DEF Add, Advance
<1>2. /\ at[o] \in Counters /\ at[o] \notin held[o]
      /\ held \in [Ops -> SUBSET Counters] /\ high \in [Counters -> Nat]
      /\ current \in [Counters -> 0..(Modulus - 1)]
  <2>1. Placed(o) /\ TypeOK
    BY DEF IInv
  <2>2. at[o] \in Counters
    BY <2>1, CounterOf
  <2>3. at[o] \notin held[o]
    BY <1>1, <2>1 DEF Placed
  <2>4. QED
    BY <2>1, <2>2, <2>3 DEF TypeOK
<1>3. /\ Holders(held', at[o]) = Holders(held, at[o]) + 1
      /\ \A d \in Counters : d # at[o] => Holders(held', d) = Holders(held, d)
  <2>1. held'[o] = held[o] \cup {at[o]} /\ \A p \in Ops : p # o => held'[p] = held[p]
    BY <1>1, <1>2
  <2>2. QED
    BY ONLY <1>2, <2>1, o \in Ops, HoldersMore
<1>4. /\ Holders(held', at[o]) \in Nat /\ Holders(held', at[o]) < Modulus
      /\ Holders(held, c) \in Nat /\ Holders(held, c) <= high[c]
  BY HoldersNumber DEF IInv, HighIsHigh
<1>5. Counts(c)
  BY CountsEach DEF IInv
<1>6. CASE c # at[o]
  <2>1. current'[c] = current[c] /\ high'[c] = high[c] /\ Holders(held', c) = Holders(held, c)
    BY <1>1, <1>2, <1>3, <1>6
  <2>2. high[c] \in Nat
    BY <1>2
  <2>3. QED
    BY <1>1, <1>4, <1>5, <2>1, <2>2 DEF Counts, Exact
<1>7. CASE c = at[o]
  <2>1. /\ high'[c] = (IF Holders(held', c) > high[c] THEN Holders(held', c) ELSE high[c])
        /\ high[c] \in Nat
    BY <1>1, <1>2, <1>7
  <2>2. Holders(held', c) <= high'[c] /\ high[c] <= high'[c]
    BY <1>4, <1>7, <2>1
  <2>3. ASSUME Exact(c) PROVE Exact(c)'
    <3>1. PICK x \in Int : x = current[c] + 1
      BY <1>2
    <3>2. x = Holders(held', c) /\ x \in 0..(Modulus - 1)
      BY <1>3, <1>4, <1>7, <2>3, <3>1, Numbers DEF Exact
    <3>3. current'[c] = x % Modulus
      BY <1>1, <1>2, <1>7, <3>1
    <3>4. current'[c] = x
      BY <3>2, <3>3, Remainder, Numbers
    <3>5. QED
      BY <3>2, <3>4 DEF Exact
  <2>4. QED
    BY <1>1, <1>5, <2>2, <2>3 DEF Counts
<1> QED
  BY <1>6, <1>7

\* fetch_sub of a counter that counts the operation does not wrap.
LEMMA SubCounts ==
    ASSUME IInv, NEW o \in Ops, Sub(o), NEW c \in Counters
    PROVE  Counts(c)' /\ Holders(held', c) <= Holders(held, c)
<1>1. /\ pc[o] = "sub"
      /\ current' = [current EXCEPT ![at[o]] = (current[at[o]] - 1) % Modulus]
      /\ held' = [held EXCEPT ![o] = @ \ {at[o]}]
      /\ switched' = (switched \/ at[o] \notin held[o])
      /\ zeroed' = zeroed
  BY DEF Sub, SubTo
<1>2. /\ at[o] \in Counters /\ held \in [Ops -> SUBSET Counters]
      /\ current \in [Counters -> 0..(Modulus - 1)]
  BY <1>1, CounterOf DEF IInv, TypeOK
<1>3. /\ at[o] \in held[o] => Holders(held', at[o]) = Holders(held, at[o]) - 1
      /\ \A d \in Counters : d # at[o] => Holders(held', d) = Holders(held, d)
  <2>1. held'[o] = held[o] \ {at[o]} /\ \A p \in Ops : p # o => held'[p] = held[p]
    BY <1>1, <1>2
  <2>2. QED
    BY ONLY <1>2, <2>1, o \in Ops, HoldersFewer
<1>4. /\ Holders(held', c) \in Nat /\ Holders(held', c) < Modulus /\ Holders(held, c) \in Nat
  BY HoldersNumber
<1>5. Holders(held', c) <= Holders(held, c)
  <2>1. \A p \in Ops : held'[p] \subseteq held[p]
    BY <1>1, <1>2
  <2>2. QED
    BY <2>1, HoldersAtMost
<1>6. Counts(c)
  BY CountsEach DEF IInv
<1>7. CASE c # at[o]
  <2>1. current'[c] = current[c] /\ Holders(held', c) = Holders(held, c)
    BY <1>1, <1>2, <1>3, <1>7
  <2>2. QED
    BY <1>1, <1>5, <1>6, <2>1 DEF Counts, Exact
<1>8. CASE c = at[o]
  <2>1. ASSUME Exact(c), at[o] \in held[o] PROVE Exact(c)'
    <3>1. PICK x \in Int : x = current[c] - 1
      BY <1>2
    <3>2. x = Holders(held', c) /\ x \in 0..(Modulus - 1)
      BY <1>3, <1>4, <1>8, <2>1, <3>1, Numbers DEF Exact
    <3>3. current'[c] = x % Modulus
      BY <1>1, <1>2, <1>8, <3>1
    <3>4. current'[c] = x
      BY <3>2, <3>3, Remainder, Numbers
    <3>5. QED
      BY <3>2, <3>4 DEF Exact
  <2>2. QED
    BY <1>1, <1>5, <1>6, <2>1 DEF Counts
<1> QED
  BY <1>7, <1>8

\* The entry of a node is created before any operation is counted on it.
LEMMA CreateCounts ==
    ASSUME IInv, NEW o \in Ops, Create(o), NEW c \in Counters
    PROVE  Counts(c)' /\ peak'[c] <= peak[c] /\ UNCHANGED <<held, high, seen, zeroed, switched>>
<1>1. /\ pc[o] = "create" /\ UNCHANGED <<held, high, seen, zeroed, switched>>
      /\ node[o] \in Nodes /\ node[o] \in Counters
  BY CounterOf, Names DEF Create, CreateUnless, localVars, ghostVars, IInv
<1>2. /\ Counts(c) /\ current \in [Counters -> 0..(Modulus - 1)]
      /\ peak \in [Counters -> 0..(Modulus - 1)]
  BY CountsEach DEF IInv, TypeOK
<1>3. CASE UNCHANGED <<current, peak>>
  BY <1>1, <1>2, <1>3 DEF Counts, Exact
<1>4. CASE /\ node[o] \notin entries /\ current' = [current EXCEPT ![node[o]] = 0]
           /\ peak' = [peak EXCEPT ![node[o]] = 0]
  <2>1. CASE c # node[o]
    <3>1. current'[c] = current[c] /\ peak'[c] = peak[c]
      BY <1>2, <1>4, <2>1
    <3>2. QED
      BY <1>1, <1>2, <3>1 DEF Counts, Exact
  <2>2. CASE c = node[o]
    <3>1. ASSUME NEW p \in Ops PROVE c \notin held[p]
      <4> SUFFICES ASSUME c \in held[p] PROVE FALSE
        OBVIOUS
      <4>1. Placed(p) /\ kind[p] \in {"sync", "async"} /\ c \notin {"sync", "async", NoNode}
        BY <1>1, <2>2, Names DEF IInv, TypeOK
      <4>2. c = LastCounter(p) /\ kind[p] = "async" /\ c = node[p]
        BY <4>1 DEF Placed, Counted, LastCounter
      <4>3. QED
        BY <1>4, <2>2, <4>1, <4>2 DEF Placed
    <3>2. Holders(held, c) = 0
      BY <3>1, HoldersNone
    <3>3. current'[c] = 0 /\ peak'[c] = 0
      BY <1>1, <1>2, <1>4, <2>2
    <3>4. QED
      BY <1>1, <1>2, <3>2, <3>3 DEF Counts, Exact
  <2>3. QED
    BY <2>1, <2>2
<1> QED
  BY <1>3, <1>4 DEF Create, CreateUnless, statVars

\* An operation that ends uncounted is one under which collection was switched.
LEMMA EndCounts ==
    ASSUME IInv, NEW o \in Ops, EndUncounted(o), NEW c \in Counters
    PROVE  Counts(c)' /\ Holders(held', c) <= Holders(held, c)
<1>1. /\ held' = [held EXCEPT ![o] = {}] /\ switched' = (switched \/ held[o] # {})
      /\ UNCHANGED <<current, zeroed>> /\ held \in [Ops -> SUBSET Counters]
  BY DEF EndUncounted, statVars, IInv, TypeOK
<1>2. Holders(held', c) <= Holders(held, c)
  <2>1. \A p \in Ops : held'[p] \subseteq held[p]
    BY <1>1
  <2>2. QED
    BY <2>1, HoldersAtMost
<1>3. Counts(c)
  BY CountsEach DEF IInv
<1>4. ASSUME ~switched' PROVE held' = held
  BY <1>1, <1>4
<1> QED
  BY <1>1, <1>2, <1>3, <1>4 DEF Counts, Exact

\* A poll clears a counter that counts nothing, or it is noted as zeroed.
LEMMA ZeroCounts ==
    ASSUME IInv, PollZeroCurrent, NEW c \in Counters
    PROVE  Counts(c)' /\ zeroed \subseteq zeroed'
                      /\ UNCHANGED <<held, high, peak, seen, switched>>
<1>1. /\ current' = [current EXCEPT ![poll.at] = 0]
      /\ zeroed' = IF Holders(held, poll.at) > 0 THEN zeroed \cup {poll.at} ELSE zeroed
      /\ UNCHANGED <<held, high, peak, seen, switched>>
  BY DEF PollZeroCurrent, opVars, localVars
<1>2. poll.at \in Counters /\ current \in [Counters -> 0..(Modulus - 1)]
  BY DEF IInv, TypeOK
<1>3. Counts(c) /\ Holders(held, c) \in Nat
  BY CountsEach, HoldersNumber DEF IInv
<1>4. CASE c # poll.at
  <2>1. current'[c] = current[c] /\ (c \notin zeroed' => c \notin zeroed)
    BY <1>1, <1>2, <1>4
  <2>2. QED
    BY <1>1, <1>3, <2>1 DEF Counts, Exact
<1>5. CASE c = poll.at
  <2>1. current'[c] = 0 /\ (c \notin zeroed' => Holders(held, c) = 0)
    BY <1>1, <1>2, <1>3, <1>5
  <2>2. QED
    BY <1>1, <2>1 DEF Counts, Exact
<1> QED
  BY <1>4, <1>5
-----------------------------------------------------------------------------
(* The peaks *)

Clean == ~switched /\ zeroed = {}

\* While nothing was switched or cleared, whatever a step stores or loads is
\* a number that the counter has reached.
LEMMA ReachedStep ==
    ASSUME TypeOK, TypeOK', PeakWasReached, SeenWasReached,
           Clean' => Clean,
           \A c \in Counters : high[c] <= high'[c],
           Clean => \A c \in Counters : peak'[c] <= high[c],
           Clean => \A o \in Ops, c \in Counters : seen'[o][c] <= high[c]
    PROVE  PeakWasReached' /\ SeenWasReached'
<1>1. \A c \in Counters : high[c] \in Nat /\ high'[c] \in Nat /\ peak'[c] \in Nat
  BY Numbers DEF TypeOK
<1>2. \A o \in Ops, c \in Counters : seen'[o][c] \in Nat
  BY Numbers DEF TypeOK
<1>3. ASSUME Clean', NEW c \in Counters PROVE peak'[c] <= high'[c]
  BY <1>1, <1>3
<1>4. ASSUME Clean', NEW o \in Ops, NEW c \in Counters PROVE seen'[o][c] <= high'[c]
  BY <1>1, <1>2, <1>4
<1> QED
  BY <1>3, <1>4 DEF PeakWasReached, SeenWasReached, Clean

\* The steps that neither count an operation nor forget one.
LEMMA SameCounts ==
    ASSUME IInv, UNCHANGED <<current, held, high, zeroed, switched>>
    PROVE  CountersExact' /\ HighIsHigh'
BY DEF IInv, CountersExact, HighIsHigh, Exact, Holders

LEMMA LoadReached ==
    ASSUME IInv, TypeOK', NEW o \in Ops, Load(o)
    PROVE  CountersExact' /\ HighIsHigh' /\ PeakWasReached' /\ SeenWasReached'
<1>1. /\ seen' = [seen EXCEPT ![o][at[o]] = current[at[o]]]
      /\ UNCHANGED <<current, peak, held, high, zeroed, switched>>
  BY DEF Load, statVars, ghostVars
<1>2. at[o] \in Counters /\ seen \in [Ops -> [Counters -> 0..(Modulus - 1)]]
  BY DEF IInv, TypeOK
<1>3. ASSUME Clean, NEW p \in Ops, NEW c \in Counters PROVE seen'[p][c] <= high[c]
  <2>1. CASE p = o /\ c = at[o]
    <3>1. seen'[p][c] = current[c]
      BY <1>1, <1>2, <2>1
    <3>2. current[c] = Holders(held, c) /\ Holders(held, c) <= high[c]
      BY <1>3 DEF IInv, CountersExact, Exact, HighIsHigh, Clean
    <3>3. QED
      BY <3>1, <3>2
  <2>2. CASE ~(p = o /\ c = at[o])
    <3>1. seen'[p][c] = seen[p][c]
      BY <1>1, <1>2, <2>2
    <3>2. QED
      BY <1>3, <3>1 DEF IInv, SeenWasReached, Clean
  <2>3. QED
    BY <2>1, <2>2
<1>4. \A c \in Counters : high[c] \in Nat /\ high'[c] = high[c]
  BY <1>1 DEF IInv, TypeOK
<1>5. Clean => \A c \in Counters : peak'[c] <= high[c]
  BY <1>1 DEF IInv, PeakWasReached, Clean
<1>6. Clean' => Clean
  BY <1>1 DEF Clean
<1>7. PeakWasReached' /\ SeenWasReached'
  <2>1. \A c \in Counters : high[c] <= high'[c]
    BY <1>4
  <2>2. TypeOK /\ PeakWasReached /\ SeenWasReached
    BY DEF IInv
  <2>3. QED
    BY <1>3, <1>5, <1>6, <2>1, <2>2, ReachedStep
<1> QED
  BY <1>1, <1>7, SameCounts

\* The steps that store a peak that was loaded, or none, and load nothing.
LEMMA OtherReached ==
    ASSUME IInv, TypeOK', UNCHANGED <<current, held, high, zeroed, switched>>,
           \A c \in Counters : \/ peak'[c] = peak[c] \/ peak'[c] = 0
                               \/ \E p \in Ops : peak'[c] = seen[p][c],
           \A p \in Ops, c \in Counters : seen'[p][c] = seen[p][c] \/ seen'[p][c] = 0
    PROVE  CountersExact' /\ HighIsHigh' /\ PeakWasReached' /\ SeenWasReached'
<1>1. \A c \in Counters : high[c] \in Nat /\ high'[c] = high[c] /\ high[c] <= high'[c]
  BY DEF IInv, TypeOK
<1>2. Clean => \A c \in Counters : peak'[c] <= high[c]
  BY <1>1 DEF IInv, PeakWasReached, SeenWasReached, Clean
<1>3. Clean => \A p \in Ops, c \in Counters : seen'[p][c] <= high[c]
  BY <1>1 DEF IInv, SeenWasReached, Clean
<1>4. Clean' => Clean
  BY DEF Clean
<1>5. PeakWasReached' /\ SeenWasReached'
  BY <1>1, <1>2, <1>3, <1>4, ReachedStep DEF IInv
<1> QED
  BY <1>5, SameCounts

LEMMA CompareReached ==
    ASSUME IInv, TypeOK', NEW o \in Ops, Compare(o) \/ StorePeak(o) \/ StoreTtl(o)
    PROVE  CountersExact' /\ HighIsHigh' /\ PeakWasReached' /\ SeenWasReached'
<1>1. UNCHANGED <<current, held, high, zeroed, switched>>
  BY DEF Compare, StorePeak, StorePeakAs, StoreTtl, statVars, ghostVars
<1>2. /\ at[o] \in Counters /\ seen \in [Ops -> [Counters -> 0..(Modulus - 1)]]
      /\ peak \in [Counters -> 0..(Modulus - 1)]
  BY DEF IInv, TypeOK
<1>3. CASE StorePeak(o)
  <2>1. peak' = [peak EXCEPT ![at[o]] = seen[o][at[o]]] /\ seen' = seen
    BY <1>3 DEF StorePeak, StorePeakAs, localVars
  <2>2. \A c \in Counters : peak'[c] = peak[c] \/ peak'[c] = seen[o][c]
    BY <1>2, <2>1
  <2>3. QED
    BY <1>1, <2>1, <2>2, OtherReached
<1>4. CASE Compare(o) \/ StoreTtl(o)
  <2>1. peak' = peak /\ (seen' = seen \/ seen' = [seen EXCEPT ![o][at[o]] = 0])
    BY <1>4 DEF Compare, StoreTtl, Finish, statVars, localVars
  <2>2. \A p \in Ops, c \in Counters : seen'[p][c] = seen[p][c] \/ seen'[p][c] = 0
    BY <1>2, <2>1
  <2>3. QED
    BY <1>1, <2>1, <2>2, OtherReached
<1> QED
  BY <1>3, <1>4

\* The steps that count an operation, uncount it, or clear a counter.
LEMMA CountReached ==
    ASSUME IInv, TypeOK', UNCHANGED seen,
           \A c \in Counters : Counts(c)' /\ Holders(held', c) <= high'[c] /\ high[c] <= high'[c],
           Clean' => Clean,
           \A c \in Counters : peak'[c] <= peak[c]
    PROVE  CountersExact' /\ HighIsHigh' /\ PeakWasReached' /\ SeenWasReached'
<1>1. CountersExact' /\ HighIsHigh'
  BY DEF Counts, CountersExact, Exact, HighIsHigh, Holders
<1>2. \A c \in Counters : high[c] \in Nat /\ peak[c] \in Nat /\ peak'[c] \in Nat
  BY Numbers DEF IInv, TypeOK
<1>3. ASSUME Clean, NEW c \in Counters PROVE peak'[c] <= high[c]
  <2>1. peak[c] <= high[c] /\ peak'[c] <= peak[c]
    BY <1>3 DEF IInv, PeakWasReached, Clean
  <2>2. QED
    BY <1>2, <2>1
<1>4. Clean => \A p \in Ops, c \in Counters : seen'[p][c] <= high[c]
  BY DEF IInv, SeenWasReached, Clean
<1>5. PeakWasReached' /\ SeenWasReached'
  BY <1>3, <1>4, ReachedStep DEF IInv
<1> QED
  BY <1>1, <1>5

LEMMA CountingStep ==
    ASSUME IInv, TypeOK', NEW o \in Ops,
           Create(o) \/ Add(o) \/ Sub(o) \/ EndUncounted(o)
    PROVE  CountersExact' /\ HighIsHigh' /\ PeakWasReached' /\ SeenWasReached'
<1>1. \A c \in Counters : /\ high[c] \in Nat /\ peak[c] \in Nat /\ Holders(held, c) <= high[c]
                          /\ Holders(held, c) \in Nat /\ Holders(held', c) \in Nat
  <2>1. \A c \in Counters : high[c] \in Nat /\ peak[c] \in Nat
    BY Numbers DEF IInv, TypeOK
  <2>2. \A c \in Counters : Holders(held, c) \in Nat /\ Holders(held', c) \in Nat
    BY HoldersNumber
  <2>3. QED
    BY <2>1, <2>2 DEF IInv, HighIsHigh
<1>2. CASE Create(o)
  <2>1. \A c \in Counters : Counts(c)' /\ peak'[c] <= peak[c]
    BY <1>2, CreateCounts
  <2>2. UNCHANGED <<held, high, seen, zeroed, switched>>
    BY <1>2 DEF Create, CreateUnless, localVars, ghostVars
  <2>3. \A c \in Counters : Holders(held', c) <= high'[c] /\ high[c] <= high'[c]
    BY <1>1, <2>2
  <2>4. Clean' => Clean
    BY <2>2 DEF Clean
  <2>5. QED
    BY <2>1, <2>2, <2>3, <2>4, CountReached
<1>3. CASE Add(o)
  <2>1. \A c \in Counters : Counts(c)' /\ Holders(held', c) <= high'[c] /\ high[c] <= high'[c]
    BY <1>3, AddCounts
  <2>2. UNCHANGED <<peak, seen, zeroed, switched>>
    BY <1>3 DEF Add, localVars
  <2>3. Clean' => Clean
    BY <2>2 DEF Clean
  <2>4. \A c \in Counters : peak'[c] <= peak[c]
    BY <1>1, <2>2
  <2>5. QED
    BY <2>1, <2>2, <2>3, <2>4, CountReached
<1>4. CASE Sub(o) \/ EndUncounted(o)
  <2>1. \A c \in Counters : Counts(c)' /\ Holders(held', c) <= Holders(held, c)
    BY <1>4, SubCounts, EndCounts
  <2>2. UNCHANGED <<peak, seen, high, zeroed>> /\ (switched => switched')
    BY <1>4 DEF Sub, SubTo, EndUncounted, statVars, localVars
  <2>3. Clean' => Clean
    BY <2>2 DEF Clean
  <2>4. \A c \in Counters : peak'[c] <= peak[c] /\ high[c] <= high'[c]
    BY <1>1, <2>2
  <2>5. ASSUME NEW c \in Counters PROVE Holders(held', c) <= high'[c]
    BY <1>1, <2>1, <2>2
  <2>6. QED
    BY <2>1, <2>2, <2>3, <2>4, <2>5, CountReached
<1> QED
  BY <1>2, <1>3, <1>4

LEMMA PollReached ==
    ASSUME IInv, TypeOK', Poll \/ EnableStatisticCollection \/ Tick
    PROVE  CountersExact' /\ HighIsHigh' /\ PeakWasReached' /\ SeenWasReached'
<1>1. \A c \in Counters : /\ high[c] \in Nat /\ peak[c] \in Nat /\ Holders(held, c) <= high[c]
  BY Numbers DEF IInv, TypeOK, HighIsHigh
<1>2. CASE PollZeroCurrent
  <2>1. \A c \in Counters : Counts(c)'
    BY <1>2, ZeroCounts
  <2>2. UNCHANGED <<held, high, peak, seen, switched>> /\ zeroed \subseteq zeroed'
    BY <1>2 DEF PollZeroCurrent, opVars, localVars
  <2>3. Clean' => Clean
    BY <2>2 DEF Clean
  <2>4. \A c \in Counters : /\ peak'[c] <= peak[c] /\ high[c] <= high'[c]
                            /\ Holders(held', c) <= high'[c]
    BY <1>1, <2>2
  <2>5. QED
    BY <2>1, <2>2, <2>3, <2>4, CountReached
<1>3. CASE PollZeroPeak
  <2>1. peak' = [peak EXCEPT ![poll.at] = 0] /\ UNCHANGED <<current, held, high, seen, zeroed, switched>>
    BY <1>3 DEF PollZeroPeak, opVars, localVars, ghostVars
  <2>2. \A c \in Counters : peak'[c] = peak[c] \/ peak'[c] = 0
    BY <2>1 DEF IInv, TypeOK
  <2>3. QED
    BY <2>1, <2>2, OtherReached
<1>4. CASE PollBegin \/ PollLock \/ (\E c \in Counters : PollVisit(c))
           \/ EnableStatisticCollection \/ Tick
  <2>1. UNCHANGED <<current, peak, held, high, seen, zeroed, switched>>
    BY <1>4 DEF PollBegin, PollLock, PollVisit, EnableStatisticCollection, Tick,
                statVars, opVars, localVars, ghostVars
  <2>2. QED
    BY <2>1, OtherReached
<1> QED
  BY <1>2, <1>3, <1>4 DEF Poll

-----------------------------------------------------------------------------
LEMMA InitIInv == Init => IInv
<1> SUFFICES ASSUME Init PROVE IInv
  OBVIOUS
<1>1. 0 \in 0..(Modulus - 1) /\ {"sync", "async"} \subseteq Counters /\ 0 \in Int
  BY Numbers, Names
<1>2. Zeros \in [Counters -> 0..(Modulus - 1)] /\ Zeros \in [Counters -> Nat]
  BY <1>1 DEF Zeros
<1>3. /\ current = Zeros /\ peak = Zeros /\ ttl = Zeros /\ high = Zeros /\ entries = {}
      /\ pc = [o \in Ops |-> "idle"] /\ kind \in [Ops -> {"sync", "async"}] /\ at = kind
      /\ node = [o \in Ops |-> NoNode] /\ seen = [o \in Ops |-> Zeros] /\ stamp = [o \in Ops |-> 0]
      /\ poll = NoPoll /\ held = [o \in Ops |-> {}]
      /\ zeroed = {} /\ switched = FALSE /\ switches = 0 /\ enabled = FALSE /\ now \in Clock
  BY DEF Init
<1>4. TypeOK
  <2>1. poll \in Polls
    BY <1>1, <1>3 DEF NoPoll, Polls
  <2>2. /\ current \in [Counters -> 0..(Modulus - 1)] /\ peak \in [Counters -> 0..(Modulus - 1)]
        /\ ttl \in [Counters -> Nat] /\ high \in [Counters -> Nat]
        /\ seen \in [Ops -> [Counters -> 0..(Modulus - 1)]]
    BY <1>2, <1>3
  <2>3. /\ at \in [Ops -> Counters] /\ stamp \in [Ops -> Nat] /\ held \in [Ops -> SUBSET Counters]
        /\ node \in [Ops -> Nodes \cup {NoNode}]
        /\ pc \in [Ops -> {"idle", "create", "add", "load", "compare",
                           "storePeak", "storeTtl", "running", "sub"}]
    BY <1>1, <1>3
  <2>4. QED
    BY <1>3, <2>1, <2>2, <2>3 DEF TypeOK, Polls
<1>5. \A o \in Ops : Placed(o)
  BY <1>3 DEF Placed, Counted, LastCounter, Counting
<1>6. \A c \in Counters : Holders(held, c) = 0
  BY <1>3, HoldersNone
<1>7. \A c \in Counters : current[c] = 0 /\ peak[c] = 0 /\ high[c] = 0
  BY <1>3 DEF Zeros
<1>8. \A o \in Ops, c \in Counters : seen[o][c] = 0
  BY <1>3 DEF Zeros
<1>9. CountersExact /\ HighIsHigh
  BY <1>6, <1>7 DEF CountersExact, Exact, HighIsHigh
<1>10. PeakWasReached /\ SeenWasReached
  BY <1>7, <1>8 DEF PeakWasReached, SeenWasReached
<1> QED
  BY <1>4, <1>5, <1>9, <1>10 DEF IInv

LEMMA IInvStep == IInv /\ [Next]_vars => IInv'
<1> SUFFICES ASSUME IInv, [Next]_vars PROVE IInv'
  OBVIOUS
<1>1. TypeOK' /\ \A p \in Ops : Placed(p)'
  BY PlacedStep DEF IInv
<1>2. SUFFICES CountersExact' /\ HighIsHigh' /\ PeakWasReached' /\ SeenWasReached'
  BY <1>1 DEF IInv
<1>3. ASSUME NEW o \in Ops, Load(o) PROVE CountersExact' /\ HighIsHigh' /\ PeakWasReached' /\ SeenWasReached'
  BY <1>1, <1>3, LoadReached
<1>4. ASSUME NEW o \in Ops, Compare(o) \/ StorePeak(o) \/ StoreTtl(o)
      PROVE  CountersExact' /\ HighIsHigh' /\ PeakWasReached' /\ SeenWasReached'
  BY <1>1, <1>4, CompareReached
<1>5. ASSUME NEW o \in Ops, Create(o) \/ Add(o) \/ Sub(o) \/ EndUncounted(o)
      PROVE  CountersExact' /\ HighIsHigh' /\ PeakWasReached' /\ SeenWasReached'
  BY <1>1, <1>5, CountingStep
<1>6. CASE Poll \/ EnableStatisticCollection \/ Tick
  BY <1>1, <1>6, PollReached
<1>7. ASSUME NEW o \in Ops,
             BeginUncounted(o) \/ BeginSync(o) \/ (\E n \in Nodes : BeginAsync(o, n)) \/ BeginEnd(o)
      PROVE  CountersExact' /\ HighIsHigh' /\ PeakWasReached' /\ SeenWasReached'
  <2>1. UNCHANGED <<current, peak, held, high, seen, zeroed, switched>>
    BY <1>7 DEF BeginUncounted, BeginSync, BeginAsync, Begin, BeginEnd, statVars, localVars, ghostVars
  <2>2. QED
    BY <1>1, <2>1, OtherReached
<1>8. CASE UNCHANGED vars
  <2>1. UNCHANGED <<current, peak, held, high, seen, zeroed, switched>>
    BY <1>8 DEF vars, statVars, opVars, localVars, ghostVars
  <2>2. QED
    BY <1>1, <2>1, OtherReached
<1> QED
  BY <1>3, <1>4, <1>5, <1>6, <1>7, <1>8 DEF Next, Construct, Destruct

LEMMA Invariance == Spec => []IInv
BY InitIInv, IInvStep, PTL DEF Spec

-----------------------------------------------------------------------------
\* Every variable keeps its type; in particular an operation works on a
\* counter that exists, whatever was switched while it ran.
THEOREM TypeCorrect == Spec => []TypeOK
<1>1. IInv => TypeOK
  BY DEF IInv
<1> QED
  BY <1>1, Invariance, PTL

\* A counter is the number of operations it counts, unless collection was
\* switched under an operation or a poll cleared it under one.
THEOREM CountersAreExact == Spec => []CountersExact
<1>1. IInv => CountersExact
  BY DEF IInv
<1> QED
  BY <1>1, Invariance, PTL

\* No peak exceeds what its counter has counted at one time, however late the
\* constructors compare and store.
THEOREM PeaksWereReached == Spec => []PeakWasReached
<1>1. IInv => PeakWasReached
  BY DEF IInv
<1> QED
  BY <1>1, Invariance, PTL
=============================================================================
