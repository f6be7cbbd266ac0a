-------------------------- MODULE CdtRecordProofs ---------------------------
(***************************************************************************)
(* Proofs about CdtRecord, for any calls on any records and lists of any   *)
(* length.                                                                 *)
(*                                                                         *)
(* The lists are read and the operations run by recursive functions.  What *)
(* they yield is proved by induction, with sets in place of predicates:    *)
(* a set of numbers that has 0 and the successor of each of its members    *)
(* has every number.                                                       *)
(***************************************************************************)
EXTENDS CdtRecord, SequenceLemmas, FiniteSetTheorems, WellFoundedInduction, TLAPS

-----------------------------------------------------------------------------
(* Induction and recursion *)

LEMMA LeastNumber ==
    ASSUME NEW T, T \subseteq Nat, T # {}
    PROVE  \E x \in T : \A y \in T : x <= y
<1>1. PICK R : R = OpToRel(<, Nat)
  OBVIOUS
<1>2. IsWellFoundedOn(R, Nat)
  BY <1>1, NatLessThanWellFounded
<1>3. PICK x \in T : \A y \in T : ~(<<y, x>> \in R)
  BY <1>2, WFMin
<1>4. ASSUME NEW y \in T PROVE x <= y
  <2>1. x \in Nat /\ y \in Nat
    OBVIOUS
  <2>2. y < x => <<y, x>> \in R
    BY <1>1, <2>1 DEF OpToRel
  <2>3. QED
    BY <1>3, <2>1, <2>2
<1> QED
  BY <1>3, <1>4

LEMMA Induction ==
    ASSUME NEW T, 0 \in T, \A n \in Nat : n \in T => n + 1 \in T
    PROVE  \A n \in Nat : n \in T
<1> SUFFICES ASSUME NEW m \in Nat, m \notin T PROVE FALSE
  OBVIOUS
<1>1. PICK x \in Nat \ T : \A y \in Nat \ T : x <= y
  BY LeastNumber
<1>2. x # 0 /\ x - 1 \in Nat /\ (x - 1) + 1 = x /\ ~(x <= x - 1)
  BY <1>1
<1> QED
  BY <1>1, <1>2

\* The same as far as n.
LEMMA InductionTo ==
    ASSUME NEW n \in Nat, NEW T, 0 \in T, \A i \in 1..n : i - 1 \in T => i \in T
    PROVE  \A i \in 0..n : i \in T
<1> DEFINE U == {i \in Nat : i <= n => i \in T}
<1>1. 0 \in U
  OBVIOUS
<1>2. ASSUME NEW i \in Nat, i \in U PROVE i + 1 \in U
  <2>1. i + 1 <= n => i <= n /\ i + 1 \in 1..n /\ (i + 1) - 1 = i
    OBVIOUS
  <2>2. QED
    BY <1>2, <2>1
<1> HIDE DEF U
<1>3. \A i \in Nat : i \in U
  BY <1>1, <1>2, Induction
<1> QED
  BY <1>3 DEF U

\* The largest of a set of numbers that has a bound
LEMMA Largest ==
    ASSUME NEW T, T \subseteq Nat, T # {}, NEW n \in Nat, \A x \in T : x <= n
    PROVE  Max(T) \in T /\ \A y \in T : y <= Max(T)
<1> DEFINE B == {k \in Nat : \A x \in T : x <= k}
<1>1. B \subseteq Nat /\ n \in B
  OBVIOUS
<1>2. PICK m \in B : \A k \in B : m <= k
  BY <1>1, LeastNumber
<1>3. m \in Nat /\ \A x \in T : x <= m
  BY <1>2
<1>4. m \in T
  <2>1. SUFFICES ASSUME m \notin T PROVE FALSE
    OBVIOUS
  <2>2. \A x \in T : x < m /\ x <= m - 1 /\ x \in Nat
    BY <1>3, <2>1
  <2>3. m - 1 \in Nat
    <3>1. PICK x \in T : x \in Nat /\ x < m
      BY <2>2
    <3>2. QED
      BY <1>3, <3>1
  <2>4. m - 1 \in B
    BY <2>2, <2>3
  <2>5. QED
    BY <1>2, <1>3, <2>4
<1>5. \E x \in T : \A y \in T : x >= y
  BY <1>3, <1>4
<1>6. Max(T) \in T /\ \A y \in T : Max(T) >= y
  BY <1>5 DEF Max
<1> QED
  BY <1>6

\* A function is defined by its first value and what each value makes of the one before.
Steps(A, n) == [1..n -> [A -> A]]
Goes(g, A, a, n, step) == /\ g \in [0..n -> A] /\ g[0] = a
                          /\ \A i \in 1..n : g[i] = step[i][g[i - 1]]

LEMMA Recursion ==
    ASSUME NEW A, NEW a \in A, NEW n \in Nat, NEW step \in Steps(A, n)
    PROVE  \E g : Goes(g, A, a, n, step)
<1>0. step \in [1..n -> [A -> A]]
  BY DEF Steps
<1> DEFINE Upto(k, g) == g[0] = a /\ \A i \in 1..k : g[i] = step[i][g[i - 1]]
<1> DEFINE T == {k \in 0..n : \E g \in [0..k -> A] : Upto(k, g)}
<1>1. 0 \in T
  <2> DEFINE g == [i \in 0..0 |-> a]
  <2>1. g \in [0..0 -> A] /\ g[0] = a /\ 1..0 = {} /\ 0 \in 0..n
    OBVIOUS
  <2> HIDE DEF g
  <2>2. \E h \in [0..0 -> A] : Upto(0, h)
    BY <2>1
  <2>3. QED
    BY <2>1, <2>2
<1>2. ASSUME NEW k \in 1..n, k - 1 \in T PROVE k \in T
  <2>1. PICK g \in [0..k - 1 -> A] : Upto(k - 1, g)
    BY <1>2
  <2> DEFINE h == [i \in 0..k |-> IF i = k THEN step[k][g[k - 1]] ELSE g[i]]
  <2>2. k - 1 \in 0..k - 1 /\ \A i \in 0..k : i # k => i \in 0..k - 1
    OBVIOUS
  <2>3. step[k][g[k - 1]] \in A
    BY <1>0, <2>1, <2>2
  <2>4. h \in [0..k -> A]
    BY <2>2, <2>3
  <2>5. h[k] = step[k][g[k - 1]] /\ \A i \in 0..k - 1 : h[i] = g[i]
    BY <2>2
  <2> HIDE DEF h
  <2>6. h[0] = a
    BY <2>1, <2>5
  <2>7. ASSUME NEW i \in 1..k PROVE h[i] = step[i][h[i - 1]]
    <3>1. i - 1 \in 0..k - 1 /\ (i = k \/ i \in 1..k - 1)
      OBVIOUS
    <3>2. h[i - 1] = g[i - 1]
      BY <2>5, <3>1
    <3>3. i \in 1..k - 1 => h[i] = g[i] /\ g[i] = step[i][g[i - 1]]
      BY <2>1, <2>5
    <3>4. QED
      BY <2>5, <3>1, <3>2, <3>3
  <2>8. \E f \in [0..k -> A] : Upto(k, f)
    BY <2>4, <2>6, <2>7
  <2>9. k \in 0..n
    OBVIOUS
  <2>10. QED
    BY <2>8, <2>9
<1> HIDE DEF T
<1>3. \A i \in 1..n : i - 1 \in T => i \in T
  BY <1>2
<1>4. \A i \in 0..n : i \in T
  BY <1>1, <1>3, InductionTo
<1>5. n \in T
  BY <1>4
<1>6. PICK g \in [0..n -> A] : Upto(n, g)
  BY <1>5 DEF T
<1>7. Goes(g, A, a, n, step)
  BY <1>6 DEF Goes
<1> QED
  BY <1>7

-----------------------------------------------------------------------------
(* What the recursive functions of the model are *)

LEMMA Flattened ==
    ASSUME NEW S, NEW ss \in Seq(Seq(S))
    PROVE  \E g \in [0..Len(ss) -> Seq(S)] :
              /\ g[0] = <<>> /\ FlattenSeq(ss) = g[Len(ss)]
              /\ \A i \in 1..Len(ss) : g[i] = g[i - 1] \o ss[i]
<1>1. PICK n \in Nat : n = Len(ss)
  BY LenProperties
<1>2. ss \in [1..n -> Seq(S)]
  BY <1>1
<1> DEFINE step == [i \in 1..n |-> [t \in Seq(S) |-> t \o ss[i]]]
<1>3. step \in [1..n -> [Seq(S) -> Seq(S)]]
  <2>1. \A i \in 1..n : \A t \in Seq(S) : t \o ss[i] \in Seq(S)
    BY <1>2, ConcatProperties
  <2>2. QED
    BY <2>1
<1>4. \A i \in 1..n : \A t \in Seq(S) : step[i][t] = t \o ss[i]
  OBVIOUS
<1>5. <<>> \in Seq(S)
  OBVIOUS
<1> HIDE DEF step
<1>6. PICK g \in [0..n -> Seq(S)] : g[0] = <<>> /\ \A i \in 1..n : g[i] = step[i][g[i - 1]]
  <2>1. step \in Steps(Seq(S), n)
    BY <1>3 DEF Steps
  <2>2. \E g : Goes(g, Seq(S), <<>>, n, step)
    BY <1>5, <2>1, Recursion
  <2>3. QED
    BY <2>2 DEF Goes
<1>7. \A i \in 1..n : g[i] = g[i - 1] \o ss[i]
  <2>1. \A i \in 1..n : i - 1 \in 0..n
    BY <1>1
  <2>2. QED
    BY <1>4, <1>6, <2>1
<1>8. n > 0 => g[1] = ss[1]
  <2>1. n > 0 => g[1] = <<>> \o ss[1] /\ ss[1] \in Seq(S)
    <3>1. n > 0 => 1 \in 1..n /\ 1 - 1 = 0
      OBVIOUS
    <3>2. QED
      BY <1>2, <1>6, <1>7, <3>1
  <2>2. QED
    BY <2>1, ConcatEmptySeq
<1>9. ASSUME n > 0 PROVE FlattenSeq(ss) = g[n]
  <2> DEFINE Is(h) == h = [i \in 1..n |-> IF i = 1 THEN ss[i] ELSE h[i - 1] \o ss[i]]
  <2> DEFINE c == CHOOSE h : Is(h)
  <2> DEFINE k == [i \in 1..n |-> g[i]]
  <2>1. Is(k)
    <3>1. \A i \in 1..n : k[i] = g[i]
      OBVIOUS
    <3>2. \A i \in 1..n : i # 1 => i - 1 \in 1..n /\ k[i - 1] = g[i - 1]
      OBVIOUS
    <3>3. k = [i \in 1..n |-> k[i]]
      OBVIOUS
    <3> HIDE DEF k
    <3>4. ASSUME NEW i \in 1..n PROVE k[i] = IF i = 1 THEN ss[i] ELSE k[i - 1] \o ss[i]
      <4>1. i = 1 => k[i] = ss[i]
        BY <1>8, <3>1
      <4>2. i # 1 => k[i] = k[i - 1] \o ss[i]
        BY <1>7, <3>1, <3>2
      <4>3. QED
        BY <4>1, <4>2
    <3>5. QED
      BY <3>3, <3>4
  <2>2. Is(c)
    <3> HIDE DEF Is
    <3>1. QED
      BY <2>1
  <2>3. FlattenSeq(ss) = c[n]
    BY <1>1, <1>9 DEF FlattenSeq
  <2> HIDE DEF c
  <2>4. \A i \in 1..n : c[i] = IF i = 1 THEN ss[i] ELSE c[i - 1] \o ss[i]
    BY <2>2
  <2> HIDE DEF Is
  <2> DEFINE T == {i \in Nat : i > 0 => c[i] = g[i]}
  <2>5. 0 \in T
    OBVIOUS
  <2>6. ASSUME NEW i \in 1..n, i - 1 \in T PROVE i \in T
    <3>1. i = 1 => c[i] = g[i]
      BY <1>8, <2>4
    <3>2. i # 1 => i - 1 > 0 /\ c[i - 1] = g[i - 1]
      BY <2>6
    <3>3. i # 1 => c[i] = g[i]
      BY <1>7, <2>4, <3>2
    <3>4. QED
      BY <3>1, <3>3
  <2> HIDE DEF T
  <2>7. \A i \in 0..n : i \in T
    BY <2>5, <2>6, InductionTo
  <2>8. n \in T
    BY <2>7
  <2>9. c[n] = g[n]
    BY <1>9, <2>8 DEF T
  <2>10. QED
    BY <2>3, <2>9
<1>10. n = 0 => FlattenSeq(ss) = g[n]
  <2>1. n = 0 => ss = <<>>
    BY <1>1, EmptySeq
  <2>2. QED
    BY <1>1, <1>6, <2>1 DEF FlattenSeq
<1>11. FlattenSeq(ss) = g[n]
  BY <1>9, <1>10
<1> QED
  BY <1>1, <1>6, <1>7, <1>11

\* The operations of a command name cells, and items that are no keys.
Named == Bins \X (Items \cup Keys) \X Fields
OpSet == [clear : SUBSET Named, set : SUBSET Named, triple : Nat]

\* The writers that the cells may name include the call n.
MayHold(D, n) == Nobody \in D /\ \A i \in Nat : <<n, i>> \in D

LEMMA RunningIs ==
    ASSUME NEW D, NEW n, MayHold(D, n),
           NEW cells \in [Cells -> D], NEW ops \in Seq(OpSet)
    PROVE  /\ Running(cells, ops, n)[0] = cells
           /\ \A j \in 0..Len(ops) : Running(cells, ops, n)[j] \in [Cells -> D]
           /\ \A j \in 1..Len(ops) :
                Running(cells, ops, n)[j] = Run(Running(cells, ops, n)[j - 1], ops[j], n)
<1>1. PICK m \in Nat : m = Len(ops)
  BY LenProperties
<1> DEFINE A == [Cells -> D]
<1> DEFINE step == [j \in 1..m |-> [x \in A |-> Run(x, ops[j], n)]]
<1>2. ASSUME NEW j \in 1..m, NEW x \in A PROVE Run(x, ops[j], n) \in A
  <2>1. ops[j] \in OpSet
    BY <1>1
  <2>2. ops[j].triple \in Nat
    BY <2>1 DEF OpSet
  <2>3. <<n, ops[j].triple>> \in D /\ Nobody \in D
    BY <2>2 DEF MayHold
  <2>4. QED
    BY <2>3 DEF Run
<1>3. step \in Steps(A, m)
  BY <1>2 DEF Steps
<1>4. \A j \in 1..m : \A x \in A : step[j][x] = Run(x, ops[j], n)
  OBVIOUS
<1> HIDE DEF step
<1>5. PICK g : Goes(g, A, cells, m, step)
  <2> HIDE DEF A
  <2>1. cells \in A
    BY DEF A
  <2>2. QED
    BY <1>3, <2>1, Recursion
<1> HIDE DEF A
<1>6. /\ g \in [0..m -> A] /\ g[0] = cells
      /\ \A j \in 1..m : g[j] = Run(g[j - 1], ops[j], n)
  <2>1. \A j \in 1..m : j - 1 \in 0..m
    OBVIOUS
  <2>2. QED
    BY <1>4, <1>5, <2>1 DEF Goes
<1> DEFINE Is(h) == h = [j \in 0..m |-> IF j = 0 THEN cells ELSE Run(h[j - 1], ops[j], n)]
<1> DEFINE c == CHOOSE h : Is(h)
<1>7. Is(g)
  BY <1>6
<1>8. Is(c)
  <2> HIDE DEF Is
  <2>1. QED
    BY <1>7
<1>9. Running(cells, ops, n) = c
  BY <1>1 DEF Running
<1> HIDE DEF c
<1>10. c[0] = cells /\ \A j \in 1..m : c[j] = Run(c[j - 1], ops[j], n)
  BY <1>8
<1> HIDE DEF Is
<1> DEFINE T == {j \in 0..m : c[j] = g[j]}
<1>11. 0 \in T
  BY <1>6, <1>10
<1>12. ASSUME NEW j \in 1..m, j - 1 \in T PROVE j \in T
  BY <1>6, <1>10, <1>12
<1> HIDE DEF T
<1>13. \A j \in 0..m : j \in T
  BY <1>11, <1>12, InductionTo
<1>14. \A j \in 0..m : c[j] \in A
  BY <1>6, <1>13 DEF T
<1> QED
  BY <1>1, <1>9, <1>10, <1>14 DEF A

-----------------------------------------------------------------------------
(* What operations do to one cell *)

Touches(op, c) == c \in op.set \/ c \in op.clear
Does(op, c)    == IF c \in op.set THEN {op.triple} ELSE {-1}

\* Together the operations mean m for the cell c, as in Meaning: the last one
\* that touches it decides.
Tell(ops, c, m) ==
    \/ m = {} /\ \A j \in 1..Len(ops) : ~Touches(ops[j], c)
    \/ \E j \in 1..Len(ops) : /\ Touches(ops[j], c) /\ m = Does(ops[j], c)
                              /\ \A i \in j + 1..Len(ops) : ~Touches(ops[i], c)

After(old, m, n) == IF m = {} THEN old ELSE IF Only(m) = -1 THEN Nobody ELSE <<n, Only(m)>>

LEMMA RunningTells ==
    ASSUME NEW D, NEW n, MayHold(D, n),
           NEW cells \in [Cells -> D], NEW ops \in Seq(OpSet),
           NEW c \in Cells, NEW m, Tell(ops, c, m)
    PROVE  Running(cells, ops, n)[Len(ops)][c] = After(cells[c], m, n)
<1>1. PICK k \in Nat : k = Len(ops)
  BY LenProperties
<1>2. PICK g : g = Running(cells, ops, n)
  OBVIOUS
<1>3. g[0] = cells /\ \A j \in 1..k : g[j] = Run(g[j - 1], ops[j], n)
  BY <1>1, <1>2, RunningIs
<1>4. ASSUME NEW j \in 1..k
      PROVE  /\ ~Touches(ops[j], c) => g[j][c] = g[j - 1][c]
             /\ Touches(ops[j], c) => g[j][c] = After(cells[c], Does(ops[j], c), n)
  <2>1. ops[j] \in OpSet
    BY <1>1
  <2>2. ops[j].triple \in Nat
    BY <2>1 DEF OpSet
  <2>3. g[j][c] = IF c \in ops[j].set THEN <<n, ops[j].triple>>
                  ELSE IF c \in ops[j].clear THEN Nobody ELSE g[j - 1][c]
    <3>1. PICK h, op : h = g[j - 1] /\ op = ops[j]
      OBVIOUS
    <3>2. g[j] = Run(h, op, n)
      BY <1>3, <3>1
    <3>3. Run(h, op, n)[c] = IF c \in op.set THEN <<n, op.triple>>
                             ELSE IF c \in op.clear THEN Nobody ELSE h[c]
      BY DEF Run
    <3>4. QED
      BY <3>1, <3>2, <3>3
  <2>4. c \in ops[j].set => After(cells[c], Does(ops[j], c), n) = <<n, ops[j].triple>>
    <3>1. PICK t \in Nat : t = ops[j].triple
      BY <2>2
    <3>2. Only({t}) = t /\ t # -1 /\ {t} # {}
      BY DEF Only
    <3>3. c \in ops[j].set => Does(ops[j], c) = {t}
      BY <3>1 DEF Does
    <3>4. After(cells[c], {t}, n) = <<n, t>>
      BY <3>2 DEF After
    <3>5. QED
      BY <3>1, <3>3, <3>4
  <2>5. c \notin ops[j].set => After(cells[c], Does(ops[j], c), n) = Nobody
    <3>1. Only({-1}) = -1 /\ {-1} # {}
      BY DEF Only
    <3>2. QED
      BY <3>1 DEF After, Does
  <2>6. QED
    BY <2>3, <2>4, <2>5 DEF Touches
<1>5. CASE m = {} /\ \A j \in 1..k : ~Touches(ops[j], c)
  <2> DEFINE T == {j \in 0..k : g[j][c] = cells[c]}
  <2>1. 0 \in T
    BY <1>3
  <2>2. ASSUME NEW j \in 1..k, j - 1 \in T PROVE j \in T
    BY <1>4, <1>5, <2>2
  <2> HIDE DEF T
  <2>3. \A j \in 0..k : j \in T
    BY <2>1, <2>2, InductionTo
  <2>4. g[k][c] = cells[c]
    BY <2>3 DEF T
  <2>5. QED
    BY <1>1, <1>2, <1>5, <2>4 DEF After
<1>6. CASE \E j \in 1..k : /\ Touches(ops[j], c) /\ m = Does(ops[j], c)
                           /\ \A i \in j + 1..k : ~Touches(ops[i], c)
  <2>1. PICK j \in 1..k : /\ Touches(ops[j], c) /\ m = Does(ops[j], c)
                          /\ \A i \in j + 1..k : ~Touches(ops[i], c)
    BY <1>6
  <2> DEFINE T == {i \in 0..k : i >= j => g[i][c] = g[j][c]}
  <2>2. 0 \in T
    OBVIOUS
  <2>3. ASSUME NEW i \in 1..k, i - 1 \in T PROVE i \in T
    <3>1. i > j => i \in j + 1..k /\ i - 1 >= j
      OBVIOUS
    <3>2. i > j => g[i][c] = g[i - 1][c]
      BY <1>4, <2>1, <3>1
    <3>3. i > j => g[i - 1][c] = g[j][c]
      BY <2>3, <3>1
    <3>4. QED
      BY <3>2, <3>3
  <2> HIDE DEF T
  <2>4. \A i \in 0..k : i \in T
    BY <2>2, <2>3, InductionTo
  <2>5. g[k][c] = g[j][c]
    BY <2>4 DEF T
  <2>6. QED
    BY <1>1, <1>2, <1>4, <2>1, <2>5
<1> QED
  BY <1>1, <1>5, <1>6 DEF Tell

LEMMA NothingTells ==
    ASSUME NEW c
    PROVE  Tell(<<>>, c, {})
BY DEF Tell

LEMMA OneTells ==
    ASSUME NEW op, NEW c
    PROVE  Tell(<<op>>, c, IF Touches(op, c) THEN Does(op, c) ELSE {})
<1>1. Len(<<op>>) = 1 /\ <<op>>[1] = op /\ 1 \in 1..1 /\ 1 + 1..1 = {}
  OBVIOUS
<1> QED
  BY <1>1 DEF Tell

LEMMA TellNext ==
    ASSUME NEW s \in Seq(OpSet), NEW t \in Seq(OpSet), NEW c, NEW m, NEW l,
           Tell(s, c, m), Tell(t, c, l)
    PROVE  Tell(s \o t, c, IF l = {} THEN m ELSE l)
<1>1. PICK a \in Nat : a = Len(s)
  BY LenProperties
<1>2. PICK b \in Nat : b = Len(t)
  BY LenProperties
<1>3. PICK u : u = s \o t
  OBVIOUS
<1>4. /\ Len(u) = a + b
      /\ \A i \in 1..a : u[i] = s[i]
      /\ \A i \in 1..b : u[a + i] = t[i]
  BY <1>1, <1>2, <1>3, Concatenation
<1>5. ASSUME NEW j \in 1..b, l = Does(t[j], c), Touches(t[j], c),
             \A i \in j + 1..b : ~Touches(t[i], c)
      PROVE  Tell(u, c, l) /\ l # {}
  <2>1. a + j \in 1..a + b /\ u[a + j] = t[j]
    BY <1>4
  <2>2. ASSUME NEW i \in a + j + 1..a + b PROVE ~Touches(u[i], c)
    <3>1. PICK k \in j + 1..b : i = a + k
      <4>1. i - a \in j + 1..b /\ i = a + (i - a)
        OBVIOUS
      <4>2. QED
        BY <4>1
    <3>2. u[i] = t[k]
      BY <1>4, <3>1
    <3>3. QED
      BY <1>5, <3>2
  <2>3. l # {}
    BY <1>5 DEF Does
  <2>4. QED
    BY <1>4, <1>5, <2>1, <2>2, <2>3 DEF Tell
<1>6. ASSUME l = {}, \A j \in 1..b : ~Touches(t[j], c)
      PROVE  Tell(u, c, m)
  <2>1. ASSUME NEW i \in a + 1..a + b PROVE ~Touches(u[i], c)
    <3>1. PICK k \in 1..b : i = a + k
      <4>1. i - a \in 1..b /\ i = a + (i - a)
        OBVIOUS
      <4>2. QED
        BY <4>1
    <3>2. u[i] = t[k]
      BY <1>4, <3>1
    <3>3. QED
      BY <1>6, <3>2
  <2>2. \A i \in 1..a + b : i \in 1..a \/ i \in a + 1..a + b
    OBVIOUS
  <2>3. CASE m = {} /\ \A j \in 1..a : ~Touches(s[j], c)
    <3>1. \A i \in 1..a + b : ~Touches(u[i], c)
      BY <1>4, <2>1, <2>2, <2>3
    <3>2. QED
      BY <1>4, <2>3, <3>1 DEF Tell
  <2>4. CASE \E j \in 1..a : /\ Touches(s[j], c) /\ m = Does(s[j], c)
                             /\ \A i \in j + 1..a : ~Touches(s[i], c)
    <3>1. PICK j \in 1..a : /\ Touches(s[j], c) /\ m = Does(s[j], c)
                            /\ \A i \in j + 1..a : ~Touches(s[i], c)
      BY <2>4
    <3>2. j \in 1..a + b /\ u[j] = s[j]
      BY <1>4
    <3>3. ASSUME NEW i \in j + 1..a + b PROVE ~Touches(u[i], c)
      <4>1. i \in j + 1..a \/ i \in a + 1..a + b
        OBVIOUS
      <4>2. i \in j + 1..a => u[i] = s[i]
        BY <1>4
      <4>3. QED
        BY <2>1, <3>1, <4>1, <4>2
    <3>4. QED
      BY <1>4, <3>1, <3>2, <3>3 DEF Tell
  <2>5. QED
    BY <1>1, <2>3, <2>4 DEF Tell
<1>7. Tell(u, c, IF l = {} THEN m ELSE l)
  <2>1. CASE l = {} /\ \A j \in 1..b : ~Touches(t[j], c)
    BY <1>6, <2>1
  <2>2. CASE \E j \in 1..b : /\ Touches(t[j], c) /\ l = Does(t[j], c)
                             /\ \A i \in j + 1..b : ~Touches(t[i], c)
    <3>1. Tell(u, c, l) /\ l # {}
      BY <1>5, <2>2
    <3>2. QED
      BY <3>1
  <2>3. QED
    BY <1>2, <2>1, <2>2 DEF Tell
<1> QED
  BY <1>3, <1>7

-----------------------------------------------------------------------------
(* Reading a flat list *)

State == [opnum : 0..2, key : SUBSET (Items \cup Keys), triple : Nat, ops : Seq(OpSet)]
BinsOf == [name : Bins, list : Lists]

LEMMA PutTells ==
    ASSUME NEW s \in State, NEW b \in Bins, NEW f \in Fields
    PROVE  /\ Puts(s, b, f) \in OpSet
           /\ \A c \in Cells : Tell(<<Puts(s, b, f)>>, c,
                 IF c[1] = b /\ c[2] \in s.key /\ c[3] = f THEN {s.triple} ELSE {})
<1>1. s.key \subseteq Items \cup Keys /\ s.triple \in Nat
  BY DEF State
<1>2. Puts(s, b, f) \in OpSet
  BY <1>1 DEF Puts, Op, OpSet, Named
<1>3. ASSUME NEW c \in Cells
      PROVE  Tell(<<Puts(s, b, f)>>, c,
                IF c[1] = b /\ c[2] \in s.key /\ c[3] = f THEN {s.triple} ELSE {})
  <2>1. PICK op : op = Puts(s, b, f)
    OBVIOUS
  <2>2. op.clear = {} /\ op.triple = s.triple /\ op.set = {b} \X s.key \X {f}
    BY <2>1 DEF Puts, Op
  <2>3. c \in op.set <=> c[1] = b /\ c[2] \in s.key /\ c[3] = f
    BY <2>2 DEF Cells
  <2>4. Tell(<<op>>, c, IF Touches(op, c) THEN Does(op, c) ELSE {})
    BY OneTells
  <2>5. (IF Touches(op, c) THEN Does(op, c) ELSE {}) = IF c \in op.set THEN {s.triple} ELSE {}
    BY <2>2 DEF Touches, Does
  <2>6. QED
    BY <2>1, <2>3, <2>4, <2>5
<1> QED
  BY <1>2, <1>3

\* What an item changes, field by field
Changes(s, b, item, t) ==
    /\ s.opnum = 0 => /\ t.opnum = 1 /\ t.key = {item}
                      /\ t.triple = s.triple /\ t.ops = s.ops
    /\ s.opnum = 1 => /\ t.opnum = 2 /\ t.key = s.key /\ t.triple = s.triple
                      /\ t.ops = s.ops \o IF IsBinary(item) THEN <<Puts(s, b, "value")>>
                                          ELSE <<>>
    /\ s.opnum = 2 => /\ t.opnum = 0 /\ t.key = s.key /\ t.triple = s.triple + 1
                      /\ t.ops = s.ops \o (IF IsBinary(item) THEN <<>>
                                           ELSE <<Puts(s, b, "ttl")>>)
                                       \o <<Puts(s, b, "wt")>>

LEMMA ItemIs ==
    ASSUME NEW s \in State, NEW b, NEW item
    PROVE  Changes(s, b, item, Item(s, b, item))
<1> DEFINE v == s.ops \o IF IsBinary(item) THEN <<Puts(s, b, "value")>> ELSE <<>>
<1> DEFINE w == s.ops \o (IF IsBinary(item) THEN <<>> ELSE <<Puts(s, b, "ttl")>>)
                      \o <<Puts(s, b, "wt")>>
<1>1. Item(s, b, item) = CASE s.opnum = 0 -> [s EXCEPT !.opnum = 1, !.key = {item}]
                           [] s.opnum = 1 -> [s EXCEPT !.opnum = 2, !.ops = v]
                           [] s.opnum = 2 -> [s EXCEPT !.opnum = 0, !.triple = s.triple + 1,
                                                       !.ops = w]
  BY DEF Item, State
<1> HIDE DEF v, w
<1>2. ASSUME s.opnum = 0, NEW t, t = [s EXCEPT !.opnum = 1, !.key = {item}]
      PROVE  t.opnum = 1 /\ t.key = {item} /\ t.triple = s.triple /\ t.ops = s.ops
  BY <1>2 DEF State
<1>3. ASSUME s.opnum = 1, NEW t, t = [s EXCEPT !.opnum = 2, !.ops = v]
      PROVE  t.opnum = 2 /\ t.key = s.key /\ t.triple = s.triple /\ t.ops = v
  BY <1>3 DEF State
<1>4. ASSUME s.opnum = 2,
             NEW t, t = [s EXCEPT !.opnum = 0, !.triple = s.triple + 1, !.ops = w]
      PROVE  t.opnum = 0 /\ t.key = s.key /\ t.triple = s.triple + 1 /\ t.ops = w
  BY <1>4 DEF State
<1>5. PICK t : t = Item(s, b, item)
  OBVIOUS
<1>6. s.opnum = 0 => t.opnum = 1 /\ t.key = {item} /\ t.triple = s.triple /\ t.ops = s.ops
  <2>1. s.opnum = 0 => t = [s EXCEPT !.opnum = 1, !.key = {item}]
    BY <1>1, <1>5
  <2>2. QED
    BY <1>2, <2>1
<1>7. s.opnum = 1 => t.opnum = 2 /\ t.key = s.key /\ t.triple = s.triple /\ t.ops = v
  <2>1. s.opnum = 1 => t = [s EXCEPT !.opnum = 2, !.ops = v]
    BY <1>1, <1>5
  <2>2. QED
    BY <1>3, <2>1
<1>8. s.opnum = 2 => t.opnum = 0 /\ t.key = s.key /\ t.triple = s.triple + 1 /\ t.ops = w
  <2>1. s.opnum = 2 => t = [s EXCEPT !.opnum = 0, !.triple = s.triple + 1, !.ops = w]
    BY <1>1, <1>5
  <2>2. QED
    BY <1>4, <2>1
<1> QED
  BY <1>5, <1>6, <1>7, <1>8 DEF v, w, Changes

LEMMA KeyRead ==
    ASSUME NEW s \in State, NEW n \in 0..2, NEW key \in SUBSET (Items \cup Keys)
    PROVE  [s EXCEPT !.opnum = n, !.key = key] \in State
BY DEF State

LEMMA ValueRead ==
    ASSUME NEW s \in State, NEW n \in 0..2, NEW ops \in Seq(OpSet)
    PROVE  [s EXCEPT !.opnum = n, !.ops = ops] \in State
BY DEF State

LEMMA TtlRead ==
    ASSUME NEW s \in State, NEW n \in 0..2, NEW i \in Nat, NEW ops \in Seq(OpSet)
    PROVE  [s EXCEPT !.opnum = n, !.triple = i, !.ops = ops] \in State
BY DEF State

LEMMA ItemType ==
    ASSUME NEW s \in State, NEW b \in Bins, NEW item \in Items
    PROVE  Item(s, b, item) \in State
<1>1. /\ s.opnum \in 0..2 /\ s.key \subseteq Items \cup Keys
      /\ s.triple \in Nat /\ s.ops \in Seq(OpSet)
  BY DEF State
<1>2. ASSUME NEW f \in Fields PROVE <<Puts(s, b, f)>> \in Seq(OpSet)
  <2>1. PICK op \in OpSet : op = Puts(s, b, f)
    BY PutTells
  <2>2. QED
    BY <2>1
<1>3. <<Puts(s, b, "value")>> \in Seq(OpSet) /\ <<Puts(s, b, "ttl")>> \in Seq(OpSet)
      /\ <<Puts(s, b, "wt")>> \in Seq(OpSet) /\ <<>> \in Seq(OpSet)
  BY <1>2 DEF Fields
<1>4. PICK v : v = s.ops \o IF IsBinary(item) THEN <<Puts(s, b, "value")>> ELSE <<>>
  OBVIOUS
<1>5. PICK w : w = s.ops \o (IF IsBinary(item) THEN <<>> ELSE <<Puts(s, b, "ttl")>>)
                         \o <<Puts(s, b, "wt")>>
  OBVIOUS
<1>6. v \in Seq(OpSet) /\ w \in Seq(OpSet)
  BY <1>1, <1>3, <1>4, <1>5, ConcatProperties
<1>7. CASE s.opnum = 0
  <2>1. Item(s, b, item) = [s EXCEPT !.opnum = 1, !.key = {item}]
    BY <1>7 DEF Item
  <2>2. PICK key \in SUBSET (Items \cup Keys) : key = {item}
    OBVIOUS
  <2>3. [s EXCEPT !.opnum = 1, !.key = key] \in State
    BY 1 \in 0..2, KeyRead
  <2>4. QED
    BY <2>1, <2>2, <2>3
<1>8. CASE s.opnum = 1
  <2>1. Item(s, b, item) = [s EXCEPT !.opnum = 2, !.ops = v]
    BY <1>4, <1>8 DEF Item, State
  <2>2. 2 \in 0..2
    OBVIOUS
  <2>3. [s EXCEPT !.opnum = 2, !.ops = v] \in State
    BY <1>6, <2>2, ValueRead
  <2>4. QED
    BY <2>1, <2>3
<1>9. CASE s.opnum = 2
  <2>1. Item(s, b, item) = [s EXCEPT !.opnum = 0, !.triple = s.triple + 1, !.ops = w]
    BY <1>5, <1>9 DEF Item, State
  <2>2. PICK i \in Nat : i = s.triple + 1
    BY <1>1
  <2>3. [s EXCEPT !.opnum = 0, !.triple = i, !.ops = w] \in State
    BY <1>6, 0 \in 0..2, TtlRead
  <2>4. QED
    BY <2>1, <2>2, <2>3
<1> QED
  BY <1>1, <1>7, <1>8, <1>9

LEMMA ReadingIs ==
    ASSUME NEW bin \in BinsOf
    PROVE  \E g \in [0..Len(bin.list) -> State] :
              /\ g[0] = Start /\ OpsOf(bin) = g[Len(bin.list)].ops
              /\ \A i \in 1..Len(bin.list) : g[i] = Item(g[i - 1], bin.name, bin.list[i])
<1>1. bin.name \in Bins /\ bin.list \in Seq(Items)
  BY DEF BinsOf, Lists
<1>2. PICK n \in Nat : n = Len(bin.list)
  BY <1>1, LenProperties
<1>3. bin.list \in [1..n -> Items]
  BY <1>1, <1>2
<1> DEFINE step == [i \in 1..n |-> [s \in State |-> Item(s, bin.name, bin.list[i])]]
<1>4. step \in Steps(State, n)
  <2>1. \A i \in 1..n : bin.list[i] \in Items
    BY <1>3
  <2>2. \A i \in 1..n : \A s \in State : Item(s, bin.name, bin.list[i]) \in State
    BY <1>1, <2>1, ItemType
  <2> HIDE DEF State
  <2>3. QED
    BY <2>2 DEF Steps
<1>5. \A i \in 1..n : \A s \in State : step[i][s] = Item(s, bin.name, bin.list[i])
  OBVIOUS
<1>6. Start \in State
  BY DEF Start, State
<1> HIDE DEF step
<1>7. PICK g : Goes(g, State, Start, n, step)
  BY <1>4, <1>6, Recursion
<1>8. /\ g \in [0..n -> State] /\ g[0] = Start
      /\ \A i \in 1..n : g[i] = Item(g[i - 1], bin.name, bin.list[i])
  <2>1. \A i \in 1..n : i - 1 \in 0..n
    OBVIOUS
  <2>2. QED
    BY <1>5, <1>7, <2>1 DEF Goes
<1> DEFINE Is(h) == h = [i \in 0..n |-> IF i = 0 THEN Start
                                        ELSE Item(h[i - 1], bin.name, bin.list[i])]
<1> DEFINE r == CHOOSE h : Is(h)
<1>9. Is(g)
  BY <1>8
<1>10. Is(r)
  <2> HIDE DEF Is
  <2>1. QED
    BY <1>9
<1>11. Reading(bin) = r
  BY <1>2 DEF Reading
<1> HIDE DEF r
<1>12. r[0] = Start /\ \A i \in 1..n : r[i] = Item(r[i - 1], bin.name, bin.list[i])
  BY <1>10
<1> HIDE DEF Is
<1> DEFINE T == {i \in 0..n : r[i] = g[i]}
<1>13. 0 \in T
  BY <1>8, <1>12
<1>14. ASSUME NEW i \in 1..n, i - 1 \in T PROVE i \in T
  BY <1>8, <1>12, <1>14
<1> HIDE DEF T
<1>15. \A i \in 0..n : i \in T
  BY <1>13, <1>14, InductionTo
<1>16. OpsOf(bin) = g[n].ops
  BY <1>2, <1>11, <1>15 DEF T, OpsOf
<1> QED
  BY <1>2, <1>8, <1>16

\* m is the largest of the numbers T, as in Meaning.
IsLast(m, T) == \/ T = {} /\ m = {}
                \/ \E x \in T : m = {x} /\ \A y \in T : y <= x

LEMMA LastNext ==
    ASSUME NEW T, NEW U, T \subseteq Nat, U \subseteq Nat, \A x \in T, y \in U : x <= y,
           NEW m, NEW l, IsLast(m, T), IsLast(l, U)
    PROVE  IsLast(IF l = {} THEN m ELSE l, T \cup U)
<1>1. CASE U = {} /\ l = {}
  <2>1. T \cup U = T
    BY <1>1
  <2>2. QED
    BY <1>1, <2>1
<1>2. CASE \E x \in U : l = {x} /\ \A y \in U : y <= x
  <2>1. PICK x \in U : l = {x} /\ \A y \in U : y <= x
    BY <1>2
  <2>2. x \in T \cup U /\ \A y \in T \cup U : y <= x
    BY <2>1
  <2>3. l # {}
    BY <2>1
  <2>4. QED
    BY <2>1, <2>2, <2>3 DEF IsLast
<1> QED
  BY <1>1, <1>2 DEF IsLast

LEMMA Wrote ==
    ASSUME NEW list \in Lists, NEW c \in Cells
    PROVE  /\ Len(list) \in Nat /\ WritersIn(list, c) \subseteq 1..Len(list)
           /\ \A u \in Nat : u \in WritersIn(list, c) <=>
                /\ u >= 1 /\ 3 * u - 2 <= Len(list) /\ list[3 * u - 2] = c[2]
                /\ \/ c[3] = "value" /\ 3 * u - 1 <= Len(list) /\ IsBinary(list[3 * u - 1])
                   \/ c[3] = "ttl" /\ 3 * u <= Len(list) /\ ~IsBinary(list[3 * u])
                   \/ c[3] = "wt" /\ 3 * u <= Len(list)
<1>1. PICK n \in Nat : n = Len(list)
  BY LenProperties DEF Lists
<1>2. WritersIn(list, c) \subseteq 1..n
  BY <1>1 DEF WritersIn, Triples
<1>3. PICK f \in Fields : f = c[3]
  BY DEF Cells
<1>4. ASSUME NEW u
      PROVE  f \in Gives(list, u) <=>
                \/ f = "value" /\ 3 * u - 1 <= n /\ IsBinary(list[3 * u - 1])
                \/ f = "ttl" /\ 3 * u <= n /\ ~IsBinary(list[3 * u])
                \/ f = "wt" /\ 3 * u <= n
  BY <1>1, <1>3 DEF Gives, Fields
<1>5. ASSUME NEW u \in Nat
      PROVE  u \in Triples(list) <=> u >= 1 /\ 3 * u - 2 <= n
  BY <1>1 DEF Triples
<1>6. \A u \in Nat : u \in WritersIn(list, c) <=>
                        u \in Triples(list) /\ list[3 * u - 2] = c[2] /\ f \in Gives(list, u)
  BY <1>3 DEF WritersIn
<1> QED
  BY <1>1, <1>2, <1>3, <1>4, <1>5, <1>6

\* The item that gives the field f of triple u, and the triples that have
\* given c by item i
At(f, u) == IF f = "value" THEN 3 * u - 1 ELSE 3 * u
WroteBy(bin, c, i) == {u \in WritersIn(bin.list, c) : bin.name = c[1] /\ At(c[3], u) <= i}
WroteAt(bin, c, i) == {u \in WritersIn(bin.list, c) : bin.name = c[1] /\ At(c[3], u) = i}

LEMMA WroteNext ==
    ASSUME NEW bin \in BinsOf, NEW c \in Cells, NEW i \in 1..Len(bin.list)
    PROVE  WroteBy(bin, c, i) = WroteBy(bin, c, i - 1) \cup WroteAt(bin, c, i)
<1>1. PICK list \in Lists : list = bin.list
  BY DEF BinsOf
<1>2. PICK n \in Nat : n = Len(list)
  BY <1>1, Wrote
<1>3. i \in Nat
  BY <1>1, <1>2
<1>4. ASSUME NEW u \in WritersIn(list, c)
      PROVE  At(c[3], u) <= i <=> At(c[3], u) <= i - 1 \/ At(c[3], u) = i
  <2>1. u \in Nat
    BY Wrote
  <2>2. QED
    BY <1>3, <2>1 DEF At
<1> QED
  BY <1>1, <1>4 DEF WroteBy, WroteAt

LEMMA ItemWrites ==
    ASSUME NEW bin \in BinsOf, NEW c \in Cells, NEW i \in 1..Len(bin.list),
           NEW u \in Nat, u >= 1, NEW o \in 0..2, i - 1 = 3 * (u - 1) + o
    PROVE  /\ WroteBy(bin, c, i - 1) \subseteq 0..u
           /\ o = 0 => WroteAt(bin, c, i) = {}
           /\ o = 1 => WroteAt(bin, c, i) =
                IF /\ c[1] = bin.name /\ c[2] = bin.list[3 * u - 2] /\ c[3] = "value"
                   /\ IsBinary(bin.list[i])
                THEN {u} ELSE {}
           /\ o = 2 => WroteAt(bin, c, i) =
                IF /\ c[1] = bin.name /\ c[2] = bin.list[3 * u - 2]
                   /\ c[3] = "wt" \/ (c[3] = "ttl" /\ ~IsBinary(bin.list[i]))
                THEN {u} ELSE {}
<1>1. PICK list \in Lists : list = bin.list
  BY DEF BinsOf
<1>2. PICK n \in Nat : n = Len(list)
  BY <1>1, Wrote
<1>3. i \in Nat /\ i \in 1..n /\ i - 1 = 3 * u - 3 + o
  <2>1. i \in 1..n
    BY <1>1, <1>2
  <2>2. 3 * (u - 1) = 3 * u - 3
    BY ONLY u \in Nat
  <2>3. QED
    BY <2>1, <2>2
<1>4. PICK f \in Fields : f = c[3]
  BY DEF Cells
<1>5. PICK W : W = WritersIn(list, c)
  OBVIOUS
<1>6. /\ W \subseteq 1..n
      /\ \A v \in Nat : v \in W <=>
           /\ v >= 1 /\ 3 * v - 2 <= n /\ list[3 * v - 2] = c[2]
           /\ \/ f = "value" /\ 3 * v - 1 <= n /\ IsBinary(list[3 * v - 1])
              \/ f = "ttl" /\ 3 * v <= n /\ ~IsBinary(list[3 * v])
              \/ f = "wt" /\ 3 * v <= n
  BY <1>2, <1>4, <1>5, Wrote
<1>7. ASSUME NEW v \in W PROVE v \in Nat /\ At(f, v) \in Int
  <2>1. v \in Nat
    BY ONLY <1>6, n \in Nat, v \in W
  <2>2. QED
    BY ONLY <2>1 DEF At
<1>9. WroteBy(bin, c, i - 1) \subseteq 0..u
  <2>1. \A v \in W : At(f, v) <= i - 1 => v \in 0..u
    BY <1>3, <1>7 DEF At
  <2>2. QED
    BY <1>1, <1>4, <1>5, <2>1 DEF WroteBy
<1>10. ASSUME NEW v
       PROVE  v \in WroteAt(bin, c, i) <=> v \in W /\ bin.name = c[1] /\ At(f, v) = i
  BY <1>1, <1>4, <1>5 DEF WroteAt
<1>11. ASSUME NEW v \in W
       PROVE  At(f, v) = i <=> v = u /\ (IF f = "value" THEN o = 1 ELSE o = 2)
  BY <1>3, <1>7 DEF At
<1>12. ASSUME o = 0 PROVE WroteAt(bin, c, i) = {}
  BY <1>10, <1>11, <1>12
<1>13. ASSUME o = 1
       PROVE  WroteAt(bin, c, i) =
                 IF c[1] = bin.name /\ c[2] = list[3 * u - 2] /\ f = "value" /\ IsBinary(list[i])
                 THEN {u} ELSE {}
  <2>1. 3 * u - 1 = i /\ 3 * u - 2 <= n /\ 3 * u - 1 <= n
    BY <1>3, <1>13
  <2>2. u \in W /\ f = "value" <=> c[2] = list[3 * u - 2] /\ f = "value" /\ IsBinary(list[i])
    BY <1>6, <2>1
  <2>3. \A v : v \in WroteAt(bin, c, i) <=> v = u /\ u \in W /\ bin.name = c[1] /\ f = "value"
    BY <1>10, <1>11, <1>13
  <2>4. QED
    BY <2>2, <2>3
<1>14. ASSUME o = 2
       PROVE  WroteAt(bin, c, i) =
                 IF /\ c[1] = bin.name /\ c[2] = list[3 * u - 2]
                    /\ f = "wt" \/ (f = "ttl" /\ ~IsBinary(list[i]))
                 THEN {u} ELSE {}
  <2>1. 3 * u = i /\ 3 * u - 2 <= n /\ 3 * u <= n
    BY <1>3, <1>14
  <2>2. u \in W /\ f # "value" <=> /\ c[2] = list[3 * u - 2]
                                   /\ f = "wt" \/ (f = "ttl" /\ ~IsBinary(list[i]))
    <3>1. u \in W <=> /\ list[3 * u - 2] = c[2]
                      /\ \/ f = "value" /\ IsBinary(list[3 * u - 1])
                         \/ f = "ttl" /\ ~IsBinary(list[i])
                         \/ f = "wt"
      BY <1>6, <2>1
    <3>2. QED
      BY <3>1
  <2>3. \A v : v \in WroteAt(bin, c, i) <=> v = u /\ u \in W /\ bin.name = c[1] /\ f # "value"
    BY <1>10, <1>11, <1>14
  <2>4. QED
    BY <2>2, <2>3
<1> QED
  BY <1>1, <1>4, <1>9, <1>12, <1>13, <1>14

\* Reading the next item keeps step with the triples and with their writers.
InStep(bin, s, i) ==
    /\ s.triple >= 1 /\ i = 3 * (s.triple - 1) + s.opnum
    /\ s.opnum # 0 => s.key = {bin.list[3 * s.triple - 2]}
TellsBy(bin, s, i) ==
    \A c \in Cells : \E m : Tell(s.ops, c, m) /\ IsLast(m, WroteBy(bin, c, i))

LEMMA StaysInStep ==
    ASSUME NEW bin \in BinsOf, NEW i \in 1..Len(bin.list), NEW s \in State, InStep(bin, s, i - 1)
    PROVE  InStep(bin, Item(s, bin.name, bin.list[i]), i)
<1>1. PICK t : t = Item(s, bin.name, bin.list[i])
  OBVIOUS
<1>2. /\ s.opnum = 0 => t.opnum = 1 /\ t.key = {bin.list[i]} /\ t.triple = s.triple
      /\ s.opnum = 1 => t.opnum = 2 /\ t.key = s.key /\ t.triple = s.triple
      /\ s.opnum = 2 => t.opnum = 0 /\ t.key = s.key /\ t.triple = s.triple + 1
  <2>1. Changes(s, bin.name, bin.list[i], t)
    BY <1>1, ItemIs
  <2>2. QED
    BY <2>1 DEF Changes
<1>3. PICK u \in Nat : u = s.triple
  BY DEF State
<1>4. PICK o \in 0..2 : o = s.opnum
  BY DEF State
<1>5. /\ i \in Nat /\ u >= 1 /\ i - 1 = 3 * (u - 1) + o
      /\ o # 0 => s.key = {bin.list[3 * u - 2]}
  <2>1. i \in Nat
    <3>1. Len(bin.list) \in Nat
      BY LenProperties DEF BinsOf, Lists
    <3>2. QED
      BY <3>1
  <2>2. /\ s.triple >= 1 /\ i - 1 = 3 * (s.triple - 1) + s.opnum
        /\ s.opnum # 0 => s.key = {bin.list[3 * s.triple - 2]}
    BY DEF InStep
  <2>3. u >= 1 /\ i - 1 = 3 * (u - 1) + o
    BY <1>3, <1>4, <2>2
  <2>4. o # 0 => s.key = {bin.list[3 * u - 2]}
    BY <1>3, <1>4, <2>2
  <2>5. QED
    BY <2>1, <2>3, <2>4
<1>6. CASE o = 0
  <2>1. t.opnum = 1 /\ t.triple = u /\ t.key = {bin.list[i]} /\ i = 3 * u - 2
    BY <1>2, <1>3, <1>4, <1>5, <1>6
  <2>2. QED
    BY <1>1, <1>5, <2>1 DEF InStep
<1>7. CASE o = 1
  <2>1. t.opnum = 2 /\ t.triple = u /\ t.key = {bin.list[3 * u - 2]} /\ i = 3 * (u - 1) + 2
    <3>1. t.opnum = 2 /\ t.triple = u /\ t.key = s.key
      BY <1>2, <1>3, <1>4, <1>7
    <3>2. s.key = {bin.list[3 * u - 2]}
      BY <1>5, <1>7
    <3>3. i = 3 * (u - 1) + 2
      BY <1>5, <1>7
    <3>4. QED
      BY <3>1, <3>2, <3>3
  <2>2. QED
    BY <1>1, <1>5, <2>1 DEF InStep
<1>8. CASE o = 2
  <2>1. t.opnum = 0 /\ t.triple = u + 1 /\ i = 3 * (u + 1 - 1) + 0
    <3>1. t.opnum = 0 /\ t.triple = u + 1
      BY <1>2, <1>3, <1>4, <1>8
    <3>2. i = 3 * (u + 1 - 1) + 0
      BY <1>5, <1>8
    <3>3. QED
      BY <3>1, <3>2
  <2>2. QED
    BY <1>1, <1>5, <2>1 DEF InStep
<1> QED
  BY <1>4, <1>6, <1>7, <1>8

LEMMA ItemTells ==
    ASSUME NEW bin \in BinsOf, NEW i \in 1..Len(bin.list), NEW s \in State,
           InStep(bin, s, i - 1), NEW c \in Cells,
           NEW m, Tell(s.ops, c, m)
    PROVE  Tell(Item(s, bin.name, bin.list[i]).ops, c,
                IF WroteAt(bin, c, i) = {} THEN m ELSE WroteAt(bin, c, i))
<1>1. PICK ops : ops = Item(s, bin.name, bin.list[i]).ops
  OBVIOUS
<1>2. PICK item : item = bin.list[i]
  OBVIOUS
<1>3. PICK b \in Bins : b = bin.name
  BY DEF BinsOf
<1>4. PICK u \in Nat : u = s.triple
  BY DEF State
<1>5. PICK o \in 0..2 : o = s.opnum
  BY DEF State
<1>6. /\ u >= 1 /\ i - 1 = 3 * (u - 1) + o
      /\ o # 0 => s.key = {bin.list[3 * u - 2]}
  BY <1>4, <1>5 DEF InStep
<1>7. /\ o = 0 => WroteAt(bin, c, i) = {}
      /\ o = 1 => WroteAt(bin, c, i) =
           IF c[1] = b /\ c[2] = bin.list[3 * u - 2] /\ c[3] = "value" /\ IsBinary(item)
           THEN {u} ELSE {}
      /\ o = 2 => WroteAt(bin, c, i) =
           IF /\ c[1] = b /\ c[2] = bin.list[3 * u - 2]
              /\ c[3] = "wt" \/ (c[3] = "ttl" /\ ~IsBinary(item))
           THEN {u} ELSE {}
  <2>1. /\ o = 0 => WroteAt(bin, c, i) = {}
        /\ o = 1 => WroteAt(bin, c, i) =
             IF /\ c[1] = bin.name /\ c[2] = bin.list[3 * u - 2] /\ c[3] = "value"
                /\ IsBinary(bin.list[i])
             THEN {u} ELSE {}
        /\ o = 2 => WroteAt(bin, c, i) =
             IF /\ c[1] = bin.name /\ c[2] = bin.list[3 * u - 2]
                /\ c[3] = "wt" \/ (c[3] = "ttl" /\ ~IsBinary(bin.list[i]))
             THEN {u} ELSE {}
    BY <1>6, ItemWrites
  <2>2. QED
    BY <1>2, <1>3, <2>1
<1> DEFINE Mine(f) == IF c[1] = b /\ c[2] = bin.list[3 * u - 2] /\ c[3] = f THEN {u} ELSE {}
<1>8. ASSUME NEW f \in Fields
      PROVE  /\ <<Puts(s, b, f)>> \in Seq(OpSet)
             /\ o # 0 => Tell(<<Puts(s, b, f)>>, c, Mine(f))
  <2>1. PICK op \in OpSet : op = Puts(s, b, f)
    BY PutTells
  <2>2. Tell(<<op>>, c, IF c[1] = b /\ c[2] \in s.key /\ c[3] = f THEN {u} ELSE {})
    BY <1>4, <2>1, PutTells
  <2>3. o # 0 => (c[2] \in s.key <=> c[2] = bin.list[3 * u - 2])
    BY <1>6
  <2>4. QED
    BY <2>1, <2>2, <2>3
<1>16. "value" \in Fields /\ "ttl" \in Fields /\ "wt" \in Fields
  BY DEF Fields
<1>9. s.ops \in Seq(OpSet) /\ <<>> \in Seq(OpSet)
  BY DEF State
<1>14. PICK t : t = Item(s, b, item)
  OBVIOUS
<1>15. Changes(s, b, item, t) /\ ops = t.ops
  BY <1>1, <1>2, <1>3, <1>14, ItemIs
<1>10. PICK l : l = WroteAt(bin, c, i)
  OBVIOUS
<1> HIDE DEF Mine
<1>11. CASE o = 0
  <2>1. ops = s.ops
    BY <1>5, <1>11, <1>15 DEF Changes
  <2>2. QED
    BY <1>1, <1>7, <1>11, <2>1
<1>12. CASE o = 1
  <2>1. PICK a : a = IF IsBinary(item) THEN <<Puts(s, b, "value")>> ELSE <<>>
    OBVIOUS
  <2>2. ops = s.ops \o a
    BY <1>5, <1>12, <1>15, <2>1 DEF Changes
  <2>3. a \in Seq(OpSet) /\ Tell(a, c, l)
    <3>1. <<Puts(s, b, "value")>> \in Seq(OpSet) /\ Tell(<<Puts(s, b, "value")>>, c, Mine("value"))
      BY ONLY <1>8, <1>12, <1>16
    <3>2. CASE IsBinary(item)
      <4>1. a = <<Puts(s, b, "value")>>
        BY <2>1, <3>2
      <4>2. l = Mine("value")
        BY <1>7, <1>10, <1>12, <3>2 DEF Mine
      <4>3. QED
        BY <3>1, <4>1, <4>2
    <3>3. CASE ~IsBinary(item)
      <4>1. a = <<>> /\ l = {}
        BY <1>7, <1>10, <1>12, <2>1, <3>3
      <4>2. QED
        BY <1>9, <4>1, NothingTells
    <3>4. QED
      BY <3>2, <3>3
  <2>4. Tell(s.ops \o a, c, IF l = {} THEN m ELSE l)
    BY <1>9, <2>3, TellNext
  <2>5. QED
    BY <1>1, <1>10, <2>2, <2>4
<1>13. CASE o = 2
  <2>1. PICK a : a = IF IsBinary(item) THEN <<>> ELSE <<Puts(s, b, "ttl")>>
    OBVIOUS
  <2>2. PICK w : w = <<Puts(s, b, "wt")>>
    OBVIOUS
  <2>3. ops = s.ops \o a \o w
    BY <1>5, <1>13, <1>15, <2>1, <2>2 DEF Changes
  <2>4. /\ <<Puts(s, b, "ttl")>> \in Seq(OpSet) /\ Tell(<<Puts(s, b, "ttl")>>, c, Mine("ttl"))
        /\ <<Puts(s, b, "wt")>> \in Seq(OpSet) /\ Tell(<<Puts(s, b, "wt")>>, c, Mine("wt"))
    BY ONLY <1>8, <1>13, <1>16
  <2>5. PICK k : k = IF IsBinary(item) THEN {} ELSE Mine("ttl")
    OBVIOUS
  <2>6. a \in Seq(OpSet) /\ Tell(a, c, k)
    <3>1. CASE ~IsBinary(item)
      <4>1. a = <<Puts(s, b, "ttl")>> /\ k = Mine("ttl")
        BY <2>1, <2>5, <3>1
      <4>2. QED
        BY <2>4, <4>1
    <3>2. CASE IsBinary(item)
      <4>1. a = <<>> /\ k = {}
        BY <2>1, <2>5, <3>2
      <4>2. QED
        BY <1>9, <4>1, NothingTells
    <3>3. QED
      BY <3>1, <3>2
  <2>7. PICK h : h = Mine("wt")
    OBVIOUS
  <2>8. w \in Seq(OpSet) /\ Tell(w, c, h)
    BY <2>2, <2>4, <2>7
  <2>9. PICK d : d = s.ops \o a
    OBVIOUS
  <2>10. d \in Seq(OpSet) /\ Tell(d, c, IF k = {} THEN m ELSE k)
    BY <1>9, <2>6, <2>9, TellNext, ConcatProperties
  <2>11. PICK e : e = IF k = {} THEN m ELSE k
    OBVIOUS
  <2>12. Tell(d \o w, c, IF h = {} THEN e ELSE h)
    BY <2>8, <2>10, <2>11, TellNext
  <2>13. (IF h = {} THEN e ELSE h) = IF l = {} THEN m ELSE l
    BY <1>7, <1>10, <1>13, <2>5, <2>7, <2>11 DEF Mine
  <2>14. QED
    BY <1>1, <1>10, <2>3, <2>9, <2>12, <2>13
<1> QED
  BY <1>5, <1>11, <1>12, <1>13

LEMMA ListTells ==
    ASSUME NEW bin \in BinsOf
    PROVE  /\ OpsOf(bin) \in Seq(OpSet)
           /\ \A c \in Cells : \E m :
                 /\ Tell(OpsOf(bin), c, m)
                 /\ IsLast(m, {u \in WritersIn(bin.list, c) : bin.name = c[1]})
<1>1. PICK n \in Nat : n = Len(bin.list)
  BY LenProperties DEF BinsOf, Lists
<1>2. PICK g \in [0..n -> State] :
         /\ g[0] = Start /\ OpsOf(bin) = g[n].ops
         /\ \A i \in 1..n : g[i] = Item(g[i - 1], bin.name, bin.list[i])
  BY <1>1, ReadingIs
<1>3. \A i \in 1..n : i - 1 \in 0..n /\ g[i - 1] \in State
  BY <1>2
<1> DEFINE T == {i \in 0..n : InStep(bin, g[i], i) /\ TellsBy(bin, g[i], i)}
<1>4. 0 \in T
  <2>1. InStep(bin, g[0], 0)
    BY <1>2 DEF Start, InStep
  <2>2. ASSUME NEW c \in Cells
        PROVE  \E m : Tell(g[0].ops, c, m) /\ IsLast(m, WroteBy(bin, c, 0))
    <3>1. \A u \in WritersIn(bin.list, c) : u \in Nat /\ u >= 1
      BY Wrote DEF BinsOf
    <3>2. \A u \in WritersIn(bin.list, c) : ~(At(c[3], u) <= 0)
      BY <3>1 DEF At
    <3>3. WroteBy(bin, c, 0) = {}
      BY <3>2 DEF WroteBy
    <3>4. Tell(g[0].ops, c, {}) /\ IsLast({}, WroteBy(bin, c, 0))
      BY <1>2, <3>3, NothingTells DEF Start, IsLast
    <3>5. QED
      BY <3>4
  <2>3. QED
    BY <2>1, <2>2 DEF TellsBy
<1>5. ASSUME NEW i \in 1..n, i - 1 \in T PROVE i \in T
  <2>1. PICK s \in State : s = g[i - 1]
    BY <1>3
  <2>2. InStep(bin, s, i - 1) /\ TellsBy(bin, s, i - 1)
    BY <1>5, <2>1
  <2>3. PICK t : t = Item(s, bin.name, bin.list[i])
    OBVIOUS
  <2>4. g[i] = t
    BY <1>2, <2>1, <2>3
  <2>5. InStep(bin, t, i)
    BY <1>1, <2>2, <2>3, StaysInStep
  <2>6. ASSUME NEW c \in Cells
        PROVE  \E m : Tell(t.ops, c, m) /\ IsLast(m, WroteBy(bin, c, i))
    <3>1. PICK m : Tell(s.ops, c, m) /\ IsLast(m, WroteBy(bin, c, i - 1))
      BY <2>2 DEF TellsBy
    <3>2. PICK l : l = WroteAt(bin, c, i)
      OBVIOUS
    <3>3. Tell(t.ops, c, IF l = {} THEN m ELSE l)
      BY <1>1, <2>2, <2>3, <3>1, <3>2, ItemTells
    <3>4. PICK u \in Nat : u = s.triple
      BY DEF State
    <3>5. PICK o \in 0..2 : o = s.opnum
      BY DEF State
    <3>6. u >= 1 /\ i - 1 = 3 * (u - 1) + o
      BY <2>2, <3>4, <3>5 DEF InStep
    <3>7. /\ WroteBy(bin, c, i) = WroteBy(bin, c, i - 1) \cup l
          /\ WroteBy(bin, c, i - 1) \subseteq 0..u
          /\ l = {} \/ l = {u}
      <4>1. WroteBy(bin, c, i) = WroteBy(bin, c, i - 1) \cup WroteAt(bin, c, i)
        BY <1>1, WroteNext
      <4>6. WroteBy(bin, c, i - 1) \subseteq 0..u
        BY <1>1, <3>6, ItemWrites
      <4>2. o = 0 => WroteAt(bin, c, i) = {}
        BY <1>1, <3>6, ItemWrites
      <4>3. o = 1 => WroteAt(bin, c, i) = {} \/ WroteAt(bin, c, i) = {u}
        BY <1>1, <3>6, ItemWrites
      <4>4. o = 2 => WroteAt(bin, c, i) = {} \/ WroteAt(bin, c, i) = {u}
        BY <1>1, <3>6, ItemWrites
      <4>5. QED
        BY <3>2, <4>1, <4>2, <4>3, <4>4, <4>6
    <3>8. PICK W : W = WroteBy(bin, c, i - 1)
      OBVIOUS
    <3>9. W \subseteq Nat /\ l \subseteq Nat /\ \A x \in W, y \in l : x <= y
      BY <3>7, <3>8
    <3>10. IsLast(l, l)
      BY <3>7 DEF IsLast
    <3>11. IsLast(IF l = {} THEN m ELSE l, W \cup l)
      BY <3>1, <3>8, <3>9, <3>10, LastNext
    <3>12. QED
      BY <3>3, <3>7, <3>8, <3>11
  <2>7. QED
    BY <2>4, <2>5, <2>6 DEF TellsBy
<1> HIDE DEF T
<1>6. n \in T
  <2>1. \A i \in 0..n : i \in T
    BY <1>4, <1>5, InductionTo
  <2>2. QED
    BY <2>1
<1>7. OpsOf(bin) \in Seq(OpSet)
  <2>1. g[n] \in State
    BY <1>2
  <2>2. QED
    BY <1>2, <2>1 DEF State
<1>8. ASSUME NEW c \in Cells
      PROVE  WroteBy(bin, c, n) = {u \in WritersIn(bin.list, c) : bin.name = c[1]}
  <2>1. \A u \in WritersIn(bin.list, c) : At(c[3], u) <= n
    <3>1. PICK list \in Lists : list = bin.list
      BY DEF BinsOf
    <3>2. PICK f \in Fields : f = c[3]
      BY DEF Cells
    <3>3. ASSUME NEW u \in WritersIn(list, c)
          PROVE  /\ u \in Nat
                 /\ f = "value" => 3 * u - 1 <= n
                 /\ f # "value" => 3 * u <= n
      <4>1. u \in Nat
        BY Wrote
      <4>2. QED
        BY <1>1, <3>1, <3>2, <4>1, Wrote
    <3>4. QED
      BY <3>1, <3>2, <3>3 DEF At
  <2>2. QED
    BY <2>1 DEF WroteBy
<1>9. TellsBy(bin, g[n], n)
  BY <1>6 DEF T
<1> QED
  BY <1>2, <1>7, <1>8, <1>9 DEF TellsBy

-----------------------------------------------------------------------------
(* What each call does to a cell *)

LEMMA PutsTell ==
    ASSUME NEW q, q.op = "cdt_put", Read(q) \in Seq(BinsOf), NEW c \in Cells
    PROVE  /\ PutOps(q) \in Seq(OpSet) /\ Writers(q, c) \subseteq Nat
           /\ \E m : Tell(PutOps(q), c, m) /\ IsLast(m, Writers(q, c))
<1>1. PICK bins \in Seq(BinsOf) : bins = Read(q)
  OBVIOUS
<1>2. PICK n \in Nat : n = Len(bins)
  BY LenProperties
<1>3. ASSUME NEW j \in 1..n PROVE bins[j] \in BinsOf
  BY <1>2
<1>4. PICK ss : ss = [j \in 1..n |-> OpsOf(bins[j])]
  OBVIOUS
<1>5. ss \in Seq(Seq(OpSet)) /\ Len(ss) = n /\ \A j \in 1..n : ss[j] = OpsOf(bins[j])
  <2>1. \A j \in 1..n : OpsOf(bins[j]) \in Seq(OpSet)
    BY <1>3, ListTells
  <2>2. QED
    BY <1>4, <2>1
<1>6. PICK g \in [0..n -> Seq(OpSet)] :
         /\ g[0] = <<>> /\ FlattenSeq(ss) = g[n]
         /\ \A j \in 1..n : g[j] = g[j - 1] \o ss[j]
  BY <1>5, Flattened
<1>7. PutOps(q) = g[n]
  BY <1>1, <1>2, <1>4, <1>6 DEF PutOps
<1> DEFINE Given(j) == {u \in WritersIn(bins[j].list, c) : bins[j].name = c[1]}
<1> DEFINE Said(j, m) == \/ m = {} /\ \A k \in 1..j : Given(k) = {}
                         \/ \E k \in 1..j : /\ IsLast(m, Given(k)) /\ Given(k) # {}
                                            /\ \A i \in k + 1..j : Given(i) = {}
<1>8. \A j \in 1..n : \E l : Tell(ss[j], c, l) /\ IsLast(l, Given(j))
  BY <1>3, <1>5, ListTells
<1> HIDE DEF Given
<1> DEFINE T == {j \in 0..n : \E m : Tell(g[j], c, m) /\ Said(j, m)}
<1>9. 0 \in T
  <2>1. Tell(g[0], c, {})
    BY <1>6, NothingTells
  <2>2. Said(0, {})
    OBVIOUS
  <2> HIDE DEF Said
  <2>3. \E m : Tell(g[0], c, m) /\ Said(0, m)
    BY <2>1, <2>2
  <2>4. QED
    BY <2>3
<1>10. ASSUME NEW j \in 1..n, j - 1 \in T PROVE j \in T
  <2>1. PICK m : Tell(g[j - 1], c, m) /\ Said(j - 1, m)
    BY <1>10
  <2>2. PICK l : Tell(ss[j], c, l) /\ IsLast(l, Given(j))
    BY <1>8
  <2>3. PICK k : k = IF l = {} THEN m ELSE l
    OBVIOUS
  <2>4. Tell(g[j], c, k)
    <3>1. g[j - 1] \in Seq(OpSet) /\ ss[j] \in Seq(OpSet)
      <4>1. j - 1 \in 0..n
        OBVIOUS
      <4>2. g[j - 1] \in Seq(OpSet)
        BY <1>6, <4>1
      <4>3. ss[j] \in Seq(OpSet)
        BY <1>3, <1>5, ListTells
      <4>4. QED
        BY <4>2, <4>3
    <3>2. Tell(g[j - 1] \o ss[j], c, k)
      BY <2>1, <2>2, <2>3, <3>1, TellNext
    <3>3. QED
      BY <1>6, <3>2
  <2>5. Said(j, k)
    <3>1. CASE Given(j) = {}
      <4>1. k = m
        BY <2>2, <2>3, <3>1 DEF IsLast
      <4>2. CASE m = {} /\ \A i \in 1..j - 1 : Given(i) = {}
        <5>1. \A i \in 1..j : i = j \/ i \in 1..j - 1
          OBVIOUS
        <5>2. QED
          BY <3>1, <4>1, <4>2, <5>1
      <4>3. CASE \E h \in 1..j - 1 : /\ IsLast(m, Given(h)) /\ Given(h) # {}
                                     /\ \A i \in h + 1..j - 1 : Given(i) = {}
        <5>1. PICK h \in 1..j - 1 : /\ IsLast(m, Given(h)) /\ Given(h) # {}
                                    /\ \A i \in h + 1..j - 1 : Given(i) = {}
          BY <4>3
        <5>2. h \in 1..j /\ \A i \in h + 1..j : i = j \/ i \in h + 1..j - 1
          OBVIOUS
        <5>3. QED
          BY <3>1, <4>1, <5>1, <5>2
      <4>4. QED
        BY <2>1, <4>2, <4>3
    <3>2. CASE Given(j) # {}
      <4>1. k = l
        BY <2>2, <2>3, <3>2 DEF IsLast
      <4>2. j \in 1..j /\ j + 1..j = {}
        OBVIOUS
      <4>3. QED
        BY <2>2, <3>2, <4>1, <4>2
    <3>3. QED
      BY <3>1, <3>2
  <2> HIDE DEF Said
  <2>6. QED
    BY <2>4, <2>5
<1> HIDE DEF T
<1>11. n \in T
  <2>1. \A j \in 0..n : j \in T
    BY <1>9, <1>10, InductionTo
  <2>2. QED
    BY <2>1
<1>12. PICK m : Tell(g[n], c, m) /\ Said(n, m)
  BY <1>11 DEF T
<1>13. PICK B : B = WritingBins(q, c)
  OBVIOUS
<1>14. B = {j \in 1..n : Given(j) # {}}
  <2>1. DOMAIN bins = 1..n
    BY <1>2
  <2>2. ASSUME NEW j \in 1..n
        PROVE  Given(j) # {} <=> bins[j].name = c[1] /\ WritersIn(bins[j].list, c) # {}
    BY DEF Given
  <2>3. QED
    BY <1>1, <1>13, <2>1, <2>2 DEF WritingBins
<1>17. PutOps(q) \in Seq(OpSet)
  <2>1. n \in 0..n
    OBVIOUS
  <2>2. QED
    BY <1>6, <1>7, <2>1
<1>15. CASE B = {}
  <2>1. \A j \in 1..n : Given(j) = {}
    BY <1>14, <1>15
  <2>2. m = {}
    BY <1>12, <2>1
  <2>3. Writers(q, c) = {}
    BY <1>13, <1>15 DEF Writers
  <2>4. QED
    BY <1>7, <1>12, <1>17, <2>2, <2>3 DEF IsLast
<1>16. CASE B # {}
  <2>1. PICK k \in 1..n : /\ IsLast(m, Given(k)) /\ Given(k) # {}
                          /\ \A i \in k + 1..n : Given(i) = {}
    BY <1>12, <1>14, <1>16
  <2>2. Max(B) \in B /\ \A j \in B : j <= Max(B)
    <3>1. B \subseteq Nat /\ \A j \in B : j <= n
      BY <1>14
    <3>2. QED
      BY <1>16, <3>1, Largest
  <2>3. Max(B) = k
    <3>1. k \in B
      BY <1>14, <2>1
    <3>2. PICK b \in 1..n : b = Max(B) /\ Given(b) # {}
      BY <1>14, <2>2
    <3>3. k <= b /\ ~(b \in k + 1..n)
      BY <2>1, <2>2, <3>1, <3>2
    <3>4. b = k
      BY <3>3
    <3>5. QED
      BY <3>2, <3>4
  <2>4. Writers(q, c) = WritersIn(bins[k].list, c)
    BY <1>1, <1>13, <1>16, <2>3 DEF Writers
  <2>5. Given(k) = WritersIn(bins[k].list, c)
    BY <2>1 DEF Given
  <2>6. WritersIn(bins[k].list, c) \subseteq Nat
    <3>1. PICK list \in Lists : list = bins[k].list
      BY <1>3 DEF BinsOf
    <3>2. Len(list) \in Nat /\ WritersIn(list, c) \subseteq 1..Len(list)
      BY <3>1, Wrote
    <3>3. QED
      BY <3>1, <3>2
  <2>7. QED
    BY <1>7, <1>12, <1>17, <2>1, <2>4, <2>5, <2>6
<1> QED
  BY <1>15, <1>16

\* The calls of each kind, and what they hold
LEMMA CallIs ==
    ASSUME NEW q \in Calls
    PROVE  \/ /\ q.op = "cdt_put" /\ q.mode \in Modes /\ q.rec \in Records /\ q.ttl \in Int
              /\ q.bins \in Seq(BinsOf \cup {BadBin})
           \/ /\ q.op = "cdt_delete_by_keys" /\ q.rec \in Records /\ q.bin \in Bins
              /\ q.keys \in Seq(Items)
           \/ /\ q.op = "batch" /\ q.mode \in Modes /\ q.bin \in Bins
              /\ q.deletes \in Seq([rec : Records, keys : Seq(Items)])
           \/ /\ q.op = "map_put" /\ q.rec \in Records /\ q.bin \in Bins /\ q.ttl \in Int
              /\ q.keys \in SUBSET Keys
           \/ /\ q.op = "binary_remove" /\ q.rec \in Records /\ q.ttl \in Int
              /\ q.bins \in Seq(Bins) /\ q.bins # <<>>
           \/ q.op = "key_remove" /\ q.rec \in Records
BY DEF Calls, BinsOf

LEMMA ReadsBins ==
    ASSUME NEW q \in Calls, q.op = "cdt_put", ~BadArg(q), ~Nothing(q)
    PROVE  Read(q) \in Seq(BinsOf)
<1>1. q.bins \in Seq(BinsOf \cup {BadBin}) /\ q.bins # <<>>
  BY CallIs DEF Nothing
<1>2. BadBin \notin ToSet(Read(q))
  BY <1>1 DEF BadArg
<1>3. PICK n \in Nat : n = Len(q.bins)
  BY <1>1, LenProperties
<1>4. CASE q.mode = "sync"
  <2>1. PICK b \in BinsOf \cup {BadBin} : b = Head(q.bins)
    BY <1>1
  <2>2. Read(q) = <<b>>
    BY <1>4, <2>1 DEF Read
  <2>3. b \in ToSet(<<b>>)
    BY 1 \in DOMAIN <<b>>, <<b>>[1] = b DEF ToSet
  <2>4. b \in BinsOf
    BY <1>2, <2>2, <2>3
  <2>5. QED
    BY <2>2, <2>4
<1>5. CASE q.mode # "sync"
  <2>1. Read(q) = q.bins
    BY <1>5 DEF Read
  <2>2. q.bins \in [1..n -> BinsOf \cup {BadBin}]
    BY <1>1, <1>3
  <2>3. \A j \in 1..n : q.bins[j] \in ToSet(q.bins)
    BY <2>2 DEF ToSet
  <2>4. \A j \in 1..n : q.bins[j] \in BinsOf
    BY <1>2, <2>1, <2>2, <2>3
  <2>5. q.bins \in [1..n -> BinsOf]
    BY <2>2, <2>4
  <2>6. QED
    BY <1>1, <2>1, <2>5
<1> QED
  BY <1>4, <1>5

LEMMA RemoveTells ==
    ASSUME NEW b \in Bins, NEW keys \in Seq(Items), NEW c \in Cells
    PROVE  /\ <<RemoveKeys(b, keys)>> \in Seq(OpSet)
           /\ Tell(<<RemoveKeys(b, keys)>>, c,
                   IF c[1] = b /\ c[2] \in ToSet(keys) THEN {-1} ELSE {})
<1>1. PICK K : K = ToSet(keys)
  OBVIOUS
<1>2. K \subseteq Items
  <2>1. \A i \in DOMAIN keys : keys[i] \in Items
    OBVIOUS
  <2>2. QED
    BY <1>1, <2>1 DEF ToSet
<1>3. PICK op : op = RemoveKeys(b, keys)
  OBVIOUS
<1>4. op = [clear |-> {b} \X K \X Fields, set |-> {}, triple |-> 0]
  BY <1>1, <1>3 DEF RemoveKeys, Op
<1>5. op \in OpSet
  BY <1>2, <1>4 DEF OpSet, Named
<1>6. Touches(op, c) <=> c[1] = b /\ c[2] \in K
  BY <1>4 DEF Touches, Cells
<1>7. Does(op, c) = {-1}
  BY <1>4 DEF Does
<1>8. Tell(<<op>>, c, IF Touches(op, c) THEN Does(op, c) ELSE {})
  BY OneTells
<1> QED
  BY <1>1, <1>3, <1>5, <1>6, <1>7, <1>8

LEMMA BatchTells ==
    ASSUME NEW q \in Calls, q.op = "batch", NEW r, NEW c \in Cells
    PROVE  /\ BatchOps(q, r) \in Seq(OpSet)
           /\ Tell(BatchOps(q, r), c, IF Clears(q, r, c) THEN {-1} ELSE {})
<1>1. PICK b \in Bins : b = q.bin
  BY CallIs
<1>2. PICK deletes \in Seq([rec : Records, keys : Seq(Items)]) : deletes = q.deletes
  BY CallIs
<1>3. PICK n \in Nat : n = Len(deletes)
  BY LenProperties
<1>4. DOMAIN deletes = 1..n /\ \A j \in 1..n : deletes[j].keys \in Seq(Items)
  <2> DEFINE Deletes == [rec : Records, keys : Seq(Items)]
  <2>2. ASSUME NEW j \in 1..n PROVE deletes[j].keys \in Seq(Items)
    <3>1. deletes[j] \in Deletes
      BY <1>3, ElementOfSeq
    <3>2. QED
      BY <3>1
  <2>1. DOMAIN deletes = 1..n
    <3> HIDE DEF Deletes
    <3>1. deletes \in Seq(Deletes)
      BY DEF Deletes
    <3>2. QED
      BY <1>3, <3>1
  <2>3. QED
    BY <2>1, <2>2
<1> DEFINE One(j) == IF deletes[j].rec = r THEN <<RemoveKeys(b, deletes[j].keys)>> ELSE <<>>
<1> DEFINE Hit(j) == deletes[j].rec = r /\ c[1] = b /\ c[2] \in ToSet(deletes[j].keys)
<1>5. ASSUME NEW j \in 1..n
      PROVE  One(j) \in Seq(OpSet) /\ Tell(One(j), c, IF Hit(j) THEN {-1} ELSE {})
  <2>1. CASE deletes[j].rec = r
    <3>1. PICK keys \in Seq(Items) : keys = deletes[j].keys
      BY <1>4
    <3>2. One(j) = <<RemoveKeys(b, keys)>> /\ (Hit(j) <=> c[1] = b /\ c[2] \in ToSet(keys))
      BY <2>1, <3>1
    <3> HIDE DEF One, Hit
    <3>3. QED
      BY <3>2, RemoveTells
  <2>2. CASE deletes[j].rec # r
    <3>1. One(j) = <<>> /\ ~Hit(j)
      BY <2>2
    <3> HIDE DEF One, Hit
    <3>2. QED
      BY <3>1, NothingTells
  <2>3. QED
    BY <2>1, <2>2
<1>6. PICK ss : ss = [j \in 1..n |-> One(j)]
  OBVIOUS
<1>7. BatchOps(q, r) = FlattenSeq(ss)
  BY <1>1, <1>2, <1>4, <1>6 DEF BatchOps
<1>8. Clears(q, r, c) <=> \E j \in 1..n : Hit(j)
  <2>1. Clears(q, r, c) <=> c[1] = b /\ \E d \in ToSet(deletes) : d.rec = r /\ c[2] \in ToSet(d.keys)
    BY <1>1, <1>2 DEF Clears
  <2>2. PICK D : D = ToSet(deletes)
    OBVIOUS
  <2>3. D = {deletes[j] : j \in 1..n}
    BY <1>4, <2>2 DEF ToSet
  <2>4. (\E d \in D : d.rec = r /\ c[2] \in ToSet(d.keys))
          <=> \E j \in 1..n : deletes[j].rec = r /\ c[2] \in ToSet(deletes[j].keys)
    BY <2>3
  <2>5. QED
    BY <2>1, <2>2, <2>4
<1> HIDE DEF One, Hit
<1>9. ss \in Seq(Seq(OpSet)) /\ Len(ss) = n /\ \A j \in 1..n : ss[j] = One(j)
  <2>1. \A j \in 1..n : One(j) \in Seq(OpSet)
    BY <1>5
  <2>2. QED
    BY <1>6, <2>1
<1>10. PICK g \in [0..n -> Seq(OpSet)] :
          /\ g[0] = <<>> /\ FlattenSeq(ss) = g[n]
          /\ \A j \in 1..n : g[j] = g[j - 1] \o ss[j]
  BY <1>9, Flattened
<1> DEFINE M(j) == IF \E i \in 1..j : Hit(i) THEN {-1} ELSE {}
<1> DEFINE T == {j \in 0..n : Tell(g[j], c, M(j))}
<1>11. 0 \in T
  <2>1. M(0) = {}
    OBVIOUS
  <2>2. QED
    BY <1>10, <2>1, NothingTells
<1>12. ASSUME NEW j \in 1..n, j - 1 \in T PROVE j \in T
  <2>1. PICK l : l = IF Hit(j) THEN {-1} ELSE {}
    OBVIOUS
  <2>2. One(j) \in Seq(OpSet) /\ Tell(One(j), c, l)
    BY <1>5, <2>1
  <2>3. g[j - 1] \in Seq(OpSet) /\ Tell(g[j - 1], c, M(j - 1))
    <3>1. j - 1 \in 0..n
      OBVIOUS
    <3>2. QED
      BY <1>10, <1>12, <3>1
  <2>4. PICK m : m = M(j - 1)
    OBVIOUS
  <2>5. (IF l = {} THEN m ELSE l) = M(j)
    <3>1. \A i : i \in 1..j <=> i = j \/ i \in 1..j - 1
      OBVIOUS
    <3>2. QED
      BY <2>1, <2>4, <3>1
  <2>6. g[j] = g[j - 1] \o One(j)
    BY <1>9, <1>10
  <2> HIDE DEF M
  <2>7. PICK e : e = IF l = {} THEN m ELSE l
    OBVIOUS
  <2>8. Tell(g[j - 1] \o One(j), c, e)
    BY <2>2, <2>3, <2>4, <2>7, TellNext
  <2>9. Tell(g[j], c, M(j))
    BY <2>5, <2>6, <2>7, <2>8
  <2>10. QED
    BY <2>9
<1> HIDE DEF T
<1>13. n \in T
  <2>1. \A j \in 0..n : j \in T
    BY <1>11, <1>12, InductionTo
  <2>2. QED
    BY <2>1
<1>14. Tell(g[n], c, M(n))
  BY <1>13 DEF T
<1>15. g[n] \in Seq(OpSet)
  <2>1. n \in 0..n
    OBVIOUS
  <2>2. QED
    BY <1>10, <2>1
<1>16. M(n) = IF Clears(q, r, c) THEN {-1} ELSE {}
  BY <1>8
<1> HIDE DEF M
<1> QED
  BY <1>7, <1>10, <1>14, <1>15, <1>16

LEMMA WholeTells ==
    ASSUME NEW op, op.triple = 0, NEW c,
           NEW m, m = IF c \in op.set THEN {0} ELSE IF c \in op.clear THEN {-1} ELSE {}
    PROVE  Tell(<<op>>, c, m)
<1>1. Tell(<<op>>, c, IF Touches(op, c) THEN Does(op, c) ELSE {})
  BY OneTells
<1>2. (IF Touches(op, c) THEN Does(op, c) ELSE {}) = m
  BY DEF Touches, Does
<1> QED
  BY <1>1, <1>2

LEMMA MaxIs ==
    ASSUME NEW T, T \subseteq Nat, NEW m, IsLast(m, T)
    PROVE  m = IF T # {} THEN {Max(T)} ELSE {}
<1>1. CASE T = {}
  BY <1>1 DEF IsLast
<1>2. CASE T # {}
  <2>1. PICK x \in T : m = {x} /\ \A y \in T : y <= x
    BY <1>2 DEF IsLast
  <2>2. Max(T) \in T /\ \A y \in T : y <= Max(T)
    BY <1>2, <2>1, Largest
  <2>3. x \in Nat /\ Max(T) \in Nat /\ x <= Max(T) /\ Max(T) <= x
    BY <2>1, <2>2
  <2>4. x = Max(T)
    BY <2>3
  <2>5. QED
    BY <1>2, <2>1, <2>4
<1> QED
  BY <1>1, <1>2

LEMMA FlatType ==
    ASSUME NEW S, NEW ss \in Seq(Seq(S))
    PROVE  FlattenSeq(ss) \in Seq(S)
<1>1. PICK g \in [0..Len(ss) -> Seq(S)] : FlattenSeq(ss) = g[Len(ss)]
  BY Flattened
<1>2. Len(ss) \in Nat /\ Len(ss) \in 0..Len(ss)
  BY LenProperties
<1> QED
  BY <1>1, <1>2

LEMMA PutsType ==
    ASSUME NEW q, Read(q) \in Seq(BinsOf)
    PROVE  PutOps(q) \in Seq(OpSet)
<1>1. PICK bins \in Seq(BinsOf) : bins = Read(q)
  OBVIOUS
<1>2. PICK n \in Nat : n = Len(bins)
  BY LenProperties
<1>3. \A j \in 1..n : OpsOf(bins[j]) \in Seq(OpSet)
  <2>1. \A j \in 1..n : bins[j] \in BinsOf
    BY <1>2
  <2>2. QED
    BY <2>1, ListTells
<1>4. PICK ss : ss = [j \in 1..n |-> OpsOf(bins[j])]
  OBVIOUS
<1>5. ss \in Seq(Seq(OpSet))
  BY <1>3, <1>4
<1> QED
  BY <1>1, <1>2, <1>4, <1>5, FlatType DEF PutOps

LEMMA BatchType ==
    ASSUME NEW q \in Calls, q.op = "batch", NEW r
    PROVE  BatchOps(q, r) \in Seq(OpSet)
<1>1. PICK b \in Bins : b = q.bin
  BY CallIs
<1> DEFINE Deletes == [rec : Records, keys : Seq(Items)]
<1>2. PICK deletes \in Seq(Deletes) : deletes = q.deletes
  BY CallIs
<1>3. PICK n \in Nat : n = Len(deletes)
  BY LenProperties
<1>4. ASSUME NEW j \in 1..n, NEW k, k = RemoveKeys(b, deletes[j].keys) PROVE <<k>> \in Seq(OpSet)
  <2>1. deletes[j] \in Deletes
    BY <1>3, ElementOfSeq
  <2>2. PICK keys \in Seq(Items) : keys = deletes[j].keys
    BY <2>1
  <2>3. k \in OpSet
    <3>1. \A i \in DOMAIN keys : keys[i] \in Items
      OBVIOUS
    <3>2. PICK K : K = ToSet(keys)
      OBVIOUS
    <3>3. K \subseteq Items
      BY <3>1, <3>2 DEF ToSet
    <3>4. k = [clear |-> {b} \X K \X Fields, set |-> {}, triple |-> 0]
      BY <1>4, <2>2, <3>2 DEF RemoveKeys, Op
    <3>5. QED
      BY <3>3, <3>4 DEF OpSet, Named
  <2>4. QED
    BY <2>3
<1>5. DOMAIN deletes = 1..n
  <2> HIDE DEF Deletes
  <2>1. QED
    BY <1>3
<1>6. PICK ss : ss = [j \in 1..n |-> IF deletes[j].rec = r
                                     THEN <<RemoveKeys(b, deletes[j].keys)>> ELSE <<>>]
  OBVIOUS
<1>7. ss \in Seq(Seq(OpSet))
  <2>1. ASSUME NEW j \in 1..n PROVE ss[j] \in Seq(OpSet)
    <3>1. <<RemoveKeys(b, deletes[j].keys)>> \in Seq(OpSet) /\ <<>> \in Seq(OpSet)
      BY <1>4
    <3>2. QED
      BY <1>6, <3>1
  <2>2. QED
    BY <1>6, <2>1
<1>8. BatchOps(q, r) = FlattenSeq(ss)
  BY <1>1, <1>2, <1>5, <1>6 DEF BatchOps
<1> QED
  BY <1>7, <1>8, FlatType

LEMMA WholeType ==
    ASSUME NEW clear \in SUBSET Named, NEW set \in SUBSET Named
    PROVE  <<Op(clear, set, 0)>> \in Seq(OpSet)
<1>1. PICK op : op = Op(clear, set, 0)
  OBVIOUS
<1>2. op \in OpSet
  BY <1>1 DEF Op, OpSet
<1> QED
  BY <1>1, <1>2

LEMMA OperationsType ==
    ASSUME NEW q \in Requests, ~BadArg(q), ~Nothing(q), NEW r \in Records
    PROVE  Operations(q, r) \in Seq(OpSet)
<1>1. q \in Calls
  BY RequestsAssumption
<1>2. {} \in SUBSET Named /\ Cells \in SUBSET Named
  BY DEF Cells, Named
<1>3. CASE q.op = "cdt_put"
  <2>1. Operations(q, r) = PutOps(q)
    BY <1>3 DEF Operations
  <2>2. QED
    BY <1>1, <1>3, <2>1, ReadsBins, PutsType
<1>4. CASE q.op = "cdt_delete_by_keys"
  <2>1. Operations(q, r) = DeleteOps(q)
    BY <1>4 DEF Operations
  <2>2. PICK b \in Bins : b = q.bin
    BY <1>1, <1>4, CallIs
  <2>3. PICK keys \in Seq(Items) : keys = q.keys
    BY <1>1, <1>4, CallIs
  <2>4. PICK K : K = ToSet(keys)
    OBVIOUS
  <2>5. <<>> \in Seq(OpSet)
    OBVIOUS
  <2>6. K \subseteq Keys => RemoveKeys(b, keys) \in OpSet
    BY <2>4 DEF RemoveKeys, Op, OpSet, Named
  <2>7. PICK k : k = RemoveKeys(b, keys)
    OBVIOUS
  <2>8. DeleteOps(q) = IF K \subseteq Keys THEN <<k>> ELSE <<>>
    BY <2>2, <2>3, <2>4, <2>7 DEF DeleteOps
  <2>9. QED
    BY <2>1, <2>5, <2>6, <2>7, <2>8
<1>5. CASE q.op = "batch"
  <2>1. Operations(q, r) = BatchOps(q, r)
    BY <1>5 DEF Operations
  <2>2. QED
    BY <1>1, <1>5, <2>1, BatchType
<1>6. CASE q.op = "map_put"
  <2>1. Operations(q, r) = <<Op(WholeBin(q.bin), {q.bin} \X q.keys \X {"plain"}, 0)>>
    BY <1>6 DEF Operations, MapOps
  <2>2. PICK clear : clear = WholeBin(q.bin)
    OBVIOUS
  <2>3. PICK set : set = {q.bin} \X q.keys \X {"plain"}
    OBVIOUS
  <2>4. q.bin \in Bins /\ q.keys \subseteq Keys
    BY <1>1, <1>6, CallIs
  <2>5. clear \in SUBSET Named
    BY <2>2, <2>4 DEF WholeBin, Named
  <2>6. set \in SUBSET Named
    BY <2>3, <2>4 DEF Named, Fields
  <2>7. QED
    BY <2>1, <2>2, <2>3, <2>5, <2>6, WholeType
<1>7. CASE q.op = "binary_remove"
  <2>1. Operations(q, r) = <<Op(WholeBin(Head(q.bins)), {}, 0)>>
    BY <1>7 DEF Operations, NilOps
  <2>2. PICK clear : clear = WholeBin(Head(q.bins))
    OBVIOUS
  <2>3. Head(q.bins) \in Bins
    BY <1>1, <1>7, CallIs
  <2>4. clear \in SUBSET Named
    BY <2>2, <2>3 DEF WholeBin, Named
  <2>5. QED
    BY <1>2, <2>1, <2>2, <2>4, WholeType
<1>8. CASE q.op = "key_remove"
  <2>1. Operations(q, r) = <<Op(Cells, {}, 0)>>
    BY <1>8 DEF Operations, RemoveOps
  <2>2. QED
    BY <1>2, <2>1, WholeType
<1> QED
  BY <1>1, <1>3, <1>4, <1>5, <1>6, <1>7, <1>8, CallIs

LEMMA MeaningIs ==
    ASSUME NEW q \in Requests, NEW r \in Records, NEW c \in Cells
    PROVE  Meaning[q][r][c] = IF Writers(q, c) # {} THEN {Max(Writers(q, c))}
                              ELSE IF Clears(q, r, c) THEN {-1} ELSE {}
BY DEF Meaning

\* The operations of a call do to each cell what the call means.
LEMMA OperationsTell ==
    ASSUME NEW q \in Requests, ~BadArg(q), ~Nothing(q), NEW r \in Records,
           Operations(q, r) # <<>>, NEW c \in Cells
    PROVE  Tell(Operations(q, r), c, Meaning[q][r][c])
<1>1. q \in Calls
  BY RequestsAssumption
<1>2. PICK m : m = Meaning[q][r][c]
  OBVIOUS
<1>3. m = IF Writers(q, c) # {} THEN {Max(Writers(q, c))}
          ELSE IF Clears(q, r, c) THEN {-1} ELSE {}
  BY <1>2, MeaningIs
<1>4. c[1] \in Bins /\ c[2] \in Keys /\ c[3] \in Fields
  BY DEF Cells
<1>5. PICK ops : ops = Operations(q, r)
  OBVIOUS
<1>6. CASE q.op = "cdt_put"
  <2>1. ops = PutOps(q)
    BY <1>5, <1>6 DEF Operations
  <2>2. Writers(q, c) \subseteq Nat
    BY <1>1, <1>6, ReadsBins, PutsTell
  <2>3. PICK l : Tell(PutOps(q), c, l) /\ IsLast(l, Writers(q, c))
    BY <1>1, <1>6, ReadsBins, PutsTell
  <2>4. l = IF Writers(q, c) # {} THEN {Max(Writers(q, c))} ELSE {}
    BY <2>2, <2>3, MaxIs
  <2>5. ~Clears(q, r, c)
    BY <1>6 DEF Clears
  <2>6. QED
    BY <1>2, <1>3, <1>5, <2>1, <2>3, <2>4, <2>5
<1>7. CASE q.op = "cdt_delete_by_keys"
  <2>1. PICK b \in Bins : b = q.bin
    BY <1>1, <1>7, CallIs
  <2>2. PICK keys \in Seq(Items) : keys = q.keys
    BY <1>1, <1>7, CallIs
  <2>3. ops = <<RemoveKeys(b, keys)>>
    BY <1>5, <1>7, <2>1, <2>2 DEF Operations, DeleteOps
  <2>4. Writers(q, c) = {}
    BY <1>7 DEF Writers
  <2>5. Clears(q, r, c) <=> c[1] = b /\ c[2] \in ToSet(keys)
    BY <1>7, <2>1, <2>2 DEF Clears
  <2>6. m = IF c[1] = b /\ c[2] \in ToSet(keys) THEN {-1} ELSE {}
    BY <1>3, <2>4, <2>5
  <2>7. Tell(ops, c, m)
    BY <2>3, <2>6, RemoveTells
  <2>8. QED
    BY <1>2, <1>5, <2>7
<1>8. CASE q.op = "batch"
  <2>1. ops = BatchOps(q, r)
    BY <1>5, <1>8 DEF Operations
  <2>2. Writers(q, c) = {}
    BY <1>8 DEF Writers
  <2>3. m = IF Clears(q, r, c) THEN {-1} ELSE {}
    BY <1>3, <2>2
  <2>4. Tell(ops, c, m)
    BY <1>1, <1>8, <2>1, <2>3, BatchTells
  <2>5. QED
    BY <1>2, <1>5, <2>4
<1>9. CASE q.op = "map_put"
  <2>1. PICK op : op = Op(WholeBin(q.bin), {q.bin} \X q.keys \X {"plain"}, 0)
    OBVIOUS
  <2>2. ops = <<op>>
    BY <1>5, <1>9, <2>1 DEF Operations, MapOps
  <2>3. op.triple = 0 /\ (c \in op.clear <=> c[1] = q.bin)
        /\ (c \in op.set <=> c[1] = q.bin /\ c[2] \in q.keys /\ c[3] = "plain")
    BY <1>4, <2>1 DEF Op, WholeBin, Cells
  <2>4. Clears(q, r, c) <=> c[1] = q.bin
    BY <1>9 DEF Clears
  <2>5. Writers(q, c) = IF c \in op.set THEN {0} ELSE {}
    BY <1>9, <2>3 DEF Writers
  <2>6. IsLast({0}, {0})
    BY DEF IsLast
  <2>7. Max({0}) = 0
    BY <2>6, MaxIs
  <2>8. m = IF c \in op.set THEN {0} ELSE IF c \in op.clear THEN {-1} ELSE {}
    BY <1>3, <2>3, <2>4, <2>5, <2>7
  <2>9. Tell(ops, c, m)
    BY <2>2, <2>3, <2>8, WholeTells
  <2>10. QED
    BY <1>2, <1>5, <2>9
<1>10. CASE q.op = "binary_remove"
  <2>1. PICK op : op = Op(WholeBin(Head(q.bins)), {}, 0)
    OBVIOUS
  <2>2. ops = <<op>>
    BY <1>5, <1>10, <2>1 DEF Operations, NilOps
  <2>3. op.triple = 0 /\ op.set = {} /\ (c \in op.clear <=> c[1] = Head(q.bins))
    BY <1>4, <2>1 DEF Op, WholeBin, Cells
  <2>4. Clears(q, r, c) <=> c[1] = Head(q.bins)
    BY <1>10 DEF Clears
  <2>5. Writers(q, c) = {}
    BY <1>10 DEF Writers
  <2>6. m = IF c \in op.set THEN {0} ELSE IF c \in op.clear THEN {-1} ELSE {}
    BY <1>3, <2>3, <2>4, <2>5
  <2>7. Tell(ops, c, m)
    BY <2>2, <2>3, <2>6, WholeTells
  <2>8. QED
    BY <1>2, <1>5, <2>7
<1>11. CASE q.op = "key_remove"
  <2>1. PICK op : op = Op(Cells, {}, 0)
    OBVIOUS
  <2>2. ops = <<op>>
    BY <1>5, <1>11, <2>1 DEF Operations, RemoveOps
  <2>3. op.triple = 0 /\ op.set = {} /\ c \in op.clear
    BY <2>1 DEF Op
  <2>4. Clears(q, r, c)
    BY <1>11 DEF Clears
  <2>5. Writers(q, c) = {}
    BY <1>11 DEF Writers
  <2>6. m = IF c \in op.set THEN {0} ELSE IF c \in op.clear THEN {-1} ELSE {}
    BY <1>3, <2>3, <2>4, <2>5
  <2>7. Tell(ops, c, m)
    BY <2>2, <2>3, <2>6, WholeTells
  <2>8. QED
    BY <1>2, <1>5, <2>7
<1> QED
  BY <1>1, <1>6, <1>7, <1>8, <1>9, <1>10, <1>11, CallIs

-----------------------------------------------------------------------------
(* What the log says *)

\* LastWriter and LastLife, of any calls a and any log l
Touching(a, l, r, c) == {j \in DOMAIN l : l[j][2] = r /\ Meaning[a[l[j][1]]][r][c] # {}}
WriterOf(a, l, r, c) ==
    LET last == Max(Touching(a, l, r, c))
        i    == Only(Meaning[a[l[last][1]]][r][c])
    IN  IF Touching(a, l, r, c) = {} THEN Nobody
        ELSE IF i = -1 THEN Nobody ELSE <<l[last][1], i>>
Setting(a, l, r) == {j \in DOMAIN l : l[j][2] = r /\ Ttl(a[l[j][1]]) # NoChange}
LifeOf(a, l, r) == IF Setting(a, l, r) = {} THEN Default
                   ELSE Ttl(a[l[Max(Setting(a, l, r))][1]])

LEMMA TheLargest ==
    ASSUME NEW T, T \subseteq Nat, NEW k \in T, \A j \in T : j <= k
    PROVE  Max(T) = k
<1>1. IsLast({k}, T)
  BY DEF IsLast
<1>2. {k} = {Max(T)}
  BY <1>1, MaxIs
<1> QED
  BY <1>2

\* The log k is l and one more run of a command.
Extends(k, l, n, o) == /\ l \in Seq(Nat \X Records) /\ n \in Nat /\ o \in Records
                       /\ k = Append(l, <<n, o>>)

\* The same, run by run: m is the length of l.
ExtendsAt(k, l, n, o, m) ==
    /\ DOMAIN l = 1..m /\ DOMAIN k = 1..m + 1 /\ k[m + 1] = <<n, o>>
    /\ \A j \in 1..m : k[j] = l[j]

LEMMA LogNext ==
    ASSUME NEW k, NEW l, NEW n, NEW o, Extends(k, l, n, o)
    PROVE  \E m \in Nat : ExtendsAt(k, l, n, o, m)
<1>1. PICK m \in Nat : m = Len(l)
  BY LenProperties DEF Extends
<1>2. ExtendsAt(k, l, n, o, m)
  BY <1>1 DEF Extends, ExtendsAt
<1> QED
  BY <1>2

Continues(a, k, l, n, o, r, c) ==
    WriterOf(a, k, r, c) = IF r = o THEN After(WriterOf(a, l, r, c), Meaning[a[n]][r][c], n)
                           ELSE WriterOf(a, l, r, c)

LEMMA WriterNext ==
    ASSUME NEW a, NEW k, NEW l, NEW n, NEW o, Extends(k, l, n, o),
           NEW r \in Records, NEW c \in Cells
    PROVE  Continues(a, k, l, n, o, r, c)
<1>1. PICK m \in Nat : /\ DOMAIN l = 1..m /\ DOMAIN k = 1..m + 1 /\ k[m + 1] = <<n, o>>
                       /\ \A j \in 1..m : k[j] = l[j]
  <2>1. \E m \in Nat : ExtendsAt(k, l, n, o, m)
    BY LogNext
  <2>2. QED
    BY <2>1 DEF ExtendsAt
<1>2. PICK T : T = Touching(a, l, r, c)
  OBVIOUS
<1>3. PICK U : U = Touching(a, k, r, c)
  OBVIOUS
<1>4. PICK M : M = Meaning[a[n]][r][c]
  OBVIOUS
<1>5. T \subseteq 1..m
  BY <1>1, <1>2 DEF Touching
<1>6. U = IF r = o /\ M # {} THEN T \cup {m + 1} ELSE T
  <2>1. \A j : j \in 1..m + 1 <=> j \in 1..m \/ j = m + 1
    BY <1>1
  <2>2. \A j \in 1..m : j \in U <=> j \in T
    BY <1>1, <1>2, <1>3, <2>1 DEF Touching
  <2>3. m + 1 \in U <=> r = o /\ M # {}
    <3>1. k[m + 1][1] = n /\ k[m + 1][2] = o /\ m + 1 \in DOMAIN k
      BY <1>1
    <3>2. QED
      BY <1>3, <1>4, <3>1 DEF Touching
  <2>4. U \subseteq 1..m + 1 /\ m + 1 \notin T
    BY <1>1, <1>3, <1>5 DEF Touching
  <2>5. CASE r = o /\ M # {}
    <3>1. m + 1 \in U
      BY <2>3, <2>5
    <3>2. \A j : j \in U <=> j \in T \/ j = m + 1
      BY <1>5, <2>1, <2>2, <2>4, <3>1
    <3>3. QED
      BY <2>5, <3>2
  <2>6. CASE ~(r = o /\ M # {})
    <3>1. m + 1 \notin U
      BY <2>3, <2>6
    <3>2. \A j : j \in U <=> j \in T
      BY <1>5, <2>1, <2>2, <2>4, <3>1
    <3>3. U = T
      BY <3>2
    <3>4. QED
      BY <2>6, <3>3
  <2>7. QED
    BY <2>5, <2>6
<1>7. CASE r = o /\ M # {}
  <2>1. m + 1 \in U /\ U \subseteq Nat /\ \A j \in U : j <= m + 1
    BY <1>5, <1>6, <1>7
  <2>2. Max(U) = m + 1
    BY <2>1, TheLargest
  <2>3. WriterOf(a, k, r, c) = After(Nobody, M, n)
    <3>1. k[Max(U)][1] = n /\ U # {}
      BY <1>1, <2>1, <2>2
    <3>2. QED
      BY <1>3, <1>4, <1>7, <3>1 DEF WriterOf, After
  <2>4. QED
    BY <1>4, <1>7, <2>3 DEF After, Continues
<1>8. CASE ~(r = o /\ M # {})
  <2>1. U = T
    BY <1>6, <1>8
  <2>2. WriterOf(a, k, r, c) = WriterOf(a, l, r, c)
    <3>1. CASE T = {}
      BY <1>2, <1>3, <2>1, <3>1 DEF WriterOf
    <3>2. CASE T # {}
      <4>1. T \subseteq Nat /\ \A j \in T : j <= m
        BY <1>5
      <4>2. Max(T) \in T
        BY <3>2, <4>1, Largest
      <4>3. k[Max(T)] = l[Max(T)]
        BY <1>1, <1>5, <4>2
      <4>4. QED
        BY <1>2, <1>3, <2>1, <4>3 DEF WriterOf
    <3>3. QED
      BY <3>1, <3>2
  <2>3. QED
    BY <1>4, <1>8, <2>2 DEF After, Continues
<1> QED
  BY <1>7, <1>8

LEMMA LifeNext ==
    ASSUME NEW a, NEW k, NEW l, NEW n, NEW o, Extends(k, l, n, o), NEW r \in Records
    PROVE  LifeOf(a, k, r) = IF r = o THEN Life(LifeOf(a, l, r), Ttl(a[n]))
                             ELSE LifeOf(a, l, r)
<1>1. PICK m \in Nat : /\ DOMAIN l = 1..m /\ DOMAIN k = 1..m + 1 /\ k[m + 1] = <<n, o>>
                       /\ \A j \in 1..m : k[j] = l[j]
  <2>1. \E m \in Nat : ExtendsAt(k, l, n, o, m)
    BY LogNext
  <2>2. QED
    BY <2>1 DEF ExtendsAt
<1>2. PICK T : T = Setting(a, l, r)
  OBVIOUS
<1>3. PICK U : U = Setting(a, k, r)
  OBVIOUS
<1>4. PICK ttl : ttl = Ttl(a[n])
  OBVIOUS
<1>5. T \subseteq 1..m
  BY <1>1, <1>2 DEF Setting
<1>6. U = IF r = o /\ ttl # NoChange THEN T \cup {m + 1} ELSE T
  <2>1. \A j : j \in 1..m + 1 <=> j \in 1..m \/ j = m + 1
    BY <1>1
  <2>2. \A j \in 1..m : j \in U <=> j \in T
    BY <1>1, <1>2, <1>3, <2>1 DEF Setting
  <2>3. m + 1 \in U <=> r = o /\ ttl # NoChange
    <3>1. k[m + 1][1] = n /\ k[m + 1][2] = o /\ m + 1 \in DOMAIN k
      BY <1>1
    <3>2. QED
      BY <1>3, <1>4, <3>1 DEF Setting
  <2>4. U \subseteq 1..m + 1 /\ m + 1 \notin T
    BY <1>1, <1>3, <1>5 DEF Setting
  <2>5. CASE r = o /\ ttl # NoChange
    <3>1. m + 1 \in U
      BY <2>3, <2>5
    <3>2. \A j : j \in U <=> j \in T \/ j = m + 1
      BY <1>5, <2>1, <2>2, <2>4, <3>1
    <3>3. QED
      BY <2>5, <3>2
  <2>6. CASE ~(r = o /\ ttl # NoChange)
    <3>1. m + 1 \notin U
      BY <2>3, <2>6
    <3>2. \A j : j \in U <=> j \in T
      BY <1>5, <2>1, <2>2, <2>4, <3>1
    <3>3. U = T
      BY <3>2
    <3>4. QED
      BY <2>6, <3>3
  <2>7. QED
    BY <2>5, <2>6
<1>7. CASE r = o /\ ttl # NoChange
  <2>1. m + 1 \in U /\ U \subseteq Nat /\ \A j \in U : j <= m + 1
    BY <1>5, <1>6, <1>7
  <2>2. Max(U) = m + 1
    BY <2>1, TheLargest
  <2>3. LifeOf(a, k, r) = ttl
    <3>1. U # {} /\ k[Max(U)][1] = n
      BY <1>1, <2>1, <2>2
    <3>2. QED
      BY <1>3, <1>4, <3>1 DEF LifeOf
  <2>4. QED
    BY <1>4, <1>7, <2>3 DEF Life
<1>8. CASE ~(r = o /\ ttl # NoChange)
  <2>1. U = T
    BY <1>6, <1>8
  <2>2. LifeOf(a, k, r) = LifeOf(a, l, r)
    <3>1. CASE T = {}
      BY <1>2, <1>3, <2>1, <3>1 DEF LifeOf
    <3>2. CASE T # {}
      <4>1. T \subseteq Nat /\ \A j \in T : j <= m
        BY <1>5
      <4>2. Max(T) \in T
        BY <3>2, <4>1, Largest
      <4>3. k[Max(T)] = l[Max(T)]
        BY <1>1, <1>5, <4>2
      <4>4. QED
        BY <1>2, <1>3, <2>1, <4>3 DEF LifeOf
    <3>3. QED
      BY <3>1, <3>2
  <2>3. QED
    BY <1>4, <1>8, <2>2 DEF Life
<1> QED
  BY <1>7, <1>8

\* The calls a and b are the same as far as the log l names them.
SameCalls(a, b, l, m) == /\ m \in Nat /\ DOMAIN l = 1..m
                         /\ \A j \in 1..m : b[l[j][1]] = a[l[j][1]]

LEMMA LogStays ==
    ASSUME NEW a, NEW b, NEW l, NEW m, SameCalls(a, b, l, m), NEW r
    PROVE  /\ LifeOf(b, l, r) = LifeOf(a, l, r)
           /\ \A c : WriterOf(b, l, r, c) = WriterOf(a, l, r, c)
<1>3. m \in Nat /\ DOMAIN l = 1..m /\ \A j \in 1..m : b[l[j][1]] = a[l[j][1]]
  BY DEF SameCalls
<1>1. LifeOf(b, l, r) = LifeOf(a, l, r)
  <2>1. PICK T : T = Setting(a, l, r)
    OBVIOUS
  <2>2. Setting(b, l, r) = T /\ T \subseteq 1..m
    BY <1>3, <2>1 DEF Setting
  <2>3. CASE T = {}
    BY <2>1, <2>2, <2>3 DEF LifeOf
  <2>4. CASE T # {}
    <3>1. T \subseteq Nat /\ \A j \in T : j <= m
      BY ONLY <1>3, <2>2
    <3>2. PICK j \in 1..m : j = Max(T)
      BY <1>3, <2>2, <2>4, <3>1, Largest
    <3>3. b[l[Max(T)][1]] = a[l[Max(T)][1]]
      BY <1>3, <3>2
    <3>4. QED
      BY <2>1, <2>2, <2>4, <3>3 DEF LifeOf
  <2>5. QED
    BY <2>3, <2>4
<1>2. ASSUME NEW c PROVE WriterOf(b, l, r, c) = WriterOf(a, l, r, c)
  <2>1. PICK T : T = Touching(a, l, r, c)
    OBVIOUS
  <2>2. Touching(b, l, r, c) = T /\ T \subseteq 1..m
    BY <1>3, <2>1 DEF Touching
  <2>3. CASE T = {}
    BY <2>1, <2>2, <2>3 DEF WriterOf
  <2>4. CASE T # {}
    <3>1. T \subseteq Nat /\ \A j \in T : j <= m
      BY ONLY <1>3, <2>2
    <3>2. PICK j \in 1..m : j = Max(T)
      BY <1>3, <2>2, <2>4, <3>1, Largest
    <3>3. b[l[Max(T)][1]] = a[l[Max(T)][1]]
      BY <1>3, <3>2
    <3>4. QED
      BY <2>1, <2>2, <2>4, <3>3 DEF WriterOf
  <2>5. QED
    BY <2>3, <2>4
<1> QED
  BY <1>1, <1>2

-----------------------------------------------------------------------------
(* The invariant *)

\* Only calls with something to write, and without badarg, are sent.
Sent == \A n \in Made : ~BadArg(asked[n]) /\ ~Nothing(asked[n])
Inv  == TypeOK /\ Sent

LEMMA InitInv == Init => Inv
<1> SUFFICES ASSUME Init PROVE Inv
  OBVIOUS
<1>1. asked = <<>> /\ Len(asked) = 0 /\ asked \in Seq(Requests)
  BY DEF Init
<1>2. stored \in [Records -> [Cells -> {Nobody} \cup (Made \X Nat)]]
  BY DEF Init
<1>3. life \in [Records -> Lives]
  BY DEF Init, Lives
<1>4. log \in Seq(Made \X Records)
  BY DEF Init
<1>5. Made = {}
  BY <1>1 DEF Made
<1> QED
  BY <1>1, <1>2, <1>3, <1>4, <1>5 DEF Inv, TypeOK, Sent

LEMMA LivesIs ==
    ASSUME NEW q \in Requests, NEW old \in Lives
    PROVE  Life(old, Ttl(q)) \in Lives
<1>1. q \in Calls
  BY RequestsAssumption
<1>2. Default \in Lives /\ BatchTtl \in Lives
  BY DEF Lives
<1>3. q.op \in {"cdt_put", "map_put", "binary_remove"} => q.ttl \in Lives
  <2>1. q.op \in {"cdt_put", "map_put", "binary_remove"} => "ttl" \in DOMAIN q
    BY <1>1 DEF Calls
  <2>2. QED
    BY <2>1 DEF Lives
<1>4. CASE q.op = "cdt_put"
  BY <1>3, <1>4 DEF Life, Ttl
<1>5. CASE q.op = "cdt_delete_by_keys"
  BY <1>5 DEF Life, Ttl
<1>6. CASE q.op = "batch"
  BY <1>2, <1>6 DEF Life, Ttl
<1>7. CASE q.op \in {"map_put", "binary_remove"}
  <2>1. Ttl(q) = q.ttl
    BY <1>7 DEF Ttl
  <2>2. QED
    BY <1>3, <1>7, <2>1 DEF Life
<1>8. CASE q.op = "key_remove"
  BY <1>2, <1>8 DEF Life, Ttl
<1> QED
  BY <1>1, <1>4, <1>5, <1>6, <1>7, <1>8, CallIs

LEMMA NextInv == Inv /\ [Next]_vars => Inv'
<1> SUFFICES ASSUME Inv, [Next]_vars PROVE Inv'
  OBVIOUS
<1>1. PICK k \in Nat : k = Len(asked)
  BY LenProperties DEF Inv, TypeOK
<1>2. Made = 1..k
  BY <1>1 DEF Made
<1>3. ASSUME NEW q \in Requests, Submit(q) PROVE Inv'
  <2>1. asked' = Append(asked, q) /\ UNCHANGED <<stored, life, log>> /\ ~BadArg(q) /\ ~Nothing(q)
    BY <1>3 DEF Submit
  <2>2. /\ asked' \in Seq(Requests) /\ Len(asked') = k + 1 /\ asked'[k + 1] = q
        /\ \A n \in 1..k : asked'[n] = asked[n]
    BY <1>1, <2>1 DEF Inv, TypeOK
  <2>3. Made' = 1..k + 1 /\ Made \subseteq Made'
    BY <1>2, <2>2 DEF Made
  <2>4. stored' \in [Records -> [Cells -> {Nobody} \cup (Made' \X Nat)]]
    <3>1. stored \in [Records -> [Cells -> {Nobody} \cup (Made \X Nat)]]
      BY DEF Inv, TypeOK
    <3>2. {Nobody} \cup (Made \X Nat) \subseteq {Nobody} \cup (Made' \X Nat)
      BY <2>3
    <3>3. PICK D : D = {Nobody} \cup (Made \X Nat)
      OBVIOUS
    <3>4. PICK E : E = {Nobody} \cup (Made' \X Nat)
      OBVIOUS
    <3>5. stored \in [Records -> [Cells -> D]] /\ D \subseteq E
      BY <3>1, <3>2, <3>3, <3>4
    <3>6. stored \in [Records -> [Cells -> E]]
      BY ONLY <3>5
    <3>7. QED
      BY <2>1, <3>4, <3>6
  <2>5. log' \in Seq(Made' \X Records)
    <3>1. log \in Seq(Made \X Records)
      BY DEF Inv, TypeOK
    <3>2. PICK D : D = Made \X Records
      OBVIOUS
    <3>3. PICK E : E = Made' \X Records
      OBVIOUS
    <3>4. log \in Seq(D) /\ D \subseteq E
      BY <2>3, <3>1, <3>2, <3>3
    <3>5. log \in Seq(E)
      BY ONLY <3>4
    <3>6. QED
      BY <2>1, <3>3, <3>5
  <2>6. Sent'
    <3>1. \A n \in 1..k + 1 : n \in 1..k \/ n = k + 1
      BY <1>1
    <3>2. QED
      BY <1>2, <2>1, <2>2, <2>3, <3>1 DEF Inv, Sent
  <2>7. life' \in [Records -> Lives]
    BY <2>1 DEF Inv, TypeOK
  <2>8. QED
    BY <2>2, <2>4, <2>5, <2>6, <2>7 DEF Inv, TypeOK
<1>4. ASSUME NEW n \in Made, NEW r \in Records, Execute(n, r) PROVE Inv'
  <2>1. PICK ops : ops = Operations(asked[n], r)
    OBVIOUS
  <2>2. /\ stored' = [stored EXCEPT ![r] = Running(stored[r], ops, n)[Len(ops)]]
        /\ life' = [life EXCEPT ![r] = Life(life[r], Ttl(asked[n]))]
        /\ log' = Append(log, <<n, r>>) /\ asked' = asked
    BY <1>4, <2>1 DEF Execute, Inv, TypeOK
  <2>3. asked[n] \in Requests /\ ~BadArg(asked[n]) /\ ~Nothing(asked[n])
    BY <1>1, <1>2 DEF Inv, TypeOK, Sent
  <2>4. ops \in Seq(OpSet)
    BY <2>1, <2>3, OperationsType
  <2>5. PICK D : D = {Nobody} \cup (Made \X Nat)
    OBVIOUS
  <2>6. stored \in [Records -> [Cells -> D]]
    BY <2>5 DEF Inv, TypeOK
  <2>7. MayHold(D, n)
    BY <2>5 DEF MayHold
  <2>8. Running(stored[r], ops, n)[Len(ops)] \in [Cells -> D]
    <3>1. stored[r] \in [Cells -> D]
      BY <2>6
    <3>2. Len(ops) \in 0..Len(ops)
      BY <2>4, LenProperties
    <3>3. QED
      BY <2>4, <2>7, <3>1, <3>2, RunningIs
  <2>9. stored' \in [Records -> [Cells -> D]]
    BY <2>2, <2>6, <2>8
  <2>10. life' \in [Records -> Lives]
    <3>1. life \in [Records -> Lives] /\ life[r] \in Lives
      BY DEF Inv, TypeOK
    <3>2. Life(life[r], Ttl(asked[n])) \in Lives
      BY <2>3, <3>1, LivesIs
    <3>3. QED
      BY <2>2, <3>1, <3>2
  <2>11. Made' = Made
    BY <2>2 DEF Made
  <2>12. log' \in Seq(Made \X Records)
    BY <2>2 DEF Inv, TypeOK
  <2>13. Sent'
    BY <2>2, <2>11 DEF Inv, Sent
  <2>14. asked' \in Seq(Requests)
    BY <2>2 DEF Inv, TypeOK
  <2>15. QED
    BY <2>5, <2>9, <2>10, <2>11, <2>12, <2>13, <2>14 DEF Inv, TypeOK
<1>5. ASSUME UNCHANGED vars PROVE Inv'
  BY <1>5 DEF vars, Inv, TypeOK, Sent, Made
<1> QED
  BY <1>3, <1>4, <1>5 DEF Next

\* What is stored was written by calls that were made.
THEOREM TypeCorrect == Spec => []TypeOK
<1>1. Inv => TypeOK
  BY DEF Inv
<1> QED
  BY <1>1, InitInv, NextInv, PTL DEF Spec

-----------------------------------------------------------------------------
(* Records are what the log says *)

Replayed(a, l, cells, lives) ==
    \A r \in Records : /\ \A c \in Cells : cells[r][c] = WriterOf(a, l, r, c)
                       /\ lives[r] = LifeOf(a, l, r)

LEMMA ReplayIs == StoredIsReplay <=> Replayed(asked, log, stored, life)
<1>1. ASSUME NEW r \in Records, NEW c \in Cells
      PROVE  LastWriter(r, c) = WriterOf(asked, log, r, c)
  <2>1. {j \in On(r) : Meaning[Request(j)][r][c] # {}} = Touching(asked, log, r, c)
    BY DEF Touching, On, Request
  <2>2. QED
    BY <2>1 DEF LastWriter, WriterOf, Request
<1>2. ASSUME NEW r \in Records
      PROVE  LastLife(r) = LifeOf(asked, log, r)
  <2>1. {j \in On(r) : Ttl(Request(j)) # NoChange} = Setting(asked, log, r)
    BY DEF Setting, On, Request
  <2>2. QED
    BY <2>1 DEF LastLife, LifeOf, Request
<1> QED
  BY <1>1, <1>2 DEF StoredIsReplay, Replayed

LEMMA InitReplay == Init => Replayed(asked, log, stored, life)
<1> SUFFICES ASSUME Init PROVE Replayed(asked, log, stored, life)
  OBVIOUS
<1>1. log = <<>> /\ DOMAIN log = {}
  BY DEF Init
<1>2. ASSUME NEW r \in Records PROVE life[r] = LifeOf(asked, log, r)
  BY <1>1 DEF Init, LifeOf, Setting
<1>3. ASSUME NEW r \in Records, NEW c \in Cells
      PROVE  stored[r][c] = WriterOf(asked, log, r, c)
  BY <1>1 DEF Init, WriterOf, Touching
<1> QED
  BY <1>2, <1>3 DEF Replayed

\* What a command does to its record is what its call means.
LEMMA ExecuteIs ==
    ASSUME Inv, NEW n \in Made, NEW o \in Records, Execute(n, o)
    PROVE  /\ asked[n] \in Requests /\ ~BadArg(asked[n]) /\ ~Nothing(asked[n])
           /\ Operations(asked[n], o) # <<>>
           /\ \A c \in Cells : stored'[o][c] = After(stored[o][c], Meaning[asked[n]][o][c], n)
           /\ \A r \in Records : r # o => stored'[r] = stored[r]
<1>0. PICK k \in Nat : k = Len(asked) /\ Made = 1..k
  BY LenProperties DEF Inv, TypeOK, Made
<1>1. PICK q : q = asked[n]
  OBVIOUS
<1>2. PICK ops : ops = Operations(q, o)
  OBVIOUS
<1>3. PICK cells : cells = Running(stored[o], ops, n)[Len(ops)]
  OBVIOUS
<1>4. /\ stored' = [stored EXCEPT ![o] = cells] /\ ops # <<>>
      /\ life' = [life EXCEPT ![o] = Life(life[o], Ttl(q))]
      /\ log' = Append(log, <<n, o>>) /\ asked' = asked
  BY <1>1, <1>2, <1>3 DEF Execute, Inv, TypeOK
<1>5. q \in Requests /\ ~BadArg(q) /\ ~Nothing(q)
  BY <1>0, <1>1 DEF Inv, TypeOK, Sent
<1>6. ops \in Seq(OpSet)
  BY <1>2, <1>5, OperationsType
<1>7. PICK D : D = {Nobody} \cup (Made \X Nat)
  OBVIOUS
<1>8. stored \in [Records -> [Cells -> D]] /\ stored[o] \in [Cells -> D]
  BY <1>7 DEF Inv, TypeOK
<1>9. MayHold(D, n)
  BY <1>7 DEF MayHold
<1>10. ASSUME NEW c \in Cells
       PROVE  cells[c] = After(stored[o][c], Meaning[q][o][c], n)
  <2>1. Tell(ops, c, Meaning[q][o][c])
    BY <1>2, <1>4, <1>5, OperationsTell
  <2>2. QED
    BY <1>3, <1>6, <1>8, <1>9, <2>1, RunningTells
<1>11. \A c \in Cells : stored'[o][c] = After(stored[o][c], Meaning[q][o][c], n)
  BY <1>4, <1>8, <1>10
<1>12. \A r \in Records : r # o => stored'[r] = stored[r]
  BY <1>4, <1>8
<1> QED
  BY <1>1, <1>2, <1>4, <1>5, <1>11, <1>12

LEMMA NextReplay ==
    Inv /\ Replayed(asked, log, stored, life) /\ [Next]_vars
        => Replayed(asked', log', stored', life')
<1> SUFFICES ASSUME Inv, Replayed(asked, log, stored, life), [Next]_vars
             PROVE  Replayed(asked', log', stored', life')
  OBVIOUS
<1>1. PICK k \in Nat : k = Len(asked)
  BY LenProperties DEF Inv, TypeOK
<1>2. Made = 1..k
  BY <1>1 DEF Made
<1>3. ASSUME NEW q \in Requests, Submit(q) PROVE Replayed(asked', log', stored', life')
  <2>1. asked' = Append(asked, q) /\ UNCHANGED <<stored, life, log>>
    BY <1>3 DEF Submit
  <2>2. \A n \in 1..k : asked'[n] = asked[n]
    BY <1>1, <2>1 DEF Inv, TypeOK
  <2>3. PICK m \in Nat : m = Len(log)
    BY LenProperties DEF Inv, TypeOK
  <2>4. DOMAIN log = 1..m /\ \A j \in 1..m : log[j][1] \in 1..k
    <3>1. log \in Seq(Made \X Records)
      BY DEF Inv, TypeOK
    <3>2. \A j \in 1..m : log[j] \in Made \X Records
      BY <2>3, <3>1, ElementOfSeq
    <3>3. QED
      BY <1>2, <2>3, <3>1, <3>2
  <2>5. SameCalls(asked, asked', log, m)
    BY <2>2, <2>4 DEF SameCalls
  <2>6. ASSUME NEW r \in Records
        PROVE  /\ LifeOf(asked', log, r) = LifeOf(asked, log, r)
               /\ \A c : WriterOf(asked', log, r, c) = WriterOf(asked, log, r, c)
    BY <2>5, LogStays
  <2>7. QED
    BY <2>1, <2>6 DEF Replayed
<1>4. ASSUME NEW n \in Made, NEW o \in Records, Execute(n, o)
      PROVE  Replayed(asked', log', stored', life')
  <2>1. PICK q : q = asked[n]
    OBVIOUS
  <2>4. /\ life' = [life EXCEPT ![o] = Life(life[o], Ttl(q))]
        /\ log' = Append(log, <<n, o>>) /\ asked' = asked
    BY <1>4, <2>1 DEF Execute
  <2>10. /\ \A c \in Cells : stored'[o][c] = After(stored[o][c], Meaning[q][o][c], n)
         /\ \A r \in Records : r # o => stored'[r] = stored[r]
    BY <1>4, <2>1, ExecuteIs
  <2>11. log \in Seq(Nat \X Records) /\ n \in Nat
    <3>1. log \in Seq(Made \X Records)
      BY DEF Inv, TypeOK
    <3>2. PICK A : A = Made \X Records
      OBVIOUS
    <3>3. PICK B : B = Nat \X Records
      OBVIOUS
    <3>4. log \in Seq(A) /\ A \subseteq B
      BY <1>2, <3>1, <3>2, <3>3
    <3>5. log \in Seq(B)
      BY ONLY <3>4
    <3>6. QED
      BY <1>2, <3>3, <3>5
  <2>15. Extends(log', log, n, o)
    BY <2>4, <2>11 DEF Extends
  <2>12. ASSUME NEW r \in Records, NEW c \in Cells
         PROVE  stored'[r][c] = WriterOf(asked, log', r, c)
    <3>1. WriterOf(asked, log', r, c) =
             IF r = o THEN After(WriterOf(asked, log, r, c), Meaning[q][r][c], n)
             ELSE WriterOf(asked, log, r, c)
      <4>1. Continues(asked, log', log, n, o, r, c)
        BY <2>15, WriterNext
      <4>2. QED
        BY <2>1, <4>1 DEF Continues
    <3>2. stored[r][c] = WriterOf(asked, log, r, c)
      BY DEF Replayed
    <3>3. QED
      BY <2>10, <3>1, <3>2
  <2>13. ASSUME NEW r \in Records
         PROVE  life'[r] = LifeOf(asked, log', r)
    <3>1. LifeOf(asked, log', r) = IF r = o THEN Life(LifeOf(asked, log, r), Ttl(q))
                                   ELSE LifeOf(asked, log, r)
      BY <2>1, <2>15, LifeNext
    <3>2. life[r] = LifeOf(asked, log, r)
      BY DEF Replayed
    <3>3. life'[r] = IF r = o THEN Life(life[o], Ttl(q)) ELSE life[r]
      BY <2>4 DEF Inv, TypeOK
    <3>4. QED
      BY <3>1, <3>2, <3>3
  <2>14. QED
    BY <2>4, <2>12, <2>13 DEF Replayed
<1>5. ASSUME UNCHANGED vars PROVE Replayed(asked', log', stored', life')
  BY <1>5 DEF vars
<1> QED
  BY <1>3, <1>4, <1>5 DEF Next

\* A record is what the calls that reached it say, in the order in which they
\* reached it: for lists of any length and operations of any number.
THEOREM RecordsReplayTheLog == Spec => []StoredIsReplay
<1> DEFINE Now == Replayed(asked, log, stored, life)
<1>1. Init => Inv /\ Now
  BY InitInv, InitReplay
<1>2. (Inv /\ Now) /\ [Next]_vars => (Inv /\ Now)'
  BY NextInv, NextReplay
<1>3. Inv /\ Now => StoredIsReplay
  BY ReplayIs
<1> HIDE DEF Now
<1> QED
  BY <1>1, <1>2, <1>3, PTL DEF Spec

-----------------------------------------------------------------------------
(* Entries *)

Three == {"value", "ttl", "wt"}

LEMMA ThreeOfThem == IsFiniteSet(Three) /\ Cardinality(Three) = 3
<1>1. IsFiniteSet({"value"}) /\ Cardinality({"value"}) = 1
  BY FS_Singleton
<1>2. PICK two : two = {"value"} \cup {"ttl"}
  OBVIOUS
<1>3. IsFiniteSet(two) /\ Cardinality(two) = 2
  BY <1>1, <1>2, FS_AddElement
<1>4. Three = two \cup {"wt"} /\ "wt" \notin two
  BY <1>2 DEF Three
<1> QED
  BY <1>3, <1>4, FS_AddElement

LEMMA ThreeFields ==
    ASSUME NEW S \in SUBSET Three, Cardinality(S) = 3
    PROVE  S = Three
BY ThreeOfThem, FS_Subset

LEMMA WholeWrites ==
    ASSUME NEW list, \A i \in Triples(list) : Cardinality(Gives(list, i)) = 3,
           NEW b, NEW k, NEW f \in Three
    PROVE  WritersIn(list, <<b, k, f>>) = {i \in Triples(list) : list[3 * i - 2] = k}
<1>1. ASSUME NEW i \in Triples(list) PROVE Gives(list, i) = Three
  <2>1. Gives(list, i) \in SUBSET Three
    BY DEF Gives, Three
  <2>2. QED
    BY <2>1, ThreeFields
<1>2. \A i \in Triples(list) : f \in Gives(list, i)
  BY <1>1
<1>3. PICK c : c = <<b, k, f>>
  OBVIOUS
<1>4. c[2] = k /\ c[3] = f
  BY <1>3
<1> QED
  BY <1>2, <1>3, <1>4 DEF WritersIn

\* A put of whole triples means the same for the three cells of an entry.
LEMMA WholeMeaning ==
    ASSUME NEW q \in Requests, ~BadArg(q), ~Nothing(q), PutsOnly(q, {3}),
           NEW r \in Records, NEW b \in Bins, NEW k \in Keys,
           NEW f \in Three, NEW g \in Three
    PROVE  Meaning[q][r][<<b, k, f>>] = Meaning[q][r][<<b, k, g>>]
<1>1. PICK c : c = <<b, k, f>>
  OBVIOUS
<1>2. PICK d : d = <<b, k, g>>
  OBVIOUS
<1>3. /\ c \in Cells /\ c[1] = b /\ c[2] = k /\ c[3] = f /\ f # "plain"
      /\ d \in Cells /\ d[1] = b /\ d[2] = k /\ d[3] = g /\ g # "plain"
  BY <1>1, <1>2 DEF Cells, Fields, Three
<1>4. Clears(q, r, c) <=> Clears(q, r, d)
  BY <1>3 DEF Clears
<1>5. Writers(q, c) = Writers(q, d)
  <2>1. CASE q.op = "cdt_put"
    <3>1. PICK bins \in Seq(BinsOf) : bins = Read(q)
      BY <2>1, RequestsAssumption, ReadsBins
    <3>2. \A j \in DOMAIN bins : WritersIn(bins[j].list, c) = WritersIn(bins[j].list, d)
      <4>1. ASSUME NEW j \in DOMAIN bins
            PROVE  WritersIn(bins[j].list, c) = WritersIn(bins[j].list, d)
        <5>1. bins[j] \in ToSet(Read(q))
          BY <3>1 DEF ToSet
        <5>2. \A i \in Triples(bins[j].list) : Cardinality(Gives(bins[j].list, i)) = 3
          BY <2>1, <5>1 DEF PutsOnly
        <5>3. PICK list : list = bins[j].list
          OBVIOUS
        <5>4. \A i \in Triples(list) : Cardinality(Gives(list, i)) = 3
          BY <5>2, <5>3
        <5>5. WritersIn(list, <<b, k, f>>) = {i \in Triples(list) : list[3 * i - 2] = k}
          BY ONLY <5>4, f \in Three, WholeWrites
        <5>6. WritersIn(list, <<b, k, g>>) = {i \in Triples(list) : list[3 * i - 2] = k}
          BY ONLY <5>4, g \in Three, WholeWrites
        <5>7. QED
          BY <1>1, <1>2, <5>3, <5>5, <5>6
      <4>2. QED
        BY <4>1
    <3>3. WritingBins(q, c) = WritingBins(q, d)
      BY <1>3, <3>1, <3>2 DEF WritingBins
    <3>4. PICK B : B = WritingBins(q, c)
      OBVIOUS
    <3>5. CASE B = {}
      BY <2>1, <3>3, <3>4, <3>5 DEF Writers
    <3>6. CASE B # {}
      <4>1. PICK n \in Nat : n = Len(bins)
        BY LenProperties
      <4>2. B \subseteq DOMAIN bins /\ DOMAIN bins = 1..n
        BY <3>1, <3>4, <4>1 DEF WritingBins
      <4>3. B \subseteq Nat /\ \A j \in B : j <= n
        BY <4>2
      <4>4. Max(B) \in DOMAIN bins
        BY <3>6, <4>2, <4>3, Largest
      <4>5. WritersIn(Read(q)[Max(B)].list, c) = WritersIn(Read(q)[Max(B)].list, d)
        BY <3>1, <3>2, <4>4
      <4>6. QED
        BY <2>1, <3>3, <3>4, <3>6, <4>5 DEF Writers
    <3>7. QED
      BY <3>5, <3>6
  <2>2. CASE q.op # "cdt_put"
    BY <1>3, <2>2 DEF Writers
  <2>3. QED
    BY <2>1, <2>2
<1>6. /\ Meaning[q][r][c] = IF Writers(q, c) # {} THEN {Max(Writers(q, c))}
                            ELSE IF Clears(q, r, c) THEN {-1} ELSE {}
      /\ Meaning[q][r][d] = IF Writers(q, d) # {} THEN {Max(Writers(q, d))}
                            ELSE IF Clears(q, r, d) THEN {-1} ELSE {}
  BY <1>3, MeaningIs
<1>7. Meaning[q][r][c] = Meaning[q][r][d]
  BY <1>4, <1>5, <1>6
<1> QED
  BY <1>1, <1>2, <1>7

\* What the log says is the same for the three cells of an entry.
LEMMA WholeEntries ==
    ASSUME Inv, Replayed(asked, log, stored, life), LogPutsOnly({3}),
           NEW r \in Records, NEW b \in Bins, NEW k \in Keys,
           NEW f \in Three, NEW g \in Three
    PROVE  stored[r][<<b, k, f>>] = stored[r][<<b, k, g>>]
<1>1. PICK c : c = <<b, k, f>>
  OBVIOUS
<1>2. PICK d : d = <<b, k, g>>
  OBVIOUS
<1>3. c \in Cells /\ d \in Cells
  BY <1>1, <1>2 DEF Cells, Fields, Three
<1>4. PICK m \in Nat : m = Len(log)
  BY LenProperties DEF Inv, TypeOK
<1>5. ASSUME NEW j \in 1..m
      PROVE  /\ Request(j) \in Requests /\ ~BadArg(Request(j)) /\ ~Nothing(Request(j))
             /\ Meaning[Request(j)][r][c] = Meaning[Request(j)][r][d]
  <2>1. log \in Seq(Made \X Records)
    BY DEF Inv, TypeOK
  <2>2. log[j] \in Made \X Records
    BY <1>4, <2>1, ElementOfSeq
  <2>3. PICK n \in Made : n = log[j][1]
    BY <2>2
  <2>4. asked[n] \in Requests /\ ~BadArg(asked[n]) /\ ~Nothing(asked[n])
    <3>1. asked \in Seq(Requests) /\ n \in 1..Len(asked)
      BY DEF Inv, TypeOK, Made
    <3>2. QED
      BY <3>1, ElementOfSeq DEF Inv, Sent
  <2>5. PutsOnly(asked[n], {3})
    <3>1. j \in DOMAIN log
      BY <1>4, <2>1
    <3>2. QED
      BY <2>3, <3>1 DEF LogPutsOnly, Request
  <2>6. Meaning[asked[n]][r][c] = Meaning[asked[n]][r][d]
    BY <1>1, <1>2, <2>4, <2>5, WholeMeaning
  <2>7. QED
    BY <2>3, <2>4, <2>6 DEF Request
<1>6. DOMAIN log = 1..m
  BY <1>4 DEF Inv, TypeOK
<1>7. PICK T : T = Touching(asked, log, r, c)
  OBVIOUS
<1>8. Touching(asked, log, r, d) = T /\ T \subseteq 1..m
  BY <1>5, <1>6, <1>7 DEF Touching, Request
<1>9. WriterOf(asked, log, r, c) = WriterOf(asked, log, r, d)
  <2>1. CASE T = {}
    BY <1>7, <1>8, <2>1 DEF WriterOf
  <2>2. CASE T # {}
    <3>1. T \subseteq Nat /\ \A j \in T : j <= m
      BY <1>4, <1>8
    <3>2. PICK j \in 1..m : j = Max(T)
      BY <1>8, <2>2, <3>1, Largest
    <3>3. Meaning[asked[log[Max(T)][1]]][r][c] = Meaning[asked[log[Max(T)][1]]][r][d]
      BY <1>5, <3>2 DEF Request
    <3>4. QED
      BY <1>7, <1>8, <2>2, <3>3 DEF WriterOf
  <2>3. QED
    BY <2>1, <2>2
<1>10. stored[r][c] = stored[r][d]
  BY <1>3, <1>9 DEF Replayed
<1> QED
  BY <1>1, <1>2, <1>10

LEMMA ReplayMakesWhole ==
    ASSUME Inv, Replayed(asked, log, stored, life)
    PROVE  EntriesAreWhole
<1> SUFFICES ASSUME LogPutsOnly({3}), NEW r \in Records, NEW b \in Bins, NEW k \in Keys
             PROVE  LET fields == EntryFields(r, b, k) \ {"plain"}
                    IN  /\ fields \in {{}, {"value", "ttl", "wt"}}
                        /\ Cardinality({stored[r][<<b, k, f>>] : f \in fields}) <= 1
  BY DEF EntriesAreWhole
<1>1. PICK x : x = stored[r][<<b, k, "wt">>]
  OBVIOUS
<1>2. ASSUME NEW f \in Three PROVE stored[r][<<b, k, f>>] = x
  <2>1. "wt" \in Three
    BY DEF Three
  <2>2. QED
    BY <1>1, <2>1, WholeEntries
<1>3. PICK F : F = EntryFields(r, b, k) \ {"plain"}
  OBVIOUS
<1>4. F = {f \in Three : stored[r][<<b, k, f>>] # Nobody}
  BY <1>3 DEF EntryFields, Fields, Three
<1>5. F = IF x = Nobody THEN {} ELSE Three
  BY <1>2, <1>4
<1>6. PICK W : W = {stored[r][<<b, k, f>>] : f \in F}
  OBVIOUS
<1>7. W = {} \/ W = {x}
  <2>1. F \subseteq Three
    BY <1>4
  <2>2. \A w \in W : w = x
    BY <1>2, <1>6, <2>1
  <2>3. QED
    BY <2>2
<1>8. Cardinality(W) <= 1
  <2>1. Cardinality({}) = 0 /\ Cardinality({x}) = 1
    BY FS_EmptySet, FS_Singleton
  <2>2. QED
    BY <1>7, <2>1
<1> QED
  BY <1>3, <1>5, <1>6, <1>8 DEF Three

\* When only whole triples are put, no entry mixes two puts or lacks a field.
THEOREM EntriesStayWhole == Spec => []EntriesAreWhole
<1> DEFINE Now == Replayed(asked, log, stored, life)
<1>1. Init => Inv /\ Now
  BY InitInv, InitReplay
<1>2. (Inv /\ Now) /\ [Next]_vars => (Inv /\ Now)'
  BY NextInv, NextReplay
<1>3. Inv /\ Now => EntriesAreWhole
  BY ReplayMakesWhole
<1> HIDE DEF Now
<1> QED
  BY <1>1, <1>2, <1>3, PTL DEF Spec

-----------------------------------------------------------------------------
(* Pairs *)

\* What a key of a bin has: nothing, the bytes of map_put, or two of the
\* fields that cdt_put gives.
Two(F)  == \E f, g \in F : f # g
Fair(F) == F = {} \/ F = {"plain"} \/ (F \subseteq Three /\ Two(F))
EntriesAreFair == \A r \in Records, b \in Bins, k \in Keys : Fair(EntryFields(r, b, k))

LEMMA TwoGiven ==
    ASSUME NEW list, NEW i, Cardinality(Gives(list, i)) \in {0, 2, 3},
           NEW f \in Gives(list, i)
    PROVE  Gives(list, i) \subseteq Three /\ Two(Gives(list, i))
<1>1. PICK S : S = Gives(list, i)
  OBVIOUS
<1>2. S \subseteq Three
  BY <1>1 DEF Gives, Three
<1>3. S # {f}
  <2>1. Cardinality({f}) = 1
    BY FS_Singleton
  <2>2. QED
    BY <1>1, <2>1
<1>4. \E g \in S : f # g
  BY <1>1, <1>3
<1> QED
  BY <1>1, <1>2, <1>4 DEF Two

LEMMA WritersExist ==
    ASSUME NEW q, q.op = "cdt_put", Read(q) \in Seq(BinsOf), NEW c
    PROVE  Writers(q, c) # {} <=> WritingBins(q, c) # {}
<1>1. PICK bins \in Seq(BinsOf) : bins = Read(q)
  OBVIOUS
<1>2. PICK n \in Nat : n = Len(bins)
  BY LenProperties
<1>3. PICK B : B = WritingBins(q, c)
  OBVIOUS
<1>4. B \subseteq 1..n /\ \A j \in B : WritersIn(Read(q)[j].list, c) # {}
  BY <1>1, <1>2, <1>3 DEF WritingBins
<1>5. ASSUME B # {} PROVE WritersIn(Read(q)[Max(B)].list, c) # {}
  <2>1. B \subseteq Nat /\ \A j \in B : j <= n
    BY <1>4
  <2>2. Max(B) \in B
    BY <1>5, <2>1, Largest
  <2>3. QED
    BY <1>4, <2>2
<1> QED
  BY <1>3, <1>5 DEF Writers

\* The fields of one key that a put writes
Given(q, b, k) == {f \in Fields : Writers(q, <<b, k, f>>) # {}}

LEMMA GivenIsFair ==
    ASSUME NEW q, q.op = "cdt_put", Read(q) \in Seq(BinsOf), PutsOnly(q, {0, 2, 3}),
           NEW b \in Bins, NEW k \in Keys
    PROVE  /\ Given(q, b, k) \subseteq Three
           /\ Given(q, b, k) # {} => Two(Given(q, b, k))
<1>1. PICK bins \in Seq(BinsOf) : bins = Read(q)
  OBVIOUS
<1>2. ASSUME NEW f \in Fields, NEW j \in DOMAIN bins, bins[j].name = b,
             NEW i \in Triples(bins[j].list), bins[j].list[3 * i - 2] = k,
             f \in Gives(bins[j].list, i)
      PROVE  f \in Given(q, b, k)
  <2>1. PICK c : c = <<b, k, f>>
    OBVIOUS
  <2>2. i \in WritersIn(bins[j].list, c)
    BY <1>2, <2>1 DEF WritersIn
  <2>3. j \in WritingBins(q, c)
    BY <1>1, <1>2, <2>1, <2>2 DEF WritingBins
  <2>4. Writers(q, c) # {}
    BY <2>3, WritersExist
  <2>5. QED
    BY <2>1, <2>4 DEF Given
<1>3. ASSUME NEW f \in Given(q, b, k)
      PROVE  f \in Three /\ Two(Given(q, b, k))
  <2>1. PICK c : c = <<b, k, f>>
    OBVIOUS
  <2>2. f \in Fields /\ Writers(q, c) # {}
    BY <2>1 DEF Given
  <2>3. PICK j : j \in WritingBins(q, c)
    BY <2>2, WritersExist
  <2>4. /\ j \in DOMAIN bins /\ bins[j].name = c[1]
        /\ WritersIn(bins[j].list, c) # {}
    BY <1>1, <2>3 DEF WritingBins
  <2>5. PICK list : list = bins[j].list
    OBVIOUS
  <2>6. PICK i : i \in WritersIn(list, c)
    BY <2>4, <2>5
  <2>7. i \in Triples(list) /\ list[3 * i - 2] = k /\ f \in Gives(list, i)
    BY <2>1, <2>6 DEF WritersIn
  <2>8. Cardinality(Gives(list, i)) \in {0, 2, 3}
    <3>1. bins[j] \in ToSet(Read(q))
      BY <1>1, <2>4 DEF ToSet
    <3>2. QED
      BY <2>5, <2>7, <3>1 DEF PutsOnly
  <2>9. Gives(list, i) \subseteq Three /\ Two(Gives(list, i))
    BY <2>7, <2>8, TwoGiven
  <2>10. Gives(list, i) \subseteq Given(q, b, k)
    <3>1. Gives(list, i) \subseteq Fields
      BY <2>9 DEF Three, Fields
    <3>2. bins[j].name = b
      BY <2>1, <2>4
    <3>3. QED
      BY <1>2, <2>4, <2>5, <2>7, <3>1, <3>2
  <2>11. QED
    BY <2>7, <2>9, <2>10 DEF Two
<1> QED
  BY <1>3

\* Plain bytes are written by map_put alone, and are no map for a field.
LEMMA PutsFindNoBytes ==
    ASSUME NEW q \in Requests, q.op = "cdt_put", ~BadArg(q), ~Nothing(q),
           NEW r \in Records, Operations(q, r) # <<>>, Accepts(r, Operations(q, r)),
           NEW b \in Bins, NEW k \in Keys, NEW f \in Three, Writers(q, <<b, k, f>>) # {}
    PROVE  stored[r][<<b, k, "plain">>] = Nobody
<1>1. PICK c : c = <<b, k, f>>
  OBVIOUS
<1>2. c \in Cells /\ c[1] = b /\ c[2] = k /\ c[3] # "plain"
  BY <1>1 DEF Cells, Three, Fields
<1>3. Read(q) \in Seq(BinsOf)
  BY RequestsAssumption, ReadsBins
<1>4. PICK l : IsLast(l, Writers(q, c)) /\ Writers(q, c) \subseteq Nat
  BY <1>2, <1>3, PutsTell
<1>5. PICK x \in Nat : Meaning[q][r][c] = {x}
  <2>1. PICK x \in Nat : l = {x}
    BY <1>1, <1>4 DEF IsLast
  <2>2. l = {Max(Writers(q, c))}
    BY <1>1, <1>4, MaxIs
  <2>3. Meaning[q][r][c] = {Max(Writers(q, c))}
    BY <1>1, <1>2, MeaningIs
  <2>4. QED
    BY <2>1, <2>2, <2>3
<1>6. PICK ops : ops = Operations(q, r)
  OBVIOUS
<1>7. Tell(ops, c, {x})
  BY <1>2, <1>5, <1>6, OperationsTell
<1>8. PICK j \in 1..Len(ops) : {x} = Does(ops[j], c)
  BY <1>7 DEF Tell
<1>9. c \in ops[j].set
  <2>1. x # -1
    BY x \in Nat
  <2>2. {x} # {-1}
    BY <2>1
  <2>3. QED
    BY <1>8, <2>2 DEF Does
<1>10. stored[r][<<c[1], c[2], "plain">>] = Nobody
  BY <1>2, <1>6, <1>8, <1>9 DEF Accepts
<1> QED
  BY <1>2, <1>10

\* A written cell is not cleared as well.
LEMMA MeaningSets ==
    ASSUME NEW q \in Requests, ~BadArg(q), ~Nothing(q), NEW r \in Records, NEW c \in Cells
    PROVE  /\ Writers(q, c) # {} => \E x \in Nat : Meaning[q][r][c] = {x}
           /\ Writers(q, c) = {} => Meaning[q][r][c] = IF Clears(q, r, c) THEN {-1} ELSE {}
<1>1. PICK W : W = Writers(q, c)
  OBVIOUS
<1>2. ASSUME W # {} PROVE \E x \in Nat : Meaning[q][r][c] = {x}
  <2>1. Meaning[q][r][c] = {Max(W)}
    BY <1>1, <1>2, MeaningIs
  <2>2. CASE q.op = "cdt_put"
    <3>1. Read(q) \in Seq(BinsOf)
      BY <2>2, RequestsAssumption, ReadsBins
    <3>2. PICK l : IsLast(l, W) /\ W \subseteq Nat
      BY <1>1, <2>2, <3>1, PutsTell
    <3>3. PICK x \in Nat : l = {x}
      BY <1>2, <3>2 DEF IsLast
    <3>4. l = {Max(W)}
      BY <1>2, <3>2, MaxIs
    <3>5. QED
      BY <2>1, <3>3, <3>4
  <2>3. CASE q.op # "cdt_put"
    <3>1. W = {0}
      BY <1>1, <1>2, <2>3 DEF Writers
    <3>2. Max(W) = 0
      BY <3>1, TheLargest
    <3>3. QED
      BY <2>1, <3>2
  <2>4. QED
    BY <2>2, <2>3
<1> QED
  BY <1>1, <1>2, MeaningIs

\* A command leaves a key the fields it gives, and the others unless it clears them.
LEMMA FieldsNext ==
    ASSUME Inv, NEW n \in Made, NEW o \in Records, Execute(n, o),
           NEW b \in Bins, NEW k \in Keys
    PROVE  EntryFields(o, b, k)' =
               Given(asked[n], b, k)
                   \cup IF Clears(asked[n], o, <<b, k, "wt">>) THEN {} ELSE EntryFields(o, b, k)
<1>1. PICK q : q = asked[n]
  OBVIOUS
<1>2. /\ q \in Requests /\ ~BadArg(q) /\ ~Nothing(q)
      /\ \A c \in Cells : stored'[o][c] = After(stored[o][c], Meaning[q][o][c], n)
  BY <1>1, ExecuteIs
<1>3. n # 0
  BY LenProperties DEF Inv, TypeOK, Made
<1>4. ASSUME NEW f \in Fields
      PROVE  stored'[o][<<b, k, f>>] # Nobody <=>
                 \/ Writers(q, <<b, k, f>>) # {}
                 \/ stored[o][<<b, k, f>>] # Nobody /\ ~Clears(q, o, <<b, k, "wt">>)
  <2>1. PICK c : c = <<b, k, f>>
    OBVIOUS
  <2>2. c \in Cells
    BY <2>1 DEF Cells
  <2>3. PICK M : M = Meaning[q][o][c]
    OBVIOUS
  <2>4. stored'[o][c] = After(stored[o][c], M, n)
    BY <1>2, <2>2, <2>3
  <2>5. Clears(q, o, c) <=> Clears(q, o, <<b, k, "wt">>)
    BY <2>1 DEF Clears
  <2>6. CASE Writers(q, c) # {}
    <3>1. PICK x \in Nat : M = {x}
      BY <1>2, <2>2, <2>3, <2>6, MeaningSets
    <3>2. M # {} /\ Only(M) = x
      BY <3>1 DEF Only
    <3>3. x # -1
      BY x \in Nat
    <3>4. stored'[o][c] = <<n, x>>
      BY <2>4, <3>2, <3>3 DEF After
    <3>5. stored'[o][c] # Nobody
      BY <1>3, <3>4 DEF Nobody
    <3>6. QED
      BY <2>1, <2>6, <3>5
  <2>7. CASE Writers(q, c) = {}
    <3>1. M = IF Clears(q, o, c) THEN {-1} ELSE {}
      BY <1>2, <2>2, <2>3, <2>7, MeaningSets
    <3>2. CASE Clears(q, o, c)
      <4>1. M = {-1} /\ Only(M) = -1
        BY <3>1, <3>2 DEF Only
      <4>2. stored'[o][c] = Nobody
        BY <2>4, <4>1 DEF After
      <4>3. QED
        BY <2>1, <2>5, <2>7, <3>2, <4>2
    <3>3. CASE ~Clears(q, o, c)
      <4>1. stored'[o][c] = stored[o][c]
        BY <2>4, <3>1, <3>3 DEF After
      <4>2. QED
        BY <2>1, <2>5, <2>7, <3>3, <4>1
    <3>4. QED
      BY <3>2, <3>3
  <2>8. QED
    BY <2>6, <2>7
<1>5. EntryFields(o, b, k)' = {f \in Fields : stored'[o][<<b, k, f>>] # Nobody}
  BY DEF EntryFields
<1>6. PICK G : G = {f \in Fields : Writers(q, <<b, k, f>>) # {}}
  OBVIOUS
<1>7. PICK F : F = {f \in Fields : stored[o][<<b, k, f>>] # Nobody}
  OBVIOUS
<1>8. PICK X : X = IF Clears(q, o, <<b, k, "wt">>) THEN {} ELSE F
  OBVIOUS
<1>9. {f \in Fields : stored'[o][<<b, k, f>>] # Nobody} = G \cup X
  BY <1>4, <1>6, <1>7, <1>8
<1> QED
  BY <1>1, <1>5, <1>6, <1>7, <1>8, <1>9 DEF Given, EntryFields

\* What calls other than cdt_put leave of an entry.
LEMMA OthersGive ==
    ASSUME NEW q, q.op # "cdt_put", NEW r, NEW b \in Bins, NEW k \in Keys
    PROVE  \/ Given(q, b, k) = {}
           \/ Given(q, b, k) = {"plain"} /\ Clears(q, r, <<b, k, "wt">>)
<1>1. CASE q.op = "map_put"
  <2>1. CASE b = q.bin /\ k \in q.keys
    <3>1. \A f \in Fields : Writers(q, <<b, k, f>>) # {} <=> f = "plain"
      BY <1>1, <2>1 DEF Writers
    <3>2. Given(q, b, k) = {"plain"}
      BY <3>1 DEF Given, Fields
    <3>3. Clears(q, r, <<b, k, "wt">>)
      BY <1>1, <2>1 DEF Clears
    <3>4. QED
      BY <3>2, <3>3
  <2>2. CASE ~(b = q.bin /\ k \in q.keys)
    BY <1>1, <2>2 DEF Writers, Given
  <2>3. QED
    BY <2>1, <2>2
<1>2. CASE q.op # "map_put"
  BY <1>2 DEF Writers, Given
<1> QED
  BY <1>1, <1>2

LEMMA ExecuteFair ==
    ASSUME Inv, NEW n \in Made, NEW o \in Records, Execute(n, o),
           PutsOnly(asked[n], {0, 2, 3}), EntriesAreFair
    PROVE  EntriesAreFair'
<1> SUFFICES ASSUME NEW r \in Records, NEW b \in Bins, NEW k \in Keys
             PROVE  Fair(EntryFields(r, b, k)')
  BY DEF EntriesAreFair, Fair, Two, EntryFields
<1>1. PICK q : q = asked[n]
  OBVIOUS
<1>2. /\ q \in Requests /\ ~BadArg(q) /\ ~Nothing(q) /\ Operations(q, o) # <<>>
      /\ \A s \in Records : s # o => stored'[s] = stored[s]
  BY <1>1, ExecuteIs
<1>3. CASE r # o
  <2>1. EntryFields(r, b, k)' = EntryFields(r, b, k)
    BY <1>2, <1>3 DEF EntryFields
  <2>2. QED
    BY <2>1 DEF EntriesAreFair
<1>4. CASE r = o
  <2>1. PICK G : G = Given(q, b, k)
    OBVIOUS
  <2>2. PICK F : F = EntryFields(o, b, k)
    OBVIOUS
  <2>3. PICK H : H = EntryFields(o, b, k)'
    OBVIOUS
  <2>4. Fair(F)
    BY <2>2 DEF EntriesAreFair
  <2>5. H = G \cup IF Clears(q, o, <<b, k, "wt">>) THEN {} ELSE F
    BY <1>1, <2>1, <2>2, <2>3, FieldsNext
  <2>6. CASE q.op # "cdt_put"
    <3>1. G = {} \/ (G = {"plain"} /\ Clears(q, o, <<b, k, "wt">>))
      BY <2>1, <2>6, OthersGive
    <3>2. H = {} \/ H = {"plain"} \/ H = F
      BY <2>5, <3>1
    <3>3. Fair(H)
      BY <2>4, <3>2 DEF Fair
    <3>4. QED
      BY <1>4, <2>3, <3>3
  <2>7. CASE q.op = "cdt_put"
    <3>1. ~Clears(q, o, <<b, k, "wt">>)
      BY <2>7 DEF Clears
    <3>2. H = G \cup F
      BY <2>5, <3>1
    <3>3. Read(q) \in Seq(BinsOf)
      BY <1>2, <2>7, RequestsAssumption, ReadsBins
    <3>4. G \subseteq Three /\ (G # {} => Two(G))
      BY <1>1, <2>1, <2>7, <3>3, GivenIsFair
    <3>5. CASE G = {}
      <4>1. H = F
        BY <3>2, <3>5
      <4>2. QED
        BY <1>4, <2>3, <2>4, <4>1
    <3>6. CASE G # {}
      <4>1. PICK f : f \in G
        BY <3>6
      <4>2. f \in Three /\ Writers(q, <<b, k, f>>) # {}
        BY <2>1, <3>4, <4>1 DEF Given
      <4>3. Accepts(o, Operations(q, o))
        BY <1>1 DEF Execute
      <4>4. stored[o][<<b, k, "plain">>] = Nobody
        BY <1>2, <2>7, <4>2, <4>3, PutsFindNoBytes
      <4>5. "plain" \notin F
        BY <2>2, <4>4 DEF EntryFields
      <4>6. F \subseteq Three
        BY <2>4, <4>5 DEF Fair
      <4>7. H \subseteq Three /\ Two(H)
        BY <3>2, <3>4, <3>6, <4>6 DEF Two
      <4>8. QED
        BY <1>4, <2>3, <4>7 DEF Fair
    <3>7. QED
      BY <3>5, <3>6
  <2>8. QED
    BY <2>6, <2>7
<1> QED
  BY <1>3, <1>4

\* The log of the next state has the calls of this one.
LEMMA LogBefore ==
    ASSUME Inv, [Next]_vars, NEW sizes, LogPutsOnly(sizes)'
    PROVE  /\ LogPutsOnly(sizes)
           /\ \A n \in Made, r \in Records : Execute(n, r) => PutsOnly(asked[n], sizes)
<1>1. PICK k \in Nat : k = Len(asked) /\ Made = 1..k
  BY LenProperties DEF Inv, TypeOK, Made
<1>2. PICK m \in Nat : m = Len(log) /\ DOMAIN log = 1..m
  BY LenProperties DEF Inv, TypeOK
<1>3. \A j \in 1..m : log[j][1] \in 1..k
  <2>1. log \in Seq(Made \X Records)
    BY DEF Inv, TypeOK
  <2>2. \A j \in 1..m : log[j] \in Made \X Records
    BY <1>2, <2>1, ElementOfSeq
  <2>3. QED
    BY <1>1, <2>2
<1>4. \A j \in DOMAIN log' : PutsOnly(asked'[log'[j][1]], sizes)
  BY DEF LogPutsOnly, Request
<1>5. ASSUME NEW q \in Requests, Submit(q) PROVE LogPutsOnly(sizes)
  <2>1. asked' = Append(asked, q) /\ log' = log
    BY <1>5 DEF Submit
  <2>2. \A n \in 1..k : asked'[n] = asked[n]
    BY <1>1, <2>1 DEF Inv, TypeOK
  <2>3. ASSUME NEW j \in 1..m PROVE PutsOnly(asked[log[j][1]], sizes)
    <3>1. asked'[log[j][1]] = asked[log[j][1]]
      BY <1>3, <2>2
    <3>2. PutsOnly(asked'[log[j][1]], sizes)
      BY <1>2, <1>4, <2>1
    <3>3. QED
      BY <3>1, <3>2
  <2>4. QED
    BY <1>2, <2>3 DEF LogPutsOnly, Request
<1>6. ASSUME NEW n \in Made, NEW o \in Records, Execute(n, o)
      PROVE  LogPutsOnly(sizes) /\ PutsOnly(asked[n], sizes)
  <2>1. log' = Append(log, <<n, o>>) /\ asked' = asked
    BY <1>6 DEF Execute
  <2>2. DOMAIN log' = 1..m + 1 /\ log'[m + 1] = <<n, o>> /\ \A j \in 1..m : log'[j] = log[j]
    BY <1>2, <2>1 DEF Inv, TypeOK
  <2>3. ASSUME NEW j \in 1..m PROVE PutsOnly(asked[log[j][1]], sizes)
    <3>1. j \in 1..m + 1
      BY <1>2
    <3>2. PutsOnly(asked'[log'[j][1]], sizes)
      BY <1>4, <2>2, <3>1
    <3>3. QED
      BY <2>1, <2>2, <3>2
  <2>4. PutsOnly(asked[n], sizes)
    <3>1. m + 1 \in 1..m + 1
      BY <1>2
    <3>2. PutsOnly(asked'[log'[m + 1][1]], sizes)
      BY <1>4, <2>2, <3>1
    <3>3. log'[m + 1][1] = n
      BY <2>2
    <3>4. QED
      BY <2>1, <3>2, <3>3
  <2>5. QED
    BY <1>2, <2>3, <2>4 DEF LogPutsOnly, Request
<1>7. ASSUME UNCHANGED vars PROVE LogPutsOnly(sizes)
  BY <1>7 DEF vars, LogPutsOnly, Request
<1> QED
  BY <1>5, <1>6, <1>7 DEF Next

PairInv == LogPutsOnly({0, 2, 3}) => EntriesAreFair

LEMMA InitPairs == Init => PairInv
<1> SUFFICES ASSUME Init PROVE EntriesAreFair
  BY DEF PairInv
<1>1. ASSUME NEW r \in Records, NEW b \in Bins, NEW k \in Keys
      PROVE  EntryFields(r, b, k) = {}
  <2>1. \A f \in Fields : <<b, k, f>> \in Cells
    BY DEF Cells
  <2>2. QED
    BY <2>1 DEF Init, EntryFields
<1> QED
  BY <1>1 DEF EntriesAreFair, Fair

LEMMA NextPairs == Inv /\ PairInv /\ [Next]_vars => PairInv'
<1> SUFFICES ASSUME Inv, PairInv, [Next]_vars, LogPutsOnly({0, 2, 3})'
             PROVE  EntriesAreFair'
  BY DEF PairInv
<1>1. PICK sizes : sizes = {0, 2, 3}
  OBVIOUS
<1>2. LogPutsOnly(sizes)'
  BY <1>1 DEF LogPutsOnly
<1>3. /\ LogPutsOnly(sizes)
      /\ \A n \in Made, r \in Records : Execute(n, r) => PutsOnly(asked[n], sizes)
  BY <1>2, LogBefore
<1>4. EntriesAreFair
  BY <1>1, <1>3 DEF PairInv
<1>8. ASSUME stored' = stored PROVE EntriesAreFair'
  <2> SUFFICES ASSUME NEW r \in Records, NEW b \in Bins, NEW k \in Keys
               PROVE  Fair(EntryFields(r, b, k)')
    BY DEF EntriesAreFair, Fair, Two, EntryFields
  <2>1. EntryFields(r, b, k)' = EntryFields(r, b, k)
    BY <1>8 DEF EntryFields
  <2>2. QED
    BY <1>4, <2>1 DEF EntriesAreFair
<1>5. ASSUME NEW q \in Requests, Submit(q) PROVE EntriesAreFair'
  BY <1>5, <1>8 DEF Submit
<1>6. ASSUME NEW n \in Made, NEW o \in Records, Execute(n, o) PROVE EntriesAreFair'
  BY <1>1, <1>3, <1>4, <1>6, ExecuteFair
<1>7. ASSUME UNCHANGED vars PROVE EntriesAreFair'
  BY <1>7, <1>8 DEF vars
<1> QED
  BY <1>5, <1>6, <1>7 DEF Next

Words    == {"key", "string", "tuple"}
Pairs(s) == Len(s) % 2 = 0 /\ \A j \in 1..Len(s) : s[j] = "key" <=> j % 2 = 1

\* A key that has fields in a bin is one pair of the list.
LEMMA EntryIs ==
    ASSUME NEW F, Fair(F)
    PROVE  Entry(F) = <<>> \/ \E x \in {"string", "tuple"} : Entry(F) = <<"key", x>>
<1>0. ASSUME NEW x \in Words PROVE <<"key">> \o <<x>> = <<"key", x>>
  <2>1. <<"key">> \in Seq(Words) /\ <<x>> \in Seq(Words) /\ <<"key", x>> \in Seq(Words)
    BY DEF Words
  <2>2. PICK s \in Seq(Words) : s = <<"key">> \o <<x>>
    BY <2>1, ConcatProperties
  <2>3. Len(s) = 2 /\ s[1] = "key" /\ s[2] = x
    <3>1. /\ Len(<<"key">>) = 1 /\ Len(<<x>>) = 1
          /\ <<"key">>[1] = "key" /\ <<x>>[1] = x
      OBVIOUS
    <3>2. /\ Len(s) = 1 + 1
          /\ \A j \in 1..1 + 1 : s[j] = IF j <= 1 THEN <<"key">>[j] ELSE <<x>>[j - 1]
      BY <2>1, <2>2, <3>1, ConcatProperties
    <3>3. QED
      BY <3>1, <3>2
  <2>4. s = [j \in 1..2 |-> s[j]]
    BY <2>3
  <2>5. s = <<s[1], s[2]>>
    BY <2>4
  <2>6. QED
    BY <2>2, <2>3, <2>5
<1>1. CASE F = {}
  BY <1>1 DEF Entry
<1>2. CASE F = {"plain"}
  <2>1. F # {}
    BY <1>2
  <2>2. Entry(F) = <<"key">> \o <<"string">>
    BY <1>2, <2>1 DEF Entry
  <2>4. Entry(F) = <<"key", "string">>
    BY <1>0, <2>2 DEF Words
  <2>3. QED
    BY <2>4
<1>3. CASE F \subseteq Three /\ Two(F)
  <2>1. PICK f \in F, g \in F : f # g
    BY <1>3 DEF Two
  <2>2. IsFiniteSet({f}) /\ Cardinality({f}) = 1
    BY FS_Singleton
  <2>3. PICK two : two = {f} \cup {g}
    OBVIOUS
  <2>4. IsFiniteSet(two) /\ Cardinality(two) = 2
    BY <2>1, <2>2, <2>3, FS_AddElement
  <2>5. IsFiniteSet(Three) /\ Cardinality(Three) = 3
    BY ThreeOfThem
  <2>6. F \in SUBSET Three /\ two \in SUBSET F
    BY <1>3, <2>1, <2>3
  <2>7. IsFiniteSet(F) /\ Cardinality(F) <= 3
    BY <2>5, <2>6, FS_Subset
  <2>8. 2 <= Cardinality(F)
    BY <2>4, <2>6, <2>7, FS_Subset
  <2>9. Cardinality(F) \in {2, 3}
    <3>1. Cardinality(F) \in Nat
      BY <2>7, FS_CardinalityType
    <3>2. QED
      BY <2>7, <2>8, <3>1
  <2>10. F # {} /\ F # {"plain"}
    BY <2>1
  <2>13. Entry(F) = <<"key">> \o <<"tuple">>
    BY <2>9, <2>10 DEF Entry
  <2>11. Entry(F) = <<"key", "tuple">>
    BY <1>0, <2>13 DEF Words
  <2>12. QED
    BY <2>11
<1> QED
  BY <1>1, <1>2, <1>3 DEF Fair

LEMMA OnePairMore ==
    ASSUME NEW s \in Seq(Words), Pairs(s), NEW x \in {"string", "tuple"}
    PROVE  Pairs(s \o <<"key", x>>)
<1>1. PICK n \in Nat : n = Len(s)
  BY LenProperties
<1>2. PICK t : t = s \o <<"key", x>>
  OBVIOUS
<1>3. /\ Len(t) = n + 2 /\ t[n + 1] = "key" /\ t[n + 2] = x
      /\ \A j \in 1..n : t[j] = s[j]
  BY <1>1, <1>2 DEF Words
<1>4. n % 2 = 0 /\ \A j \in 1..n : s[j] = "key" <=> j % 2 = 1
  BY <1>1 DEF Pairs
<1>5. (n + 2) % 2 = 0 /\ (n + 1) % 2 = 1
  BY ONLY n \in Nat, <1>4
<1>6. x # "key"
  OBVIOUS
<1>7. ASSUME NEW j \in 1..n + 2 PROVE t[j] = "key" <=> j % 2 = 1
  <2>1. j \in 1..n \/ j = n + 1 \/ j = n + 2
    BY n \in Nat
  <2>2. CASE j \in 1..n
    BY <1>3, <1>4, <2>2
  <2>3. CASE j = n + 1
    BY <1>3, <1>5, <2>3
  <2>4. CASE j = n + 2
    BY <1>3, <1>5, <1>6, <2>4
  <2>5. QED
    BY <2>1, <2>2, <2>3, <2>4
<1> QED
  BY <1>2, <1>3, <1>5, <1>7 DEF Pairs

LEMMA PairsOnly ==
    ASSUME NEW n \in Nat, NEW ss \in [1..n -> Seq(Words)],
           \A j \in 1..n : ss[j] = <<>> \/ \E x \in {"string", "tuple"} : ss[j] = <<"key", x>>
    PROVE  FlattenSeq(ss) \in Seq(Words) /\ Pairs(FlattenSeq(ss))
<1>1. ss \in Seq(Seq(Words)) /\ Len(ss) = n
  OBVIOUS
<1>2. PICK g \in [0..n -> Seq(Words)] :
          /\ g[0] = <<>> /\ FlattenSeq(ss) = g[n]
          /\ \A i \in 1..n : g[i] = g[i - 1] \o ss[i]
  BY <1>1, Flattened
<1> DEFINE T == {i \in 0..n : Pairs(g[i])}
<1>3. 0 \in T
  <2>1. Pairs(<<>>)
    BY DEF Pairs
  <2>2. QED
    BY <1>2, <2>1
<1>4. ASSUME NEW i \in 1..n, i - 1 \in T PROVE i \in T
  <2>1. i - 1 \in 0..n /\ i \in 0..n
    OBVIOUS
  <2>2. PICK s \in Seq(Words) : s = g[i - 1]
    BY <2>1
  <2>3. Pairs(s) /\ g[i] = s \o ss[i]
    BY <1>2, <1>4, <2>2
  <2>4. CASE ss[i] = <<>>
    <3>1. g[i] = s
      BY <2>3, <2>4
    <3>2. QED
      BY <2>1, <2>3, <3>1
  <2>5. ASSUME NEW x \in {"string", "tuple"}, ss[i] = <<"key", x>> PROVE Pairs(g[i])
    <3>1. g[i] = s \o <<"key", x>>
      BY <2>3, <2>5
    <3>2. QED
      BY <2>3, <3>1, OnePairMore
  <2>6. QED
    BY <2>1, <2>4, <2>5
<1> HIDE DEF T
<1>5. \A i \in 0..n : i \in T
  BY <1>3, <1>4, InductionTo
<1> QED
  BY <1>2, <1>5 DEF T

\* The keys of a bin, in some order
LEMMA KeysInOrder == \E n \in Nat : SetToSeq(Keys) \in [1..n -> Keys] /\ Len(SetToSeq(Keys)) = n
<1>1. PICK n : n = Cardinality(Keys)
  OBVIOUS
<1>2. n \in Nat /\ ExistsBijection(1..n, Keys)
  BY <1>1, KeysAssumption, FS_CardinalityType
<1>3. \E f \in [1..n -> Keys] : IsInjective(f)
  BY <1>2 DEF ExistsBijection, Bijection, Injection
<1>4. SetToSeq(Keys) \in [1..n -> Keys]
  BY <1>1, <1>3 DEF SetToSeq
<1>5. Len(SetToSeq(Keys)) = n
  BY <1>2, <1>4
<1> QED
  BY <1>2, <1>4, <1>5

LEMMA FairIsPairs ==
    ASSUME EntriesAreFair, NEW r \in Records, NEW b \in Bins
    PROVE  FlatList(r, b) \in Seq(Words) /\ Pairs(FlatList(r, b))
<1>1. PICK keys : keys = SetToSeq(Keys)
  OBVIOUS
<1>2. PICK n \in Nat : keys \in [1..n -> Keys] /\ Len(keys) = n
  BY <1>1, KeysInOrder
<1>3. PICK ss : ss = [j \in 1..n |-> Entry(EntryFields(r, b, keys[j]))]
  OBVIOUS
<1>4. ASSUME NEW j \in 1..n
      PROVE  ss[j] = <<>> \/ \E x \in {"string", "tuple"} : ss[j] = <<"key", x>>
  <2>1. PICK k \in Keys : k = keys[j]
    BY <1>2
  <2>2. Fair(EntryFields(r, b, k))
    BY DEF EntriesAreFair
  <2>3. ss[j] = Entry(EntryFields(r, b, k))
    BY <1>3, <2>1
  <2>4. QED
    BY <2>2, <2>3, EntryIs
<1>5. ss \in [1..n -> Seq(Words)]
  <2>1. <<>> \in Seq(Words) /\ \A x \in {"string", "tuple"} : <<"key", x>> \in Seq(Words)
    BY DEF Words
  <2>3. \A j \in 1..n : ss[j] \in Seq(Words)
    BY <1>4, <2>1
  <2>2. QED
    BY <1>3, <2>3
<1>6. FlatList(r, b) = FlattenSeq(ss)
  BY <1>1, <1>2, <1>3 DEF FlatList
<1> QED
  BY <1>4, <1>5, <1>6, PairsOnly

LEMMA FairReads == Inv /\ PairInv => ReadsArePairs
<1> SUFFICES ASSUME PairInv, LogPutsOnly({0, 2, 3}), NEW r \in Records, NEW b \in Bins
             PROVE  LET list == FlatList(r, b)
                    IN  /\ Len(list) % 2 = 0
                        /\ \A j \in DOMAIN list : (list[j] = "key") <=> (j % 2 = 1)
  BY DEF ReadsArePairs
<1>1. PICK list : list = FlatList(r, b)
  OBVIOUS
<1>2. list \in Seq(Words) /\ Pairs(list)
  BY <1>1, FairIsPairs DEF PairInv
<1>3. DOMAIN list = 1..Len(list)
  BY <1>2
<1> QED
  BY <1>1, <1>2, <1>3 DEF Pairs

\* What cdt_get returns for a bin is pairs of a key and what it holds, unless
\* some put gave a key a single field.
THEOREM ReadsStayPaired == Spec => []ReadsArePairs
<1>1. Init => Inv /\ PairInv
  BY InitInv, InitPairs
<1>2. (Inv /\ PairInv) /\ [Next]_vars => (Inv /\ PairInv)'
  BY NextInv, NextPairs
<1>3. Inv /\ PairInv => ReadsArePairs
  BY FairReads
<1> QED
  BY <1>1, <1>2, <1>3, PTL DEF Spec
=============================================================================
