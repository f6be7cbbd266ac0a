--------------------------- MODULE SequenceLemmas ----------------------------
(***************************************************************************)
(* What the proofs need to know of mailboxes and pipes, which are          *)
(* sequences: what is left when a message is taken out of one.             *)
(***************************************************************************)
EXTENDS Integers, Sequences, SequenceTheorems, TLAPS

\* t has elements of s, each once at most.
Part(s, t) == \E f \in [1..Len(t) -> 1..Len(s)] :
                 /\ \A i, j \in 1..Len(t) : f[i] = f[j] => i = j
                 /\ \A i \in 1..Len(t) : t[i] = s[f[i]]

\* Mailbox and port lose messages in three ways: from the front, from the
\* middle and all at once.
LEMMA PartOfItself ==
    ASSUME NEW S, NEW s \in Seq(S)
    PROVE  Part(s, s)
<1> DEFINE f == [i \in 1..Len(s) |-> i]
<1>1. /\ f \in [1..Len(s) -> 1..Len(s)]
      /\ \A i \in 1..Len(s) : f[i] = i
  OBVIOUS
<1> HIDE DEF f
<1> QED
  BY <1>1 DEF Part

LEMMA EmptyIsPart == ASSUME NEW s PROVE Part(s, <<>>)
<1>1. 1..Len(<<>>) = {}
  BY EmptySeq
<1> DEFINE f == [i \in 1..Len(<<>>) |-> i]
<1>2. f \in [1..Len(<<>>) -> 1..Len(s)]
  BY <1>1
<1> HIDE DEF f
<1> QED
  BY <1>1, <1>2 DEF Part

LEMMA TailIsPart ==
    ASSUME NEW S, NEW s \in Seq(S), s # <<>>
    PROVE  Part(s, Tail(s)) /\ Tail(s) \in Seq(S)
<1>1. /\ Len(s) \in Nat /\ Tail(s) \in Seq(S) /\ Len(Tail(s)) = Len(s) - 1
      /\ \A i \in 1..Len(Tail(s)) : Tail(s)[i] = s[i + 1]
  BY HeadTailProperties, LenProperties
<1> DEFINE f == [i \in 1..Len(Tail(s)) |-> i + 1]
<1>2. /\ f \in [1..Len(Tail(s)) -> 1..Len(s)]
      /\ \A i \in 1..Len(Tail(s)) : f[i] = i + 1
  BY <1>1
<1> HIDE DEF f
<1>3. \A i, j \in 1..Len(Tail(s)) : f[i] = f[j] => i = j
  BY <1>1, <1>2
<1>4. \A i \in 1..Len(Tail(s)) : Tail(s)[i] = s[f[i]]
  BY <1>1, <1>2
<1> QED
  BY <1>1, <1>2, <1>3, <1>4 DEF Part

LEMMA ShiftIsPart ==
    ASSUME NEW S, NEW s \in Seq(S), NEW n \in 1..Len(s), NEW t \in Seq(S),
           Len(t) = Len(s) - 1,
           \A i \in 1..n - 1 : t[i] = s[i],
           \A i \in n..Len(t) : t[i] = s[i + 1]
    PROVE  Part(s, t)
<1> DEFINE f == [i \in 1..Len(t) |-> IF i < n THEN i ELSE i + 1]
<1>1. /\ f \in [1..Len(t) -> 1..Len(s)]
      /\ \A i \in 1..Len(t) : f[i] = IF i < n THEN i ELSE i + 1
  OBVIOUS
<1> HIDE DEF f
<1>2. \A i, j \in 1..Len(t) : f[i] = f[j] => i = j
  BY <1>1
<1>3. \A i \in 1..Len(t) : t[i] = s[f[i]]
  BY <1>1
<1> QED
  BY <1>1, <1>2, <1>3 DEF Part

\* s without its n-th element
Removal(s, n) == SubSeq(s, 1, n - 1) \o SubSeq(s, n + 1, Len(s))

LEMMA Concatenation ==
    ASSUME NEW S, NEW a \in Seq(S), NEW b \in Seq(S), NEW t, t = a \o b
    PROVE  /\ t \in Seq(S) /\ Len(t) = Len(a) + Len(b)
           /\ \A i \in 1..Len(a) : t[i] = a[i]
           /\ \A i \in 1..Len(b) : t[Len(a) + i] = b[i]
BY ConcatProperties

LEMMA Prepended ==
    ASSUME NEW S, NEW e \in S, NEW s \in Seq(S), NEW t, t = <<e>> \o s
    PROVE  /\ t \in Seq(S) /\ Len(t) = 1 + Len(s) /\ t[1] = e
           /\ \A i \in 1..Len(s) : t[i + 1] = s[i]
OBVIOUS

LEMMA RemovalIsPart ==
    ASSUME NEW S, NEW s \in Seq(S), NEW n \in 1..Len(s)
    PROVE  /\ Removal(s, n) \in Seq(S) /\ Len(Removal(s, n)) = Len(s) - 1
           /\ \A i \in 1..n - 1 : Removal(s, n)[i] = s[i]
           /\ \A i \in n..Len(s) - 1 : Removal(s, n)[i] = s[i + 1]
           /\ Part(s, Removal(s, n))
<1>1. PICK a : a = SubSeq(s, 1, n - 1)
  OBVIOUS
<1>2. PICK b : b = SubSeq(s, n + 1, Len(s))
  OBVIOUS
<1>3. a \in Seq(S) /\ Len(a) = n - 1 /\ \A i \in 1..n - 1 : a[i] = s[i]
  BY <1>1
<1>4. b \in Seq(S) /\ Len(b) = Len(s) - n /\ \A i \in 1..Len(s) - n : b[i] = s[n + i]
  BY <1>2
<1>5. PICK t : t = Removal(s, n)
  OBVIOUS
<1>6. t = a \o b
  BY <1>1, <1>2, <1>5 DEF Removal
<1>7. /\ t \in Seq(S) /\ Len(t) = Len(a) + Len(b)
      /\ \A i \in 1..Len(a) : t[i] = a[i]
      /\ \A i \in 1..Len(b) : t[Len(a) + i] = b[i]
  <2>1. a \in Seq(S) /\ b \in Seq(S)
    BY <1>3, <1>4
  <2>2. QED
    BY <1>6, <2>1, Concatenation
<1>8. Len(t) = Len(s) - 1 /\ \A i \in 1..n - 1 : t[i] = s[i]
  BY <1>3, <1>4, <1>7
<1>9. ASSUME NEW i \in n..Len(s) - 1 PROVE t[i] = s[i + 1]
  <2>1. PICK k : k = i - Len(a)
    OBVIOUS
  <2>2. k \in 1..Len(b) /\ n + k = i + 1 /\ Len(a) + k = i
    <3>1. PICK l \in Nat : l = Len(s)
      OBVIOUS
    <3>2. n \in 1..l /\ i \in n..l - 1 /\ k = i - (n - 1)
      BY <1>3, <2>1, <3>1
    <3>3. k \in 1..l - n /\ n + k = i + 1 /\ n - 1 + k = i
      BY ONLY <3>2, l \in Nat
    <3>4. QED
      BY <1>3, <1>4, <3>1, <3>3
  <2>3. t[i] = b[k]
    BY <1>7, <2>2
  <2>4. QED
    BY <1>4, <2>2, <2>3
<1>10. t \in Seq(S)
  BY <1>7
<1>11. Part(s, t)
  BY ONLY s \in Seq(S), n \in 1..Len(s), <1>8, <1>9, <1>10, ShiftIsPart
<1> QED
  BY <1>5, <1>8, <1>9, <1>10, <1>11

-----------------------------------------------------------------------------
(* One mailbox of several *)

\* A step that changes f at a alone.
LEMMA Updated ==
    ASSUME NEW A, NEW B, NEW f \in [A -> B], NEW a \in A, NEW b \in B,
           NEW g, g = [f EXCEPT ![a] = b]
    PROVE  g \in [A -> B] /\ g[a] = b /\ \A x \in A : x # a => g[x] = f[x]
OBVIOUS
=============================================================================
