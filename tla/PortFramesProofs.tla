-------------------------- MODULE PortFramesProofs --------------------------
(***************************************************************************)
(* Proofs about PortFrames, for any base, any set of commands that fit,    *)
(* any answers and any room in the pipe.                                   *)
(*                                                                         *)
(* The bytes of a direction, from the first to the last one ever written,  *)
(* are one sequence: the frames of its messages one after the other.  What *)
(* is in a pipe, in a buffer of read_exact or in the driver is a slice of  *)
(* it, and the slices follow one another with nothing between them.        *)
(***************************************************************************)
EXTENDS PortFrames, SequenceLemmas, TLAPS

\* S is the frames of the messages ms, and the frame of ms[k] ends at p[k].
Frames(S, p, ms) ==
    /\ p[0] = 0 /\ p[Len(ms)] = Len(S)
    /\ \A k \in 0..Len(ms) : p[k] <= Len(S)
    /\ \A k \in 1..Len(ms) :
          /\ p[k] = p[k - 1] + 2 + Len(ms[k])
          /\ S[p[k - 1] + 1] = HighByte(Len(ms[k]))
          /\ S[p[k - 1] + 2] = LowByte(Len(ms[k]))
          /\ \A j \in 1..Len(ms[k]) : S[p[k - 1] + 2 + j] = ms[k][j]

\* t is what S has after its first n bytes.
Slice(S, n, t) == n + Len(t) <= Len(S) /\ \A i \in 1..Len(t) : t[i] = S[n + i]

\* Where the bytes t end that begin after the first n.
After(n, t) == n + Len(t)

\* Where the buffer begins and how far the program has read, when p are the ends of the commands' frames.
BufferAt(p) == p[Len(taken)] + IF phase = "body" THEN 2 ELSE 0
ReadTo(p) == IF phase \in {"length", "body"} THEN After(BufferAt(p), buf) ELSE p[Len(taken)]

\* The buffer and the pipe follow the commands taken.
Reading(S, p) ==
    /\ phase = "length" => need = 2
    /\ phase = "body" => Len(taken) < Len(sent) /\ need = Len(sent[Len(taken) + 1])
    /\ phase \in {"length", "body"} => Slice(S, BufferAt(p), buf)
    /\ phase # "ended" => Slice(S, ReadTo(p), toProgram)
    /\ phase # "ended" /\ ~closed => After(ReadTo(p), toProgram) = Len(S)

TakenAreSent == /\ Len(taken) <= Len(sent)
                /\ \A i \in 1..Len(taken) : taken[i] = sent[i]

Incoming == \E S \in Seq(Byte), p \in [0..Len(sent) -> Nat] : Frames(S, p, sent) /\ Reading(S, p)

\* No answer was delivered after one that did not fit.
InStep == \A i \in 1..Len(answers) : i <= Len(delivered) => Fits(answers[i])

DeliveredAreAnswers == InStep => /\ Len(delivered) <= Len(answers)
                                 /\ \A i \in 1..Len(delivered) : delivered[i] = answers[i]

\* The buffers of write_cmd are what S has after its first n bytes.
Writing(S, n) ==
    /\ \A k \in 1..Len(out) : /\ Len(out[k]) > 0 /\ Slice(S, n + k - 1, out[k])
                              /\ k < Len(out) => Len(out[k]) = 1
    /\ out = <<>> => n = Len(S)
    /\ out # <<>> => n + Len(out) - 1 + Len(out[Len(out)]) = Len(S)

\* What the driver has, the pipe and the buffers follow the answers delivered.
Following(S, n) ==
    /\ Slice(S, n, inbox) /\ Slice(S, After(n, inbox), fromProgram)
    /\ Writing(S, After(After(n, inbox), fromProgram))

Outgoing == ~closed /\ InStep =>
    \E S \in Seq(Byte), p \in [0..Len(answers) -> Nat] :
        Frames(S, p, answers) /\ Following(S, p[Len(delivered)])

OneAnswerEach == Len(answers) <= Len(taken) /\ (phase = "run" => Len(answers) < Len(taken))

IInv == /\ TypeOK
        /\ TakenAreSent /\ Incoming /\ EndsOnlyWhenClosed
        /\ DeliveredAreAnswers /\ Outgoing /\ OneAnswerEach

-----------------------------------------------------------------------------
(* Bytes *)

LEMMA BaseLimits ==
    /\ Base \in Nat /\ Base > 1 /\ Limit \in Nat /\ Limit > 3
    /\ Byte = 0..Base - 1 /\ Byte \subseteq Nat
<1>1. Base \in Nat /\ Base > 1
  BY BaseAssumption
<1>2. Base * Base \in Nat /\ Base * Base > 3
  BY <1>1, Z3
<1> QED
  BY <1>1, <1>2 DEF Limit, Byte

LEMMA Division ==
    ASSUME NEW m \in Nat, m > 0, NEW x \in Nat
    PROVE  x \div m \in Nat /\ x % m \in 0..m - 1 /\ x % m = x - m * (x \div m)
<1>1. x \div m \in Nat
  OBVIOUS
<1>2. x % m \in 0..m - 1
  OBVIOUS
<1>3. x % m = x - m * (x \div m)
  OBVIOUS
<1> QED
  BY <1>1, <1>2, <1>3

LEMMA SmallRemainder ==
    ASSUME NEW m \in Nat, NEW x \in 0..m - 1
    PROVE  x % m = x
OBVIOUS

LEMMA LengthBytes ==
    ASSUME NEW len \in Nat
    PROVE  /\ HighByte(len) \in Byte /\ LowByte(len) \in Byte
           /\ len < Limit => HighByte(len) * Base + LowByte(len) = len
<1>1. Base \in Nat /\ Base > 0 /\ Byte = 0..Base - 1 /\ Limit = Base * Base
  BY BaseLimits DEF Limit
<1>2. PICK q \in Nat : q = len \div Base
  BY <1>1, Division
<1>3. PICK r \in 0..Base - 1 : r = len % Base
  BY <1>1, Division
<1>4. len = q * Base + r
  <2>1. r = len - Base * q
    BY <1>1, <1>2, <1>3, Division
  <2>2. Base * q = q * Base /\ Base * q \in Nat
    BY ONLY <1>1, q \in Nat, Z3
  <2>3. QED
    BY <2>1, <2>2
<1>5. HighByte(len) = q % Base /\ LowByte(len) = r
  BY <1>2, <1>3 DEF HighByte, LowByte
<1>6. q % Base \in 0..Base - 1
  BY <1>1, Division
<1>7. ASSUME len < Limit PROVE q % Base = q
  <2>1. len < Base * Base
    BY <1>1, <1>7
  <2>2. ASSUME q >= Base PROVE FALSE
    <3>1. q * Base >= Base * Base
      BY ONLY <1>1, <2>2, q \in Nat, Z3
    <3>2. q * Base \in Nat /\ Base * Base \in Nat
      BY <1>1
    <3>3. QED
      BY <1>3, <1>4, <2>1, <3>1, <3>2
  <2>3. QED
    BY <1>1, <2>2, SmallRemainder
<1> QED
  BY <1>1, <1>3, <1>4, <1>5, <1>6, <1>7

-----------------------------------------------------------------------------
(* Slices *)

LEMMA TakeDrop ==
    ASSUME NEW s \in Seq(Byte), NEW n \in 0..Len(s)
    PROVE  /\ Take(s, n) \in Seq(Byte) /\ Len(Take(s, n)) = n
           /\ \A i \in 1..n : Take(s, n)[i] = s[i]
           /\ Drop(s, n) \in Seq(Byte) /\ Len(Drop(s, n)) = Len(s) - n
           /\ \A i \in 1..Len(s) - n : Drop(s, n)[i] = s[n + i]
BY DEF Take, Drop

LEMMA SliceCut ==
    ASSUME NEW S \in Seq(Byte), NEW m \in Nat, NEW s \in Seq(Byte), Slice(S, m, s),
           NEW n \in 0..Len(s)
    PROVE  Slice(S, m, Take(s, n)) /\ Slice(S, m + n, Drop(s, n))
<1>1. PICK t \in Seq(Byte) : /\ t = Take(s, n) /\ Len(t) = n
                             /\ \A i \in 1..n : t[i] = s[i]
  BY TakeDrop
<1>2. PICK d \in Seq(Byte) : /\ d = Drop(s, n) /\ Len(d) = Len(s) - n
                             /\ \A i \in 1..Len(s) - n : d[i] = s[n + i]
  BY TakeDrop
<1>3. m + Len(s) <= Len(S) /\ \A i \in 1..Len(s) : s[i] = S[m + i]
  BY DEF Slice
<1>4. Slice(S, m, t)
  <2>1. m + Len(t) <= Len(S)
    BY <1>1, <1>3
  <2>2. \A i \in 1..Len(t) : t[i] = S[m + i]
    <3>1. \A i \in 1..n : i \in 1..Len(s)
      OBVIOUS
    <3>2. QED
      BY <1>1, <1>3, <3>1
  <2>3. QED
    BY <2>1, <2>2 DEF Slice
<1>5. Slice(S, m + n, d)
  <2>1. ASSUME NEW i \in 1..Len(d) PROVE d[i] = S[m + n + i]
    <3>1. n + i \in 1..Len(s) /\ m + (n + i) = m + n + i
      BY <1>2
    <3>2. QED
      BY <1>2, <1>3, <3>1
  <2>2. QED
    BY <1>2, <1>3, <2>1 DEF Slice
<1> QED
  BY <1>1, <1>2, <1>4, <1>5

LEMMA SliceJoin ==
    ASSUME NEW S \in Seq(Byte), NEW n \in Nat, NEW a \in Seq(Byte), NEW b \in Seq(Byte),
           Slice(S, n, a), Slice(S, After(n, a), b)
    PROVE  /\ Slice(S, n, a \o b) /\ a \o b \in Seq(Byte)
           /\ After(n, a \o b) = After(After(n, a), b)
           /\ After(n, a) \in Nat /\ After(n, a \o b) \in Nat
<1> SUFFICES ASSUME NEW t, t = a \o b
             PROVE  /\ Slice(S, n, t) /\ t \in Seq(Byte)
                    /\ After(n, t) = After(After(n, a), b)
                    /\ After(n, a) \in Nat /\ After(n, t) \in Nat
  OBVIOUS
<1>1. /\ t \in Seq(Byte) /\ Len(t) = Len(a) + Len(b)
      /\ \A i \in 1..Len(a) : t[i] = a[i]
      /\ \A i \in 1..Len(b) : t[Len(a) + i] = b[i]
  BY Concatenation
<1>2. Len(a) \in Nat /\ Len(b) \in Nat /\ Len(S) \in Nat
  OBVIOUS
<1>3. /\ n + Len(a) + Len(b) <= Len(S)
      /\ \A i \in 1..Len(a) : a[i] = S[n + i]
      /\ \A i \in 1..Len(b) : b[i] = S[n + Len(a) + i]
  BY DEF Slice, After
<1>4. ASSUME NEW i \in 1..Len(t) PROVE t[i] = S[n + i]
  <2>1. CASE i <= Len(a)
    BY ONLY <1>1, <1>2, <1>3, <2>1, i \in 1..Len(t)
  <2>2. CASE i > Len(a)
    <3>1. PICK j : j = i - Len(a)
      OBVIOUS
    <3>2. j \in 1..Len(b) /\ i = Len(a) + j /\ n + i = n + Len(a) + j
      BY ONLY <1>1, <1>2, <2>2, <3>1, i \in 1..Len(t)
    <3>3. QED
      BY ONLY <1>1, <1>3, <3>2
  <2>3. QED
    BY ONLY <1>1, <1>2, <2>1, <2>2, i \in 1..Len(t)
<1>5. n + Len(t) <= Len(S)
  BY ONLY <1>1, <1>2, <1>3
<1>6. /\ n + Len(t) = n + Len(a) + Len(b)
      /\ n + Len(a) \in Nat /\ n + Len(t) \in Nat
  BY ONLY <1>1, <1>2
<1> QED
  BY ONLY <1>1, <1>4, <1>5, <1>6 DEF Slice, After

\* A slice and two that follow it.
LEMMA SliceJoinTwo ==
    ASSUME NEW S \in Seq(Byte), NEW n \in Nat,
           NEW a \in Seq(Byte), NEW h \in Seq(Byte), NEW b \in Seq(Byte),
           Slice(S, n, a), Slice(S, After(n, a), h), Slice(S, After(After(n, a), h), b)
    PROVE  /\ Slice(S, n, (a \o h) \o b) /\ (a \o h) \o b \in Seq(Byte)
           /\ After(n, (a \o h) \o b) = After(After(After(n, a), h), b)
<1>1. PICK u : u = a \o h
  OBVIOUS
<1>2. /\ Slice(S, n, u) /\ u \in Seq(Byte) /\ After(n, u) = After(After(n, a), h)
      /\ After(n, u) \in Nat
  BY <1>1, SliceJoin
<1>3. Slice(S, After(n, u), b)
  BY <1>2
<1>4. /\ Slice(S, n, u \o b) /\ u \o b \in Seq(Byte)
      /\ After(n, u \o b) = After(After(n, u), b)
  BY ONLY <1>2, <1>3, SliceJoin
<1> QED
  BY ONLY <1>1, <1>2, <1>4

\* What is read moves from the pipe to the reader's buffer.
LEMMA SliceMoves ==
    ASSUME NEW S \in Seq(Byte), NEW m \in Nat, NEW b \in Seq(Byte), NEW s \in Seq(Byte),
           Slice(S, m, b), Slice(S, After(m, b), s), NEW n \in 0..Len(s)
    PROVE  LET c == b \o Take(s, n)
               d == Drop(s, n)
           IN  /\ c \in Seq(Byte) /\ Slice(S, m, c)
               /\ d \in Seq(Byte) /\ Slice(S, After(m, c), d)
               /\ After(After(m, c), d) = After(After(m, b), s)
<1>1. PICK t \in Seq(Byte) : t = Take(s, n) /\ Len(t) = n
  BY TakeDrop
<1>2. PICK d \in Seq(Byte) : d = Drop(s, n) /\ Len(d) = Len(s) - n
  BY TakeDrop
<1>3. PICK k \in Nat : k = After(m, b)
  BY DEF After
<1>4. Slice(S, k, t) /\ Slice(S, k + n, d)
  BY <1>1, <1>2, <1>3, SliceCut
<1>5. PICK c : c = b \o t
  OBVIOUS
<1>6. Slice(S, m, c) /\ c \in Seq(Byte) /\ After(m, c) = After(k, t)
  <2>1. Slice(S, m, b) /\ Slice(S, After(m, b), t)
    BY <1>3, <1>4
  <2>2. QED
    BY ONLY <1>3, <1>5, <2>1, SliceJoin
<1>7. After(m, c) = k + n
  BY ONLY <1>1, <1>6 DEF After
<1>8. After(After(m, c), d) = After(k, s)
  <2>1. Len(s) \in Nat
    OBVIOUS
  <2>2. k + n + Len(d) = k + Len(s)
    BY ONLY <1>2, <2>1
  <2>3. QED
    BY ONLY <1>7, <2>2 DEF After
<1>9. c = b \o Take(s, n)
  BY ONLY <1>1, <1>5
<1> QED
  BY ONLY <1>2, <1>3, <1>4, <1>6, <1>7, <1>8, <1>9

\* T begins with S.
Begins(S, T) == Len(S) <= Len(T) /\ \A i \in 1..Len(S) : T[i] = S[i]

LEMMA SliceOfMore ==
    ASSUME NEW S \in Seq(Byte), NEW T \in Seq(Byte), Begins(S, T),
           NEW n \in Nat, NEW s \in Seq(Byte), Slice(S, n, s)
    PROVE  Slice(T, n, s)
<1>1. ASSUME NEW i \in 1..Len(s) PROVE s[i] = T[n + i]
  <2>1. n + i \in 1..Len(S)
    BY DEF Slice
  <2>2. QED
    BY <2>1 DEF Slice, Begins
<1> QED
  BY <1>1 DEF Slice, Begins

-----------------------------------------------------------------------------
(* Frames *)

Header(m) == <<HighByte(Len(m)), LowByte(Len(m))>>

LEMMA HeaderBytes ==
    ASSUME NEW m \in Seq(Byte)
    PROVE  /\ Header(m) \in Seq(Byte) /\ Len(Header(m)) = 2 /\ Len(m) \in Nat
           /\ Header(m)[1] = HighByte(Len(m)) /\ Header(m)[2] = LowByte(Len(m))
<1>1. Len(m) \in Nat
  OBVIOUS
<1>2. HighByte(Len(m)) \in Byte /\ LowByte(Len(m)) \in Byte
  BY <1>1, LengthBytes
<1> QED
  BY <1>1, <1>2 DEF Header

\* One more message makes one more frame, and leaves the others where they are.
LEMMA OneMoreFrame ==
    ASSUME NEW ms \in Seq(Seq(Byte)), NEW m \in Seq(Byte),
           NEW S \in Seq(Byte), NEW p \in [0..Len(ms) -> Nat], Frames(S, p, ms)
    PROVE  \E T \in Seq(Byte), q \in [0..Len(Append(ms, m)) -> Nat] :
               /\ Frames(T, q, Append(ms, m)) /\ Begins(S, T)
               /\ \A k \in 0..Len(ms) : q[k] = p[k]
               /\ Len(T) = Len(S) + 2 + Len(m)
               /\ Slice(T, Len(S), Header(m)) /\ Slice(T, Len(S) + 2, m)
<1>1. PICK h \in Seq(Byte) : /\ h = Header(m) /\ Len(h) = 2
                             /\ h[1] = HighByte(Len(m)) /\ h[2] = LowByte(Len(m))
  BY HeaderBytes
<1>2. PICK f : f = h \o m
  OBVIOUS
<1>3. /\ f \in Seq(Byte) /\ Len(f) = 2 + Len(m)
      /\ \A i \in 1..2 : f[i] = h[i]
      /\ \A i \in 1..Len(m) : f[2 + i] = m[i]
  <2>1. /\ f \in Seq(Byte) /\ Len(f) = Len(h) + Len(m)
        /\ \A i \in 1..Len(h) : f[i] = h[i]
        /\ \A i \in 1..Len(m) : f[Len(h) + i] = m[i]
    BY ONLY <1>2, h \in Seq(Byte), m \in Seq(Byte), Concatenation
  <2>2. QED
    BY <1>1, <2>1
<1>4. PICK T : T = S \o f
  OBVIOUS
<1>5. /\ T \in Seq(Byte) /\ Len(T) = Len(S) + Len(f)
      /\ \A i \in 1..Len(S) : T[i] = S[i]
      /\ \A i \in 1..Len(f) : T[Len(S) + i] = f[i]
  <2>1. f \in Seq(Byte)
    BY <1>3
  <2>2. QED
    BY ONLY <1>4, <2>1, S \in Seq(Byte), Concatenation
<1>6. Len(S) \in Nat /\ Len(m) \in Nat /\ Len(ms) \in Nat
  OBVIOUS
<1>7. Len(T) = Len(S) + 2 + Len(m) /\ Begins(S, T)
  BY <1>3, <1>5, <1>6 DEF Begins
<1>8. /\ T[Len(S) + 1] = HighByte(Len(m)) /\ T[Len(S) + 2] = LowByte(Len(m))
      /\ \A j \in 1..Len(m) : T[Len(S) + 2 + j] = m[j]
  <2>1. T[Len(S) + 1] = h[1] /\ T[Len(S) + 2] = h[2]
    BY <1>3, <1>5, <1>6
  <2>2. ASSUME NEW j \in 1..Len(m) PROVE T[Len(S) + 2 + j] = m[j]
    <3>1. 2 + j \in 1..Len(f) /\ Len(S) + (2 + j) = Len(S) + 2 + j
      BY <1>3, <1>6
    <3>2. QED
      BY <1>3, <1>5, <3>1
  <2>3. QED
    BY <1>1, <2>1, <2>2
<1>9. Slice(T, Len(S), h) /\ Slice(T, Len(S) + 2, m)
  <2>1. \A i \in 1..Len(h) : h[i] = T[Len(S) + i]
    BY <1>1, <1>8
  <2>2. QED
    BY <1>1, <1>6, <1>7, <1>8, <2>1 DEF Slice
<1>10. PICK l : l = Append(ms, m)
  OBVIOUS
<1>11. /\ Len(l) = Len(ms) + 1 /\ l[Len(ms) + 1] = m
       /\ \A k \in 1..Len(ms) : l[k] = ms[k]
  BY <1>10, AppendProperties
<1> DEFINE q == [k \in 0..Len(l) |-> IF k \in 0..Len(ms) THEN p[k] ELSE Len(T)]
<1>12. /\ q \in [0..Len(l) -> Nat]
       /\ \A k \in 0..Len(ms) : q[k] = p[k]
       /\ q[Len(l)] = Len(T)
  <2>1. Len(T) \in Nat
    BY <1>5
  <2>2. QED
    BY <1>6, <1>11, <2>1
<1> HIDE DEF q
<1>13. /\ p[0] = 0 /\ p[Len(ms)] = Len(S)
       /\ \A k \in 0..Len(ms) : p[k] \in Nat /\ p[k] <= Len(S)
  BY DEF Frames
<1>14. q[0] = 0 /\ \A k \in 0..Len(l) : q[k] <= Len(T)
  <2>1. \A k \in 0..Len(l) : k \in 0..Len(ms) \/ k = Len(l)
    BY <1>6, <1>11
  <2>2. Len(S) <= Len(T) /\ Len(T) <= Len(T)
    BY <1>6, <1>7
  <2>3. \A k \in 0..Len(ms) : q[k] <= Len(T)
    BY <1>6, <1>7, <1>12, <1>13
  <2>4. QED
    BY <1>6, <1>12, <1>13, <2>1, <2>2, <2>3
<1>15. ASSUME NEW k \in 1..Len(l)
       PROVE  /\ q[k] = q[k - 1] + 2 + Len(l[k])
              /\ T[q[k - 1] + 1] = HighByte(Len(l[k]))
              /\ T[q[k - 1] + 2] = LowByte(Len(l[k]))
              /\ \A j \in 1..Len(l[k]) : T[q[k - 1] + 2 + j] = l[k][j]
  <2>1. CASE k \in 1..Len(ms)
    <3>1. /\ p[k] = p[k - 1] + 2 + Len(ms[k]) /\ p[k - 1] \in Nat
          /\ p[k] \in Nat /\ p[k] <= Len(S) /\ Len(ms[k]) \in Nat
          /\ S[p[k - 1] + 1] = HighByte(Len(ms[k]))
          /\ S[p[k - 1] + 2] = LowByte(Len(ms[k]))
          /\ \A j \in 1..Len(ms[k]) : S[p[k - 1] + 2 + j] = ms[k][j]
      <4>1. k \in 0..Len(ms) /\ k - 1 \in 0..Len(ms)
        BY <1>6, <2>1
      <4>2. Len(ms[k]) \in Nat
        <5>1. ms[k] \in Seq(Byte)
          BY <2>1, ElementOfSeq
        <5>2. QED
          BY <5>1
      <4>3. QED
        BY <1>13, <2>1, <4>1, <4>2 DEF Frames
    <3>2. q[k] = p[k] /\ q[k - 1] = p[k - 1] /\ l[k] = ms[k]
      <4>1. k \in 0..Len(ms) /\ k - 1 \in 0..Len(ms)
        BY ONLY <1>6, <2>1
      <4>2. \A j \in 0..Len(ms) : q[j] = p[j]
        BY <1>12
      <4>3. QED
        BY <1>11, <2>1, <4>1, <4>2
    <3>3. PICK a \in Nat, n \in Nat : a = p[k - 1] /\ n = Len(ms[k])
      BY <3>1
    <3>4. \A i \in 1..n + 2 : T[a + i] = S[a + i]
      <4>1. a + 2 + n <= Len(S)
        BY <3>1, <3>3
      <4>2. \A i \in 1..n + 2 : a + i \in 1..Len(S)
        BY ONLY <1>6, <4>1, a \in Nat, n \in Nat
      <4>3. QED
        BY <1>5, <4>2
    <3>5. /\ T[a + 1] = S[a + 1] /\ T[a + 2] = S[a + 2]
          /\ \A j \in 1..n : T[a + 2 + j] = S[a + 2 + j]
      <4>1. 1 \in 1..n + 2 /\ 2 \in 1..n + 2
        OBVIOUS
      <4>2. \A j \in 1..n : 2 + j \in 1..n + 2 /\ a + (2 + j) = a + 2 + j
        OBVIOUS
      <4>3. QED
        BY <3>4, <4>1, <4>2
    <3>6. QED
      <4>1. /\ p[k] = a + 2 + n /\ S[a + 1] = HighByte(n) /\ S[a + 2] = LowByte(n)
            /\ \A j \in 1..n : S[a + 2 + j] = ms[k][j]
        BY <3>1, <3>3
      <4>2. /\ T[a + 1] = HighByte(n) /\ T[a + 2] = LowByte(n)
            /\ \A j \in 1..n : T[a + 2 + j] = ms[k][j]
        BY <3>5, <4>1
      <4>3. q[k] = a + 2 + n /\ q[k - 1] = a /\ l[k] = ms[k] /\ Len(l[k]) = n
        BY <3>2, <3>3, <4>1
      <4>4. QED
        BY <4>2, <4>3
  <2>2. CASE k = Len(ms) + 1
    <3>1. q[k] = Len(T) /\ l[k] = m
      BY <1>11, <1>12, <2>2
    <3>2. k - 1 = Len(ms) /\ q[k - 1] = Len(S)
      BY <1>6, <1>12, <1>13, <2>2
    <3>3. QED
      BY <1>7, <1>8, <3>1, <3>2
  <2>3. QED
    BY <1>6, <1>11, <2>1, <2>2
<1>16. Frames(T, q, l)
  BY <1>12, <1>14, <1>15 DEF Frames
<1> QED
  BY <1>1, <1>5, <1>7, <1>9, <1>10, <1>12, <1>16

\* Bytes that follow the k-th frame and are not the last belong to the next one.
LEMMA NextFrame ==
    ASSUME NEW ms \in Seq(Seq(Byte)), NEW S \in Seq(Byte),
           NEW p \in [0..Len(ms) -> Nat], Frames(S, p, ms),
           NEW k \in 0..Len(ms), p[k] # Len(S)
    PROVE  /\ k < Len(ms) /\ k + 1 \in 1..Len(ms)
           /\ p[k + 1] = p[k] + 2 + Len(ms[k + 1]) /\ p[k + 1] <= Len(S)
           /\ S[p[k] + 1] = HighByte(Len(ms[k + 1]))
           /\ S[p[k] + 2] = LowByte(Len(ms[k + 1]))
           /\ \A j \in 1..Len(ms[k + 1]) : S[p[k] + 2 + j] = ms[k + 1][j]
<1>1. k < Len(ms) /\ k + 1 \in 1..Len(ms) /\ k + 1 \in 0..Len(ms) /\ (k + 1) - 1 = k
  <2>1. Len(ms) \in Nat /\ k # Len(ms)
    BY DEF Frames
  <2>2. QED
    BY <2>1
<1>2. PICK j \in 1..Len(ms) : j = k + 1
  BY <1>1
<1>3. /\ p[j] = p[j - 1] + 2 + Len(ms[j]) /\ p[j] <= Len(S)
      /\ S[p[j - 1] + 1] = HighByte(Len(ms[j]))
      /\ S[p[j - 1] + 2] = LowByte(Len(ms[j]))
      /\ \A i \in 1..Len(ms[j]) : S[p[j - 1] + 2 + i] = ms[j][i]
  BY <1>1, <1>2 DEF Frames
<1>4. j - 1 = k
  BY <1>1, <1>2
<1> QED
  BY <1>1, <1>2, <1>3, <1>4

-----------------------------------------------------------------------------
(* What the program has read *)

LEMMA MessageTypes ==
    /\ \A c \in Commands : c \in Seq(Byte) /\ Len(c) \in 1..Limit - 1 /\ Len(c) \in Nat
    /\ \A a \in Answers : a \in Seq(Byte) /\ Len(a) \in Nat /\ Len(a) > 0
    /\ Commands \subseteq Seq(Byte) /\ Answers \subseteq Seq(Byte)
    /\ TypeOK => sent \in Seq(Seq(Byte)) /\ answers \in Seq(Seq(Byte))
<1>1. /\ \A c \in Commands : c \in Seq(Byte) /\ Len(c) \in 1..Limit - 1
      /\ \A a \in Answers : a \in Seq(Byte) /\ Len(a) > 0
  BY CommandsAssumption, AnswersAssumption
<1>2. \A c \in Seq(Byte) : Len(c) \in Nat
  OBVIOUS
<1>3. Commands \subseteq Seq(Byte) /\ Answers \subseteq Seq(Byte)
  BY <1>1
<1>4. TypeOK => sent \in Seq(Seq(Byte)) /\ answers \in Seq(Seq(Byte))
  BY <1>3, SeqMonotonic DEF TypeOK
<1> QED
  BY <1>1, <1>2, <1>3, <1>4

LEMMA LengthRead ==
    ASSUME TypeOK, TakenAreSent, Incoming, phase = "length", Len(buf) = need
    PROVE  /\ Len(taken) < Len(sent) /\ Len(taken) + 1 \in 1..Len(sent)
           /\ Length(buf) = Len(sent[Len(taken) + 1]) /\ Length(buf) \in 1..Limit - 1
<1>1. PICK S \in Seq(Byte), p \in [0..Len(sent) -> Nat] : Frames(S, p, sent) /\ Reading(S, p)
  BY DEF Incoming
<1>2. PICK k \in 0..Len(sent) : k = Len(taken)
  BY DEF TypeOK, TakenAreSent
<1>3. Len(buf) = 2 /\ p[k] + 2 <= Len(S) /\ \A i \in 1..2 : buf[i] = S[p[k] + i]
  BY <1>1, <1>2 DEF Reading, Slice, BufferAt
<1>4. p[k] \in Nat /\ p[k] # Len(S)
  BY <1>3
<1>5. sent \in Seq(Seq(Byte))
  BY MessageTypes
<1>6. /\ k < Len(sent) /\ k + 1 \in 1..Len(sent)
      /\ S[p[k] + 1] = HighByte(Len(sent[k + 1])) /\ S[p[k] + 2] = LowByte(Len(sent[k + 1]))
  BY <1>1, <1>4, <1>5, NextFrame
<1>7. sent[k + 1] \in Commands
  BY <1>6, ElementOfSeq DEF TypeOK
<1>8. PICK n \in 1..Limit - 1 : n = Len(sent[k + 1])
  BY <1>7, MessageTypes
<1>9. buf[1] = HighByte(n) /\ buf[2] = LowByte(n)
  BY <1>3, <1>6, <1>8
<1>10. n \in Nat /\ n < Limit
  BY <1>8, BaseLimits
<1>11. Length(buf) = n
  BY <1>9, <1>10, LengthBytes DEF Length
<1> QED
  BY <1>2, <1>6, <1>8, <1>11

-----------------------------------------------------------------------------
(* Types *)

\* The types, without the relations between them
LEMMA Types ==
    ASSUME TypeOK
    PROVE  /\ toProgram \in Seq(Byte) /\ fromProgram \in Seq(Byte) /\ inbox \in Seq(Byte)
           /\ buf \in Seq(Byte) /\ out \in Seq(Seq(Byte))
           /\ sent \in Seq(Seq(Byte)) /\ taken \in Seq(Seq(Byte))
           /\ answers \in Seq(Seq(Byte)) /\ delivered \in Seq(Seq(Byte))
           /\ Len(toProgram) \in Nat /\ Len(fromProgram) \in Nat /\ Len(inbox) \in Nat
           /\ Len(buf) \in Nat /\ Len(out) \in Nat /\ Len(sent) \in Nat /\ Len(taken) \in Nat
           /\ Len(answers) \in Nat /\ Len(delivered) \in Nat /\ need \in Nat
<1>1. /\ toProgram \in Seq(Byte) /\ fromProgram \in Seq(Byte) /\ inbox \in Seq(Byte)
      /\ buf \in Seq(Byte) /\ out \in Seq(Seq(Byte))
      /\ sent \in Seq(Seq(Byte)) /\ taken \in Seq(Seq(Byte))
      /\ answers \in Seq(Seq(Byte)) /\ delivered \in Seq(Seq(Byte))
  BY MessageTypes DEF TypeOK
<1>2. need \in Nat
  BY BaseLimits DEF TypeOK
<1>3. \A S : \A s \in Seq(S) : Len(s) \in Nat
  OBVIOUS
<1> QED
  BY <1>1, <1>2, <1>3

LEMMA TwoBytes ==
    ASSUME NEW s \in Seq(Byte), Len(s) >= 2
    PROVE  Length(s) \in Nat
<1>1. s[1] \in Byte /\ s[2] \in Byte
  BY ElementOfSeq
<1>2. PICK x \in Nat, y \in Nat : x = s[1] /\ y = s[2]
  BY <1>1, BaseLimits
<1>3. x * Base \in Nat
  BY BaseLimits
<1> QED
  BY <1>2, <1>3 DEF Length

LEMMA TypeInit == Init => TypeOK
<1> SUFFICES ASSUME Init PROVE TypeOK
  OBVIOUS
<1>1. 2 \in 1..Limit - 1 /\ 0 <= Room
  BY BaseLimits, RoomAssumption
<1>2. \A S : <<>> \in Seq(S) /\ Len(<<>>) = 0
  BY EmptySeq
<1>3. /\ toProgram = <<>> /\ fromProgram = <<>> /\ inbox = <<>> /\ phase = "length"
      /\ need = 2 /\ buf = <<>> /\ out = <<>> /\ closed = FALSE
      /\ sent = <<>> /\ taken = <<>> /\ answers = <<>> /\ delivered = <<>>
  BY DEF Init
<1>4. Len(buf) <= need /\ Len(fromProgram) <= Room
  BY <1>1, <1>2, <1>3
<1> QED
  BY <1>1, <1>2, <1>3, <1>4 DEF TypeOK

LEMMA TypeSend == ASSUME TypeOK, NEW c \in Commands, Send(c) PROVE TypeOK'
<1>1. c \in Seq(Byte) /\ Header(c) \in Seq(Byte)
  BY MessageTypes, HeaderBytes
<1>2. toProgram' = (toProgram \o Header(c)) \o c
  BY DEF Send, Header
<1>3. toProgram' \in Seq(Byte)
  BY <1>1, <1>2, Types
<1>4. sent' \in Seq(Commands)
  BY DEF Send, TypeOK
<1>5. UNCHANGED <<phase, need, buf, out, fromProgram, inbox, closed, taken, answers, delivered>>
  BY DEF Send, programVars
<1> QED
  BY <1>3, <1>4, <1>5 DEF TypeOK

LEMMA TypeDriver == ASSUME TypeOK, NEW n \in 1..Room, DriverReads(n) PROVE TypeOK'
<1>1. n \in 0..Len(fromProgram)
  BY Types, RoomAssumption DEF DriverReads
<1>2. /\ Take(fromProgram, n) \in Seq(Byte) /\ Drop(fromProgram, n) \in Seq(Byte)
      /\ Len(Drop(fromProgram, n)) = Len(fromProgram) - n
  BY <1>1, Types, TakeDrop
<1>3. inbox' \in Seq(Byte) /\ fromProgram' \in Seq(Byte) /\ Len(fromProgram') <= Len(fromProgram)
  BY <1>1, <1>2, Types DEF DriverReads
<1>4. Len(fromProgram') <= Room
  BY <1>3, Types, RoomAssumption DEF TypeOK
<1>5. UNCHANGED <<toProgram, phase, need, buf, out, closed, sent, taken, answers, delivered>>
  BY DEF DriverReads, programVars, history
<1> QED
  BY <1>3, <1>4, <1>5 DEF TypeOK

\* What Deliver takes out of the driver
LEMMA DeliverTakes ==
    ASSUME TypeOK, Deliver
    PROVE  \E len \in Nat, d \in Seq(Byte) :
               /\ len = Length(inbox) /\ 2 + len <= Len(inbox) /\ Len(inbox) >= 2
               /\ Len(d) = len /\ \A i \in 1..len : d[i] = inbox[2 + i]
               /\ delivered' = Append(delivered, d)
               /\ inbox' = Drop(inbox, 2 + len) /\ inbox' \in Seq(Byte)
<1>1. PICK len \in Nat : len = Length(inbox)
  BY Types, TwoBytes DEF Deliver
<1>2. 2 + len <= Len(inbox) /\ Len(inbox) >= 2
  BY <1>1 DEF Deliver
<1>3. PICK d : d = SubSeq(inbox, 3, 2 + len)
  OBVIOUS
<1>4. d \in Seq(Byte) /\ Len(d) = len /\ \A i \in 1..len : d[i] = inbox[2 + i]
  <2>1. \A i \in 3..2 + len : inbox[i] \in Byte
    BY <1>2, Types, ElementOfSeq
  <2>2. /\ d \in Seq(Byte) /\ Len(d) = IF 3 <= 2 + len THEN 2 + len - 3 + 1 ELSE 0
        /\ \A i \in 1..2 + len - 3 + 1 : d[i] = inbox[3 + i - 1]
    BY <1>3, <2>1, SubSeqProperties
  <2>3. Len(d) = len
    BY <2>2
  <2>4. \A i \in 1..len : i \in 1..2 + len - 3 + 1 /\ 3 + i - 1 = 2 + i
    OBVIOUS
  <2>5. QED
    BY <2>2, <2>3, <2>4
<1>5. 2 + len \in 0..Len(inbox)
  BY <1>2, Types
<1>6. Drop(inbox, 2 + len) \in Seq(Byte)
  BY <1>5, Types, TakeDrop
<1> QED
  BY <1>1, <1>2, <1>3, <1>4, <1>6 DEF Deliver

LEMMA TypeDeliver == ASSUME TypeOK, Deliver PROVE TypeOK'
<1>1. PICK d \in Seq(Byte) : delivered' = Append(delivered, d) /\ inbox' \in Seq(Byte)
  BY DeliverTakes
<1>2. UNCHANGED <<toProgram, phase, need, buf, out, fromProgram, closed, sent, taken, answers>>
  BY DEF Deliver, programVars
<1>3. delivered' \in Seq(Seq(Byte))
  BY <1>1, AppendProperties DEF TypeOK
<1> QED
  BY <1>1, <1>2, <1>3 DEF TypeOK

LEMMA TypeClose == ASSUME TypeOK, Close PROVE TypeOK'
<1>1. toProgram' \in Seq(Byte)
  BY Types, TakeDrop DEF Close
<1>2. closed' = TRUE /\ UNCHANGED <<phase, need, buf, out, fromProgram, inbox, sent, taken, answers, delivered>>
  BY DEF Close, programVars, history
<1> QED
  BY <1>1, <1>2 DEF TypeOK

LEMMA TypeRead == ASSUME TypeOK, NEW n \in Nat, Read(n) PROVE TypeOK'
<1>1. n \in 0..Len(toProgram) /\ n <= need - Len(buf)
  BY Types DEF Read
<1>2. PICK t \in Seq(Byte) : t = Take(toProgram, n) /\ Len(t) = n
  BY <1>1, Types, TakeDrop
<1>3. Drop(toProgram, n) \in Seq(Byte)
  BY <1>1, Types, TakeDrop
<1>4. buf' = buf \o t /\ toProgram' = Drop(toProgram, n)
  BY <1>2 DEF Read
<1>5. buf' \in Seq(Byte) /\ Len(buf') <= need
  BY <1>1, <1>2, <1>4, Types
<1>6. UNCHANGED <<phase, need, out, fromProgram, inbox, closed, sent, taken, answers, delivered>>
  BY DEF Read, history
<1> QED
  BY <1>3, <1>4, <1>5, <1>6 DEF TypeOK

LEMMA TypeHaveLength == ASSUME TypeOK, TakenAreSent, Incoming, HaveLength PROVE TypeOK'
<1>1. need' \in 1..Limit - 1 /\ phase' = "body" /\ phase = "length"
  BY LengthRead DEF HaveLength
<1>2. buf' = <<>> /\ buf' \in Seq(Byte) /\ Len(buf') = 0
  BY EmptySeq DEF HaveLength
<1>3. Len(buf') <= need'
  BY <1>1, <1>2, BaseLimits
<1>4. UNCHANGED <<toProgram, out, fromProgram, inbox, closed, sent, taken, answers, delivered>>
  BY DEF HaveLength, history
<1> QED
  BY <1>1, <1>2, <1>3, <1>4 DEF TypeOK

LEMMA TypeHaveBody == ASSUME TypeOK, HaveBody PROVE TypeOK'
<1>1. phase = "body" /\ phase' = "run" /\ taken' \in Seq(Seq(Byte))
  BY AppendProperties DEF TypeOK, HaveBody
<1>2. UNCHANGED <<toProgram, need, buf, out, fromProgram, inbox, closed, sent, answers, delivered>>
  BY DEF HaveBody
<1> QED
  BY <1>1, <1>2 DEF TypeOK

LEMMA TypeEnd == ASSUME TypeOK, EndOfInput \/ WriteFails PROVE TypeOK'
<1>1. phase' = "ended" /\ ((out' = out /\ phase # "write") \/ out' = <<>>)
  BY DEF EndOfInput, WriteFails
<1>2. out' = <<>> /\ out' \in Seq(Seq(Byte))
  BY <1>1, EmptySeq DEF TypeOK
<1>3. UNCHANGED <<toProgram, need, buf, fromProgram, inbox, closed, sent, taken, answers, delivered>>
  BY DEF EndOfInput, WriteFails, history
<1> QED
  BY <1>1, <1>2, <1>3 DEF TypeOK

\* The three buffers of an answer
LEMMA AnswerBuffers ==
    ASSUME NEW a \in Answers, Answer(a)
    PROVE  /\ out' \in Seq(Seq(Byte)) /\ Len(out') = 3 /\ out' # <<>>
           /\ out'[1] = <<HighByte(Len(a))>> /\ out'[2] = <<LowByte(Len(a))>> /\ out'[3] = a
<1>1. PICK h \in Byte, l \in Byte : h = HighByte(Len(a)) /\ l = LowByte(Len(a))
  BY MessageTypes, LengthBytes
<1>2. <<h>> \in Seq(Byte) /\ <<l>> \in Seq(Byte) /\ a \in Seq(Byte)
  BY MessageTypes
<1>3. out' = <<<<h>>, <<l>>, a>>
  BY <1>1 DEF Answer
<1> QED
  BY <1>1, <1>2, <1>3

LEMMA TypeAnswer == ASSUME TypeOK, NEW a \in Answers, Answer(a) PROVE TypeOK'
<1>1. out' \in Seq(Seq(Byte)) /\ out' # <<>> /\ phase' = "write"
  BY AnswerBuffers DEF Answer
<1>2. answers' \in Seq(Answers)
  BY AppendProperties DEF Answer, TypeOK
<1>3. UNCHANGED <<toProgram, need, buf, fromProgram, inbox, closed, sent, taken, delivered>>
  BY DEF Answer
<1> QED
  BY <1>1, <1>2, <1>3 DEF TypeOK

\* What main() has when it reads the next command
LEMMA NextRead ==
    ASSUME ReadNext("length")
    PROVE  /\ phase' = "length" /\ need' = 2 /\ need' \in 1..Limit - 1
           /\ buf' = <<>> /\ buf' \in Seq(Byte) /\ Len(buf') = 0 /\ Len(buf') <= need'
<1>1. phase' = "length" /\ need' = 2 /\ buf' = <<>>
  BY DEF ReadNext
<1>2. 2 \in 1..Limit - 1
  BY BaseLimits
<1>3. buf' \in Seq(Byte) /\ Len(buf') = 0
  BY <1>1, EmptySeq
<1> QED
  BY <1>1, <1>2, <1>3

LEMMA TypeNoAnswer == ASSUME TypeOK, NoAnswer PROVE TypeOK'
<1>1. phase = "run" /\ ReadNext("length")
  BY DEF NoAnswer
<1>2. UNCHANGED <<toProgram, out, fromProgram, inbox, closed, sent, taken, answers, delivered>>
  BY DEF NoAnswer, history
<1> QED
  BY <1>1, <1>2, NextRead DEF TypeOK

\* What a write takes out of the buffers: all of the first one or a part of it
LEMMA WriteTakes ==
    ASSUME TypeOK, NEW n \in Nat, Write(n)
    PROVE  /\ Len(out) > 0 /\ out[1] \in Seq(Byte) /\ n \in 0..Len(out[1]) /\ n > 0
           /\ Len(fromProgram) + n <= Room
           /\ out' \in Seq(Seq(Byte))
           /\ fromProgram' = fromProgram \o Take(out[1], n)
           /\ \/ /\ n = Len(out[1]) /\ Len(out') = Len(out) - 1
                 /\ \A k \in 1..Len(out) - 1 : out'[k] = out[k + 1]
              \/ /\ n < Len(out[1]) /\ Len(out') = Len(out)
                 /\ out'[1] = Drop(out[1], n)
                 /\ \A k \in 2..Len(out) : out'[k] = out[k]
<1>1. phase = "write" /\ out # <<>> /\ out \in Seq(Seq(Byte))
  BY DEF Write, TypeOK
<1>2. Len(out) > 0 /\ Len(out) \in Nat
  BY <1>1, EmptySeq
<1>3. PICK h \in Seq(Byte) : h = Head(out) /\ h = out[1]
  BY <1>1, <1>2
<1>4. /\ n \in 1..Len(h) /\ Len(fromProgram) + n <= Room
      /\ fromProgram' = fromProgram \o Take(h, n)
      /\ out' = IF n = Len(h) THEN Tail(out) ELSE <<Drop(h, n)>> \o Tail(out)
  BY <1>3 DEF Write
<1>5. PICK t \in Seq(Seq(Byte)) : /\ t = Tail(out) /\ Len(t) = Len(out) - 1
                                  /\ \A k \in 1..Len(out) - 1 : t[k] = out[k + 1]
  <2>1. PICK t : t = Tail(out)
    OBVIOUS
  <2>2. /\ t \in Seq(Seq(Byte)) /\ Len(t) = Len(out) - 1
        /\ \A k \in 1..Len(t) : t[k] = out[k + 1]
    BY ONLY <1>1, <2>1, HeadTailProperties
  <2>3. QED
    BY <2>1, <2>2
<1>6. n \in 0..Len(h) /\ n > 0
  BY <1>4
<1>7. CASE n = Len(h)
  <2>1. out' = t
    BY <1>4, <1>5, <1>7
  <2>2. QED
    BY <1>2, <1>3, <1>4, <1>5, <1>6, <1>7, <2>1
<1>8. CASE n < Len(h)
  <2>1. PICK d \in Seq(Byte) : d = Drop(h, n)
    BY <1>6, TakeDrop
  <2>2. out' = <<d>> \o t
    BY <1>4, <1>5, <1>8, <2>1
  <2>3. /\ out' \in Seq(Seq(Byte)) /\ Len(out') = 1 + Len(t) /\ out'[1] = d
        /\ \A k \in 1..Len(t) : out'[k + 1] = t[k]
    BY <2>2, Prepended
  <2>4. ASSUME NEW k \in 2..Len(out) PROVE out'[k] = out[k]
    <3>1. PICK j \in 1..Len(out) - 1 : j = k - 1
      BY <1>2
    <3>2. j + 1 = k /\ j \in 1..Len(t)
      BY <1>5, <3>1
    <3>3. out'[j + 1] = t[j] /\ t[j] = out[j + 1]
      BY <1>5, <2>3, <3>2
    <3>4. QED
      BY <3>2, <3>3
  <2>5. Len(out') = Len(out)
    BY <1>2, <1>5, <2>3
  <2>6. QED
    BY <1>2, <1>3, <1>4, <1>6, <1>8, <2>1, <2>3, <2>4, <2>5
<1>9. n = Len(h) \/ n < Len(h)
  BY <1>4
<1> QED
  BY <1>7, <1>8, <1>9

LEMMA TypeWrite == ASSUME TypeOK, NEW n \in Nat, Write(n) PROVE TypeOK'
<1>1. /\ out[1] \in Seq(Byte) /\ n \in 0..Len(out[1]) /\ Len(fromProgram) + n <= Room
      /\ out' \in Seq(Seq(Byte)) /\ fromProgram' = fromProgram \o Take(out[1], n)
  BY WriteTakes
<1>2. PICK t \in Seq(Byte) : t = Take(out[1], n) /\ Len(t) = n
  BY <1>1, TakeDrop
<1>3. fromProgram' \in Seq(Byte) /\ Len(fromProgram') = Len(fromProgram) + n
  <2>1. fromProgram \in Seq(Byte) /\ fromProgram' = fromProgram \o t
    BY <1>1, <1>2, Types
  <2>2. fromProgram' \in Seq(Byte) /\ Len(fromProgram') = Len(fromProgram) + Len(t)
    BY ONLY <2>1, t \in Seq(Byte), Concatenation
  <2>3. QED
    BY <1>2, <2>2
<1>4. /\ phase = "write"
      /\ out' = <<>> => ReadNext("length")
      /\ out' # <<>> => phase' = "write" /\ need' = need /\ buf' = buf
      /\ UNCHANGED <<toProgram, inbox, closed, sent, taken, answers, delivered>>
  BY DEF Write, programVars, history
<1>5. CASE out' = <<>>
  BY <1>1, <1>3, <1>4, <1>5, NextRead DEF TypeOK
<1>6. CASE out' # <<>>
  BY <1>1, <1>3, <1>4, <1>6 DEF TypeOK
<1> QED
  BY <1>5, <1>6

LEMMA TypeStep == TypeOK /\ TakenAreSent /\ Incoming /\ [Next]_vars => TypeOK'
<1> SUFFICES ASSUME TypeOK, TakenAreSent, Incoming, [Next]_vars PROVE TypeOK'
  OBVIOUS
<1>1. ASSUME UNCHANGED vars PROVE TypeOK'
  BY <1>1 DEF vars, programVars, history, TypeOK
<1>2. 1..Room \subseteq Nat /\ 1..Limit \subseteq Nat
  BY BaseLimits, RoomAssumption
<1>3. CASE DriverSome
  BY <1>3, TypeDriver DEF DriverSome
<1>4. CASE ReadSome
  BY <1>2, <1>4, TypeRead DEF ReadSome
<1>5. CASE WriteSome
  BY <1>2, <1>5, TypeWrite DEF WriteSome
<1>6. CASE Reply
  BY <1>6, TypeAnswer, TypeNoAnswer DEF Reply
<1> QED
  BY <1>1, <1>3, <1>4, <1>5, <1>6, TypeSend, TypeDeliver, TypeClose, TypeHaveLength,
     TypeHaveBody, TypeEnd DEF Next

-----------------------------------------------------------------------------
(* Commands *)

LEMMA NoFrames ==
    \E S \in Seq(Byte), p \in [0..0 -> Nat] :
        S = <<>> /\ Frames(S, p, <<>>) /\ p[0] = 0
<1> DEFINE p == [k \in 0..0 |-> 0]
<1>1. p \in [0..0 -> Nat] /\ p[0] = 0
  OBVIOUS
<1> HIDE DEF p
<1>2. PICK S \in Seq(Byte) : S = <<>> /\ Len(S) = 0
  BY EmptySeq
<1>3. Len(<<>>) = 0 /\ 1..0 = {} /\ 0..0 = {0}
  BY EmptySeq
<1>4. Frames(S, p, <<>>)
  BY <1>1, <1>2, <1>3 DEF Frames
<1> QED
  BY <1>1, <1>2, <1>4

LEMMA EmptySlice ==
    ASSUME NEW S \in Seq(Byte), NEW n \in Nat, n <= Len(S)
    PROVE  Slice(S, n, <<>>)
<1>1. Len(<<>>) = 0 /\ 1..0 = {}
  BY EmptySeq
<1> QED
  BY <1>1 DEF Slice

\* The frames of the commands, and where the program is in them
LEMMA Position ==
    ASSUME TypeOK, TakenAreSent, Incoming
    PROVE  \E S \in Seq(Byte), p \in [0..Len(sent) -> Nat], f \in Nat :
               /\ Frames(S, p, sent) /\ Reading(S, p)
               /\ f = p[Len(taken)] /\ f <= Len(S) /\ Len(taken) \in 0..Len(sent)
               /\ BufferAt(p) \in Nat /\ ReadTo(p) \in Nat
<1>1. PICK S \in Seq(Byte), p \in [0..Len(sent) -> Nat] : Frames(S, p, sent) /\ Reading(S, p)
  BY DEF Incoming
<1>2. Len(taken) \in 0..Len(sent)
  BY Types DEF TakenAreSent
<1>3. p[Len(taken)] \in Nat /\ p[Len(taken)] <= Len(S)
  BY <1>1, <1>2 DEF Frames
<1>4. BufferAt(p) \in Nat
  BY <1>3 DEF BufferAt
<1>5. ReadTo(p) \in Nat
  <2>1. Len(buf) \in Nat
    BY Types
  <2>2. QED
    BY <1>4, <2>1 DEF ReadTo, After
<1> QED
  BY <1>1, <1>2, <1>3, <1>4, <1>5

\* A step that leaves alone what this is about
LEMMA IncomingStays ==
    ASSUME TakenAreSent, Incoming, UNCHANGED <<sent, taken>>,
           \/ UNCHANGED <<phase, need, buf, toProgram, closed>>
           \/ phase = "run" /\ phase' = "write" /\ UNCHANGED <<need, buf, toProgram, closed>>
           \/ phase' = "ended"
    PROVE  TakenAreSent' /\ Incoming'
<1>1. TakenAreSent'
  BY DEF TakenAreSent
<1>2. PICK S \in Seq(Byte), p \in [0..Len(sent) -> Nat] : Frames(S, p, sent) /\ Reading(S, p)
  BY DEF Incoming
<1>3. CASE UNCHANGED <<phase, need, buf, toProgram, closed>>
  <2>1. Reading(S, p)'
    BY <1>2, <1>3 DEF Reading, BufferAt, ReadTo, After
  <2>2. QED
    BY <1>1, <1>2, <2>1 DEF Incoming
<1>4. CASE phase = "run" /\ phase' = "write" /\ UNCHANGED <<need, buf, toProgram, closed>>
  <2>1. ReadTo(p)' = ReadTo(p)
    BY <1>4 DEF ReadTo
  <2>2. Reading(S, p)'
    BY <1>2, <1>4, <2>1 DEF Reading, After
  <2>3. QED
    BY <1>1, <1>2, <2>2 DEF Incoming
<1>5. CASE phase' = "ended"
  <2>1. Reading(S, p)'
    BY <1>5 DEF Reading
  <2>2. QED
    BY <1>1, <1>2, <2>1 DEF Incoming
<1> QED
  BY <1>3, <1>4, <1>5

\* The program turns to the next command.
LEMMA IncomingNextRead ==
    ASSUME TypeOK, TakenAreSent, Incoming, phase \in {"run", "write"}, ReadNext("length"),
           UNCHANGED <<sent, taken, toProgram, closed>>
    PROVE  TakenAreSent' /\ Incoming'
<1>1. TakenAreSent'
  BY DEF TakenAreSent
<1>2. PICK S \in Seq(Byte), p \in [0..Len(sent) -> Nat], f \in Nat :
          Frames(S, p, sent) /\ Reading(S, p) /\ f = p[Len(taken)] /\ f <= Len(S)
  BY Position
<1>3. phase' = "length" /\ need' = 2 /\ buf' = <<>> /\ Len(buf') = 0
  BY NextRead
<1>4. BufferAt(p)' = f + 0 /\ ReadTo(p) = f
  BY <1>2, <1>3 DEF BufferAt, ReadTo
<1>5. BufferAt(p)' = f /\ ReadTo(p)' = f
  <2>1. BufferAt(p)' = f
    BY <1>4
  <2>2. ReadTo(p)' = f + 0
    BY <1>3, <2>1 DEF ReadTo, After
  <2>3. QED
    BY <2>1, <2>2
<1>6. Slice(S, f, buf')
  BY <1>2, <1>3, EmptySlice
<1>7. Slice(S, f, toProgram') /\ (~closed' => f + Len(toProgram') = Len(S))
  BY <1>2, <1>4 DEF Reading, After
<1>8. Reading(S, p)'
  BY <1>2, <1>3, <1>5, <1>6, <1>7 DEF Reading, After
<1> QED
  BY <1>1, <1>2, <1>8 DEF Incoming

LEMMA IncomingClose ==
    ASSUME TypeOK, TakenAreSent, Incoming, Close PROVE TakenAreSent' /\ Incoming'
<1>1. /\ closed' = TRUE
      /\ UNCHANGED <<phase, need, buf, sent, taken>>
      /\ \E n \in 0..Len(toProgram) : toProgram' = Take(toProgram, n)
  BY DEF Close, programVars, history
<1>2. TakenAreSent'
  BY <1>1 DEF TakenAreSent
<1>3. PICK S \in Seq(Byte), p \in [0..Len(sent) -> Nat], f \in Nat :
          Frames(S, p, sent) /\ Reading(S, p) /\ ReadTo(p) \in Nat
  BY Position
<1>4. ReadTo(p)' = ReadTo(p) /\ BufferAt(p)' = BufferAt(p)
  BY <1>1 DEF ReadTo, BufferAt, After
<1>5. phase # "ended" => Slice(S, ReadTo(p), toProgram')
  BY <1>1, <1>3, Types, SliceCut DEF Reading
<1>6. Reading(S, p)'
  BY <1>1, <1>3, <1>4, <1>5 DEF Reading
<1> QED
  BY <1>1, <1>2, <1>3, <1>6 DEF Incoming

LEMMA IncomingSend ==
    ASSUME TypeOK, TakenAreSent, Incoming, EndsOnlyWhenClosed, NEW c \in Commands, Send(c)
    PROVE  TakenAreSent' /\ Incoming'
<1>1. /\ ~closed /\ sent' = Append(sent, c) /\ c \in Seq(Byte)
      /\ toProgram' = (toProgram \o Header(c)) \o c
      /\ UNCHANGED <<phase, need, buf, closed, taken>>
  BY MessageTypes DEF Send, Header, programVars
<1>2. /\ Len(sent') = Len(sent) + 1 /\ Len(sent) \in Nat /\ Len(taken) \in Nat
      /\ \A i \in 1..Len(sent) : sent'[i] = sent[i]
  BY <1>1, Types, AppendProperties
<1>3. TakenAreSent'
  BY <1>1, <1>2 DEF TakenAreSent
<1>4. PICK S \in Seq(Byte), p \in [0..Len(sent) -> Nat], f \in Nat :
          /\ Frames(S, p, sent) /\ Reading(S, p) /\ f = p[Len(taken)] /\ f <= Len(S)
          /\ Len(taken) \in 0..Len(sent) /\ BufferAt(p) \in Nat /\ ReadTo(p) \in Nat
  BY Position
<1>5. PICK T \in Seq(Byte), q \in [0..Len(sent') -> Nat] :
          /\ Frames(T, q, sent') /\ Begins(S, T) /\ \A k \in 0..Len(sent) : q[k] = p[k]
          /\ Len(T) = Len(S) + 2 + Len(c)
          /\ Slice(T, Len(S), Header(c)) /\ Slice(T, Len(S) + 2, c)
  BY <1>1, <1>4, Types, OneMoreFrame
<1>6. q[Len(taken)] = p[Len(taken)]
  BY <1>4, <1>5
<1>7. BufferAt(q)' = BufferAt(p) /\ ReadTo(q)' = ReadTo(p)
  BY <1>1, <1>6 DEF BufferAt, ReadTo, After
<1>8. /\ phase # "ended" /\ Slice(S, ReadTo(p), toProgram)
      /\ After(ReadTo(p), toProgram) = Len(S)
      /\ phase \in {"length", "body"} => Slice(S, BufferAt(p), buf)
      /\ phase = "length" => need = 2
      /\ phase = "body" => Len(taken) < Len(sent) /\ need = Len(sent[Len(taken) + 1])
  BY <1>1, <1>4 DEF Reading, EndsOnlyWhenClosed
<1>9. PICK r \in Nat : r = ReadTo(p)
  BY <1>4
<1>10. PICK h \in Seq(Byte) : h = Header(c) /\ Len(h) = 2
  BY <1>1, HeaderBytes
<1>11. PICK m \in Nat : m = Len(S)
  OBVIOUS
<1>12. After(r, toProgram) = m /\ After(m, h) = m + 2
  BY <1>8, <1>9, <1>10, <1>11 DEF After
<1>13. /\ Slice(T, r, toProgram)
       /\ phase \in {"length", "body"} => Slice(T, BufferAt(p), buf)
  BY <1>4, <1>5, <1>8, <1>9, Types, SliceOfMore
<1>14. Slice(T, After(r, toProgram), h) /\ Slice(T, After(After(r, toProgram), h), c)
  BY <1>5, <1>10, <1>11, <1>12
<1>15. toProgram \in Seq(Byte) /\ c \in Seq(Byte) /\ toProgram' = (toProgram \o h) \o c
  BY <1>1, <1>10, Types
<1>16. Slice(T, r, toProgram') /\ After(r, toProgram') = After(After(After(r, toProgram), h), c)
  BY ONLY <1>13, <1>14, <1>15, SliceJoinTwo
<1>17. After(r, toProgram') = Len(T)
  BY ONLY <1>5, <1>11, <1>12, <1>16 DEF After
<1>18. phase = "body" => Len(taken) < Len(sent') /\ need = Len(sent'[Len(taken) + 1])
  <2>1. Len(taken) < Len(sent) => Len(taken) + 1 \in 1..Len(sent) /\ Len(taken) < Len(sent')
    BY ONLY <1>2
  <2>2. QED
    BY <1>2, <1>8, <2>1
<1>19. Reading(T, q)'
  BY <1>1, <1>7, <1>8, <1>9, <1>13, <1>16, <1>17, <1>18 DEF Reading
<1> QED
  BY <1>3, <1>5, <1>19 DEF Incoming

LEMMA IncomingRead ==
    ASSUME TypeOK, TakenAreSent, Incoming, NEW n \in Nat, Read(n)
    PROVE  TakenAreSent' /\ Incoming'
<1>1. /\ phase \in {"length", "body"} /\ n \in 0..Len(toProgram)
      /\ buf' = buf \o Take(toProgram, n) /\ toProgram' = Drop(toProgram, n)
      /\ UNCHANGED <<phase, need, closed, sent, taken>>
  BY Types DEF Read, history
<1>2. TakenAreSent'
  BY <1>1 DEF TakenAreSent
<1>3. PICK S \in Seq(Byte), p \in [0..Len(sent) -> Nat], f \in Nat :
          Frames(S, p, sent) /\ Reading(S, p) /\ BufferAt(p) \in Nat
  BY Position
<1>4. PICK b \in Nat : b = BufferAt(p) /\ b = BufferAt(p)'
  BY <1>1, <1>3 DEF BufferAt
<1>5. ReadTo(p) = After(b, buf) /\ ReadTo(p)' = After(b, buf')
  BY <1>1, <1>4 DEF ReadTo, After
<1>6. /\ Slice(S, b, buf) /\ Slice(S, After(b, buf), toProgram)
      /\ ~closed => After(After(b, buf), toProgram) = Len(S)
  BY <1>1, <1>3, <1>4, <1>5 DEF Reading
<1>7. buf \in Seq(Byte) /\ toProgram \in Seq(Byte)
  BY Types
<1>8. /\ Slice(S, b, buf') /\ Slice(S, After(b, buf'), toProgram')
      /\ After(After(b, buf'), toProgram') = After(After(b, buf), toProgram)
  BY ONLY <1>1, <1>6, <1>7, SliceMoves
<1>9. Reading(S, p)'
  BY <1>1, <1>3, <1>4, <1>5, <1>6, <1>8 DEF Reading
<1> QED
  BY <1>1, <1>2, <1>3, <1>9 DEF Incoming

LEMMA IncomingHaveLength ==
    ASSUME TypeOK, TakenAreSent, Incoming, HaveLength PROVE TakenAreSent' /\ Incoming'
<1>1. /\ phase = "length" /\ Len(buf) = need /\ phase' = "body" /\ need' = Length(buf)
      /\ buf' = <<>> /\ Len(buf') = 0
      /\ UNCHANGED <<toProgram, closed, sent, taken>>
  BY EmptySeq DEF HaveLength, history
<1>2. TakenAreSent'
  BY <1>1 DEF TakenAreSent
<1>3. PICK S \in Seq(Byte), p \in [0..Len(sent) -> Nat], f \in Nat :
          Frames(S, p, sent) /\ Reading(S, p) /\ f = p[Len(taken)]
  BY Position
<1>4. Len(taken) < Len(sent) /\ need' = Len(sent[Len(taken) + 1])
  BY <1>1, LengthRead
<1>5. BufferAt(p) = f /\ BufferAt(p)' = f + 2
  BY <1>1, <1>3 DEF BufferAt
<1>6. Len(buf) = 2 /\ Slice(S, f, buf)
  BY <1>1, <1>3, <1>5 DEF Reading
<1>7. f + 2 <= Len(S)
  BY <1>6 DEF Slice
<1>8. Slice(S, f + 2, buf')
  BY <1>1, <1>7, EmptySlice
<1>9. ReadTo(p) = f + 2 /\ ReadTo(p)' = f + 2
  BY <1>1, <1>5, <1>6 DEF ReadTo, After
<1>10. Slice(S, f + 2, toProgram) /\ (~closed => After(f + 2, toProgram) = Len(S))
  BY <1>1, <1>3, <1>9 DEF Reading
<1>11. Reading(S, p)'
  BY <1>1, <1>4, <1>5, <1>8, <1>9, <1>10 DEF Reading, After
<1> QED
  BY <1>1, <1>2, <1>3, <1>11 DEF Incoming

\* The body that is complete is the next command.
LEMMA BodyIsNext ==
    ASSUME TypeOK, TakenAreSent, Incoming, HaveBody
    PROVE  /\ Len(taken) < Len(sent) /\ buf = sent[Len(taken) + 1]
           /\ TakenAreSent' /\ Incoming'
<1>1. /\ phase = "body" /\ Len(buf) = need /\ phase' = "run" /\ taken' = Append(taken, buf)
      /\ UNCHANGED <<toProgram, need, buf, closed, sent>>
  BY DEF HaveBody
<1>2. PICK S \in Seq(Byte), p \in [0..Len(sent) -> Nat], f \in Nat :
          /\ Frames(S, p, sent) /\ Reading(S, p) /\ f = p[Len(taken)]
          /\ Len(taken) \in 0..Len(sent)
  BY Position
<1>3. PICK k \in 0..Len(sent) : k = Len(taken)
  BY <1>2
<1>4. BufferAt(p) = f + 2
  BY <1>1, <1>2 DEF BufferAt
<1>5. /\ k < Len(sent) /\ k + 1 \in 1..Len(sent) /\ k + 1 \in 0..Len(sent)
      /\ Len(buf) = Len(sent[k + 1]) /\ Slice(S, f + 2, buf)
  <2>1. k < Len(sent) /\ need = Len(sent[k + 1]) /\ Slice(S, f + 2, buf)
    BY <1>1, <1>2, <1>3, <1>4 DEF Reading
  <2>2. Len(sent) \in Nat /\ k \in Nat
    BY Types
  <2>3. k + 1 \in 1..Len(sent) /\ k + 1 \in 0..Len(sent)
    BY ONLY <2>1, <2>2
  <2>4. QED
    BY <1>1, <2>1, <2>3
<1>6. p[k] = f /\ p[k] # Len(S)
  <2>1. p[k] = f
    BY <1>2, <1>3
  <2>2. f + 2 + Len(buf) <= Len(S)
    BY <1>5 DEF Slice
  <2>3. Len(buf) \in Nat /\ Len(S) \in Nat
    BY Types, LenProperties
  <2>4. f # Len(S)
    BY ONLY <2>2, <2>3, f \in Nat
  <2>5. QED
    BY <2>1, <2>4
<1>7. /\ p[k + 1] = f + 2 + Len(sent[k + 1])
      /\ \A j \in 1..Len(sent[k + 1]) : S[f + 2 + j] = sent[k + 1][j]
  <2>1. sent \in Seq(Seq(Byte)) /\ Frames(S, p, sent) /\ p[k] # Len(S)
    BY <1>2, <1>6, Types
  <2>2. QED
    BY ONLY <1>6, <2>1, S \in Seq(Byte), p \in [0..Len(sent) -> Nat], k \in 0..Len(sent), NextFrame
<1>8. sent[k + 1] \in Seq(Byte)
  BY <1>5, Types, ElementOfSeq
<1>9. buf = sent[k + 1]
  <2>1. \A j \in 1..Len(buf) : buf[j] = sent[k + 1][j]
    BY <1>5, <1>7 DEF Slice
  <2>2. QED
    BY <1>5, <1>8, <2>1, Types, SeqEqual
<1>10. Len(taken') = k + 1 /\ taken'[k + 1] = buf /\ \A i \in 1..k : taken'[i] = taken[i]
  BY <1>1, <1>3, Types, AppendProperties
<1>11. TakenAreSent'
  <2>1. \A i \in 1..k + 1 : i \in 1..k \/ i = k + 1
    OBVIOUS
  <2>2. QED
    BY <1>1, <1>3, <1>5, <1>9, <1>10, <2>1 DEF TakenAreSent
<1>12. ReadTo(p)' = ReadTo(p)
  <2>1. ReadTo(p)' = p[k + 1]
    BY <1>1, <1>10 DEF ReadTo
  <2>2. ReadTo(p) = f + 2 + Len(buf)
    BY <1>1, <1>4 DEF ReadTo, After
  <2>3. QED
    BY ONLY <1>7, <1>9, <2>1, <2>2
<1>13. Reading(S, p)'
  BY <1>1, <1>2, <1>12 DEF Reading, After
<1> QED
  BY <1>1, <1>2, <1>3, <1>5, <1>9, <1>11, <1>13 DEF Incoming

\* What read returns 0 for is the end of the pipe.
LEMMA EndIsClosed ==
    ASSUME TypeOK, TakenAreSent, Incoming, EndOfInput PROVE closed
<1>1. ~(phase = "length" /\ Len(buf) = need /\ Length(buf) = 0)
  BY LengthRead
<1> QED
  BY <1>1 DEF EndOfInput

-----------------------------------------------------------------------------
(* Answers *)

\* The frames of the answers, and where the driver is in them
LEMMA AnswerPosition ==
    ASSUME TypeOK, DeliveredAreAnswers, Outgoing, ~closed, InStep
    PROVE  \E S \in Seq(Byte), p \in [0..Len(answers) -> Nat], d \in 0..Len(answers), b \in Nat :
               /\ Frames(S, p, answers) /\ d = Len(delivered) /\ b = p[d] /\ Following(S, b)
<1>1. PICK S \in Seq(Byte), p \in [0..Len(answers) -> Nat] :
          Frames(S, p, answers) /\ Following(S, p[Len(delivered)])
  BY DEF Outgoing
<1>2. Len(delivered) \in 0..Len(answers)
  BY Types DEF DeliveredAreAnswers
<1>3. p[Len(delivered)] \in Nat
  BY <1>2
<1> QED
  BY <1>1, <1>2, <1>3

\* A step that leaves alone what this is about, and the end of it
LEMMA OutgoingStays ==
    ASSUME DeliveredAreAnswers, Outgoing, UNCHANGED <<answers, delivered>>,
           closed' \/ UNCHANGED <<inbox, fromProgram, out, closed>>
    PROVE  DeliveredAreAnswers' /\ Outgoing'
<1>1. InStep' = InStep
  BY DEF InStep
<1>2. DeliveredAreAnswers'
  BY <1>1 DEF DeliveredAreAnswers
<1>3. CASE closed'
  BY <1>2, <1>3 DEF Outgoing
<1>4. CASE UNCHANGED <<inbox, fromProgram, out, closed>>
  <2>1. ASSUME ~closed', InStep',
               NEW S \in Seq(Byte), NEW p \in [0..Len(answers) -> Nat],
               Frames(S, p, answers), Following(S, p[Len(delivered)])
        PROVE  Following(S, p[Len(delivered)])'
    BY <1>4, <2>1 DEF Following, Writing, After
  <2>2. Outgoing'
    BY <1>1, <1>4, <2>1 DEF Outgoing
  <2>3. QED
    BY <1>2, <2>2
<1> QED
  BY <1>3, <1>4

\* More answers and more deliveries only make the condition stronger.
LEMMA InStepBefore ==
    ASSUME Len(answers) \in Nat, Len(delivered) \in Nat,
           Len(answers) <= Len(answers'), \A i \in 1..Len(answers) : answers'[i] = answers[i],
           Len(delivered) <= Len(delivered'), Len(answers') \in Nat, Len(delivered') \in Nat, InStep'
    PROVE  InStep
<1>1. ASSUME NEW i \in 1..Len(answers), i <= Len(delivered) PROVE Fits(answers[i])
  <2>1. i \in 1..Len(answers') /\ i <= Len(delivered')
    BY <1>1
  <2>2. Fits(answers'[i])
    BY <2>1 DEF InStep
  <2>3. QED
    BY <2>2
<1> QED
  BY <1>1 DEF InStep

LEMMA OutgoingDriver ==
    ASSUME TypeOK, DeliveredAreAnswers, Outgoing, NEW n \in 1..Room, DriverReads(n)
    PROVE  DeliveredAreAnswers' /\ Outgoing'
<1>1. /\ ~closed /\ n \in 0..Len(fromProgram)
      /\ inbox' = inbox \o Take(fromProgram, n) /\ fromProgram' = Drop(fromProgram, n)
      /\ UNCHANGED <<out, closed, answers, delivered>>
  BY Types, RoomAssumption DEF DriverReads, history
<1>2. InStep' = InStep
  BY <1>1 DEF InStep
<1>3. DeliveredAreAnswers'
  BY <1>1, <1>2 DEF DeliveredAreAnswers
<1>4. ASSUME InStep PROVE Outgoing'
  <2>1. PICK S \in Seq(Byte), p \in [0..Len(answers) -> Nat], d \in 0..Len(answers), b \in Nat :
            Frames(S, p, answers) /\ d = Len(delivered) /\ b = p[d] /\ Following(S, b)
    BY <1>1, <1>4, AnswerPosition
  <2>2. inbox \in Seq(Byte) /\ fromProgram \in Seq(Byte)
    BY Types
  <2>3. /\ Slice(S, b, inbox) /\ Slice(S, After(b, inbox), fromProgram)
        /\ Writing(S, After(After(b, inbox), fromProgram))
    BY <2>1 DEF Following
  <2>4. /\ Slice(S, b, inbox') /\ Slice(S, After(b, inbox'), fromProgram')
        /\ After(After(b, inbox'), fromProgram') = After(After(b, inbox), fromProgram)
    BY ONLY <1>1, <2>2, <2>3, SliceMoves
  <2>5. PICK w : w = After(After(b, inbox), fromProgram) /\ Writing(S, w)
    BY <2>3
  <2>6. Writing(S, w)'
    BY <1>1, <2>5 DEF Writing
  <2>7. Following(S, b)'
    BY <2>4, <2>5, <2>6 DEF Following, Writing, After
  <2>8. QED
    BY <1>1, <2>1, <2>7 DEF Outgoing
<1> QED
  BY <1>2, <1>3, <1>4 DEF Outgoing

\* What is delivered while the answers are in step begins with the length of
\* the next answer, and if that answer fits it is what is delivered.
LEMMA DeliverIsNext ==
    ASSUME TypeOK, DeliveredAreAnswers, Outgoing, InStep, Deliver
    PROVE  /\ Len(delivered) < Len(answers) /\ Len(delivered) + 1 \in 1..Len(answers)
           /\ Fits(answers[Len(delivered) + 1]) =>
                 /\ delivered' = Append(delivered, answers[Len(delivered) + 1])
                 /\ DeliveredAreAnswers' /\ Outgoing'
<1>1. ~closed /\ UNCHANGED <<fromProgram, out, closed, answers>>
  BY DEF Deliver
<1>2. PICK len \in Nat, m \in Seq(Byte) :
          /\ len = Length(inbox) /\ 2 + len <= Len(inbox) /\ Len(inbox) >= 2
          /\ Len(m) = len /\ \A i \in 1..len : m[i] = inbox[2 + i]
          /\ delivered' = Append(delivered, m)
          /\ inbox' = Drop(inbox, 2 + len) /\ inbox' \in Seq(Byte)
  BY DeliverTakes
<1>3. PICK S \in Seq(Byte), p \in [0..Len(answers) -> Nat], d \in 0..Len(answers), b \in Nat :
          Frames(S, p, answers) /\ d = Len(delivered) /\ b = p[d] /\ Following(S, b)
  BY <1>1, AnswerPosition
<1>4. inbox \in Seq(Byte) /\ Len(inbox) \in Nat /\ Len(S) \in Nat /\ answers \in Seq(Seq(Byte))
  BY Types
<1>5. /\ b + Len(inbox) <= Len(S) /\ \A i \in 1..Len(inbox) : inbox[i] = S[b + i]
      /\ Slice(S, b, inbox)
  BY <1>3 DEF Following, Slice
<1>6. p[d] # Len(S)
  <2>1. b # Len(S)
    BY ONLY <1>2, <1>4, <1>5, b \in Nat
  <2>2. QED
    BY <1>3, <2>1
<1>7. /\ d < Len(answers) /\ d + 1 \in 1..Len(answers)
      /\ p[d + 1] = b + 2 + Len(answers[d + 1])
      /\ S[b + 1] = HighByte(Len(answers[d + 1])) /\ S[b + 2] = LowByte(Len(answers[d + 1]))
      /\ \A j \in 1..Len(answers[d + 1]) : S[b + 2 + j] = answers[d + 1][j]
  <2>1. /\ d < Len(answers) /\ d + 1 \in 1..Len(answers)
        /\ p[d + 1] = p[d] + 2 + Len(answers[d + 1])
        /\ S[p[d] + 1] = HighByte(Len(answers[d + 1]))
        /\ S[p[d] + 2] = LowByte(Len(answers[d + 1]))
        /\ \A j \in 1..Len(answers[d + 1]) : S[p[d] + 2 + j] = answers[d + 1][j]
    <3>1. Frames(S, p, answers)
      BY <1>3
    <3>2. QED
      BY ONLY <3>1, <1>4, <1>6, S \in Seq(Byte), p \in [0..Len(answers) -> Nat],
              d \in 0..Len(answers), NextFrame
  <2>2. p[d] = b
    BY <1>3
  <2>3. QED
    BY ONLY <2>1, <2>2
<1>8. PICK a \in Seq(Byte) : a = answers[d + 1] /\ Len(a) \in Nat
  <2>1. answers[d + 1] \in Seq(Byte)
    BY <1>4, <1>7, ElementOfSeq
  <2>2. QED
    BY <2>1
<1>9. ASSUME Fits(a)
      PROVE  /\ m = a /\ delivered' = Append(delivered, a)
             /\ DeliveredAreAnswers' /\ Outgoing'
  <2>1. inbox[1] = HighByte(Len(a)) /\ inbox[2] = LowByte(Len(a))
    <3>1. 1 \in 1..Len(inbox) /\ 2 \in 1..Len(inbox)
      BY ONLY <1>2, <1>4
    <3>2. QED
      BY <1>5, <1>7, <1>8, <3>1
  <2>2. len = Len(a)
    BY <1>2, <1>8, <1>9, <2>1, LengthBytes DEF Length, Fits
  <2>3. \A i \in 1..len : m[i] = a[i]
    <3>1. ASSUME NEW i \in 1..len PROVE m[i] = a[i]
      <4>1. 2 + i \in 1..Len(inbox) /\ b + (2 + i) = b + 2 + i
        BY ONLY <1>2, <1>4, i \in 1..len, b \in Nat, len \in Nat
      <4>2. m[i] = S[b + 2 + i]
        BY <1>2, <1>5, <4>1
      <4>3. QED
        BY <1>7, <1>8, <2>2, <4>2
    <3>2. QED
      BY <3>1
  <2>4. m = a
    BY <1>2, <2>2, <2>3, SeqEqual
  <2>5. /\ Len(delivered') = d + 1 /\ delivered'[d + 1] = a
        /\ \A i \in 1..d : delivered'[i] = delivered[i]
    <3>1. delivered \in Seq(Seq(Byte)) /\ delivered' = Append(delivered, a)
      BY <1>2, <2>4, Types
    <3>2. QED
      BY <1>3, <3>1, AppendProperties
  <2>6. DeliveredAreAnswers'
    <3>1. \A i \in 1..d : delivered[i] = answers[i]
      BY <1>3 DEF DeliveredAreAnswers
    <3>2. \A i \in 1..d + 1 : i \in 1..d \/ i = d + 1
      OBVIOUS
    <3>3. Len(delivered') <= Len(answers')
      BY <1>1, <1>7, <2>5
    <3>4. \A i \in 1..Len(delivered') : delivered'[i] = answers'[i]
      BY <1>1, <1>8, <2>5, <3>1, <3>2
    <3>5. QED
      BY <3>3, <3>4 DEF DeliveredAreAnswers
  <2>7. PICK e \in Nat : e = b + (2 + len) /\ e = p[d + 1]
    <3>1. b + (2 + len) \in Nat /\ b + (2 + len) = b + 2 + len
      OBVIOUS
    <3>2. p[d + 1] = b + 2 + len
      BY <1>7, <1>8, <2>2
    <3>3. QED
      BY <3>1, <3>2
  <2>8. 2 + len \in 0..Len(inbox)
    BY ONLY <1>2, <1>4, len \in Nat
  <2>9. Slice(S, e, inbox') /\ Len(inbox') = Len(inbox) - (2 + len)
    <3>1. PICK l \in 0..Len(inbox) : l = 2 + len
      BY <2>8
    <3>2. inbox' = Drop(inbox, l) /\ e = b + l
      BY <1>2, <2>7, <3>1
    <3>3. Slice(S, b + l, Drop(inbox, l))
      BY ONLY <1>4, <1>5, b \in Nat, S \in Seq(Byte), l \in 0..Len(inbox), SliceCut
    <3>4. Len(Drop(inbox, l)) = Len(inbox) - l
      BY ONLY <1>4, l \in 0..Len(inbox), TakeDrop
    <3>5. QED
      BY <3>1, <3>2, <3>3, <3>4
  <2>10. After(e, inbox') = After(b, inbox)
    <3>1. e + Len(inbox') = b + Len(inbox)
      BY ONLY <1>4, <2>7, <2>9, b \in Nat, len \in Nat
    <3>2. QED
      BY <3>1 DEF After
  <2>11. PICK v, w : /\ v = After(b, inbox) /\ w = After(v, fromProgram)
                     /\ Slice(S, v, fromProgram) /\ Writing(S, w)
    BY <1>3 DEF Following
  <2>12. Writing(S, w)'
    BY <1>1, <2>11 DEF Writing
  <2>13. v = After(e, inbox)' /\ w = After(v, fromProgram)'
    BY <1>1, <2>10, <2>11 DEF After
  <2>14. Following(S, e)'
    BY <1>1, <2>9, <2>11, <2>12, <2>13 DEF Following, Writing, After
  <2>15. Outgoing'
    BY <1>1, <1>3, <2>5, <2>7, <2>14 DEF Outgoing
  <2>16. QED
    BY <1>2, <2>4, <2>6, <2>15
<1> QED
  BY <1>3, <1>7, <1>8, <1>9

LEMMA OutgoingDeliver ==
    ASSUME TypeOK, DeliveredAreAnswers, Outgoing, Deliver
    PROVE  DeliveredAreAnswers' /\ Outgoing'
<1>1. SUFFICES ASSUME InStep' PROVE DeliveredAreAnswers' /\ Outgoing'
  BY DEF DeliveredAreAnswers, Outgoing
<1>2. PICK m \in Seq(Byte) : delivered' = Append(delivered, m)
  BY DeliverTakes
<1>3. UNCHANGED answers
  BY DEF Deliver
<1>4. Len(delivered') = Len(delivered) + 1 /\ Len(delivered) \in Nat /\ Len(answers) \in Nat
  BY <1>2, Types, AppendProperties
<1>5. InStep
  BY <1>1, <1>3, <1>4, InStepBefore
<1>6. /\ Len(delivered) + 1 \in 1..Len(answers)
      /\ Fits(answers[Len(delivered) + 1]) => DeliveredAreAnswers' /\ Outgoing'
  BY <1>5, DeliverIsNext
<1>7. Fits(answers[Len(delivered) + 1])
  BY <1>1, <1>3, <1>4, <1>6 DEF InStep
<1> QED
  BY <1>6, <1>7

LEMMA OutgoingAnswer ==
    ASSUME TypeOK, DeliveredAreAnswers, Outgoing, NEW a \in Answers, Answer(a)
    PROVE  DeliveredAreAnswers' /\ Outgoing'
<1>1. SUFFICES ASSUME InStep' PROVE DeliveredAreAnswers' /\ Outgoing'
  BY DEF DeliveredAreAnswers, Outgoing
<1>2. answers' = Append(answers, a) /\ UNCHANGED <<inbox, fromProgram, closed, delivered>>
  BY DEF Answer
<1>3. a \in Seq(Byte) /\ Len(a) \in Nat /\ Len(a) > 0
  BY MessageTypes
<1>4. /\ Len(answers') = Len(answers) + 1 /\ Len(answers) \in Nat /\ Len(delivered) \in Nat
      /\ \A i \in 1..Len(answers) : answers'[i] = answers[i]
  BY <1>2, <1>3, Types, AppendProperties
<1>5. InStep
  BY <1>1, <1>2, <1>4, InStepBefore
<1>6. Len(delivered) <= Len(answers) /\ \A i \in 1..Len(delivered) : delivered[i] = answers[i]
  BY <1>5 DEF DeliveredAreAnswers
<1>7. DeliveredAreAnswers'
  BY <1>2, <1>4, <1>6 DEF DeliveredAreAnswers
<1>8. ASSUME ~closed PROVE Outgoing'
  <2>1. PICK S \in Seq(Byte), p \in [0..Len(answers) -> Nat], d \in 0..Len(answers), b \in Nat :
            Frames(S, p, answers) /\ d = Len(delivered) /\ b = p[d] /\ Following(S, b)
    BY <1>5, <1>8, AnswerPosition
  <2>2. PICK T \in Seq(Byte), q \in [0..Len(answers') -> Nat] :
            /\ Frames(T, q, answers') /\ Begins(S, T)
            /\ \A k \in 0..Len(answers) : q[k] = p[k]
            /\ Len(T) = Len(S) + 2 + Len(a)
            /\ Slice(T, Len(S), Header(a)) /\ Slice(T, Len(S) + 2, a)
    BY <1>2, <1>3, <2>1, Types, OneMoreFrame
  <2>3. out = <<>>
    BY DEF Answer, TypeOK
  <2>4. PICK v \in Nat, m \in Nat : /\ v = After(b, inbox) /\ m = After(v, fromProgram) /\ m = Len(S)
                                  /\ Slice(S, b, inbox) /\ Slice(S, v, fromProgram)
    <3>1. After(After(b, inbox), fromProgram) = Len(S) /\ Slice(S, b, inbox)
          /\ Slice(S, After(b, inbox), fromProgram)
      BY <2>1, <2>3 DEF Following, Writing
    <3>2. After(b, inbox) \in Nat /\ Len(S) \in Nat
      BY Types DEF After
    <3>3. QED
      BY <3>1, <3>2
  <2>5. Slice(T, b, inbox) /\ Slice(T, v, fromProgram)
    BY <2>2, <2>4, Types, SliceOfMore
  <2>6. T[m + 1] = HighByte(Len(a)) /\ T[m + 2] = LowByte(Len(a)) /\ Slice(T, m + 2, a)
    <3>1. PICK h \in Seq(Byte) : /\ h = Header(a) /\ Len(h) = 2
                                 /\ h[1] = HighByte(Len(a)) /\ h[2] = LowByte(Len(a))
      BY <1>3, HeaderBytes
    <3>2. Slice(T, m, h) /\ 1 \in 1..2 /\ 2 \in 1..2
      BY <2>2, <2>4, <3>1
    <3>3. h[1] = T[m + 1] /\ h[2] = T[m + 2]
      BY <3>1, <3>2 DEF Slice
    <3>4. QED
      BY <2>2, <2>4, <3>1, <3>3
  <2>7. /\ Len(out') = 3 /\ out' # <<>>
        /\ out'[1] = <<HighByte(Len(a))>> /\ out'[2] = <<LowByte(Len(a))>> /\ out'[3] = a
    BY AnswerBuffers
  <2>8. Len(T) = m + 2 + Len(a)
    BY <2>2, <2>4
  <2>9. Writing(T, m)'
    <3>1. PICK x, y : /\ x = out'[1] /\ y = out'[2] /\ Len(x) = 1 /\ Len(y) = 1
                      /\ x[1] = T[m + 1] /\ y[1] = T[m + 2]
      <4>1. PICK hb, lb : hb = HighByte(Len(a)) /\ lb = LowByte(Len(a))
        OBVIOUS
      <4>2. Len(<<hb>>) = 1 /\ Len(<<lb>>) = 1 /\ <<hb>>[1] = hb /\ <<lb>>[1] = lb
        OBVIOUS
      <4>3. PICK x, y : x = <<hb>> /\ y = <<lb>>
        OBVIOUS
      <4>4. Len(x) = 1 /\ Len(y) = 1 /\ x[1] = hb /\ y[1] = lb
        BY ONLY <4>2, <4>3
      <4>5. x = out'[1] /\ y = out'[2]
        BY ONLY <2>7, <4>1, <4>3
      <4>6. x[1] = T[m + 1] /\ y[1] = T[m + 2]
        BY ONLY <2>6, <4>1, <4>4
      <4>7. QED
        BY ONLY <4>4, <4>5, <4>6
    <3>2. Slice(T, m, x) /\ Slice(T, m + 1, y)
      <4>1. m + 1 <= Len(T) /\ m + 1 + 1 <= Len(T) /\ m + 1 + 1 = m + 2
        BY ONLY <1>3, <2>8, m \in Nat
      <4>2. 1..1 = {1}
        OBVIOUS
      <4>3. QED
        BY <3>1, <4>1, <4>2 DEF Slice
    <3>3. m + 1 - 1 = m /\ m + 2 - 1 = m + 1 /\ m + 3 - 1 = m + 2 /\ 1..3 = {1, 2, 3}
      OBVIOUS
    <3>4. \A k \in 1..3 : /\ Len(out'[k]) > 0 /\ Slice(T, m + k - 1, out'[k])
                          /\ k < 3 => Len(out'[k]) = 1
      <4>1. Len(x) > 0 /\ Len(y) > 0 /\ Len(a) > 0 /\ Slice(T, m + 2, a)
        BY <1>3, <2>6, <3>1
      <4>2. /\ Len(out'[1]) > 0 /\ Slice(T, m + 1 - 1, out'[1]) /\ Len(out'[1]) = 1
            /\ Len(out'[2]) > 0 /\ Slice(T, m + 2 - 1, out'[2]) /\ Len(out'[2]) = 1
            /\ Len(out'[3]) > 0 /\ Slice(T, m + 3 - 1, out'[3])
        BY ONLY <2>7, <3>1, <3>2, <3>3, <4>1
      <4>3. \A k \in 1..3 : k = 1 \/ k = 2 \/ (k = 3 /\ ~(k < 3))
        OBVIOUS
      <4>4. QED
        BY ONLY <4>2, <4>3
    <3>5. m + 3 - 1 + Len(out'[3]) = Len(T)
      BY <2>7, <2>8, <3>3
    <3>6. QED
      BY <2>7, <3>4, <3>5 DEF Writing
  <2>10. Following(T, b)'
    BY <1>2, <2>4, <2>5, <2>9 DEF Following, Writing, After
  <2>11. q[Len(delivered')] = b
    BY <1>2, <2>1, <2>2
  <2>12. QED
    BY <2>2, <2>10, <2>11 DEF Outgoing
<1> QED
  BY <1>2, <1>7, <1>8 DEF Outgoing

\* A write takes the beginning of what is to be written.
LEMMA WritingMoves ==
    ASSUME TypeOK, NEW n \in Nat, Write(n), NEW S \in Seq(Byte), NEW m \in Nat, Writing(S, m),
           NEW j \in Nat, j = m + n
    PROVE  Slice(S, m, Take(out[1], n)) /\ Len(Take(out[1], n)) = n /\ Writing(S, j)'
<1>1. /\ Len(out) > 0 /\ out[1] \in Seq(Byte) /\ n \in 0..Len(out[1]) /\ n > 0
      /\ out' \in Seq(Seq(Byte))
      /\ \/ /\ n = Len(out[1]) /\ Len(out') = Len(out) - 1
            /\ \A k \in 1..Len(out) - 1 : out'[k] = out[k + 1]
         \/ /\ n < Len(out[1]) /\ Len(out') = Len(out)
            /\ out'[1] = Drop(out[1], n)
            /\ \A k \in 2..Len(out) : out'[k] = out[k]
  BY WriteTakes
<1>2. PICK l \in Nat, h \in Seq(Byte) : l = Len(out) /\ l > 0 /\ h = out[1] /\ Len(h) \in Nat
  <2>1. Len(out) \in Nat
    BY Types
  <2>2. PICK h \in Seq(Byte) : h = out[1]
    BY <1>1
  <2>3. Len(h) \in Nat
    OBVIOUS
  <2>4. QED
    BY <1>1, <2>1, <2>2, <2>3
<1>3. /\ \A k \in 1..l : /\ Len(out[k]) > 0 /\ Slice(S, m + k - 1, out[k])
                         /\ k < l => Len(out[k]) = 1
      /\ m + l - 1 + Len(out[l]) = Len(S)
  <2>1. out # <<>>
    BY DEF Write, TypeOK
  <2>2. QED
    BY <1>2, <2>1 DEF Writing
<1>4. Slice(S, m, h) /\ (1 < l => Len(h) = 1)
  <2>1. 1 \in 1..l /\ m + 1 - 1 = m
    BY ONLY <1>2, m \in Nat
  <2>2. QED
    BY <1>2, <1>3, <2>1
<1>5. PICK d \in Seq(Byte) : /\ d = Drop(h, n) /\ Len(d) = Len(h) - n /\ Slice(S, m + n, d)
                             /\ Slice(S, m, Take(h, n)) /\ Len(Take(h, n)) = n
  BY <1>1, <1>2, <1>4, SliceCut, TakeDrop
<1>6. j = m + n
  OBVIOUS
<1>7. CASE n = Len(h)
  <2>1. Len(out') = l - 1 /\ \A k \in 1..l - 1 : out'[k] = out[k + 1]
    BY <1>1, <1>2, <1>7
  <2>2. ASSUME NEW k \in 1..l - 1
        PROVE  /\ Len(out'[k]) > 0 /\ Slice(S, j + k - 1, out'[k])
               /\ k < l - 1 => Len(out'[k]) = 1
    <3>1. k + 1 \in 1..l /\ 1 < l
      OBVIOUS
    <3>2. n = 1
      BY <1>4, <1>7, <3>1
    <3>3. j + k - 1 = m + (k + 1) - 1
      BY ONLY <1>6, <3>2, m \in Nat, k \in 1..l - 1
    <3>4. k < l - 1 => k + 1 < l
      OBVIOUS
    <3>5. QED
      BY <1>3, <2>1, <3>1, <3>3, <3>4
  <2>3. out' = <<>> <=> l = 1
    <3>1. Len(out') = 0 <=> l = 1
      BY ONLY <1>2, <2>1
    <3>2. QED
      BY <1>1, <3>1, EmptySeq
  <2>4. l = 1 => j = Len(S)
    <3>1. ASSUME l = 1 PROVE j = Len(S)
      <4>1. m + 1 - 1 + Len(h) = Len(S)
        BY <1>2, <1>3, <3>1
      <4>2. QED
        BY ONLY <1>2, <1>6, <1>7, <4>1, m \in Nat
    <3>2. QED
      BY <3>1
  <2>5. l # 1 => j + (l - 1) - 1 + Len(out'[l - 1]) = Len(S)
    <3>1. ASSUME l # 1 PROVE j + (l - 1) - 1 + Len(out'[l - 1]) = Len(S)
      <4>1. 1 < l /\ l - 1 \in 1..l - 1 /\ (l - 1) + 1 = l
        BY ONLY <1>2, <3>1, l \in Nat
      <4>2. n = 1 /\ out'[l - 1] = out[l]
        BY <1>4, <1>7, <2>1, <4>1
      <4>3. j + (l - 1) - 1 = m + l - 1
        BY ONLY <1>6, <4>2, m \in Nat, l \in Nat
      <4>4. QED
        BY <1>3, <4>2, <4>3
    <3>2. QED
      BY <3>1
  <2>6. Writing(S, j)'
    BY ONLY <2>1, <2>2, <2>3, <2>4, <2>5 DEF Writing
  <2>7. QED
    BY <1>2, <1>5, <2>6
<1>9. CASE n < Len(h)
  <2>1. l = 1
    <3>1. ~(1 < l)
      <4>1. PICK x : x = Len(h)
        OBVIOUS
      <4>2. n > 0 /\ n < x /\ x \in Nat /\ (1 < l => x = 1)
        BY <1>1, <1>2, <1>4, <1>9, <4>1
      <4>3. QED
        BY ONLY <4>2, n \in Nat
    <3>2. QED
      BY ONLY <1>2, <3>1
  <2>2. Len(out') = 1 /\ out'[1] = d
    BY <1>1, <1>2, <1>5, <1>9, <2>1
  <2>3. out' # <<>>
    <3>1. Len(out') # 0
      BY <2>2
    <3>2. QED
      BY ONLY <3>1, EmptySeq
  <2>4. Len(d) > 0 /\ j + 1 - 1 = j
    BY ONLY <1>2, <1>5, <1>6, <1>9, n \in Nat
  <2>5. j + 1 - 1 + Len(d) = Len(S)
    <3>1. m + 1 - 1 + Len(h) = Len(S)
      BY <1>2, <1>3, <2>1
    <3>2. Len(d) = Len(h) - n /\ j = m + n /\ Len(h) \in Nat
      BY <1>2, <1>5, <1>6
    <3>3. QED
      BY ONLY <3>1, <3>2, m \in Nat, n \in Nat
  <2>6. \A k \in 1..1 : /\ Len(out'[k]) > 0 /\ Slice(S, j + k - 1, out'[k])
                        /\ k < 1 => Len(out'[k]) = 1
    <3>1. \A k \in 1..1 : k = 1 /\ ~(k < 1)
      OBVIOUS
    <3>2. Slice(S, j, d)
      BY <1>5, <1>6
    <3>3. QED
      BY ONLY <2>2, <2>4, <3>1, <3>2
  <2>7. Writing(S, j)'
    BY ONLY <2>2, <2>3, <2>5, <2>6 DEF Writing
  <2>8. QED
    BY <1>2, <1>5, <2>7
<1>8. n = Len(h) \/ n < Len(h)
  BY <1>1, <1>2
<1> QED
  BY <1>2, <1>5, <1>7, <1>8, <1>9

LEMMA OutgoingWrite ==
    ASSUME TypeOK, DeliveredAreAnswers, Outgoing, NEW n \in Nat, Write(n)
    PROVE  DeliveredAreAnswers' /\ Outgoing'
<1>1. ~closed /\ UNCHANGED <<inbox, closed, answers, delivered>>
  BY DEF Write, history
<1>2. InStep' = InStep
  BY <1>1 DEF InStep
<1>3. DeliveredAreAnswers'
  BY <1>1, <1>2 DEF DeliveredAreAnswers
<1>4. ASSUME InStep PROVE Outgoing'
  <2>1. PICK S \in Seq(Byte), p \in [0..Len(answers) -> Nat], d \in 0..Len(answers), b \in Nat :
            Frames(S, p, answers) /\ d = Len(delivered) /\ b = p[d] /\ Following(S, b)
    BY <1>1, <1>4, AnswerPosition
  <2>2. inbox \in Seq(Byte) /\ fromProgram \in Seq(Byte) /\ Len(inbox) \in Nat /\ Len(fromProgram) \in Nat
    BY Types
  <2>3. PICK v \in Nat, m \in Nat :
            /\ v = After(b, inbox) /\ m = After(v, fromProgram)
            /\ Slice(S, b, inbox) /\ Slice(S, v, fromProgram) /\ Writing(S, m)
    <3>1. After(b, inbox) \in Nat /\ After(After(b, inbox), fromProgram) \in Nat
      BY <2>2 DEF After
    <3>2. QED
      BY <2>1, <3>1 DEF Following
  <2>4. /\ out[1] \in Seq(Byte) /\ n \in 0..Len(out[1])
        /\ fromProgram' = fromProgram \o Take(out[1], n)
    BY WriteTakes
  <2>5. PICK t \in Seq(Byte) : t = Take(out[1], n) /\ Len(t) = n
    BY <2>4, TakeDrop
  <2>6. PICK j \in Nat : j = m + n
    OBVIOUS
  <2>7. Slice(S, m, t) /\ Writing(S, j)'
    BY <2>3, <2>5, <2>6, WritingMoves
  <2>8. /\ Slice(S, v, fromProgram') /\ After(v, fromProgram') = After(m, t)
    <3>1. Slice(S, After(v, fromProgram), t) /\ fromProgram' = fromProgram \o t
      BY <2>3, <2>4, <2>5, <2>7
    <3>2. QED
      BY ONLY <2>2, <2>3, <3>1, v \in Nat, S \in Seq(Byte), t \in Seq(Byte), SliceJoin
  <2>9. After(v, fromProgram') = j
    BY <2>5, <2>6, <2>8 DEF After
  <2>10. Slice(S, b, inbox') /\ v = After(b, inbox')
    BY <1>1, <2>3
  <2>11. Following(S, b)'
    <3>1. After(After(b, inbox'), fromProgram') = j
      BY <2>9, <2>10
    <3>2. QED
      BY <2>7, <2>8, <2>10, <3>1 DEF Following, Writing, After
  <2>12. QED
    BY <1>1, <2>1, <2>11 DEF Outgoing
<1> QED
  BY <1>2, <1>3, <1>4 DEF Outgoing

-----------------------------------------------------------------------------
(* The invariant *)

LEMMA InitIInv == Init => IInv
<1> SUFFICES ASSUME Init PROVE IInv
  OBVIOUS
<1>1. /\ toProgram = <<>> /\ fromProgram = <<>> /\ inbox = <<>> /\ buf = <<>> /\ out = <<>>
      /\ sent = <<>> /\ taken = <<>> /\ answers = <<>> /\ delivered = <<>>
      /\ phase = "length" /\ need = 2
  BY DEF Init
<1>2. Len(<<>>) = 0 /\ 1..0 = {} /\ 0 \in Nat /\ 0 + 0 = 0 /\ 0 <= 0
  BY EmptySeq
<1>3. PICK S \in Seq(Byte), p \in [0..0 -> Nat] :
          S = <<>> /\ Len(S) = 0 /\ Frames(S, p, <<>>) /\ p[0] = 0
  BY <1>2, NoFrames
<1>4. After(0, <<>>) = 0 /\ Slice(S, 0, <<>>)
  BY <1>2, <1>3 DEF After, Slice
<1>5. Incoming
  <2>1. BufferAt(p) = 0 /\ ReadTo(p) = 0
    <3>1. BufferAt(p) = 0
      BY <1>1, <1>2, <1>3 DEF BufferAt
    <3>2. QED
      BY <1>1, <1>4, <3>1 DEF ReadTo
  <2>2. Reading(S, p)
    BY <1>1, <1>3, <1>4, <2>1 DEF Reading
  <2>3. QED
    BY <1>1, <1>2, <1>3, <2>2 DEF Incoming
<1>6. Outgoing
  <2>1. Writing(S, 0)
    BY <1>1, <1>2, <1>3 DEF Writing
  <2>2. Following(S, p[Len(delivered)])
    BY <1>1, <1>2, <1>3, <1>4, <2>1 DEF Following
  <2>3. QED
    BY <1>1, <1>2, <1>3, <2>2 DEF Outgoing
<1>7. TakenAreSent /\ DeliveredAreAnswers /\ OneAnswerEach /\ EndsOnlyWhenClosed
  BY <1>1, <1>2 DEF TakenAreSent, DeliveredAreAnswers, OneAnswerEach, EndsOnlyWhenClosed
<1> QED
  BY <1>5, <1>6, <1>7, TypeInit DEF IInv

\* Neither a command nor an answer too many, and no end while the port is open
LEMMA EndsStep ==
    ASSUME TypeOK, TakenAreSent, Incoming, EndsOnlyWhenClosed, [Next]_vars
    PROVE  EndsOnlyWhenClosed'
<1>1. CASE UNCHANGED vars
  BY <1>1 DEF vars, programVars, EndsOnlyWhenClosed
<1>2. ASSUME NEW c \in Commands, Send(c) PROVE EndsOnlyWhenClosed'
  BY <1>2 DEF Send, programVars, EndsOnlyWhenClosed
<1>3. ASSUME NEW n \in 1..Room, DriverReads(n) PROVE EndsOnlyWhenClosed'
  BY <1>3 DEF DriverReads, programVars, EndsOnlyWhenClosed
<1>4. CASE Deliver
  BY <1>4 DEF Deliver, programVars, EndsOnlyWhenClosed
<1>5. CASE Close
  BY <1>5 DEF Close, EndsOnlyWhenClosed
<1>6. ASSUME NEW n \in 1..Limit, Read(n) PROVE EndsOnlyWhenClosed'
  BY <1>6 DEF Read, EndsOnlyWhenClosed
<1>7. CASE HaveLength
  BY <1>7 DEF HaveLength, EndsOnlyWhenClosed
<1>8. CASE HaveBody
  BY <1>8 DEF HaveBody, EndsOnlyWhenClosed
<1>9. CASE EndOfInput
  <2>1. closed
    BY <1>9, EndIsClosed
  <2>2. QED
    BY <1>9, <2>1 DEF EndOfInput, EndsOnlyWhenClosed
<1>10. ASSUME NEW a \in Answers, Answer(a) PROVE EndsOnlyWhenClosed'
  BY <1>10 DEF Answer, EndsOnlyWhenClosed
<1>11. CASE NoAnswer
  BY <1>11 DEF NoAnswer, ReadNext, EndsOnlyWhenClosed
<1>12. ASSUME NEW n \in 1..Room, Write(n) PROVE EndsOnlyWhenClosed'
  BY <1>12 DEF Write, ReadNext, programVars, EndsOnlyWhenClosed
<1>13. CASE WriteFails
  BY <1>13 DEF WriteFails, EndsOnlyWhenClosed
<1> QED
  BY <1>1, <1>2, <1>3, <1>4, <1>5, <1>6, <1>7, <1>8, <1>9, <1>10, <1>11, <1>12, <1>13
  DEF Next, DriverSome, ReadSome, WriteSome, Reply

LEMMA OneAnswerStep ==
    ASSUME TypeOK, OneAnswerEach, [Next]_vars
    PROVE  OneAnswerEach'
<1>1. /\ Len(answers) <= Len(taken) /\ (phase = "run" => Len(answers) < Len(taken))
      /\ Len(answers) \in Nat /\ Len(taken) \in Nat
  BY Types DEF OneAnswerEach
<1>2. ASSUME UNCHANGED <<answers, taken>>, phase' = "run" => phase = "run" PROVE OneAnswerEach'
  BY <1>1, <1>2 DEF OneAnswerEach
<1>3. CASE UNCHANGED vars
  BY <1>2, <1>3 DEF vars, programVars, history
<1>4. ASSUME NEW c \in Commands, Send(c) PROVE OneAnswerEach'
  BY <1>2, <1>4 DEF Send, programVars
<1>5. ASSUME NEW n \in 1..Room, DriverReads(n) PROVE OneAnswerEach'
  BY <1>2, <1>5 DEF DriverReads, programVars, history
<1>6. CASE Deliver
  BY <1>2, <1>6 DEF Deliver, programVars
<1>7. CASE Close
  BY <1>2, <1>7 DEF Close, programVars, history
<1>8. ASSUME NEW n \in 1..Limit, Read(n) PROVE OneAnswerEach'
  BY <1>2, <1>8 DEF Read, history
<1>9. CASE HaveLength
  BY <1>2, <1>9 DEF HaveLength, history
<1>10. CASE HaveBody
  <2>1. UNCHANGED answers /\ taken' = Append(taken, buf)
    BY <1>10 DEF HaveBody
  <2>2. Len(taken') = Len(taken) + 1
    BY <2>1, Types, AppendProperties
  <2>3. Len(answers') < Len(taken') /\ Len(answers') <= Len(taken')
    BY <1>1, <2>1, <2>2
  <2>4. QED
    BY <2>3 DEF OneAnswerEach
<1>11. CASE EndOfInput
  BY <1>2, <1>11 DEF EndOfInput, history
<1>12. ASSUME NEW a \in Answers, Answer(a) PROVE OneAnswerEach'
  <2>1. phase = "run" /\ phase' = "write" /\ UNCHANGED taken /\ answers' = Append(answers, a)
    BY <1>12 DEF Answer
  <2>2. Len(answers') = Len(answers) + 1
    BY <2>1, MessageTypes, Types, AppendProperties
  <2>3. Len(answers') <= Len(taken') /\ phase' # "run"
    BY <1>1, <2>1, <2>2
  <2>4. QED
    BY <2>3 DEF OneAnswerEach
<1>13. CASE NoAnswer
  BY <1>2, <1>13 DEF NoAnswer, history
<1>14. ASSUME NEW n \in 1..Room, Write(n) PROVE OneAnswerEach'
  BY <1>2, <1>14 DEF Write, ReadNext, programVars, history
<1>15. CASE WriteFails
  BY <1>2, <1>15 DEF WriteFails, history
<1> QED
  BY <1>3, <1>4, <1>5, <1>6, <1>7, <1>8, <1>9, <1>10, <1>11, <1>12, <1>13, <1>14, <1>15
  DEF Next, DriverSome, ReadSome, WriteSome, Reply

LEMMA IncomingStep ==
    ASSUME TypeOK, TakenAreSent, Incoming, EndsOnlyWhenClosed, [Next]_vars
    PROVE  TakenAreSent' /\ Incoming'
<1>1. CASE UNCHANGED vars
  BY <1>1, IncomingStays DEF vars, programVars, history
<1>2. ASSUME NEW c \in Commands, Send(c) PROVE TakenAreSent' /\ Incoming'
  BY <1>2, IncomingSend
<1>3. ASSUME NEW n \in 1..Room, DriverReads(n) PROVE TakenAreSent' /\ Incoming'
  BY <1>3, IncomingStays DEF DriverReads, programVars, history
<1>4. CASE Deliver
  BY <1>4, IncomingStays DEF Deliver, programVars
<1>5. CASE Close
  BY <1>5, IncomingClose
<1>6. ASSUME NEW n \in 1..Limit, Read(n) PROVE TakenAreSent' /\ Incoming'
  BY <1>6, BaseLimits, IncomingRead
<1>7. CASE HaveLength
  BY <1>7, IncomingHaveLength
<1>8. CASE HaveBody
  BY <1>8, BodyIsNext
<1>9. CASE EndOfInput
  BY <1>9, IncomingStays DEF EndOfInput, history
<1>10. ASSUME NEW a \in Answers, Answer(a) PROVE TakenAreSent' /\ Incoming'
  BY <1>10, IncomingStays DEF Answer
<1>11. CASE NoAnswer
  BY <1>11, IncomingNextRead DEF NoAnswer, history
<1>12. ASSUME NEW n \in 1..Room, Write(n) PROVE TakenAreSent' /\ Incoming'
  <2>1. /\ phase = "write" /\ UNCHANGED <<sent, taken, toProgram, closed>>
        /\ ReadNext("length") \/ UNCHANGED <<phase, need, buf>>
    BY <1>12 DEF Write, programVars, history
  <2>2. QED
    BY <2>1, IncomingNextRead, IncomingStays
<1>13. CASE WriteFails
  BY <1>13, IncomingStays DEF WriteFails, history
<1> QED
  BY <1>1, <1>2, <1>3, <1>4, <1>5, <1>6, <1>7, <1>8, <1>9, <1>10, <1>11, <1>12, <1>13
  DEF Next, DriverSome, ReadSome, WriteSome, Reply

LEMMA OutgoingStep ==
    ASSUME TypeOK, DeliveredAreAnswers, Outgoing, [Next]_vars
    PROVE  DeliveredAreAnswers' /\ Outgoing'
<1>1. CASE UNCHANGED vars
  BY <1>1, OutgoingStays DEF vars, history
<1>2. ASSUME NEW c \in Commands, Send(c) PROVE DeliveredAreAnswers' /\ Outgoing'
  BY <1>2, OutgoingStays DEF Send
<1>3. ASSUME NEW n \in 1..Room, DriverReads(n) PROVE DeliveredAreAnswers' /\ Outgoing'
  BY <1>3, OutgoingDriver
<1>4. CASE Deliver
  BY <1>4, OutgoingDeliver
<1>5. CASE Close
  BY <1>5, OutgoingStays DEF Close, history
<1>6. ASSUME NEW n \in 1..Limit, Read(n) PROVE DeliveredAreAnswers' /\ Outgoing'
  BY <1>6, OutgoingStays DEF Read, history
<1>7. CASE HaveLength
  BY <1>7, OutgoingStays DEF HaveLength, history
<1>8. CASE HaveBody
  BY <1>8, OutgoingStays DEF HaveBody
<1>9. CASE EndOfInput
  BY <1>9, OutgoingStays DEF EndOfInput, history
<1>10. ASSUME NEW a \in Answers, Answer(a) PROVE DeliveredAreAnswers' /\ Outgoing'
  BY <1>10, OutgoingAnswer
<1>11. CASE NoAnswer
  BY <1>11, OutgoingStays DEF NoAnswer, history
<1>12. ASSUME NEW n \in 1..Room, Write(n) PROVE DeliveredAreAnswers' /\ Outgoing'
  BY <1>12, RoomAssumption, OutgoingWrite
<1>13. CASE WriteFails
  BY <1>13, OutgoingStays DEF WriteFails, history
<1> QED
  BY <1>1, <1>2, <1>3, <1>4, <1>5, <1>6, <1>7, <1>8, <1>9, <1>10, <1>11, <1>12, <1>13
  DEF Next, DriverSome, ReadSome, WriteSome, Reply

LEMMA IInvStep == IInv /\ [Next]_vars => IInv'
<1> SUFFICES ASSUME IInv, [Next]_vars PROVE IInv'
  OBVIOUS
<1>1. /\ TypeOK /\ TakenAreSent /\ Incoming /\ EndsOnlyWhenClosed
      /\ DeliveredAreAnswers /\ Outgoing /\ OneAnswerEach
  BY DEF IInv
<1>2. TypeOK'
  BY <1>1, TypeStep
<1>3. TakenAreSent' /\ Incoming'
  BY <1>1, IncomingStep
<1>4. EndsOnlyWhenClosed'
  BY <1>1, EndsStep
<1>5. DeliveredAreAnswers' /\ Outgoing'
  BY <1>1, OutgoingStep
<1>6. OneAnswerEach'
  BY <1>1, OneAnswerStep
<1> QED
  BY <1>2, <1>3, <1>4, <1>5, <1>6 DEF IInv

\* A sequence that agrees with another one is its beginning.
LEMMA Beginning ==
    ASSUME NEW S, NEW s \in Seq(S), NEW t \in Seq(S),
           Len(t) <= Len(s), \A i \in 1..Len(t) : t[i] = s[i]
    PROVE  t = SubSeq(s, 1, Len(t))
<1>1. PICK n \in Nat : n = Len(t)
  OBVIOUS
<1>2. PICK u : u = SubSeq(s, 1, n)
  OBVIOUS
<1>3. \A i \in 1..n : s[i] \in S
  BY <1>1, ElementOfSeq
<1>4. u \in Seq(S) /\ Len(u) = n /\ \A i \in 1..n : u[i] = s[i]
  BY <1>1, <1>2, <1>3, SubSeqProperties
<1>5. t = u
  BY <1>1, <1>4, SeqEqual
<1> QED
  BY <1>1, <1>2, <1>5

LEMMA Invariant == Spec => []IInv
BY InitIInv, IInvStep, PTL DEF Spec

-----------------------------------------------------------------------------
(* Theorems *)

\* The buffer of read_exact never holds more than was asked for, no length that
\* read_cmd reads is 0 or more than a frame may have, and the pipe holds no
\* more than there is room for.
THEOREM TypeCorrect == Spec => []TypeOK
<1>1. IInv => TypeOK
  BY DEF IInv
<1> QED
  BY <1>1, Invariant, PTL

\* However the bytes of the commands are cut by the reads of read_exact, the
\* commands that main() runs are those that were sent, in their order.
THEOREM CommandsInOrder == Spec => []TakenInOrder
<1>1. IInv => TakenInOrder
  <2> SUFFICES ASSUME IInv PROVE TakenInOrder
    OBVIOUS
  <2>1. sent \in Seq(Seq(Byte)) /\ taken \in Seq(Seq(Byte))
    BY Types DEF IInv
  <2>2. QED
    BY <2>1, Beginning DEF IInv, TakenAreSent, TakenInOrder
<1> QED
  BY <1>1, Invariant, PTL

\* Until the program writes an answer that does not fit into a frame, the
\* messages of the port are its answers, in their order.
THEOREM AnswersArriveInStep == Spec => []AnswersInStep
<1>1. IInv => AnswersInStep
  <2> SUFFICES ASSUME IInv, \A i \in 1..Len(answers) : Fits(answers[i])
               PROVE  delivered = SubSeq(answers, 1, Len(delivered))
    BY DEF AnswersInStep
  <2>1. answers \in Seq(Seq(Byte)) /\ delivered \in Seq(Seq(Byte))
    BY Types DEF IInv
  <2>2. InStep
    BY DEF InStep
  <2>3. QED
    BY <2>1, <2>2, Beginning DEF IInv, DeliveredAreAnswers
<1> QED
  BY <1>1, Invariant, PTL

\* read_cmd returns 0 to main() only when the server has closed the port.
THEOREM EndMeansClosed == Spec => []EndsOnlyWhenClosed
<1>1. IInv => EndsOnlyWhenClosed
  BY DEF IInv
<1> QED
  BY <1>1, Invariant, PTL

-----------------------------------------------------------------------------
(* The channel *)

\* A data message is the next answer, or comes after one that did not fit.
LEMMA ChannelDelivers ==
    ASSUME IInv, Deliver PROVE Channel!Deliver \/ Channel!Garble
<1>1. ~closed /\ UNCHANGED <<sent, taken, answers, closed>>
  BY DEF Deliver
<1>2. TypeOK /\ DeliveredAreAnswers /\ Outgoing
  BY DEF IInv
<1>3. Len(delivered) \in Nat /\ Len(answers) \in Nat /\ delivered \in Seq(Seq(Byte))
  BY <1>2, Types
<1>4. PICK d \in Nat : d = Len(delivered)
  BY <1>3
<1>5. CASE InStep /\ Fits(answers[d + 1])
  <2>1. d < Len(answers) /\ delivered' = Append(delivered, answers[d + 1])
    BY <1>2, <1>4, <1>5, DeliverIsNext
  <2>2. ASSUME NEW i \in 1..d + 1 PROVE Fits(answers[i])
    <3>1. i = d + 1 \/ (i \in 1..Len(answers) /\ i <= d)
      BY <1>3, <2>1
    <3>2. QED
      BY <1>4, <1>5, <3>1 DEF InStep
  <2>3. QED
    BY <1>1, <1>4, <2>1, <2>2 DEF Channel!Deliver, Channel!InStep
<1>6. CASE ~(InStep /\ Fits(answers[d + 1]))
  <2>1. \E i \in 1..Len(answers) : ~Fits(answers[i]) /\ i <= d + 1
    <3>1. CASE InStep
      <4>1. d + 1 \in 1..Len(answers) /\ d + 1 <= d + 1
        BY <1>2, <1>4, <3>1, DeliverIsNext
      <4>2. QED
        BY <1>6, <3>1, <4>1
    <3>2. CASE ~InStep
      <4>1. PICK i \in 1..Len(answers) : i <= d /\ ~Fits(answers[i])
        BY <1>4, <3>2 DEF InStep
      <4>2. i <= d + 1
        BY <4>1
      <4>3. QED
        BY <4>1, <4>2
    <3>3. QED
      BY <3>1, <3>2
  <2>2. PICK m \in Seq(Byte) : delivered' = Append(delivered, m)
    BY <1>2, DeliverTakes
  <2>3. PICK s \in Seq(Seq(Byte)) : s = delivered'
    <3>1. delivered' \in Seq(Seq(Byte))
      BY <1>3, <2>2, AppendProperties
    <3>2. QED
      BY <3>1
  <2>4. Len(s) = d + 1 /\ \A i \in 1..d : s[i] = delivered[i]
    BY <1>3, <1>4, <2>2, <2>3, AppendProperties
  <2>5. delivered = SubSeq(s, 1, Len(delivered))
    BY <1>3, <1>4, <2>4, Beginning
  <2>6. Channel!Longer(delivered, delivered')
    BY <1>4, <2>3, <2>4, <2>5 DEF Channel!Longer
  <2>7. QED
    BY <1>1, <1>4, <2>1, <2>6 DEF Channel!Garble
<1> QED
  BY <1>5, <1>6

LEMMA ChannelStep == IInv /\ [Next]_vars => [Channel!Next]_Channel!vars
<1> SUFFICES ASSUME IInv, [Next]_vars PROVE [Channel!Next]_Channel!vars
  OBVIOUS
<1>1. ASSUME UNCHANGED <<sent, taken, answers, delivered, closed>>
      PROVE  [Channel!Next]_Channel!vars
  BY <1>1 DEF Channel!vars
<1>2. CASE UNCHANGED vars
  BY <1>1, <1>2 DEF vars, history
<1>3. ASSUME NEW c \in Commands, Send(c) PROVE Channel!Send
  BY <1>3 DEF Send, Channel!Send
<1>4. ASSUME NEW n \in 1..Room, DriverReads(n) PROVE [Channel!Next]_Channel!vars
  BY <1>1, <1>4 DEF DriverReads, history
<1>5. CASE Deliver
  BY <1>5, ChannelDelivers DEF Channel!Next
<1>6. CASE Close
  BY <1>6 DEF Close, history, Channel!Close, Channel!Next
<1>7. ASSUME NEW n \in 1..Limit, Read(n) PROVE [Channel!Next]_Channel!vars
  BY <1>1, <1>7 DEF Read, history
<1>8. CASE HaveLength
  BY <1>1, <1>8 DEF HaveLength, history
<1>9. CASE HaveBody
  <2>1. Len(taken) < Len(sent) /\ buf = sent[Len(taken) + 1]
    BY <1>9, BodyIsNext DEF IInv
  <2>2. Channel!Take
    BY <1>9, <2>1 DEF HaveBody, Channel!Take
  <2>3. QED
    BY <2>2 DEF Channel!Next
<1>10. CASE EndOfInput
  BY <1>1, <1>10 DEF EndOfInput, history
<1>11. ASSUME NEW a \in Answers, Answer(a) PROVE Channel!Answer
  <2>1. Len(answers) < Len(taken)
    BY <1>11 DEF IInv, OneAnswerEach, Answer
  <2>2. QED
    BY <1>11, <2>1 DEF Answer, Channel!Answer
<1>12. CASE NoAnswer
  BY <1>1, <1>12 DEF NoAnswer, history
<1>13. ASSUME NEW n \in 1..Room, Write(n) PROVE [Channel!Next]_Channel!vars
  BY <1>1, <1>13 DEF Write, history
<1>14. CASE WriteFails
  BY <1>1, <1>14 DEF WriteFails, history
<1> QED
  BY <1>2, <1>3, <1>4, <1>5, <1>6, <1>7, <1>8, <1>9, <1>10, <1>11, <1>12, <1>13, <1>14
  DEF Next, DriverSome, ReadSome, WriteSome, Reply, Channel!Next

\* The frames implement the channel: every step of the bytes is one of the
\* channel's or none, whatever the sizes of reads and writes.  That what can be
\* taken and delivered is, in the end, stays with the run.
THEOREM FramesAreAChannel == Spec => Channel!SafeSpec
<1>1. Init => Channel!Init
  BY DEF Init, Channel!Init
<1> QED
  BY <1>1, ChannelStep, Invariant, PTL DEF Spec, Channel!SafeSpec
=============================================================================
