--------------------------- MODULE PortPoolProofs ----------------------------
(***************************************************************************)
(* Proofs about PortPool, for any sets of members, callers and commands.   *)
(*                                                                         *)
(* HeldOnce is about the hands a member goes through: a caller that is not *)
(* away has one member at most, and one that is away has none.  OneRequest *)
(* is about what a member has to do: one caller's request at most, in the  *)
(* mailbox or served, besides the call with which it starts.  InStep is    *)
(* what a timeout breaks: before it there is never more than one answer or *)
(* command on its way, and it belongs to what the member waits for.        *)
(***************************************************************************)
EXTENDS PortPool, SequenceLemmas, TLAPS

Messages == Requests \cup Answers

HeldOnce ==
    /\ \A m, n \in Members : holder[m] \in Callers /\ holder[m] = holder[n] => m = n
    /\ \A m \in Members : holder[m] \in Callers => caller[holder[m]] # "away"

Asked(m, i) == mailbox[m][i].kind = "request" /\ mailbox[m][i].from \in Callers

OneRequest(m) ==
    /\ \A i, j \in 1..Len(mailbox[m]) : Asked(m, i) /\ Asked(m, j) => i = j
    /\ serves[m] \in Callers => \A i \in 1..Len(mailbox[m]) : ~Asked(m, i)

InStep(m) == ~late[m] =>
    /\ \A i \in DataIn(m) : mailbox[m][i].from = serves[m] /\ mailbox[m][i].step = step[m]
    /\ \A i \in 1..Len(port[m]) : port[m][i].from = serves[m] /\ port[m][i].step = step[m]
    /\ \A i, j \in DataIn(m) : i = j
    /\ \A i, j \in 1..Len(port[m]) : i = j
    /\ \A i \in DataIn(m), j \in 1..Len(port[m]) : FALSE

IInv == /\ TypeOK
        /\ HeldOnce
        /\ AbandonedIsNotReused
        /\ \A m \in Members : OneRequest(m) /\ InStep(m)

-----------------------------------------------------------------------------
(* What the invariant says of one member *)

LEMMA MessageType ==
    ASSUME NEW x \in Messages
    PROVE  /\ x.from \in Clients /\ x.kind \in {"request", "data"}
           /\ x.kind = "request" => x.asks \in AllKinds
           /\ x.kind = "data" => x.step \in 1..3
BY DEF Messages, Requests, Answers

LEMMA Typed ==
    ASSUME IInv
    PROVE  /\ holder \in [Members -> Callers \cup {Pool, Nobody}]
           /\ caller \in [Callers -> {"away", "taken", "waiting", "replied"}]
           /\ serves \in [Members -> Clients \cup {Idle}] /\ step \in [Members -> 1..3]
           /\ mailbox \in [Members -> Seq(Messages)] /\ port \in [Members -> Seq(Commands)]
           /\ late \in [Members -> BOOLEAN]
BY DEF IInv, TypeOK, Messages

LEMMA TypedAt ==
    ASSUME IInv, NEW m \in Members
    PROVE  /\ mailbox[m] \in Seq(Messages) /\ port[m] \in Seq(Commands)
           /\ Len(mailbox[m]) \in Nat /\ Len(port[m]) \in Nat
           /\ \A i \in 1..Len(mailbox[m]) : mailbox[m][i] \in Messages
           /\ \A i \in 1..Len(port[m]) : port[m][i] \in Commands
<1>1. mailbox[m] \in Seq(Messages) /\ port[m] \in Seq(Commands)
  BY Typed
<1> QED
  BY <1>1, ElementOfSeq, LenProperties

\* A member that loses messages has no more to do than before.
LEMMA FewerRequests ==
    ASSUME NEW m \in Members, OneRequest(m), Part(mailbox[m], mailbox'[m]),
           serves'[m] = serves[m] \/ serves'[m] \notin Callers
    PROVE  /\ OneRequest(m)' /\ Unfinished(m)' \subseteq Unfinished(m)
           /\ serves[m] \in Callers => \A i \in 1..Len(mailbox'[m]) : ~Asked(m, i)'
<1>1. PICK f \in [1..Len(mailbox'[m]) -> 1..Len(mailbox[m])] :
         /\ \A i, j \in 1..Len(mailbox'[m]) : f[i] = f[j] => i = j
         /\ \A i \in 1..Len(mailbox'[m]) : mailbox'[m][i] = mailbox[m][f[i]]
  BY DEF Part
<1>2. \A i \in 1..Len(mailbox'[m]) : f[i] \in 1..Len(mailbox[m]) /\ Asked(m, i)' = Asked(m, f[i])
  BY <1>1 DEF Asked
<1>3. OneRequest(m)'
  <2>1. ASSUME NEW i \in 1..Len(mailbox'[m]), NEW j \in 1..Len(mailbox'[m]),
               Asked(m, i)', Asked(m, j)'
        PROVE  i = j
    <3>1. f[i] = f[j]
      BY <1>2, <2>1 DEF OneRequest
    <3>2. QED
      BY <1>1, <3>1
  <2>2. ASSUME serves'[m] \in Callers, NEW i \in 1..Len(mailbox'[m]) PROVE ~Asked(m, i)'
    BY <1>2, <2>2 DEF OneRequest
  <2>3. QED
    BY <2>1, <2>2 DEF OneRequest
<1>4. Unfinished(m)' \subseteq Unfinished(m)
  <2> SUFFICES ASSUME NEW c \in Unfinished(m)' PROVE c \in Unfinished(m)
    OBVIOUS
  <2>1. c \in Callers
    BY DEF Unfinished
  <2>2. CASE serves'[m] = c
    BY <2>1, <2>2 DEF Unfinished
  <2>3. CASE \E i \in 1..Len(mailbox'[m]) :
               mailbox'[m][i].kind = "request" /\ mailbox'[m][i].from = c
    <3>1. PICK i \in 1..Len(mailbox'[m]) :
               mailbox'[m][i].kind = "request" /\ mailbox'[m][i].from = c
      BY <2>3
    <3>2. /\ f[i] \in 1..Len(mailbox[m])
          /\ mailbox[m][f[i]].kind = "request" /\ mailbox[m][f[i]].from = c
      BY <1>1, <3>1
    <3>3. QED
      BY <2>1, <3>2 DEF Unfinished
  <2>4. QED
    BY <2>2, <2>3 DEF Unfinished
<1>5. ASSUME serves[m] \in Callers, NEW i \in 1..Len(mailbox'[m]) PROVE ~Asked(m, i)'
  BY <1>2, <1>5 DEF OneRequest
<1> QED
  BY <1>3, <1>4, <1>5

\* The members that a step does not touch.
LEMMA OtherMember ==
    ASSUME IInv, NEW n \in Members,
           serves'[n] = serves[n], step'[n] = step[n], mailbox'[n] = mailbox[n],
           port'[n] = port[n], late'[n] = late[n]
    PROVE  OneRequest(n)' /\ InStep(n)' /\ Unfinished(n)' = Unfinished(n)
<1>1. OneRequest(n) /\ InStep(n)
  BY DEF IInv
<1>2. OneRequest(n)'
  BY <1>1 DEF OneRequest, Asked
<1>3. InStep(n)'
  BY <1>1 DEF InStep, DataIn
<1>4. Unfinished(n)' = Unfinished(n)
  BY DEF Unfinished
<1> QED
  BY <1>2, <1>3, <1>4

\* A member that somebody has who does not wait for it, or nobody who gave it
\* up, has nothing to do.
LEMMA NothingLeft ==
    ASSUME IInv, NEW m \in Members, holder[m] # Nobody,
           \A c \in Callers : ~WaitsFor(c, m)
    PROVE  Unfinished(m) = {}
BY DEF IInv, AbandonedIsNotReused, Unfinished

\* A reply changes the step of the one who waits for it, if anybody's.
LEMMA ReplyTo ==
    ASSUME IInv, NEW m \in Members, NEW c \in Clients, Reply(c, m), UNCHANGED holder
    PROVE  /\ caller' \in [Callers -> {"away", "taken", "waiting", "replied"}]
           /\ HeldOnce'
           /\ \A d \in Callers, n \in Members :
                 WaitsFor(d, n) /\ ~(d = c /\ n = m) => WaitsFor(d, n)'
<1>1. caller' \in [Callers -> {"away", "taken", "waiting", "replied"}]
  BY Typed DEF Reply
<1>2. \A d \in Callers : \/ caller'[d] = caller[d]
                         \/ d = c /\ holder[m] = d /\ caller'[d] = "replied"
  BY DEF Reply
<1>3. HeldOnce'
  BY <1>2 DEF IInv, HeldOnce
<1>4. ASSUME NEW d \in Callers, NEW n \in Members, WaitsFor(d, n), ~(d = c /\ n = m)
      PROVE  WaitsFor(d, n)'
  <2>1. caller'[d] = caller[d]
    <3>1. SUFFICES ASSUME d = c, holder[m] = d PROVE FALSE
      BY <1>2
    <3>2. holder[n] = holder[m] /\ n # m /\ holder[n] \in Callers
      BY <1>4, <3>1 DEF WaitsFor
    <3>3. QED
      BY <3>2 DEF IInv, HeldOnce
  <2>2. QED
    BY <1>4, <2>1 DEF WaitsFor
<1> QED
  BY <1>1, <1>3, <1>4

-----------------------------------------------------------------------------
(* The hands a member goes through *)

LEMMA HandStep ==
    ASSUME IInv, NEW c \in Callers, UNCHANGED memberVars,
           TakeNothing(c) \/ \E m \in Members : Take(c, m) \/ AskTimesOut(c, m) \/ Return(c, m)
    PROVE  IInv'
<1> USE NamesAssumption
<1>1. UNCHANGED <<serves, step, mailbox, boot, port, running, late>>
  BY DEF memberVars
<1>2. \A n \in Members : OneRequest(n)' /\ InStep(n)' /\ Unfinished(n)' = Unfinished(n)
  BY <1>1, OtherMember
<1>3. CASE TakeNothing(c)
  <2>1. caller' = caller /\ holder' = holder
    BY <1>3, Typed DEF TakeNothing, Moves
  <2>2. TypeOK' /\ HeldOnce' /\ AbandonedIsNotReused'
    BY <1>1, <1>2, <2>1 DEF IInv, TypeOK, HeldOnce, AbandonedIsNotReused, WaitsFor
  <2>3. QED
    BY <1>2, <2>2 DEF IInv
<1>4. ASSUME NEW m \in Members, Take(c, m) \/ AskTimesOut(c, m) \/ Return(c, m)
      PROVE  TypeOK' /\ HeldOnce' /\ AbandonedIsNotReused'
  <2>1. PICK h \in {c, Nobody, Pool}, to \in {"taken", "away"} :
           /\ holder' = [holder EXCEPT ![m] = h]
           /\ caller' = [caller EXCEPT ![c] = to]
           /\ \/ h = c /\ to = "taken" /\ holder[m] = Pool /\ caller[c] = "away"
              \/ h = Nobody /\ to = "away" /\ holder[m] = c /\ caller[c] = "waiting"
              \/ h = Pool /\ to = "away" /\ holder[m] = c /\ caller[c] = "replied"
    <3>1. CASE Take(c, m)
      BY <3>1 DEF Take, Moves
    <3>2. CASE AskTimesOut(c, m)
      BY <3>2 DEF AskTimesOut, Moves
    <3>3. CASE Return(c, m)
      BY <3>3 DEF Return, Moves
    <3>4. QED
      BY <1>4, <3>1, <3>2, <3>3
  <2>2. /\ holder' \in [Members -> Callers \cup {Pool, Nobody}]
        /\ caller' \in [Callers -> {"away", "taken", "waiting", "replied"}]
        /\ holder'[m] = h /\ \A n \in Members : n # m => holder'[n] = holder[n]
        /\ caller'[c] = to /\ \A d \in Callers : d # c => caller'[d] = caller[d]
    BY <2>1, Typed
  <2>3. TypeOK'
    BY <1>1, <2>2 DEF IInv, TypeOK
  <2>4. HeldOnce'
    <3>1. ASSUME NEW n \in Members, n # m, holder[n] = c PROVE FALSE
      BY <2>1, <3>1 DEF IInv, HeldOnce
    <3>2. ASSUME NEW n \in Members, NEW k \in Members,
                 holder'[n] \in Callers, holder'[n] = holder'[k]
          PROVE  n = k
      BY <2>1, <2>2, <3>1, <3>2 DEF IInv, HeldOnce
    <3>3. ASSUME NEW n \in Members, holder'[n] \in Callers
          PROVE  caller'[holder'[n]] # "away"
      <4>1. CASE n = m
        BY <2>1, <2>2, <3>3, <4>1
      <4>2. CASE n # m
        <5>1. holder'[n] = holder[n] /\ holder[n] # c
          BY <2>2, <3>1, <4>2
        <5>2. QED
          BY <2>2, <3>3, <5>1 DEF IInv, HeldOnce
      <4>3. QED
        BY <4>1, <4>2
    <3>4. QED
      BY <3>2, <3>3 DEF HeldOnce
  <2>5. AbandonedIsNotReused'
    <3> SUFFICES ASSUME NEW n \in Members, NEW d \in Unfinished(n)'
                 PROVE  WaitsFor(d, n)' \/ holder'[n] = Nobody
      BY DEF AbandonedIsNotReused
    <3>1. d \in Unfinished(n) /\ d \in Callers
      BY <1>2 DEF Unfinished
    <3>2. WaitsFor(d, n) \/ holder[n] = Nobody
      BY <3>1 DEF IInv, AbandonedIsNotReused
    <3>3. CASE n = m
      BY <2>1, <2>2, <3>1, <3>2, <3>3 DEF WaitsFor
    <3>4. CASE n # m
      <4>1. holder[n] = c => holder[m] # c /\ caller[c] # "away"
        BY <3>4 DEF IInv, HeldOnce
      <4>2. QED
        BY <2>1, <2>2, <3>1, <3>2, <3>4, <4>1 DEF WaitsFor
    <3>5. QED
      BY <3>3, <3>4
  <2>6. QED
    BY <2>3, <2>4, <2>5
<1> QED
  BY <1>2, <1>3, <1>4 DEF IInv
-----------------------------------------------------------------------------
(* Requests *)

\* A message more in the mailbox of m.
LEMMA Posted ==
    ASSUME IInv, NEW m \in Members, NEW x \in Messages, Post(m, x)
    PROVE  /\ mailbox' \in [Members -> Seq(Messages)]
           /\ \A n \in Members : n # m => mailbox'[n] = mailbox[n]
           /\ Len(mailbox'[m]) = Len(mailbox[m]) + 1
           /\ \A i \in 1..Len(mailbox[m]) : mailbox'[m][i] = mailbox[m][i]
           /\ mailbox'[m][Len(mailbox[m]) + 1] = x
           /\ \A i \in 1..Len(mailbox'[m]) :
                 i \in 1..Len(mailbox[m]) \/ i = Len(mailbox[m]) + 1
<1> DEFINE longer == Append(mailbox[m], x)
<1>1. /\ longer \in Seq(Messages) /\ Len(longer) = Len(mailbox[m]) + 1
      /\ \A i \in 1..Len(mailbox[m]) : longer[i] = mailbox[m][i]
      /\ longer[Len(mailbox[m]) + 1] = x
  BY TypedAt, AppendProperties
<1>2. mailbox' = [mailbox EXCEPT ![m] = longer]
  BY DEF Post
<1> HIDE DEF longer
<1>3. /\ mailbox' \in [Members -> Seq(Messages)] /\ mailbox'[m] = longer
      /\ \A n \in Members : n # m => mailbox'[n] = mailbox[n]
  BY <1>1, <1>2, Typed, Updated
<1> QED
  BY <1>1, <1>3, TypedAt

\* A request is no answer: members stay in step.
LEMMA PostedInStep ==
    ASSUME IInv, NEW m \in Members, NEW x \in Messages, x.kind = "request", Post(m, x),
           UNCHANGED <<serves, step, port, late>>
    PROVE  \A n \in Members : InStep(n)'
<1> SUFFICES ASSUME NEW n \in Members PROVE InStep(n)'
  OBVIOUS
<1>1. CASE n # m
  BY <1>1, Posted, OtherMember
<1>2. CASE n = m
  <2>1. /\ Len(mailbox'[m]) = Len(mailbox[m]) + 1 /\ Len(mailbox[m]) \in Nat
        /\ \A i \in 1..Len(mailbox[m]) : mailbox'[m][i] = mailbox[m][i]
        /\ mailbox'[m][Len(mailbox[m]) + 1] = x
        /\ \A i \in 1..Len(mailbox'[m]) : i \in 1..Len(mailbox[m]) \/ i = Len(mailbox[m]) + 1
    BY Posted, TypedAt
  <2>2. DataIn(m)' = DataIn(m) /\ \A i \in DataIn(m) : mailbox'[m][i] = mailbox[m][i]
    BY <2>1 DEF DataIn
  <2>3. QED
    BY <1>2, <2>2 DEF IInv, InStep
<1> QED
  BY <1>1, <1>2

\* Whoever asks has a member that has nothing else to do.
LEMMA AskStep ==
    ASSUME IInv, NEW c \in Callers, NEW m \in Members, Ask(c, m)
    PROVE  IInv'
<1> USE NamesAssumption, KindsAssumption
<1>1. PICK k \in AllKinds : Post(m, Request(c, k))
  BY DEF Ask
<1>2. /\ caller[c] = "taken" /\ caller' = [caller EXCEPT ![c] = "waiting"] /\ holder[m] = c
      /\ UNCHANGED <<holder, serves, step, boot, port, running, late>>
  BY DEF Ask, Moves
<1> DEFINE x == Request(c, k)
<1>3. x \in Messages /\ x.kind = "request" /\ x.from = c
  BY DEF Messages, Requests, Clients, Request
<1>4. Post(m, x)
  BY <1>1
<1> HIDE DEF x
<1>5. /\ caller' \in [Callers -> {"away", "taken", "waiting", "replied"}]
      /\ caller'[c] = "waiting" /\ \A d \in Callers : d # c => caller'[d] = caller[d]
  BY <1>2, Typed
<1>6. TypeOK'
  BY <1>2, <1>3, <1>4, <1>5, Posted DEF IInv, TypeOK, Messages
<1>7. HeldOnce'
  BY <1>2, <1>5 DEF IInv, HeldOnce
<1>8. Unfinished(m) = {}
  <2>1. \A d \in Callers : ~WaitsFor(d, m)
    BY <1>2 DEF WaitsFor
  <2>2. QED
    BY <1>2, <2>1, NothingLeft
<1>9. /\ serves[m] \notin Callers
      /\ \A i \in 1..Len(mailbox[m]) : ~Asked(m, i)
  BY <1>8 DEF Unfinished, Asked
<1>10. /\ mailbox'[m][Len(mailbox[m]) + 1] = x
       /\ \A i \in 1..Len(mailbox[m]) : mailbox'[m][i] = mailbox[m][i]
       /\ \A i \in 1..Len(mailbox'[m]) : i \in 1..Len(mailbox[m]) \/ i = Len(mailbox[m]) + 1
  BY <1>3, <1>4, Posted
<1>11. \A i \in 1..Len(mailbox'[m]) :
          Asked(m, i)' => i = Len(mailbox[m]) + 1 /\ mailbox'[m][i] = x
  BY <1>9, <1>10 DEF Asked
<1>12. OneRequest(m)' /\ Unfinished(m)' \subseteq {c}
  <2>1. OneRequest(m)'
    BY <1>2, <1>9, <1>11 DEF OneRequest
  <2>2. Unfinished(m)' \subseteq {c}
    BY <1>2, <1>3, <1>9, <1>11 DEF Unfinished, Asked
  <2>3. QED
    BY <2>1, <2>2
<1>13. \A n \in Members : n # m => OneRequest(n)' /\ Unfinished(n)' = Unfinished(n)
  BY <1>2, <1>3, <1>4, Posted, OtherMember
<1>14. AbandonedIsNotReused'
  <2> SUFFICES ASSUME NEW n \in Members, NEW d \in Unfinished(n)'
               PROVE  WaitsFor(d, n)' \/ holder'[n] = Nobody
    BY DEF AbandonedIsNotReused
  <2>1. CASE n = m
    BY <1>2, <1>5, <1>12, <2>1 DEF WaitsFor
  <2>2. CASE n # m
    <3>1. d \in Callers /\ (WaitsFor(d, n) \/ holder[n] = Nobody)
      BY <1>13, <2>2 DEF IInv, AbandonedIsNotReused, Unfinished
    <3>2. QED
      BY <1>2, <1>5, <3>1 DEF WaitsFor
  <2>3. QED
    BY <2>1, <2>2
<1>15. \A n \in Members : OneRequest(n)' /\ InStep(n)'
  BY <1>2, <1>3, <1>4, <1>12, <1>13, PostedInStep
<1> QED
  BY <1>6, <1>7, <1>14, <1>15 DEF IInv

\* The call of the process that a member's init/1 spawns is no caller's.
LEMMA BootStep ==
    ASSUME IInv, NEW m \in Members, BootCall(m)
    PROVE  IInv'
<1> USE NamesAssumption
<1> DEFINE x == Request(Boot, "operate")
<1>1. /\ Post(m, x) /\ boot' = [boot EXCEPT ![m] = FALSE]
      /\ UNCHANGED <<holder, caller, serves, step, port, running, late>>
  BY DEF BootCall
<1>2. x \in Messages /\ x.kind = "request" /\ x.from = Boot
  BY DEF Messages, Requests, Clients, Request, AllKinds
<1> HIDE DEF x
<1>3. TypeOK'
  <2>1. boot' \in [Members -> BOOLEAN]
    BY <1>1 DEF IInv, TypeOK
  <2>2. QED
    BY <1>1, <1>2, <2>1, Posted DEF IInv, TypeOK, Messages
<1>4. HeldOnce'
  BY <1>1 DEF IInv, HeldOnce
<1>5. /\ mailbox'[m][Len(mailbox[m]) + 1] = x
      /\ \A i \in 1..Len(mailbox[m]) : mailbox'[m][i] = mailbox[m][i]
      /\ \A i \in 1..Len(mailbox'[m]) : i \in 1..Len(mailbox[m]) \/ i = Len(mailbox[m]) + 1
  BY <1>1, <1>2, Posted
<1>6. \A i \in 1..Len(mailbox'[m]) : Asked(m, i)' => i \in 1..Len(mailbox[m]) /\ Asked(m, i)
  BY <1>2, <1>5 DEF Asked
<1>7. OneRequest(m)' /\ Unfinished(m)' \subseteq Unfinished(m)
  <2>1. OneRequest(m)'
    BY <1>1, <1>6 DEF IInv, OneRequest
  <2>2. ASSUME NEW d \in Unfinished(m)' PROVE d \in Unfinished(m)
    <3>1. d \in Callers /\ (serves[m] = d \/ \E i \in 1..Len(mailbox'[m]) :
                               mailbox'[m][i].kind = "request" /\ mailbox'[m][i].from = d)
      BY <1>1 DEF Unfinished
    <3>2. ASSUME NEW i \in 1..Len(mailbox'[m]),
                 mailbox'[m][i].kind = "request", mailbox'[m][i].from = d
          PROVE  d \in Unfinished(m)
      <4>1. i \in 1..Len(mailbox[m]) /\ mailbox'[m][i] = mailbox[m][i]
        BY <1>5, <1>6, <3>1, <3>2 DEF Asked
      <4>2. QED
        BY <3>1, <3>2, <4>1 DEF Unfinished
    <3>3. CASE serves[m] = d
      BY <3>1, <3>3 DEF Unfinished
    <3>4. QED
      BY <3>1, <3>2, <3>3
  <2>3. QED
    BY <2>1, <2>2
<1>8. \A n \in Members : n # m => OneRequest(n)' /\ Unfinished(n)' = Unfinished(n)
  BY <1>1, <1>2, Posted, OtherMember
<1>9. AbandonedIsNotReused'
  BY <1>1, <1>7, <1>8 DEF IInv, AbandonedIsNotReused, WaitsFor
<1>10. \A n \in Members : OneRequest(n)' /\ InStep(n)'
  BY <1>1, <1>2, <1>7, <1>8, PostedInStep
<1> QED
  BY <1>3, <1>4, <1>9, <1>10 DEF IInv
-----------------------------------------------------------------------------
(* What a member takes from its mailbox and gives to its port *)

\* A member that waits for no answer has nothing on its way, unless an answer
\* was late.
LEMMA IdleIsQuiet ==
    ASSUME IInv, NEW m \in Members, serves[m] = Idle, ~late[m]
    PROVE  DataIn(m) = {} /\ \A i \in 1..Len(port[m]) : FALSE
<1> USE NamesAssumption
<1>1. Idle \notin Clients
  BY DEF Clients
<1>2. InStep(m)
  BY DEF IInv
<1>3. ASSUME NEW i \in DataIn(m) PROVE FALSE
  <2>1. mailbox[m][i].from = Idle
    BY <1>2, <1>3 DEF InStep
  <2>2. mailbox[m][i] \in Messages
    BY <1>3, TypedAt DEF DataIn
  <2>3. QED
    BY <1>1, <2>1, <2>2, MessageType
<1>4. ASSUME NEW i \in 1..Len(port[m]) PROVE FALSE
  <2>1. port[m][i].from = Idle
    BY <1>2, <1>4 DEF InStep
  <2>2. port[m][i].from \in Clients
    BY <1>4, TypedAt DEF Commands
  <2>3. QED
    BY <1>1, <2>1, <2>2
<1> QED
  BY <1>3, <1>4

\* Answers and commands that are lost leave the others in step.
LEMMA FewerInStep ==
    ASSUME NEW m \in Members, InStep(m),
           Part(mailbox[m], mailbox'[m]), Part(port[m], port'[m]),
           serves'[m] = serves[m], step'[m] = step[m], late'[m] = late[m]
    PROVE  InStep(m)'
<1>1. PICK f \in [1..Len(mailbox'[m]) -> 1..Len(mailbox[m])] :
         /\ \A i, j \in 1..Len(mailbox'[m]) : f[i] = f[j] => i = j
         /\ \A i \in 1..Len(mailbox'[m]) : mailbox'[m][i] = mailbox[m][f[i]]
  BY DEF Part
<1>2. PICK g \in [1..Len(port'[m]) -> 1..Len(port[m])] :
         /\ \A i, j \in 1..Len(port'[m]) : g[i] = g[j] => i = j
         /\ \A i \in 1..Len(port'[m]) : port'[m][i] = port[m][g[i]]
  BY DEF Part
<1>3. /\ DataIn(m)' \subseteq 1..Len(mailbox'[m])
      /\ \A i \in DataIn(m)' : f[i] \in DataIn(m) /\ mailbox'[m][i] = mailbox[m][f[i]]
  BY <1>1 DEF DataIn
<1>4. \A i \in 1..Len(port'[m]) : g[i] \in 1..Len(port[m]) /\ port'[m][i] = port[m][g[i]]
  BY <1>2
<1>5. CASE late[m]
  BY <1>5 DEF InStep
<1>6. CASE ~late[m]
  <2>1. \A i \in DataIn(m)' : mailbox'[m][i].from = serves'[m] /\ mailbox'[m][i].step = step'[m]
    BY <1>3, <1>6 DEF InStep
  <2>2. \A i \in 1..Len(port'[m]) : port'[m][i].from = serves'[m] /\ port'[m][i].step = step'[m]
    BY <1>4, <1>6 DEF InStep
  <2>3. ASSUME NEW i \in DataIn(m)', NEW j \in DataIn(m)' PROVE i = j
    <3>1. f[i] = f[j]
      BY <1>3, <1>6 DEF InStep
    <3>2. QED
      BY <1>1, <1>3, <3>1
  <2>4. ASSUME NEW i \in 1..Len(port'[m]), NEW j \in 1..Len(port'[m]) PROVE i = j
    <3>1. g[i] = g[j]
      BY <1>4, <1>6 DEF InStep
    <3>2. QED
      BY <1>2, <3>1
  <2>5. \A i \in DataIn(m)', j \in 1..Len(port'[m]) : FALSE
    BY <1>3, <1>4, <1>6 DEF InStep
  <2>6. QED
    BY <2>1, <2>2, <2>3, <2>4, <2>5 DEF InStep
<1> QED
  BY <1>5, <1>6

LEMMA HeadTaken ==
    ASSUME IInv, NEW m \in Members, HasMail(m), DropHead(m)
    PROVE  /\ mailbox' \in [Members -> Seq(Messages)]
           /\ \A n \in Members : n # m => mailbox'[n] = mailbox[n]
           /\ Part(mailbox[m], mailbox'[m])
           /\ 1 \in 1..Len(mailbox[m]) /\ Head(mailbox[m]) = mailbox[m][1]
           /\ Head(mailbox[m]) \in Messages
           /\ \A i \in 1..Len(mailbox'[m]) :
                 i + 1 \in 1..Len(mailbox[m]) /\ i + 1 # 1 /\ mailbox'[m][i] = mailbox[m][i + 1]
<1> DEFINE shorter == Tail(mailbox[m])
<1>1. mailbox[m] # <<>> /\ mailbox' = [mailbox EXCEPT ![m] = shorter]
  BY DEF HasMail, DropHead
<1>2. /\ shorter \in Seq(Messages) /\ Part(mailbox[m], shorter)
      /\ Len(shorter) = Len(mailbox[m]) - 1
      /\ \A i \in 1..Len(shorter) : shorter[i] = mailbox[m][i + 1]
      /\ Head(mailbox[m]) = mailbox[m][1] /\ Head(mailbox[m]) \in Messages
      /\ Len(mailbox[m]) \in Nat /\ 1 \in 1..Len(mailbox[m])
  BY <1>1, TypedAt, TailIsPart, HeadTailProperties
<1> HIDE DEF shorter
<1>3. /\ mailbox' \in [Members -> Seq(Messages)] /\ mailbox'[m] = shorter
      /\ \A n \in Members : n # m => mailbox'[n] = mailbox[n]
  BY <1>1, <1>2, Typed, Updated
<1> QED
  BY <1>2, <1>3

\* The command that is sent is the only one, if there was none.
LEMMA Sent ==
    ASSUME IInv, NEW m \in Members, NEW c \in Clients, NEW n \in 1..3, NEW k \in AllKinds,
           Send(m, c, n, k)
    PROVE  /\ port' \in [Members -> Seq(Commands)]
           /\ \A o \in Members : o # m => port'[o] = port[o]
           /\ (\A i \in 1..Len(port[m]) : FALSE) =>
                 \A i, j \in 1..Len(port'[m]) :
                    i = j /\ port'[m][i].from = c /\ port'[m][i].step = n
<1> DEFINE d == [from |-> c, step |-> n, asks |-> k]
           longer == Append(port[m], d)
<1>1. d \in Commands /\ d.from = c /\ d.step = n
  BY DEF Commands
<1>2. CASE ~running[m]
  BY <1>2, Typed DEF Send
<1>3. CASE running[m]
  <2>1. port' = [port EXCEPT ![m] = longer]
    BY <1>3 DEF Send
  <2> HIDE DEF d
  <2>2. /\ longer \in Seq(Commands) /\ Len(longer) = Len(port[m]) + 1 /\ Len(port[m]) \in Nat
        /\ longer[Len(port[m]) + 1] = d
    BY <1>1, TypedAt, AppendProperties
  <2> HIDE DEF longer
  <2>3. /\ port' \in [Members -> Seq(Commands)] /\ port'[m] = longer
        /\ \A o \in Members : o # m => port'[o] = port[o]
    BY <2>1, <2>2, Typed, Updated
  <2>4. ASSUME \A i \in 1..Len(port[m]) : FALSE
        PROVE  \A i, j \in 1..Len(port'[m]) :
                  i = j /\ port'[m][i].from = c /\ port'[m][i].step = n
    <3>1. Len(port[m]) = 0
      BY <2>2, <2>4
    <3>2. Len(port'[m]) = 1 /\ port'[m][1] = d
      BY <2>2, <2>3, <3>1
    <3>3. \A i \in 1..Len(port'[m]) : i = 1
      BY <3>2
    <3>4. QED
      BY <1>1, <3>2, <3>3
  <2>5. QED
    BY <2>3, <2>4
<1> QED
  BY <1>2, <1>3

\* handle_info drops what comes too late.
LEMMA DropStep ==
    ASSUME IInv, NEW m \in Members, DropData(m)
    PROVE  IInv'
<1>1. /\ HasMail(m) /\ DropHead(m)
      /\ UNCHANGED <<holder, caller, serves, step, boot, port, running, late>>
  BY DEF DropData
<1>2. /\ mailbox' \in [Members -> Seq(Messages)]
      /\ \A n \in Members : n # m => mailbox'[n] = mailbox[n]
      /\ Part(mailbox[m], mailbox'[m])
  BY <1>1, HeadTaken
<1>3. Part(port[m], port'[m])
  BY <1>1, TypedAt, PartOfItself
<1>4. OneRequest(m)' /\ Unfinished(m)' \subseteq Unfinished(m)
  BY <1>1, <1>2, FewerRequests DEF IInv
<1>5. InStep(m)'
  BY <1>1, <1>2, <1>3, FewerInStep DEF IInv
<1>6. \A n \in Members : n # m => OneRequest(n)' /\ InStep(n)' /\ Unfinished(n)' = Unfinished(n)
  BY <1>1, <1>2, OtherMember
<1>7. TypeOK'
  BY <1>1, <1>2 DEF IInv, TypeOK, Messages
<1>8. HeldOnce' /\ AbandonedIsNotReused'
  BY <1>1, <1>4, <1>6 DEF IInv, HeldOnce, AbandonedIsNotReused, WaitsFor
<1> QED
  BY <1>4, <1>5, <1>6, <1>7, <1>8 DEF IInv

\* The request that is served is the only one of a caller.
LEMMA ServeStep ==
    ASSUME IInv, NEW m \in Members, Serve(m)
    PROVE  IInv'
<1> USE NamesAssumption
<1> DEFINE r == Head(mailbox[m])
<1>1. /\ HasMail(m) /\ DropHead(m) /\ r.kind = "request" /\ serves[m] = Idle
      /\ step' = [step EXCEPT ![m] = 1] /\ UNCHANGED <<holder, boot, running, late>>
      /\ \/ r.asks = "info" /\ Reply(r.from, m) /\ UNCHANGED <<serves, port>>
         \/ /\ Send(m, r.from, 1, r.asks) /\ UNCHANGED caller
            /\ serves' = [serves EXCEPT ![m] = r.from]
  BY DEF Serve, HasMail
<1>2. /\ mailbox' \in [Members -> Seq(Messages)]
      /\ \A n \in Members : n # m => mailbox'[n] = mailbox[n]
      /\ Part(mailbox[m], mailbox'[m])
      /\ 1 \in 1..Len(mailbox[m]) /\ r = mailbox[m][1] /\ r \in Messages
      /\ \A i \in 1..Len(mailbox'[m]) :
            i + 1 \in 1..Len(mailbox[m]) /\ i + 1 # 1 /\ mailbox'[m][i] = mailbox[m][i + 1]
  BY <1>1, HeadTaken
<1>3. r.from \in Clients /\ r.asks \in AllKinds
  BY <1>1, <1>2, MessageType
<1>4. r.from \in Callers => r.from \in Unfinished(m)
  BY <1>1, <1>2 DEF Unfinished
<1> HIDE DEF r
<1>5. OneRequest(m) /\ InStep(m)
  BY DEF IInv
<1>6. r.from \in Callers => \A i \in 1..Len(mailbox'[m]) : ~Asked(m, i)'
  <2> SUFFICES ASSUME r.from \in Callers, NEW i \in 1..Len(mailbox'[m]), Asked(m, i)'
               PROVE  FALSE
    OBVIOUS
  <2>1. i + 1 \in 1..Len(mailbox[m]) /\ i + 1 # 1 /\ Asked(m, i + 1) /\ Asked(m, 1)
    BY <1>1, <1>2 DEF Asked
  <2>2. QED
    BY <1>2, <1>5, <2>1 DEF OneRequest
<1>7. step' \in [Members -> 1..3] /\ step'[m] = 1 /\ \A n \in Members : n # m => step'[n] = step[n]
  BY <1>1, Typed
<1>8. DataIn(m)' = {} \/ late[m]
  <2> SUFFICES ASSUME ~late[m] PROVE DataIn(m)' = {}
    OBVIOUS
  <2>1. \A j \in 1..Len(mailbox[m]) : mailbox[m][j].kind # "data"
    BY <1>1, IdleIsQuiet DEF DataIn
  <2>2. ASSUME NEW i \in 1..Len(mailbox'[m]) PROVE mailbox'[m][i].kind # "data"
    BY <1>2, <2>1
  <2>3. QED
    BY <2>2 DEF DataIn
<1>9. CASE r.asks = "info" /\ Reply(r.from, m) /\ UNCHANGED <<serves, port>>
  <2>1. /\ caller' \in [Callers -> {"away", "taken", "waiting", "replied"}]
        /\ HeldOnce'
        /\ \A d \in Callers, n \in Members :
              WaitsFor(d, n) /\ ~(d = r.from /\ n = m) => WaitsFor(d, n)'
    BY <1>1, <1>3, <1>9, ReplyTo
  <2>2. OneRequest(m)' /\ Unfinished(m)' \subseteq Unfinished(m)
    BY <1>2, <1>5, <1>9, FewerRequests
  <2>3. r.from \notin Unfinished(m)'
    BY <1>1, <1>2, <1>6, <1>9 DEF Unfinished, Asked
  <2>4. \A n \in Members : n # m => OneRequest(n)' /\ InStep(n)' /\ Unfinished(n)' = Unfinished(n)
    BY <1>1, <1>2, <1>7, <1>9, OtherMember
  <2>5. InStep(m)'
    BY <1>1, <1>8, <1>9, IdleIsQuiet DEF InStep
  <2>6. TypeOK'
    BY <1>1, <1>2, <1>7, <1>9, <2>1 DEF IInv, TypeOK, Messages
  <2>7. AbandonedIsNotReused'
    <3> SUFFICES ASSUME NEW n \in Members, NEW d \in Unfinished(n)'
                 PROVE  WaitsFor(d, n)' \/ holder'[n] = Nobody
      BY DEF AbandonedIsNotReused
    <3>1. d \in Unfinished(n) /\ d \in Callers /\ ~(d = r.from /\ n = m)
      BY <2>2, <2>3, <2>4 DEF Unfinished
    <3>2. WaitsFor(d, n) \/ holder[n] = Nobody
      BY <3>1 DEF IInv, AbandonedIsNotReused
    <3>3. QED
      BY <1>1, <2>1, <3>1, <3>2
  <2>8. QED
    BY <2>1, <2>2, <2>4, <2>5, <2>6, <2>7 DEF IInv
<1>10. CASE /\ Send(m, r.from, 1, r.asks) /\ UNCHANGED caller
            /\ serves' = [serves EXCEPT ![m] = r.from]
  <2>1. /\ port' \in [Members -> Seq(Commands)]
        /\ \A n \in Members : n # m => port'[n] = port[n]
        /\ (\A i \in 1..Len(port[m]) : FALSE) =>
              \A i, j \in 1..Len(port'[m]) :
                 i = j /\ port'[m][i].from = r.from /\ port'[m][i].step = 1
    BY <1>3, <1>10, Sent
  <2>2. /\ serves' \in [Members -> Clients \cup {Idle}] /\ serves'[m] = r.from
        /\ \A n \in Members : n # m => serves'[n] = serves[n]
    BY <1>3, <1>10, Typed
  <2>3. OneRequest(m)'
    <3>1. CASE r.from \in Callers
      BY <1>6, <3>1 DEF OneRequest
    <3>2. CASE r.from \notin Callers
      BY <1>2, <1>5, <2>2, <3>2, FewerRequests
    <3>3. QED
      BY <3>1, <3>2
  <2>4. Unfinished(m)' \subseteq Unfinished(m)
    <3>1. CASE r.from \in Callers
      <4>1. Unfinished(m)' \subseteq {r.from}
        BY <1>2, <1>6, <2>2, <3>1 DEF Unfinished, Asked
      <4>2. QED
        BY <1>4, <3>1, <4>1
    <3>2. CASE r.from \notin Callers
      BY <1>2, <1>5, <2>2, <3>2, FewerRequests
    <3>3. QED
      BY <3>1, <3>2
  <2>5. InStep(m)'
    <3>1. CASE late[m]
      BY <1>1, <3>1 DEF InStep
    <3>2. CASE ~late[m]
      <4>1. \A i \in 1..Len(port[m]) : FALSE
        BY <1>1, <3>2, IdleIsQuiet
      <4>2. \A i, j \in 1..Len(port'[m]) :
               i = j /\ port'[m][i].from = serves'[m] /\ port'[m][i].step = step'[m]
        BY <1>7, <2>1, <2>2, <4>1
      <4>3. DataIn(m)' = {}
        BY <1>8, <3>2
      <4>4. QED
        BY <4>2, <4>3 DEF InStep
    <3>3. QED
      BY <3>1, <3>2
  <2>6. \A n \in Members : n # m => OneRequest(n)' /\ InStep(n)' /\ Unfinished(n)' = Unfinished(n)
    BY <1>1, <1>2, <1>7, <2>1, <2>2, OtherMember
  <2>7. TypeOK'
    BY <1>1, <1>2, <1>7, <1>10, <2>1, <2>2 DEF IInv, TypeOK, Messages
  <2>8. HeldOnce' /\ AbandonedIsNotReused'
    BY <1>1, <1>10, <2>4, <2>6 DEF IInv, HeldOnce, AbandonedIsNotReused, WaitsFor
  <2>9. QED
    BY <2>3, <2>5, <2>6, <2>7, <2>8 DEF IInv
<1> QED
  BY <1>1, <1>9, <1>10
\* call_port returns, with an answer or without: the member goes on with
\* nothing on its way, unless an answer is late.
LEMMA GoesOnStep ==
    ASSUME IInv, NEW m \in Members, serves[m] # Idle, GoesOn(m),
           UNCHANGED <<holder, boot, running>>,
           mailbox' \in [Members -> Seq(Messages)],
           \A n \in Members : n # m => mailbox'[n] = mailbox[n],
           Part(mailbox[m], mailbox'[m]),
           late' \in [Members -> BOOLEAN],
           \A n \in Members : n # m => late'[n] = late[n],
           late'[m] \/ (DataIn(m)' = {} /\ \A i \in 1..Len(port[m]) : FALSE)
    PROVE  IInv'
<1> USE NamesAssumption
<1>1. serves[m] \in Clients /\ step[m] \in 1..3 /\ OneRequest(m)
  BY Typed DEF IInv
<1>2. CASE /\ serves[m] = Boot /\ step[m] < 3
           /\ step' = [step EXCEPT ![m] = @ + 1]
           /\ Send(m, Boot, step[m] + 1, "operate")
           /\ UNCHANGED <<caller, serves>>
  <2>1. PICK k \in 1..3 : k = step[m] + 1
    BY <1>1, <1>2
  <2>2. /\ Boot \in Clients /\ "operate" \in AllKinds
        /\ Send(m, Boot, k, "operate")
    BY <1>2, <2>1 DEF Clients, AllKinds
  <2>3. step' = [step EXCEPT ![m] = k]
    BY <1>2, <2>1
  <2>4. /\ port' \in [Members -> Seq(Commands)]
        /\ \A n \in Members : n # m => port'[n] = port[n]
        /\ (\A i \in 1..Len(port[m]) : FALSE) =>
              \A i, j \in 1..Len(port'[m]) :
                 i = j /\ port'[m][i].from = Boot /\ port'[m][i].step = k
    BY ONLY IInv, m \in Members, k \in 1..3, <2>2, Sent
  <2>5. /\ step' \in [Members -> 1..3] /\ step'[m] = k
        /\ \A n \in Members : n # m => step'[n] = step[n]
    BY <2>3, Typed
  <2>6. OneRequest(m)' /\ Unfinished(m)' \subseteq Unfinished(m)
    BY <1>1, <1>2, FewerRequests
  <2>7. InStep(m)'
    <3>1. CASE late'[m]
      BY <3>1 DEF InStep
    <3>2. CASE DataIn(m)' = {} /\ \A i \in 1..Len(port[m]) : FALSE
      <4>1. \A i, j \in 1..Len(port'[m]) :
               i = j /\ port'[m][i].from = serves'[m] /\ port'[m][i].step = step'[m]
        BY <1>2, <2>4, <2>5, <3>2
      <4>2. QED
        BY <3>2, <4>1 DEF InStep
    <3>3. QED
      BY <3>1, <3>2
  <2>8. \A n \in Members : n # m => OneRequest(n)' /\ InStep(n)' /\ Unfinished(n)' = Unfinished(n)
    BY <1>2, <2>4, <2>5, OtherMember
  <2>9. TypeOK'
    BY <1>2, <2>4, <2>5 DEF IInv, TypeOK, Messages
  <2>10. HeldOnce' /\ AbandonedIsNotReused'
    BY <1>2, <2>6, <2>8 DEF IInv, HeldOnce, AbandonedIsNotReused, WaitsFor
  <2>11. QED
    BY <2>6, <2>7, <2>8, <2>9, <2>10 DEF IInv
<1>3. CASE /\ Reply(serves[m], m)
           /\ serves' = [serves EXCEPT ![m] = Idle]
           /\ UNCHANGED <<step, port>>
  <2>1. /\ caller' \in [Callers -> {"away", "taken", "waiting", "replied"}]
        /\ HeldOnce'
        /\ \A d \in Callers, n \in Members :
              WaitsFor(d, n) /\ ~(d = serves[m] /\ n = m) => WaitsFor(d, n)'
    BY <1>1, <1>3, ReplyTo
  <2>2. /\ serves' \in [Members -> Clients \cup {Idle}] /\ serves'[m] = Idle
        /\ \A n \in Members : n # m => serves'[n] = serves[n]
    BY <1>3, Typed
  <2>3. /\ OneRequest(m)' /\ Unfinished(m)' \subseteq Unfinished(m)
        /\ serves[m] \in Callers => \A i \in 1..Len(mailbox'[m]) : ~Asked(m, i)'
    BY <1>1, <2>2, FewerRequests
  <2>4. serves[m] \notin Unfinished(m)'
    BY <2>2, <2>3 DEF Unfinished, Asked
  <2>5. InStep(m)'
    BY <1>3 DEF InStep
  <2>6. \A n \in Members : n # m => OneRequest(n)' /\ InStep(n)' /\ Unfinished(n)' = Unfinished(n)
    BY <1>3, <2>2, OtherMember
  <2>7. TypeOK'
    BY <1>3, <2>1, <2>2 DEF IInv, TypeOK, Messages
  <2>8. AbandonedIsNotReused'
    <3> SUFFICES ASSUME NEW n \in Members, NEW d \in Unfinished(n)'
                 PROVE  WaitsFor(d, n)' \/ holder'[n] = Nobody
      BY DEF AbandonedIsNotReused
    <3>1. d \in Unfinished(n) /\ d \in Callers /\ ~(d = serves[m] /\ n = m)
      <4>1. CASE n = m
        BY <2>3, <2>4, <4>1 DEF Unfinished
      <4>2. CASE n # m
        <5>1. Unfinished(n)' = Unfinished(n)
          BY <2>6, <4>2
        <5>2. QED
          BY <4>2, <5>1 DEF Unfinished
      <4>3. QED
        BY <4>1, <4>2
    <3>2. WaitsFor(d, n) \/ holder[n] = Nobody
      BY <3>1 DEF IInv, AbandonedIsNotReused
    <3>3. QED
      BY <2>1, <3>1, <3>2
  <2>9. QED
    BY <2>1, <2>3, <2>5, <2>6, <2>7, <2>8 DEF IInv
<1> QED
  BY <1>2, <1>3 DEF GoesOn

\* The answer that is taken was the only thing on its way.
LEMMA ReceiveStep ==
    ASSUME IInv, NEW m \in Members, Receive(m)
    PROVE  IInv'
<1>1. PICK k \in 1..Len(mailbox[m]) :
         /\ FirstData(m, k)
         /\ mailbox' = [mailbox EXCEPT ![m] = Without(@, k)]
  BY DEF Receive
<1>2. serves[m] # Idle /\ GoesOn(m) /\ UNCHANGED <<holder, boot, running, late>>
  BY DEF Receive
<1> DEFINE shorter == Removal(mailbox[m], k)
<1>3. mailbox' = [mailbox EXCEPT ![m] = shorter]
  BY <1>1 DEF Without, Removal
<1>4. /\ shorter \in Seq(Messages) /\ Len(shorter) = Len(mailbox[m]) - 1
      /\ \A i \in 1..k - 1 : shorter[i] = mailbox[m][i]
      /\ \A i \in k..Len(mailbox[m]) - 1 : shorter[i] = mailbox[m][i + 1]
      /\ Part(mailbox[m], shorter)
  BY <1>1, TypedAt, RemovalIsPart
<1> HIDE DEF shorter
<1>5. /\ mailbox' \in [Members -> Seq(Messages)] /\ mailbox'[m] = shorter
      /\ \A n \in Members : n # m => mailbox'[n] = mailbox[n]
  BY <1>3, <1>4, Typed, Updated
<1>6. late[m] \/ (DataIn(m)' = {} /\ \A i \in 1..Len(port[m]) : FALSE)
  <2> SUFFICES ASSUME ~late[m] PROVE DataIn(m)' = {} /\ \A i \in 1..Len(port[m]) : FALSE
    OBVIOUS
  <2>1. k \in DataIn(m) /\ InStep(m)
    BY <1>1 DEF FirstData, IInv
  <2>2. \A i \in 1..Len(port[m]) : FALSE
    BY <2>1 DEF InStep
  <2>3. ASSUME NEW i \in DataIn(m)' PROVE FALSE
    <3>1. i \in 1..Len(shorter) /\ shorter[i].kind = "data"
      BY <1>5, <2>3 DEF DataIn
    <3>2. Len(mailbox[m]) \in Nat
      BY TypedAt
    <3>3. i \in 1..k - 1 \/ i \in k..Len(mailbox[m]) - 1
      BY <1>4, <3>1, <3>2
    <3>4. CASE i \in 1..k - 1
      <4>1. i \in DataIn(m) /\ i # k
        BY <1>4, <3>1, <3>2, <3>4 DEF DataIn
      <4>2. QED
        BY <2>1, <4>1 DEF InStep
    <3>5. CASE i \in k..Len(mailbox[m]) - 1
      <4>1. i + 1 \in DataIn(m) /\ i + 1 # k
        BY <1>4, <3>1, <3>2, <3>5 DEF DataIn
      <4>2. QED
        BY <2>1, <4>1 DEF InStep
    <3>6. QED
      BY <3>3, <3>4, <3>5
  <2>4. QED
    BY <2>2, <2>3
<1>7. Part(mailbox[m], mailbox'[m])
  BY <1>4, <1>5
<1>8. late'[m] \/ (DataIn(m)' = {} /\ \A i \in 1..Len(port[m]) : FALSE)
  BY <1>2, <1>6
<1>9. late' \in [Members -> BOOLEAN] /\ \A n \in Members : n # m => late'[n] = late[n]
  BY <1>2, Typed
<1> QED
  BY <1>2, <1>5, <1>7, <1>8, <1>9, GoesOnStep

LEMMA ReceiveTimesOutStep ==
    ASSUME IInv, NEW m \in Members, ReceiveTimesOut(m)
    PROVE  IInv'
<1>1. /\ serves[m] # Idle /\ late' = [late EXCEPT ![m] = TRUE] /\ GoesOn(m)
      /\ UNCHANGED <<holder, mailbox, boot, running>>
  BY DEF ReceiveTimesOut
<1>2. /\ late' \in [Members -> BOOLEAN] /\ late'[m]
      /\ \A n \in Members : n # m => late'[n] = late[n]
  BY <1>1, Typed
<1>3. Part(mailbox[m], mailbox'[m])
  BY <1>1, TypedAt, PartOfItself
<1>4. mailbox' \in [Members -> Seq(Messages)]
  BY <1>1, Typed
<1> QED
  BY <1>1, <1>2, <1>3, <1>4, GoesOnStep

\* A new member knows nothing of the one it replaces.
LEMMA RenewStep ==
    ASSUME IInv, NEW m \in Members, Renew(m)
    PROVE  IInv'
<1> USE NamesAssumption
<1>1. /\ serves' = [serves EXCEPT ![m] = Idle] /\ step' = [step EXCEPT ![m] = 1]
      /\ mailbox' = [mailbox EXCEPT ![m] = <<>>] /\ port' = [port EXCEPT ![m] = <<>>]
      /\ boot' = [boot EXCEPT ![m] = TRUE] /\ running' = [running EXCEPT ![m] = TRUE]
      /\ late' = [late EXCEPT ![m] = FALSE] /\ holder' = [holder EXCEPT ![m] = Pool]
      /\ caller' = [c \in Callers |-> IF holder[m] = c THEN "away" ELSE caller[c]]
  BY DEF Renew
<1>2. <<>> \in Seq(Messages) /\ <<>> \in Seq(Commands) /\ 1..Len(<<>>) = {}
  BY EmptySeq
<1>3. /\ mailbox' \in [Members -> Seq(Messages)] /\ mailbox'[m] = <<>>
      /\ port' \in [Members -> Seq(Commands)] /\ port'[m] = <<>>
      /\ \A n \in Members : n # m => mailbox'[n] = mailbox[n] /\ port'[n] = port[n]
  BY <1>1, <1>2, Typed, Updated
<1>4. /\ serves' \in [Members -> Clients \cup {Idle}] /\ step' \in [Members -> 1..3]
      /\ late' \in [Members -> BOOLEAN] /\ holder' \in [Members -> Callers \cup {Pool, Nobody}]
      /\ serves'[m] = Idle /\ holder'[m] = Pool
      /\ \A n \in Members : n # m => /\ serves'[n] = serves[n] /\ step'[n] = step[n]
                                     /\ late'[n] = late[n] /\ holder'[n] = holder[n]
  BY <1>1, Typed
<1>5. caller' \in [Callers -> {"away", "taken", "waiting", "replied"}]
  BY <1>1, Typed
<1>6. TypeOK'
  <2>1. boot' \in [Members -> BOOLEAN] /\ running' \in [Members -> BOOLEAN]
    BY <1>1 DEF IInv, TypeOK
  <2>2. QED
    BY <1>3, <1>4, <1>5, <2>1 DEF TypeOK, Messages
<1>7. OneRequest(m)' /\ InStep(m)' /\ Unfinished(m)' = {}
  BY <1>2, <1>3, <1>4 DEF OneRequest, InStep, DataIn, Unfinished, Clients
<1>8. \A n \in Members : n # m => OneRequest(n)' /\ InStep(n)' /\ Unfinished(n)' = Unfinished(n)
  BY <1>3, <1>4, OtherMember
<1>9. HeldOnce'
  <2>1. ASSUME NEW n \in Members, NEW o \in Members,
               holder'[n] \in Callers, holder'[n] = holder'[o]
        PROVE  n = o
    BY <1>4, <2>1 DEF IInv, HeldOnce
  <2>2. ASSUME NEW n \in Members, holder'[n] \in Callers
        PROVE  caller'[holder'[n]] # "away"
    <3>1. n # m /\ holder'[n] = holder[n] /\ holder[n] # holder[m]
      BY <1>4, <2>2 DEF IInv, HeldOnce
    <3>2. caller'[holder[n]] = caller[holder[n]]
      BY <1>1, <2>2, <3>1
    <3>3. QED
      BY <2>2, <3>1, <3>2 DEF IInv, HeldOnce
  <2>3. QED
    BY <2>1, <2>2 DEF HeldOnce
<1>10. AbandonedIsNotReused'
  <2> SUFFICES ASSUME NEW n \in Members, NEW d \in Unfinished(n)'
               PROVE  WaitsFor(d, n)' \/ holder'[n] = Nobody
    BY DEF AbandonedIsNotReused
  <2>1. n # m /\ d \in Unfinished(n) /\ d \in Callers
    BY <1>7, <1>8 DEF Unfinished
  <2>2. WaitsFor(d, n) \/ holder[n] = Nobody
    BY <2>1 DEF IInv, AbandonedIsNotReused
  <2>3. CASE holder[n] = Nobody
    BY <1>4, <2>1, <2>3
  <2>4. CASE WaitsFor(d, n)
    <3>1. holder[m] # d
      BY <2>1, <2>4 DEF IInv, HeldOnce, WaitsFor
    <3>2. QED
      BY <1>1, <1>4, <2>1, <2>4, <3>1 DEF WaitsFor
  <2>5. QED
    BY <2>2, <2>3, <2>4
<1> QED
  BY <1>6, <1>7, <1>8, <1>9, <1>10 DEF IInv
-----------------------------------------------------------------------------
(* The programs *)

\* What comes of the command that is executed is what it was.
LEMMA ExecuteStep ==
    ASSUME IInv, NEW m \in Members, Execute(m)
    PROVE  IInv'
<1> DEFINE k == Head(port[m])
           shorter == Tail(port[m])
<1>1. /\ port[m] # <<>> /\ port' = [port EXCEPT ![m] = shorter]
      /\ UNCHANGED <<holder, caller, serves, step, boot, running, late>>
      /\ \/ \E term \in {"whole", "cut"} :
               Post(m, [kind |-> "data", from |-> k.from, step |-> k.step, term |-> term])
         \/ UNCHANGED mailbox
  BY DEF Execute
<1>2. /\ shorter \in Seq(Commands) /\ Part(port[m], shorter)
      /\ Len(shorter) = Len(port[m]) - 1 /\ Len(port[m]) \in Nat /\ 1 \in 1..Len(port[m])
      /\ k = port[m][1] /\ k \in Commands
  BY <1>1, TypedAt, TailIsPart, HeadTailProperties
<1> HIDE DEF k, shorter
<1>3. /\ port' \in [Members -> Seq(Commands)] /\ port'[m] = shorter
      /\ \A n \in Members : n # m => port'[n] = port[n]
  BY <1>1, <1>2, Typed, Updated
<1>4. OneRequest(m) /\ InStep(m)
  BY DEF IInv
<1>5. CASE UNCHANGED mailbox
  <2>1. Part(mailbox[m], mailbox'[m]) /\ Part(port[m], port'[m])
    BY <1>2, <1>3, <1>5, TypedAt, PartOfItself
  <2>2. OneRequest(m)' /\ InStep(m)' /\ Unfinished(m)' \subseteq Unfinished(m)
    BY <1>1, <1>4, <2>1, FewerRequests, FewerInStep
  <2>3. \A n \in Members : n # m => OneRequest(n)' /\ InStep(n)' /\ Unfinished(n)' = Unfinished(n)
    BY <1>1, <1>3, <1>5, OtherMember
  <2>4. TypeOK'
    BY <1>1, <1>3, <1>5 DEF IInv, TypeOK
  <2>5. HeldOnce' /\ AbandonedIsNotReused'
    BY <1>1, <2>2, <2>3 DEF IInv, HeldOnce, AbandonedIsNotReused, WaitsFor
  <2>6. QED
    BY <2>2, <2>3, <2>4, <2>5 DEF IInv
<1>6. ASSUME NEW term \in {"whole", "cut"},
             Post(m, [kind |-> "data", from |-> k.from, step |-> k.step, term |-> term])
      PROVE  IInv'
  <2> DEFINE x == [kind |-> "data", from |-> k.from, step |-> k.step, term |-> term]
  <2>1. /\ x \in Messages /\ x.kind = "data" /\ x.from = k.from /\ x.step = k.step
        /\ Post(m, x)
    BY <1>2, <1>6 DEF Messages, Answers, Commands
  <2> HIDE DEF x
  <2>2. /\ mailbox' \in [Members -> Seq(Messages)]
        /\ \A n \in Members : n # m => mailbox'[n] = mailbox[n]
        /\ \A i \in 1..Len(mailbox[m]) : mailbox'[m][i] = mailbox[m][i]
        /\ mailbox'[m][Len(mailbox[m]) + 1] = x
        /\ \A i \in 1..Len(mailbox'[m]) : i \in 1..Len(mailbox[m]) \/ i = Len(mailbox[m]) + 1
    BY <2>1, Posted
  <2>3. \A i \in 1..Len(mailbox'[m]) : mailbox'[m][i].kind = "request" =>
           i \in 1..Len(mailbox[m]) /\ mailbox'[m][i] = mailbox[m][i]
    BY <2>1, <2>2
  <2>4. OneRequest(m)'
    BY <1>1, <1>4, <2>3 DEF OneRequest, Asked
  <2>5. Unfinished(m)' \subseteq Unfinished(m)
    <3> SUFFICES ASSUME NEW d \in Unfinished(m)' PROVE d \in Unfinished(m)
      OBVIOUS
    <3>1. CASE serves'[m] = d
      BY <1>1, <3>1 DEF Unfinished
    <3>2. ASSUME NEW i \in 1..Len(mailbox'[m]),
                 mailbox'[m][i].kind = "request", mailbox'[m][i].from = d
          PROVE  d \in Unfinished(m)
      BY <2>3, <3>2 DEF Unfinished
    <3>3. QED
      BY <3>1, <3>2 DEF Unfinished
  <2>6. InStep(m)'
    <3>1. CASE late[m]
      BY <1>1, <3>1 DEF InStep
    <3>2. CASE ~late[m]
      <4>1. /\ DataIn(m) = {} /\ k.from = serves[m] /\ k.step = step[m]
            /\ Len(port[m]) = 1
        <5>1. /\ \A i, j \in 1..Len(port[m]) : i = j
              /\ \A i \in DataIn(m), j \in 1..Len(port[m]) : FALSE
              /\ port[m][1].from = serves[m] /\ port[m][1].step = step[m]
          BY <1>2, <1>4, <3>2 DEF InStep
        <5>2. Len(port[m]) \in 1..Len(port[m])
          BY <1>2
        <5>3. Len(port[m]) = 1
          BY <1>2, <5>1, <5>2
        <5>4. QED
          BY <1>2, <5>1, <5>3
      <4>2. DataIn(m)' \subseteq {Len(mailbox[m]) + 1}
        BY <2>2, <4>1 DEF DataIn
      <4>3. \A i \in 1..Len(port'[m]) : FALSE
        BY <1>2, <1>3, <4>1
      <4>4. \A i \in DataIn(m)' : mailbox'[m][i] = x
        BY <2>2, <4>2
      <4>5. QED
        BY <1>1, <2>1, <4>1, <4>2, <4>3, <4>4 DEF InStep
    <3>3. QED
      BY <3>1, <3>2
  <2>7. \A n \in Members : n # m => OneRequest(n)' /\ InStep(n)' /\ Unfinished(n)' = Unfinished(n)
    BY <1>1, <1>3, <2>2, OtherMember
  <2>8. TypeOK'
    BY <1>1, <1>3, <2>2 DEF IInv, TypeOK, Messages
  <2>9. HeldOnce' /\ AbandonedIsNotReused'
    BY <1>1, <2>5, <2>7 DEF IInv, HeldOnce, AbandonedIsNotReused, WaitsFor
  <2>10. QED
    BY <2>4, <2>6, <2>7, <2>8, <2>9 DEF IInv
<1> QED
  BY <1>1, <1>5, <1>6

LEMMA ProgramExitsStep ==
    ASSUME IInv, NEW m \in Members, ProgramExits(m)
    PROVE  IInv'
<1>1. /\ running' = [running EXCEPT ![m] = FALSE] /\ port' = [port EXCEPT ![m] = <<>>]
      /\ UNCHANGED <<holder, caller, serves, step, mailbox, boot, late>>
  BY DEF ProgramExits
<1>2. /\ port' \in [Members -> Seq(Commands)] /\ port'[m] = <<>>
      /\ \A n \in Members : n # m => port'[n] = port[n]
  BY <1>1, Typed, Updated, EmptySeq
<1>3. Part(mailbox[m], mailbox'[m]) /\ Part(port[m], port'[m])
  BY <1>1, <1>2, TypedAt, PartOfItself, EmptyIsPart
<1>4. OneRequest(m)' /\ InStep(m)' /\ Unfinished(m)' \subseteq Unfinished(m)
  BY <1>1, <1>3, FewerRequests, FewerInStep DEF IInv
<1>5. \A n \in Members : n # m => OneRequest(n)' /\ InStep(n)' /\ Unfinished(n)' = Unfinished(n)
  BY <1>1, <1>2, OtherMember
<1>6. TypeOK'
  BY <1>1, <1>2 DEF IInv, TypeOK
<1>7. HeldOnce' /\ AbandonedIsNotReused'
  BY <1>1, <1>4, <1>5 DEF IInv, HeldOnce, AbandonedIsNotReused, WaitsFor
<1> QED
  BY <1>4, <1>5, <1>6, <1>7 DEF IInv

-----------------------------------------------------------------------------
LEMMA InitIInv == Init => IInv
<1> SUFFICES ASSUME Init PROVE IInv
  OBVIOUS
<1> USE NamesAssumption
<1>1. <<>> \in Seq(Messages) /\ <<>> \in Seq(Commands) /\ 1..Len(<<>>) = {}
  BY EmptySeq
<1>2. TypeOK
  <2>1. mailbox \in [Members -> Seq(Messages)] /\ port \in [Members -> Seq(Commands)]
    BY <1>1 DEF Init
  <2>2. QED
    BY <2>1 DEF Init, TypeOK, Messages
<1>3. \A m \in Members : serves[m] = Idle /\ mailbox[m] = <<>> /\ port[m] = <<>> /\ holder[m] = Pool
  BY DEF Init
<1>4. HeldOnce
  BY <1>3 DEF HeldOnce
<1>5. \A m \in Members : Unfinished(m) = {}
  BY <1>1, <1>3 DEF Unfinished
<1>6. \A m \in Members : OneRequest(m) /\ InStep(m)
  BY <1>1, <1>3 DEF OneRequest, InStep, DataIn
<1>7. AbandonedIsNotReused
  BY <1>5 DEF AbandonedIsNotReused
<1> QED
  BY <1>2, <1>4, <1>6, <1>7 DEF IInv

LEMMA IInvStep == IInv /\ [Next]_vars => IInv'
<1> SUFFICES ASSUME IInv, [Next]_vars PROVE IInv'
  OBVIOUS
<1>1. ASSUME NEW c \in Callers, TakeNothing(c) PROVE IInv'
  <2>1. UNCHANGED memberVars
    BY <1>1 DEF TakeNothing
  <2>2. QED
    BY <1>1, <2>1, HandStep
<1>2. ASSUME NEW c \in Callers, NEW m \in Members,
             Take(c, m) \/ AskTimesOut(c, m) \/ Return(c, m)
      PROVE  IInv'
  <2>1. UNCHANGED memberVars
    BY <1>2 DEF Take, AskTimesOut, Return
  <2>2. QED
    BY <1>2, <2>1, HandStep
<1>3. ASSUME NEW c \in Callers, NEW m \in Members, Ask(c, m) PROVE IInv'
  BY <1>3, AskStep
<1>4. ASSUME NEW m \in Members, BootCall(m) PROVE IInv'
  BY <1>4, BootStep
<1>5. ASSUME NEW m \in Members, Serving(m) PROVE IInv'
  <2>1. CASE Crash(m)
    BY <2>1, RenewStep DEF Crash
  <2>2. QED
    BY <1>5, <2>1, ServeStep, DropStep, ReceiveStep, ReceiveTimesOutStep DEF Serving
<1>6. ASSUME NEW m \in Members, Reclaim(m) PROVE IInv'
  BY <1>6, RenewStep DEF Reclaim
<1>7. ASSUME NEW m \in Members, Execute(m) \/ ProgramExits(m) PROVE IInv'
  BY <1>7, ExecuteStep, ProgramExitsStep
<1>8. CASE UNCHANGED vars
  <2>1. UNCHANGED <<holder, caller, serves, step, mailbox, boot, port, running, late>>
    BY <1>8 DEF vars, memberVars
  <2>2. \A n \in Members : OneRequest(n)' /\ InStep(n)' /\ Unfinished(n)' = Unfinished(n)
    BY <2>1, OtherMember
  <2>3. TypeOK' /\ HeldOnce' /\ AbandonedIsNotReused'
    BY <2>1, <2>2 DEF IInv, TypeOK, HeldOnce, AbandonedIsNotReused, WaitsFor
  <2>4. QED
    BY <2>2, <2>3 DEF IInv
<1> QED
  BY <1>1, <1>2, <1>3, <1>4, <1>5, <1>6, <1>7, <1>8 DEF Next, Calling

LEMMA Invariance == Spec => []IInv
BY InitIInv, IInvStep, PTL DEF Spec

-----------------------------------------------------------------------------
\* Every variable keeps its type; in particular a member never goes on past
\* the third of the commands with which it starts.
THEOREM TypeCorrect == Spec => []TypeOK
<1>1. IInv => TypeOK
  BY DEF IInv
<1> QED
  BY <1>1, Invariance, PTL

\* A request whose caller has given up is in a member that nobody can take,
\* until the pool has ended that member.
THEOREM AbandonedIsSetAside == Spec => []AbandonedIsNotReused
<1>1. IInv => AbandonedIsNotReused
  BY DEF IInv
<1> QED
  BY <1>1, Invariance, PTL

\* Besides its own start a member has the call of one caller at most, queued
\* or served.
THEOREM OneCallerPerMember == Spec => []OneCallAtATime
<1>1. IInv => OneCallAtATime
  <2> SUFFICES ASSUME IInv, NEW m \in Members, NEW c \in Unfinished(m), NEW d \in Unfinished(m)
               PROVE  c = d
    BY DEF OneCallAtATime
  <2>1. c \in Callers /\ d \in Callers /\ OneRequest(m)
    BY DEF Unfinished, IInv
  <2>2. serves[m] = c \/ \E i \in 1..Len(mailbox[m]) : Asked(m, i) /\ mailbox[m][i].from = c
    BY <2>1 DEF Unfinished, Asked
  <2>3. serves[m] = d \/ \E i \in 1..Len(mailbox[m]) : Asked(m, i) /\ mailbox[m][i].from = d
    BY <2>1 DEF Unfinished, Asked
  <2>4. QED
    BY <2>1, <2>2, <2>3 DEF OneRequest
<1> QED
  BY <1>1, Invariance, PTL

\* Before its first timeout a member takes every answer for the command it
\* was given to, in each of the three steps of its start as later.
THEOREM NoMixWithoutTimeout == Spec => []MixOnlyAfterTimeout
<1>1. IInv => MixOnlyAfterTimeout
  BY DEF IInv, InStep, MixOnlyAfterTimeout
<1> QED
  BY <1>1, Invariance, PTL
=============================================================================
