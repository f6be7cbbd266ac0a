-------------------------- MODULE PortServerProofs ---------------------------
(***************************************************************************)
(* Proofs about PortServer, for any sets of calls and of commands.         *)
(*                                                                         *)
(* A call leaves one trace: its request in the mailbox of the server, then *)
(* its command on the way to the program, then the answer in the mailbox.  *)
(* OneTrace says that there is never more than one, and FreshTrace that    *)
(* while there is one nobody has been given its answer.  From this follows *)
(* that no answer is given twice, however late answers shift.  InStep is   *)
(* what a timeout breaks: as long as there was none, what is on its way    *)
(* belongs to the call the server waits for; in particular there is        *)
(* nothing when it waits for none.                                         *)
(***************************************************************************)
EXTENDS PortServer, SequenceLemmas, TLAPS

Messages == Requests \cup Answers

OneTrace ==
    /\ \A i, j \in 1..Len(mailbox) : CallOf(mailbox[i]) = CallOf(mailbox[j]) => i = j
    /\ \A i, j \in 1..Len(port) : port[i].call = port[j].call => i = j
    /\ \A i \in 1..Len(mailbox), j \in 1..Len(port) : CallOf(mailbox[i]) # port[j].call

FreshTrace ==
    \A d \in Calls : /\ \A i \in 1..Len(mailbox) : given[d] # CallOf(mailbox[i])
                     /\ \A i \in 1..Len(port) : given[d] # port[i].call

InStep == ~late => /\ \A i \in 1..Len(mailbox) :
                          mailbox[i].kind = "data" => mailbox[i].call = server
                   /\ \A i \in 1..Len(port) : port[i].call = server

\* A server that has crashed has left nothing, and it did not crash twice
\* within a second if it runs.
CrashLeavesNothing ==
    /\ server \in {"down", "gone"} => mailbox = <<>> /\ port = <<>> /\ ~late
    /\ server \notin {"down", "gone"} => crashes <= 1

IInv == /\ TypeOK
        /\ CrashLeavesNothing
        /\ OneTrace
        /\ FreshTrace
        /\ InStep
        /\ EachAnswerOnce

-----------------------------------------------------------------------------
(* Messages and sequences *)

\* A message is a request or an answer, and has a call.
LEMMA MessageType ==
    ASSUME NEW m \in Messages
    PROVE  /\ CallOf(m) \in Calls
           /\ m.kind = "request" => m \in Requests /\ m.command \in Commands
                                    /\ CallOf(m) = m.command.call
           /\ m.kind # "request" => m \in Answers /\ m.kind = "data" /\ CallOf(m) = m.call
BY DEF Messages, Requests, Answers, Commands, CallOf

\* Leaving messages and commands out leaves at most one trace of each call.
LEMMA FewerTraces ==
    ASSUME OneTrace, Part(mailbox, mailbox'), Part(port, port')
    PROVE  /\ OneTrace'
           /\ FreshTrace /\ UNCHANGED given => FreshTrace'
<1>1. PICK f \in [1..Len(mailbox') -> 1..Len(mailbox)] :
         /\ \A i, j \in 1..Len(mailbox') : f[i] = f[j] => i = j
         /\ \A i \in 1..Len(mailbox') : mailbox'[i] = mailbox[f[i]]
  BY DEF Part
<1>2. PICK g \in [1..Len(port') -> 1..Len(port)] :
         /\ \A i, j \in 1..Len(port') : g[i] = g[j] => i = j
         /\ \A i \in 1..Len(port') : port'[i] = port[g[i]]
  BY DEF Part
<1>3. OneTrace'
  <2>1. ASSUME NEW i \in 1..Len(mailbox'), NEW j \in 1..Len(mailbox'),
               CallOf(mailbox'[i]) = CallOf(mailbox'[j])
        PROVE  i = j
    <3>1. /\ f[i] \in 1..Len(mailbox) /\ f[j] \in 1..Len(mailbox)
          /\ mailbox'[i] = mailbox[f[i]] /\ mailbox'[j] = mailbox[f[j]]
      BY <1>1
    <3>2. CallOf(mailbox[f[i]]) = CallOf(mailbox[f[j]])
      BY <2>1, <3>1 DEF CallOf
    <3>3. f[i] = f[j]
      BY <3>1, <3>2 DEF OneTrace
    <3>4. QED
      BY <1>1, <3>3
  <2>2. ASSUME NEW i \in 1..Len(port'), NEW j \in 1..Len(port'),
               port'[i].call = port'[j].call
        PROVE  i = j
    <3>1. g[i] \in 1..Len(port) /\ g[j] \in 1..Len(port) /\ port[g[i]].call = port[g[j]].call
      BY <1>2, <2>2
    <3>2. g[i] = g[j]
      BY <3>1 DEF OneTrace
    <3>3. QED
      BY <1>2, <3>2
  <2>3. ASSUME NEW i \in 1..Len(mailbox'), NEW j \in 1..Len(port')
        PROVE  CallOf(mailbox'[i]) # port'[j].call
    <3>1. f[i] \in 1..Len(mailbox) /\ mailbox'[i] = mailbox[f[i]]
      BY <1>1
    <3>2. g[j] \in 1..Len(port) /\ port'[j] = port[g[j]]
      BY <1>2
    <3>3. CallOf(mailbox[f[i]]) # port[g[j]].call
      BY <3>1, <3>2 DEF OneTrace
    <3>4. QED
      BY <3>1, <3>2, <3>3 DEF CallOf
  <2>4. QED
    BY <2>1, <2>2, <2>3 DEF OneTrace, CallOf
<1>4. ASSUME FreshTrace, UNCHANGED given PROVE FreshTrace'
  <2>1. ASSUME NEW d \in Calls, NEW i \in 1..Len(mailbox') PROVE given'[d] # CallOf(mailbox'[i])
    BY <1>1, <1>4 DEF FreshTrace
  <2>2. ASSUME NEW d \in Calls, NEW i \in 1..Len(port') PROVE given'[d] # port'[i].call
    BY <1>2, <1>4 DEF FreshTrace
  <2>3. QED
    BY <2>1, <2>2 DEF FreshTrace, CallOf
<1>5. QED
  BY <1>3, <1>4

-----------------------------------------------------------------------------
\* What comes of a call of one trace more.
LEMMA NewTrace ==
    ASSUME NEW m \in Messages, mailbox \in Seq(Messages), port \in Seq(Commands),
           mailbox' = Append(mailbox, m), OneTrace,
           \A i \in 1..Len(mailbox) : CallOf(mailbox[i]) # CallOf(m),
           Part(port, port'), \A i \in 1..Len(port') : port'[i].call # CallOf(m)
    PROVE  /\ OneTrace'
           /\ \A i \in 1..Len(mailbox') :
                  mailbox'[i] = m \/ \E j \in 1..Len(mailbox) : mailbox'[i] = mailbox[j]
<1>1. /\ Len(mailbox) \in Nat /\ Len(mailbox') = Len(mailbox) + 1
      /\ \A i \in 1..Len(mailbox) : mailbox'[i] = mailbox[i]
      /\ mailbox'[Len(mailbox) + 1] = m
  BY AppendProperties, LenProperties
<1>2. PICK g \in [1..Len(port') -> 1..Len(port)] :
         /\ \A i, j \in 1..Len(port') : g[i] = g[j] => i = j
         /\ \A i \in 1..Len(port') : port'[i] = port[g[i]]
  BY DEF Part
<1>3. ASSUME NEW i \in 1..Len(mailbox'), NEW j \in 1..Len(mailbox'),
             CallOf(mailbox'[i]) = CallOf(mailbox'[j])
      PROVE  i = j
  <2>1. (i \in 1..Len(mailbox) \/ i = Len(mailbox) + 1)
        /\ (j \in 1..Len(mailbox) \/ j = Len(mailbox) + 1)
    BY <1>1
  <2>2. CASE i \in 1..Len(mailbox) /\ j \in 1..Len(mailbox)
    <3>1. CallOf(mailbox[i]) = CallOf(mailbox[j])
      BY <1>1, <1>3, <2>2
    <3>2. QED
      BY <2>2, <3>1 DEF OneTrace
  <2>3. QED
    BY <1>1, <1>3, <2>1, <2>2
<1>4. ASSUME NEW i \in 1..Len(port'), NEW j \in 1..Len(port'), port'[i].call = port'[j].call
      PROVE  i = j
  <2>1. g[i] \in 1..Len(port) /\ g[j] \in 1..Len(port) /\ port[g[i]].call = port[g[j]].call
    BY <1>2, <1>4
  <2>2. g[i] = g[j]
    BY <2>1 DEF OneTrace
  <2>3. QED
    BY <1>2, <2>2
<1>5. ASSUME NEW i \in 1..Len(mailbox'), NEW j \in 1..Len(port')
      PROVE  CallOf(mailbox'[i]) # port'[j].call
  <2>1. i \in 1..Len(mailbox) \/ i = Len(mailbox) + 1
    BY <1>1
  <2>2. g[j] \in 1..Len(port) /\ port'[j] = port[g[j]]
    BY <1>2
  <2>3. CASE i \in 1..Len(mailbox)
    BY <1>1, <2>2, <2>3 DEF OneTrace
  <2>4. CASE i = Len(mailbox) + 1
    BY <1>1, <2>4
  <2>5. QED
    BY <2>1, <2>3, <2>4
<1>6. OneTrace'
  BY <1>3, <1>4, <1>5 DEF OneTrace, CallOf
<1>7. QED
  BY <1>1, <1>6

\* A slot that is used again is free: nothing of its last call is left.
LEMMA CallStep ==
    ASSUME IInv, NEW c \in Calls, ApiCall(c) \/ BootCall(c)
    PROVE  IInv'
<1> USE KindsAssumption, NoCallAssumption, StatesAssumption
<1>1. PICK k \in AllKinds : Call(c, k)
  BY DEF ApiCall, BootCall, AllKinds
<1>2. /\ UNCHANGED <<server, port, programVars, crashes, late>>
      /\ boot' \in BOOLEAN
  BY DEF ApiCall, BootCall, IInv, TypeOK
<1>3. /\ given' = [given EXCEPT ![c] = NoCall]
      /\ \A i \in 1..Len(mailbox) : CallOf(mailbox[i]) # c
      /\ \A i \in 1..Len(port) : port[i].call # c
      /\ \A d \in Calls \ {c} : given[d] # c
  BY <1>1 DEF Call, Free
<1>4. /\ given \in [Calls -> Calls \cup {NoCall}] /\ mailbox \in Seq(Messages)
      /\ port \in Seq(Commands) /\ \A i \in 1..Len(port) : port[i] \in Commands
      /\ \A i \in 1..Len(mailbox) : mailbox[i] \in Messages
  BY ElementOfSeq DEF IInv, TypeOK, Messages
<1>5. EachAnswerOnce'
  BY <1>3, <1>4 DEF IInv, EachAnswerOnce
<1>6. CASE server \in {"down", "gone"}
  <2>1. waiting' = waiting /\ mailbox' = mailbox
    BY <1>1, <1>6 DEF Call
  <2>2. TypeOK'
    BY <1>2, <1>3, <1>4, <2>1 DEF IInv, TypeOK, programVars
  <2>3. mailbox = <<>> /\ port = <<>>
    BY <1>6 DEF IInv, CrashLeavesNothing
  <2>4. CrashLeavesNothing' /\ OneTrace' /\ FreshTrace' /\ InStep'
    BY <1>2, <2>1, <2>3 DEF IInv, CrashLeavesNothing, OneTrace, FreshTrace, InStep, CallOf
  <2>5. QED
    BY <1>5, <2>2, <2>4 DEF IInv
<1>7. CASE server \notin {"down", "gone"}
  <2> DEFINE m == Request(c, k)
  <2>1. m \in Messages /\ m.kind = "request" /\ CallOf(m) = c
    BY DEF Messages, Requests, Commands, Request, CallOf
  <2>2. waiting' = waiting \cup {c} /\ mailbox' = Append(mailbox, m)
    BY <1>1, <1>7 DEF Call
  <2> HIDE DEF m
  <2>3. mailbox' \in Seq(Messages)
    BY <1>4, <2>1, <2>2, AppendProperties
  <2>4. TypeOK'
    BY <1>2, <1>3, <1>4, <2>2, <2>3 DEF IInv, TypeOK, programVars, Messages
  <2>5. CrashLeavesNothing'
    BY <1>2, <1>7 DEF IInv, CrashLeavesNothing
  <2>6. Part(port, port')
    BY <1>2, <1>4, PartOfItself
  <2>7. /\ OneTrace'
        /\ \A i \in 1..Len(mailbox') :
               mailbox'[i] = m \/ \E j \in 1..Len(mailbox) : mailbox'[i] = mailbox[j]
    BY <1>2, <1>3, <1>4, <2>1, <2>2, <2>6, NewTrace DEF IInv
  <2>8. FreshTrace'
    <3>1. ASSUME NEW d \in Calls, NEW i \in 1..Len(mailbox')
          PROVE  given'[d] # CallOf(mailbox'[i])
      <4>1. given'[d] # c /\ (given'[d] = given[d] \/ given'[d] = NoCall)
        BY <1>3, <1>4
      <4>2. CASE mailbox'[i] = m
        BY <2>1, <4>1, <4>2
      <4>3. ASSUME NEW j \in 1..Len(mailbox), mailbox'[i] = mailbox[j]
            PROVE  given'[d] # CallOf(mailbox'[i])
        BY <1>4, <4>1, <4>3, MessageType DEF IInv, FreshTrace
      <4>4. QED
        BY <2>7, <4>2, <4>3
    <3>2. ASSUME NEW d \in Calls, NEW i \in 1..Len(port') PROVE given'[d] # port'[i].call
      <4>1. i \in 1..Len(port) /\ port'[i] = port[i] /\ port[i].call \in Calls
        BY <1>2, <1>4 DEF Commands
      <4>2. given'[d] = given[d] \/ given'[d] = NoCall
        BY <1>3, <1>4
      <4>3. QED
        BY <4>1, <4>2 DEF IInv, FreshTrace
    <3>3. QED
      BY <3>1, <3>2 DEF FreshTrace, CallOf
  <2>9. InStep'
    BY <1>2, <2>1, <2>7 DEF IInv, InStep
  <2>10. QED
    BY <1>5, <2>4, <2>5, <2>7, <2>8, <2>9 DEF IInv
<1>8. QED
  BY <1>6, <1>7
-----------------------------------------------------------------------------
LEMMA InitIInv == Init => IInv
<1> SUFFICES ASSUME Init PROVE IInv
  OBVIOUS
<1> USE KindsAssumption, NoCallAssumption, StatesAssumption
<1>1. mailbox = <<>> /\ port = <<>> /\ Len(<<>>) = 0 /\ 1..0 = {}
  BY EmptySeq DEF Init
<1>2. TypeOK
  <2>1. mailbox \in Seq(Requests \cup Answers) /\ port \in Seq(Commands)
    BY EmptySeq DEF Init
  <2>2. given \in [Calls -> Calls \cup {NoCall}] /\ crashes \in 0..2
    BY DEF Init
  <2>3. QED
    BY <2>1, <2>2 DEF Init, TypeOK
<1>3. CrashLeavesNothing
  BY DEF Init, CrashLeavesNothing
<1>4. OneTrace /\ FreshTrace /\ InStep
  BY <1>1 DEF OneTrace, FreshTrace, InStep
<1>5. EachAnswerOnce
  BY DEF Init, EachAnswerOnce
<1> QED
  BY <1>2, <1>3, <1>4, <1>5 DEF IInv

\* A step that touches neither a trace nor an answer.
LEMMA SameTraces ==
    ASSUME IInv, UNCHANGED <<given, mailbox, port>>
    PROVE  OneTrace' /\ FreshTrace' /\ EachAnswerOnce'
BY DEF IInv, OneTrace, FreshTrace, EachAnswerOnce, CallOf

\* The invariant's types, and those of the elements of mailbox and port.
LEMMA Typed ==
    ASSUME IInv
    PROVE  /\ given \in [Calls -> Calls \cup {NoCall}]
           /\ mailbox \in Seq(Messages) /\ port \in Seq(Commands)
           /\ \A i \in 1..Len(mailbox) : mailbox[i] \in Messages
           /\ \A i \in 1..Len(port) : port[i] \in Commands /\ port[i].call \in Calls
<1>1. /\ given \in [Calls -> Calls \cup {NoCall}]
      /\ mailbox \in Seq(Messages) /\ port \in Seq(Commands)
  BY DEF IInv, TypeOK, Messages
<1>2. /\ \A i \in 1..Len(mailbox) : mailbox[i] \in Messages
      /\ \A i \in 1..Len(port) : port[i] \in Commands
  BY <1>1, ElementOfSeq
<1>3. \A x \in Commands : x.call \in Calls
  BY DEF Commands
<1>4. QED
  BY <1>1, <1>2, <1>3

LEMMA QuietSteps ==
    ASSUME IInv, Restart \/ GiveUp \/ SecondPasses
    PROVE  IInv'
<1> USE StatesAssumption
<1>1. UNCHANGED <<given, waiting, mailbox, port, late>>
  BY DEF Restart, GiveUp, SecondPasses, callVars
<1>2. TypeOK'
  <2>1. CASE Restart
    BY <2>1 DEF IInv, TypeOK, Restart, callVars
  <2>2. CASE GiveUp
    BY <2>2 DEF IInv, TypeOK, GiveUp, callVars, programVars
  <2>3. CASE SecondPasses
    BY <2>3 DEF IInv, TypeOK, SecondPasses, callVars, programVars
  <2>4. QED
    BY <2>1, <2>2, <2>3
<1>3. CrashLeavesNothing'
  BY DEF IInv, TypeOK, CrashLeavesNothing, Restart, GiveUp, SecondPasses, callVars
<1>4. OneTrace' /\ FreshTrace' /\ EachAnswerOnce'
  BY <1>1, SameTraces
<1>5. InStep'
  <2>1. CASE Restart \/ GiveUp
    <3>1. mailbox' = <<>> /\ port' = <<>> /\ Len(<<>>) = 0 /\ 1..0 = {}
      BY <1>1, <2>1, EmptySeq DEF IInv, CrashLeavesNothing, Restart, GiveUp
    <3>2. QED
      BY <3>1 DEF InStep
  <2>2. CASE SecondPasses
    BY <1>1, <2>2 DEF IInv, InStep, SecondPasses, callVars
  <2>3. QED
    BY <2>1, <2>2
<1> QED
  BY <1>2, <1>3, <1>4, <1>5 DEF IInv

LEMMA TimeoutSteps ==
    ASSUME IInv, (\E c \in Calls : CallTimesOut(c)) \/ ServerTimesOut
    PROVE  IInv'
<1> USE StatesAssumption
<1>1. UNCHANGED <<given, mailbox, port, crashes>>
  BY DEF CallTimesOut, ServerTimesOut
<1>2. TypeOK' /\ CrashLeavesNothing'
  <2>1. ASSUME NEW c \in Calls, CallTimesOut(c) PROVE TypeOK' /\ CrashLeavesNothing'
    BY <2>1 DEF IInv, TypeOK, CrashLeavesNothing, CallTimesOut, programVars
  <2>2. CASE ServerTimesOut
    <3>1. TypeOK'
      BY <2>2 DEF IInv, TypeOK, ServerTimesOut, programVars
    <3>2. server \notin {"down", "gone"} /\ server' \notin {"down", "gone"}
      BY <2>2 DEF ServerTimesOut
    <3>3. CrashLeavesNothing'
      BY <1>1, <3>2 DEF IInv, CrashLeavesNothing
    <3>4. QED
      BY <3>1, <3>3
  <2>3. QED
    BY <2>1, <2>2
<1>3. OneTrace' /\ FreshTrace' /\ EachAnswerOnce'
  BY <1>1, SameTraces
<1>4. InStep'
  BY DEF IInv, InStep, CallTimesOut, ServerTimesOut
<1> QED
  BY <1>2, <1>3, <1>4 DEF IInv

-----------------------------------------------------------------------------
(* The server *)

\* The command that is sent is the only trace of the call that is served.
LEMMA ServeStep ==
    ASSUME IInv, Serve
    PROVE  IInv'
<1> USE StatesAssumption
<1> DEFINE d == Head(mailbox).command
<1>1. /\ server = "idle" /\ mailbox # <<>> /\ server' = d.call
      /\ mailbox' = Tail(mailbox)
      /\ port' = IF program = "running" THEN Append(port, d) ELSE port
      /\ UNCHANGED <<given, waiting, boot, program, ready, linked, crashes, late>>
  BY DEF Serve, callVars, programVars
<1>2. /\ Len(mailbox) \in Nat /\ 1 \in 1..Len(mailbox) /\ Head(mailbox) = mailbox[1]
      /\ Part(mailbox, mailbox') /\ mailbox' \in Seq(Messages)
      /\ Len(mailbox') = Len(mailbox) - 1
      /\ \A i \in 1..Len(mailbox') : i + 1 \in 1..Len(mailbox) /\ mailbox'[i] = mailbox[i + 1]
  BY <1>1, Typed, TailIsPart, HeadTailProperties, LenProperties
<1>3. d \in Commands /\ d.call \in Calls /\ CallOf(mailbox[1]) = d.call
  BY <1>2, Typed, MessageType DEF Serve, Commands
<1> HIDE DEF d
<1>4. \A i \in 1..Len(mailbox') : mailbox'[i] \in Messages /\ CallOf(mailbox'[i]) # d.call
  <2> SUFFICES ASSUME NEW i \in 1..Len(mailbox')
               PROVE  mailbox'[i] \in Messages /\ CallOf(mailbox'[i]) # d.call
    OBVIOUS
  <2>1. i + 1 \in 1..Len(mailbox) /\ i + 1 # 1 /\ mailbox'[i] = mailbox[i + 1]
    BY <1>2
  <2>2. CallOf(mailbox[i + 1]) # CallOf(mailbox[1])
    BY <1>2, <2>1 DEF IInv, OneTrace
  <2>3. mailbox[i + 1] \in Messages
    BY <2>1, Typed
  <2>4. CallOf(mailbox'[i]) = CallOf(mailbox[i + 1])
    BY <2>1 DEF CallOf
  <2>5. QED
    BY <1>3, <2>1, <2>2, <2>3, <2>4
<1>5. \A i \in 1..Len(port) : port[i].call # d.call
  BY <1>2, <1>3 DEF IInv, OneTrace
<1>6. \A c \in Calls : given[c] # d.call
  BY <1>2, <1>3 DEF IInv, FreshTrace
\* Without a timeout nothing else was on its way.
<1>7. ~late => /\ \A i \in 1..Len(mailbox') : mailbox'[i].kind # "data"
               /\ \A i \in 1..Len(port) : port[i].call = d.call
  <2> SUFFICES ASSUME ~late
               PROVE  /\ \A i \in 1..Len(mailbox') : mailbox'[i].kind # "data"
                      /\ \A i \in 1..Len(port) : port[i].call = d.call
    OBVIOUS
  <2>1. \A i \in 1..Len(port) : FALSE
    BY <1>1, Typed DEF IInv, InStep
  <2>2. ASSUME NEW i \in 1..Len(mailbox'), mailbox'[i].kind = "data" PROVE FALSE
    <3>1. i + 1 \in 1..Len(mailbox) /\ mailbox[i + 1].kind = "data"
      BY <1>2, <2>2
    <3>2. mailbox[i + 1].call = "idle"
      BY <1>1, <3>1 DEF IInv, InStep
    <3>3. mailbox[i + 1] \in Messages /\ "idle" \notin Calls
      BY <3>1, Typed
    <3>4. QED
      BY <3>1, <3>2, <3>3 DEF Messages, Requests, Answers
  <2>3. QED
    BY <2>1, <2>2
<1>8. EachAnswerOnce' /\ CrashLeavesNothing'
  BY <1>1, <1>3 DEF IInv, EachAnswerOnce, CrashLeavesNothing
<1>9. CASE program # "running"
  <2>1. port' = port /\ Part(port, port')
    BY <1>1, <1>9, PartOfItself, Typed
  <2>2. OneTrace' /\ FreshTrace'
    BY <1>1, <1>2, <2>1, FewerTraces DEF IInv
  <2>3. TypeOK'
    BY <1>1, <1>2, <1>3, <2>1 DEF IInv, TypeOK, Messages
  <2>4. InStep'
    BY <1>1, <1>7, <2>1 DEF InStep
  <2>5. QED
    BY <1>8, <2>2, <2>3, <2>4 DEF IInv
<1>10. CASE program = "running"
  <2>1. /\ port' \in Seq(Commands) /\ Len(port) \in Nat /\ Len(port') = Len(port) + 1
        /\ \A i \in 1..Len(port) : port'[i] = port[i]
        /\ port'[Len(port) + 1] = d
    BY <1>1, <1>3, <1>10, Typed, AppendProperties, LenProperties
  <2>2. \A i \in 1..Len(port') :
           (i \in 1..Len(port) /\ port'[i] = port[i]) \/ (i = Len(port) + 1 /\ port'[i] = d)
    BY <2>1
  <2>3. OneTrace'
    <3>1. \A i, j \in 1..Len(mailbox') : CallOf(mailbox'[i]) = CallOf(mailbox'[j]) => i = j
      <4>1. Part(port, port)
        BY PartOfItself, Typed
      <4> SUFFICES ASSUME NEW i \in 1..Len(mailbox'), NEW j \in 1..Len(mailbox'),
                          CallOf(mailbox'[i]) = CallOf(mailbox'[j])
                   PROVE  i = j
        OBVIOUS
      <4>2. i + 1 \in 1..Len(mailbox) /\ mailbox'[i] = mailbox[i + 1]
            /\ j + 1 \in 1..Len(mailbox) /\ mailbox'[j] = mailbox[j + 1] /\ i \in Int /\ j \in Int
        BY <1>2
      <4>3. CallOf(mailbox[i + 1]) = CallOf(mailbox[j + 1])
        BY <4>2 DEF CallOf
      <4>4. i + 1 = j + 1
        BY <4>2, <4>3 DEF IInv, OneTrace
      <4>5. QED
        BY <4>2, <4>4
    <3>2. ASSUME NEW i \in 1..Len(port'), NEW j \in 1..Len(port'),
                 port'[i].call = port'[j].call
          PROVE  i = j
      <4>1. CASE i \in 1..Len(port) /\ j \in 1..Len(port)
        BY <2>1, <3>2, <4>1 DEF IInv, OneTrace
      <4>2. QED
        BY <1>5, <2>1, <2>2, <3>2, <4>1
    <3>3. ASSUME NEW i \in 1..Len(mailbox'), NEW j \in 1..Len(port')
          PROVE  CallOf(mailbox'[i]) # port'[j].call
      <4>1. CASE j \in 1..Len(port) /\ port'[j] = port[j]
        <5>1. i + 1 \in 1..Len(mailbox) /\ mailbox'[i] = mailbox[i + 1]
          BY <1>2
        <5>2. CallOf(mailbox[i + 1]) # port[j].call
          BY <4>1, <5>1 DEF IInv, OneTrace
        <5>3. QED
          BY <4>1, <5>1, <5>2 DEF CallOf
      <4>2. CASE port'[j] = d
        BY <1>4, <4>2
      <4>3. QED
        BY <2>2, <4>1, <4>2
    <3>4. QED
      BY <3>1, <3>2, <3>3 DEF OneTrace, CallOf
  <2>4. FreshTrace'
    <3>1. ASSUME NEW c \in Calls, NEW i \in 1..Len(mailbox')
          PROVE  given'[c] # CallOf(mailbox'[i])
      <4>1. i + 1 \in 1..Len(mailbox) /\ mailbox'[i] = mailbox[i + 1]
        BY <1>2
      <4>2. given[c] # CallOf(mailbox[i + 1])
        BY <4>1 DEF IInv, FreshTrace
      <4>3. QED
        BY <1>1, <4>1, <4>2 DEF CallOf
    <3>2. ASSUME NEW c \in Calls, NEW i \in 1..Len(port') PROVE given'[c] # port'[i].call
      <4>1. CASE i \in 1..Len(port) /\ port'[i] = port[i]
        BY <1>1, <4>1 DEF IInv, FreshTrace
      <4>2. CASE port'[i] = d
        BY <1>1, <1>6, <4>2
      <4>3. QED
        BY <2>2, <4>1, <4>2
    <3>3. QED
      BY <3>1, <3>2 DEF FreshTrace, CallOf
  <2>5. TypeOK'
    BY <1>1, <1>2, <1>3, <2>1 DEF IInv, TypeOK, Messages
  <2>6. InStep'
    BY <1>1, <1>7, <2>2 DEF InStep
  <2>7. QED
    BY <1>8, <2>3, <2>4, <2>5, <2>6 DEF IInv
<1> QED
  BY <1>9, <1>10

\* An answer that is dropped was late.
LEMMA DropStep ==
    ASSUME IInv, DropData
    PROVE  IInv'
<1>1. /\ mailbox # <<>> /\ mailbox' = Tail(mailbox)
      /\ UNCHANGED <<given, waiting, server, boot, port, program, ready, linked, crashes, late>>
  BY DEF DropData, callVars, programVars
<1>2. /\ Part(mailbox, mailbox') /\ mailbox' \in Seq(Messages)
      /\ \A i \in 1..Len(mailbox') : i + 1 \in 1..Len(mailbox) /\ mailbox'[i] = mailbox[i + 1]
  BY <1>1, Typed, TailIsPart, HeadTailProperties, LenProperties
<1>3. Part(port, port')
  BY <1>1, PartOfItself, Typed
<1>4. OneTrace' /\ FreshTrace'
  BY <1>1, <1>2, <1>3, FewerTraces DEF IInv
<1>5. TypeOK'
  BY <1>1, <1>2 DEF IInv, TypeOK, Messages
<1>6. EachAnswerOnce'
  BY <1>1 DEF IInv, EachAnswerOnce
<1>7. CrashLeavesNothing'
  BY <1>1 DEF IInv, CrashLeavesNothing
<1>8. InStep'
  BY <1>1, <1>2 DEF IInv, InStep
<1> QED
  BY <1>4, <1>5, <1>6, <1>7, <1>8 DEF IInv

\* The answer that is given was nobody's yet, and it is gone for the others.
LEMMA TakeStep ==
    ASSUME IInv, Take
    PROVE  IInv'
<1> USE StatesAssumption
<1>1. PICK n \in 1..Len(mailbox) : Answered(n) /\ mailbox' = Without(n)
  BY DEF Take
<1> DEFINE m == mailbox[n]
<1>2. /\ server \in Calls /\ server' = "idle" /\ waiting' = waiting \ {server}
      /\ given' = IF server \in waiting THEN [given EXCEPT ![server] = m.call] ELSE given
      /\ UNCHANGED <<boot, port, program, ready, linked, crashes, late>>
  BY <1>1 DEF Take, Answered, programVars
<1>3. m \in Messages /\ m.kind = "data" /\ CallOf(m) = m.call /\ m.call \in Calls
  <2>1. m \in Messages /\ m.kind = "data"
    BY <1>1, Typed DEF Answered, IsFirstData, DataIn
  <2>2. QED
    BY <2>1, MessageType
<1>4. /\ mailbox' \in Seq(Messages) /\ Part(mailbox, mailbox')
      /\ \A i \in 1..Len(mailbox') :
            \E j \in 1..Len(mailbox) : j # n /\ mailbox'[i] = mailbox[j]
  <2>1. mailbox' = Removal(mailbox, n)
    BY <1>1 DEF Without, Removal
  <2>2. /\ mailbox' \in Seq(Messages) /\ Len(mailbox') = Len(mailbox) - 1
        /\ \A i \in 1..n - 1 : mailbox'[i] = mailbox[i]
        /\ \A i \in n..Len(mailbox) - 1 : mailbox'[i] = mailbox[i + 1]
        /\ Part(mailbox, mailbox')
    BY <2>1, Typed, RemovalIsPart
  <2>3. Len(mailbox) \in Nat
    BY Typed, LenProperties
  <2>4. ASSUME NEW i \in 1..Len(mailbox')
        PROVE  \E j \in 1..Len(mailbox) : j # n /\ mailbox'[i] = mailbox[j]
    <3>1. CASE i \in 1..n - 1
      <4>1. i \in 1..Len(mailbox) /\ i # n /\ mailbox'[i] = mailbox[i]
        BY <2>2, <2>3, <3>1
      <4>2. QED
        BY <4>1
    <3>2. CASE i \in n..Len(mailbox) - 1
      <4>1. i + 1 \in 1..Len(mailbox) /\ i + 1 # n /\ mailbox'[i] = mailbox[i + 1]
        BY <2>2, <2>3, <3>2
      <4>2. QED
        BY <4>1
    <3>3. i \in 1..n - 1 \/ i \in n..Len(mailbox) - 1
      BY <2>2, <2>3
    <3>4. QED
      BY <3>1, <3>2, <3>3
  <2>5. QED
    BY <2>2, <2>4
<1>5. \A j \in 1..Len(mailbox) : j # n => CallOf(mailbox[j]) # m.call
  BY <1>3 DEF IInv, OneTrace
<1>6. \A j \in 1..Len(port) : port[j].call # m.call
  BY <1>3 DEF IInv, OneTrace
<1>7. \A c \in Calls : given[c] # m.call
  BY <1>3 DEF IInv, FreshTrace
<1> HIDE DEF m
<1>8. \A c \in Calls : given'[c] = given[c] \/ (c = server /\ given'[c] = m.call)
  BY <1>2, Typed
<1>9. Part(port, port')
  BY <1>2, PartOfItself, Typed
<1>10. OneTrace'
  BY <1>4, <1>9, FewerTraces DEF IInv
<1>11. TypeOK'
  <2>1. given' \in [Calls -> Calls \cup {NoCall}]
    BY <1>2, <1>3, Typed
  <2>2. QED
    BY <1>2, <1>4, <2>1 DEF IInv, TypeOK, Messages
<1>12. CrashLeavesNothing'
  BY <1>2 DEF IInv, CrashLeavesNothing
<1>13. FreshTrace'
  <2>1. ASSUME NEW c \in Calls, NEW i \in 1..Len(mailbox')
        PROVE  given'[c] # CallOf(mailbox'[i])
    <3>1. PICK j \in 1..Len(mailbox) : j # n /\ mailbox'[i] = mailbox[j]
      BY <1>4
    <3>2. given[c] # CallOf(mailbox[j]) /\ CallOf(mailbox[j]) # m.call
      BY <1>5, <3>1 DEF IInv, FreshTrace
    <3>3. CallOf(mailbox'[i]) = CallOf(mailbox[j])
      BY <3>1 DEF CallOf
    <3>4. QED
      BY <1>8, <3>2, <3>3
  <2>2. ASSUME NEW c \in Calls, NEW i \in 1..Len(port') PROVE given'[c] # port'[i].call
    BY <1>2, <1>6, <1>8 DEF IInv, FreshTrace
  <2>3. QED
    BY <2>1, <2>2 DEF FreshTrace, CallOf
<1>14. EachAnswerOnce'
  <2> SUFFICES ASSUME NEW c \in Calls, NEW d \in Calls, c # d, given'[c] # NoCall
               PROVE  given'[c] # given'[d]
    BY DEF EachAnswerOnce
  <2>1. CASE given'[c] = given[c] /\ given'[d] = given[d]
    BY <2>1 DEF IInv, EachAnswerOnce
  <2>2. QED
    BY <1>7, <1>8, <2>1
\* Without a timeout the answer was the only thing on its way.
<1>15. InStep'
  <2> SUFFICES ASSUME ~late
               PROVE  /\ \A i \in 1..Len(mailbox') : mailbox'[i].kind # "data"
                      /\ \A i \in 1..Len(port') : FALSE
    BY <1>2 DEF InStep
  <2>1. m.call = server
    BY <1>3 DEF IInv, InStep, m
  <2>2. \A i \in 1..Len(port) : FALSE
    BY <1>6, <2>1 DEF IInv, InStep
  <2>3. ASSUME NEW i \in 1..Len(mailbox'), mailbox'[i].kind = "data" PROVE FALSE
    <3>1. PICK j \in 1..Len(mailbox) : j # n /\ mailbox'[i] = mailbox[j]
      BY <1>4
    <3>2. mailbox[j].kind = "data" /\ mailbox[j].call = m.call
      BY <2>1, <2>3, <3>1 DEF IInv, InStep
    <3>3. CallOf(mailbox[j]) = m.call
      BY <3>2 DEF CallOf
    <3>4. QED
      BY <1>5, <3>1, <3>3
  <2>4. QED
    BY <1>2, <2>2, <2>3
<1> QED
  BY <1>10, <1>11, <1>12, <1>13, <1>14, <1>15 DEF IInv

LEMMA CrashStep ==
    ASSUME IInv, Crash
    PROVE  IInv'
<1> USE StatesAssumption
<1>1. /\ server \in Calls /\ waiting' = {} /\ server' = "down" /\ mailbox' = <<>>
      /\ port' = <<>> /\ program' = "exited" /\ late' = FALSE /\ crashes' = crashes + 1
      /\ UNCHANGED <<given, boot, ready, linked>>
  BY DEF Crash
<1>2. Part(mailbox, mailbox') /\ Part(port, port') /\ Len(<<>>) = 0 /\ 1..0 = {}
  BY <1>1, EmptyIsPart, EmptySeq
<1>3. OneTrace' /\ FreshTrace'
  BY <1>1, <1>2, FewerTraces DEF IInv
<1>4. crashes' \in 0..2
  BY <1>1 DEF IInv, TypeOK, CrashLeavesNothing
<1>5. mailbox' \in Seq(Requests \cup Answers) /\ port' \in Seq(Commands)
  BY <1>1, EmptySeq
<1>6. TypeOK'
  BY <1>1, <1>4, <1>5 DEF IInv, TypeOK
<1>7. CrashLeavesNothing'
  BY <1>1 DEF CrashLeavesNothing
<1>8. InStep'
  BY <1>1, <1>2 DEF InStep
<1>9. EachAnswerOnce'
  BY <1>1 DEF IInv, EachAnswerOnce
<1> QED
  BY <1>3, <1>6, <1>7, <1>8, <1>9 DEF IInv

-----------------------------------------------------------------------------
(* The program *)

\* The program answers with a term and keeps its state Boolean.
LEMMA ProgramTypes ==
    ASSUME NEW k \in AllKinds, k # "unanswered", ready \in BOOLEAN, linked \in BOOLEAN,
           NEW term \in Terms(k)
    PROVE  /\ term \in {"ok", "error", "malformed"}
           /\ LinkedAfter(k, term) \subseteq BOOLEAN
<1>1. term \in {"ok", "error", "malformed"}
  <2>1. Terms(k) \subseteq {"ok", "error", "malformed"}
    BY DEF Terms, AllKinds
  <2>2. QED
    BY <2>1
<1>2. LinkedAfter(k, term) \subseteq BOOLEAN
  <2>1. CASE k # "connect" \/ ~ready
    BY <2>1 DEF LinkedAfter
  <2>2. CASE k = "connect" /\ ready
    BY <2>2 DEF LinkedAfter
  <2>3. QED
    BY <2>1, <2>2
<1> QED
  BY <1>1, <1>2

\* What the program takes from the port: the oldest command, if it runs.
LEMMA CommandTaken ==
    ASSUME IInv, NextCommand
    PROVE  /\ Head(port) \in Commands /\ 1 \in 1..Len(port) /\ Head(port) = port[1]
           /\ port' \in Seq(Commands) /\ Part(port, port')
           /\ \A i \in 1..Len(port') :
                 i + 1 \in 1..Len(port) /\ i + 1 # 1 /\ port'[i] = port[i + 1]
           /\ server \notin {"down", "gone"}
<1>1. port # <<>> /\ port' = Tail(port)
  BY DEF NextCommand
<1>2. /\ Head(port) \in Commands /\ Head(port) = port[1] /\ Len(port) \in Nat /\ 1 \in 1..Len(port)
      /\ Len(port') = Len(port) - 1
      /\ \A i \in 1..Len(port') : port'[i] = port[i + 1]
  BY <1>1, Typed, HeadTailProperties, LenProperties
<1>3. port' \in Seq(Commands) /\ Part(port, port')
  BY <1>1, Typed, TailIsPart
<1>4. server \notin {"down", "gone"}
  BY <1>1 DEF IInv, CrashLeavesNothing
<1> QED
  BY <1>2, <1>3, <1>4

\* The answer takes the place of its command.
LEMMA ExecuteStep ==
    ASSUME IInv, Execute
    PROVE  IInv'
<1> USE StatesAssumption
<1> DEFINE c == Head(port)
<1>1. PICK term \in Terms(c.asks) :
         /\ mailbox' = Append(mailbox, [kind |-> "data", call |-> c.call, term |-> term])
         /\ linked' \in LinkedAfter(c.asks, term)
  BY DEF Execute
<1> DEFINE m == [kind |-> "data", call |-> c.call, term |-> term]
<1>2. /\ NextCommand /\ c.asks # "unanswered" /\ ready' = (ready \/ c.asks = "init")
      /\ UNCHANGED <<waiting, given, server, boot, program, crashes, late>>
  BY DEF Execute, callVars
<1>3. /\ c \in Commands /\ c = port[1] /\ 1 \in 1..Len(port)
      /\ port' \in Seq(Commands) /\ Part(port, port') /\ server \notin {"down", "gone"}
      /\ \A i \in 1..Len(port') :
            i + 1 \in 1..Len(port) /\ i + 1 # 1 /\ port'[i] = port[i + 1]
  BY <1>2, CommandTaken
<1>4. c.call \in Calls /\ c.asks \in AllKinds
  BY <1>3 DEF Commands
<1>5. term \in {"ok", "error", "malformed"} /\ linked' \in BOOLEAN
  BY <1>1, <1>2, <1>4, ProgramTypes DEF IInv, TypeOK
<1>6. m \in Messages /\ CallOf(m) = c.call /\ m.kind = "data" /\ m.call = c.call
  BY <1>4, <1>5 DEF Messages, Answers, CallOf
<1>7. mailbox' = Append(mailbox, m)
  BY <1>1
<1>8. /\ \A i \in 1..Len(mailbox) : CallOf(mailbox[i]) # c.call
      /\ \A i \in 1..Len(port) : i # 1 => port[i].call # c.call
      /\ \A d \in Calls : given[d] # c.call
  BY <1>3 DEF IInv, OneTrace, FreshTrace
<1> HIDE DEF c, m
<1>9. \A i \in 1..Len(port') : port'[i].call # CallOf(m)
  BY <1>3, <1>6, <1>8
<1>10. mailbox' \in Seq(Messages)
  BY <1>6, <1>7, Typed, AppendProperties
<1>11. /\ OneTrace'
       /\ \A i \in 1..Len(mailbox') :
              mailbox'[i] = m \/ \E j \in 1..Len(mailbox) : mailbox'[i] = mailbox[j]
  BY <1>3, <1>6, <1>7, <1>8, <1>9, Typed, NewTrace DEF IInv
<1>12. TypeOK'
  <2>1. ready' \in BOOLEAN
    BY <1>2
  <2>2. QED
    BY <1>2, <1>3, <1>5, <1>10, <2>1 DEF IInv, TypeOK, Messages
<1>13. CrashLeavesNothing'
  BY <1>2, <1>3 DEF IInv, CrashLeavesNothing
<1>14. FreshTrace'
  <2>1. ASSUME NEW d \in Calls, NEW i \in 1..Len(mailbox')
        PROVE  given'[d] # CallOf(mailbox'[i])
    <3>1. CASE mailbox'[i] = m
      BY <1>2, <1>6, <1>8, <3>1
    <3>2. ASSUME NEW j \in 1..Len(mailbox), mailbox'[i] = mailbox[j]
          PROVE  given'[d] # CallOf(mailbox'[i])
      BY <1>2, <3>2 DEF IInv, FreshTrace
    <3>3. QED
      BY <1>11, <3>1, <3>2
  <2>2. ASSUME NEW d \in Calls, NEW i \in 1..Len(port') PROVE given'[d] # port'[i].call
    BY <1>2, <1>3 DEF IInv, FreshTrace
  <2>3. QED
    BY <2>1, <2>2 DEF FreshTrace, CallOf
<1>15. InStep'
  <2> SUFFICES ASSUME ~late
               PROVE  /\ \A i \in 1..Len(mailbox') :
                            mailbox'[i].kind = "data" => mailbox'[i].call = server
                      /\ \A i \in 1..Len(port') : port'[i].call = server
    BY <1>2 DEF InStep
  <2>1. c.call = server
    BY <1>3 DEF IInv, InStep
  <2>2. \A i \in 1..Len(port') : port'[i].call = server
    BY <1>3 DEF IInv, InStep
  <2>3. ASSUME NEW i \in 1..Len(mailbox'), mailbox'[i].kind = "data"
        PROVE  mailbox'[i].call = server
    <3>1. CASE mailbox'[i] = m
      BY <1>6, <2>1, <3>1
    <3>2. ASSUME NEW j \in 1..Len(mailbox), mailbox'[i] = mailbox[j]
          PROVE  mailbox'[i].call = server
      BY <2>3, <3>2 DEF IInv, InStep
    <3>3. QED
      BY <1>11, <3>1, <3>2
  <2>4. QED
    BY <2>2, <2>3
<1>16. EachAnswerOnce'
  BY <1>2 DEF IInv, EachAnswerOnce
<1> QED
  BY <1>11, <1>12, <1>13, <1>14, <1>15, <1>16 DEF IInv

\* Commands that are lost, one or all, leave no answer.
LEMMA LostStep ==
    ASSUME IInv, ExecuteSilently \/ ProgramExits
    PROVE  IInv'
<1>1. /\ UNCHANGED <<waiting, given, server, mailbox, boot, ready, linked, crashes, late>>
      /\ program' \in {"running", "exited"}
  BY DEF ExecuteSilently, ProgramExits, callVars, programVars, IInv, TypeOK
<1>2. port' \in Seq(Commands) /\ Part(port, port')
  <2>1. CASE ExecuteSilently
    BY <2>1, CommandTaken DEF ExecuteSilently
  <2>2. CASE ProgramExits
    BY <2>2, EmptyIsPart, EmptySeq DEF ProgramExits
  <2>3. QED
    BY <2>1, <2>2
<1>3. Part(mailbox, mailbox')
  BY <1>1, PartOfItself, Typed
<1>4. OneTrace' /\ FreshTrace'
  BY <1>1, <1>2, <1>3, FewerTraces DEF IInv
<1>5. TypeOK'
  BY <1>1, <1>2 DEF IInv, TypeOK
<1>6. CrashLeavesNothing'
  <2>1. CASE ExecuteSilently
    BY <1>1, <2>1, CommandTaken DEF IInv, CrashLeavesNothing, ExecuteSilently
  <2>2. CASE ProgramExits
    BY <1>1, <2>2 DEF IInv, CrashLeavesNothing, ProgramExits
  <2>3. QED
    BY <2>1, <2>2
<1>7. InStep'
  <2>1. PICK f \in [1..Len(port') -> 1..Len(port)] :
           \A i \in 1..Len(port') : port'[i] = port[f[i]]
    BY <1>2 DEF Part
  <2>2. QED
    BY <1>1, <2>1 DEF IInv, InStep
<1>8. EachAnswerOnce'
  BY <1>1 DEF IInv, EachAnswerOnce
<1> QED
  BY <1>4, <1>5, <1>6, <1>7, <1>8 DEF IInv

-----------------------------------------------------------------------------
LEMMA IInvStep == IInv /\ [Next]_vars => IInv'
<1> SUFFICES ASSUME IInv, [Next]_vars PROVE IInv'
  OBVIOUS
<1>1. ASSUME NEW c \in Calls, ApiCall(c) \/ BootCall(c) PROVE IInv'
  BY <1>1, CallStep
<1>2. CASE (\E c \in Calls : CallTimesOut(c)) \/ ServerTimesOut
  BY <1>2, TimeoutSteps
<1>3. CASE Restart \/ GiveUp \/ SecondPasses
  BY <1>3, QuietSteps
<1>4. CASE Serve
  BY <1>4, ServeStep
<1>5. CASE DropData
  BY <1>5, DropStep
<1>6. CASE Take
  BY <1>6, TakeStep
<1>7. CASE Crash
  BY <1>7, CrashStep
<1>8. CASE Execute
  BY <1>8, ExecuteStep
<1>9. CASE ExecuteSilently \/ ProgramExits
  BY <1>9, LostStep
<1>10. CASE UNCHANGED vars
  <2>1. UNCHANGED <<waiting, given, server, mailbox, boot, port, program, ready, linked, crashes, late>>
    BY <1>10 DEF vars, callVars, programVars
  <2>2. OneTrace' /\ FreshTrace' /\ EachAnswerOnce'
    BY <2>1, SameTraces
  <2>3. TypeOK' /\ CrashLeavesNothing' /\ InStep'
    BY <2>1 DEF IInv, TypeOK, CrashLeavesNothing, InStep
  <2>4. QED
    BY <2>2, <2>3 DEF IInv
<1> QED
  BY <1>1, <1>2, <1>3, <1>4, <1>5, <1>6, <1>7, <1>8, <1>9, <1>10 DEF Next

LEMMA Invariance == Spec => []IInv
BY InitIInv, IInvStep, PTL DEF Spec

-----------------------------------------------------------------------------
\* Every variable keeps its type; in particular the supervisor never counts a
\* third crash of the server within a second.
THEOREM TypeCorrect == Spec => []TypeOK
<1>1. IInv => TypeOK
  BY DEF IInv
<1> QED
  BY <1>1, Invariance, PTL

\* While no call_port of this server has timed out, the data message that
\* call_port takes for the answer is the answer of the command it has sent.
THEOREM NoMixWithoutTimeout == Spec => []MixOnlyAfterTimeout
<1>1. IInv => MixOnlyAfterTimeout
  BY DEF IInv, InStep, MixOnlyAfterTimeout, DataIn
<1> QED
  BY <1>1, Invariance, PTL

\* No answer of the program is the reply of two calls, whatever timed out,
\* crashed or ended before.
THEOREM NoAnswerTwice == Spec => []EachAnswerOnce
<1>1. IInv => EachAnswerOnce
  BY DEF IInv
<1> QED
  BY <1>1, Invariance, PTL

-----------------------------------------------------------------------------
(* The promise of the API *)

\* What is on its way, and so which answers may still come, grows by a call only.
LEMMA OpenIs ==
    ASSUME NEW c
    PROVE  c \in Open <=> /\ c \in Calls
                          /\ \/ \E i \in 1..Len(mailbox) : CallOf(mailbox[i]) = c
                             \/ \E i \in 1..Len(port) : port[i].call = c
BY DEF Open

LEMMA OpenIsNext ==
    ASSUME NEW c
    PROVE  c \in Open' <=> /\ c \in Calls
                           /\ \/ \E i \in 1..Len(mailbox') : CallOf(mailbox'[i]) = c
                              \/ \E i \in 1..Len(port') : port'[i].call = c
BY DEF Open, CallOf

\* Messages that are only moved or left out open nothing.
LEMMA NothingOpens ==
    ASSUME \A i \in 1..Len(mailbox') : CallOf(mailbox'[i]) \in Open,
           \A i \in 1..Len(port') : port'[i].call \in Open
    PROVE  Open' \subseteq Open
BY OpenIsNext

LEMMA PartOpensNothing ==
    ASSUME IInv, Part(mailbox, mailbox'), Part(port, port')
    PROVE  Open' \subseteq Open
<1>1. ASSUME NEW i \in 1..Len(mailbox') PROVE CallOf(mailbox'[i]) \in Open
  <2>1. PICK j \in 1..Len(mailbox) : mailbox'[i] = mailbox[j]
    BY DEF Part
  <2>2. CallOf(mailbox[j]) \in Calls
    BY Typed, MessageType
  <2>3. CallOf(mailbox[j]) \in Open
    BY <2>2, OpenIs
  <2>4. QED
    BY <2>1, <2>3 DEF CallOf
<1>2. ASSUME NEW i \in 1..Len(port') PROVE port'[i].call \in Open
  <2>1. PICK j \in 1..Len(port) : port'[i] = port[j]
    BY DEF Part
  <2>2. port[j].call \in Open
    BY Typed, OpenIs
  <2>3. QED
    BY <2>1, <2>2
<1> QED
  BY <1>1, <1>2, NothingOpens

LEMMA SameOpen == UNCHANGED <<mailbox, port>> => Open' = Open
BY DEF Open, CallOf

-----------------------------------------------------------------------------
\* A call is refused by a server that is not there and pending otherwise.
LEMMA RefinesCall ==
    ASSUME IInv, NEW c \in Calls, ApiCall(c) \/ BootCall(c)
    PROVE  Promise!Start(c)
<1>1. PICK k \in AllKinds : Call(c, k)
  BY KindsAssumption DEF ApiCall, BootCall, AllKinds
<1>2. port' = port /\ late' = late
  BY DEF ApiCall, BootCall
<1>3. /\ c \notin waiting
      /\ \A i \in 1..Len(mailbox) : CallOf(mailbox[i]) # c
      /\ \A i \in 1..Len(port) : port[i].call # c
      /\ \A d \in Calls \ {c} : given[d] # c
      /\ given' = [given EXCEPT ![c] = NoCall]
  BY <1>1 DEF Call, Free
<1>4. c \notin Open
  BY <1>3, OpenIs
<1>5. CASE server \in {"down", "gone"}
  <2>1. waiting' = waiting /\ Open' = Open
    BY <1>1, <1>2, <1>5, SameOpen DEF Call
  <2>2. QED
    BY <1>2, <1>3, <1>4, <2>1 DEF Promise!Start
<1>6. CASE server \notin {"down", "gone"}
  <2>1. PICK m \in Messages : m = Request(c, k) /\ CallOf(m) = c
    <3>1. Request(c, k) \in Messages /\ CallOf(Request(c, k)) = c
      BY DEF Messages, Requests, Commands, Request, CallOf
    <3>2. QED
      BY <3>1
  <2>2. waiting' = waiting \cup {c} /\ mailbox' = Append(mailbox, m)
    BY <1>1, <1>6, <2>1 DEF Call
  <2>3. /\ Len(mailbox) \in Nat /\ Len(mailbox') = Len(mailbox) + 1
        /\ \A i \in 1..Len(mailbox) : mailbox'[i] = mailbox[i]
        /\ mailbox'[Len(mailbox) + 1] = m
    BY <2>2, Typed, AppendProperties, LenProperties
  <2>4. ASSUME NEW d
        PROVE  (\E i \in 1..Len(mailbox') : CallOf(mailbox'[i]) = d)
                  <=> d = c \/ \E i \in 1..Len(mailbox) : CallOf(mailbox[i]) = d
    <3>1. ASSUME NEW i \in 1..Len(mailbox), CallOf(mailbox[i]) = d
          PROVE  \E j \in 1..Len(mailbox') : CallOf(mailbox'[j]) = d
      <4>1. i \in 1..Len(mailbox') /\ CallOf(mailbox'[i]) = d
        BY <2>3, <3>1
      <4>2. QED
        BY <4>1
    <3>2. \E j \in 1..Len(mailbox') : CallOf(mailbox'[j]) = c
      <4>1. Len(mailbox) + 1 \in 1..Len(mailbox') /\ CallOf(mailbox'[Len(mailbox) + 1]) = c
        BY <2>1, <2>3
      <4>2. QED
        BY <4>1
    <3>3. ASSUME NEW i \in 1..Len(mailbox'), CallOf(mailbox'[i]) = d
          PROVE  d = c \/ \E j \in 1..Len(mailbox) : CallOf(mailbox[j]) = d
      <4>1. CASE i \in 1..Len(mailbox)
        <5>1. CallOf(mailbox[i]) = d
          BY <2>3, <3>3, <4>1
        <5>2. QED
          BY <4>1, <5>1
      <4>2. CASE i = Len(mailbox) + 1
        BY <2>1, <2>3, <3>3, <4>2
      <4>3. i \in 1..Len(mailbox) \/ i = Len(mailbox) + 1
        BY <2>3
      <4>4. QED
        BY <4>1, <4>2, <4>3
    <3>4. QED
      BY <3>1, <3>2, <3>3
  <2>5. ASSUME NEW d PROVE d \in Open' <=> d \in Open \/ d = c
    BY <1>2, <2>4, OpenIs, OpenIsNext
  <2>6. Open' = Open \cup {c}
    BY <2>5
  <2>7. QED
    BY <1>2, <1>3, <1>4, <2>2, <2>6 DEF Promise!Start
<1> QED
  BY <1>5, <1>6

\* The server that takes a request sends it on or loses it.
LEMMA RefinesServe ==
    ASSUME IInv, Serve
    PROVE  Promise!Lose
<1>1. /\ mailbox # <<>> /\ mailbox' = Tail(mailbox) /\ Head(mailbox).kind = "request"
      /\ port' = IF program = "running" THEN Append(port, Head(mailbox).command) ELSE port
      /\ UNCHANGED <<waiting, given, late>>
  BY DEF Serve, callVars
<1>2. PICK m \in Messages : m = Head(mailbox) /\ m = mailbox[1] /\ 1 \in 1..Len(mailbox)
  BY <1>1, Typed, HeadTailProperties, LenProperties
<1>3. CallOf(m) \in Open /\ CallOf(m) = m.command.call /\ m.command \in Commands
  <2>1. CallOf(m) \in Calls /\ CallOf(m) = m.command.call /\ m.command \in Commands
    BY <1>1, <1>2, MessageType
  <2>2. QED
    BY <1>2, <2>1, OpenIs
<1>4. Part(mailbox, mailbox')
  BY <1>1, Typed, TailIsPart
<1>5. ASSUME NEW i \in 1..Len(mailbox') PROVE CallOf(mailbox'[i]) \in Open
  <2>1. PICK j \in 1..Len(mailbox) : mailbox'[i] = mailbox[j]
    BY <1>4 DEF Part
  <2>2. CallOf(mailbox[j]) \in Calls
    BY Typed, MessageType
  <2>3. CallOf(mailbox[j]) \in Open
    BY <2>2, OpenIs
  <2>4. QED
    BY <2>1, <2>3 DEF CallOf
<1>6. ASSUME NEW i \in 1..Len(port') PROVE port'[i].call \in Open
  <2>1. \A j \in 1..Len(port) : port[j].call \in Open
    BY Typed, OpenIs
  <2>2. CASE port' = port
    BY <2>1, <2>2
  <2>3. CASE port' = Append(port, m.command)
    <3>1. /\ Len(port) \in Nat /\ Len(port') = Len(port) + 1
          /\ \A j \in 1..Len(port) : port'[j] = port[j]
          /\ port'[Len(port) + 1] = m.command
      BY <1>3, <2>3, Typed, AppendProperties, LenProperties
    <3>2. CASE i \in 1..Len(port)
      BY <2>1, <3>1, <3>2
    <3>3. CASE i = Len(port) + 1
      BY <1>3, <3>1, <3>3
    <3>4. i \in 1..Len(port) \/ i = Len(port) + 1
      BY <3>1
    <3>5. QED
      BY <3>2, <3>3, <3>4
  <2>4. QED
    BY <1>1, <1>2, <2>2, <2>3
<1>7. Open' \subseteq Open
  BY <1>5, <1>6, NothingOpens
<1> QED
  BY <1>1, <1>7 DEF Promise!Lose

\* The answer takes the place of its command.
LEMMA RefinesExecute ==
    ASSUME IInv, Execute
    PROVE  Promise!Lose
<1>1. PICK term \in Terms(Head(port).asks) :
         mailbox' = Append(mailbox, [kind |-> "data", call |-> Head(port).call, term |-> term])
  BY DEF Execute
<1>2. NextCommand /\ Head(port).asks # "unanswered" /\ UNCHANGED <<waiting, given, late>>
  BY DEF Execute, callVars
<1>3. /\ Head(port) = port[1] /\ 1 \in 1..Len(port) /\ Head(port) \in Commands
      /\ \A i \in 1..Len(port') : i + 1 \in 1..Len(port) /\ port'[i] = port[i + 1]
  BY <1>2, CommandTaken
<1>4. PICK c \in Open : c = Head(port).call
  <2>1. Head(port).call \in Open
    BY <1>3, Typed, OpenIs
  <2>2. QED
    BY <2>1
<1>5. PICK m \in Messages : /\ m = [kind |-> "data", call |-> c, term |-> term]
                            /\ CallOf(m) = c
  <2>1. term \in {"ok", "error", "malformed"}
    BY <1>2, <1>3, ProgramTypes DEF IInv, TypeOK, Commands
  <2>2. c \in Calls
    BY OpenIs
  <2>3. PICK m : m = [kind |-> "data", call |-> c, term |-> term]
    OBVIOUS
  <2>4. m \in Messages /\ CallOf(m) = c
    BY <2>1, <2>2, <2>3 DEF Messages, Answers, CallOf
  <2>5. QED
    BY <2>3, <2>4
<1>6. /\ Len(mailbox) \in Nat /\ Len(mailbox') = Len(mailbox) + 1
      /\ \A i \in 1..Len(mailbox) : mailbox'[i] = mailbox[i]
      /\ mailbox'[Len(mailbox) + 1] = m
  BY <1>1, <1>4, <1>5, Typed, AppendProperties, LenProperties
<1>7. ASSUME NEW i \in 1..Len(mailbox') PROVE CallOf(mailbox'[i]) \in Open
  <2>1. CASE i \in 1..Len(mailbox)
    <3>1. CallOf(mailbox[i]) \in Calls
      BY <2>1, Typed, MessageType
    <3>2. CallOf(mailbox[i]) \in Open
      BY <2>1, <3>1, OpenIs
    <3>3. QED
      BY <1>6, <2>1, <3>2
  <2>2. CASE i = Len(mailbox) + 1
    BY <1>5, <1>6, <2>2
  <2>3. i \in 1..Len(mailbox) \/ i = Len(mailbox) + 1
    BY <1>6
  <2>4. QED
    BY <2>1, <2>2, <2>3
<1>8. ASSUME NEW i \in 1..Len(port') PROVE port'[i].call \in Open
  <2>1. i + 1 \in 1..Len(port) /\ port'[i] = port[i + 1]
    BY <1>3
  <2>2. port[i + 1].call \in Open
    BY <2>1, Typed, OpenIs
  <2>3. QED
    BY <2>1, <2>2
<1>9. Open' \subseteq Open
  BY <1>7, <1>8, NothingOpens
<1> QED
  BY <1>2, <1>9 DEF Promise!Lose

\* An answer that nobody takes, and a command that is never answered.
LEMMA RefinesLost ==
    ASSUME IInv, DropData \/ ExecuteSilently \/ ProgramExits
    PROVE  Promise!Lose
<1>1. UNCHANGED <<waiting, given, late>>
  BY DEF DropData, ExecuteSilently, ProgramExits, callVars
<1>2. CASE DropData
  <2>1. Part(mailbox, mailbox') /\ Part(port, port')
    BY <1>2, Typed, TailIsPart, PartOfItself DEF DropData
  <2>2. QED
    BY <1>1, <2>1, PartOpensNothing DEF Promise!Lose
<1>3. CASE ExecuteSilently
  <2>1. Part(mailbox, mailbox') /\ Part(port, port')
    BY <1>3, Typed, CommandTaken, PartOfItself DEF ExecuteSilently
  <2>2. QED
    BY <1>1, <2>1, PartOpensNothing DEF Promise!Lose
<1>4. CASE ProgramExits
  <2>1. Part(mailbox, mailbox') /\ Part(port, port')
    BY <1>4, Typed, EmptyIsPart, PartOfItself DEF ProgramExits
  <2>2. QED
    BY <1>1, <2>1, PartOpensNothing DEF Promise!Lose
<1> QED
  BY <1>2, <1>3, <1>4

\* The answer that is taken is closed, and no other: it is the only trace of
\* its call.  In step it is the answer of the call that is served.
LEMMA RefinesTake ==
    ASSUME IInv, Take
    PROVE  Promise!Reply(server) \/ Promise!Lose
<1>1. PICK n \in 1..Len(mailbox) : Answered(n) /\ mailbox' = Without(n)
  BY DEF Take
<1>2. PICK m \in Messages : m = mailbox[n]
  BY Typed
<1>3. /\ waiting' = waiting \ {server}
      /\ given' = IF server \in waiting THEN [given EXCEPT ![server] = m.call] ELSE given
      /\ UNCHANGED <<port, late>>
  BY <1>1, <1>2 DEF Answered
<1>4. m.kind = "data" /\ CallOf(m) = m.call /\ m.call \in Calls
  <2>1. m.kind = "data"
    BY <1>1, <1>2 DEF Answered, IsFirstData, DataIn
  <2>2. QED
    BY <2>1, MessageType
<1>5. m.call \in Open
  BY <1>2, <1>4, OpenIs
<1>6. /\ Part(mailbox, mailbox') /\ Len(mailbox) \in Nat /\ Len(mailbox') = Len(mailbox) - 1
      /\ \A i \in 1..n - 1 : mailbox'[i] = mailbox[i]
      /\ \A i \in n..Len(mailbox) - 1 : mailbox'[i] = mailbox[i + 1]
  <2>1. mailbox' = Removal(mailbox, n)
    BY <1>1 DEF Without, Removal
  <2>2. QED
    BY <2>1, Typed, RemovalIsPart, LenProperties
<1>7. Open' \subseteq Open
  <2>1. Part(port, port')
    BY <1>3, Typed, PartOfItself
  <2>2. QED
    BY <1>6, <2>1, PartOpensNothing
<1>8. m.call \notin Open'
  <2>1. ASSUME NEW i \in 1..Len(mailbox') PROVE CallOf(mailbox'[i]) # m.call
    <3>1. \E j \in 1..Len(mailbox) : j # n /\ mailbox'[i] = mailbox[j]
      <4>1. CASE i \in 1..n - 1
        <5>1. i \in 1..Len(mailbox) /\ i # n /\ mailbox'[i] = mailbox[i]
          BY <1>6, <4>1
        <5>2. QED
          BY <5>1
      <4>2. CASE i \in n..Len(mailbox) - 1
        <5>1. i + 1 \in 1..Len(mailbox) /\ i + 1 # n /\ mailbox'[i] = mailbox[i + 1]
          BY <1>6, <4>2
        <5>2. QED
          BY <5>1
      <4>3. i \in 1..n - 1 \/ i \in n..Len(mailbox) - 1
        BY <1>6
      <4>4. QED
        BY <4>1, <4>2, <4>3
    <3>2. PICK j \in 1..Len(mailbox) : j # n /\ mailbox'[i] = mailbox[j]
      BY <3>1
    <3>3. CallOf(mailbox[j]) # CallOf(mailbox[n])
      BY <3>2 DEF IInv, OneTrace
    <3>4. QED
      BY <1>2, <1>4, <3>2, <3>3
  <2>2. ASSUME NEW i \in 1..Len(port') PROVE port'[i].call # m.call
    BY <1>2, <1>3, <1>4 DEF IInv, OneTrace
  <2>3. QED
    BY <2>1, <2>2, OpenIsNext
<1>9. ASSUME NEW d \in Open, d # m.call PROVE d \in Open'
  <2>1. CASE \E i \in 1..Len(port) : port[i].call = d
    BY <1>3, <2>1, OpenIs, OpenIsNext
  <2>2. CASE \E i \in 1..Len(mailbox) : CallOf(mailbox[i]) = d
    <3>1. PICK i \in 1..Len(mailbox) : CallOf(mailbox[i]) = d
      BY <2>2
    <3>2. i # n
      BY <1>2, <1>4, <1>9, <3>1
    <3>3. CASE i < n
      <4>1. i \in 1..Len(mailbox') /\ mailbox'[i] = mailbox[i]
        BY <1>6, <3>3
      <4>2. QED
        BY <3>1, <4>1, OpenIs, OpenIsNext
    <3>4. CASE i > n
      <4>1. i - 1 \in n..Len(mailbox) - 1 /\ (i - 1) + 1 = i
        BY ONLY <1>6, <3>4, n \in 1..Len(mailbox), i \in 1..Len(mailbox)
      <4>2. i - 1 \in 1..Len(mailbox') /\ mailbox'[i - 1] = mailbox[i]
        BY <1>6, <4>1
      <4>3. QED
        BY <3>1, <4>2, OpenIs, OpenIsNext
    <3>5. QED
      BY <3>2, <3>3, <3>4
  <2>3. QED
    BY <2>1, <2>2, OpenIs
<1>10. Open' = Open \ {m.call}
  BY <1>7, <1>8, <1>9
<1>11. ~late => m.call = server
  BY <1>2, <1>4 DEF IInv, InStep
<1>12. CASE server \in waiting
  BY <1>3, <1>5, <1>10, <1>11, <1>12 DEF Promise!Reply
<1>13. CASE server \notin waiting
  <2>1. waiting' = waiting /\ given' = given
    BY <1>3, <1>13
  <2>2. QED
    BY <1>3, <1>7, <2>1 DEF Promise!Lose
<1> QED
  BY <1>12, <1>13

\* The caller's timeout, the server's and the crash.
LEMMA RefinesEnd ==
    ASSUME IInv
    PROVE  /\ \A c \in Calls : CallTimesOut(c) => Promise!GiveUp(c)
           /\ ServerTimesOut => Promise!GiveUpAnswer(server)
           /\ Crash => Promise!Break
<1>1. ASSUME NEW c \in Calls, CallTimesOut(c) PROVE Promise!GiveUp(c)
  <2>1. Open' = Open
    BY <1>1, SameOpen DEF CallTimesOut
  <2>2. QED
    BY <1>1, <2>1 DEF CallTimesOut, Promise!GiveUp
<1>2. ASSUME ServerTimesOut PROVE Promise!GiveUpAnswer(server)
  <2>1. Open' = Open
    BY <1>2, SameOpen DEF ServerTimesOut
  <2>2. QED
    BY <1>2, <2>1 DEF ServerTimesOut, Promise!GiveUpAnswer
<1>3. ASSUME Crash PROVE Promise!Break
  <2>1. mailbox' = <<>> /\ port' = <<>> /\ Len(<<>>) = 0 /\ 1..0 = {}
    BY <1>3, EmptySeq DEF Crash
  <2>2. \A c : c \notin Open'
    BY <2>1, OpenIsNext
  <2>3. Open' = {}
    BY <2>2
  <2>4. QED
    BY <1>3, <2>3 DEF Crash, Promise!Break
<1> QED
  BY <1>1, <1>2, <1>3

LEMMA RefinesInit == Init => Promise!Init
<1> SUFFICES ASSUME Init PROVE Promise!Init
  OBVIOUS
<1>1. mailbox = <<>> /\ port = <<>> /\ Len(<<>>) = 0 /\ 1..0 = {}
  BY EmptySeq DEF Init
<1>2. \A c : c \notin Open
  BY <1>1, OpenIs
<1>3. Open = {}
  BY <1>2
<1> QED
  BY <1>3 DEF Init, Promise!Init

LEMMA RefinesStep == IInv /\ [Next]_vars => [Promise!Next]_Promise!vars
<1> SUFFICES ASSUME IInv, [Next]_vars
             PROVE  Promise!Next \/ UNCHANGED Promise!vars
  OBVIOUS
<1>1. ASSUME NEW c \in Calls, ApiCall(c) \/ BootCall(c) PROVE Promise!Next
  BY <1>1, RefinesCall DEF Promise!Next
<1>2. ASSUME NEW c \in Calls, CallTimesOut(c) PROVE Promise!Next
  BY <1>2, RefinesEnd DEF Promise!Next
<1>3. CASE Serve
  BY <1>3, RefinesServe DEF Promise!Next
<1>4. CASE Execute
  BY <1>4, RefinesExecute DEF Promise!Next
<1>5. CASE DropData \/ ExecuteSilently \/ ProgramExits
  BY <1>5, RefinesLost DEF Promise!Next
<1>6. CASE Take
  <2>1. server \in Calls
    BY <1>6 DEF Take
  <2>2. QED
    BY <1>6, <2>1, RefinesTake DEF Promise!Next
<1>7. CASE ServerTimesOut
  <2>1. server \in Calls
    BY <1>7 DEF ServerTimesOut
  <2>2. QED
    BY <1>7, <2>1, RefinesEnd DEF Promise!Next
<1>8. CASE Crash
  BY <1>8, RefinesEnd DEF Promise!Next
<1>9. CASE Restart \/ GiveUp \/ SecondPasses \/ UNCHANGED vars
  <2>1. UNCHANGED <<waiting, given, mailbox, port, late>>
    BY <1>9 DEF Restart, GiveUp, SecondPasses, vars, callVars
  <2>2. QED
    BY <2>1, SameOpen DEF Promise!vars
<1> QED
  BY <1>1, <1>2, <1>3, <1>4, <1>5, <1>6, <1>7, <1>8, <1>9 DEF Next

\* The server keeps the promise of the API, liveness apart: a call ends once,
\* in step with its own answer and otherwise with that of one call under way,
\* which is then nobody's any more.
THEOREM ImplementsPromise == Spec => Promise!SafeSpec
BY Invariance, RefinesInit, RefinesStep, PTL DEF Spec, Promise!SafeSpec
=============================================================================
