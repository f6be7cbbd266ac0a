---------------------------- MODULE NifAsyncProofs ---------------------------
(***************************************************************************)
(* Proofs about NifAsync, for any sets of processes and references.        *)
(*                                                                         *)
(* The invariants the runs check are inductive only together and with two  *)
(* more facts: exactly the calls that have been made have an owner among   *)
(* Procs (Owned), and a process that has exited has an empty mailbox and   *)
(* no call under way, calls being "gone" for no other reason (DeadAreDone).*)
(* The first is what makes reading mailbox[owner[r]] meaningful at all, so *)
(* even the types need it; the second is why a callback that finds the     *)
(* caller alive sends to a call that waits or has timed out.               *)
(***************************************************************************)
EXTENDS NifAsync, TLAPS

Owned == \A r \in Refs : (owner[r] = NoProc) <=> (call[r] = "unused")

DeadAreDone ==
    /\ \A p \in dead : mailbox[p] = {}
    /\ \A r \in Refs : /\ owner[r] \in dead => call[r] \in Final
                       /\ call[r] = "gone" => owner[r] \in dead

IInv == /\ TypeOK
        /\ Owned
        /\ DeadAreDone
        /\ OwnAnswer
        /\ MailIsFromOwnCall
        /\ CallbackDataHasOneHolder

-----------------------------------------------------------------------------
\* Every step preserves the types and the owners.
LEMMA TypeStep == TypeOK /\ Owned /\ [Next]_vars => TypeOK' /\ Owned'
<1> SUFFICES ASSUME TypeOK, Owned, [Next]_vars PROVE TypeOK' /\ Owned'
  OBVIOUS
<1> USE NoProcAssumption
    DEF TypeOK, Owned, Messages, Results, Kinds, Final, Pending, InNif
<1>1. ASSUME NEW p \in Procs, NEW r \in Refs, Enter(p, r) PROVE TypeOK' /\ Owned'
  BY <1>1 DEF Enter, BadArg, PutNothing, NotConnected, Prepare, Calls, Return
<1>2. ASSUME NEW r \in Refs, Library(r) \/ ReturnInProgress(r) PROVE TypeOK' /\ Owned'
  BY <1>2 DEF Library, Submit, SubmitFails, ReturnInProgress
<1>3. ASSUME NEW r \in Refs, Callback(r) \/ CallbackFree(r) PROVE TypeOK' /\ Owned'
  BY <1>3 DEF Callback, CallbackSend, CallbackThrows, CallbackFree
<1>4. ASSUME NEW r \in Refs, Wait(r) PROVE TypeOK' /\ Owned'
  <2>1. owner[r] \in Procs /\ mailbox[owner[r]] \subseteq Messages
    BY <1>4 DEF Wait, Receive, DropStale, TimeOut
  <2>2. CASE Receive(r)
    BY <2>1, <2>2 DEF Receive, Matching
  <2>3. CASE DropStale(r) \/ TimeOut(r)
    BY <2>1, <2>3 DEF DropStale, TimeOut, Matching
  <2>4. QED
    BY <1>4, <2>2, <2>3 DEF Wait
<1>5. ASSUME NEW p \in Procs, Die(p) PROVE TypeOK' /\ Owned'
  BY <1>5 DEF Die
<1>6. CASE Connect
  BY <1>6 DEF Connect
<1>7. CASE Disconnect
  <2>1. cbd' \in [Refs -> {"none", "nif", "lib", "sent", "freed", "lost"}]
    BY <1>7 DEF Disconnect
  <2>2. QED
    BY <1>7, <2>1 DEF Disconnect
<1>8. CASE UNCHANGED vars
  BY <1>8 DEF vars
<1>9. QED
  BY <1>1, <1>2, <1>3, <1>4, <1>5, <1>6, <1>7, <1>8 DEF Next

-----------------------------------------------------------------------------
\* A NIF that is entered, or goes on, keeps the invariant: the reference is
\* fresh, so no message and no callback_data of it exists.
LEMMA NifStep ==
    ASSUME IInv, TypeOK', Owned', NEW r \in Refs,
           (\E p \in Procs : Enter(p, r)) \/ Library(r) \/ ReturnInProgress(r)
    PROVE  IInv'
<1> USE NoProcAssumption DEF IInv, TypeOK, Owned, Final, Results, Messages
<1>1. \A p \in Procs : \A m \in mailbox[p] : m.ref \in Refs
  BY DEF Pending
<1>2. ASSUME NEW p \in Procs, Enter(p, r) PROVE IInv'
  <2>1. p \notin dead /\ owner' = [owner EXCEPT ![r] = p] /\ mailbox' = mailbox
        /\ dead' = dead /\ result' = result /\ call[r] = "unused"
    BY <1>2 DEF Enter, BadArg, PutNothing, NotConnected, Prepare, Calls, Return
  <2>2. \E c \in {"badarg", "nothing", "not_connected", "preparing"} :
           /\ call' = [call EXCEPT ![r] = c]
           /\ IF c = "preparing" THEN cbd' = [cbd EXCEPT ![r] = "nif"] ELSE cbd' = cbd
    BY <1>2 DEF Enter, BadArg, PutNothing, NotConnected, Prepare, Calls, Return
  <2>3. DeadAreDone'
    BY <2>1, <2>2 DEF DeadAreDone
  <2>4. OwnAnswer'
    BY <2>1, <2>2 DEF OwnAnswer
  <2>5. MailIsFromOwnCall'
    BY <1>1, <2>1, <2>2 DEF MailIsFromOwnCall
  <2>6. CallbackDataHasOneHolder'
    BY <2>1, <2>2 DEF CallbackDataHasOneHolder
  <2>7. QED
    BY <2>3, <2>4, <2>5, <2>6
<1>3. ASSUME Library(r) \/ ReturnInProgress(r) PROVE IInv'
  <2>1. DeadAreDone'
    BY <1>3 DEF DeadAreDone, Library, Submit, SubmitFails, ReturnInProgress
  <2>2. OwnAnswer'
    BY <1>3 DEF OwnAnswer, Library, Submit, SubmitFails, ReturnInProgress
  <2>3. MailIsFromOwnCall'
    BY <1>1, <1>3 DEF MailIsFromOwnCall, Library, Submit, SubmitFails, ReturnInProgress
  <2>4. CallbackDataHasOneHolder'
    BY <1>3 DEF CallbackDataHasOneHolder, Library, Submit, SubmitFails, ReturnInProgress
  <2>5. QED
    BY <2>1, <2>2, <2>3, <2>4
<1>4. QED
  BY <1>2, <1>3

\* The callback keeps the invariant: the library held the callback_data, so
\* the call is in the NIF, waiting, or given up, and has no message yet.
LEMMA CallbackStep ==
    ASSUME IInv, TypeOK', Owned', NEW r \in Refs, Callback(r) \/ CallbackFree(r)
    PROVE  IInv'
<1> USE NoProcAssumption DEF IInv, TypeOK, Owned, Final, Results, Messages
<1>1. CASE CallbackThrows(r) \/ CallbackFree(r)
  BY <1>1 DEF CallbackThrows, CallbackFree, DeadAreDone, OwnAnswer, MailIsFromOwnCall,
              CallbackDataHasOneHolder
<1>2. ASSUME NEW rc \in Results, CallbackSend(r, rc) PROVE IInv'
  <2>1. owner[r] \in Procs /\ result[r] = "none"
        /\ call[r] \in {"submitted", "waiting", "timeout", "gone"}
    BY <1>2 DEF CallbackSend, CallbackDataHasOneHolder, OwnAnswer, Pending, InNif
  <2>2. DeadAreDone'
    BY <1>2, <2>1 DEF CallbackSend, DeadAreDone
  <2>3. OwnAnswer'
    BY <1>2, <2>1 DEF CallbackSend, OwnAnswer
  <2>4. \A p \in Procs : \A m \in mailbox[p] : m.ref \in Refs \ {r}
    BY <2>1 DEF MailIsFromOwnCall
  <2>5. MailIsFromOwnCall'
    BY <1>2, <2>1, <2>4 DEF CallbackSend, MailIsFromOwnCall, DeadAreDone
  <2>6. CallbackDataHasOneHolder'
    BY <1>2, <2>1 DEF CallbackSend, CallbackDataHasOneHolder
  <2>7. QED
    BY <2>2, <2>3, <2>5, <2>6
<1>3. QED
  BY <1>1, <1>2 DEF Callback

\* Waiting and exiting keep the invariant: a message is consumed together
\* with the wait it ends, and an exit empties the mailbox.
LEMMA CallerStep ==
    ASSUME IInv, TypeOK', Owned',
           (\E r \in Refs : Wait(r)) \/ (\E p \in Procs : Die(p))
    PROVE  IInv'
<1> USE NoProcAssumption DEF IInv, TypeOK, Owned, Final, Results, Messages
<1>1. ASSUME NEW r \in Refs, Receive(r) PROVE IInv'
  <2>1. PICK m \in Matching(r) : /\ m.ref = r
                                 /\ call' = [call EXCEPT ![r] = m.rc]
                                 /\ mailbox' = [mailbox EXCEPT ![owner[r]] = @ \ {m}]
    BY <1>1 DEF Receive
  <2>2. owner[r] \in Procs /\ owner[r] \notin dead /\ m \in mailbox[owner[r]]
        /\ result[r] = m.rc /\ m.rc \in Results /\ call[r] = "waiting"
    BY <1>1, <2>1 DEF Receive, Matching, DeadAreDone, MailIsFromOwnCall
  <2>3. \A n \in mailbox[owner[r]] : n.ref = r => n = m
    BY <2>1, <2>2 DEF MailIsFromOwnCall
  <2>4. DeadAreDone'
    BY <1>1, <2>1, <2>2 DEF Receive, DeadAreDone
  <2>5. OwnAnswer'
    BY <1>1, <2>1, <2>2 DEF Receive, OwnAnswer
  <2>6. MailIsFromOwnCall'
    BY <1>1, <2>1, <2>2, <2>3 DEF Receive, MailIsFromOwnCall
  <2>7. CallbackDataHasOneHolder'
    BY <1>1, <2>1, <2>2 DEF Receive, CallbackDataHasOneHolder
  <2>8. QED
    BY <2>4, <2>5, <2>6, <2>7
<1>2. ASSUME NEW r \in Refs, DropStale(r) PROVE IInv'
  <2>1. owner[r] \in Procs
    BY <1>2 DEF DropStale
  <2>2. QED
    BY <1>2, <2>1 DEF DropStale, DeadAreDone, OwnAnswer, MailIsFromOwnCall,
                      CallbackDataHasOneHolder
<1>3. ASSUME NEW r \in Refs, TimeOut(r) PROVE IInv'
  <2>1. DeadAreDone' /\ OwnAnswer' /\ CallbackDataHasOneHolder'
    BY <1>3 DEF TimeOut, DeadAreDone, OwnAnswer, CallbackDataHasOneHolder
  <2>2. MailIsFromOwnCall'
    BY <1>3 DEF TimeOut, MailIsFromOwnCall
  <2>3. QED
    BY <2>1, <2>2
<1>4. ASSUME NEW p \in Procs, Die(p) PROVE IInv'
  <2>1. DeadAreDone'
    BY <1>4 DEF Die, DeadAreDone, InNif, Pending
  <2>2. OwnAnswer' /\ CallbackDataHasOneHolder'
    BY <1>4 DEF Die, OwnAnswer, CallbackDataHasOneHolder
  <2>3. MailIsFromOwnCall'
    BY <1>4 DEF Die, MailIsFromOwnCall
  <2>4. QED
    BY <2>1, <2>2, <2>3
<1>5. QED
  BY <1>1, <1>2, <1>3, <1>4 DEF Wait

\* The connection comes and goes without touching a call: a dropped command
\* leaves its callback_data lost and its caller waiting.
LEMMA ConnectionStep ==
    ASSUME IInv, TypeOK', Owned', Connect \/ Disconnect PROVE IInv'
<1> USE DEF IInv, TypeOK, Owned
<1>1. CASE Connect
  BY <1>1 DEF Connect, DeadAreDone, OwnAnswer, MailIsFromOwnCall, CallbackDataHasOneHolder
<1>2. CASE Disconnect
  <2>1. DeadAreDone' /\ OwnAnswer' /\ MailIsFromOwnCall'
    BY <1>2 DEF Disconnect, DeadAreDone, OwnAnswer, MailIsFromOwnCall
  <2>2. CallbackDataHasOneHolder'
    BY <1>2 DEF Disconnect, CallbackDataHasOneHolder
  <2>3. QED
    BY <2>1, <2>2
<1>3. QED
  BY <1>1, <1>2

LEMMA InvariantStep == IInv /\ [Next]_vars => IInv'
<1> SUFFICES ASSUME IInv, [Next]_vars PROVE IInv'
  OBVIOUS
<1>1. TypeOK' /\ Owned'
  BY TypeStep DEF IInv
<1>2. CASE UNCHANGED vars
  BY <1>2 DEF IInv, vars, TypeOK, Owned, DeadAreDone, OwnAnswer, MailIsFromOwnCall,
              CallbackDataHasOneHolder
<1>3. CASE Next
  BY <1>1, <1>3, NifStep, CallbackStep, CallerStep, ConnectionStep DEF Next
<1>4. QED
  BY <1>2, <1>3

LEMMA InvariantInit == Init => IInv
<1> SUFFICES ASSUME Init PROVE IInv
  OBVIOUS
<1> USE DEF Init
<1>1. TypeOK
  BY DEF TypeOK, Messages, Kinds
<1>2. Owned /\ DeadAreDone
  BY NoProcAssumption DEF Owned, DeadAreDone
<1>3. OwnAnswer /\ MailIsFromOwnCall /\ CallbackDataHasOneHolder
  BY DEF OwnAnswer, MailIsFromOwnCall, CallbackDataHasOneHolder, Results
<1>4. QED
  BY <1>1, <1>2, <1>3 DEF IInv

LEMMA Invariance == Spec => []IInv
  BY InvariantInit, InvariantStep, PTL DEF Spec

-----------------------------------------------------------------------------
\* The variables of the asynchronous calls keep their types.
THEOREM TypeCorrect == Spec => []TypeOK
<1>1. IInv => TypeOK
  BY DEF IInv
<1>2. QED
  BY <1>1, Invariance, PTL

\* A caller never takes the late answer of another call for its own.
THEOREM AnswersAreOwn == Spec => []OwnAnswer
<1>1. IInv => OwnAnswer
  BY DEF IInv
<1>2. QED
  BY <1>1, Invariance, PTL

\* No message reaches a process but for a call of its own that still waits
\* or has timed out.
THEOREM MailIsExpected == Spec => []MailIsFromOwnCall
<1>1. IInv => MailIsFromOwnCall
  BY DEF IInv
<1>2. QED
  BY <1>1, Invariance, PTL

\* A callback_data is held by the NIF, the library or the callback, one at a
\* time, and deleted by the one that holds it last.
THEOREM CallbackDataIsOwned == Spec => []CallbackDataHasOneHolder
<1>1. IInv => CallbackDataHasOneHolder
  BY DEF IInv
<1>2. QED
  BY <1>1, Invariance, PTL

LEMMA EndsKept == IInv /\ [Next]_vars => \A r \in Refs : KeepsEnd(r)
<1> SUFFICES ASSUME IInv, [Next]_vars, NEW r \in Refs PROVE KeepsEnd(r)
  OBVIOUS
<1> USE DEF KeepsEnd, IInv, TypeOK, Final, Results
<1>1. ASSUME NEW p \in Procs, NEW s \in Refs, Enter(p, s) PROVE KeepsEnd(r)
  BY <1>1 DEF Enter, BadArg, PutNothing, NotConnected, Prepare, Calls, Return,
              CallbackDataHasOneHolder
<1>2. ASSUME NEW s \in Refs, Library(s) \/ ReturnInProgress(s) PROVE KeepsEnd(r)
  BY <1>2 DEF Library, Submit, SubmitFails, ReturnInProgress, CallbackDataHasOneHolder
<1>3. ASSUME NEW s \in Refs, Callback(s) \/ CallbackFree(s) PROVE KeepsEnd(r)
  BY <1>3 DEF Callback, CallbackSend, CallbackThrows, CallbackFree
<1>4. ASSUME NEW s \in Refs, Wait(s) PROVE KeepsEnd(r)
  BY <1>4 DEF Wait, Receive, DropStale, TimeOut
<1>5. ASSUME NEW p \in Procs, Die(p) PROVE KeepsEnd(r)
  BY <1>5 DEF Die
<1>6. CASE Connect \/ Disconnect
  BY <1>6 DEF Connect, Disconnect
<1>7. CASE UNCHANGED vars
  BY <1>7 DEF vars
<1>8. QED
  BY <1>1, <1>2, <1>3, <1>4, <1>5, <1>6, <1>7 DEF Next

\* The end of a call, and of its callback_data, is never revised.
THEOREM EndsAreFinal == Spec => EndIsFinal
<1>1. IInv /\ [Next]_vars => [\A r \in Refs : KeepsEnd(r)]_vars
  BY EndsKept
<1>2. QED
  BY <1>1, Invariance, PTL DEF EndIsFinal, Spec

-----------------------------------------------------------------------------
(* NifAsync implements AsyncCall: each step of a NIF, a callback or a      *)
(* waiting caller is a step of the abstract call, or leaves it alone.      *)

LEMMA RefinesInit == Init => Abstract!Init
  BY DEF Init, Abstract!Init, AbstractCall, Pending, InNif

\* Entering a NIF starts the abstract call; what the library and the callback
\* do shows only as a refusal, a result or the end of the VM.
LEMMA RefinesNif ==
    ASSUME IInv, NEW r \in Refs,
           \/ \E p \in Procs : Enter(p, r)
           \/ Library(r) \/ ReturnInProgress(r) \/ Callback(r) \/ CallbackFree(r)
    PROVE  Abstract!Next \/ UNCHANGED Abstract!absVars
<1> USE DEF IInv, TypeOK, AbstractCall, Pending, InNif, Abstract!absVars
<1>1. ASSUME NEW p \in Procs, Enter(p, r) PROVE Abstract!Start(r)
  <2>1. call[r] = "unused" /\ result' = result /\ vm = "up" /\ vm' = vm
    BY <1>1 DEF Enter, BadArg, PutNothing, NotConnected, Prepare, Calls, Return
  <2>2. PICK c \in {"badarg", "nothing", "not_connected", "preparing"} :
           call' = [call EXCEPT ![r] = c]
    BY <1>1 DEF Enter, BadArg, PutNothing, NotConnected, Prepare, Calls, Return
  <2>3. AbstractCall' = [AbstractCall EXCEPT ![r] = IF c = "preparing" THEN "pending"
                                                                       ELSE c]
    BY <2>1, <2>2
  <2>4. QED
    BY <2>1, <2>2, <2>3 DEF Abstract!Start, Abstract!Refusals
<1>2. CASE SubmitFails(r)
  <2>1. result[r] = "none"
    BY <1>2 DEF SubmitFails, CallbackDataHasOneHolder, Results
  <2>2. Abstract!End(r)
    BY <1>2, <2>1 DEF SubmitFails, Abstract!End
  <2>3. QED
    BY <2>2 DEF Abstract!Next
<1>3. CASE Submit(r) \/ ReturnInProgress(r) \/ CallbackFree(r)
  BY <1>3 DEF Submit, ReturnInProgress, CallbackFree
<1>4. ASSUME NEW rc \in Results, CallbackSend(r, rc) PROVE Abstract!Complete(r)
  <2>1. result[r] = "none" /\ call[r] \in {"submitted", "waiting", "timeout", "gone"}
    BY <1>4 DEF CallbackSend, CallbackDataHasOneHolder, OwnAnswer, Final, Results
  <2>2. QED
    BY <1>4, <2>1 DEF CallbackSend, Abstract!Complete, Abstract!GivenUp, Results,
                      Abstract!Results
<1>5. CASE CallbackThrows(r)
  BY <1>5 DEF CallbackThrows, Abstract!Next, Abstract!Crash
<1>6. QED
  BY <1>1, <1>2, <1>3, <1>4, <1>5 DEF Library, Callback, Abstract!Next

\* A wait ends with the call's own result or by giving up.
LEMMA RefinesWait ==
    ASSUME IInv, NEW r \in Refs, Wait(r)
    PROVE  Abstract!End(r) \/ UNCHANGED Abstract!absVars
<1> USE DEF IInv, TypeOK, AbstractCall, Pending, InNif, Abstract!absVars
<1>1. CASE Receive(r)
  <2>1. owner[r] \in Procs
    BY <1>1, NoProcAssumption DEF Receive, Owned
  <2>2. PICK m \in mailbox[owner[r]] : m.ref = r /\ call' = [call EXCEPT ![r] = m.rc]
    BY <1>1 DEF Receive, Matching
  <2>3. m.rc \in Results /\ result[r] = m.rc
    BY <2>1, <2>2 DEF MailIsFromOwnCall, Messages
  <2>4. QED
    BY <1>1, <2>2, <2>3 DEF Receive, Abstract!End, Results
<1>2. CASE DropStale(r)
  BY <1>2 DEF DropStale
<1>3. CASE TimeOut(r)
  BY <1>3 DEF TimeOut, Abstract!End, Abstract!GivenUp
<1>4. QED
  BY <1>1, <1>2, <1>3 DEF Wait

\* A process that exits gives up the call it was waiting for.  It has one at
\* most, which is the fact OneCall adds to the invariant.
OneCall == \A r, s \in Refs :
              owner[r] = owner[s] /\ call[r] \in Pending /\ call[s] \in Pending => r = s

LEMMA OneCallStep == IInv /\ OneCall /\ [Next]_vars => OneCall'
<1> SUFFICES ASSUME IInv, OneCall, [Next]_vars PROVE OneCall'
  OBVIOUS
<1> USE NoProcAssumption DEF IInv, TypeOK, OneCall, Owned, Pending, InNif, Final, Results
<1>1. ASSUME NEW p \in Procs, NEW r \in Refs, Enter(p, r) PROVE OneCall'
  BY <1>1 DEF Enter, BadArg, PutNothing, NotConnected, Prepare, Calls, Return
<1>2. ASSUME NEW r \in Refs, Library(r) \/ ReturnInProgress(r) PROVE OneCall'
  BY <1>2 DEF Library, Submit, SubmitFails, ReturnInProgress
<1>3. ASSUME NEW r \in Refs, Callback(r) \/ CallbackFree(r) PROVE OneCall'
  BY <1>3 DEF Callback, CallbackSend, CallbackThrows, CallbackFree
<1>4. ASSUME NEW r \in Refs, Wait(r) PROVE OneCall'
  BY <1>4 DEF Wait, Receive, DropStale, TimeOut
<1>5. ASSUME NEW p \in Procs, Die(p) PROVE OneCall'
  BY <1>5 DEF Die
<1>6. CASE Connect \/ Disconnect
  BY <1>6 DEF Connect, Disconnect
<1>7. CASE UNCHANGED vars
  BY <1>7 DEF vars
<1>8. QED
  BY <1>1, <1>2, <1>3, <1>4, <1>5, <1>6, <1>7 DEF Next

LEMMA RefinesDie ==
    ASSUME IInv, OneCall, NEW p \in Procs, Die(p)
    PROVE  Abstract!Next \/ UNCHANGED Abstract!absVars
<1> USE DEF IInv, TypeOK, AbstractCall, Pending, InNif, Abstract!absVars
<1>1. CASE \A r \in Refs : owner[r] = p => call[r] # "waiting"
  <2>1. call' = call
    BY <1>1 DEF Die
  <2>2. QED
    BY <2>1 DEF Die
<1>2. ASSUME NEW r \in Refs, owner[r] = p, call[r] = "waiting"
      PROVE  Abstract!End(r)
  <2>1. call' = [call EXCEPT ![r] = "gone"]
    BY <1>2 DEF Die, OneCall
  <2>2. QED
    BY <1>2, <2>1 DEF Die, Abstract!End, Abstract!GivenUp
<1>3. QED
  BY <1>1, <1>2 DEF Abstract!Next

LEMMA RefinesStep == IInv /\ OneCall /\ [Next]_vars => [Abstract!Next]_Abstract!absVars
<1> SUFFICES ASSUME IInv, OneCall, [Next]_vars
             PROVE  Abstract!Next \/ UNCHANGED Abstract!absVars
  OBVIOUS
<1>1. CASE Connect \/ Disconnect \/ UNCHANGED vars
  BY <1>1 DEF Connect, Disconnect, vars, Abstract!absVars, AbstractCall
<1>2. CASE Next
  BY <1>1, <1>2, RefinesNif, RefinesWait, RefinesDie DEF Next, Abstract!Next
<1>3. QED
  BY <1>1, <1>2

\* The NIF calls keep the promise of the API, liveness apart: an ended call
\* stays ended, with the result of its own command if it has one, and a call
\* that was refused leaves no command behind.
THEOREM ImplementsPromise == Spec => Abstract!SafeSpec
<1>1. Init => OneCall
  BY DEF Init, OneCall, Pending, InNif
<1>2. QED
  BY <1>1, OneCallStep, Invariance, RefinesInit, RefinesStep, PTL
     DEF Spec, Abstract!SafeSpec
=============================================================================
