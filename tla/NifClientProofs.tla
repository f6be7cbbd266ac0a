--------------------------- MODULE NifClientProofs ---------------------------
(***************************************************************************)
(* Proofs about NifClient, for any set of workers.                         *)
(*                                                                         *)
(* None of its invariants is inductive alone: whether the flag may be set, *)
(* and the client destroyed, depends on the step of the admin's call.      *)
(* AtStep says what holds at each step, and in particular that every call  *)
(* but init_client finds an initialised client; Quiet, what the discipline *)
(* "quiesce" gains: an operation that has been admitted keeps disconnect   *)
(* from starting, from its check until its end.                            *)
(***************************************************************************)
EXTENDS NifClient, TLAPS

Disconnects == {"close", "clear", "destroy", "unmark"}

AtStep ==
    /\ admin \notin {"idle", "init", "mark"} => initialized
    /\ admin \in {"init", "mark"} => ~initialized
    /\ ~initialized => ~flag /\ cluster = "none"
    /\ admin = "flag" => cluster = "open" /\ client = "live"
    /\ admin \in {"mark", "close", "clear", "destroy"} => client = "live"
    /\ admin \in {"unflag", "close loops", "clear", "destroy", "unmark"} => cluster = "none"
    /\ admin \in {"close", "clear"} => flag
    /\ admin \in {"destroy", "unmark"} => ~flag

Quiet == quiesce => \A w \in Workers : pc[w] # "idle" =>
            cluster = "open" /\ client = "live" /\ admin \notin Disconnects

IInv == /\ TypeOK
        /\ FlagFollowsCluster
        /\ DestroyedIsUninitialized
        /\ AtStep
        /\ Quiet

-----------------------------------------------------------------------------
\* The state that load() leaves satisfies the invariant.
LEMMA InitIInv == Init => IInv
BY DEF Init, IInv, TypeOK, AdminSteps, Operations, FlagFollowsCluster,
       DestroyedIsUninitialized, AtStep, Quiet, Disconnects

\* A step of the admin keeps the invariant: init_client and the configuration
\* calls, connect, and disconnect.
LEMMA AdminStep ==
    ASSUME IInv, Initialise \/ Configure \/ ConfigureEnd \/ Connecting \/ Disconnecting
    PROVE  IInv'
<1> DEFINE Rest == FlagFollowsCluster /\ DestroyedIsUninitialized /\ AtStep /\ Quiet
<1>1. TypeOK /\ Rest
  BY DEF IInv
<1> USE DEF TypeOK, FlagFollowsCluster, DestroyedIsUninitialized, AtStep, Quiet, Disconnects,
            Goes, clientVars
<1>2. CASE Initialise
  <2>1. TypeOK'
    BY <1>1, <1>2 DEF AdminSteps, Initialise, InitSkips, InitBegin, InitClient, InitMark
  <2>2. Rest'
    BY <1>1, <1>2, <2>1 DEF Initialise, InitSkips, InitBegin, InitClient, InitMark
  <2>3. QED
    BY <2>1, <2>2 DEF IInv
<1>3. CASE Configure \/ ConfigureEnd
  <2>1. TypeOK'
    BY <1>1, <1>3 DEF AdminSteps, Configure, ConfigureEnd
  <2>2. Rest'
    BY <1>1, <1>3, <2>1 DEF Configure, ConfigureEnd
  <2>3. QED
    BY <2>1, <2>2 DEF IInv
<1>4. CASE Connecting
  <2>1. TypeOK'
    BY <1>1, <1>4 DEF AdminSteps, Connecting, Connect, ConnectSucceeds, ConnectFlag,
                      ConnectFails, ConnectUnflag, CloseLoops
  <2>2. Rest'
    BY <1>1, <1>4, <2>1 DEF Connecting, Connect, ConnectSucceeds, ConnectFlag,
                      ConnectFails, ConnectUnflag, CloseLoops
  <2>3. QED
    BY <2>1, <2>2 DEF IInv
<1>5. CASE Disconnecting
  <2>1. TypeOK'
    BY <1>1, <1>5 DEF AdminSteps, Disconnecting, DisconnectSkips, Disconnect, CloseFails,
                      Close, ClearFlag, Destroy, Unmark
  <2>2. Rest'
    BY <1>1, <1>5, <2>1 DEF Disconnecting, DisconnectSkips, Disconnect, CloseFails,
                      Close, ClearFlag, Destroy, Unmark
  <2>3. QED
    BY <2>1, <2>2 DEF IInv
<1>6. QED
  BY <1>2, <1>3, <1>4, <1>5

\* A step of a worker changes its own call only; what admits it, the flag or
\* the cluster, is what Quiet needs.
LEMMA WorkerStep ==
    ASSUME IInv, NEW w \in Workers,
           (\E o \in Operations : Check(w, o) \/ Refuse(w, o)) \/ Use(w) \/ End(w)
    PROVE  IInv'
<1> USE DEF IInv, TypeOK, Operations, Moves, clientVars
<1>1. UNCHANGED <<clientVars, quiesce, admin>>
  BY DEF Check, Refuse, Use, End
<1>2. TypeOK' /\ FlagFollowsCluster' /\ DestroyedIsUninitialized' /\ AtStep'
  <2>1. TypeOK'
    BY <1>1 DEF Check, Refuse, Use, End
  <2>2. FlagFollowsCluster' /\ DestroyedIsUninitialized' /\ AtStep'
    BY <1>1 DEF FlagFollowsCluster, DestroyedIsUninitialized, AtStep
  <2>3. QED
    BY <2>1, <2>2
<1>3. ASSUME NEW o \in Operations, Check(w, o) PROVE Quiet'
  <2>1. Permitted /\ (cluster = "open" \/ flag)
    BY <1>3 DEF Check, Admitted
  <2>2. quiesce => cluster = "open" /\ client = "live" /\ admin \notin Disconnects
    BY <2>1 DEF Permitted, Disconnects, FlagFollowsCluster, DestroyedIsUninitialized, AtStep
  <2>3. cluster' = cluster /\ client' = client /\ admin' = admin /\ quiesce' = quiesce
    BY <1>1
  <2>4. CASE ~quiesce
    BY <2>3, <2>4 DEF Quiet
  <2>5. CASE quiesce
    BY <2>2, <2>3, <2>5 DEF Quiet
  <2>6. QED
    BY <2>4, <2>5
<1>4. ASSUME (\E o \in Operations : Refuse(w, o)) \/ Use(w) \/ End(w) PROVE Quiet'
  <2>1. cluster' = cluster /\ client' = client /\ admin' = admin /\ quiesce' = quiesce
    BY <1>1
  <2>2. \A v \in Workers : pc'[v] # "idle" => pc[v] # "idle"
    BY <1>4 DEF Refuse, Use, End
  <2>3. CASE ~quiesce
    BY <2>1, <2>3 DEF Quiet
  <2>4. CASE quiesce
    BY <2>1, <2>2, <2>4 DEF Quiet
  <2>5. QED
    BY <2>3, <2>4
<1>5. QED
  BY <1>2, <1>3, <1>4

LEMMA IInvStep == IInv /\ [Next]_vars => IInv'
<1> SUFFICES ASSUME IInv, [Next]_vars PROVE IInv'
  OBVIOUS
<1>1. CASE Initialise \/ Configure \/ ConfigureEnd \/ Connecting \/ Disconnecting
  BY <1>1, AdminStep
<1>2. ASSUME NEW w \in Workers,
             (\E o \in Operations : Check(w, o) \/ Refuse(w, o)) \/ Use(w) \/ End(w)
      PROVE  IInv'
  BY <1>2, WorkerStep
<1>3. CASE UNCHANGED vars
  BY <1>3 DEF vars, clientVars, IInv, TypeOK, FlagFollowsCluster, DestroyedIsUninitialized,
              AtStep, Quiet
<1>4. QED
  BY <1>1, <1>2, <1>3 DEF Next

LEMMA Invariance == Spec => []IInv
BY InitIInv, IInvStep, PTL DEF Spec

-----------------------------------------------------------------------------
\* The variables keep their types.
THEOREM TypeCorrect == Spec => []TypeOK
<1>1. IInv => TypeOK
  BY DEF IInv
<1>2. QED
  BY <1>1, Invariance, PTL

\* is_connected_flag tells the truth about the client and its cluster, but for
\* the moments inside connect and disconnect that the property names.
THEOREM FlagIsTrue == Spec => []FlagFollowsCluster
<1>1. IInv => FlagFollowsCluster
  BY DEF IInv
<1>2. QED
  BY <1>1, Invariance, PTL

\* is_initialized is never left set on a destroyed client.
THEOREM DestroyedIsMarked == Spec => []DestroyedIsUninitialized
<1>1. IInv => DestroyedIsUninitialized
  BY DEF IInv
<1>2. QED
  BY <1>1, Invariance, PTL

\* If operations and disconnect are kept apart, no number of workers brings an
\* operation onto a closed cluster; and nobody configures a destroyed client.
THEOREM ClosedIsNotUsed == Spec => []NoUseOfClosedClient
<1>1. IInv => NoUseOfClosedClient
  <2> SUFFICES ASSUME IInv PROVE NoUseOfClosedClient
    OBVIOUS
  <2>1. quiesce /\ Inside # {} => cluster = "open" /\ client = "live"
    BY DEF IInv, Quiet, Inside
  <2>2. admin \in {"configure", "connect"} => client = "live"
    BY DEF IInv, TypeOK, AtStep, DestroyedIsUninitialized
  <2>3. QED
    BY <2>1, <2>2 DEF NoUseOfClosedClient
<1>2. QED
  BY <1>1, Invariance, PTL
=============================================================================
