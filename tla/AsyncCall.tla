------------------------------ MODULE AsyncCall ------------------------------
(***************************************************************************)
(* What the asynchronous API promises a caller, independently of how it is *)
(* carried out: the -spec of the *_async functions in src/aspike_nif.erl   *)
(* and the two waiting helpers of the tests.  A call, named by the fresh   *)
(* reference it is made with, is refused on the spot or becomes pending;   *)
(* a pending call ends exactly once, with the result the cluster gave for  *)
(* that very call or because its caller stopped waiting.                   *)
(***************************************************************************)
CONSTANT Refs       \* the references calls are made with (make_ref())

VARIABLES call,     \* what the caller knows of each call
          result,   \* what the cluster answered to each command, if it did
          up        \* FALSE once the VM is gone

absVars == <<call, result, up>>

Refusals == {"badarg", "nothing", "not_connected", "refused"}
GivenUp  == {"timeout", "gone"}
Results  == {"ok", "error"}
Final    == Refusals \cup GivenUp \cup Results

Init == /\ call = [r \in Refs |-> "unused"]
        /\ result = [r \in Refs |-> "none"]
        /\ up = TRUE

\* The call is accepted, or refused at once.
Start(r) == /\ up /\ call[r] = "unused"
            /\ \E c \in {"pending"} \cup Refusals : call' = [call EXCEPT ![r] = c]
            /\ UNCHANGED <<result, up>>

\* The cluster answers a command; a call that was refused has no command.
Complete(r) == /\ up /\ result[r] = "none"
               /\ call[r] \in {"pending"} \cup GivenUp
               /\ \E rc \in Results : result' = [result EXCEPT ![r] = rc]
               /\ UNCHANGED <<call, up>>

\* A pending call ends: with its own result, by a refusal of the client
\* library as long as there is no result, or because nobody waits for it.
End(r) == /\ up /\ call[r] = "pending"
          /\ \/ /\ result[r] # "none"
                /\ call' = [call EXCEPT ![r] = result[r]]
             \/ /\ result[r] = "none"
                /\ call' = [call EXCEPT ![r] = "refused"]
             \/ \E c \in GivenUp : call' = [call EXCEPT ![r] = c]
          /\ UNCHANGED <<result, up>>

\* The VM stops.
Crash == up /\ up' = FALSE /\ UNCHANGED <<call, result>>

Next == Crash \/ \E r \in Refs : Start(r) \/ Complete(r) \/ End(r)

\* The promise without its liveness.
SafeSpec == Init /\ [][Next]_absVars

\* Of the steps, only the end of a pending call is promised to happen.
Spec == SafeSpec /\ \A r \in Refs : WF_absVars(End(r))
=============================================================================
