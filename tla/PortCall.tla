------------------------------ MODULE PortCall -------------------------------
(***************************************************************************)
(* What the functions of aspike_srv promise a caller, without the server,  *)
(* its mailbox, the port and the program: a call is refused on the spot or *)
(* is waited for; it ends once, with an answer or without one, and no two  *)
(* calls get the same answer.  Until the server has given up an answer,    *)
(* the answer is that of the call itself; from then on it may be that of   *)
(* any command that is still under way, until the server starts anew.      *)
(***************************************************************************)
CONSTANTS Calls, NoCall

VARIABLES waiting,  \* the calls whose caller waits for the reply
          given,    \* whose answer the caller got, when it got one
          open,     \* the calls whose answer may still come
          late      \* the server has given up an answer

vars == <<waiting, given, open, late>>

Init == /\ waiting = {} /\ open = {}
        /\ given = [c \in Calls |-> NoCall]
        /\ late = FALSE

\* A call that nothing is left of is made again, and accepted or refused.
Start(c) ==
    /\ c \notin waiting \cup open
    /\ \A d \in Calls \ {c} : given[d] # c
    /\ given' = [given EXCEPT ![c] = NoCall]
    /\ \/ waiting' = waiting \cup {c} /\ open' = open \cup {c}
       \/ UNCHANGED <<waiting, open>>
    /\ UNCHANGED late

\* The answer of d is the reply to c, and nobody's any more.
Reply(c) ==
    /\ c \in waiting /\ waiting' = waiting \ {c}
    /\ \E d \in open : /\ ~late => d = c
                       /\ given' = [given EXCEPT ![c] = d]
                       /\ open' = open \ {d}
    /\ UNCHANGED late

\* The caller has waited long enough; what it asked for goes on.
GiveUp(c) ==
    /\ c \in waiting /\ waiting' = waiting \ {c}
    /\ UNCHANGED <<given, open, late>>

\* The server gives up an answer, to a caller who may have given up before.
GiveUpAnswer(c) ==
    /\ waiting' = waiting \ {c} /\ late' = TRUE
    /\ UNCHANGED <<given, open>>

\* Answers that nobody will get.
Lose == /\ open' \in SUBSET open
        /\ UNCHANGED <<waiting, given, late>>

\* The server exits and takes with it who waits and what is under way.
Break == /\ waiting' = {} /\ open' = {} /\ late' = FALSE
         /\ UNCHANGED given

Next == \/ \E c \in Calls : Start(c) \/ Reply(c) \/ GiveUp(c) \/ GiveUpAnswer(c)
        \/ Lose \/ Break

\* The promise without its liveness.
SafeSpec == Init /\ [][Next]_vars

\* Every call ends.
Spec == SafeSpec /\ \A c \in Calls : c \in waiting ~> c \notin waiting
=============================================================================
