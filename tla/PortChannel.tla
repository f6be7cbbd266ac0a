---------------------------- MODULE PortChannel -----------------------------
(***************************************************************************)
(* What the frames between the Erlang port and the external program        *)
(* promise: commands arrive whole and in order, the program takes one at a *)
(* time and gives each at most one answer, and answers arrive whole and in *)
(* order - until an answer that does not fit into a frame, after which     *)
(* anything may arrive.                                                    *)
(***************************************************************************)
EXTENDS Naturals, Sequences

CONSTANTS Commands, Answers,
          Fits(_)     \* the answer fits into a frame

VARIABLES
    sent,       \* the commands the server gave to its port
    taken,      \* the commands the program has read
    answers,    \* the answers the program has begun to write
    delivered,  \* the data messages of the port
    closed      \* the port is closed

vars == <<sent, taken, answers, delivered, closed>>

Init == /\ sent = <<>> /\ taken = <<>> /\ answers = <<>> /\ delivered = <<>>
        /\ closed = FALSE

\* One more than before, whatever it is.
Longer(s, t) == /\ Len(t) = Len(s) + 1
                /\ SubSeq(t, 1, Len(s)) = s

Send == /\ ~closed
        /\ \E c \in Commands : sent' = Append(sent, c)
        /\ UNCHANGED <<taken, answers, delivered, closed>>

Take == /\ Len(taken) < Len(sent)
        /\ taken' = Append(taken, sent[Len(taken) + 1])
        /\ UNCHANGED <<sent, answers, delivered, closed>>

Answer == /\ Len(answers) < Len(taken)
          /\ \E a \in Answers : answers' = Append(answers, a)
          /\ UNCHANGED <<sent, taken, delivered, closed>>

\* The first n answers fit.
InStep(n) == \A i \in 1..n : Fits(answers[i])

Deliver == /\ ~closed /\ Len(delivered) < Len(answers)
           /\ InStep(Len(delivered) + 1)
           /\ delivered' = Append(delivered, answers[Len(delivered) + 1])
           /\ UNCHANGED <<sent, taken, answers, closed>>

\* The answers before the one that does not fit have been delivered.
Garble == /\ ~closed
          /\ \E i \in 1..Len(answers) : ~Fits(answers[i]) /\ i <= Len(delivered) + 1
          /\ Longer(delivered, delivered')
          /\ UNCHANGED <<sent, taken, answers, closed>>

Close == /\ ~closed /\ closed' = TRUE
         /\ UNCHANGED <<sent, taken, answers, delivered>>

Next == Send \/ Take \/ Answer \/ Deliver \/ Garble \/ Close

SafeSpec == Init /\ [][Next]_vars

\* While the port is open every command is taken and every answer that can be
\* delivered is.
Spec == SafeSpec /\ WF_vars(~closed /\ Take) /\ WF_vars(Deliver)
=============================================================================
