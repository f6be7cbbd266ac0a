------------------------------ MODULE PortPool -------------------------------
(***************************************************************************)
(* The pooled variant of the port: the members of the pool "aspike" are    *)
(* processes aspike_srv_worker, each with a port and a program of its own. *)
(* command/1 takes a member, calls it and gives it back.  The pool library *)
(* is external: it hands a member to one caller at a time, replaces the    *)
(* members that end, and ends those whose caller has ended.  What a member *)
(* does with one command, and the state of its program, are in PortServer; *)
(* here are the three commands with which it starts, the way of a member   *)
(* from hand to hand, and what is left in it by those who gave up.         *)
(***************************************************************************)
EXTENDS Sequences, Naturals

CONSTANTS Members, Callers,
          Kinds,       \* what the callers ask for, a subset of AllKinds
          Boot,        \* the process that the init/1 of a member spawns
          Idle,        \* no caller: the member waits for a message
          Pool, Nobody \* who has a member that no caller has

(***************************************************************************)
(* "info" is port_info, which the member answers by itself; "operate" are  *)
(* the commands that the program answers, "unfinished" those it answers    *)
(* with a term cut short, "unanswered" those it does not answer.           *)
(***************************************************************************)
AllKinds == {"info", "operate", "unfinished", "unanswered"}

ASSUME KindsAssumption == Kinds \subseteq AllKinds
\* The names that stand for no caller.
ASSUME NamesAssumption == /\ {Boot, Idle, Pool, Nobody} \cap Callers = {}
                          /\ Boot # Idle /\ Pool # Nobody

VARIABLES
    holder,   \* who has each member: a caller, the pool, or a caller that is no more
    caller,   \* the step of each caller's call: "away", "taken", "waiting", "replied"
    serves,   \* whom each member serves: a caller, Boot or Idle
    step,     \* and with which of the three commands of Boot
    mailbox,  \* the member's: requests, and answers of its port
    boot,     \* the process that init/1 spawned has not made its call yet
    port,     \* the commands on their way to the member's program
    running,  \* the program has not ended
    late      \* ghost: a call_port of the member has timed out

memberVars == <<serves, step, mailbox, boot, port, running, late>>
vars == <<holder, caller, memberVars>>

Clients  == Callers \cup {Boot}
Requests == [kind : {"request"}, from : Clients, asks : AllKinds]
Commands == [from : Clients, step : 1..3, asks : AllKinds]
Answers  == [kind : {"data"}, from : Clients, step : 1..3, term : {"whole", "cut"}]

TypeOK ==
    /\ holder \in [Members -> Callers \cup {Pool, Nobody}]
    /\ caller \in [Callers -> {"away", "taken", "waiting", "replied"}]
    /\ serves \in [Members -> Clients \cup {Idle}]
    /\ step \in [Members -> 1..3]
    /\ mailbox \in [Members -> Seq(Requests \cup Answers)]
    /\ boot \in [Members -> BOOLEAN]
    /\ port \in [Members -> Seq(Commands)]
    /\ running \in [Members -> BOOLEAN]
    /\ late \in [Members -> BOOLEAN]

\* start_link has returned for every member.
Init ==
    /\ holder = [m \in Members |-> Pool] /\ caller = [c \in Callers |-> "away"]
    /\ serves = [m \in Members |-> Idle] /\ step = [m \in Members |-> 1]
    /\ mailbox = [m \in Members |-> <<>>] /\ boot = [m \in Members |-> TRUE]
    /\ port = [m \in Members |-> <<>>] /\ running = [m \in Members |-> TRUE]
    /\ late = [m \in Members |-> FALSE]

-----------------------------------------------------------------------------
(* The callers: command/1 and port_info/0 *)

Moves(c, from, to) == caller[c] = from /\ caller' = [caller EXCEPT ![c] = to]

Occurs(s, c) == \E i \in 1..Len(s) : s[i].from = c

\* Bound: a caller takes a member that nothing is left in of its last call.
Gone(c, m) == serves[m] # c /\ ~Occurs(mailbox[m], c) /\ ~Occurs(port[m], c)

\* Mutant: a member is taken that somebody has.
TakeShared(c, m) ==
    /\ Moves(c, "away", "taken") /\ Gone(c, m)
    /\ holder[m] # Nobody /\ holder' = [holder EXCEPT ![m] = c]
    /\ UNCHANGED memberVars

\* pooler:take_member; if there is none, gen_server:call has nobody to call
\* and the caller exits.
Take(c, m) ==
    /\ Moves(c, "away", "taken") /\ Gone(c, m)
    /\ holder[m] = Pool /\ holder' = [holder EXCEPT ![m] = c]
    /\ UNCHANGED memberVars
TakeNothing(c) == /\ Moves(c, "away", "away")
                  /\ \A m \in Members : holder[m] # Pool
                  /\ UNCHANGED <<holder, memberVars>>

Post(m, message) == mailbox' = [mailbox EXCEPT ![m] = Append(@, message)]
Request(c, k)    == [kind |-> "request", from |-> c, asks |-> k]

\* gen_server:call(Pid, {command, Cmd}, ...)
Ask(c, m) ==
    /\ Moves(c, "taken", "waiting") /\ holder[m] = c
    /\ \E k \in Kinds : Post(m, Request(c, k))
    /\ UNCHANGED <<holder, serves, step, boot, port, running, late>>

\* Mutant: the member is given back by a caller that gives up, too.
AskTimesOutReturns(c, m) ==
    /\ Moves(c, "waiting", "away") /\ holder[m] = c
    /\ holder' = [holder EXCEPT ![m] = Pool]
    /\ UNCHANGED memberVars

\* The gen_server:call times out: the exit passes over return_member.
AskTimesOut(c, m) ==
    /\ Moves(c, "waiting", "away") /\ holder[m] = c
    /\ holder' = [holder EXCEPT ![m] = Nobody]
    /\ UNCHANGED memberVars

\* Mutant: a call that is done does not give its member back.
ReturnNothing(c, m) == Moves(c, "replied", "away") /\ UNCHANGED <<holder, memberVars>>

\* pooler:return_member(aspike, Pid, ok), whatever the reply was.
Return(c, m) ==
    /\ Moves(c, "replied", "away") /\ holder[m] = c
    /\ holder' = [holder EXCEPT ![m] = Pool]
    /\ UNCHANGED memberVars

-----------------------------------------------------------------------------
(* The members *)

\* The process spawned in init/1 calls its member, past the pool; whether it
\* is still there for the reply makes no difference to the member.
BootCall(m) ==
    /\ boot[m] /\ boot' = [boot EXCEPT ![m] = FALSE]
    /\ Post(m, Request(Boot, "operate"))
    /\ UNCHANGED <<holder, caller, serves, step, port, running, late>>

\* The caller gets its reply if it still waits for this member.
Reply(c, m) == caller' = [d \in Callers |->
    IF d = c /\ caller[d] = "waiting" /\ holder[m] = d THEN "replied" ELSE caller[d]]

\* Port ! {self(), {command, TbMsg}}; what is sent to a closed port is lost.
Send(m, c, n, k) == port' = IF ~running[m] THEN port
    ELSE [port EXCEPT ![m] = Append(@, [from |-> c, step |-> n, asks |-> k])]

HasMail(m) == mailbox[m] # <<>> /\ serves[m] = Idle
DropHead(m) == mailbox' = [mailbox EXCEPT ![m] = Tail(@)]

\* handle_call(port_info, ...) and handle_call({command, Msg}, ...).
Serve(m) ==
    /\ HasMail(m) /\ Head(mailbox[m]).kind = "request" /\ DropHead(m)
    /\ LET r == Head(mailbox[m]) IN
       \/ /\ r.asks = "info" /\ Reply(r.from, m) /\ UNCHANGED <<serves, port>>
       \/ /\ r.asks # "info" /\ Send(m, r.from, 1, r.asks)
          /\ serves' = [serves EXCEPT ![m] = r.from] /\ UNCHANGED caller
    /\ step' = [step EXCEPT ![m] = 1]
    /\ UNCHANGED <<holder, boot, running, late>>

\* handle_info
DropData(m) == /\ HasMail(m) /\ Head(mailbox[m]).kind = "data" /\ DropHead(m)
               /\ UNCHANGED <<holder, caller, serves, step, boot, port, running, late>>

\* Mutant: one command too many.
GoesOnFurther(m) ==
    \/ /\ serves[m] = Boot /\ step[m] <= 3
       /\ step' = [step EXCEPT ![m] = @ + 1]
       /\ Send(m, Boot, step[m] + 1, "operate")
       /\ UNCHANGED <<caller, serves>>
    \/ /\ serves[m] # Boot \/ step[m] > 3
       /\ Reply(serves[m], m)
       /\ serves' = [serves EXCEPT ![m] = Idle]
       /\ UNCHANGED <<step, port>>

\* call_port has returned: aerospike_init goes on with host_add and then with
\* connect, whatever came back; another command is done.
GoesOn(m) ==
    \/ /\ serves[m] = Boot /\ step[m] < 3
       /\ step' = [step EXCEPT ![m] = @ + 1]
       /\ Send(m, Boot, step[m] + 1, "operate")
       /\ UNCHANGED <<caller, serves>>
    \/ /\ serves[m] # Boot \/ step[m] = 3
       /\ Reply(serves[m], m)
       /\ serves' = [serves EXCEPT ![m] = Idle]
       /\ UNCHANGED <<step, port>>

DataIn(m) == {i \in 1..Len(mailbox[m]) : mailbox[m][i].kind = "data"}
FirstData(m, i) == i \in DataIn(m) /\ \A j \in DataIn(m) : i <= j
Without(s, i) == SubSeq(s, 1, i - 1) \o SubSeq(s, i + 1, Len(s))

\* Mutant: the answer stays in the mailbox.
ReceiveCopy(m) ==
    /\ serves[m] # Idle
    /\ \E i \in 1..Len(mailbox[m]) : FirstData(m, i) /\ mailbox[m][i].term = "whole"
    /\ GoesOn(m)
    /\ UNCHANGED <<holder, mailbox, boot, running, late>>

\* receive {_Port, {data, Data}} -> Caller ! binary_to_term(Data)
Receive(m) ==
    /\ serves[m] # Idle
    /\ \E i \in 1..Len(mailbox[m]) :
          /\ FirstData(m, i) /\ mailbox[m][i].term = "whole"
          /\ mailbox' = [mailbox EXCEPT ![m] = Without(@, i)]
    /\ GoesOn(m)
    /\ UNCHANGED <<holder, boot, running, late>>

\* after ?DEFAULT_TIMEOUT -> {error, timeout_is_out}
ReceiveTimesOut(m) ==
    /\ serves[m] # Idle /\ DataIn(m) = {}
    /\ late' = [late EXCEPT ![m] = TRUE]
    /\ GoesOn(m)
    /\ UNCHANGED <<holder, mailbox, boot, running>>

\* The pool starts a new member in place of one that has ended; whoever has
\* the old one has an exit for a reply, or gives back what is no more.
Renew(m) ==
    /\ holder' = [holder EXCEPT ![m] = Pool]
    /\ caller' = [c \in Callers |-> IF holder[m] = c THEN "away" ELSE caller[c]]
    /\ serves' = [serves EXCEPT ![m] = Idle] /\ step' = [step EXCEPT ![m] = 1]
    /\ mailbox' = [mailbox EXCEPT ![m] = <<>>] /\ boot' = [boot EXCEPT ![m] = TRUE]
    /\ port' = [port EXCEPT ![m] = <<>>] /\ running' = [running EXCEPT ![m] = TRUE]
    /\ late' = [late EXCEPT ![m] = FALSE]

\* binary_to_term fails on a term that is cut short.
Crash(m) ==
    /\ serves[m] # Idle
    /\ \E i \in 1..Len(mailbox[m]) : FirstData(m, i) /\ mailbox[m][i].term = "cut"
    /\ Renew(m)

\* The caller that gave up has ended, not caught its exit: the pool ends its
\* member.
Reclaim(m) == holder[m] = Nobody /\ Renew(m)

-----------------------------------------------------------------------------
(* The programs *)

Execute(m) ==
    /\ running[m] /\ port[m] # <<>>
    /\ port' = [port EXCEPT ![m] = Tail(@)]
    /\ LET k == Head(port[m]) IN
       \/ /\ k.asks # "unanswered"
          /\ \E term \in IF k.asks = "unfinished" THEN {"whole", "cut"} ELSE {"whole"} :
                Post(m, [kind |-> "data", from |-> k.from, step |-> k.step, term |-> term])
       \/ k.asks = "unanswered" /\ UNCHANGED mailbox
    /\ UNCHANGED <<holder, caller, serves, step, boot, running, late>>

\* {'EXIT', Port, _} goes the way of DropData: the member stays.
ProgramExits(m) ==
    /\ running[m] /\ running' = [running EXCEPT ![m] = FALSE]
    /\ port' = [port EXCEPT ![m] = <<>>]
    /\ UNCHANGED <<holder, caller, serves, step, mailbox, boot, late>>

-----------------------------------------------------------------------------
Calling(c, m) == Ask(c, m) \/ Return(c, m)
Serving(m)    == Serve(m) \/ DropData(m) \/ Receive(m) \/ ReceiveTimesOut(m) \/ Crash(m)

Next == \/ \E c \in Callers : TakeNothing(c)
        \/ \E c \in Callers, m \in Members : Take(c, m) \/ Calling(c, m) \/ AskTimesOut(c, m)
        \/ \E m \in Members : \/ BootCall(m) \/ Serving(m) \/ Reclaim(m)
                              \/ Execute(m) \/ ProgramExits(m)

Spec == Init /\ [][Next]_vars

\* Callers go on, members are scheduled and their receive has an "after"
\* clause; programs and the pool owe nothing.
FairSpec == /\ Spec
            /\ \A c \in Callers, m \in Members : WF_vars(Calling(c, m))
            /\ \A m \in Members : WF_vars(Serving(m))

-----------------------------------------------------------------------------
(* Properties *)

WaitsFor(c, m) == caller[c] = "waiting" /\ holder[m] = c
Unfinished(m)  == {c \in Callers : serves[m] = c \/ \E i \in 1..Len(mailbox[m]) :
                        mailbox[m][i].kind = "request" /\ mailbox[m][i].from = c}

\* A request that its caller has given up keeps its member out of the pool: no
\* other caller waits behind it or gets what it left.  This is what the exit
\* that passes over return_member is good for.
AbandonedIsNotReused ==
    \A m \in Members : \A c \in Unfinished(m) : WaitsFor(c, m) \/ holder[m] = Nobody

\* Requests do not pile up in a member as they do in the one server of
\* PortServer: there is the call of the caller that has it, and the one with
\* which it starts.
OneCallAtATime ==
    \A m \in Members : \A c, d \in Unfinished(m) : c = d

\* Until a call_port of a member has timed out, what it takes for the answer
\* is the answer to the command it has sent, of the three commands at the
\* start as of any other.
MixOnlyAfterTimeout ==
    \A m \in Members : ~late[m] => \A i \in DataIn(m) :
        mailbox[m][i].from = serves[m] /\ mailbox[m][i].step = step[m]

\* A caller has a member for a bounded time: programs may be dead, silent or
\* answer with half a term, and three commands may go first.
MembersComeBack == \A m \in Members : \A c \in Callers : holder[m] = c ~> holder[m] # c
=============================================================================
