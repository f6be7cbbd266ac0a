----------------------------- MODULE PortServer ------------------------------
(***************************************************************************)
(* The Port implementation: the gen_server aspike_srv owns a port to the   *)
(* external program aspike_port (ei.c, aerocalls.c).  A caller makes a     *)
(* gen_server:call with a timeout; the server handles one call at a time:  *)
(* it sends the command to the port and waits, again with a timeout, for   *)
(* the first data message of its mailbox (call_port).  Nothing ties an     *)
(* answer to a command, so an answer that comes after call_port has given  *)
(* up is taken for the next command's, unless the server's loop finds and  *)
(* drops it first.  Clocks are left out: a timeout may strike whenever     *)
(* what it waits for is not there.  The raw term that call_port also sends *)
(* to the caller is left out, with the mailboxes of the callers.           *)
(***************************************************************************)
EXTENDS Sequences, Naturals

CONSTANTS Calls,      \* slots for calls of the API functions
          Kinds,      \* what they may ask for, a subset of AllKinds
          NoCall

(***************************************************************************)
(* "init" is aerospike_init, "host" the calls that need an initialised     *)
(* client only, "connect" connect and anon_connect, "operate" everything   *)
(* that needs a connection too, "status" port_status.  "unfinished" are    *)
(* the four operations whose functions are stubs (cdt_expire, ...): their  *)
(* answer is a tuple without elements.  "unanswered" is a cdt_put whose    *)
(* bins or ttl the program cannot decode: it sends nothing.                *)
(***************************************************************************)
AllKinds == {"init", "host", "connect", "operate", "status", "unfinished", "unanswered"}

ASSUME KindsAssumption == Kinds \subseteq AllKinds
ASSUME NoCallAssumption == NoCall \notin Calls
\* The states of the server that are no call.
ASSUME StatesAssumption == Calls \cap {"idle", "down", "gone"} = {}

Commands == [call : Calls, asks : AllKinds]
Requests == [kind : {"request"}, command : Commands]
Answers  == [kind : {"data"}, call : Calls, term : {"ok", "error", "malformed"}]

VARIABLES
    waiting,  \* the calls whose caller waits for the reply
    given,    \* whose answer the caller got, when it got one
    server,   \* the call the server is waiting for, "idle", "down" or "gone"
    mailbox,  \* the server's
    boot,     \* the process spawned by init/1 has not called aerospike_init yet
    port,     \* the commands on their way to the program
    program,  \* "running" or "exited"
    ready,    \* is_aerospike_initialised
    linked,   \* is_connected
    crashes,  \* the crashes of the server within a second
    late      \* ghost: some call_port has timed out since the server started

callVars    == <<waiting, given>>
programVars == <<program, ready, linked>>
vars == <<callVars, server, mailbox, boot, port, programVars, crashes, late>>

TypeOK == /\ waiting \subseteq Calls
          /\ given \in [Calls -> Calls \cup {NoCall}]
          /\ server \in Calls \cup {"idle", "down", "gone"}
          /\ mailbox \in Seq(Requests \cup Answers)
          /\ boot \in BOOLEAN
          /\ port \in Seq(Commands)
          /\ program \in {"running", "exited"}
          /\ ready \in BOOLEAN /\ linked \in BOOLEAN
          /\ crashes \in 0..2
          /\ late \in BOOLEAN

\* start_link has returned: the port is open and the process that calls
\* aerospike_init is spawned.
Init == /\ waiting = {}
        /\ given = [c \in Calls |-> NoCall]
        /\ server = "idle" /\ mailbox = <<>> /\ boot = TRUE
        /\ port = <<>> /\ program = "running" /\ ready = FALSE /\ linked = FALSE
        /\ crashes = 0 /\ late = FALSE

-----------------------------------------------------------------------------
(* The callers *)

Request(c, k) == [kind |-> "request", command |-> [call |-> c, asks |-> k]]
CallOf(m) == IF m.kind = "request" THEN m.command.call ELSE m.call

\* A slot is free when its last call has ended and nothing is left of it.
Free(c) ==
    /\ c \notin waiting /\ server # c
    /\ \A i \in 1..Len(mailbox) : CallOf(mailbox[i]) # c
    /\ \A i \in 1..Len(port) : port[i].call # c
    /\ \A d \in Calls \ {c} : given[d] # c

\* The caller of a process that does not exist exits at once.
Call(c, k) ==
    /\ Free(c)
    /\ given' = [given EXCEPT ![c] = NoCall]
    /\ IF server \in {"down", "gone"} THEN UNCHANGED <<waiting, mailbox>>
       ELSE /\ waiting' = waiting \cup {c}
            /\ mailbox' = Append(mailbox, Request(c, k))

\* A process calls a function of the API.
ApiCall(c) ==
    /\ \E k \in Kinds : Call(c, k)
    /\ UNCHANGED <<server, boot, port, programVars, crashes, late>>

\* The process spawned in init/1 calls aerospike_init; nothing keeps other
\* calls from coming first.
BootCall(c) ==
    /\ boot /\ Call(c, "init")
    /\ boot' = FALSE
    /\ UNCHANGED <<server, port, programVars, crashes, late>>

\* The gen_server:call times out and the caller exits; the server does not
\* know and will serve the request all the same.
CallTimesOut(c) ==
    /\ c \in waiting
    /\ waiting' = waiting \ {c}
    /\ UNCHANGED <<given, server, mailbox, boot, port, programVars, crashes, late>>

-----------------------------------------------------------------------------
(* The server *)

\* handle_call({command, Msg}, ...): the command goes to the port; one sent
\* to a closed port is lost.
Serve ==
    /\ server = "idle" /\ mailbox # <<>> /\ Head(mailbox).kind = "request"
    /\ server' = Head(mailbox).command.call
    /\ mailbox' = Tail(mailbox)
    /\ port' = IF program = "running" THEN Append(port, Head(mailbox).command) ELSE port
    /\ UNCHANGED <<callVars, boot, programVars, crashes, late>>

\* handle_info prints and drops any other message.
DropData ==
    /\ server = "idle" /\ mailbox # <<>> /\ Head(mailbox).kind = "data"
    /\ mailbox' = Tail(mailbox)
    /\ UNCHANGED <<callVars, server, boot, port, programVars, crashes, late>>

DataIn(box) == {i \in 1..Len(box) : box[i].kind = "data"}

\* i is the first data message: receive {_Port, {data, Data}} skips requests.
IsFirstData(i) == i \in DataIn(mailbox) /\ \A j \in DataIn(mailbox) : i <= j
Without(i) == SubSeq(mailbox, 1, i - 1) \o SubSeq(mailbox, i + 1, Len(mailbox))

\* Caller ! binary_to_term(Data), whose value is call_port's and the reply.
\* A caller that has exited gets neither.
Answered(i) ==
    /\ IsFirstData(i) /\ mailbox[i].term # "malformed"
    /\ waiting' = waiting \ {server}
    /\ given' = IF server \in waiting THEN [given EXCEPT ![server] = mailbox[i].call]
                ELSE given
    /\ server' = "idle"
    /\ UNCHANGED <<boot, port, programVars, crashes, late>>

\* Mutant: the answer stays in the mailbox.
TakeCopy == /\ server \in Calls
            /\ \E i \in 1..Len(mailbox) : Answered(i)
            /\ UNCHANGED mailbox

Take == /\ server \in Calls
        /\ \E i \in 1..Len(mailbox) : Answered(i) /\ mailbox' = Without(i)

\* Mutant: call_port waits for its answer without an "after" clause.
Never == FALSE /\ UNCHANGED vars

\* Mutant: the server goes on without a reply.
TimesOutSilently ==
    /\ server \in Calls /\ DataIn(mailbox) = {}
    /\ late' = TRUE
    /\ server' = "idle"
    /\ UNCHANGED <<callVars, mailbox, boot, port, programVars, crashes>>

\* after ?DEFAULT_TIMEOUT -> {error, timeout_is_out}
ServerTimesOut ==
    /\ server \in Calls /\ DataIn(mailbox) = {}
    /\ waiting' = waiting \ {server}
    /\ late' = TRUE
    /\ server' = "idle"
    /\ UNCHANGED <<given, mailbox, boot, port, programVars, crashes>>

\* Mutant: the next server inherits the mailbox.
CrashKeepsMailbox ==
    /\ server \in Calls
    /\ \E i \in 1..Len(mailbox) : IsFirstData(i) /\ mailbox[i].term = "malformed"
    /\ waiting' = {}
    /\ server' = "down"
    /\ port' = <<>> /\ program' = "exited" /\ late' = FALSE
    /\ crashes' = crashes + 1
    /\ UNCHANGED <<given, mailbox, boot, ready, linked>>

\* binary_to_term fails on an answer that is no term: the server exits, and
\* with it everybody who waits for it, its mailbox and its port.
Crash ==
    /\ server \in Calls
    /\ \E i \in 1..Len(mailbox) : IsFirstData(i) /\ mailbox[i].term = "malformed"
    /\ waiting' = {}
    /\ server' = "down" /\ mailbox' = <<>>
    /\ port' = <<>> /\ program' = "exited" /\ late' = FALSE
    /\ crashes' = crashes + 1
    /\ UNCHANGED <<given, boot, ready, linked>>

\* The supervisor restarts the server (permanent), which starts a program.
Restart == /\ server = "down" /\ crashes <= 1
           /\ server' = "idle" /\ boot' = TRUE
           /\ program' = "running" /\ ready' = FALSE /\ linked' = FALSE
           /\ UNCHANGED <<callVars, mailbox, port, crashes, late>>

\* More than one restart within a second: the supervisor gives up.
GiveUp == /\ server = "down" /\ crashes > 1
          /\ server' = "gone"
          /\ UNCHANGED <<callVars, mailbox, boot, port, programVars, crashes, late>>

SecondPasses == /\ crashes > 0 /\ server # "gone"
                /\ crashes' = 0
                /\ UNCHANGED <<callVars, server, mailbox, boot, port, programVars, late>>

-----------------------------------------------------------------------------
(* The external program: main() reads a command, runs it and answers *)

\* Mutant: a stub that answers with a bare tuple header in every state.
TermsOfStub(k) == {"header"}

\* What the program answers to a command: it fails without the state it needs.
Terms(k) ==
    CASE k \in {"init", "status"} -> {"ok"}
      [] k \in {"host", "connect"} -> IF ready THEN {"ok", "error"} ELSE {"error"}
      [] k = "operate" -> IF ready /\ linked THEN {"ok", "error"} ELSE {"error"}
      [] k = "unfinished" -> IF ready /\ linked THEN {"malformed"} ELSE {"error"}

\* A failed connect resets is_connected, unless it could not decode the user.
LinkedAfter(k, term) ==
    CASE k # "connect" \/ ~ready -> {linked}
      [] k = "connect" /\ ready  -> IF term = "ok" THEN {TRUE} ELSE {FALSE, linked}

NextCommand == program = "running" /\ port # <<>> /\ port' = Tail(port)

Execute ==
    /\ NextCommand
    /\ LET k == Head(port).asks IN
       /\ k # "unanswered"
       /\ \E term \in Terms(k) :
             /\ mailbox' = Append(mailbox, [kind |-> "data", call |-> Head(port).call, term |-> term])
             /\ linked' \in LinkedAfter(k, term)
       /\ ready' = (ready \/ k = "init")
    /\ UNCHANGED <<callVars, server, boot, program, crashes, late>>

\* cdt_put returns without an answer.
ExecuteSilently ==
    /\ NextCommand /\ Head(port).asks = "unanswered"
    /\ UNCHANGED <<callVars, server, mailbox, boot, programVars, crashes, late>>

\* The program ends by itself; {'EXIT', Port, _} goes the way of DropData and
\* the server keeps the closed port.
ProgramExits ==
    /\ program = "running"
    /\ program' = "exited" /\ port' = <<>>
    /\ UNCHANGED <<callVars, server, mailbox, boot, ready, linked, crashes, late>>

-----------------------------------------------------------------------------
Next == \/ \E c \in Calls : ApiCall(c) \/ BootCall(c) \/ CallTimesOut(c)
        \/ Serve \/ DropData \/ Take \/ ServerTimesOut
        \/ Crash \/ Restart \/ GiveUp \/ SecondPasses
        \/ Execute \/ ExecuteSilently \/ ProgramExits

Spec == Init /\ [][Next]_vars

\* The server is scheduled, its receive has an "after" clause, and its
\* supervisor acts; callers and program owe nothing.
FairSpec == /\ Spec
            /\ WF_vars(Serve \/ DropData)
            /\ WF_vars(Take \/ ServerTimesOut \/ Crash)
            /\ WF_vars(Restart \/ GiveUp)

-----------------------------------------------------------------------------
(* Properties *)

\* A caller can get the answer of another command only after some call_port
\* of this server has timed out.
MixOnlyAfterTimeout ==
    \A c \in Calls : server = c /\ ~late =>
        \A i \in DataIn(mailbox) : mailbox[i].call = c

\* However late answers shift from one command to the next, no answer is given
\* to two callers: each data message is consumed by one call_port.
EachAnswerOnce ==
    \A c, d \in Calls : c # d /\ given[c] # NoCall => given[c] # given[d]

\* No request waits for ever: whatever answers are lost, late or malformed
\* and whether the program lives or not, the server comes to every request.
IsQueued(c) == \E i \in 1..Len(mailbox) :
                  mailbox[i].kind = "request" /\ CallOf(mailbox[i]) = c
RequestsAreServed == \A c \in Calls : IsQueued(c) ~> ~IsQueued(c)

\* The calls of whom a request, a command or an answer is on its way.
Open == {c \in Calls : \/ \E i \in 1..Len(mailbox) : CallOf(mailbox[i]) = c
                       \/ \E i \in 1..Len(port) : port[i].call = c}

\* The server keeps the promise of the API: a call ends once, with its own
\* answer or, after a timeout of the server, with that of a call under way,
\* and it does end.
Promise == INSTANCE PortCall WITH open <- Open
ImplementsPortCall == Promise!Spec
=============================================================================
