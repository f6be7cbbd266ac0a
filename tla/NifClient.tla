------------------------------ MODULE NifClient ------------------------------
(***************************************************************************)
(* The life of the one Aerospike client of the NIF library (the global     *)
(* "as" of c_src/nif/aspike_nif.cpp): init_client, the configuration       *)
(* calls, connect and disconnect change it; every operation checks a flag, *)
(* is_connected_flag, and then uses it.  NIFs run on several scheduler     *)
(* threads and nothing is locked: each assignment of a global and each     *)
(* call of the client library is a step.  One Erlang process at a time,    *)
(* the admin, makes the calls that change the client; the workers make     *)
(* the others.                                                             *)
(***************************************************************************)
EXTENDS Integers   \* loops counts down in a mutant

CONSTANTS Workers    \* processes that run operations

VARIABLES
    flag,         \* is_connected_flag
    initialized,  \* is_initialized
    client,       \* as and as.config: "live", or "destroyed" (freed memory)
    cluster,      \* as.cluster: "open", or "none" (freed, and the pointer NULL)
    hosts,        \* as.config names a host
    loops,        \* how many event loops there are (event_loops_amount: 1)
    quiesce,      \* the discipline of the application: see Permitted
    admin,        \* the step of the admin's current call
    pc,           \* the step of each worker's current call
    op            \* and what it calls

clientVars == <<flag, initialized, client, cluster, hosts, loops>>
vars == <<clientVars, quiesce, admin, pc, op>>

AdminSteps == {"idle", "init", "mark", "configure", "connect", "flag", "unflag", "close loops",
               "close", "clear", "destroy", "unmark"}

(***************************************************************************)
(* What operations need: "sync" ones and the node calls the cluster,       *)
(* "async" ones an event loop too; "stats" (get_connections_stats) looks   *)
(* at as.cluster where the others look at the flag.                        *)
(***************************************************************************)
Operations == {"sync", "async", "stats"}

TypeOK == /\ flag \in BOOLEAN /\ initialized \in BOOLEAN
          /\ client \in {"live", "destroyed"}
          /\ cluster \in {"open", "none"}
          /\ hosts \in BOOLEAN
          /\ loops \in {0, 1}
          /\ quiesce \in BOOLEAN
          /\ admin \in AdminSteps
          /\ pc \in [Workers -> {"idle", "checked", "inside"}]
          /\ op \in [Workers -> Operations]

\* load() has run: the client is initialised and the event loops are there.
Init == /\ flag = FALSE /\ initialized = TRUE
        /\ client = "live" /\ cluster = "none" /\ hosts = FALSE
        /\ loops = 1
        /\ quiesce \in BOOLEAN
        /\ admin = "idle"
        /\ pc = [w \in Workers |-> "idle"]
        /\ op = [w \in Workers |-> "sync"]

-----------------------------------------------------------------------------
(* The admin's calls *)

\* The admin goes from one step of a call to the next.
Goes(from, to) == admin = from /\ admin' = to /\ UNCHANGED <<quiesce, pc, op>>

\* init_aerospike_client: nothing to do, or aerospike_init and is_initialized.
InitSkips == Goes("idle", "idle") /\ initialized /\ UNCHANGED clientVars
InitBegin == Goes("idle", "init") /\ ~initialized /\ UNCHANGED clientVars
InitClient == /\ Goes("init", "mark")
              /\ client' = "live" /\ cluster' = "none" /\ hosts' = FALSE
              /\ UNCHANGED <<flag, initialized, loops>>
InitMark == /\ Goes("mark", "idle")
            /\ initialized' = TRUE
            /\ UNCHANGED <<flag, client, cluster, hosts, loops>>

\* host_add, host_clear, host_list and set_connections_per_node read or write
\* as.config, and connect writes user and password to it before it calls
\* aerospike_connect; none checks the state of the client.  "After disconnect,
\* re-init the client first": the admin follows the test suite's rule.
Configure == /\ Goes("idle", "configure") /\ initialized
             /\ UNCHANGED clientVars
ConfigureEnd == /\ Goes("configure", "idle")
                /\ hosts' \in BOOLEAN
                /\ UNCHANGED <<flag, initialized, client, cluster, loops>>

Connect == /\ Goes("idle", "connect") /\ initialized
           /\ UNCHANGED clientVars

\* The library connects to a seed host; it has nothing to do when it has a
\* cluster already.
ConnectSucceeds == /\ Goes("connect", "flag")
                   /\ hosts \/ cluster = "open"
                   /\ cluster' = "open"
                   /\ UNCHANGED <<flag, initialized, client, hosts, loops>>
ConnectFlag == /\ Goes("flag", "idle")
               /\ flag' = TRUE
               /\ UNCHANGED <<initialized, client, cluster, hosts, loops>>

\* ... or reaches none.
ConnectFails == /\ Goes("connect", "unflag")
                /\ cluster = "none"
                /\ UNCHANGED clientVars
ConnectUnflag == /\ Goes("unflag", "close loops")
                 /\ flag' = FALSE
                 /\ UNCHANGED <<initialized, client, cluster, hosts, loops>>
\* Mutant: a second failure closes the loops once more.
CloseLoopsAgain == /\ Goes("close loops", "idle")
                   /\ loops' = loops - 1
                   /\ UNCHANGED <<flag, initialized, client, cluster, hosts>>

\* as_event_close_loops; only load() creates loops.
CloseLoops == /\ Goes("close loops", "idle")
              /\ loops' = 0
              /\ UNCHANGED <<flag, initialized, client, cluster, hosts>>

\* disconnect, when the flag says that there is nothing to do.
DisconnectSkips == Goes("idle", "idle") /\ ~flag /\ UNCHANGED clientVars
Disconnect == /\ Goes("idle", "close") /\ flag
              /\ quiesce => \A w \in Workers : pc[w] = "idle"
              /\ UNCHANGED clientVars

\* Mutant: disconnect returns without resetting the flag.
ClearNothing == Goes("clear", "destroy") /\ UNCHANGED clientVars

\* aerospike_close fails: the client stays connected.
CloseFails == Goes("close", "idle") /\ UNCHANGED clientVars
Close == /\ Goes("close", "clear")
         /\ cluster' = "none"
         /\ UNCHANGED <<flag, initialized, client, hosts, loops>>
ClearFlag == /\ Goes("clear", "destroy")
             /\ flag' = FALSE
             /\ UNCHANGED <<initialized, client, cluster, hosts, loops>>
Destroy == /\ Goes("destroy", "unmark")
           /\ client' = "destroyed" /\ hosts' = FALSE
           /\ UNCHANGED <<flag, initialized, cluster, loops>>

\* Mutant: disconnect forgets to reset is_initialized.
Forget == Goes("unmark", "idle") /\ UNCHANGED clientVars

Unmark == /\ Goes("unmark", "idle")
          /\ initialized' = FALSE
          /\ UNCHANGED <<flag, client, cluster, hosts, loops>>

-----------------------------------------------------------------------------
(* The workers' operations *)

Moves(w, from, to) == /\ pc[w] = from
                      /\ pc' = [pc EXCEPT ![w] = to]
                      /\ UNCHANGED <<clientVars, quiesce, admin>>

Admitted(o) == IF o = "stats" THEN cluster = "open" ELSE flag

\* An application may keep operations and disconnect apart: then the admin
\* disconnects only when no operation runs, and the workers start none while
\* it does.
Permitted == quiesce => admin \notin {"close", "clear", "destroy", "unmark"}

\* Mutant: no connection check.
CheckNothing(w, o) == /\ Permitted
                      /\ Moves(w, "idle", "checked")
                      /\ op' = [op EXCEPT ![w] = o]

\* if (!is_connected(env, &return_data)) return return_data, for "stats"
\* if (as.cluster && as.cluster->nodes)
Check(w, o) == /\ Admitted(o) /\ Permitted
               /\ Moves(w, "idle", "checked")
               /\ op' = [op EXCEPT ![w] = o]
Refuse(w, o) == ~Admitted(o) /\ Moves(w, "idle", "idle") /\ UNCHANGED op

\* The call of the client library that follows, and its end.
Use(w) == Moves(w, "checked", "inside") /\ UNCHANGED op
End(w) == Moves(w, "inside", "idle") /\ UNCHANGED op

-----------------------------------------------------------------------------
Initialise == InitSkips \/ InitBegin \/ InitClient \/ InitMark
Connecting == \/ Connect \/ ConnectSucceeds \/ ConnectFlag
              \/ ConnectFails \/ ConnectUnflag \/ CloseLoops
Disconnecting == DisconnectSkips \/ Disconnect \/ CloseFails \/ Close
                   \/ ClearFlag \/ Destroy \/ Unmark

Next == \/ Initialise \/ Configure \/ ConfigureEnd \/ Connecting \/ Disconnecting
        \/ \E w \in Workers : \/ \E o \in Operations : Check(w, o) \/ Refuse(w, o)
                              \/ Use(w) \/ End(w)

Spec == Init /\ [][Next]_vars

-----------------------------------------------------------------------------
(* Properties *)

\* The flag tells the truth to whoever checks it: it is set only on a live
\* client with an open cluster, but for the moment in which disconnect has
\* closed the cluster and not yet reset the flag; and a client with a cluster
\* is flagged, but for the moment before connect or disconnect returns, so a
\* disconnect that skips never leaves a cluster behind.
FlagFollowsCluster ==
    /\ flag => client = "live" /\ (cluster = "open" \/ admin = "clear")
    /\ cluster = "open" => flag \/ admin = "flag"

\* init_client after a disconnect really makes a new client: is_initialized
\* is never left set on a destroyed one.
DestroyedIsUninitialized ==
    client = "destroyed" => ~initialized \/ admin = "unmark"

\* Nobody configures or connects a destroyed client, and if the application
\* keeps operations and disconnect apart (the code does not), then no
\* operation runs on a cluster that disconnect has freed.
Inside == {w \in Workers : pc[w] = "inside"}
NoUseOfClosedClient ==
    /\ quiesce /\ Inside # {} => cluster = "open" /\ client = "live"
    /\ admin \in {"configure", "connect"} => client = "live"

\* "{ok, connected} - Successfully connected to aerospike cluster"
\* (aspike_nif.cpp): the asynchronous operations of a connected client find
\* an event loop.
ConnectedHasEventLoops == \A w \in Inside : op[w] = "async" => loops > 0
=============================================================================
