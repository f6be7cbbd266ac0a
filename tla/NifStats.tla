------------------------------ MODULE NifStats -------------------------------
(***************************************************************************)
(* The connection statistics of the NIF: how many operations are in flight *)
(* (current) and the recent maximum (peak), for the synchronous operations *)
(* (SyncOperationCounter in c_src/nif/sync_methods.cpp), for the           *)
(* asynchronous ones and for each cluster node (callback_data in           *)
(* c_src/nif/async_methods.cpp), and the poll that reads them and clears   *)
(* outdated ones (get_connections_stats in c_src/nif/aspike_nif.cpp).      *)
(* Operations run on scheduler and event loop threads at the same time;    *)
(* every fetch_add, fetch_sub and store of an atomic is a step of its own, *)
(* and so is every branch with the loads it compares.                      *)
(***************************************************************************)
EXTENDS Integers, FiniteSets

CONSTANTS Ops,        \* slots for operations, synchronous or asynchronous
          Nodes,      \* cluster nodes
          NoNode,     \* an empty callback_data::node_name
          Modulus,    \* the counters are uint32_t: 2^32
          Ttl,        \* seconds a peak is kept before a lower value replaces it: 15
          Outdated,   \* seconds after which a poll clears an unrenewed peak: 30
          Clock,      \* the times the clock may show
          MaxSwitches \* bound on the calls of enable_statistic_collection

Counters == {"sync", "async"} \cup Nodes

ASSUME OpsAssumption == IsFiniteSet(Ops) /\ Cardinality(Ops) < Modulus
ASSUME NodesAssumption == NoNode \notin Counters /\ Nodes \cap {"sync", "async"} = {}
ASSUME NumbersAssumption == {Modulus, Ttl, Outdated, MaxSwitches} \subseteq Nat \ {0}
\* It is long after the epoch: a peak_ttl of 0 is outdated.
ASSUME ClockAssumption == Clock \subseteq Nat /\ \A t \in Clock : t > Outdated

VARIABLES
    enabled,   \* statistics_enabled_flag
    now,       \* unix_ts()
    current,   \* the atomic counters, their peaks
    peak,
    ttl,       \* and the time until which each peak is kept
    entries,   \* the nodes that have an entry in node_stats_map
    kind,      \* what each slot runs: synchronous or asynchronous operations
    pc,        \* where each operation is in its constructor or destructor
    at,        \* the counter it works on
    node,      \* callback_data::node_name
    seen,      \* locals of the constructor: the values loaded and the time
    stamp,
    poll,      \* the poll in progress: its position and its locals
    held,      \* ghost: the counters that count the operation
    high,      \* ghost: the most operations each counter ever counted
    zeroed,    \* ghost: the counters a poll cleared under an operation
    switched,  \* ghost: collection was switched while an operation ran
    switches   \* ghost: how often collection was switched

clockVars == <<enabled, now, switches>>
statVars  == <<current, peak, ttl, entries>>
localVars == <<seen, stamp>>
opVars    == <<kind, pc, at, node, localVars, held>>
ghostVars == <<high, zeroed, switched>>
vars      == <<clockVars, statVars, opVars, poll, ghostVars>>

NoPoll == [pc |-> "idle", at |-> "sync", left |-> {}, some |-> {}, cut |-> 0]
Zeros  == [c \in Counters |-> 0]

TypeOK ==
    /\ enabled \in BOOLEAN /\ now \in Clock
    /\ current \in [Counters -> 0..(Modulus - 1)]
    /\ peak \in [Counters -> 0..(Modulus - 1)]
    /\ ttl \in [Counters -> Nat]
    /\ entries \subseteq Nodes
    /\ kind \in [Ops -> {"sync", "async"}]
    /\ pc \in [Ops -> {"idle", "create", "add", "load", "compare",
                       "storePeak", "storeTtl", "running", "sub"}]
    /\ at \in [Ops -> Counters]
    /\ node \in [Ops -> Nodes \cup {NoNode}]
    /\ seen \in [Ops -> [Counters -> 0..(Modulus - 1)]]
    /\ stamp \in [Ops -> Nat]
    /\ poll \in [pc : {"idle", "lock", "visit", "zeroCurrent", "zeroPeak"}, at : Counters,
                 left : SUBSET Counters, some : SUBSET {"sync", "async"}, cut : Int]
    /\ held \in [Ops -> SUBSET Counters]
    /\ high \in [Counters -> Nat]
    /\ zeroed \subseteq Counters /\ switched \in BOOLEAN /\ switches \in Nat

Init ==
    /\ enabled = FALSE /\ now \in Clock
    /\ current = Zeros /\ peak = Zeros /\ ttl = Zeros /\ high = Zeros
    /\ entries = {}
    /\ pc = [o \in Ops |-> "idle"]
    /\ kind \in [Ops -> {"sync", "async"}]
    /\ at = kind
    /\ node = [o \in Ops |-> NoNode]
    /\ seen = [o \in Ops |-> Zeros]
    /\ stamp = [o \in Ops |-> 0]
    /\ poll = NoPoll
    /\ held = [o \in Ops |-> {}]
    /\ zeroed = {} /\ switched = FALSE /\ switches = 0

-----------------------------------------------------------------------------
(* An operation: the constructor of SyncOperationCounter or callback_data *)

Holders(h, c) == Cardinality({o \in Ops : c \in h[o]})
LastCounter(o) == IF kind[o] = "sync" THEN "sync" ELSE node[o]

\* The constructor goes from step "from" on the counter at[o] to the same
\* step on the node's counter, then to step "to" on the first one.
Advance(o, from, to) ==
    /\ pc[o] = from
    /\ IF at[o] = LastCounter(o)
       THEN /\ pc' = [pc EXCEPT ![o] = to]
            /\ at' = [at EXCEPT ![o] = kind[o]]
       ELSE /\ at' = [at EXCEPT ![o] = LastCounter(o)]
            /\ UNCHANGED pc

\* The constructor of a new operation goes to "step".
Begin(o, step) ==
    /\ pc[o] = "idle"
    /\ pc' = [pc EXCEPT ![o] = step]
    /\ UNCHANGED <<clockVars, statVars, kind, at, localVars, held, poll, ghostVars>>

\* Collection is off, or no target node is known for the key of an
\* asynchronous operation: the operation runs uncounted.
BeginUncounted(o) ==
    /\ ~enabled \/ kind[o] = "async"
    /\ Begin(o, "running") /\ UNCHANGED node

BeginSync(o) == /\ enabled /\ kind[o] = "sync"
                /\ Begin(o, "add") /\ UNCHANGED node

\* get_target_node_for_key has found the master node n of the key, and
\* get_or_create_node_stats has looked for its entry under the shared lock.
BeginAsync(o, n) ==
    /\ enabled /\ kind[o] = "async"
    /\ Begin(o, IF n \in entries THEN "add" ELSE "create")
    /\ node' = [node EXCEPT ![o] = n]

\* A poll holds the shared lock while it goes through the nodes.
SharedLocked == poll.pc # "idle" /\ (poll.left \cup {poll.at}) \cap Nodes # {}

\* The slow path under the exclusive lock: the entry is created with zero
\* counters, unless it is known.
CreateUnless(o, known) ==
    /\ pc[o] = "create" /\ ~SharedLocked
    /\ IF known THEN UNCHANGED <<statVars>>
       ELSE /\ entries' = entries \cup {node[o]}
            /\ current' = [current EXCEPT ![node[o]] = 0]
            /\ peak' = [peak EXCEPT ![node[o]] = 0]
            /\ ttl' = [ttl EXCEPT ![node[o]] = 0]
    /\ pc' = [pc EXCEPT ![o] = "add"]
    /\ UNCHANGED <<clockVars, kind, at, node, localVars, held, poll, ghostVars>>

\* Mutant: no second look under the exclusive lock.
CreateUnchecked(o) == CreateUnless(o, FALSE)

\* Another thread may have created it since the look under the shared lock.
Create(o) == CreateUnless(o, node[o] \in entries)

\* fetch_add(1)
Add(o) ==
    /\ Advance(o, "add", "load")
    /\ current' = [current EXCEPT ![at[o]] = (@ + 1) % Modulus]
    /\ held' = [held EXCEPT ![o] = @ \cup {at[o]}]
    /\ high' = [high EXCEPT ![at[o]] = IF Holders(held', at[o]) > @
                                       THEN Holders(held', at[o]) ELSE @]
    /\ UNCHANGED <<clockVars, peak, ttl, entries, kind, node, localVars, poll, zeroed, switched>>

\* The load after the fetch_add, which may see other operations' additions,
\* and after the last one the time.
Load(o) ==
    /\ Advance(o, "load", "compare")
    /\ seen' = [seen EXCEPT ![o][at[o]] = current[at[o]]]
    /\ stamp' = [stamp EXCEPT ![o] = now]
    /\ UNCHANGED <<clockVars, statVars, kind, node, held, poll, ghostVars>>

\* The constructor is done with the counter at[o]: with the other one, or to
\* the operation itself.
Finish(o) ==
    /\ seen' = [seen EXCEPT ![o][at[o]] = 0]
    /\ IF at[o] = LastCounter(o)
       THEN /\ pc' = [pc EXCEPT ![o] = "running"]
            /\ at' = [at EXCEPT ![o] = kind[o]]
            /\ stamp' = [stamp EXCEPT ![o] = 0]
       ELSE /\ pc' = [pc EXCEPT ![o] = "compare"]
            /\ at' = [at EXCEPT ![o] = LastCounter(o)]
            /\ UNCHANGED stamp

\* Is the value a new peak, or the peak too old to keep?  When it is neither
\* the constructor is done with this counter.
Compare(o) ==
    /\ pc[o] = "compare"
    /\ IF seen[o][at[o]] > peak[at[o]] \/ stamp[o] > ttl[at[o]]
       THEN pc' = [pc EXCEPT ![o] = "storePeak"] /\ UNCHANGED <<at, localVars>>
       ELSE Finish(o)
    /\ UNCHANGED <<clockVars, statVars, kind, node, held, poll, ghostVars>>

StorePeakAs(o, v) ==
    /\ pc[o] = "storePeak"
    /\ peak' = [peak EXCEPT ![at[o]] = v]
    /\ pc' = [pc EXCEPT ![o] = "storeTtl"]
    /\ UNCHANGED <<clockVars, current, ttl, entries, kind, at, node, localVars, held, poll, ghostVars>>

\* Mutant: the peak is counted up instead of set to the value loaded.
StorePeakCounts(o) == StorePeakAs(o, (peak[at[o]] + 1) % Modulus)

StorePeak(o) == StorePeakAs(o, seen[o][at[o]])

StoreTtl(o) ==
    /\ pc[o] = "storeTtl"
    /\ ttl' = [ttl EXCEPT ![at[o]] = stamp[o] + Ttl]
    /\ Finish(o)
    /\ UNCHANGED <<clockVars, current, peak, entries, kind, node, held, poll, ghostVars>>

-----------------------------------------------------------------------------
(* The destructor *)

\* The slot is free again.
Idle(o) == /\ pc' = [pc EXCEPT ![o] = "idle"]
           /\ at' = [at EXCEPT ![o] = kind[o]]
           /\ node' = [node EXCEPT ![o] = NoNode]

\* Nothing is subtracted when collection is off by now, or when the
\* callback_data has no node; a SyncOperationCounter does not know whether
\* its constructor counted.
EndUncounted(o) ==
    /\ pc[o] = "running"
    /\ ~enabled \/ (kind[o] = "async" /\ node[o] = NoNode)
    /\ Idle(o)
    /\ held' = [held EXCEPT ![o] = {}]
    /\ switched' = (switched \/ held[o] # {})
    /\ UNCHANGED <<clockVars, statVars, kind, localVars, poll, high, zeroed>>

BeginEnd(o) ==
    /\ pc[o] = "running" /\ enabled
    /\ kind[o] = "sync" \/ node[o] # NoNode
    /\ pc' = [pc EXCEPT ![o] = "sub"]
    /\ UNCHANGED <<clockVars, statVars, kind, at, node, localVars, held, poll, ghostVars>>

\* The counter at[o] becomes v.  The entry of the node exists: entries are
\* never removed.
SubTo(o, v) ==
    /\ pc[o] = "sub"
    /\ current' = [current EXCEPT ![at[o]] = v]
    /\ held' = [held EXCEPT ![o] = @ \ {at[o]}]
    /\ switched' = (switched \/ at[o] \notin held[o])
    /\ IF at[o] = LastCounter(o)
       THEN Idle(o)
       ELSE at' = [at EXCEPT ![o] = LastCounter(o)] /\ UNCHANGED <<pc, node>>
    /\ UNCHANGED <<clockVars, peak, ttl, entries, kind, localVars, poll, high, zeroed>>

\* Mutant: a signed counter, which does not wrap.
SubSigned(o) == SubTo(o, current[at[o]] - 1)

\* fetch_sub(1), which wraps below zero.
Sub(o) == SubTo(o, (current[at[o]] - 1) % Modulus)

-----------------------------------------------------------------------------
(* get_connections_stats; one poll at a time *)

\* Collection is on: the two global peaks are loaded.  (When it is off the
\* answer is zeros and nothing changes.)
PollBegin ==
    /\ poll.pc = "idle" /\ enabled
    /\ poll' = [pc |-> "lock", at |-> "sync", left |-> {"sync", "async"},
                some |-> {c \in {"sync", "async"} : peak[c] > 0}, cut |-> now - Outdated]
    /\ UNCHANGED <<clockVars, statVars, opVars, ghostVars>>

PollLock ==
    /\ poll.pc = "lock"
    /\ poll' = [poll EXCEPT !.pc = "visit", !.left = @ \cup entries]
    /\ UNCHANGED <<clockVars, statVars, opVars, ghostVars>>

\* First the nodes in some order, then the synchronous counters, then the
\* asynchronous ones.
NextToVisit(c) == /\ c \in poll.left
                  /\ c \notin Nodes => poll.left \cap Nodes = {}
                  /\ c = "async" => "sync" \notin poll.left

PollDone(left) == IF left = {} THEN NoPoll
                  ELSE [poll EXCEPT !.pc = "visit", !.at = "sync", !.left = left]

\* Is there a peak, and is it outdated?
PollVisit(c) ==
    /\ poll.pc = "visit" /\ NextToVisit(c)
    /\ poll' = IF (IF c \in Nodes THEN peak[c] > 0 ELSE c \in poll.some) /\ ttl[c] < poll.cut
               THEN [poll EXCEPT !.pc = "zeroCurrent", !.at = c]
               ELSE PollDone(poll.left \ {c})
    /\ UNCHANGED <<clockVars, statVars, opVars, ghostVars>>

PollZeroCurrent ==
    /\ poll.pc = "zeroCurrent"
    /\ current' = [current EXCEPT ![poll.at] = 0]
    /\ zeroed' = IF Holders(held, poll.at) > 0 THEN zeroed \cup {poll.at} ELSE zeroed
    /\ poll' = [poll EXCEPT !.pc = "zeroPeak"]
    /\ UNCHANGED <<clockVars, peak, ttl, entries, opVars, high, switched>>

PollZeroPeak ==
    /\ poll.pc = "zeroPeak"
    /\ peak' = [peak EXCEPT ![poll.at] = 0]
    /\ poll' = PollDone(poll.left \ {poll.at})
    /\ UNCHANGED <<clockVars, current, ttl, entries, opVars, ghostVars>>

-----------------------------------------------------------------------------
\* enable_statistic_collection(1) or of another number.
EnableStatisticCollection ==
    /\ switches < MaxSwitches /\ switches' = switches + 1
    /\ enabled' = ~enabled
    /\ UNCHANGED <<now, statVars, opVars, poll, ghostVars>>

\* Time passes.
Tick == /\ now' \in {t \in Clock : t > now}
        /\ UNCHANGED <<enabled, statVars, opVars, poll, ghostVars, switches>>

Construct(o) == \/ BeginUncounted(o) \/ BeginSync(o) \/ \E n \in Nodes : BeginAsync(o, n)
                \/ Create(o) \/ Add(o) \/ Load(o)
                \/ Compare(o) \/ StorePeak(o) \/ StoreTtl(o)
Destruct(o) == EndUncounted(o) \/ BeginEnd(o) \/ Sub(o)
Poll == \/ PollBegin \/ PollLock \/ PollZeroCurrent \/ PollZeroPeak
        \/ \E c \in Counters : PollVisit(c)

Next == \/ \E o \in Ops : Construct(o) \/ Destruct(o)
        \/ Poll
        \/ EnableStatisticCollection
        \/ Tick

Spec == Init /\ [][Next]_vars

-----------------------------------------------------------------------------
(* Properties *)

\* A counter is the number of operations it counts, unless collection was
\* switched under an operation or a poll cleared the counter under one: no
\* interleaving of constructors, destructors and polls loses a count, and two
\* threads that meet a new node count on one entry.
Exact(c) == current[c] = Holders(held, c)
CountersExact == ~switched => \A c \in Counters \ zeroed : Exact(c)

\* A peak was really reached: whatever is loaded, compared and stored late,
\* no peak exceeds what its counter has counted at one time.
PeakWasReached ==
    ~switched /\ zeroed = {} => \A c \in Counters : peak[c] <= high[c]

\* "Check if the peak values are outdated and reset them if needed"
\* (aspike_nif.cpp): a poll forgets peaks, not the operations in flight.
PollKeepsCurrent == ~switched => \A c \in Counters : Exact(c)
=============================================================================
