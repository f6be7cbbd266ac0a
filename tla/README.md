# A verification project for aspike-port

`aspike-port` is an Erlang client for the Aerospike database. The implementation in
use is a NIF library in C++ (`c_src/nif/`, Erlang stubs in `src/aspike_nif.erl`); an
older one, a port with an external C program (`c_src/port/`, `src/aspike_srv.erl`, the
supervisor and the pooled worker), is still in the repository although its
application is disabled. The Aerospike C client is a submodule and is modelled only by
how this code uses it ("external" in the map of `PROJECT.json`).

The modules here are translated from that code. TLC checks them on small instances;
TLAPS proves, for every instance, the safety of the asynchronous calls, the statistics,
the client's lifecycle, the port server, the pool and the frames, and of the records that
the writing NIFs make.

    tlc -config NifAsync_calls.cfg NifAsync.tla         # a run of the table below
    tlc -config PortFrames_frames.cfg MCPortFrames.tla  # one with an MC module
    tlapm NifAsyncProofs.tla                            # proofs, likewise of the other *Proofs modules

## 1. Inventory

| Component | State | Operations | What is hard | What makes it correct |
|---|---|---|---|---|
| **Client lifecycle** (`c_src/nif/aspike_nif.cpp`) | the global client `as` with its configuration and cluster, `is_initialized`, `is_connected_flag`, the event loops | `init_client`, `host_add`, `host_clear`, `host_list`, `set_connections_per_node`, `connect`, `disconnect` | NIFs run on several scheduler threads and nothing is locked; every operation checks the flag and uses the cluster later; `disconnect` frees both in four steps | the flag follows the cluster; a destroyed client counts as uninitialised; no operation uses freed memory; a connected client has event loops |
| **Asynchronous calls** (`async_methods.cpp`) | a `callback_data` per call, the caller's mailbox | five `*_async` NIFs and their callbacks | the callback may run before the NIF returns; the caller may give up or exit; the submit may fail; a callback may throw; `disconnect` may drop commands | a caller gets the answer to its own call, once; every `callback_data` has one holder and is freed; every call ends |
| **Connection statistics** (constructors and destructors of `SyncOperationCounter` and `callback_data`, `get_connections_stats`) | atomic counters, peaks and their times, the node map with its lock, `statistics_enabled_flag` | count in, count out, poll, switch | each atomic access is a step of its own; entries are created under a double-checked lock; collection is switched and polls reset while operations run | a counter is the number of operations it counts; a peak was really reached |
| **Synchronous record operations** (`sync_methods.cpp`) and what the operations write | the records of the cluster | `cdt_put`, `cdt_get`, the deletes, `binary_remove`; `key_put`, `key_inc`, `key_get`, `key_select`, `key_remove`, `binary_put`, `binary_get`, `map_put`, `segment_tag_get`, ...; `a_key_put` | lists are read by position, with items skipped; concurrent commands overtake each other; an acknowledgement is lost; time to live is set or kept; a loop's counter wraps | a record is what the calls say; entries are whole; a write answered ok wrote what its arguments say; what is read has the documented shape |
| **Dumping records** (`common_methods.cpp`) | none | `aspike_dump_*`, `aspike_format_value_out` | incomplete entries; bins in any order | a list of bins; a flat list of pairs; the same reading as the port's |
| **Node and host information** (`aspike_nif.cpp`) | none | `node_*`, `host_info`, `help` | they use the cluster like any operation | as for the lifecycle |
| **Port server** (`aspike_srv.erl`) | the port, the mailbox | `command/1`, `handle_call`, `handle_info`, `call_port` | nothing ties an answer to a command; two timeouts; crash and restart | answers stay in step with the commands; every request is served |
| **External program, its frames** (`rw_command.c`, the loop of `ei.c`) | the bytes of the frame being read or written | `read_cmd`, `write_cmd`, `read_exact`, `write_exact`, `main` | short reads and writes; a length in two bytes; the port closes at any byte | commands and answers arrive whole and in order; the program ends with its port |
| **External program, its functions** (`aerocalls.c`) | `is_aerospike_initialised`, `is_connected` | one function per command | one index runs through the tokens of a command; answers are written in pieces with headers that count them; early returns | every answer is one whole term; one answer per command |
| **Supervisor** (`aspike_port_sup.erl`) | crashes within a second | restart, give up | a fresh server must not see old state | |
| **Pooled worker** (`aspike_srv_worker.erl`) | pool members, each with port and mailbox | as the server, through pooler | three `call_port`s in one call; a call that times out does not return its member | a member serves one caller at a time and comes back; what somebody gave up reaches nobody else |
| Stubs, rendering of info answers, helpers, tests | none | | | |

Interactions: Erlang processes call NIFs (function calls on scheduler threads, dirty
ones for the synchronous operations); NIFs call the client library; the library calls
back on an event loop thread, which sends an Erlang message; all of them share the
globals of the library. In the port implementation callers, server and program exchange
messages only; a pool member is a server of its own, with a port and a program of its
own. Both implementations write the same records of the same cluster.

The hazards list of `PROJECT.json` says, line by line, where this code could go wrong in
ways that a test would hardly reach, and which property watches each.

## 2. Modules

| Module | Models |
|---|---|
| `AsyncCall` | the abstract promise of the asynchronous API: a call, named by its reference, is refused or pending; a pending call ends once, with its own result or because nobody waits |
| `NifAsync` | the five asynchronous NIFs, their callbacks, and both ways in which the tests wait |
| `NifAsyncProofs`, `NifStatsProofs`, `NifClientProofs`, `PortServerProofs`, `PortPoolProofs`, `PortFramesProofs`, `CdtRecordProofs` | the theorems about the module they are named after |
| `SequenceLemmas` | what concatenating, removing and updating do to a sequence; used by the proofs of the port and of the records |
| `NifStats`, `MCNifStats` | the counters, step by step; the MC module defines the symmetry |
| `NifClient` | the lifecycle and the check-then-use of every operation |
| `CdtRecord`, `MCCdtRecord` | from flat lists to records and back; the MC module lists the calls |
| `PortCall` | the abstract promise of `aspike_srv`: a call ends once, with its own answer until the server has given an answer up |
| `PortServer` | callers, server, external program and supervisor of the port |
| `PortPool` | callers, members of the pool and their programs |
| `PortChannel` | the abstract promise of the frames: commands and answers arrive whole and in order until an answer does not fit |
| `PortFrames`, `MCPortFrames` | the frames, byte by byte; the MC module lists commands and answers |
| `EiTerms` | Erlang terms, the tokens of the external term format, `term_to_binary` and `binary_to_term` |
| `Records` | a record and the calls of the client library (external) |
| `NifRecords` | what each synchronous NIF makes of its arguments, and its answer |
| `PortRecords` | what each function of the program makes of its tokens, and its answer |
| `RecordCalls`, `MCRecordCalls` | one record under calls of both front ends, composed of the three above; the MC module lists the calls |

The modules meet in what they leave to each other: `NifClient` has the flag that
`NifAsync` and `RecordCalls` take as given; `PortServer` sends whole commands and takes
whole answers because `PortFrames` implements `PortChannel`; which answers the program
may give, none or half a term included, is what `RecordCalls` finds of it; a member of
`PortPool` does with a command what `PortServer` does.

### NifAsync

One reference is one call. `call[r]` is where it stands for its caller, `cbd[r]` who
holds its `callback_data`: `nif` (allocated), `lib` (submitted), `sent` (the callback has
sent and not yet deleted), `freed`, or `lost` (dropped by a disconnect). `BadArg`,
`PutNothing` and `NotConnected` are the early returns; `Prepare` is the allocation after
the checks; `Submit` and `SubmitFails` are the two outcomes of the library's call;
`ReturnInProgress` is the return of the NIF, and between `Submit` and it the callback
may already run. `CallbackSend` and `CallbackFree` are the two halves of a callback,
`CallbackThrows` the string literal that `segment_tag_get_async_callback` throws and its
handler for `char*` does not catch. `Receive`, `DropStale` and `TimeOut` are the
`receive` of `await_async` (processes in `Selective`) and of `receive_with_ref_filter`
(the others, which take and drop messages of earlier calls).

Choices: the five operations are two kinds, because their control differs in two places
only. A mailbox is a set: messages may be taken in any order, arrival order included.
`aerospike_close` is external, so `Disconnect` drops any subset of the commands in
flight. Connect and disconnect are here only as far as these calls see them.

### NifStats

A slot of `Ops` runs one operation after the other, synchronous or asynchronous ones
(`kind`). Its steps are those of the constructor - `BeginSync`, `BeginAsync` (the look
under the shared lock), `Create` (the slow path under the exclusive one), `Add`
(`fetch_add`), `Load`, `Compare`, `StorePeak`, `StoreTtl` - and of the destructor,
`BeginEnd` and `Sub`. An asynchronous operation goes through them on the global and on
the node's counter. The poll is `PollBegin` to `PollZeroPeak`, its resets being separate
stores. Ghost variables say which counters really count an operation (`held`), what the
highest such number was (`high`), which counters a poll cleared under an operation
(`zeroed`) and whether collection was switched under one (`switched`).

Choices: one poll at a time; the loads of one comparison are one step, as are the loads
with which a poll begins; `fetch_sub` wraps modulo `Modulus`, which stands for 2^32.

### NifClient

Each assignment of a global and each call of the library is a step of the admin (one
Erlang process that initialises, configures, connects and disconnects); a worker checks
(`Check`, `Refuse`), uses (`Use`) and ends (`End`). The admin follows the rule the tests
follow: after a disconnect, `init_client` first. `quiesce` chooses whether the
application keeps operations and disconnect apart, which nothing in the code does.
`load()` is the initial state. A connect can succeed when a host is configured, and has
nothing to do when a cluster is open already (external).

### CdtRecord

`Item` is the `opnum` machine that both `cdt_put`s run over a flat list; `Read` says over
which bins: the synchronous one never advances its list of bins. `Operations` and `Ttl`
are what each call sends, `Execute` is the cluster running it on one record, atomically,
at any later time, never, or more than once (a library retry). `Reading` (a list) and
`Running` (a command) are recursive functions of the position in the list. A cell holds the call and
the triple that wrote it, so that the properties can tell where a value came from.
`FlatList` is what `cdt_get` makes of a bin. The connection and the answers are in the
other modules. Not modelled: keys of a flat list that are no binaries, and that a record
whose last bin is removed ceases to exist.

### PortServer

Calls are slots that are used again once nothing of the previous call is left. `Serve`,
`DropData`, `Take`, `ServerTimesOut` and `Crash` are the server: `Take` removes the first
data message of the mailbox, whatever command it answers. `Execute` and
`ExecuteSilently` are the program; `Terms` says what it can answer in its state.
`CallTimesOut` and `ServerTimesOut` have no clock: a timeout may strike whenever what it
waits for is not there. `Restart`, `GiveUp` and `SecondPasses` are the supervisor, whose
count of crashes is forgotten after the period. Left out: the second copy of each answer
that `call_port` sends to the caller, and `handle_cast`, which nothing calls.

`PortCall` is what a caller can rely on, without server, mailbox, port and program. The
refinement keeps `waiting`, `given` and `late`; `open`, the calls whose answer may still
come, is `Open`: the calls of the requests and answers in the mailbox and of the commands
in the port. A command on its way from mailbox to port and back is a stutter; what a
closed port swallows, what the program leaves unanswered and what the server drops is
`Lose`.

### PortPool

`holder[m]` is who has member `m`: the pool, a caller, or `Nobody`, when the caller that
had it gave up. `command/1` is `Take`, `Ask` and `Return`; a `gen_server:call` that
times out (`AskTimesOut`) exits between the last two, so that the member is not given
back. `Serve`, `DropData`, `Receive`, `ReceiveTimesOut` and `Crash` are the member;
`GoesOn` is the end of a `call_port`, after which `aerospike_init` sends the next of its
three commands (`step`) whatever the last one brought. `BootCall` is the process that
`init/1` spawns: it calls its member past the pool. `Reclaim` and the renewal in `Crash`
are the pool library (external): it replaces members that end, and ends those whose
caller has ended. `ProgramExits` leaves the member alive, with a port that swallows
commands.

### PortFrames

`toProgram` and `fromProgram` are the bytes in the two pipes. `Read(n)` and `Write(n)`
are single system calls of `read_exact` and `write_exact`, any size at a time; `phase`,
`need` and `buf` say where `main`, `read_cmd` and `read_exact` are, `out` which buffers
`write_cmd` has still to write (the two bytes of the length, then the answer).
`HaveLength`, `HaveBody` and `EndOfInput` are what `read_cmd` does when `read_exact`
returns; a frame of length 0 cannot be told from the end of the pipe. `Base` stands for
256: the length of an answer is taken modulo `Base * Base`. `Send`, `DriverReads`,
`Deliver` and `Close` are the server and the driver of its port (external). The
sequences `sent`, `taken`, `answers` and `delivered` are both the ghost variables of the
properties and the variables of `PortChannel`: the refinement mapping is the identity.

### RecordCalls

A call is `[op, args]`, its arguments being terms. `NifRecords` says, NIF by NIF, which
arguments it refuses (`badarg`), when it asks for the flag, which call of the library
it makes and which term it builds of the result. `PortRecords` does the same for the
functions of the program, which read the command token by token with one index: a value
that a decode function refuses is *not passed over*, and the next one is looked for at
the same place. `Encode` makes the tokens (a list of bytes is written as a string), and
`BinaryToTerm` reads those of an answer back. `Records` is the cluster: `Outcomes` says
that a call is refused, is run, or is run without the answer saying so. In `RecordCalls`,
`CallNif` and `CallPort` are one whole call; `last` keeps it with its answer until
`Return`. `RepeatStart`, `RepeatPut` and `RepeatEnd` are `a_key_put`, whose loop compares
an unsigned counter with a signed bound; dividing by 0 repetitions ends the VM. `Junk` is
what a variable that nothing has written may hold. `StoreMap` brings in the maps whose
making `CdtRecord` models; the other functions of the program (`PortInfo`) do not reach
the record, and each is modelled by the shapes of its answers.

Choices: texts (messages, values as text, names of settings) are one token each; bins
have short names of bytes; integers are small or `Big` (33 to 64 bits), which is the
distinction that the two decode functions make; namespace, set and key are one argument.

## 3. Runs

| Run | Shows | Instance |
|---|---|---|
| `async_calls` | the safety of the calls, that no `callback_data` leaks, and that they implement `AsyncCall`: above all, that every call ends | 2 processes, one per way of waiting, 2 calls |
| `async_segment` | *violation*: a missing record ends the VM | 1 call |
| `stats_counts` | counters are exact and peaks real, but for switches and resets under an operation | 2 slots of any kind, 1 node, 1 switch |
| `stats_reset` | *violation*: a poll zeroes the count of running operations | 1 slot |
| `client_races` | flag, cluster and `is_initialized` stay together; with `quiesce` no operation uses freed memory | 2 workers |
| `client_loops` | *violation*: connected without event loops | 1 worker |
| `port_calls` | answers stay in step until a timeout, none is given twice, every request is served, the server implements `PortCall` | 3 calls |
| `port_pool` | a given-up request keeps its member out of the pool, a member has one call at a time, answers are mixed only after a timeout, members come back | 1 member, 3 callers, all kinds of commands |
| `port_frames` | commands and answers that fit arrive whole and in order, the program ends when and only when its port is closed, the frames implement `PortChannel` | bytes of 2 values, 3 commands |
| `record_calls` | answers of the program are whole terms with proper lists (but for the three cases below), both front ends read alike, a write answered ok wrote what its arguments say, silence only to a bad `cdt_put`, `a_key_put` returns with the VM up (but for n = 0 and n beyond its counter) | one record, about 110 calls, one at a time |
| `cdt_calls` | records are what the calls say, entries whole, reads in pairs | 3 calls, 3 commands run |
| `cdt_bins` | *violation*: a synchronous put of two bins stores one | 3 calls |

The findings of `PROJECT.json` quote, for each violation, the line of the repository that
says otherwise.

Three properties of `record_calls` hold only with the cases taken out in which the code is
known to do otherwise; the cases are in their definitions:

- `AnswersAreTerms` asks that `binary_to_term` finds a reply with proper lists and that
  nothing is left over (one more end after a list that is empty is let pass: it changes
  nothing). It leaves out the stubs; `cdt_get` of an entry with a ttl and a write time but
  no value, whose tuple is one element short; and a read of an empty list or map next to
  another bin, which is ended twice: of an empty list and a 1 `binary_key_get` makes
  `{ok, [{Bin1, []}, [] | {Bin2, 1}]}`, an improper list, where its -spec
  (`aspike_srv.erl:270`) has a list.
- `ReadingsAgree` leaves out the same empty lists and maps, incomplete entries and plain
  maps (`ReadAlike`).
- `RepeatedPutEnds` leaves out n = 0, for which `a_key_put` divides by zero and takes the
  VM down, and n of 2^32 or more, which its counter never reaches.

`WritesAreExact` covers the values that both the code and the external term format carry
whole (`Ordinary`): lists of integers of any size up to 32 bits included, through the port
no list of bytes with one above 127.

### Bounds

- `async_calls`: two calls are enough for one that is given up and one that waits while
  the late answer arrives, in one process or in two. The safety properties are proved
  for any number.
- `stats_counts`: two operations meet on every counter and on the node's first entry.
  `Modulus` 4 is larger than the number of slots, so that a count never wraps upwards and
  a subtraction too many shows. `Clock` has two times: at the second a peak of the first
  is too old both to be kept and for a poll. One switch turns collection on; a
  second one would take off under an operation or leave nothing counted, which is what
  the properties exclude. The slots are symmetric (safety only).
- `client_races`: workers do not influence each other, so the second one adds the
  operation that is still running when another is refused.
- `port_calls`: one call whose answer is late, one that gets it, one whose answer is late
  in its turn. `Kinds` has a command that changes the program's state and answers ok or
  error, one whose answer is no term and one without an answer. Slots are used again
  without limit.
- `port_pool`: members share nothing but their callers and every property is about one
  member. Of three callers one gives up, one has the member afterwards and one finds the
  pool empty. There is no bound on the number of calls: a caller takes a member again
  once nothing of its last call is left in it.
- `port_frames`: `Base` 2 gives frames of up to three bytes, so that an answer of four
  has the length 0 and one of five is cut after the first byte, its rest looking like
  frames. `Room` 2 makes the writes of the longer answers short. `MaxCommands` 3
  lets one command follow an answer that does not fit and one precede it.
- `record_calls`: the values and lists are every kind a function tells apart, alone and
  before an ordinary one, so that an index that is off by one is seen in the next value.
  Records have up to two bins, with numbers up to `MaxValue` 2, so that an increment adds
  to what a put or another increment left. `Counter` 4 stands for 2^32; the repetitions are negative, 0, below and
  above it. `Junk` has the value that is taken for a right one (a tuple of 4) and two
  others. Calls come one at a time: what concurrent ones do to a record is `cdt_calls`.
- `cdt_calls`: `MaxCalls` 3 and `MaxRuns` 3 give two commands that race and one before or
  after, or two of which one is repeated. Lists and histories of any length: section 4. The lists have whole triples, a repeated
  key, unusable values and ttls, and early ends.

### Fairness

`NifAsync!FairSpec`: a NIF that has started runs to its end; the library ends a command,
because its policy has a total timeout (a policy with 0, no limit, is not covered); a
callback goes on to its delete; a `receive` ends by its `after`. With finitely many
references stale messages run out. Nobody has to call, connect, disconnect or exit.
`PortServer!FairSpec`: the server is scheduled, `call_port` ends by its `after`, the
supervisor acts. Callers and program owe nothing: `RequestsAreServed` holds although the
program may never answer.
`PortPool!FairSpec`: in addition a caller that has a member goes on (asks, or returns it);
timeouts of callers are not fair, and neither pool nor programs owe anything.
`PortFrames!FairSpec`: the driver reads its pipe, the program is scheduled and its
functions return, because the calls of the library have total timeouts. The server need
neither send nor close. `RecordCalls!FairSpec`: the thread of `a_key_put` runs on and its
puts return.

## 4. Proofs

Each proof of an invariant has the same outline: an inductive invariant `IInv`, a lemma
that `Init` implies it, one lemma per action (or group of actions) that keeps it, and a
temporal step. TLC checked each `IInv` on the instance of the module's run before it was
proved.

| Module | Theorems | State |
|---|---|---|
| `NifAsyncProofs` | `TypeCorrect`, `AnswersAreOwn`, `MailIsExpected`, `CallbackDataIsOwned`, `EndsAreFinal`, `ImplementsPromise` | `TypeOK`, `OwnAnswer`, `MailIsFromOwnCall`, `CallbackDataHasOneHolder`, the action property `EndIsFinal`, `Spec => Abstract!SafeSpec` |
| `NifStatsProofs` | `TypeCorrect`, `CountersAreExact`, `PeaksWereReached` | `TypeOK`, `CountersExact`, `PeakWasReached` |
| `NifClientProofs` | `TypeCorrect`, `FlagIsTrue`, `DestroyedIsMarked`, `ClosedIsNotUsed` | `TypeOK`, `FlagFollowsCluster`, `DestroyedIsUninitialized`, `NoUseOfClosedClient` |
| `PortServerProofs` | `TypeCorrect`, `NoMixWithoutTimeout`, `NoAnswerTwice`, `ImplementsPromise` | `TypeOK`, `MixOnlyAfterTimeout`, `EachAnswerOnce`, `Spec => Promise!SafeSpec` |
| `PortPoolProofs` | `TypeCorrect`, `AbandonedIsSetAside`, `OneCallerPerMember`, `NoMixWithoutTimeout` | `TypeOK`, `AbandonedIsNotReused`, `OneCallAtATime`, `MixOnlyAfterTimeout` |
| `PortFramesProofs` | `TypeCorrect`, `CommandsInOrder`, `AnswersArriveInStep`, `EndMeansClosed`, `FramesAreAChannel` | `TypeOK`, `TakenInOrder`, `AnswersInStep`, `EndsOnlyWhenClosed`, `Spec => Channel!SafeSpec` |
| `CdtRecordProofs` | `TypeCorrect`, `RecordsReplayTheLog`, `EntriesStayWhole`, `ReadsStayPaired` | `TypeOK`, `StoredIsReplay`, `EntriesAreWhole`, `ReadsArePairs` |

### NifAsync

For any sets of processes and references; `SelectiveAssumption` (`Selective` is a set of
processes) and `NoProcAssumption` are all that is assumed. None of the invariants is
inductive alone. That a received answer is the reported one needs that messages say what
was reported; that messages belong to calls that may still expect one needs that the
callback runs once, hence who holds the `callback_data`; that a message for an exited
process goes nowhere needs that its calls are over. The invariant proved is

    IInv == TypeOK /\ Owned /\ DeadAreDone /\ OwnAnswer /\ MailIsFromOwnCall
              /\ CallbackDataHasOneHolder

where `Owned` says that a used reference has an owner and `DeadAreDone` that an exited
process has neither a pending call nor a mailbox. The refinement uses in addition that a
step changes at most one call, but for the exit of a process, and that a process has at
most one pending call (`OneCall`), so that an exit ends one call of the abstract
specification.

### NifStats

For any finite set of operations smaller than `Modulus` (`OpsAssumption`: no more than
2^32 - 1 operations at a time), any nodes (`NodesAssumption`: their names are their own),
positive numbers and times after the epoch (`NumbersAssumption`, `ClockAssumption`).

    IInv == TypeOK /\ (\A o \in Ops : Placed(o)) /\ CountersExact
              /\ HighIsHigh /\ PeakWasReached /\ SeenWasReached

`CountersExact` needs to know, when a `fetch_add` or `fetch_sub` is done, whether the
counter already counts this operation: `Placed` ties `held[o]` to the place of `o` in its
constructor or destructor, and says that nobody is counted on a node without an entry, so
that the double-checked creation of an entry loses nothing. `PeakWasReached` needs what
the value that was loaded before the comparison is worth when it is stored later
(`SeenWasReached`). The number of holders is a cardinality; the lemmas are that it grows
and shrinks by one.

### NifClient

For any set of workers.

    IInv == TypeOK /\ FlagFollowsCluster /\ DestroyedIsUninitialized /\ AtStep /\ Quiet

`AtStep` says what holds at each statement of the admin's calls, above all that every
call but `init_client` finds an initialised client. `Quiet` is what `quiesce` buys: from
the check of an operation to its end the cluster is open and no disconnect has begun.
`NoUseOfClosedClient` follows; without `quiesce` it is false, and nothing in the code
provides it.

### PortServer

For any calls and kinds of commands; `StatesAssumption` keeps the names of the server's
states apart from the calls.

    IInv == TypeOK /\ CrashLeavesNothing /\ OneTrace /\ FreshTrace /\ InStep /\ EachAnswerOnce

A call leaves one trace - its request, then its command, then its answer - and never two
(`OneTrace`); while there is one, nobody has been given its answer (`FreshTrace`): this is
why `EachAnswerOnce` survives timeouts, late answers and the reuse of a slot. `InStep` is
what a timeout breaks: until then all that is on its way belongs to the call that the
server waits for. `CrashLeavesNothing` makes it true again after a restart.

`ImplementsPromise` needs no more than `IInv`. One lemma per step gives the action of
`PortCall` it is: `RefinesCall` (`Start`), `RefinesTake` (`Reply`, or `Lose` when the
caller has gone), `RefinesEnd` (`GiveUp`, `GiveUpAnswer`, `Break`), and `RefinesServe`,
`RefinesExecute`, `RefinesLost` (`Lose`, which may lose
nothing, by `NothingOpens`). In `RefinesTake`, `OneTrace`
makes the call of the answer taken the only one that is closed, and `InStep` makes it the
call that is served as long as the server has not timed out.

### PortPool

For any members, callers and kinds; `NamesAssumption` keeps the names that stand for no
caller apart.

    IInv == TypeOK /\ HeldOnce /\ AbandonedIsNotReused
              /\ \A m \in Members : OneRequest(m) /\ InStep(m)

`HeldOnce`: a caller has one member at most. `OneRequest`: a member has one caller's
request at most, queued or served; it rests on `AbandonedIsNotReused`, since a member
that came back with a request of its last caller would get a second one. `InStep` is
stronger than for the server: the three commands of `aerospike_init` are told apart by
their step, and there is one command or answer at most.

### PortFrames

For any `Base` above 1, any commands that fit and are not empty, any answers, any room in
the pipe (`BaseAssumption`, `CommandsAssumption`, `AnswersAssumption`, `RoomAssumption`).

    IInv == TypeOK /\ TakenAreSent /\ Incoming /\ EndsOnlyWhenClosed
              /\ DeliveredAreAnswers /\ Outgoing /\ OneAnswerEach

The bytes that were ever written in a direction are one sequence, the frames of all its
messages (`Frames`, which also names where each frame ends). `Incoming` says that such a
sequence exists for the commands and that the buffer of `read_exact` and the pipe are
consecutive slices of it (`Slice`), beginning where the last command taken ends
(`Reading`); so the two bytes that `read_cmd` takes for a length are one, and never 0.
`Outgoing` is the same for the answers: driver, pipe and the three buffers of `write_cmd`
(`Following`, `Writing`), as long as no answer that does not fit was delivered, the
condition being about deliveries and not about answers written, because the answers before
that one still arrive whole. The facts used of bytes are that a length below
`Base * Base` is put together again from its two bytes (`LengthBytes`) and that slices can
be cut and joined (`SliceCut`, `SliceJoin`, `SliceMoves`).
`FramesAreAChannel` maps `HaveBody` to `Take`, and a delivery to `Deliver` or, after an
answer that did not fit, to `Garble` (`ChannelDelivers`); all reads and writes are stutters.

### CdtRecord

For any calls of the shapes that the NIFs take, their lists of any length and with any
items (`RequestsAssumption`), on any records and bins, with finitely many keys
(`KeysAssumption`: the keys of a map that a reader is given can be counted).

    IInv == TypeOK /\ Sent /\ StoredIsReplay

(`Inv /\ Replayed(asked, log, stored, life)` in the module, where the log is an argument.)
`Sent` says that no call is made whose arguments are refused or that has nothing to
write. The library's induction theorems
cannot be used, so induction over a list is had from the least element of a set of
numbers (`LeastNumber`, `Induction`): the positions at which a fact holds are a set that
has 0 and the successor of each of its members. `Recursion` gives with it a function for
each recursive definition; `Flattened`, `RunningIs` and `ReadingIs` are that for
`FlattenSeq`, `Running` and `Reading`. With these:

- `ListTells`: the operations made of a list mean for a cell what its last triple that
  names the cell says. Its induction carries `InStep` (after `i` items `opnum` is `i % 3`
  and the key is that of the triple being read, whether items were skipped or not) and
  `TellsBy` (the operations so far speak for the triples so far).
- `OperationsTell`: so do the operations of any call (`PutsTell`, `RemoveTells`,
  `BatchTells`, `WholeTells`), `Tell` being what a sequence of operations means for one
  cell and `IsLast` that a number is the last of a set.
- `RunningTells`: running them leaves in the cell what they mean.
- `WriterNext`, `LifeNext`: a log with one run more says what the shorter one said, or
  what this run's call means.

`EntriesStayWhole` needs nothing more: when all triples are whole, each call means the same
for the three fields of a key (`WholeMeaning`), so the log does. `ReadsStayPaired` has an
invariant of its own, `PairInv`: a key has no field, the bytes of `map_put`, or two fields
of `cdt_put` (`Fair`); it needs that the cluster rejects a field for a key that holds
plain bytes (`PutsFindNoBytes`). A list whose entries are such keys is in pairs for any
number of keys (`PairsOnly`).

### Only model-checked

Liveness, and with it that of `ImplementsAsyncCall` and `ImplementsPortCall` (every call
ends) and of `ImplementsChannel`: temporal reasoning under fairness is out of the prover's
reach. All properties of
`RecordCalls` (`AnswersAreTerms`, `ReadingsAgree`, `WholePutsAreAnswered` and the others):
terms are nested, so `EiTerms` has RECURSIVE operators, for which the provers have no
definition; this keeps `RecordCalls` and the modules it is made of with TLC. The
*violation* runs show what is false, and there is nothing to prove about them.

## 5. Not modelled

- `exit(1)` at a wrong protocol version, the functions' arity check and commands longer
  than the 1000 bytes of `main`'s buffer: they end the program or fail before a function
  is reached.
- Names, namespaces and keys longer than the buffers they are copied to; a stored key
  (`key.valuep`), which is dumped in place of bins but which nothing here asks the
  cluster to store; string bins, which nothing here writes.
- The texts of info answers, of values written as text and of messages, and their
  rendering (`as_render.erl`). `node_*`, `host_info` and `help` of the NIFs are uses of the
  cluster in `NifClient`; those of the port are shapes of answers in `RecordCalls`.
- `handle_cast`, which nothing calls, in server and worker, and the copy of each raw
  answer that `call_port` sends to the caller besides the reply.
- The pool library and the Aerospike client: external, modelled by how they are used.
- Two processes that connect or disconnect at the same time (`NifClient` has one): they
  race on every global, and nothing in the repository says what they may expect.
- `tsl.erl`, `utils.erl`, `aspike_tfuncs.erl`: helpers without state; `aspike_nif.erl`:
  stubs.

## 6. Plan

Done, in this order: `NifAsync` with `AsyncCall` and its proofs, `NifStats`, `NifClient`,
`PortServer`, `CdtRecord`; then `PortFrames` with `PortChannel`, `RecordCalls` with its
parts, `PortPool`; then the proofs about `NifClient`, `PortServer`, `PortPool`,
`NifStats`, `PortFrames` and `CdtRecord`. Then `PortCall` and the proof that
`PortServer` implements it. Every safety property that a run checks is proved, but those
of `RecordCalls`. Next:

1. The parts of `RecordCalls` that do not look into terms (`a_key_put` and its counter)
   in a module without recursion, and a proof that its loop ends within its bound.
