----------------------------- MODULE RecordCalls -----------------------------
(***************************************************************************)
(* One record and the two ways to it: the synchronous NIFs and the         *)
(* functions of the port's external program.  A call is translated into a  *)
(* call of the client library (NifRecords, PortRecords), which does or     *)
(* does not reach the record and does or does not say so (Records), and    *)
(* its answer is made of what came back.  a_key_put writes in a loop, the  *)
(* record and the flag changing meanwhile.                                 *)
(***************************************************************************)
EXTENDS PortRecords

N == INSTANCE NifRecords

CONSTANTS NifCalls, PortCalls,    \* the calls to be made: sets of [op, args]
          StoredMaps,             \* maps that cdt_put and the deletes leave (CdtRecord)
          MapBins,                \* and the bins they are in
          RepeatedBin,            \* the bin of a_key_put
          Repetitions,            \* the arguments n of a_key_put
          Counter,                \* the values of its uint i, 2^32
          Junk,                   \* what an unset variable may hold
          MaxValue                \* bound: integers stay below

ASSUME CounterAssumption == Counter \in Nat /\ Counter > 1
ASSUME RepetitionsAssumption == Repetitions \subseteq Int

VARIABLES
    rec,        \* the record: its bins and its time to live
    connected,  \* is_connected_flag of the NIFs
    program,    \* the external program: "new", "ready", "linked" or "ended"
    repeat,     \* a_key_put: [n, i], the repetitions asked for and made
    vm,         \* the Erlang VM: "up" or "down"
    last        \* the call that was just made, with its answer

vars == <<rec, connected, program, repeat, vm, last>>

NoCall   == [via |-> "nobody", op |-> "none", args |-> <<>>, answer |-> <<>>]
NoRepeat == [n |-> 0, i |-> -1]
Made(via, c, answer) == [via |-> via, op |-> c.op, args |-> c.args, answer |-> answer]

\* The value of a_key_put.
RepeatedValue == Integer(1)

TypeOK ==
    /\ DOMAIN rec = {"bins", "ttl"} /\ rec.ttl \in Nat /\ (rec.ttl = 0) = ~Exists(rec)
    /\ \A n \in DOMAIN rec.bins :
            /\ 0 \notin {n[i] : i \in DOMAIN n}
            /\ rec.bins[n][1] \in {"int", "big", "bytes", "ints", "map"}
    /\ connected \in BOOLEAN
    /\ program \in {"new", "ready", "linked", "ended"}
    /\ repeat.i \in -1..Counter - 1
    /\ vm \in {"up", "down"}
    /\ last.via \in {"nobody", "nif", "port"}

Init == /\ rec = Absent /\ connected = FALSE /\ program = "new"
        /\ repeat = NoRepeat /\ vm = "up" /\ last = NoCall

-----------------------------------------------------------------------------
(* Calls *)

Small(r) == \A n \in DOMAIN r.bins :
                IsLong(r.bins[n]) => r.bins[n][2] \in -MaxValue..MaxValue

\* Bound: a call is made when the answer to the one before has been read, and
\* not while a_key_put is in its loop.
Idle == vm = "up" /\ last = NoCall /\ repeat = NoRepeat

CallNif(c) ==
    /\ Idle
    /\ \E junk \in Junk : \E nif \in {N!Nif(c, connected, junk)} :
       \/ /\ ~nif.lib
          /\ last' = Made("nif", c, nif.answer)
          /\ UNCHANGED rec
       \/ /\ nif.lib
          /\ \E out \in Outcomes(rec, nif.call) :
                /\ Small(out.rec)
                /\ rec' = out.rec
                /\ \E order \in Orders(out.rec) :
                        last' = Made("nif", c, N!NifAnswer(c, out.ok, out.rec, order))
    /\ UNCHANGED <<connected, program, repeat, vm>>

CallPort(c) ==
    /\ Idle /\ program # "ended"
    /\ \E junk \in Junk : \E port \in {Port(c, program = "linked", junk)} :
       \/ /\ port.does # "call"
          /\ last' = Made("port", c, IF port.does = "answer" THEN port.tokens ELSE <<>>)
          /\ UNCHANGED <<rec, program>>
       \/ /\ port.does = "call"
          /\ \E out \in Outcomes(rec, port.call) :
                /\ Small(out.rec)
                /\ rec' = out.rec
                /\ IF out.ok /\ EndsProgram(c, out.rec)
                   THEN program' = "ended" /\ last' = NoCall
                   ELSE /\ \E order \in Orders(out.rec) :
                                last' = Made("port", c, PortAnswer(c, out.ok, out.rec, order))
                        /\ UNCHANGED program
    /\ UNCHANGED <<connected, repeat, vm>>

\* The functions that do not reach the record: op is the name of one, and
\* what follows are its possible answers.
InfoAnswers(op) ==
    LET ready == program # "new"  linked == program = "linked" IN
    CASE op = "config_info"        -> ConfigInfo(ready)
      [] op = "cluster_info"       -> ClusterInfo(linked)
      [] op = "port_status"        -> PortStatus(ready, linked)
      [] op = "config_add_hosts"   -> ConfigAddHosts(ready)
      [] op = "config_clear_hosts" -> ConfigClearHosts(ready)
      [] op = "config_list_hosts"  -> ConfigListHosts(ready)
      [] op = "node_random"        -> NodeRandom(linked)
      [] op = "node_names"         -> NodeNames(linked)
      [] op = "node_get"           -> NodeGet(linked)
      [] op = "node_info"          -> NodeInfo(linked)
      [] op = "host_info"          -> HostInfo(linked)
      [] op = "help"               -> Help(linked)

InfoOps == {"config_info", "cluster_info", "port_status", "config_add_hosts",
            "config_clear_hosts", "config_list_hosts", "node_random", "node_names",
            "node_get", "node_info", "host_info", "help"}
Without(op) == [op |-> op, args |-> <<>>]

PortInfo ==
    /\ Idle /\ program # "ended"
    /\ \E op \in InfoOps : \E answer \in InfoAnswers(op) :
            last' = Made("port", Without(op), answer)
    /\ UNCHANGED <<rec, connected, program, repeat, vm>>

AerospikeInit ==
    /\ Idle /\ program # "ended"
    /\ program' = IF program = "new" THEN "ready" ELSE program
    /\ last' = Made("port", Without("aerospike_init"), OkText)
    /\ UNCHANGED <<rec, connected, repeat, vm>>

\* connect and anon_connect, whose failure unlinks.
Connect ==
    /\ Idle /\ program # "ended"
    /\ \/ /\ program # "new" /\ program' = "linked"
          /\ last' = Made("port", Without("connect"), OkText)
       \/ /\ program' = IF program = "linked" THEN "ready" ELSE program
          /\ last' = Made("port", Without("connect"), ErrorText)
    /\ UNCHANGED <<rec, connected, repeat, vm>>

Return == /\ last # NoCall /\ last' = NoCall
          /\ UNCHANGED <<rec, connected, program, repeat, vm>>

-----------------------------------------------------------------------------
(* a_key_put *)

RepeatStart(n) ==
    /\ Idle /\ connected
    /\ repeat' = [n |-> n, i |-> 0]
    /\ UNCHANGED <<rec, connected, program, vm, last>>

Repeating == vm = "up" /\ repeat # NoRepeat

\* Mutant: a put that fails is made again.
RepeatPutRetries ==
    /\ Repeating /\ repeat.i < repeat.n
    /\ \E out \in Outcomes(rec, Put([b \in {RepeatedBin} |-> RepeatedValue], 0)) :
            /\ rec' = out.rec
            /\ repeat' = IF out.ok THEN [repeat EXCEPT !.i = (@ + 1) % Counter] ELSE repeat
    /\ UNCHANGED <<connected, program, vm, last>>

\* aerospike_key_put, and i++, which wraps; the first failure returns.
RepeatPut ==
    /\ Repeating /\ repeat.i < repeat.n
    /\ \E out \in Outcomes(rec, Put([b \in {RepeatedBin} |-> RepeatedValue], 0)) :
            /\ rec' = out.rec
            /\ repeat' = IF out.ok THEN [repeat EXCEPT !.i = (@ + 1) % Counter] ELSE NoRepeat
    /\ UNCHANGED <<connected, program, vm, last>>

\* The times are divided by n.
RepeatEnd ==
    /\ Repeating /\ repeat.i >= repeat.n
    /\ vm' = IF repeat.n = 0 THEN "down" ELSE "up"
    /\ repeat' = NoRepeat
    /\ UNCHANGED <<rec, connected, program, last>>

-----------------------------------------------------------------------------
(* The environment *)

\* connect and disconnect of the NIFs (NifClient).
Switch == /\ vm = "up" /\ last = NoCall /\ connected' = ~connected
          /\ UNCHANGED <<rec, program, repeat, vm, last>>

\* The server starts a new program (PortServer).
Restart == /\ vm = "up" /\ last = NoCall /\ program = "ended" /\ program' = "new"
           /\ UNCHANGED <<rec, connected, repeat, vm, last>>

\* cdt_put and the deletes of the NIFs (CdtRecord).
StoreMap ==
    /\ vm = "up" /\ last = NoCall
    /\ \E n \in MapBins, m \in StoredMaps :
            rec' = [bins |-> With(rec.bins, n, <<"map", m>>), ttl |-> DefaultTtl]
    /\ UNCHANGED <<connected, program, repeat, vm, last>>

\* The record expires.
Expire == /\ vm = "up" /\ last = NoCall /\ Exists(rec)
          /\ rec' = Absent /\ UNCHANGED <<connected, program, repeat, vm, last>>

Next == \/ \E c \in NifCalls : CallNif(c)
        \/ \E c \in PortCalls : CallPort(c)
        \/ PortInfo \/ AerospikeInit \/ Connect \/ Return
        \/ \E n \in Repetitions : RepeatStart(n)
        \/ RepeatPut \/ RepeatEnd
        \/ Switch \/ Restart \/ StoreMap \/ Expire

Spec == Init /\ [][Next]_vars

\* The loop of a_key_put runs on its thread; its puts return.
FairSpec == Spec /\ WF_vars(RepeatPut) /\ WF_vars(RepeatEnd)

-----------------------------------------------------------------------------
(* Properties *)

Answered(l) == IF l.via = "port" THEN BinaryToTerm(l.answer) ELSE l.answer
IsOk(l)     == LET t == Answered(l) IN t[1] = "tuple" /\ t[2][1] = Atom("ok")

FieldSets(m) == {DOMAIN m[k][2] : k \in {j \in DOMAIN m : m[j][1] = "fields"}}
MapsOf(r)    == {r.bins[n][2] : n \in {b \in DOMAIN r.bins : r.bins[b][1] = "map"}}

\* The reads of a record that has an empty list or map next to another bin:
\* the list is ended twice, and the bin after it is read out of step.
ReadsEmptyBesideOther(op, r) ==
    \E n \in DOMAIN r.bins :
        /\ DOMAIN r.bins # {n}
        /\ \/ op \in {"binary_key_get", "cdt_get"} /\ r.bins[n] = <<"ints", <<>>>>
           \/ op = "cdt_get" /\ r.bins[n] = <<"map", <<>>>>

\* What the program answers is one whole Erlang term, {ok, _} or {error, _} with
\* proper lists, for every order of the bins: the headers of its tuples, lists
\* and maps count what follows them, no end of a list is missing, and nothing
\* is left over, so that the server's binary_to_term neither crashes nor cuts
\* the answer off.  Three answers that are known to be wrong are left out: the
\* stubs; cdt_get of an entry with a ttl and a write time but no value; and a
\* read of an empty list or map next to another bin.
IsReply(t) == IsPair(t) /\ t[2][1] \in {Atom("ok"), Atom("error")}
AnswersAreTerms ==
    last.via = "port" /\ last.answer # <<>> =>
        \/ IsWhole(last.answer) /\ IsReply(BinaryToTerm(last.answer))
        \/ last.op \in PortStubs
        \/ last.op = "cdt_get" /\ \E m \in MapsOf(rec) : {"ttl", "wt"} \in FieldSets(m)
        \/ ReadsEmptyBesideOther(last.op, rec)

\* The records both front ends can write alike: no plain maps, entries that are
\* complete, and an empty list or map only in the only bin.
ReadAlike(op, r) ==
    /\ \A n \in DOMAIN r.bins :
            /\ op \in {"key_get", "key_select"} => IsLong(r.bins[n])
            /\ op = "binary_key_get" => r.bins[n][1] # "map"
            /\ r.bins[n][1] \in {"ints", "map"} /\ DOMAIN r.bins[n][2] = {} =>
                    DOMAIN r.bins = {n}
    /\ \A m \in MapsOf(r) : FieldSets(m) \subseteq {{"value", "ttl", "wt"}}

NifOp(op) == IF op = "binary_key_get" THEN "binary_get" ELSE op

\* What the program answers to a read is what the NIF would answer, but for the
\* order of the bins: the one builds a term and the other writes it in pieces.
ReadingsAgree ==
    /\ last.via = "port" /\ last.op \in {"key_get", "key_select", "binary_key_get", "cdt_get"}
    /\ last.answer # ErrorText /\ ReadAlike(last.op, rec)
    /\ last.op = "key_select" => last.args[2] # List(<<>>)
    => \E order \in Orders(rec) :
            BinaryToTerm(last.answer) =
                N!NifAnswer([op |-> NifOp(last.op), args |-> last.args], TRUE, rec, order)

\* What the arguments of a call say is to be written.
Wanted(v) == CASE IsBinary(v) -> <<"bytes", v[2]>>
               [] IsList(v)   -> <<"ints", Bytes(v)>>
               [] IsAtom(v)   -> Removed
               [] OTHER       -> v
Name(t)   == IF IsBinary(t) THEN t[2] ELSE Bytes(t)
WantedBins(t) == FoldLeft(LAMBDA w, p : With(w, Name(p[2][1]), Wanted(p[2][2])), <<>>, t[2])
WantedEntries(t) ==
    [k \in {t[2][3 * i - 2][2] : i \in 1..(Len(t[2]) \div 3)} |->
        LET i == Max({j \in 1..(Len(t[2]) \div 3) : t[2][3 * j - 2][2] = k}) IN
        <<"fields", [value |-> t[2][3 * i - 1], ttl |-> t[2][3 * i],
                     wt |-> Integer(WrittenAt)]>>]

Meant(c) ==
    CASE c.op \in {"binary_put", "binary_key_put"} -> Put(WantedBins(c.args[2]), c.args[3][2])
      [] c.op = "key_put" -> Put(WantedBins(c.args[2]), 0)
      [] c.op = "key_inc" ->
            Increment([i \in DOMAIN c.args[2][2] |->
                        <<Name(c.args[2][2][i][2][1]), c.args[2][2][i][2][2]>>])
      [] c.op = "cdt_put" ->
            MapPut(c.args[2][2][1][2][1][2], WantedEntries(c.args[2][2][1][2][2]), c.args[3][2])
      [] c.op = "key_remove" -> KeyRemove
      [] OTHER -> KeyGet      \* the reads write nothing

\* The arguments whose values both the code and the external term format carry
\* over whole: see the hazards for the others.
HasZero(s)   == \E i \in DOMAIN s : s[i] = 0
Plain(via, v) ==
    IF IsList(v) THEN \A i \in DOMAIN v[2] :
                        /\ IsInt(v[2][i])
                        /\ via = "port" /\ IsString(v) => v[2][i][2] < 128
    ELSE v # Float /\ (via = "port" => v[1] # "big" /\ ~(IsBinary(v) /\ HasZero(v[2])))
Ordinary(c) ==
    CASE c.op \in {"binary_put", "binary_key_put", "key_put", "key_inc"} ->
            \A i \in DOMAIN c.args[2][2] :
                /\ ~HasZero(Name(c.args[2][2][i][2][1]))
                /\ c.op \in {"binary_put", "binary_key_put"} =>
                        Plain(c.via, c.args[2][2][i][2][2])
      [] c.op = "cdt_put" -> /\ Len(c.args[2][2]) = 1
                             /\ Len(c.args[2][2][1][2][2][2]) % 3 = 0
                             /\ \A i \in DOMAIN c.args[2][2][1][2][2][2] :
                                    Plain(c.via, c.args[2][2][1][2][2][2][i])
      [] c.op = "map_put" -> FALSE
      [] OTHER -> TRUE

AsksNothing(c) == Len(c.args) > 1 /\ c.args[2] = List(<<>>)

\* A write that is answered with ok has done what its arguments say, all of it
\* and nothing else, and a read changes nothing: no value is taken for the next
\* one, no bin skipped and none left over in the loops over the lists.
Exact ==
    last = NoCall /\ last'.via # "nobody" /\ IsOk(last') /\ Ordinary(last')
        => rec' = (IF AsksNothing(last') THEN rec ELSE After(rec, Meant(last')))
WritesAreExact == [][Exact]_vars

\* The program keeps silent only to a cdt_put whose bins or ttl are not what
\* they should be; after any other command the server gets its answer.
WholeBins(t) == /\ IsList(t) /\ t[2] # <<>>
                /\ \A i \in DOMAIN t[2] :
                     /\ IsPair(t[2][i]) /\ IsBinary(t[2][i][2][1])
                     /\ LET l == t[2][i][2][2] IN
                        /\ IsList(l) /\ l[2] # <<>> /\ Len(l[2]) % 3 = 0
                        /\ \A j \in DOMAIN l[2] : IF j % 3 = 0 THEN IsInt(l[2][j])
                                                   ELSE IsBinary(l[2][j])
WholePutsAreAnswered ==
    last.via = "port" /\ last.answer = <<>> =>
        last.op = "cdt_put" /\ ~(WholeBins(last.args[2]) /\ IsInt(last.args[3]))

\* a_key_put returns and leaves the VM running, whatever its puts come to, for
\* every number of repetitions but two kinds, which are left out because the
\* code fails for them: for 0 it divides by zero and ends the VM, and a number
\* its counter cannot reach is never reached.
RepeatedPutEnds ==
    (repeat # NoRepeat /\ repeat.n # 0 /\ repeat.n < Counter)
        ~> (repeat = NoRepeat /\ vm = "up")
=============================================================================
