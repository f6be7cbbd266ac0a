----------------------------- MODULE PortRecords -----------------------------
(***************************************************************************)
(* What the functions of the external program make of a command, token by  *)
(* token, and the tokens they answer with (aerocalls.c).  A command is     *)
(* [op, args], as in NifRecords; what is read are the tokens of its        *)
(* arguments.  A function answers (with tokens), calls the library, says   *)
(* nothing, or reads a variable that nothing has written: junk.            *)
(***************************************************************************)
EXTENDS Records

OkOf(tokens) == <<TupleHeader(2), Atom("ok")>> \o tokens
OkText       == OkOf(<<Literal("done")>>)
ErrorText    == <<TupleHeader(2), Atom("error"), Literal("message")>>
Header       == <<TupleHeader(2)>>    \* PRE, and nothing after it

Answers(tokens) == [does |-> "answer", tokens |-> tokens]
Calls(lib)      == [does |-> "call", call |-> lib]
Silent          == [does |-> "nothing"]
Failure         == Answers(ErrorText)

At(toks, p) == IF p \in DOMAIN toks THEN toks[p] ELSE <<"end">>

\* ei_decode_list_header, ei_decode_string and ei_decode_long
IsListToken(t)   == t[1] \in {"list_header", "nil"}
ListLength(t)    == IF t = Nil THEN 0 ELSE t[2]
IsStringToken(t) == t[1] \in {"string", "nil"}
Chars(t)         == IF t = Nil THEN <<>> ELSE CString(t[2])
IsPairToken(t)   == t = TupleHeader(2)

\* ei_decode_list_header at the end of a list, its result unused
SkipList(toks, p) == IF IsListToken(At(toks, p)) THEN p + 1 ELSE p

\* char is signed.
Signed(b) == IF b > 127 THEN b - 256 ELSE b

\* The arguments are read before the state of the program is looked at.
Guarded(accepted, linked, then) == IF accepted /\ linked THEN then ELSE Failure

-----------------------------------------------------------------------------
(* The functions with keys that are strings: tokens of fixed width *)

StringKey(toks) == IsStringToken(toks[1])

CallKeyRemove(toks, linked)     == Guarded(StringKey(toks), linked, Calls(KeyRemove))
CallKeyExists(toks, linked)     == Guarded(StringKey(toks), linked, Calls(KeyExists))
CallKeyGet(toks, linked)        == Guarded(StringKey(toks), linked, Calls(KeyGet))
CallKeyGeneration(toks, linked) == Guarded(StringKey(toks), linked, Calls(KeyGet))

StringKeyAndList(toks) == StringKey(toks) /\ IsListToken(toks[2])

NamedLongAt(toks, p) == /\ IsPairToken(At(toks, p))
                        /\ IsStringToken(At(toks, p + 1)) /\ IsLong(At(toks, p + 2))

\* The pairs of a list of n whose header is the second token, or the failure.
PairsThen(toks, n, Then(_)) ==
    IF n = 0 THEN Answers(OkText)
    ELSE IF \A i \in 1..n : NamedLongAt(toks, 3 * i)
    THEN Calls(Then([i \in 1..n |-> <<Chars(toks[3 * i + 1]), toks[3 * i + 2]>>]))
    ELSE Failure

CallKeyPut(toks, linked) ==
    Guarded(StringKeyAndList(toks), linked,
            PairsThen(toks, ListLength(toks[2]),
                      LAMBDA ps : Put(FoldLeft(LAMBDA w, q : With(w, q[1], q[2]), <<>>, ps), 0)))

\* Mutant: the values are put, as in the function above.
CallKeyIncPuts(toks, linked) == CallKeyPut(toks, linked)

CallKeyInc(toks, linked) ==
    Guarded(StringKeyAndList(toks), linked, PairsThen(toks, ListLength(toks[2]), Increment))

SelectNames(toks) == {Chars(toks[2 + i]) : i \in 1..ListLength(toks[2])}
CallKeySelect(toks, linked) ==
    Guarded(StringKeyAndList(toks), linked,
            IF ListLength(toks[2]) = 0 THEN Answers(OkOf(<<Nil>>))
            ELSE IF \A i \in 1..ListLength(toks[2]) : IsStringToken(At(toks, 2 + i))
            THEN Calls(KeySelect(SelectNames(toks)))
            ELSE Failure)

-----------------------------------------------------------------------------
(* binary_key_put: a loop with one index into the tokens *)

\* The integers that ei_decode_long gets out of n elements: it stays where it
\* fails.
LeadingInts(toks, p, n) ==
    SubSeq(toks, p, p - 1 + Max({0} \cup {k \in 1..n : \A i \in 0..k - 1 : IsLong(At(toks, p + i))}))

\* The value of a bin whose name is at p: what is stored, if anything, and
\* where the next token is.  A value of another type is not passed over.
ValueAt(toks, p) ==
    LET t == At(toks, p) IN
    CASE IsBinary(t) -> [value |-> <<"bytes", CString(t[2])>>, next |-> p + 1]
      [] IsInt(t)    -> [value |-> t, next |-> p + 1]
      [] t[1] = "list_header" ->
            LET ints == LeadingInts(toks, p + 1, t[2]) IN
            [value |-> <<"ints", [i \in DOMAIN ints |-> ints[i][2]]>>,
             next  |-> SkipList(toks, p + 1 + Len(ints))]
      [] t[1] = "string" ->
            [value |-> <<"ints", [i \in DOMAIN t[2] |-> Signed(t[2][i])]>>, next |-> p + 1]
      [] OTHER -> [value |-> <<"none">>, next |-> p]

\* One round of the loop.
BinRead(s, name, v) ==
    [s EXCEPT !.next = v.next,
              !.writes = IF v.value = <<"none">> THEN @ ELSE With(@, name, v.value)]
ReadBin(toks, s) ==
    IF s.failed \/ ~IsPairToken(At(toks, s.next)) \/ ~IsBinary(At(toks, s.next + 1))
    THEN [s EXCEPT !.failed = TRUE]
    ELSE BinRead(s, CString(toks[s.next + 1][2]), ValueAt(toks, s.next + 2))

\* After the loop the end of the list, and the ttl.
PutRead(toks, s) ==
    LET ttl == At(toks, SkipList(toks, s.next)) IN
    IF s.failed \/ ~IsLong(ttl) THEN Failure ELSE Calls(Put(s.writes, ttl[2]))

CallBinaryKeyPut(toks, linked) ==
    Guarded(IsBinary(toks[1]) /\ IsListToken(toks[2]), linked,
            PutRead(toks, FoldLeft(LAMBDA s, i : ReadBin(toks, s),
                                   [next |-> 3, writes |-> <<>>, failed |-> FALSE],
                                   [i \in 1..ListLength(toks[2]) |-> i])))
CallBinaryKeyGet(toks, linked) == Guarded(IsBinary(toks[1]), linked, Calls(KeyGet))

-----------------------------------------------------------------------------
(* cdt_put *)

\* get_fcaps: the triples up to the first token of a wrong type; the index
\* stays there, and only after the last triple is the end of the list read.
ReadTriple(toks, s) ==
    LET p == s.next IN
    IF s.stuck THEN s
    ELSE IF ~IsBinary(At(toks, p)) THEN [s EXCEPT !.stuck = TRUE]
    ELSE IF ~IsBinary(At(toks, p + 1)) THEN [s EXCEPT !.stuck = TRUE, !.next = p + 1]
    ELSE IF ~IsInt(At(toks, p + 2)) THEN [s EXCEPT !.stuck = TRUE, !.next = p + 2]
    ELSE [s EXCEPT !.next = p + 3,
                   !.triples = Append(@, <<CString(toks[p][2]), CString(toks[p + 1][2]),
                                           toks[p + 2]>>)]

\* Mutant: the end of the list is left for the next bin.
GetFcapsNoEnd(toks, n, s) ==
    FoldLeft(LAMBDA t, i : ReadTriple(toks, t), s, [i \in 1..(n \div 3) |-> i])

Passed(toks, s) == IF s.stuck THEN s ELSE [s EXCEPT !.next = SkipList(toks, @)]

GetFcaps(toks, n, s) ==
    Passed(toks, FoldLeft(LAMBDA t, i : ReadTriple(toks, t), s, [i \in 1..(n \div 3) |-> i]))

\* get_bins: the name of the bin is overwritten by each bin, the triples of
\* all bins are collected, and what get_fcaps returns is not looked at.  Where
\* there is no tuple its length is junk.
ReadCdtBin(toks, junk, s) ==
    LET t    == At(toks, s.next)
        p    == IF t[1] = "tuple_header" THEN s.next + 1 ELSE s.next
        size == IF t[1] = "tuple_header" THEN t[2] ELSE junk
        list == At(toks, p + 1)
    IN
    IF s.stuck THEN s
    ELSE IF size # 2 \/ ~IsBinary(At(toks, p)) THEN [s EXCEPT !.stuck = TRUE, !.next = p]
    ELSE IF list[1] # "list_header"
    THEN [s EXCEPT !.stuck = TRUE, !.next = p + 1, !.bin = CString(toks[p][2])]
    ELSE [GetFcaps(toks, list[2], [s EXCEPT !.next = p + 2, !.bin = CString(toks[p][2])])
            EXCEPT !.stuck = FALSE]

GetBins(toks, n, junk) ==
    Passed(toks, FoldLeft(LAMBDA t, i : ReadCdtBin(toks, junk, t),
                          [next |-> 3, bin |-> <<>>, triples |-> <<>>, stuck |-> FALSE],
                          [i \in 1..n |-> i]))

\* A policy: a tuple, of whatever length where there is none, and four integers.
PolicyAt(toks, p, junk) ==
    LET t == At(toks, p)
        q == IF t[1] = "tuple_header" THEN p + 1 ELSE p
    IN  /\ (IF t[1] = "tuple_header" THEN t[2] ELSE junk) = 4
        /\ \A i \in 0..3 : IsInt(At(toks, q + i))

WrittenAt == 1    \* the time of the write

Fields(triples) ==
    FoldLeft(LAMBDA m, t : With(m, t[1],
                 <<"fields", [value |-> Binary(t[2]), ttl |-> t[3], wt |-> Integer(WrittenAt)]>>),
             <<>>, triples)

\* Without an integer for the ttl the function returns before it has written
\* an answer; only then is the state of the program asked for.
CdtPutRead(toks, s, linked, junk) ==
    LET ttl == At(toks, s.next) IN
    IF ~IsInt(ttl) THEN Silent
    ELSE IF ~PolicyAt(toks, s.next + 1, junk) \/ ~linked THEN Failure
    ELSE Calls(MapPut(s.bin, Fields(s.triples), ttl[2]))

CallCdtPut(toks, linked, junk) ==
    IF ~IsBinary(toks[1]) \/ toks[2][1] # "list_header" THEN Failure
    ELSE CdtPutRead(toks, GetBins(toks, ListLength(toks[2]), junk), linked, junk)

CallCdtGet(toks, linked, junk) ==
    Guarded(IsBinary(toks[1]) /\ PolicyAt(toks, 2, junk), linked, Calls(KeyGet))

-----------------------------------------------------------------------------
(* Dispatch *)

\* The functions that are not written yet begin an answer and send that.
PortStubs == {"cdt_expire", "cdt_delete_by_keys", "cdt_delete_by_keys_batch", "binary_remove"}
Stub(linked) == Guarded(TRUE, linked, Answers(Header))

Function(c, toks, linked, junk) ==
    CASE c.op = "key_put"        -> CallKeyPut(toks, linked)
      [] c.op = "key_inc"        -> CallKeyInc(toks, linked)
      [] c.op = "key_select"     -> CallKeySelect(toks, linked)
      [] c.op = "key_remove"     -> CallKeyRemove(toks, linked)
      [] c.op = "key_exists"     -> CallKeyExists(toks, linked)
      [] c.op = "key_get"        -> CallKeyGet(toks, linked)
      [] c.op = "key_generation" -> CallKeyGeneration(toks, linked)
      [] c.op = "binary_key_put" -> CallBinaryKeyPut(toks, linked)
      [] c.op = "binary_key_get" -> CallBinaryKeyGet(toks, linked)
      [] c.op = "cdt_put"        -> CallCdtPut(toks, linked, junk)
      [] c.op = "cdt_get"        -> CallCdtGet(toks, linked, junk)
      [] c.op \in PortStubs      -> Stub(linked)

Command(c) == FlattenSeq([i \in DOMAIN c.args |-> Encode(c.args[i])])
Port(c, linked, junk) == Function(c, Command(c), linked, junk)

-----------------------------------------------------------------------------
(* Answers *)

\* Mutant: the end of the list is not written.
IntsOutNoEnd(s) == <<ListHeader(Len(s))>> \o [i \in DOMAIN s |-> Integer(s[i])]

\* ei_x_encode_list_header writes an empty list as a whole, and then the end
\* of the list is written again.
IntsOut(s) == <<ListHeader(Len(s))>> \o [i \in DOMAIN s |-> Integer(s[i])] \o <<Nil>>

\* Mutant: the key is counted as an element of the tuple.
EntryOutFour(k, f) ==
    <<Binary(k), TupleHeader(4), Field(f, "value", Atom("undefined")),
      Field(f, "ttl", Integer(0)), Field(f, "wt", Integer(0))>>

\* An entry with two fields may lack the value: the tuple then has two
\* elements, and a header that says three.
EntryOut(k, f) ==
    <<Binary(k)>> \o
    (IF Cardinality(DOMAIN f) \in {2, 3}
     THEN <<TupleHeader(3)>> \o (IF "value" \in DOMAIN f THEN <<f.value>> ELSE <<>>)
            \o <<Field(f, "ttl", Integer(0)), Field(f, "wt", Integer(0))>>
     ELSE <<Atom("undefined")>>)

MapOut(m) ==
    LET ks == KeysInOrder(m) IN
    <<ListHeader(2 * Len(ks))>> \o
    FlattenSeq([i \in DOMAIN ks |-> EntryOut(ks[i], m[ks[i]][2])]) \o <<Nil>>

\* dump_bin has integers only, dump_binary_bin no maps; both write the rest as
\* text.
DumpBin(v)        == IF IsLong(v) THEN <<v>> ELSE <<Literal("value as text")>>
DumpBinaryBin(v)  == CASE v[1] = "bytes" -> <<Binary(v[2])>>
                       [] v[1] = "ints"  -> IntsOut(v[2])
                       [] OTHER          -> DumpBin(v)
FormatValueOut(v) == IF v[1] = "map" THEN MapOut(v[2]) ELSE DumpBinaryBin(v)

Dump(r, order, Name(_), Value(_)) ==
    OkOf(<<ListHeader(Len(order))>> \o
         FlattenSeq([i \in DOMAIN order |->
                        <<TupleHeader(2), Name(order[i])>> \o Value(r.bins[order[i]])]) \o
         <<Nil>>)
DumpRecords(r, order)       == Dump(r, order, StringExt, DumpBin)
BinaryDumpRecords(r, order) == Dump(r, order, Binary, DumpBinaryBin)
DumpCdtRecords(r, order)    == Dump(r, order, Binary, FormatValueOut)

\* format_value_out takes every map for one of maps: a plain one ends the
\* program.
EndsProgram(c, r) ==
    c.op = "cdt_get" /\ \E n \in DOMAIN r.bins :
        /\ r.bins[n][1] = "map"
        /\ \E k \in DOMAIN r.bins[n][2] : r.bins[n][2][k][1] = "bytes"

Generation(r) == OkOf(<<MapHeader(2), Literal("gen"), Integer(1), Literal("ttl"), Integer(r.ttl)>>)

PortAnswer(c, ok, r, order) ==
    IF ~ok THEN ErrorText
    ELSE CASE c.op = "key_get"        -> DumpRecords(r, order)
           [] c.op = "key_select"     -> DumpRecords(r, Among(order, SelectNames(Command(c))))
           [] c.op = "binary_key_get" -> BinaryDumpRecords(r, order)
           [] c.op = "cdt_get"        -> DumpCdtRecords(r, order)
           [] c.op = "key_generation" -> Generation(r)
           [] OTHER                   -> OkText

-----------------------------------------------------------------------------
(* The functions that do not reach a record: what they may answer *)

\* The keys of the maps in the order they are written.
ConfigKeys == <<"user", "password", "number_of_hosts", "cluster_name", "ip_map_size",
    "min_conns_per_node", "max_conns_per_node", "async_min_conns_per_node",
    "async_max_conns_per_node", "pipe_max_conns_per_node", "conn_pools_per_node",
    "conn_timeout_ms", "login_timeout_ms", "max_socket_idle", "max_error_rate",
    "error_rate_window", "tender_interval", "thread_pool_size", "tend_thread_cpu",
    "fail_if_not_connected", "use_services_alternate", "rack_aware", "rack_id", "use_shm",
    "shm_key", "shm_max_nodes", "shm_max_namespaces", "shm_takeover_threshold_sec">>
PolicyKeys  == <<"timeout", "send_as_is", "check_bounds">>
ClusterKeys == <<"cluster_name", "user", "password", "nodes_number", "random_node_index",
                 "n_partitions">>

Pairs(ks) == FlattenSeq([i \in DOMAIN ks |-> <<Literal(ks[i]), Literal("value")>>])

When(state, answers) == IF state THEN answers ELSE {ErrorText}
OkOrError            == {OkText, ErrorText}
Some                 == {0, 1, 2}    \* how many hosts or nodes there are
ListOut(n, item)     == OkOf(<<ListHeader(n)>> \o FlattenSeq([i \in 1..n |-> item]) \o <<Nil>>)
OneText              == ListOut(1, <<Literal("info")>>)

ConfigInfo(ready) ==
    When(ready, {OkOf(<<MapHeader(29)>> \o Pairs(ConfigKeys) \o
                      <<Literal("policy_info"), MapHeader(3)>> \o Pairs(PolicyKeys))})
ClusterInfo(linked) == When(linked, {OkOf(<<MapHeader(6)>> \o Pairs(ClusterKeys))})
Truth(b)            == Atom(IF b THEN "true" ELSE "false")
PortStatus(ready, linked) ==
    {OkOf(<<MapHeader(2), Literal("is_aerospike_initialised"), Truth(ready),
            Literal("is_connected"), Truth(linked)>>)}
ConfigAddHosts(ready)   == When(ready, OkOrError)
ConfigClearHosts(ready) == When(ready, {OkText})
ConfigListHosts(ready) ==
    When(ready, {ListOut(n, <<TupleHeader(3), Literal("host"), Literal("tls"), Integer(3000)>>) :
                    n \in Some})
NodeRandom(linked) == When(linked, OkOrError)
NodeNames(linked) ==
    When(linked, {ListOut(n, <<TupleHeader(2), Literal("name"), Literal("address")>>) : n \in Some})
NodeGet(linked)  == When(linked, OkOrError)
NodeInfo(linked) == When(linked, {OneText, ErrorText})
HostInfo(linked) == When(linked, {OneText, ErrorText})
Help(linked)     == When(linked, OkOrError)
=============================================================================
