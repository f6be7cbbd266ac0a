------------------------------ MODULE CdtRecord ------------------------------
(***************************************************************************)
(* What the writing NIFs do to the records of the cluster.  A record has   *)
(* bins; a bin written by cdt_put is a map from keys to maps with the      *)
(* fields "value", "ttl" and "wt"; a bin written by map_put is a map from  *)
(* keys to plain bytes.  cdt_put reads a flat list [Key, Value, Ttl, ...]  *)
(* item by item into operations on one record (sync_methods.cpp,           *)
(* async_methods.cpp); cdt_get turns the maps into a flat list again       *)
(* (common_methods.cpp).  The cluster runs the operations of one command   *)
(* on one record atomically; the commands of concurrent calls reach it in  *)
(* any order, late, never, or twice when the library retries.              *)
(***************************************************************************)
EXTENDS Integers, SequencesExt, FiniteSetsExt

CONSTANTS Records, Bins, Keys,
          Items,      \* what a list may hold: binaries and anything else
          BadBin,     \* an element of a list of bins that is not {binary(), list()}
          Requests,   \* the calls that may be made
          MaxCalls,   \* bounds: calls,
          MaxRuns     \* and commands run, repetitions included

(***************************************************************************)
(* An item of a flat list is a binary (the names of keys serve as values   *)
(* too) or not.  Key positions hold binaries.                              *)
(***************************************************************************)
Fields == {"value", "ttl", "wt", "plain"}
Cells  == Bins \X Keys \X Fields
IsBinary(item) == item \in Keys

Modes == {"sync", "async"}
Lists == {list \in Seq(Items) : \A i \in 1..Len(list) : i % 3 = 1 => IsBinary(list[i])}
Calls == [op : {"cdt_put"}, mode : Modes, rec : Records, ttl : Int,
          bins : Seq([name : Bins, list : Lists] \cup {BadBin})]
    \cup [op : {"cdt_delete_by_keys"}, mode : Modes, rec : Records, bin : Bins, keys : Seq(Items)]
    \cup [op : {"batch"}, mode : Modes, bin : Bins,
          deletes : Seq([rec : Records, keys : Seq(Items)])]
    \cup [op : {"map_put"}, rec : Records, bin : Bins, ttl : Int, keys : SUBSET Keys]
    \cup [op : {"binary_remove"}, rec : Records, bins : Seq(Bins) \ {<<>>}, ttl : Int]
    \cup [op : {"key_remove"}, rec : Records]
ASSUME RequestsAssumption == Requests \subseteq Calls
ASSUME KeysAssumption == IsFiniteSet(Keys)

NoChange == -2       \* AS_RECORD_NO_CHANGE_TTL
BatchTtl == 1000     \* as->config.policies.batch_write.ttl
Default  == 0        \* the time to live a namespace gives
Nobody   == <<0, 0>> \* the writer of an absent cell

VARIABLES
    asked,    \* the calls made, in their order; a call is named by its position
    stored,   \* the cells of each record: which call, and which triple of its list, wrote them
    life,     \* the time to live of each record
    log       \* ghost: the commands that were run, in their order

vars == <<asked, stored, life, log>>

Made  == 1..Len(asked)
Lives == {Default, BatchTtl} \cup {q.ttl : q \in {p \in Requests : "ttl" \in DOMAIN p}}
TypeOK ==
    /\ asked \in Seq(Requests)
    /\ stored \in [Records -> [Cells -> {Nobody} \cup (Made \X Nat)]]
    /\ life \in [Records -> Lives]
    /\ log \in Seq(Made \X Records)

Init == /\ asked = <<>>
        /\ stored = [r \in Records |-> [c \in Cells |-> Nobody]]
        /\ life = [r \in Records |-> Default]
        /\ log = <<>>

-----------------------------------------------------------------------------
(* From a flat list to operations *)

\* An operation clears cells and sets others, for the triple i of the list.
Op(clear, set, i) == [clear |-> clear, set |-> set, triple |-> i]

Start == [opnum |-> 0, key |-> {}, triple |-> 1, ops |-> <<>>]
Puts(s, b, f) == Op({}, {b} \X s.key \X {f}, s.triple)

\* opnum says what the next item is: 0 a key, 1 its value, 2 its ttl, after
\* which the write time is put too.  A value that is no binary, or a ttl that
\* is no integer, is skipped.
Item(s, b, item) ==
    CASE s.opnum = 0 -> [s EXCEPT !.opnum = 1, !.key = {item}]
      [] s.opnum = 1 -> [s EXCEPT !.opnum = 2,
             !.ops = @ \o IF IsBinary(item) THEN <<Puts(s, b, "value")>> ELSE <<>>]
      [] s.opnum = 2 -> [s EXCEPT !.opnum = 0, !.triple = @ + 1,
             !.ops = @ \o (IF IsBinary(item) THEN <<>> ELSE <<Puts(s, b, "ttl")>>)
                       \o <<Puts(s, b, "wt")>>]

\* Where cdt_put is after each item.
Reading(bin) == LET state[i \in 0..Len(bin.list)] ==
                        IF i = 0 THEN Start ELSE Item(state[i - 1], bin.name, bin.list[i])
                IN  state
OpsOf(bin) == Reading(bin)[Len(bin.list)].ops

\* cdt_put_sync never advances its list: it reads the first bin again and
\* again, and starts the operations anew each time.
Read(q) == IF q.mode = "sync" THEN <<Head(q.bins)>> ELSE q.bins
PutOps(q) == FlattenSeq([j \in 1..Len(Read(q)) |-> OpsOf(Read(q)[j])])

\* Mutant: a remove that leaves ttl and write time behind.
RemoveValues(b, keys) == Op({b} \X ToSet(keys) \X {"value"}, {}, 0)

\* as_operations_add_map_remove_by_key_list
RemoveKeys(b, keys) == Op({b} \X ToSet(keys) \X Fields, {}, 0)

\* No operation is added when some key is no binary.
DeleteOps(q) == IF ToSet(q.keys) \subseteq Keys THEN <<RemoveKeys(q.bin, q.keys)>> ELSE <<>>

\* The batch about the record r: one remove for each time it is named.
BatchOps(q, r) == FlattenSeq([j \in DOMAIN q.deletes |->
    IF q.deletes[j].rec = r THEN <<RemoveKeys(q.bin, q.deletes[j].keys)>> ELSE <<>>])

\* map_put replaces the whole bin; binary_remove sets a bin to nil, and never
\* advances its list either; key_remove removes the record.
WholeBin(b) == {b} \X Keys \X Fields
MapOps(q)    == <<Op(WholeBin(q.bin), {q.bin} \X q.keys \X {"plain"}, 0)>>
NilOps(q)    == <<Op(WholeBin(Head(q.bins)), {}, 0)>>
RemoveOps    == <<Op(Cells, {}, 0)>>

-----------------------------------------------------------------------------
(* The calls *)

\* The call ends with badarg before anything is sent.
BadArg(q) == CASE q.op = "cdt_put" /\ q.bins # <<>> -> BadBin \in ToSet(Read(q))
               [] q.op = "batch" -> \E d \in ToSet(q.deletes) : ~(ToSet(d.keys) \subseteq Keys)
               [] OTHER -> FALSE

\* Nothing to write: {ok, "put"}.
Nothing(q) == q.op = "cdt_put" /\ q.bins = <<>>

Targets(q) == IF q.op = "batch" THEN {d.rec : d \in ToSet(q.deletes)} ELSE {q.rec}

\* What the call q asks the cluster to do to the record r.
Operations(q, r) ==
    CASE q.op = "cdt_put" -> PutOps(q)
      [] q.op = "cdt_delete_by_keys" -> DeleteOps(q)
      [] q.op = "batch" -> BatchOps(q, r)
      [] q.op = "map_put" -> MapOps(q)
      [] q.op = "binary_remove" -> NilOps(q)
      [] q.op = "key_remove" -> RemoveOps

\* The time to live it sends along; a removed record has none to keep.
Ttl(q) == CASE q.op = "cdt_put" -> IF q.ttl # 0 THEN q.ttl ELSE NoChange
            [] q.op = "cdt_delete_by_keys" -> NoChange
            [] q.op = "batch" -> IF q.mode = "sync" THEN BatchTtl ELSE NoChange
            [] q.op \in {"map_put", "binary_remove"} -> q.ttl
            [] q.op = "key_remove" -> Default

\* The call sends a command to each record it is about.
Submit(q) ==
    /\ Len(asked) < MaxCalls
    /\ ~Nothing(q) /\ ~BadArg(q)
    /\ asked' = Append(asked, q)
    /\ UNCHANGED <<stored, life, log>>

-----------------------------------------------------------------------------
(* The cluster *)

\* A key that map_put gave plain bytes is no map for the fields of cdt_put.
Accepts(r, ops) ==
    \A j \in 1..Len(ops) : \A c \in ops[j].set :
        c[3] # "plain" => stored[r][<<c[1], c[2], "plain">>] = Nobody

\* Mutant: AS_MAP_CREATE_ONLY for AS_MAP_UPDATE.
RunCreateOnly(cells, op, n) ==
    [c \in Cells |-> IF c \in op.set /\ cells[c] = Nobody THEN <<n, op.triple>>
                     ELSE IF c \in op.clear THEN Nobody ELSE cells[c]]

Run(cells, op, n) == [c \in Cells |-> IF c \in op.set THEN <<n, op.triple>>
                                      ELSE IF c \in op.clear THEN Nobody ELSE cells[c]]

\* What the operations have made of the cells, one after the other.
Running(cells, ops, n) == LET state[j \in 0..Len(ops)] ==
                                  IF j = 0 THEN cells ELSE Run(state[j - 1], ops[j], n)
                          IN  state

\* Mutant: "no change" is taken for a time to live.
LifeAsSent(old, ttl) == ttl

\* (A record that has lost its last bin is taken to stay.)
Life(old, ttl) == IF ttl = NoChange THEN old ELSE ttl

\* The command of call n on r is run, for the first time or once more.
Execute(n, r) ==
    /\ Len(log) < MaxRuns
    /\ r \in Targets(asked[n])
    /\ LET ops == Operations(asked[n], r) IN
       /\ ops # <<>> /\ Accepts(r, ops)
       /\ stored' = [stored EXCEPT ![r] = Running(@, ops, n)[Len(ops)]]
    /\ life' = [life EXCEPT ![r] = Life(@, Ttl(asked[n]))]
    /\ log' = Append(log, <<n, r>>)
    /\ UNCHANGED asked

Next == \/ \E q \in Requests : Submit(q)
        \/ \E n \in Made, r \in Records : Execute(n, r)

Spec == Init /\ [][Next]_vars

-----------------------------------------------------------------------------
(* cdt_get *)

EntryFields(r, b, k) == {f \in Fields : stored[r][<<b, k, f>>] # Nobody}

\* Mutant: only complete maps are shown.
EntryIfComplete(fields) ==
    IF fields = {} THEN <<>>
    ELSE <<"key">> \o IF fields = {"plain"} THEN <<"string">>
                      ELSE IF Cardinality(fields) = 3 THEN <<"tuple">> ELSE <<>>

\* An entry of the map: its key, then {Value, Ttl, WriteTime} if the inner map
\* has two or three fields, or the bytes of map_put as a string.
Entry(fields) ==
    IF fields = {} THEN <<>>
    ELSE <<"key">> \o IF fields = {"plain"} THEN <<"string">>
                      ELSE IF Cardinality(fields) \in {2, 3} THEN <<"tuple">> ELSE <<>>

FlatList(r, b) == LET keys == SetToSeq(Keys)
                  IN  FlattenSeq([j \in 1..Len(keys) |-> Entry(EntryFields(r, b, keys[j]))])

-----------------------------------------------------------------------------
(* Properties *)

\* What a list means: its i-th triple is items 3i - 2 to 3i.
Gives(list, i) == {f \in {"value", "ttl", "wt"} :
    CASE f = "value" -> 3 * i - 1 <= Len(list) /\ IsBinary(list[3 * i - 1])
      [] f = "ttl" -> 3 * i <= Len(list) /\ ~IsBinary(list[3 * i])
      [] f = "wt" -> 3 * i <= Len(list)}
Triples(list) == {i \in 1..Len(list) : 3 * i - 2 <= Len(list)}

WritersIn(list, c) == {i \in Triples(list) : list[3 * i - 2] = c[2] /\ c[3] \in Gives(list, i)}

\* The triples of the call q that write a cell (those of the last bin that has
\* some), and whether q clears it.
WritingBins(q, c) == {j \in DOMAIN Read(q) :
                        Read(q)[j].name = c[1] /\ WritersIn(Read(q)[j].list, c) # {}}
Writers(q, c) ==
    CASE q.op = "cdt_put" -> IF WritingBins(q, c) = {} THEN {}
                             ELSE WritersIn(Read(q)[Max(WritingBins(q, c))].list, c)
      [] q.op = "map_put" -> IF c[1] = q.bin /\ c[2] \in q.keys /\ c[3] = "plain" THEN {0} ELSE {}
      [] OTHER -> {}
Clears(q, r, c) ==
    CASE q.op = "cdt_delete_by_keys" -> c[1] = q.bin /\ c[2] \in ToSet(q.keys)
      [] q.op = "batch" -> c[1] = q.bin /\ \E d \in ToSet(q.deletes) :
                                             d.rec = r /\ c[2] \in ToSet(d.keys)
      [] q.op = "map_put" -> c[1] = q.bin
      [] q.op = "binary_remove" -> c[1] = Head(q.bins)
      [] q.op = "key_remove" -> TRUE
      [] OTHER -> FALSE

On(r) == {j \in DOMAIN log : log[j][2] = r}
Request(j) == asked[log[j][1]]

\* What each call means for each cell of a record: the triple that writes it,
\* "clear", or nothing.
Meaning == [q \in Requests |-> [r \in Records |-> [c \in Cells |->
    IF Writers(q, c) # {} THEN {Max(Writers(q, c))} ELSE IF Clears(q, r, c) THEN {-1} ELSE {}]]]

\* The element of a set with one element
Only(set) == CHOOSE x \in set : TRUE

\* A record is what the calls that reached it say, in the order in which they
\* reached it: a cell holds what the last triple of the last call that names
\* it gave, and the time to live is the last one sent.  In particular a list
\* is never read out of step with its triples, and a delete by keys and an
\* asynchronous batch leave the time to live alone.
LastWriter(r, c) ==
    LET touch == {j \in On(r) : Meaning[Request(j)][r][c] # {}}
        last  == Max(touch)
        i     == Only(Meaning[Request(last)][r][c])
    IN  IF touch = {} THEN Nobody ELSE IF i = -1 THEN Nobody ELSE <<log[last][1], i>>
LastLife(r) ==
    LET sets == {j \in On(r) : Ttl(Request(j)) # NoChange}
    IN  IF sets = {} THEN Default ELSE Ttl(Request(Max(sets)))
StoredIsReplay == \A r \in Records : /\ \A c \in Cells : stored[r][c] = LastWriter(r, c)
                                     /\ life[r] = LastLife(r)

\* A call that puts something else than whole triples somewhere.
PutsOnly(q, sizes) == q.op = "cdt_put" =>
    \A bin \in ToSet(Read(q)) : \A i \in Triples(bin.list) :
        Cardinality(Gives(bin.list, i)) \in sizes
LogPutsOnly(sizes) == \A j \in DOMAIN log : PutsOnly(Request(j), sizes)

\* As long as every list consists of whole triples, a reader never finds an
\* entry with the value of one put and the ttl or write time of another, nor
\* an entry with fields missing, however puts and deletes overtake each other.
EntriesAreWhole ==
    LogPutsOnly({3}) =>
        \A r \in Records, b \in Bins, k \in Keys :
            LET fields == EntryFields(r, b, k) \ {"plain"}
            IN  /\ fields \in {{}, {"value", "ttl", "wt"}}
                /\ Cardinality({stored[r][<<b, k, f>>] : f \in fields}) <= 1

\* "flat list [Key, {Value, TTL, WriteTime}, ...]" (aspike_nif_eunit_test.erl):
\* what cdt_get returns for a bin is in pairs, unless a put gave a key just one
\* field (a list that ends after a value, or both value and ttl unusable).
ReadsArePairs ==
    LogPutsOnly({0, 2, 3}) =>
        \A r \in Records, b \in Bins :
            LET list == FlatList(r, b)
            IN  /\ Len(list) % 2 = 0
                /\ \A j \in DOMAIN list : (list[j] = "key") <=> (j % 2 = 1)

\* The stress test (aspike_nif_stress_test.erl) puts two bins with one call and
\* expects to read both: a call that has reached the cluster last has written
\* every triple of every bin it was given.
EveryBinIsStored ==
    \A r \in Records : On(r) # {} =>
        LET n == log[Max(On(r))][1] IN
        asked[n].op = "cdt_put" =>
            \A bin \in ToSet(asked[n].bins) : bin # BadBin =>
                \A i \in Triples(bin.list) : Gives(bin.list, i) # {} =>
                    \E f \in Fields : stored[r][<<bin.name, bin.list[3 * i - 2], f>>][1] = n
=============================================================================
