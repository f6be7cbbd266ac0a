------------------------------- MODULE Records -------------------------------
(***************************************************************************)
(* A record of the cluster and the calls of the client library that reach  *)
(* it: aerospike_key_put, _operate, _remove, _get, _exists and _select.    *)
(* The library and the cluster are external; what is here is what the two  *)
(* front ends of this repository, the NIFs and the port, ask of them.      *)
(***************************************************************************)
EXTENDS EiTerms, FiniteSets

CONSTANT DefaultTtl    \* the default-ttl of the namespace

\* The fields of an entry of a map: those it has, of value, ttl and wt.
Field(f, name, default) == IF name \in DOMAIN f THEN f[name] ELSE default

\* The values of a bin: an integer term, <<"bytes", s>>, <<"ints", s>>, or
\* <<"map", m>> with m from keys to <<"fields", f>>, the maps of cdt_put, or
\* to <<"bytes", s>>, the plain maps of map_put.
Removed == <<"nil">>   \* written to remove the bin

Absent    == [bins |-> <<>>, ttl |-> 0]
Exists(r) == DOMAIN r.bins # {}

Override(f, g) == [x \in DOMAIN f \cup DOMAIN g |-> IF x \in DOMAIN g THEN g[x] ELSE f[x]]
With(f, x, y)  == Override(f, [z \in {x} |-> y])

\* Mutant: the length of the binary is taken for that of the string.
CStringWhole(s) == s

\* A C string ends at the first zero byte.
CString(s) == LET zeros == {i \in DOMAIN s : s[i] = 0} IN
              IF zeros = {} THEN s ELSE SubSeq(s, 1, Min(zeros) - 1)

\* A time to live of 0 is the default.
Life(ttl) == IF ttl = 0 THEN DefaultTtl ELSE ttl

\* The calls of the library.
Put(writes, ttl)           == [call |-> "put", writes |-> writes, ttl |-> ttl]
Increment(adds)            == [call |-> "increment", adds |-> adds]
MapPut(bin, entries, ttl)  == [call |-> "map_put", bin |-> bin, entries |-> entries, ttl |-> ttl]
KeyRemove                  == [call |-> "remove"]
KeyGet                     == [call |-> "get"]
KeyExists                  == [call |-> "exists"]
KeySelect(names)           == [call |-> "select", names |-> names]

\* What the cluster refuses: it wants a bin to write, adds to integers only,
\* puts map items into maps of maps only, and finds only records that exist.
Applies(r, lib) ==
    CASE lib.call = "put"       -> DOMAIN lib.writes # {}
      [] lib.call = "increment" ->
            \A i \in DOMAIN lib.adds :
                lib.adds[i][1] \in DOMAIN r.bins => IsLong(r.bins[lib.adds[i][1]])
      [] lib.call = "map_put"   ->
            lib.bin \in DOMAIN r.bins =>
                /\ r.bins[lib.bin][1] = "map"
                /\ \A k \in DOMAIN r.bins[lib.bin][2] : r.bins[lib.bin][2][k][1] = "fields"
      [] OTHER                  -> Exists(r)

WithoutRemoved(bins) == [n \in {m \in DOMAIN bins : bins[m] # Removed} |-> bins[n]]

\* At most one of the two is big.
Plus(a, b) == <<IF "big" \in {a[1], b[1]} THEN "big" ELSE "int", a[2] + b[2]>>

Added(bins, add) ==
    With(bins, add[1], IF add[1] \in DOMAIN bins THEN Plus(bins[add[1]], add[2]) ELSE add[2])

\* The bins after a call that the cluster has run.
BinsAfter(r, lib) ==
    CASE lib.call = "put"       -> WithoutRemoved(Override(r.bins, lib.writes))
      [] lib.call = "increment" -> FoldLeft(Added, r.bins, lib.adds)
      [] lib.call = "map_put"   ->
            With(r.bins, lib.bin,
                 <<"map", Override(IF lib.bin \in DOMAIN r.bins THEN r.bins[lib.bin][2] ELSE <<>>,
                                   lib.entries)>>)
      [] lib.call = "remove"    -> <<>>
      [] OTHER                  -> r.bins

\* A record without bins is removed; a write sets the time to live.
RecordOf(bins, ttl) == IF DOMAIN bins = {} THEN Absent ELSE [bins |-> bins, ttl |-> ttl]

After(r, lib) ==
    IF lib.call = "map_put" /\ DOMAIN lib.entries = {} THEN r
    ELSE RecordOf(BinsAfter(r, lib),
                  CASE lib.call \in {"put", "map_put"} -> Life(lib.ttl)
                    [] lib.call = "increment"          -> DefaultTtl
                    [] OTHER                           -> r.ttl)

\* What a call may come to: it is run and acknowledged, it is refused or does
\* not reach the cluster, or it is run and the acknowledgement is lost.
Outcomes(r, lib) ==
    {[ok |-> FALSE, rec |-> r]} \cup
    (IF Applies(r, lib) THEN [ok : BOOLEAN, rec : {After(r, lib)}] ELSE {})

\* The bins of a reading, in the order the cluster sends them.
Orders(r)         == {s \in [1..Cardinality(DOMAIN r.bins) -> DOMAIN r.bins] : IsInjective(s)}
Among(s, names)   == SelectSeq(s, LAMBDA n : n \in names)
KeysInOrder(m)    == SetToSortSeq(DOMAIN m, LAMBDA a, b : a[1] < b[1])
=============================================================================
