--------------------------- MODULE MCRecordCalls ----------------------------
(* The calls: every kind of value, of list and of bad argument, alone and    *)
(* before or after an ordinary one.                                          *)
EXTENDS RecordCalls

B1 == <<1>>
B2 == <<2>>
Key == Binary(<<7>>)
KeyString == String(<<7>>)
Bin(b, v)  == Tuple(<<Binary(b), v>>)
Named(b, v) == Tuple(<<String(b), v>>)
c(op, args) == [op |-> op, args |-> args]

Values == {Binary(<<5>>), Binary(<<5, 0, 6>>), Integer(1), Big(2), Float, Atom("undefined"),
           String(<<>>), String(<<1, 200>>), List(<<Integer(300), Integer(2)>>),
           List(<<Integer(300), Atom("x"), Integer(2)>>), Tuple(<<Integer(1)>>)}

BinLists == {<<>>, <<Bin(<<1, 0, 9>>, Integer(1))>>, <<Integer(1)>>,
             <<Bin(B1, Binary(<<5>>)), Bin(B1, Integer(1))>>}
            \cup {<<Bin(B1, v)>> : v \in Values}
            \cup {<<Bin(B1, v), Bin(B2, Integer(1))>> : v \in Values}

NamedLists == {<<>>, <<Named(B1, Integer(1))>>, <<Named(B1, Float)>>,
               <<Named(<<1, 0, 9>>, Integer(1))>>,
               <<Named(B1, Integer(1)), Named(B2, Big(0))>>,
               <<Named(B1, Integer(1)), Bin(B2, Integer(1))>>}

\* The sum of two big integers would be a third kind of integer.
IncrementLists == NamedLists \ {<<Named(B1, Integer(1)), Named(B2, Big(0))>>}

Ttl == Integer(4)
Policy == Tuple(<<Integer(1), Integer(0), Integer(30), Integer(1)>>)

Reads == {c("key_get", <<KeyString>>), c("key_exists", <<KeyString>>),
          c("key_generation", <<KeyString>>), c("key_get", <<Key>>),
          c("key_remove", <<KeyString>>),
          c("key_select", <<KeyString, List(<<>>)>>),
          c("key_select", <<KeyString, List(<<String(B1)>>)>>),
          c("key_select", <<KeyString, List(<<String(B2), Atom("x")>>)>>),
          c("cdt_get", <<Key, Policy>>), c("cdt_expire", <<Key, Ttl>>)}

Both == Reads \cup {c("key_put", <<KeyString, List(l)>>) : l \in NamedLists}
              \cup {c("key_inc", <<KeyString, List(l)>>) : l \in IncrementLists}

PlainMap == <<"pairs", {<<Binary(<<3>>), Binary(<<5>>)>>, <<Atom(<<4>>), Binary(<<>>)>>}>>

MCNifCalls == Both \cup {c("binary_put", <<Key, List(l), Ttl>>) : l \in BinLists}
    \cup {c("binary_get", <<Key>>), c("segment_tag_get", <<Key, Binary(B1)>>),
          c("binary_put", <<KeyString, List(<<>>), Ttl>>),
          c("map_put", <<Key, Binary(B1), Ttl, PlainMap>>),
          c("map_put", <<Key, Binary(B1), Float, PlainMap>>),
          c("map_put", <<Key, Binary(B1), Ttl, <<"pairs", {<<Binary(<<3>>), Integer(1)>>}>>>>)}

V == Binary(<<5>>)
Triples == {<<Binary(<<3>>), V, Integer(1)>>, <<Binary(<<3>>), V, Big(1)>>,
            <<Binary(<<3>>), Integer(1), Integer(1)>>, <<Binary(<<3>>)>>, <<>>,
            <<Binary(<<3>>), V, Integer(1), Binary(<<4>>), V, Integer(2)>>,
            <<Binary(<<3>>), V, Integer(1), Binary(<<4>>)>>}
CdtBins == {<<>>, <<Integer(1)>>, <<Bin(B1, List(<<Binary(<<3>>), V, Integer(1)>>)),
                                    Bin(B2, List(<<Binary(<<4>>), V, Integer(2)>>))>>}
           \cup {<<Bin(B1, List(t))>> : t \in Triples}

MCPortCalls == Both \cup {c("binary_key_put", <<Key, List(l), Ttl>>) : l \in BinLists}
    \cup {c("cdt_put", <<Key, List(l), Ttl, Policy>>) : l \in CdtBins}
    \cup {c("binary_key_get", <<Key>>), c("binary_key_get", <<KeyString>>),
          c("cdt_put", <<Key, List(<<Bin(B1, List(<<Binary(<<3>>), V, Integer(1)>>))>>), Big(1),
                         Policy>>),
          c("cdt_put", <<Key, List(<<Bin(B1, List(<<Binary(<<3>>), V, Integer(1)>>))>>), Ttl,
                         Ttl>>),
          c("cdt_get", <<Key, Ttl>>)}

Whole == [value |-> V, ttl |-> Integer(1), wt |-> Integer(1)]
MCStoredMaps == {<<>>, [k \in {<<3>>} |-> <<"fields", [ttl |-> Integer(1), wt |-> Integer(1)]>>],
                 [k \in {<<3>>} |-> <<"fields", [wt |-> Integer(1)]>>],
                 [k \in {<<3>>, <<4>>} |-> <<"fields", Whole>>]}
MCMapBins == {B2}
MCRepeatedBin == B1
MCRepetitions == {-1, 0, 2, 5}
=============================================================================
