----------------------------- MODULE MCCdtRecord -----------------------------
(***************************************************************************)
(* The calls that CdtRecord is checked with: lists with whole triples, a   *)
(* repeated key, unusable values and ttls, and lists that end too early.   *)
(***************************************************************************)
EXTENDS CdtRecord

CONSTANTS r1, r2, b1, b2, k1, k2, int

MCItems == Keys \cup {int}

Put(mode, ttl, bins) == [op |-> "cdt_put", mode |-> mode, rec |-> r1, ttl |-> ttl, bins |-> bins]
Bin(b, list) == [name |-> b, list |-> list]

MCLists == {<<>>, <<k1, k2>>, <<k1, int, k2>>, <<k1, k2, k2>>,
            <<k1, k2, int, k1, int, int, k2>>}
TwoBins == <<Bin(b1, <<k1, k2, int>>), Bin(b2, <<k2, k1, int>>)>>

MCRequests ==
    {Put("async", 0, <<Bin(b1, list)>>) : list \in MCLists}
      \cup {Put(mode, 60, TwoBins) : mode \in {"sync", "async"}}
      \cup {Put(mode, 0, <<Bin(b1, <<k1, k2, int>>), BadBin>>) : mode \in {"sync", "async"}}
      \cup {Put("sync", 0, <<>>)}
      \cup {[op |-> "cdt_delete_by_keys", mode |-> "sync", rec |-> r1, bin |-> b1, keys |-> keys] :
              keys \in {<<k1>>, <<k1, int>>}}
      \cup {[op |-> "batch", mode |-> mode, bin |-> b1,
             deletes |-> <<[rec |-> r1, keys |-> <<k2>>], [rec |-> r2, keys |-> <<k1>>]>>] :
              mode \in {"sync", "async"}}
      \cup {[op |-> "map_put", rec |-> r1, bin |-> b1, ttl |-> 5, keys |-> {k1}],
            [op |-> "binary_remove", rec |-> r1, bins |-> <<b1, b2>>, ttl |-> 0],
            [op |-> "key_remove", rec |-> r1]}

=============================================================================
