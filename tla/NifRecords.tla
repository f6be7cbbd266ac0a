----------------------------- MODULE NifRecords ------------------------------
(***************************************************************************)
(* What the synchronous NIFs that read and write plain bins make of their  *)
(* arguments, and what they answer (sync_methods.cpp, common_methods.cpp). *)
(* A call is [op, args]; namespace, set and key are one argument, a binary *)
(* or a string.  cdt_put and the deletes are in CdtRecord, the flag        *)
(* is_connected in NifClient.                                              *)
(***************************************************************************)
EXTENDS Records

BadArg    == Atom("badarg")    \* the exception
Ok(t)     == Tuple(<<Atom("ok"), t>>)
Error     == Tuple(<<Atom("error"), Literal("message")>>)

\* A NIF answers at once or calls the library.
Answer(t) == [lib |-> FALSE, answer |-> t]
Call(lib) == [lib |-> TRUE, call |-> lib]

-----------------------------------------------------------------------------
(* Arguments *)

\* binary_put: a float is a number and no integer, and is skipped; of a list
\* the integers are taken; an atom removes the bin.
Writable(v) == IsBinary(v) \/ v[1] \in {"int", "big", "float"} \/ IsAtom(v) \/ IsList(v)
PutValue(v) ==
    CASE IsBinary(v) -> <<"bytes", v[2]>>
      [] IsLong(v)   -> v
      [] IsAtom(v)   -> Removed
      [] OTHER       -> <<"ints", Bytes(List(SelectSeq(v[2], IsLong)))>>
PutBin(writes, pair) ==
    IF pair[2][2] = Float THEN writes
    ELSE With(writes, CString(pair[2][1][2]), PutValue(pair[2][2]))

BinaryPut(bins, ttl) ==
    IF \A i \in DOMAIN bins : /\ IsPair(bins[i]) /\ IsBinary(bins[i][2][1])
                              /\ Writable(bins[i][2][2])
    THEN Call(Put(FoldLeft(PutBin, <<>>, bins), ttl[2]))
    ELSE Answer(BadArg)

\* Every NIF asks first for arguments of the right kinds, then for the flag.
Guarded(accepted, connected, then) ==
    IF ~accepted THEN Answer(BadArg) ELSE IF ~connected THEN Answer(Error) ELSE then

\* key_put and key_inc take strings and integers; with an empty list nothing
\* is sent.
NamedLong(t) == IsPair(t) /\ IsString(t[2][1]) /\ IsLong(t[2][2])
PairsThen(pairs, Then(_)) ==
    IF pairs = <<>> THEN Answer(Ok(Literal("done")))
    ELSE IF \A i \in DOMAIN pairs : NamedLong(pairs[i])
    THEN Call(Then([i \in DOMAIN pairs |-> <<CString(Bytes(pairs[i][2][1])), pairs[i][2][2]>>]))
    ELSE Answer(BadArg)

KeyPutSync(args, connected) ==
    Guarded(IsString(args[1]) /\ IsList(args[2]), connected,
            PairsThen(args[2][2], LAMBDA ps : Put(FoldLeft(LAMBDA w, q : With(w, q[1], q[2]),
                                                           <<>>, ps), 0)))
KeyIncSync(args, connected) ==
    Guarded(IsString(args[1]) /\ IsList(args[2]), connected, PairsThen(args[2][2], Increment))

\* key_select takes the names up to the first that is no string.
NamesRead(names) == {CString(Bytes(names[i])) : i \in {j \in DOMAIN names :
                                                \A k \in 1..j : IsString(names[k])}}
KeySelectSync(args, connected) ==
    Guarded(IsString(args[1]) /\ IsList(args[2]), connected,
            IF args[2][2] = <<>> THEN Answer(Ok(List(<<>>)))
            ELSE Call(KeySelect(NamesRead(args[2][2]))))

\* binary_put alone asks whether there is something to do before it asks
\* whether the client is connected.
BinaryPutSync(args, connected) ==
    IF IsBinary(args[1]) /\ args[2] = List(<<>>) /\ IsLong(args[3])
    THEN Answer(Ok(Literal("done")))
    ELSE Guarded(IsBinary(args[1]) /\ IsList(args[2]) /\ IsLong(args[3]), connected,
                 BinaryPut(args[2][2], args[3]))

\* map_put: every key is a binary, an atom or a string, every value a binary.
\* A ttl that is a float passes for a number, and leaves the variable unset.
NameOf(t) == CString(IF IsString(t) THEN Bytes(t) ELSE t[2])
WholeMap(pairs) ==
    [k \in {NameOf(p[1]) : p \in pairs} |->
        <<"bytes", (CHOOSE p \in pairs : NameOf(p[1]) = k)[2][2]>>]
MapWrite(bin, ttl, pairs, junk) ==
    IF \A p \in pairs : (IsBinary(p[1]) \/ IsAtom(p[1]) \/ IsString(p[1])) /\ IsBinary(p[2])
    THEN Call(Put([n \in {CString(bin[2])} |-> <<"map", WholeMap(pairs)>>],
                  IF IsLong(ttl) THEN ttl[2] ELSE junk))
    ELSE Answer(BadArg)
MapPutSync(args, connected, junk) ==
    Guarded(/\ IsBinary(args[1]) /\ IsBinary(args[2])
            /\ (IsLong(args[3]) \/ args[3] = Float)
            /\ args[4][1] = "pairs",
            connected, MapWrite(args[2], args[3], args[4][2], junk))

KeyRemoveSync(args, connected)     == Guarded(IsString(args[1]), connected, Call(KeyRemove))
KeyExistsSync(args, connected)     == Guarded(IsString(args[1]), connected, Call(KeyExists))
KeyGetSync(args, connected)        == Guarded(IsString(args[1]), connected, Call(KeyGet))
KeyGenerationSync(args, connected) == Guarded(IsString(args[1]), connected, Call(KeyGet))
BinaryGetSync(args, connected)     == Guarded(IsBinary(args[1]), connected, Call(KeyGet))
CdtGetSync(args, connected) ==
    Guarded(IsBinary(args[1]) /\ args[2][1] = "tuple" /\ Len(args[2][2]) = 4, connected,
            Call(KeyGet))
SegmentTagGetSync(args, connected) ==
    Guarded(IsBinary(args[1]) /\ IsBinary(args[2]), connected, Call(KeySelect({args[2][2]})))

\* "method not completed"
CdtExpireSync == Answer(Error)

Nif(c, connected, junk) ==
    CASE c.op = "key_put"         -> KeyPutSync(c.args, connected)
      [] c.op = "key_inc"         -> KeyIncSync(c.args, connected)
      [] c.op = "key_select"      -> KeySelectSync(c.args, connected)
      [] c.op = "binary_put"      -> BinaryPutSync(c.args, connected)
      [] c.op = "map_put"         -> MapPutSync(c.args, connected, junk)
      [] c.op = "key_remove"      -> KeyRemoveSync(c.args, connected)
      [] c.op = "key_exists"      -> KeyExistsSync(c.args, connected)
      [] c.op = "key_get"         -> KeyGetSync(c.args, connected)
      [] c.op = "key_generation"  -> KeyGenerationSync(c.args, connected)
      [] c.op = "binary_get"      -> BinaryGetSync(c.args, connected)
      [] c.op = "cdt_get"         -> CdtGetSync(c.args, connected)
      [] c.op = "segment_tag_get" -> SegmentTagGetSync(c.args, connected)
      [] c.op = "cdt_expire"      -> CdtExpireSync

-----------------------------------------------------------------------------
(* Answers *)

\* The entries of a map that are complete, or nearly, are a key and a tuple of
\* value, ttl and write time; of an entry with one field there is only the key.
EntryTerms(k, e) ==
    <<Binary(k)>> \o
    (IF e[1] = "bytes" THEN <<Literal("value as text")>>
     ELSE IF Cardinality(DOMAIN e[2]) \in {2, 3}
     THEN <<Tuple(<<Field(e[2], "value", Atom("undefined")),
                    Field(e[2], "ttl", Integer(0)), Field(e[2], "wt", Integer(0))>>)>>
     ELSE <<>>)

FormatValueOut(v) ==
    CASE v[1] = "bytes" -> Binary(v[2])
      [] v[1] = "ints"  -> String(v[2])
      [] v[1] = "map"   -> LET ks == KeysInOrder(v[2]) IN
                           List(FlattenSeq([i \in DOMAIN ks |-> EntryTerms(ks[i], v[2][ks[i]])]))
      [] OTHER          -> v

\* The list is built from its end: the bins are in reverse order.
Dump(r, order, Name(_)) ==
    List([i \in DOMAIN order |-> LET n == Reverse(order)[i] IN
                                 Tuple(<<Name(n), FormatValueOut(r.bins[n])>>)])
DumpRecords(r, order)       == Dump(r, order, String)
DumpBinaryRecords(r, order) == Dump(r, order, Binary)
DumpCdtRecords(r, order)    == Dump(r, order, Binary)

\* segment_tag_get: plain maps only, and not the bytes binary_put writes; what
\* is no string or bytes becomes the empty binary.
Segment(r, name) ==
    IF name \notin DOMAIN r.bins \/ r.bins[name][1] # "map" THEN Error
    ELSE LET m == r.bins[name][2]  ks == KeysInOrder(m) IN
         Ok(Map(FlattenSeq([i \in DOMAIN ks |->
                <<Binary(ks[i]), Binary(IF m[ks[i]][1] = "bytes" THEN m[ks[i]][2] ELSE <<>>)>>])))

\* The answer once the library has returned, r being the record.
NifAnswer(c, ok, r, order) ==
    IF ~ok THEN Error
    ELSE CASE c.op = "key_get"    -> Ok(DumpRecords(r, order))
           [] c.op = "key_select" -> Ok(DumpRecords(r, Among(order, NamesRead(c.args[2][2]))))
           [] c.op = "binary_get" -> Ok(DumpBinaryRecords(r, order))
           [] c.op = "cdt_get"    -> Ok(DumpCdtRecords(r, order))
           [] c.op = "segment_tag_get" -> Segment(r, c.args[2][2])
           [] c.op = "key_generation"  ->
                Ok(Map(<<Literal("gen"), Integer(1), Literal("ttl"), Integer(r.ttl)>>))
           [] c.op = "key_exists" -> Ok(Atom("true"))
           [] OTHER               -> Ok(Literal("done"))
=============================================================================
