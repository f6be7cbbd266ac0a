------------------------------- MODULE EiTerms -------------------------------
(***************************************************************************)
(* Erlang terms, and the external term format as a sequence of tokens: the *)
(* commands that term_to_binary makes of a term, the answers that the      *)
(* external program writes with ei_x_encode_*, and what binary_to_term     *)
(* makes of them.  A term is a pair of a kind and a content.  Binaries and *)
(* Erlang strings are sequences of bytes; the literal texts of the program *)
(* (messages, keys of maps) are terms of their own.                        *)
(***************************************************************************)
EXTENDS Integers, SequencesExt

Integer(i)     == <<"int", i>>      \* an integer of at most 32 bits
Big(k)     == <<"big", k>>      \* one of 33 to 64 bits, 2^40 + k
Float      == <<"float">>
Atom(a)    == <<"atom", a>>
Binary(s)  == <<"binary", s>>
Literal(s) == <<"literal", s>>
Tuple(ts)  == <<"tuple", ts>>
List(ts)   == <<"list", ts>>
Map(ts)    == <<"map", ts>>     \* keys and values in turn
String(s)  == List([i \in DOMAIN s |-> Integer(s[i])])

IsInt(t)    == t[1] = "int"
IsLong(t)   == t[1] \in {"int", "big"}
IsBinary(t) == t[1] = "binary"
IsAtom(t)   == t[1] = "atom"
IsList(t)   == t[1] = "list"
IsPair(t)   == t[1] = "tuple" /\ Len(t[2]) = 2
IsString(t) == IsList(t) /\ \A i \in DOMAIN t[2] : IsInt(t[2][i]) /\ t[2][i][2] \in 0..255
Bytes(t)    == [i \in DOMAIN t[2] |-> t[2][i][2]]

-----------------------------------------------------------------------------
(* Tokens.  Those of integers, floats, atoms, binaries and texts are the    *)
(* terms themselves.                                                        *)

TupleHeader(n) == <<"tuple_header", n>>
MapHeader(n)   == <<"map_header", n>>
Nil            == <<"nil">>
ListHeader(n)  == IF n = 0 THEN Nil ELSE <<"list_header", n>>
StringExt(s)   == IF s = <<>> THEN Nil ELSE <<"string", s>>

\* term_to_binary: a list of bytes is written as a string.
RECURSIVE Encode(_)
Encode(t) ==
    LET All(ts) == FlattenSeq([i \in DOMAIN ts |-> Encode(ts[i])]) IN
    CASE t[1] = "tuple" -> <<TupleHeader(Len(t[2]))>> \o All(t[2])
      [] IsString(t)    -> <<StringExt(Bytes(t))>>
      [] IsList(t)      -> <<ListHeader(Len(t[2]))>> \o All(t[2]) \o <<Nil>>
      [] OTHER          -> <<t>>

\* How many terms follow the token and belong to it; a list has a tail.
Parts(token) == CASE token[1] = "tuple_header" -> token[2]
                  [] token[1] = "list_header"  -> token[2] + 1
                  [] token[1] = "map_header"   -> 2 * token[2]
                  [] OTHER                     -> 0

\* The term a token makes with its parts.
Build(token, parts) ==
    CASE token[1] = "tuple_header" -> Tuple(parts)
      [] token[1] = "map_header"   -> Map(parts)
      [] token[1] = "nil"          -> List(<<>>)
      [] token[1] = "string"       -> String(token[2])
      [] token[1] = "list_header"  -> IF IsList(Last(parts))
                                      THEN List(Front(parts) \o Last(parts)[2])
                                      ELSE <<"improper", parts>>
      [] OTHER                     -> token

NoTerm == <<"no term">>

\* The first n terms of s, and what is left of it.
RECURSIVE Terms(_, _)
Terms(s, n) ==
    IF n = 0 THEN <<<<>>, s>>
    ELSE IF s = <<>> THEN NoTerm
    ELSE LET parts == Terms(Tail(s), Parts(Head(s))) IN
         IF parts = NoTerm THEN NoTerm
         ELSE LET more == Terms(parts[2], n - 1) IN
              IF more = NoTerm THEN NoTerm
              ELSE <<<<Build(Head(s), parts[1])>> \o more[1], more[2]>>

\* binary_to_term: bytes after the term are ignored; too few are badarg.
BinaryToTerm(s) == LET d == Terms(s, 1) IN IF d = NoTerm THEN NoTerm ELSE d[1][1]

\* No list in t, at any depth, ends in something else than the empty list.
RECURSIVE Proper(_)
Proper(t) == /\ t[1] # "improper"
             /\ t[1] \in {"tuple", "list", "map"} => \A i \in DOMAIN t[2] : Proper(t[2][i])

\* What binary_to_term makes of s has only proper lists and is all of s; the
\* second end that an empty list may have been given can follow it.
IsWhole(s) == LET d == Terms(s, 1) IN
              d # NoTerm /\ Proper(d[1][1]) /\ d[2] \in {<<>>, <<Nil>>}
=============================================================================
