----------------------------- MODULE MCXfireCodec -----------------------------
(* Attributes of every type, and the longest ones a length field has room for.  *)
EXTENDS XfireCodec

Name == [string |-> <<105, 100>>, byte |-> 1]

S(idType, type, value) ==
    [idType |-> idType, id |-> Name[idType], type |-> type, value |-> value]

Id(n) == [i \in 1..n |-> i + 100]

Values ==
    {<<String, <<>>>>, <<String, <<104, 9>>>>, <<String, <<195, 169>>>>,
     <<String, ByteOrderMark \o <<104>>>>, <<Int32, <<0, 1, 2, 3>>>>, <<SID, Id(16)>>,
     <<CID, Id(21)>>, <<Int64, <<0, 0, 0, 0, 1, 2, 3, 4>>>>, <<Bool, <<1>>>>}

Lists ==
    {[of |-> Int32, elements |-> <<>>],
     [of |-> String, elements |-> <<<<>>, <<104>>>>],
     [of |-> Int32, elements |-> <<<<0, 0, 0, 8>>, <<0, 0, 0, 9>>>>],
     [of |-> SID, elements |-> <<Id(16)>>],
     [of |-> Int64, elements |-> <<<<0, 0, 0, 0, 0, 0, 0, 1>>>>],
     [of |-> Bool, elements |-> <<<<0>>, <<255>>>>]}

Children ==
    {<<ParentString, <<>>>>,
     <<ParentString, <<S("string", Bool, <<1>>), S("string", String, <<104>>)>>>>,
     <<ParentByte, <<S("byte", Int32, <<0, 0, 0, 1>>),
                     S("byte", ParentString, <<S("string", Bool, <<0>>)>>)>>>>}

MCAttributes ==
    {S(idType, v[1], v[2]) : idType \in {"string", "byte"}, v \in Values \cup Children}
    \cup {S(idType, List, l) : idType \in {"string", "byte"}, l \in Lists}
    \cup {[idType |-> "string", id |-> <<195, 169>>, type |-> Bool, value |-> <<1>>]}

\* Ids of 255 and 256 bytes, a string and a list whose lengths need both bytes, and
\* as many children as can be counted.
MCLargeAttributes ==
    {[idType |-> "string", id |-> [i \in 1..n |-> 97], type |-> Bool, value |-> <<1>>] :
        n \in {255, 256}}
    \cup {S("string", String, [i \in 1..258 |-> 98]),
          S("byte", List, [of |-> Bool, elements |-> [i \in 1..257 |-> <<1>>]]),
          S("byte", ParentByte, [i \in 1..255 |-> S("byte", Bool, <<1>>)])}

MCPackets ==
    {[kind |-> "server", id |-> 130], [kind |-> "server", id |-> 151],
     [kind |-> "p2p", id |-> 16007]}

MCTrailers == {<<>>, <<5, 0, 3>>}
================================================================================
