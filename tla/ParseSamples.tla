---------------------------- MODULE ParseSamples ----------------------------
(***************************************************************************)
(* Small texts and formats for module ParseInput.                          *)
(***************************************************************************)
EXTENDS Naturals, Sequences

Chars == {" ", "1", "9", "o", "-", "{", "}"}
SampleTexts == UNION {[1..n -> Chars] : n \in 0..3}
  \cup {<<"o", " ", "1", "2">>, <<"{", "o", " ", "}", " ">>, <<"3", "1">>,
        <<"-", "1", ".", "9", "e", "2">>}

lit(c) == [lit |-> c]
verb(v, t) == [verb |-> v, type |-> t]

SampleFormats ==
  << <<verb("d", "int")>>, <<verb("d", "uint")>>, <<verb("v", "uint")>>, <<verb("v", "string")>>,
     <<lit("1"), [opt |-> TRUE], lit("o"), lit("o")>>, <<lit("o"), lit(" "), verb("d", "uint")>>,
     <<[parser |-> <<lit("o"), verb("l", "string")>>], verb("d", "bool")>>,
     <<verb("s", "string"), lit(" "), verb("d", "int")>>, <<verb("f", "float")>> >>

=============================================================================
