---------------------------- MODULE HwGenSamples ----------------------------
(***************************************************************************)
(* Register descriptions for module HwGenParser: files of the language and *)
(* what one edit makes of them.                                            *)
(***************************************************************************)
EXTENDS Naturals, Sequences, SequencesExt

SampleIdents == {"a", "b", "c", "d", "t", "u", "_", "uint8", "uint4"}
SampleUints == [uint8 |-> 8, uint4 |-> 4]
SampleInts == [i \in {"1", "2", "3"} |-> IF i = "1" THEN 1 ELSE IF i = "2" THEN 2 ELSE 3]
Head1 == <<"package", "a", ";">>

SampleBodies ==
  { <<"const", "a", "=", "1", "+", "2", "*", "-", "1", "-", "b", ";", "const", "b", "=", "(", "2", ")", ";">>,
    <<"type", "t", "{", "a", ";", "b", "[", "2", ":", "1", "]", ";", "}", ";">>,
    <<"type", "t", "struct", "{", "a", ",", "b", "t", "/", "a", ";", "...", "2", "a", "}", ";">>,
    <<"type", "default", "t", "uint8", "comment", ";", "func", "b", "[", "2", "]", "struct", "{", "a",
      "(", "1", ")", ";", "}", ";">>,
    <<"import", "string", ";", "const", "(", "a", ",", "b", "=", "1", ",", "2", ";", ")", ";">> }

EditTokens == {"a", "_", "1", ";", ",", "=", "*", "(", ")", "{", "}", "[", "const", "type", "var", "..."}

Edited(f) == {RemoveAt(f, i) : i \in 1..Len(f)}
             \cup {ReplaceAt(f, i, t) : i \in 1..Len(f), t \in EditTokens}
             \cup {InsertAt(f, i, t) : i \in 1..Len(f), t \in EditTokens}

\* A file with an error on each of 12 lines
Hopeless == Head1 \o FlattenSeq([k \in 1..12 |-> <<"const", "a", ";">>])

SampleFiles == UNION {{Head1 \o b} \cup {Head1 \o e : e \in Edited(b)} : b \in SampleBodies}
               \cup Edited(Head1) \cup {Hopeless}

\* Files with a register of 4 bits, a bit field t and a type u of up to 3 fields
FieldTypes == { <<>>, <<"t">>, <<"u">>, <<"(", "1", ")">>, <<"[", "2", ":", "1", "]">>, <<"[", "1", ":", "1", "]">>,
                <<"[", "2", "]", "_">>, <<"{", "a", "(", "1", ")", ";", "}">> }
FieldsOf(name) == {<<name>> \o typ \o <<";">> : typ \in FieldTypes} \cup {<<"...", "2", ";">>, <<"...", "1", "t", ";">>}
FieldLists == FieldsOf("c") \cup {f \o g : f \in FieldsOf("c"), g \in FieldsOf("d")}
              \cup {f \o g \o h : f \in FieldsOf("c"), g \in FieldsOf("d"), h \in FieldsOf("a")}
Registers == <<"const", "b", "=", "3", "-", "1", ";",
               "type", "(", "default", "_", "uint4", ";",
               "t", "{", "c", ";", "d", "[", "b", ":", "1", "]", ";", "}", ";">>
RegisterFiles ==
  {Head1 \o Registers \o <<"u">> \o open \o fields \o <<"}", ";", ")", ";">> :
     open \in {<<"{">>, <<"struct", "{">>, <<"[", "2", "]", "struct", "{">>}, fields \in FieldLists}
=============================================================================
