------------------------------ MODULE MCValues ------------------------------
(* Instances of Values for TLC. *)
EXTENDS Values

CONSTANT MaxLen  \* of a text

Atoms == {"w", "int", "multi", "sz", "22"}
Marks == {":", ",", "(", ")", " "}

(* Every short text of the characters that matter to the typing, and every *)
(* longer numeral and character that matters to the URL in some place.     *)
ShortTexts == UNION {[1 .. n -> Atoms \cup Marks] : n \in 0 .. MaxLen}

MCTexts ==
  UNION {{s \in ShortTexts : \A i \in 1 .. Len(s) - 1 : ~ {s[i], s[i + 1]} \subseteq Atoms},
         {<<"multi", ":">> \o s : s \in [1 .. 3 -> {"w", ",", "sz", ":", "("}]},
         {<<a, n>> : a \in {"+", " "}, n \in Numerals},
         {<<n>> : n \in Numerals},
         {<<a, b, c>> : a, c \in {"w", "%", "+"}, b \in {"%", "&", "=", "/", "+"}},
         {<<"%", "25", "=">>, <<"%", "2C", "w">>}}

MCForeign ==
  {[type |-> t, data |-> d] : t \in {"sz", "expand"},
     d \in {<<"w", "NUL">>, <<"w">>, <<"w", "NUL", "22">>, <<" ", "w", "NUL">>}}
  \cup {[type |-> "other", data |-> <<d>>] : d \in {"w", "22"}}
  \cup {[type |-> "dword", data |-> <<>>], [type |-> "qword", data |-> <<>>],
        [type |-> "qword", data |-> <<"22">>]}
  \cup {[type |-> "multi", data |-> d \o e] :
          d \in {<<"w", "NUL">>, <<"NUL">>, <<"w", ",", "(", "NUL">>, <<"(", "NUL">>,
                 <<"int", ":", "NUL">>, <<" ", "w", "NUL">>, <<>>},
          e \in {<<"22", "NUL", "NUL">>, <<"NUL">>, <<"w">>, <<",", "NUL", "NUL">>}}

Plain == {[path |-> <<<<"w">>, <<"22">>>>, name |-> n] : n \in {<<"Actions">>, <<"w">>}}

(* Rules and values whose names need the escapes. *)
OddChars == {"%", "&", "=", "+", " ", "/"}
Odd == {[path |-> <<<<"w">>, <<"w", c, d>>>>, name |-> n] :
          c \in OddChars, d \in OddChars \cup {"25"},
          n \in {<<"w">>, <<"w", "=", "22">>, <<" ", "&", "w">>, <<"+", "w">>}}

MCWritten ==
  UNION {{[path |-> r.path, name |-> r.name, text |-> t] : r \in Plain, t \in MCTexts},
         {[path |-> r.path, name |-> r.name, text |-> <<"w">>] : r \in Odd}}

(* The last has a rule that the page cannot save. *)
MCFound ==
  {[path |-> r.path, name |-> r.name, value |-> v] : r \in Plain, v \in MCForeign}
  \cup {[path |-> <<<<"w">>, <<" ">>>>, name |-> <<"w">>,
         value |-> [type |-> "sz", data |-> <<"w", "NUL">>]]}
=============================================================================
