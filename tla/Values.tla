------------------------------- MODULE Values -------------------------------
(***************************************************************************)
(* What a rule's value goes through between the page's editor and the      *)
(* registry: saved by the page as part of a URL, taken from it by          *)
(* pnpd/src/http.rs, typed by encode_value of pnpd/src/policy.rs, read     *)
(* back by decode_value, and offered for editing by the page again.        *)
(*                                                                         *)
(* A text is a sequence of tokens: words and numerals, which never stand   *)
(* next to each other, and single characters that some step looks at.  A   *)
(* value in the registry is a type and such a text, NULs included.  The    *)
(* hexadecimal digits of an escape are one token.  Encoding of characters  *)
(* outside ASCII is left out.                                              *)
(***************************************************************************)
EXTENDS Integers, FiniteSetsExt, SequencesExt

(* A rule is a path of key names; they, and the names of values, are texts. *)
CONSTANTS
  Written,  \* [path, name, text]: what is written into the page's editor
  Found     \* [path, name, value]: values that other programs have stored

(* Numerals of integers from 0 to u32::MAX, and of other i64s. *)
Dwords == {"22"}
Qwords == {"-5", "2^53+1", "2^53", "2^63-1"}
Numerals == Dwords \cup Qwords

(* JSON numbers are doubles to the page.  String() writes the double next  *)
(* to 2^63-1 as a number that no i64 holds.                                *)
Rounded(n) == CASE n = "2^53+1" -> "2^53" [] n = "2^63-1" -> "2^63" [] OTHER -> n

VARIABLES
  name,    \* the value's name,
  path,    \* and the rule it belongs to
  shown,   \* its text in the editor
  stored,  \* what the registry has
  target   \* the rule and the name that the last save reached

valueVars == <<name, path, shown, stored, target>>

-----------------------------------------------------------------------------
(* Texts *)

(* The pieces of s between the positions in cuts. *)
Pieces(s, cuts) ==
  LET starts == cuts \cup {0}
      Nth(k) == CHOOSE c \in starts : Cardinality({d \in starts : d < c}) = k - 1
      End(c) == Min({d \in cuts \cup {Len(s) + 1} : d > c})
  IN  [k \in 1 .. Cardinality(starts) |-> SubSeq(s, Nth(k) + 1, End(Nth(k)) - 1)]

SplitOn(sep, s) == Pieces(s, {i \in 1 .. Len(s) : s[i] = sep})

JoinWith(sep, ss) ==
  IF ss = <<>> THEN <<>>
  ELSE Tail(FlattenSeq([i \in 1 .. Len(ss) |-> <<sep>> \o ss[i]]))

NonEmpty(ss) == SelectSeq(ss, LAMBDA s : s # <<>>)

Trim(s) ==
  LET solid == {i \in 1 .. Len(s) : s[i] # " "}
  IN  IF solid = {} THEN <<>>
      ELSE LET first == CHOOSE i \in solid : \A j \in solid : i <= j
               last  == CHOOSE i \in solid : \A j \in solid : i >= j
           IN  SubSeq(s, first, last)

-----------------------------------------------------------------------------
(* The URL *)

Hex == [c \in {":", ",", " ", "%", "+", "&", "=", "/"} |->
          CASE c = ":" -> "3A" [] c = "," -> "2C" [] c = " " -> "20"
            [] c = "%" -> "25" [] c = "+" -> "2B" [] c = "&" -> "26"
            [] c = "=" -> "3D" [] OTHER -> "2F"]

Unhex == [h \in {Hex[c] : c \in DOMAIN Hex} |->
            CHOOSE c \in DOMAIN Hex : Hex[c] = h]

(* encodeURIComponent; it leaves parentheses alone. *)
UrlEncode(s) ==
  FlattenSeq([i \in 1 .. Len(s) |->
                IF s[i] \in DOMAIN Hex THEN <<"%", Hex[s[i]]>> ELSE <<s[i]>>])

UrlDecodePlusLast(s) ==
  LET Escape(i) == i \in 1 .. Len(s) - 1 /\ s[i] = "%" /\ s[i + 1] \in DOMAIN Unhex
      Plus(c) == IF c = "+" THEN <<" ">> ELSE <<c>>
  IN  FlattenSeq([i \in 1 .. Len(s) |->
                    IF Escape(i) THEN Plus(Unhex[s[i + 1]])
                    ELSE IF Escape(i - 1) THEN <<>> ELSE Plus(s[i])])

(* A percent sign that no digits follow stands for itself. *)
UrlDecode(s) ==
  LET Escape(i) == i \in 1 .. Len(s) - 1 /\ s[i] = "%" /\ s[i + 1] \in DOMAIN Unhex
  IN  FlattenSeq([i \in 1 .. Len(s) |->
                    IF Escape(i) THEN <<Unhex[s[i + 1]]>>
                    ELSE IF Escape(i - 1) THEN <<>>
                    ELSE IF s[i] = "+" THEN <<" ">> ELSE <<s[i]>>])

(* What the page asks for when the editor is saved.  The rule's own name,  *)
(* the last of the path, stands in a field of the editor like the value.   *)
Query(p, n, text) ==
  <<"path", "=">> \o UrlEncode(JoinWith("/", Append(Front(p), Trim(Last(p)))))
    \o <<"&", "v.">> \o UrlEncode(Trim(n)) \o <<"=">> \o UrlEncode(Trim(text))

(* policy_mutation: pairs are told apart before they are decoded, each is  *)
(* cut at its first "=", and the last path counts.                         *)
Receive(query) ==
  LET Cut(kv) == SelectInSeq(kv, LAMBDA c : c = "=")
      Key(kv) == SubSeq(kv, 1, Cut(kv) - 1)
      Val(kv) == UrlDecode(SubSeq(kv, Cut(kv) + 1, Len(kv)))
      pairs   == SelectSeq(SplitOn("&", query), LAMBDA kv : "=" \in ToSet(kv))
      Of(k)   == SelectSeq(pairs, LAMBDA kv : Key(kv)[1] = k)
  IN  [path |-> NonEmpty(SplitOn("/", Val(Last(Of("path"))))),
       name |-> UrlDecode(Tail(Key(Of("v.")[1]))),
       text |-> Val(Of("v.")[1])]

-----------------------------------------------------------------------------
(* Typing *)

SplitTopLevelUnclamped(s) ==
  LET depth[i \in 0 .. Len(s)] ==
        IF i = 0 THEN 0
        ELSE CASE s[i] = "(" -> depth[i - 1] + 1
               [] s[i] = ")" -> depth[i - 1] - 1
               [] OTHER -> depth[i - 1]
  IN  Pieces(s, {i \in 1 .. Len(s) : s[i] = "," /\ depth[i] = 0})

(* Commas at depth zero separate; a stray ")" does not go below it. *)
SplitTopLevel(s) ==
  LET depth[i \in 0 .. Len(s)] ==
        IF i = 0 THEN 0
        ELSE CASE s[i] = "(" -> depth[i - 1] + 1
               [] s[i] = ")" -> Max({depth[i - 1] - 1, 0})
               [] OTHER -> depth[i - 1]
  IN  Pieces(s, {i \in 1 .. Len(s) : s[i] = "," /\ depth[i] = 0})

Forced(s) ==
  IF Len(s) >= 2 /\ s[1] \in {"multi", "sz", "int"} /\ s[2] = ":" THEN s[1] ELSE "no"

Rest(s) == IF Forced(s) = "no" THEN s ELSE SubSeq(s, 3, Len(s))

(* parse::<i64>, which takes a plus sign. *)
IsInt(s) == \/ Len(s) = 1 /\ s[1] \in Numerals
            \/ Len(s) = 2 /\ s[1] = "+" /\ s[2] \in Numerals \ {"-5"}

EncodeIntWide(n) == [type |-> "qword", data |-> <<n>>]

EncodeInt(n) == [type |-> IF n \in Dwords THEN "dword" ELSE "qword", data |-> <<n>>]

EncodeList(parts) ==
  [type |-> "multi",
   data |-> FlattenSeq([i \in 1 .. Len(parts) |-> Append(parts[i], "NUL")])
              \o <<"NUL">>]

EncodeValue(n, raw) ==
  LET s == Rest(raw)
      parts == SplitTopLevel(s)
  IN  IF \/ Forced(raw) = "multi"
         \/ Forced(raw) = "no" /\ (n = <<"Actions">> \/ Len(parts) > 1)
       THEN EncodeList(NonEmpty([i \in 1 .. Len(parts) |-> Trim(parts[i])]))
      ELSE IF Forced(raw) # "sz" /\ IsInt(Trim(s)) THEN EncodeInt(Last(Trim(s)))
      ELSE [type |-> "sz", data |-> Append(s, "NUL")]

EditableForcing(v) ==
  CASE v.type \in {"sz", "expand"} -> SplitOn("NUL", v.data)[1]
    [] v.type \in {"dword", "qword"} -> <<"sz", ":">> \o v.data
    [] v.type = "multi" -> JoinWith(",", NonEmpty(SplitOn("NUL", v.data)))
    [] OTHER -> v.data

(* decode_value and valueToEditable together.  An integer of the wrong     *)
(* size is shown as null, a value of another type as its bytes in hex.     *)
Editable(v) ==
  CASE v.type \in {"sz", "expand"} -> SplitOn("NUL", v.data)[1]
    [] v.type \in {"dword", "qword"} ->
         IF v.data = <<>> THEN <<"null">> ELSE <<Rounded(v.data[1])>>
    [] v.type = "multi" -> JoinWith(",", NonEmpty(SplitOn("NUL", v.data)))
    [] OTHER -> v.data

-----------------------------------------------------------------------------
Nothing == [type |-> "none", data |-> <<>>]

ValuesInit ==
  /\ target = <<>>
  /\ \/ \E w \in Written : /\ path = w.path /\ name = w.name
                          /\ shown = w.text /\ stored = Nothing
     \/ \E f \in Found : /\ path = f.path /\ name = f.name
                        /\ shown = <<>> /\ stored = f.value

(* The editor is opened on what is stored. *)
Load ==
  /\ stored # Nothing
  /\ shown' = Editable(stored)
  /\ UNCHANGED <<name, path, stored, target>>

(* The editor is saved as it stands; a rule needs a name. *)
Save ==
  /\ stored = Nothing \/ shown = Editable(stored)
  /\ Trim(Last(path)) # <<>>
  /\ LET got == Receive(Query(path, name, shown)) IN
       /\ stored' = EncodeValue(got.name, got.text)
       /\ target' = <<got.path, got.name>>
  /\ UNCHANGED <<name, path, shown>>

ValuesNext == Load \/ Save

ValuesSpec == ValuesInit /\ [][ValuesNext]_valueVars

-----------------------------------------------------------------------------
(* How deep position i of s stands in parentheses, stray closing ones not  *)
(* counted: the most that opens and does not close in a stretch before i.  *)
DepthAt(s, i) ==
  LET Open(j) == Cardinality({k \in j .. i - 1 : s[k] = "("})
                   - Cardinality({k \in j .. i - 1 : s[k] = ")"})
  IN  Max({Open(j) : j \in 1 .. i})

Separators(s) == {i \in 1 .. Len(s) : s[i] = "," /\ DepthAt(s, i) = 0}

Elements(s) ==
  NonEmpty([i \in 1 .. Cardinality(Separators(s)) + 1 |->
              Trim(Pieces(s, Separators(s))[i])])

(* "Actions and comma-separated inputs become multi; integers become dword *)
(* (qword when negative or too big); everything else is sz.  multi:/sz:/   *)
(* int: prefixes force a type." (policy.rs:172-176)                        *)
Convention(n, s) ==
  LET rest == Rest(s)
      kind == CASE Forced(s) # "no" -> Forced(s)
                [] n = <<"Actions">> \/ Separators(s) # {} -> "multi"
                [] IsInt(Trim(s)) -> "int"
                [] OTHER -> "sz"
  IN  CASE kind = "multi" -> [type |-> "multi", parts |-> Elements(rest)]
        [] kind = "int"   -> [type |-> IF Last(Trim(rest)) \in Dwords THEN "dword"
                                       ELSE "qword",
                              parts |-> <<<<Last(Trim(rest))>>>>]
        [] kind = "sz"    -> [type |-> "sz", parts |-> <<rest>>]

(* What the convention has no form for: "int:" before another text.  The   *)
(* code forces nothing there, and stores the text without the prefix.      *)
NotForced(s) == Forced(s) = "int" /\ ~IsInt(Trim(Rest(s)))

Contents(v) ==
  [type  |-> v.type,
   parts |-> CASE v.type = "multi" -> NonEmpty(SplitOn("NUL", v.data))
               [] v.type = "sz"    -> <<SubSeq(v.data, 1, Len(v.data) - 1)>>
               [] OTHER            -> <<v.data>>]

(* What the page cannot give back as it found it: integers in Actions,     *)
(* beyond the page's precision or wider than need be; texts that would be  *)
(* typed as something else; lists of less than two elements outside        *)
(* Actions, and those whose elements would be cut, merged or trimmed.      *)
ReadsOtherwise(n, s) ==
  n = <<"Actions">> \/ Forced(s) # "no" \/ IsInt(s) \/ Separators(s) # {}
    \/ Trim(s) # s

Lossy(n, v) ==
  LET parts == NonEmpty(SplitOn("NUL", v.data)) IN
  CASE v.type = "dword" -> n = <<"Actions">> \/ v.data = <<>>
    [] v.type = "qword" -> \/ n = <<"Actions">> \/ v.data = <<>>
                           \/ v.data[1] \notin Qwords
                           \/ Rounded(v.data[1]) # v.data[1]
    [] v.type = "sz"    -> \/ ReadsOtherwise(n, SplitOn("NUL", v.data)[1])
                           \/ v.data # Append(SplitOn("NUL", v.data)[1], "NUL")
    [] v.type = "multi" -> \/ v # EncodeList(parts)
                           \/ n # <<"Actions">> /\ Len(parts) < 2
                           \/ parts # <<>> /\ Forced(parts[1]) # "no"
                           \/ \E i \in 1 .. Len(parts) :
                                \/ Trim(parts[i]) # parts[i]
                                \/ Separators(parts[i]) # {}
                                \/ i < Len(parts) /\
                                     DepthAt(parts[i], Len(parts[i]) + 1) > 0
    [] OTHER -> TRUE

(* Types, and the forms of the registry: a text ends with its only NUL, a  *)
(* list is elements without spaces around them, each ended by a NUL, and a *)
(* last NUL.                                                               *)
ValuesTypeOK ==
  CASE stored.type = "sz" -> SelectInSeq(stored.data, LAMBDA c : c = "NUL")
                               = Len(stored.data)
    [] stored.type = "dword" -> stored.data[1] \in Dwords
    [] stored.type = "qword" -> stored.data[1] \in Qwords
    [] OTHER -> LET parts == NonEmpty(SplitOn("NUL", stored.data)) IN
                  /\ stored = EncodeList(parts)
                  /\ \A i \in 1 .. Len(parts) : Trim(parts[i]) = parts[i]

(* Whatever characters they contain, a save reaches the rule and the value *)
(* it was meant for, and the text arrives as it stood in the editor, less  *)
(* the spaces around it and around the value's name: two encodings, a      *)
(* split at "&" and one at "=" undo each other.  What leads elsewhere is a *)
(* slash in a key's name and a space around the rule's own (:1317), both   *)
(* of which other programs may use.                                        *)
SavedAsWritten ==
  [][target' # target \/ stored' # stored =>
       /\ stored' = EncodeValue(Trim(name), Trim(shown))
       /\ target'[2] = Trim(name)
       /\ target'[1] = path <=> /\ \A i \in 1 .. Len(path) : "/" \notin ToSet(path[i])
                               /\ Trim(Last(path)) = Last(path)]_valueVars

(* A saved value has the form of its type; and the type and the elements   *)
(* are those the convention above encode_value gives it, commas inside     *)
(* parentheses included (policy.rs:184-186), however the parentheses are   *)
(* balanced, unless that convention is not kept: "int:" before a text that *)
(* is not an integer does not force the type.                              *)
TypedByConvention ==
  [][stored' # stored =>
       /\ ValuesTypeOK'
       /\ ~NotForced(Trim(shown)) =>
            Contents(stored') = Convention(Trim(name), Trim(shown))]_valueVars

(* A rule that is opened and saved untouched keeps its values, except the  *)
(* named ones, and those never.                                            *)
KeptUnlessLossy ==
  [][stored # Nothing /\ shown = Editable(stored) /\ UNCHANGED shown =>
       (stored' # stored <=> Lossy(Trim(name), stored))]_valueVars

(* However often that is repeated, no value changes its type or its text   *)
(* for ever.                                                               *)
Settles == <>[][stored' = stored]_valueVars
=============================================================================
