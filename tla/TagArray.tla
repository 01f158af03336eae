------------------------------ MODULE TagArray ------------------------------
(***************************************************************************)
(* The tags column of the devices table: model.StringArray, whose Value   *)
(* writes a Postgres text[] literal and whose Scan reads the column back, *)
(* and, as the environment between them, Postgres' text[] input and      *)
(* output. A string is the sequence of its characters.                    *)
(***************************************************************************)
EXTENDS Naturals, Sequences

LBrace == "{"
RBrace == "}"
Comma  == ","
Blank  == " "
DQuote == "\""

(* strings.Join(ts, sep).                                                  *)
RECURSIVE JoinWith(_, _)
JoinWith(ts, sep) ==
  IF ts = <<>> THEN <<>>
  ELSE IF Len(ts) = 1 THEN Head(ts)
  ELSE Head(ts) \o <<sep>> \o JoinWith(Tail(ts), sep)

(* strings.Split(s, sep): the pieces between separators; "" gives [""].    *)
RECURSIVE SplitOn(_, _)
SplitOn(s, sep) ==
  IF \A i \in 1..Len(s) : s[i] # sep THEN <<s>>
  ELSE LET i == CHOOSE i \in 1..Len(s) : s[i] = sep /\ \A j \in 1..(i - 1) : s[j] # sep
       IN  <<SubSeq(s, 1, i - 1)>> \o SplitOn(SubSeq(s, i + 1, Len(s)), sep)

(* strings.Trim(s, cutset): s without its leading and trailing characters *)
(* of the cutset.                                                          *)
Trim(s, cut) ==
  LET keep == {i \in 1..Len(s) : s[i] \notin cut}
      lo   == CHOOSE i \in keep : \A j \in keep : i <= j
      hi   == CHOOSE i \in keep : \A j \in keep : i >= j
  IN  IF keep = {} THEN <<>> ELSE SubSeq(s, lo, hi)

(* StringArray.Value: "{" + strings.Join(s, ",") + "}", no quoting.        *)
Value(s) == <<LBrace>> \o JoinWith(s, Comma) \o <<RBrace>>

(* StringArray.Scan: strings.Trim(str, "{}"), then [] for "" and          *)
(* strings.Split(str, ",") otherwise.                                      *)
Scan(str) ==
  LET inner == Trim(str, {LBrace, RBrace})
  IN  IF inner = <<>> THEN <<>> ELSE SplitOn(inner, Comma)

-----------------------------------------------------------------------------
(* Postgres, from its documentation of array input and output (not code   *)
(* of this repository). Input of an unquoted literal: elements between    *)
(* commas lose their leading and trailing white space, "{}" is the empty  *)
(* array, and an empty element is a malformed array literal.              *)
PgArrayIn(lit) ==
  LET inner == SubSeq(lit, 2, Len(lit) - 1)
      parts == SplitOn(inner, Comma)
      elems == [i \in 1..Len(parts) |-> Trim(parts[i], {Blank})]
  IN  IF Trim(inner, {Blank}) = <<>> THEN [ok |-> TRUE, arr |-> <<>>]
      ELSE [ok |-> \A i \in 1..Len(elems) : elems[i] # <<>>, arr |-> elems]

(* Output: an element is double-quoted when it is empty or holds white    *)
(* space, a comma, a brace or a double quote.                             *)
PgQuote(e) ==
  IF e = <<>> \/ \E i \in 1..Len(e) : e[i] \in {Blank, Comma, LBrace, RBrace, DQuote}
    THEN <<DQuote>> \o e \o <<DQuote>>
    ELSE e

PgArrayOut(arr) ==
  <<LBrace>> \o JoinWith([i \in 1..Len(arr) |-> PgQuote(arr[i])], Comma) \o <<RBrace>>
=============================================================================
