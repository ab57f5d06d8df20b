------------------------------ MODULE SimpleTypes ------------------------------
(*****************************************************************************)
(* The simple typecodes (ZSI/TC.py, TCnumbers.py, TCtimes.py): text_to_data, *)
(* which makes a Python value of a text, and get_formatted_content, which    *)
(* makes a text of a value.                                                  *)
(*                                                                           *)
(* A value is a pair of its Python type and its content, a text a pair of    *)
(* its form and its content: <<"int", "127">> is the integer and its digits, *)
(* <<"real", "half">> is 0.500000, <<"word", w>> a word without blanks,      *)
(* <<"pad", t>> a text with blanks around it and <<"items", ts>> texts with  *)
(* a blank between them.  None is the empty text.  A str is the text it      *)
(* consists of.  Integers are the numbers at the bounds of the ranges: their *)
(* order is all that a range asks about.                                     *)
(*****************************************************************************)
EXTENDS Times, Sequences, TLC, SequencesExt

Nil == <<"none", None>>

\* The results of calls made one after the other: the first exception, or all.
AllOk(rs) ==
  LET failed == { i \in DOMAIN rs : ~IsOk(rs[i]) }
  IN IF failed # {} THEN rs[Min(failed)] ELSE Ok([i \in DOMAIN rs |-> rs[i][2]])

NumberLine ==
  << "-2^63-1", "-2^63", "-2^31-1", "-2^31", "-32769", "-32768", "-129", "-128", "-1",
     "0", "1", "127", "128", "255", "256", "32767", "32768", "65535", "65536", "2^31-1",
     "2^31", "2^32-1", "2^32", "2^63-1", "2^63", "2^64-1", "2^64" >>
Place(n) == CHOOSE i \in DOMAIN NumberLine : NumberLine[i] = n
First == NumberLine[1]
Last1 == NumberLine[Len(NumberLine)]

\* Integer.ranges; the ends of the line stand for no bound.
Ranges == [
  unsignedByte |-> <<"0", "255">>, unsignedShort |-> <<"0", "65535">>,
  unsignedInt |-> <<"0", "2^32-1">>, unsignedLong |-> <<"0", "2^64-1">>,
  byte |-> <<"-128", "127">>, short |-> <<"-32768", "32767">>,
  int |-> <<"-2^31", "2^31-1">>, long |-> <<"-2^63", "2^63-1">>,
  negativeInteger |-> <<First, "-1">>, nonPositiveInteger |-> <<First, "0">>,
  nonNegativeInteger |-> <<"0", Last1>>, positiveInteger |-> <<"1", Last1>>,
  integer |-> <<First, Last1>> ]
InRange(type, n) ==
  type \in DOMAIN Ranges =>
    /\ Place(Ranges[type][1]) <= Place(n)
    /\ Place(n) <= Place(Ranges[type][2])

Floats == {"0", "1", "half", "small", "tiny", "huge", "inf", "-inf", "nan"}

\* What str.strip and str.split make of a text.
RECURSIVE Strip(_)
Strip(t) == IF t # None /\ t[1] = "pad" THEN Strip(t[2]) ELSE t

RECURSIVE Split(_)
Split(t) == CASE t = None -> <<>>
              [] t # None /\ t[1] = "pad" -> Split(t[2])
              [] t # None /\ t[1] = "items" ->
                   FlattenSeq([i \in DOMAIN t[2] |-> Split(t[2][i])])
              [] OTHER -> <<t>>

\* What a str is made of: bytes come back from latin-1 as mojibake if they
\* were written in UTF-8.
Wide(t) == Strip(t) = <<"word", "wide">>
Latin1(b) == IF b[1] = "utf8" /\ Wide(b[2]) THEN <<"mojibake", b[2]>> ELSE b[2]
EncodedLatin1(v) == IF v[1] = "bytes" THEN v[2]
                    ELSE IF Wide(v[2]) THEN <<"utf8", v[2]>> ELSE <<"latin", v[2]>>
EncodedUtf8(v) == IF v[1] = "bytes" THEN v[2] ELSE <<"utf8", v[2]>>

\* External: urllib's quote leaves a plain word alone.
Quoted(t) == IF t = None \/ (t[1] = "word" /\ ~Wide(t)) \/ t[1] = "int" THEN t
             ELSE <<"quoted", t>>
Unquoted(t) == IF t # None /\ t[1] = "quoted" THEN t[2] ELSE t

-------------------------------------------------------------------------------
(* Reading a text.  A typecode is a record; cls is its class.                *)

IntegerOf(t) ==
  LET digits == Strip(t)
  IN IF digits # None /\ digits[1] = "int" THEN Ok(<<"int", digits[2]>>)
     ELSE Raise("EvaluateException")

\* float: the numbers beyond its range are infinite, those too small zero.
FloatOf(t) ==
  LET s == Strip(t)
      word == s # None /\ s[1] = "word"
  IN CASE word /\ s[2] = "INF" -> Ok(<<"float", "inf">>)
       [] word /\ s[2] = "-INF" -> Ok(<<"float", "-inf">>)
       [] word /\ s[2] = "nan" -> Ok(<<"float", "nan">>)
       [] s # None /\ s[1] \in {"real", "int"} ->
            Ok(<<"float", CASE s[2] = "underflow" -> "0" [] s[2] = "overflow" -> "inf"
                            [] OTHER -> s[2]>>)
       [] OTHER -> Raise("EvaluateException")

\* Boolean.text_to_data does not strip, but int does.
BooleanOf(t) ==
  CASE t = <<"word", "true">>  -> Ok(<<"bool", TRUE>>)
    [] t = <<"word", "false">> -> Ok(<<"bool", FALSE>>)
    [] OTHER -> After(IntegerOf(t), LAMBDA n : Ok(<<"bool", n[2] # "0">>))

TimeOf(cls, t) ==
  IF t = None THEN Ok(Nil)
  ELSE IF t[1] # "time" THEN Raise("EvaluateException")
  ELSE After(ReadTime(cls, t[2]), LAMBDA v : Ok(<<"time", v>>))

\* QName: the prefix must be declared around the element.
QNameOf(t, scope) ==
  IF t # None /\ t[1] = "qname"
  THEN IF t[2][1] \in DOMAIN scope THEN Ok(<<"qname", <<scope[t[2][1]], t[2][2]>>>>)
       ELSE Raise("EvaluateException")
  ELSE Ok(<<"qname", <<"", t>>>>)

Decoded(cls, t) ==
  LET form == IF cls = "HexBinaryString" THEN "hex" ELSE "b64"
      bytes == Strip(t)[2]
  IN IF t = None \/ Strip(t)[1] # form THEN Raise("Error")
     ELSE Ok(IF cls = "Base64Binary" THEN <<"bytes", bytes>> ELSE <<"str", Latin1(bytes)>>)

TimeClasses == {"dateTime", "date", "gYearMonth", "gYear", "gMonthDay", "gDay", "gMonth",
                "time", "duration"}
StringClasses == {"String", "Token", "Enumeration"}

\* The members of a union and the items of a list are simple themselves; a
\* union's order is the present one of its memberTypeCodes.
RECURSIVE TextToData(_, _, _)
TextToData(tc, t, scope) ==
  CASE tc.cls \in StringClasses -> Ok(<<"str", IF tc.strip THEN Strip(t) ELSE t>>)
    [] tc.cls = "URI" -> Ok(<<"str", Strip(Unquoted(t))>>)
    [] tc.cls \in {"Integer", "IEnumeration"} -> IntegerOf(t)
    [] tc.cls \in {"Decimal", "FPEnumeration"} -> FloatOf(t)
    [] tc.cls = "Boolean" -> BooleanOf(t)
    [] tc.cls = "QName" -> QNameOf(t, scope)
    [] tc.cls \in {"Base64String", "Base64Binary", "HexBinaryString"} -> Decoded(tc.cls, t)
    [] tc.cls \in TimeClasses -> TimeOf(tc.cls, t)
    [] tc.cls = "List" ->
         LET items == Split(t)
         IN After(AllOk([i \in DOMAIN items |-> TextToData(tc.item, items[i], scope)]),
                  LAMBDA data : Ok(<<"list", data>>))

-------------------------------------------------------------------------------
(* Writing a value.                                                          *)

\* '%d' and '%f'; a value of another type is a TypeError.
Digits(v) ==
  CASE v[1] = "int"   -> Ok(<<"int", v[2]>>)
    [] v[1] = "bool"  -> Ok(<<"int", IF v[2] THEN "1" ELSE "0">>)
    [] v[1] = "float" -> IF v[2] \in {"inf", "-inf"} THEN Raise("OverflowError")
                         ELSE IF v[2] = "nan" THEN Raise("ValueError")
                         ELSE Ok(<<"int", IF v[2] \in {"half", "small", "tiny"} THEN "0" ELSE v[2]>>)
    [] OTHER -> Raise("TypeError")

Fraction(v) ==
  CASE v = <<"float", "inf">>  -> Ok(<<"word", "INF">>)
    [] v = <<"float", "-inf">> -> Ok(<<"word", "-INF">>)
    [] v = <<"float", "nan">>  -> Ok(<<"word", "nan">>)
    [] v[1] = "float" -> Ok(<<"real", IF v[2] \in {"small", "tiny"} THEN "0" ELSE v[2]>>)
    [] v[1] = "int"   -> Ok(<<"real", v[2]>>)
    [] v[1] = "bool"  -> Ok(<<"real", IF v[2] THEN "1" ELSE "0">>)
    [] OTHER -> Raise("TypeError")

False(v) == v \in { <<"bool", FALSE>>, <<"int", "0">>, <<"float", "0">>, <<"str", None>>, Nil }

\* str(v) where it is no str.
StrOf(v) == CASE v[1] = "str"  -> v[2]
              [] v[1] = "bytes" -> v[2][2]
              [] v[1] = "int"  -> <<"int", v[2]>>
              [] v[1] = "bool" -> <<"word", IF v[2] THEN "True" ELSE "False">>
              [] OTHER -> <<"word", "repr">>

\* time.gmtime of the small numbers that a union may hand to a time.
Seconds(n) == CASE n = "0" -> 0 [] n = "1" -> 1 [] n = "127" -> 127
GmTime(n) == [Y |-> 1970, M |-> 1, D |-> 1, h |-> 0, m |-> Seconds(n) \div 60,
              s |-> Seconds(n) % 60, ms |-> 0]
TimeText(cls, v) ==
  IF v[1] \notin {"time", "int"} THEN Raise("TypeError")
  ELSE After(WriteTime(cls, IF v[1] = "int" THEN GmTime(v[2]) ELSE v[2]),
             LAMBDA t : Ok(<<"time", t>>))

ListText(ts) == IF ts = <<>> THEN None
                ELSE <<"pad", IF Len(ts) = 1 THEN ts[1] ELSE <<"items", ts>>>>

\* prefix is the one that the element gives the namespace of a QName.
RECURSIVE Formatted(_, _, _)
Formatted(tc, v, prefix) ==
  CASE tc.cls \in StringClasses -> Ok(StrOf(v))
    [] tc.cls = "URI" -> IF v[1] = "str" THEN Ok(Quoted(v[2])) ELSE Raise("TypeError")
    [] tc.cls \in {"Integer", "IEnumeration"} -> Digits(v)
    [] tc.cls \in {"Decimal", "FPEnumeration"} -> Fraction(v)
    [] tc.cls = "Boolean" -> Ok(<<"word", IF False(v) THEN "false" ELSE "true">>)
    [] tc.cls = "QName" -> Ok(IF v[1] = "qname" THEN <<"qname", <<prefix, v[2][2]>>>> ELSE StrOf(v))
    [] tc.cls = "Base64String" -> Ok(<<"pad", <<"b64", EncodedLatin1(v)>>>>)
    [] tc.cls = "Base64Binary" -> Ok(<<"b64", EncodedUtf8(v)>>)
    [] tc.cls = "HexBinaryString" -> Ok(<<"hex", EncodedLatin1(v)>>)
    [] tc.cls \in TimeClasses -> TimeText(tc.cls, v)
    [] tc.cls = "List" ->
         After(AllOk([i \in DOMAIN v[2] |-> Formatted(tc.item, v[2][i], prefix)]),
               LAMBDA texts : Ok(ListText(texts)))
================================================================================
