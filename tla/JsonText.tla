------------------------------- MODULE JsonText -------------------------------
(***************************************************************************)
(* json.hpp: the recursive-descent reader of every reply and of the stored *)
(* blob, next to the writers of client.hpp whose text it must read back.   *)
(*                                                                         *)
(* A text is a sequence of characters, strings of length one.  A reader    *)
(* takes a text and a position and gives what it read and the position     *)
(* after it, or Bad.  A double is an exact quotient: its rounding is left  *)
(* out.  Bytes above ASCII are named by their number.                      *)
(***************************************************************************)
EXTENDS Integers, Sequences, FiniteSetsExt, SequencesExt, TLC

CONSTANTS IntMax,   \* the largest int64
          Ascii     \* the characters that escapes may name: code |-> character

Chars(s) == [i \in 1 .. Len(s) |-> SubSeq(s, i, i)]

Bad == [ok |-> FALSE]
Got(v, i) == [ok |-> TRUE, val |-> v, next |-> i]

At(t, i) == IF i \in DOMAIN t THEN t[i] ELSE "eof"

\* The first position from i on whose character is not in S.
Past(t, i, S) == Min({j \in i .. Len(t) + 1 : At(t, j) \notin S})

SkipWs(t, i) == Past(t, i, {" ", "\t", "\n", "\r"})

----------------------------------------------------------------------------
\* Numbers.

DigitValue == [c \in {"0", "1", "2", "3", "4", "5", "6", "7", "8", "9"} |->
                 CHOOSE n \in 0 .. 9 : ToString(n) = c]
Digit == DOMAIN DigitValue

RECURSIVE Power(_)
Power(n) == IF n = 0 THEN 1 ELSE 10 * Power(n - 1)

Decimal(ds) == FoldLeft(LAMBDA acc, d : acc * 10 + DigitValue[d], 0, ds)

\* An int64 while the next digit fits, a double from there on.
AddDigit(n, d) == [over |-> n.over \/ n.val > (IntMax - d) \div 10,
                   val  |-> n.val * 10 + d]

WholeOf(ds) ==
  FoldLeft(LAMBDA n, d : AddDigit(n, DigitValue[d]), [over |-> FALSE, val |-> 0], ds)

Num(i) == [type |-> "Int", i |-> i]
Double(num, den) == [type |-> "Double", num |-> num, den |-> den]

Number(t, i) ==
  LET w     == IF At(t, i) = "-" THEN i + 1 ELSE i
      f     == Past(t, w, Digit)
      n     == WholeOf(SubSeq(t, w, f - 1))
      dot   == At(t, f) = "."
      e     == IF dot THEN Past(t, f + 1, Digit) ELSE f
      frac  == SubSeq(t, f + 1, e - 1)
      expo  == At(t, e) \in {"e", "E"}
      x     == IF expo /\ At(t, e + 1) \in {"+", "-"} THEN e + 2 ELSE e + 1
      end   == IF expo THEN Past(t, x, Digit) ELSE e
      scale == IF expo THEN Power(Decimal(SubSeq(t, x, end - 1))) ELSE 1
      down  == expo /\ At(t, e + 1) = "-"
      num   == n.val * Power(Len(frac)) + Decimal(frac)
      sign  == IF At(t, i) = "-" THEN -1 ELSE 1
  IN IF f = w THEN Bad
     ELSE IF ~dot /\ ~expo /\ ~n.over THEN Got(Num(sign * n.val), end)
     ELSE Got(Double(sign * num * (IF down THEN 1 ELSE scale),
                     Power(Len(frac)) * (IF down THEN scale ELSE 1)), end)

\* A double outside int64 saturates; within, it is cut toward zero.
AsInt(v) ==
  CASE v.type = "Int"    -> v.i
    [] v.type = "Double" ->
         IF v.num >= (IntMax + 1) * v.den       THEN IntMax
         ELSE IF v.num < -(IntMax + 1) * v.den  THEN -IntMax - 1
         ELSE IF v.num >= 0 THEN v.num \div v.den ELSE -((-v.num) \div v.den)
    [] OTHER -> 0

----------------------------------------------------------------------------
\* Strings.

HexValue == DigitValue @@
  ("a" :> 10 @@ "b" :> 11 @@ "c" :> 12 @@ "d" :> 13 @@ "e" :> 14 @@ "f" :> 15) @@
  ("A" :> 10 @@ "B" :> 11 @@ "C" :> 12 @@ "D" :> 13 @@ "E" :> 14 @@ "F" :> 15)

Hex4(t, i) ==
  IF \A k \in i .. i + 3 : At(t, k) \in DOMAIN HexValue
  THEN Got(FoldLeft(LAMBDA acc, c : acc * 16 + HexValue[c], 0, SubSeq(t, i, i + 3)), i + 4)
  ELSE Bad

\* The UTF-8 bytes of a code point.
Utf8(cp) ==
  LET Tail6(n) == 128 + ((cp \div n) % 64)
  IN CASE cp < 128   -> <<cp>>
       [] cp \in 128 .. 2047 -> <<192 + cp \div 64, Tail6(1)>>
       [] cp \in 2048 .. 65535 -> <<224 + cp \div 4096, Tail6(64), Tail6(1)>>
       [] cp > 65535 -> <<240 + cp \div 262144, Tail6(4096), Tail6(64), Tail6(1)>>

Byte(n) == IF n \in DOMAIN Ascii THEN Ascii[n] ELSE ToString(n)

Encoded(cp) == [k \in DOMAIN Utf8(cp) |-> Byte(Utf8(cp)[k])]

High == 55296 .. 56319
Low  == 56320 .. 57343

\* A \u escape, from its digits on; a high surrogate needs its low half.
CodePoint(t, i) ==
  LET h == Hex4(t, i)
      l == IF At(t, i + 4) = "\\" /\ At(t, i + 5) = "u" THEN Hex4(t, i + 6) ELSE Bad
  IN IF ~h.ok \/ h.val \notin High THEN h
     ELSE IF l.ok /\ l.val \in Low
     THEN Got(65536 + (h.val - 55296) * 1024 + (l.val - 56320), l.next)
     ELSE Bad

Unescape == "\"" :> "\"" @@ "\\" :> "\\" @@ "/" :> "/" @@ "b" :> Byte(8) @@
            "f" :> "\f" @@ "n" :> "\n" @@ "r" :> "\r" @@ "t" :> "\t"

\* A string, from past its opening quote; s is what has been read of it.
RECURSIVE StringFrom(_, _, _)
StringFrom(t, i, s) ==
  LET c == At(t, i)
      u == CodePoint(t, i + 2)
  IN CASE c = "eof" -> Bad
       [] c = "\""  -> Got(s, i + 1)
       [] c = "\\" /\ At(t, i + 1) \in DOMAIN Unescape ->
            StringFrom(t, i + 2, Append(s, Unescape[At(t, i + 1)]))
       [] c = "\\" /\ At(t, i + 1) = "u" ->
            IF u.ok THEN StringFrom(t, u.next, s \o Encoded(u.val)) ELSE Bad
       [] c = "\\" /\ At(t, i + 1) \notin DOMAIN Unescape \cup {"u"} -> Bad
       [] OTHER -> StringFrom(t, i + 1, Append(s, c))

----------------------------------------------------------------------------
\* Values.

Null      == [type |-> "Null"]
Bool(b)   == [type |-> "Bool", b |-> b]
Str(s)    == [type |-> "String", s |-> s]
Arr(vs)   == [type |-> "Array", arr |-> vs]

\* Members in the order they were first named, each with its last value.
Obj(ms) == [type |-> "Object", obj |-> ms]

SetMember(ms, k, v) ==
  IF \E n \in DOMAIN ms : ms[n].key = k
  THEN [n \in DOMAIN ms |-> IF ms[n].key = k THEN [key |-> k, val |-> v] ELSE ms[n]]
  ELSE Append(ms, [key |-> k, val |-> v])

Literals == {<<Chars("true"), Bool(TRUE)>>, <<Chars("false"), Bool(FALSE)>>,
             <<Chars("null"), Null>>}

RECURSIVE Value(_, _), Members(_, _, _), Elements(_, _, _)

Value(t, j) ==
  LET i == SkipWs(t, j)
      c == At(t, i)
      s == StringFrom(t, i + 1, <<>>)
      Here(w) == SubSeq(t, i, Min({Len(t), i + Len(w) - 1})) = w
  IN CASE c = "\"" -> IF s.ok THEN Got(Str(s.val), s.next) ELSE Bad
       [] c = "{"  -> IF At(t, SkipWs(t, i + 1)) = "}"
                      THEN Got(Obj(<<>>), SkipWs(t, i + 1) + 1) ELSE Members(t, i + 1, <<>>)
       [] c = "["  -> IF At(t, SkipWs(t, i + 1)) = "]"
                      THEN Got(Arr(<<>>), SkipWs(t, i + 1) + 1) ELSE Elements(t, i + 1, <<>>)
       [] \E l \in Literals : Here(l[1]) ->
            LET l == CHOOSE l \in Literals : Here(l[1]) IN Got(l[2], i + Len(l[1]))
       [] c \in Digit \cup {"-"} -> Number(t, i)
       [] OTHER -> Bad

Members(t, i, ms) ==
  LET q == SkipWs(t, i)
      k == StringFrom(t, q + 1, <<>>)
      c == SkipWs(t, k.next)
      v == Value(t, c + 1)
      all == SetMember(ms, k.val, v.val)
      n == SkipWs(t, v.next)
  IN IF At(t, q) # "\"" \/ ~k.ok        THEN Bad
     ELSE IF At(t, c) # ":" \/ ~v.ok    THEN Bad
     ELSE IF At(t, n) = "}"             THEN Got(Obj(all), n + 1)
     ELSE IF At(t, n) = ","             THEN Members(t, n + 1, all)
     ELSE Bad

Elements(t, i, vs) ==
  LET v == Value(t, i)
      n == SkipWs(t, v.next)
  IN IF ~v.ok                THEN Bad
     ELSE IF At(t, n) = "]"  THEN Got(Arr(Append(vs, v.val)), n + 1)
     ELSE IF At(t, n) = ","  THEN Elements(t, n + 1, Append(vs, v.val))
     ELSE Bad

\* Json::parse: one value and nothing after it.
Parse(t) ==
  LET v == Value(t, 1)
  IN IF v.ok /\ SkipWs(t, v.next) > Len(t) THEN v.val ELSE Bad

\* What the callers see of a value; what is missing or of another type is Null,
\* empty, zero or false.
MemberKeys(v) == IF v.type = "Object" THEN {v.obj[n].key : n \in DOMAIN v.obj} ELSE {}
Has(v, k)     == Chars(k) \in MemberKeys(v)
Member(v, k)  == IF Has(v, k)
                 THEN (CHOOSE m \in Range(v.obj) : m.key = Chars(k)).val ELSE Null
Items(v)      == IF v.type = "Array" THEN v.arr ELSE <<>>
AsString(v)   == IF v.type = "String" THEN v.s ELSE <<>>
AsStringArray(v) == [i \in DOMAIN Items(v) |-> AsString(Items(v)[i])]
AsBool(v)     == v.type = "Bool" /\ v.b
SizeOf(v)     == IF v.type = "Object" THEN Len(v.obj) ELSE Len(Items(v))

----------------------------------------------------------------------------
\* The writers.

Escape == "\"" :> <<"\\", "\"">> @@ "\\" :> <<"\\", "\\">> @@
          "\n" :> <<"\\", "n">> @@ "\r" :> <<"\\", "r">> @@ "\t" :> <<"\\", "t">>

\* json_str()
JsonStr(s) ==
  <<"\"">> \o FlattenSeq([i \in DOMAIN s |->
     IF s[i] \in DOMAIN Escape THEN Escape[s[i]] ELSE <<s[i]>>]) \o <<"\"">>

Joined(texts) ==
  FlattenSeq([i \in DOMAIN texts |-> IF i = 1 THEN texts[i] ELSE <<",">> \o texts[i]])

RECURSIVE Render(_)
Render(v) ==
  CASE v.type = "Null"   -> Chars("null")
    [] v.type = "Bool"   -> Chars(IF v.b THEN "true" ELSE "false")
    [] v.type = "Int"    -> Chars(ToString(v.i))
    [] v.type = "String" -> JsonStr(v.s)
    [] v.type = "Array"  ->
         <<"[">> \o Joined([i \in DOMAIN v.arr |-> Render(v.arr[i])]) \o <<"]">>
    [] v.type = "Object" ->
         <<"{">> \o Joined([i \in DOMAIN v.obj |->
           JsonStr(v.obj[i].key) \o <<":">> \o Render(v.obj[i].val)]) \o <<"}">>

----------------------------------------------------------------------------
\* Whatever a Client writes it reads back; what a crash cut short, or wrote over
\* a longer text, it does not read at all.
WrittenIsRead(objects) ==
  LET text == [v \in objects |-> Render(v)]
  IN \A v \in objects :
       /\ Parse(text[v]) = v
       /\ \A n \in 0 .. Len(text[v]) - 1 : Parse(SubSeq(text[v], 1, n)) = Bad
       /\ \A w \in objects : Len(text[w]) > Len(text[v]) =>
            Parse(text[v] \o SubSeq(text[w], Len(text[v]) + 1, Len(text[w]))) = Bad

\* as_int() is the number as it was written, cut to a whole one and saturated:
\* sign, whole digits, fraction and exponent.
Saturate(n) == IF n > IntMax THEN IntMax ELSE IF n < -IntMax - 1 THEN -IntMax - 1 ELSE n

NumbersSaturate(whole, fractions, exponents) ==
  \A sign \in {-1, 1}, n \in whole, f \in fractions, e \in exponents :
    LET text == (IF sign < 0 THEN <<"-">> ELSE <<>>) \o Chars(ToString(n))
                  \o (IF f = <<>> THEN <<>> ELSE <<".">> \o f)
                  \o (IF e = 0 THEN <<>> ELSE <<"e">> \o Chars(ToString(e)))
        num  == (n * Power(Len(f)) + Decimal(f)) * Power(IF e > 0 THEN e ELSE 0)
        den  == Power(Len(f)) * Power(IF e < 0 THEN -e ELSE 0)
    IN AsInt(Parse(text)) = Saturate(sign * (num \div den))

\* Every code point comes back from its escapes as its UTF-8: the bytes' low
\* bits, put together, are the code point.
Bits(cp) == LET u == Utf8(cp) IN
  FoldLeft(LAMBDA acc, b : acc * 64 + (b % 64), 0, Tail(u)) +
  CASE Len(u) = 1 -> u[1]
    [] Len(u) = 2 -> (u[1] % 32) * 64
    [] Len(u) = 3 -> (u[1] % 16) * 4096
    [] Len(u) = 4 -> (u[1] % 8) * 262144

EscapesDecode(points, HexOf(_)) ==
  \A cp \in points :
    LET Unit(n) == <<"\\", "u">> \o HexOf(n)
        text == IF cp < 65536 THEN Unit(cp)
                ELSE Unit(55296 + (cp - 65536) \div 1024) \o Unit(56320 + (cp % 1024))
    IN /\ Parse(<<"\"">> \o text \o <<"\"">>) = Str(Encoded(cp))
       /\ Bits(cp) = cp
=============================================================================
