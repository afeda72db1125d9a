------------------------------ MODULE FoldProofs ------------------------------
(***************************************************************************)
(* What a left fold over a sequence computes, for any operator: its value  *)
(* on the empty sequence, and one more round for one more element.  Most   *)
(* loops of the code over text or bytes are modelled by such folds.        *)
(*                                                                         *)
(* Op is a CONSTANT and not a parameter of the theorems: a module that     *)
(* proves something of a loop instantiates this one with its body.  p is   *)
(* what the body takes from outside of the loop.                           *)
(***************************************************************************)
EXTENDS Integers, Sequences, SequencesExt, WellFoundedInduction, TLAPS

CONSTANT Op(_, _, _)

Fold(p, b, s) == FoldLeft(LAMBDA x, e : Op(p, x, e), b, s)

----------------------------------------------------------------------------
\* Induction, for sets in place of predicates.
LEMMA NatInduct ==
  \A T : 0 \in T /\ (\A n \in Nat : n \in T => n + 1 \in T) => \A n \in Nat : n \in T
<1> TAKE T
<1> HAVE 0 \in T /\ \A n \in Nat : n \in T => n + 1 \in T
<1> SUFFICES ASSUME NEW n \in Nat, n \notin T PROVE FALSE
  OBVIOUS
<1> DEFINE U == Nat \ T
           R == {ss \in Nat \X Nat : ss[1] < ss[2]}
<1>a. IsWellFoundedOn(R, Nat)
  BY NatLessThanWellFounded DEF OpToRel
<1>1. PICK x \in U : \A y \in U : <<y, x>> \notin R
  <2>1. n \in U /\ U \subseteq Nat /\ U # {}
    OBVIOUS
  <2> HIDE DEF U, R
  <2>2. \E x \in U : \A y \in U : ~ (<<y, x>> \in R)
    BY <1>a, <2>1, WFMin
  <2> QED BY <2>2
<1>2. x # 0 /\ x - 1 \in Nat
  BY <1>1
<1>3. x - 1 \notin U
  <2>1. <<x - 1, x>> \in R
    BY <1>2
  <2> HIDE DEF R
  <2> QED BY <1>1, <2>1
<1> QED
  BY <1>1, <1>2, <1>3

LEMMA SeqInduct ==
  \A S, T : <<>> \in T /\ (\A s \in Seq(S), e \in S : s \in T => Append(s, e) \in T) =>
    \A s \in Seq(S) : s \in T
<1> TAKE S, T
<1> HAVE <<>> \in T /\ \A s \in Seq(S), e \in S : s \in T => Append(s, e) \in T
<1> DEFINE L == {n \in Nat : \A s \in Seq(S) : Len(s) = n => s \in T}
<1>1. 0 \in L
  OBVIOUS
<1>2. ASSUME NEW n \in Nat, n \in L PROVE n + 1 \in L
  <2> SUFFICES ASSUME NEW s \in Seq(S), Len(s) = n + 1 PROVE s \in T
    OBVIOUS
  <2> DEFINE u == SubSeq(s, 1, n)
  <2>1. u \in Seq(S) /\ Len(u) = n /\ s[n + 1] \in S
    OBVIOUS
  <2>2. s = Append(u, s[n + 1])
    OBVIOUS
  <2> QED BY <1>2, <2>1, <2>2
<1> HIDE DEF L
<1>3. \A n \in Nat : n \in L
  BY <1>1, <1>2, NatInduct
<1> QED
  BY <1>3 DEF L

----------------------------------------------------------------------------
\* g is the function by which MapThenFoldSet goes through the first n elements.
Goes(g, n, p, b, s) ==
  g = [D \in SUBSET (1 .. n) |->
         IF D = {} THEN b ELSE Op(p, g[D \ {Max(D)}], s[Max(D)])]

LEMMA MaxOf ==
  ASSUME NEW n \in Nat, NEW D \in SUBSET (1 .. n + 1), n + 1 \in D
  PROVE  Max(D) = n + 1
<1>1. n + 1 \in D /\ \A y \in D : n + 1 >= y
  OBVIOUS
<1>2. \A x \in D : (\A y \in D : x >= y) => x = n + 1
  BY <1>1
<1> QED BY <1>1, <1>2 DEF Max

LEMMA GoesExists ==
  \A p, b, s : \A n \in Nat : \E g : Goes(g, n, p, b, s)
<1> TAKE p, b, s
<1> DEFINE L == {n \in Nat : \E g : Goes(g, n, p, b, s)}
<1>1. 0 \in L
  <2>1. Goes([D \in SUBSET (1 .. 0) |-> b], 0, p, b, s)
    <3>1. SUBSET (1 .. 0) = {{}}
      OBVIOUS
    <3> QED BY <3>1 DEF Goes
  <2> QED BY <2>1
<1>2. ASSUME NEW n \in Nat, n \in L PROVE n + 1 \in L
  <2>1. PICK g : Goes(g, n, p, b, s)
    BY <1>2
  <2> DEFINE h == [D \in SUBSET (1 .. n + 1) |->
                     IF n + 1 \in D THEN Op(p, g[D \ {n + 1}], s[n + 1]) ELSE g[D]]
  <2>2. ASSUME NEW D \in SUBSET (1 .. n + 1)
        PROVE  h[D] = IF D = {} THEN b ELSE Op(p, h[D \ {Max(D)}], s[Max(D)])
    <3>1. CASE n + 1 \in D
      <4>1. Max(D) = n + 1
        BY <3>1, MaxOf
      <4>2. D \ {n + 1} \in SUBSET (1 .. n + 1) /\ n + 1 \notin D \ {n + 1}
        OBVIOUS
      <4>3. h[D \ {n + 1}] = g[D \ {n + 1}]
        BY <4>2
      <4> QED BY <3>1, <4>1, <4>3
    <3>2. CASE n + 1 \notin D
      <4>1. D \in SUBSET (1 .. n) /\ D \ {Max(D)} \in SUBSET (1 .. n)
        <5>1. \A x \in D : x \in 1 .. n
          BY <3>2
        <5> QED BY <5>1
      <4>2. h[D] = g[D] /\ h[D \ {Max(D)}] = g[D \ {Max(D)}]
        <5>1. /\ D \in SUBSET (1 .. n + 1) /\ D \ {Max(D)} \in SUBSET (1 .. n + 1)
              /\ n + 1 \notin D \ {Max(D)}
          BY <3>2
        <5> QED BY <3>2, <5>1
      <4>3. g[D] = IF D = {} THEN b ELSE Op(p, g[D \ {Max(D)}], s[Max(D)])
        BY <2>1, <4>1 DEF Goes
      <4> QED BY <4>2, <4>3
    <3> QED BY <3>1, <3>2
  <2>3. Goes(h, n + 1, p, b, s)
    <3> DEFINE k == [D \in SUBSET (1 .. n + 1) |->
                       IF D = {} THEN b ELSE Op(p, h[D \ {Max(D)}], s[Max(D)])]
    <3>1. \A D \in SUBSET (1 .. n + 1) : h[D] = k[D]
      BY <2>2
    <3>2. /\ DOMAIN h = SUBSET (1 .. n + 1) /\ h = [D \in DOMAIN h |-> h[D]]
          /\ DOMAIN k = SUBSET (1 .. n + 1) /\ k = [D \in DOMAIN k |-> k[D]]
      OBVIOUS
    <3> HIDE DEF h
    <3>3. h = k
      BY <3>1, <3>2
    <3> QED BY <3>3 DEF Goes
  <2> QED BY <2>3
<1> HIDE DEF L
<1>3. \A n \in Nat : n \in L
  BY <1>1, <1>2, NatInduct
<1> QED
  BY <1>3 DEF L

\* It takes the elements in their order.
LEMMA GoesOn ==
  \A p, b, s, g : \A n \in Nat : Goes(g, n, p, b, s) =>
    /\ g[1 .. 0] = b
    /\ \A k \in 1 .. n : g[1 .. k] = Op(p, g[1 .. k - 1], s[k])
<1> TAKE p, b, s, g
<1> TAKE n \in Nat
<1> HAVE Goes(g, n, p, b, s)
<1>1. g[1 .. 0] = b
  BY DEF Goes
<1>2. ASSUME NEW k \in 1 .. n PROVE g[1 .. k] = Op(p, g[1 .. k - 1], s[k])
  <2>1. Max(1 .. k) = k
    BY DEF Max
  <2>2. (1 .. k) \ {k} = 1 .. k - 1 /\ 1 .. k # {} /\ 1 .. k \in SUBSET (1 .. n)
    OBVIOUS
  <2>3. g[1 .. k] = Op(p, g[(1 .. k) \ {Max(1 .. k)}], s[Max(1 .. k)])
    BY <2>2 DEF Goes
  <2> QED BY <2>1, <2>2, <2>3
<1> QED BY <1>1, <1>2

\* It depends on nothing but the elements it has come to.
LEMMA GoesAlike ==
  ASSUME NEW p, NEW b, NEW s, NEW t, NEW n \in Nat, NEW m \in Nat, NEW g, NEW h,
         Goes(g, n, p, b, s), Goes(h, m, p, b, t),
         m <= n, \A i \in 1 .. m : s[i] = t[i]
  PROVE  g[1 .. m] = h[1 .. m]
<1> DEFINE L == {k \in Nat : k <= m => g[1 .. k] = h[1 .. k]}
<1>1. 0 \in L
  <2>1. g[1 .. 0] = b
    BY GoesOn
  <2>2. h[1 .. 0] = b
    BY GoesOn
  <2> QED BY <2>1, <2>2
<1>2. ASSUME NEW k \in Nat, k \in L PROVE k + 1 \in L
  <2> SUFFICES ASSUME k + 1 <= m PROVE g[1 .. k + 1] = h[1 .. k + 1]
    OBVIOUS
  <2>1. k + 1 \in 1 .. m /\ k + 1 \in 1 .. n /\ (k + 1) - 1 = k /\ g[1 .. k] = h[1 .. k]
    BY <1>2
  <2>2. \A i \in 1 .. n : g[1 .. i] = Op(p, g[1 .. i - 1], s[i])
    BY GoesOn
  <2>3. \A i \in 1 .. m : h[1 .. i] = Op(p, h[1 .. i - 1], t[i])
    BY GoesOn
  <2> QED BY <2>1, <2>2, <2>3
<1> HIDE DEF L
<1>3. \A k \in Nat : k \in L
  BY <1>1, <1>2, NatInduct
<1> QED
  BY <1>3 DEF L

\* FoldLeft is that function's last value.
LEMMA FoldGoes ==
  ASSUME NEW S, NEW s \in Seq(S), NEW p, NEW b
  PROVE  \E g : Goes(g, Len(s), p, b, s) /\ Fold(p, b, s) = g[1 .. Len(s)]
<1> DEFINE E(g) == Goes(g, Len(s), p, b, s)
           c == CHOOSE g : E(g)
<1>1. DOMAIN s = 1 .. Len(s) /\ Len(s) \in Nat
  OBVIOUS
<1>2. Fold(p, b, s) = c[1 .. Len(s)]
  BY <1>1 DEF Fold, FoldLeft, MapThenFoldSet, Goes
<1>3. \E g : E(g)
  BY <1>1, GoesExists
<1>4. E(c)
  BY <1>3
<1> QED BY <1>2, <1>4

----------------------------------------------------------------------------
\* A loop over nothing leaves what it began with.
LEMMA FoldEmpty == \A p, b : Fold(p, b, <<>>) = b
<1> TAKE p, b
<1>1. <<>> \in Seq({}) /\ Len(<<>>) = 0
  OBVIOUS
<1>2. PICK g : Goes(g, 0, p, b, <<>>) /\ Fold(p, b, <<>>) = g[1 .. 0]
  BY <1>1, FoldGoes
<1>3. g[1 .. 0] = b
  BY <1>2, GoesOn
<1> QED BY <1>2, <1>3

\* One more element is one more round.
LEMMA FoldAppend ==
  \A S : \A s \in Seq(S), e \in S : \A p, b :
    Fold(p, b, Append(s, e)) = Op(p, Fold(p, b, s), e)
<1> TAKE S
<1> TAKE s \in Seq(S), e \in S
<1> TAKE p, b
<1> DEFINE t == Append(s, e)
           n == Len(s)
<1>1. /\ t \in Seq(S) /\ Len(t) = n + 1 /\ n \in Nat /\ t[n + 1] = e
      /\ \A i \in 1 .. n : t[i] = s[i]
  OBVIOUS
<1>2. PICK g : Goes(g, n, p, b, s) /\ Fold(p, b, s) = g[1 .. n]
  BY FoldGoes
<1>3. PICK h : Goes(h, n + 1, p, b, t) /\ Fold(p, b, t) = h[1 .. n + 1]
  BY <1>1, FoldGoes
<1> HIDE DEF t, n
<1>4. h[1 .. n] = g[1 .. n]
  BY <1>1, <1>2, <1>3, GoesAlike
<1>5. h[1 .. n + 1] = Op(p, h[1 .. n], e)
  <2>1. n + 1 \in 1 .. n + 1 /\ (n + 1) - 1 = n
    BY <1>1
  <2> QED BY <1>1, <1>3, <2>1, GoesOn
<1>6. Fold(p, b, t) = Op(p, Fold(p, b, s), e)
  BY <1>2, <1>3, <1>4, <1>5
<1> QED BY <1>6 DEF t

\* What every round preserves holds in the end.
LEMMA FoldType ==
  \A p, S, T : \A b \in T :
    (\A x \in T, e \in S : Op(p, x, e) \in T) => \A s \in Seq(S) : Fold(p, b, s) \in T
<1> TAKE p, S, T
<1> TAKE b \in T
<1> HAVE \A x \in T, e \in S : Op(p, x, e) \in T
<1> DEFINE U == {s \in Seq(S) : Fold(p, b, s) \in T}
<1>1. <<>> \in U
  BY FoldEmpty
<1>2. ASSUME NEW s \in Seq(S), NEW e \in S, s \in U PROVE Append(s, e) \in U
  BY <1>2, FoldAppend
<1> HIDE DEF U
<1>3. \A s \in Seq(S) : s \in U
  BY <1>1, <1>2, SeqInduct
<1> QED BY <1>3 DEF U

\* A loop over two pieces goes on where it was left.
LEMMA FoldConcat ==
  \A S : \A s, t \in Seq(S) : \A p, b : Fold(p, b, s \o t) = Fold(p, Fold(p, b, s), t)
<1> TAKE S
<1> TAKE s, t \in Seq(S)
<1> TAKE p, b
<1> DEFINE U == {u \in Seq(S) : Fold(p, b, s \o u) = Fold(p, Fold(p, b, s), u)}
<1>1. <<>> \in U
  <2>1. s \o <<>> = s
    OBVIOUS
  <2> QED BY <2>1, FoldEmpty
<1>2. ASSUME NEW u \in Seq(S), NEW e \in S, u \in U PROVE Append(u, e) \in U
  <2>1. s \o Append(u, e) = Append(s \o u, e) /\ s \o u \in Seq(S)
    OBVIOUS
  <2>2. Fold(p, b, Append(s \o u, e)) = Op(p, Fold(p, b, s \o u), e)
    BY <2>1, FoldAppend
  <2>3. Fold(p, Fold(p, b, s), Append(u, e)) = Op(p, Fold(p, Fold(p, b, s), u), e)
    BY FoldAppend
  <2>4. Fold(p, b, s \o Append(u, e)) = Fold(p, Fold(p, b, s), Append(u, e))
    BY <1>2, <2>1, <2>2, <2>3
  <2>5. Append(u, e) \in Seq(S)
    OBVIOUS
  <2> QED BY <2>4, <2>5
<1> HIDE DEF U
<1>3. \A u \in Seq(S) : u \in U
  BY <1>1, <1>2, SeqInduct
<1> QED BY <1>3 DEF U
=============================================================================
