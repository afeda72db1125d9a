------------------------------- MODULE Numerals -------------------------------
(***************************************************************************)
(* Numbers and the limbs that stand for them, the lowest first.            *)
(***************************************************************************)
EXTENDS Integers, Sequences, SequencesExt

Indices(n) == [i \in 1 .. n |-> i]

ValueOf(limbs, radix) == FoldRight(LAMBDA x, acc : acc * radix + x, limbs, 0)

LimbsOf(v, radix, n) == [i \in 1 .. n |-> (v \div radix^(i - 1)) % radix]

SumOver(S, f(_)) == FoldLeft(LAMBDA acc, i : acc + f(i), 0, SetToSeq(S))
=============================================================================
