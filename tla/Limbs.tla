-------------------------------- MODULE Limbs ---------------------------------
(***************************************************************************)
(* The carry arithmetic of ed25519.hpp over fewer and narrower limbs: the  *)
(* field, and the reduction of a hash modulo the group order.  Each is a   *)
(* function of limbs, and is compared with the number they stand for.      *)
(* \div rounds down, as >> does with the negative values the carries pass  *)
(* through.                                                                *)
(***************************************************************************)
EXTENDS Numerals

CONSTANTS
  N, Radix, C,            \* the field: N limbs, and 2^k - C with one bit spare
  InvSkip, PowSkip,       \* the bits its exponents lack
  Digits, Base, Shift,    \* the group order: Digits digits of Base, the top one
  Delta, Spare            \*   Base \div 2^Shift, and the lowest Delta's; a
                          \*   carry runs Spare digits further

----------------------------------------------------------------------------
\* The field.  The top limb keeps one bit less than the others.
Prime == Radix^N \div 2 - C

\* gf_car: the carry of the top limb comes in at the bottom, 2C-fold.
Carry(o) ==
  FoldLeft(LAMBDA x, i :
    LET c == (x[i] + Radix) \div Radix - 1
        n == IF i = N THEN 1 ELSE i + 1
    IN [[x EXCEPT ![i] = @ - c * Radix] EXCEPT ![n] = @ + c * (IF i = N THEN 2 * C ELSE 1)],
    o, Indices(N))

Add(a, b) == [i \in 1 .. N |-> a[i] + b[i]]
Sub(a, b) == [i \in 1 .. N |-> a[i] - b[i]]

\* gf_mul: the upper half of the product comes in at the bottom as well.
Mul(a, b) ==
  LET t(k) == SumOver({i \in 1 .. N : k - i + 1 \in 1 .. N}, LAMBDA i : a[i] * b[k - i + 1])
      low  == [k \in 1 .. N |-> t(k) + (IF k < N THEN 2 * C * t(k + N) ELSE 0)]
  IN Carry(Carry(low))

\* One subtraction of the prime, borrowing from limb to limb; kept unless the top
\* limb borrows.
Subtracted(t) ==
  LET Low(i) == IF i = 1 THEN Radix - C ELSE IF i = N THEN Radix \div 2 - 1 ELSE Radix - 1
      step(acc, i) == LET m == t[i] - Low(i) - acc.borrow
                      IN [borrow |-> (m \div Radix) % 2, m |-> Append(acc.m, m % Radix)]
      all == FoldLeft(step, [borrow |-> 0, m |-> <<>>], Indices(N))
  IN IF all.borrow = 1 THEN t ELSE all.m

\* gf_pack: the one representation below the prime.
Pack(n) ==
  LET t == Carry(Carry(Carry(n)))
  IN FoldLeft(LAMBDA x, i : Subtracted(x), t, Indices(2))

\* gf_unpack drops the topmost bit.
Unpack(v) == LimbsOf(v % (Radix^N \div 2), Radix, N)

\* Square and multiply, from one bit below the top, but for the bits to skip.
Chain(x, top, skip) ==
  FoldLeft(LAMBDA c, i : LET a == top - i + 1
                         IN IF a \in skip THEN Mul(c, c) ELSE Mul(Mul(c, c), x),
           x, Indices(top + 1))

LogTwo(v) == CHOOSE k \in 0 .. 30 : 2^k = v
Width     == LogTwo(Radix) * N - 1

\* gf_inv and gf_pow2523
Invert(x)   == Chain(x, Width - 2, InvSkip)
SqrtPower(x) == Chain(x, Width - 5, PowSkip)

----------------------------------------------------------------------------
\* The group order.
DeltaDigits == Len(Delta)
Order == [i \in 1 .. Digits |-> IF i <= DeltaDigits THEN Delta[i]
                                ELSE IF i = Digits THEN Base \div 2^Shift ELSE 0]

\* One digit from the top is replaced by its multiple of Delta, with signed carries.
Fold(x, i) ==
  LET lo == i - Digits - 1
      step(acc, j) ==
        LET v == acc.x[j] + acc.carry
                 - (IF j - lo \in 1 .. DeltaDigits THEN 2^Shift * x[i] * Delta[j - lo] ELSE 0)
            c == (v + Base \div 2) \div Base
        IN [x |-> [acc.x EXCEPT ![j] = v - c * Base], carry |-> c]
      run == FoldLeft(step, [x |-> x, carry |-> 0],
                      [k \in 1 .. DeltaDigits + Spare |-> lo + k])
      top == lo + DeltaDigits + Spare + 1
  IN [run.x EXCEPT ![top] = @ + run.carry, ![i] = 0]

\* kl_modL
ModL(digits) ==
  LET x == FoldLeft(Fold, digits, [k \in 1 .. Digits |-> 2 * Digits + 1 - k])
      q == x[Digits] \div (Base \div 2^Shift)
      step(acc, j) == LET v == acc.x[j] + acc.carry - q * Order[j]
                      IN [x |-> [acc.x EXCEPT ![j] = v % Base], carry |-> v \div Base]
      run == FoldLeft(step, [x |-> x, carry |-> 0], Indices(Digits))
      y   == [j \in 1 .. Digits |-> run.x[j] - run.carry * Order[j]]
      norm(acc, j) == LET v == y[j] + acc.carry
                      IN [r |-> Append(acc.r, v % Base), carry |-> v \div Base]
  IN FoldLeft(norm, [r |-> <<>>, carry |-> 0], Indices(Digits)).r

----------------------------------------------------------------------------
\* Whatever the limbs carry and borrow, they are the field: products of sums and
\* differences, inverses and roots, at the bounds of a limb and of the prime.
FieldIsModular(samples) ==
  /\ \A a, b \in samples :
       /\ ValueOf(Pack(Mul(Unpack(a), Unpack(b))), Radix) = (a * b) % Prime
       /\ ValueOf(Pack(Mul(Sub(Unpack(a), Unpack(b)), Add(Unpack(a), Unpack(b)))), Radix)
            = (((a - b) % Prime) * ((a + b) % Prime)) % Prime
  /\ \A a \in samples :
       /\ ValueOf(Pack(Unpack(a)), Radix) = a % Prime
       /\ a % Prime # 0 =>
            ValueOf(Pack(Mul(Invert(Unpack(a)), Unpack(a))), Radix) = 1
       /\ LET root == SqrtPower(Unpack(a))
              eighth == Mul(Mul(Mul(root, root), Mul(root, root)),
                            Mul(Mul(root, root), Mul(root, root)))
              fifth == Mul(Mul(Mul(Unpack(a), Unpack(a)), Mul(Unpack(a), Unpack(a))), Unpack(a))
          IN Pack(Mul(eighth, fifth)) = Pack(Unpack(a))

\* A hash of twice the order's length is reduced to the least remainder.
OrderReduces(hashes) ==
  \A x \in hashes :
    ValueOf(ModL(x), Base) =
      FoldRight(LAMBDA d, acc : (acc * Base + d) % ValueOf(Order, Base), x, 0)
=============================================================================
