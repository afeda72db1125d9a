-------------------------------- MODULE Ed25519 -------------------------------
(***************************************************************************)
(* ed25519_verify over a small curve: the points, the ladder, the encoded  *)
(* points and the check of a signature as ed25519.hpp computes them.  The  *)
(* field's numbers are taken modulo P here; that its limbs compute them is *)
(* the subject of Limbs.  The hash is Digest's.                            *)
(*                                                                         *)
(* The curve is -x^2 + y^2 = 1 + D x^2 y^2 modulo P, with P % 8 = 5; its   *)
(* base point generates a subgroup of prime order L.                       *)
(***************************************************************************)
EXTENDS Digest

CONSTANTS
  P, D, RootOfMinusOne,
  BaseX, BaseY, L,
  YBits,             \* a number of the field has so many bits; the sign is above
  ScalarBits, SBits, \* a scalar's bits, and those a signature's may use
  None

F(v) == v % P

RECURSIVE Pow(_, _)
Pow(x, n) == IF n = 0 THEN 1
             ELSE LET half == Pow(F(x * x), n \div 2)
                  IN IF n % 2 = 0 THEN half ELSE F(x * half)

Inv(x) == Pow(x, P - 2)      \* gf_inv: nothing for 0

\* pt_add, in coordinates <<X, Y, Z, T>> with x = X/Z, y = Y/Z and T = XY/Z.
PtAdd(p, q) ==
  LET a == F((p[2] - p[1]) * (q[2] - q[1]))
      b == F((p[1] + p[2]) * (q[1] + q[2]))
      c == F(F(p[4] * q[4]) * F(2 * D))
      d == F(2 * F(p[3] * q[3]))
      e == F(b - a)
      f == F(d - c)
      g == F(d + c)
      h == F(b + a)
  IN <<F(e * f), F(h * g), F(g * f), F(e * h)>>

Neutral == <<0, 1, 1, 0>>

BitOf(s, i) == (s \div 2^i) % 2

\* pt_scalarmult: from the top bit down, swapped before and after for a bit that is set.
ScalarMult(q, s) ==
  LET rung(acc, k) ==
        LET b == BitOf(s, ScalarBits - k) = 1
            p0 == IF b THEN acc.q ELSE acc.p
            q0 == IF b THEN acc.p ELSE acc.q
            q1 == PtAdd(q0, p0)
            p1 == PtAdd(p0, p0)
        IN [p |-> IF b THEN q1 ELSE p1, q |-> IF b THEN p1 ELSE q1]
  IN FoldLeft(rung, [p |-> Neutral, q |-> q], [k \in 1 .. ScalarBits |-> k]).p

\* pt_scalarbase
ScalarBase(s) == ScalarMult(<<BaseX, BaseY, 1, F(BaseX * BaseY)>>, s)

\* pt_pack: y, and the parity of x above it.
PtPack(p) ==
  LET zi == Inv(p[3])
  IN F(p[2] * zi) + 2^YBits * (F(p[1] * zi) % 2)

\* Seeded fault: the sign of the encoded point is not looked at.
SignedUnread(x, sign) == F(-x)

\* pt_unpackneg negates: the root of the encoded sign is turned over.
Signed(x, sign) == IF x % 2 = sign THEN F(-x) ELSE x

\* pt_unpackneg: the point of an encoded y, negated; None where y has no x.
UnpackNeg(e) ==
  LET y    == F(e % 2^YBits)
      sign == e \div 2^YBits
      num  == F(y * y - 1)
      den  == F(1 + F(D * F(y * y)))
      den3 == F(den * F(den * den))
      x1   == F(F(num * den3) * Pow(F(F(num * den3) * Pow(den, 4)), (P - 5) \div 8))
      Root(x) == F(F(x * x) * den) = num
      x2   == IF Root(x1) THEN x1 ELSE F(x1 * RootOfMinusOne)
      x    == Signed(x2, sign)
  IN IF Root(x2) THEN <<x, y, 1, F(x * y)>> ELSE None

\* The prefix R, A, then the message; reduced modulo the order (kl_reduce).
HashToScalar(R, A, msg) == Final512(Update512(Update512(Start, <<R, A>>), msg)) % L

\* ed25519_verify: sig is <<R, S>>.
Verify(msg, sig, pubkey) ==
  LET negA == UnpackNeg(pubkey)
      h    == HashToScalar(sig[1], pubkey, msg)
  IN /\ sig[2] < 2^SBits
     /\ negA # None
     /\ PtPack(PtAdd(ScalarBase(sig[2]), ScalarMult(negA, h))) = sig[1]

----------------------------------------------------------------------------
\* The curve's points and its law, as the standard gives them.
OnCurve(x, y) == F(y * y - x * x) = F(1 + F(D * F(x * x)) * F(y * y))

CurvePoints == {<<x, y>> \in (0 .. P - 1) \X (0 .. P - 1) : OnCurve(x, y)}

Affine(p)   == <<F(p[1] * Inv(p[3])), F(p[2] * Inv(p[3]))>>
Extended(c, z) == <<F(c[1] * z), F(c[2] * z), z, F(F(c[1] * c[2]) * z)>>

Sum(c, e) ==
  LET k == F(F(D * F(c[1] * e[1])) * F(c[2] * e[2]))
  IN <<F(F(c[1] * e[2] + c[2] * e[1]) * Inv(F(1 + k))),
       F(F(c[2] * e[2] + c[1] * e[1]) * Inv(F(1 - k)))>>

Encode(c) == c[2] + 2^YBits * (c[1] % 2)

\* Points are added as the curve's law says whatever their Z, and an encoded point
\* comes back negated; what encodes no point is refused.
PointsAdd(scales) ==
  /\ \A c, e \in CurvePoints, z \in scales :
       LET p == PtAdd(Extended(c, z), Extended(e, 1))
       IN Affine(p) = Sum(c, e) /\ F(p[1] * p[2]) = F(p[3] * p[4])
  /\ \A c \in CurvePoints : Affine(UnpackNeg(Encode(c))) = <<F(-c[1]), c[2]>>
  /\ \A y \in 0 .. P - 1 :
       (\A x \in 0 .. P - 1 : ~OnCurve(x, y)) =>
         UnpackNeg(y) = None /\ UnpackNeg(y + 2^YBits) = None

\* For every secret, every nonce and every message, a signature is accepted exactly
\* when its scalar is the signer's modulo the order, and below the bound.
SignaturesVerify(messages) ==
  \A a, r \in 0 .. L - 1, msg \in messages :
    LET A == PtPack(ScalarBase(a))
        R == PtPack(ScalarBase(r))
        S == (r + HashToScalar(R, A, msg) * a) % L
    IN \A s \in 0 .. 2^(SBits + 1) - 1 :
         Verify(msg, <<R, s>>, A) <=> (s < 2^SBits /\ s % L = S)
=============================================================================
