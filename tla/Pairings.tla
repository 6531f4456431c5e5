------------------------------ MODULE Pairings ------------------------------
(***************************************************************************)
(* The two implementations of the pairing that core/vm/contracts.go can be *)
(* built with, next to the arithmetic of a textbook: chords and tangents   *)
(* on the affine curve, polynomials multiplied term by term.  A behaviour  *)
(* counts a scalar up and adds the generators once per step.               *)
(*                                                                         *)
(* The curve is the one that the construction of Barreto and Naehrig gives *)
(* for another parameter u: the formulas depend on u, P, Order, the        *)
(* constant of the curve and xi alone.                                     *)
(***************************************************************************)
EXTENDS Integers, Sequences, FiniteSetsExt

CONSTANTS
  BNu, BNP, BNOrder, BNR, BNnp, BNXi, BNXiPowers, BNb, BNNaf,
  BNGen,          \* <<x, y>>: generator of the curve
  BNTwistGen,     \* <<xx, xy, yx, yy>>: generator of the twist's subgroup
  BNTwistOther,   \* a point of the twist that is not in the subgroup
  MaxScalar,      \* bound: the scalar goes beyond the order
  PairScalars     \* bound: the scalars whose pairings are computed

Big  == INSTANCE PairingBig WITH P <- BNP, Order <- BNOrder, u <- BNu, XiRe <- BNXi, XiPowers <- BNXiPowers,
                                 curveB <- BNb, sixuPlus2NAF <- BNNaf
Mont == INSTANCE PairingMont WITH P <- BNP, Order <- BNOrder, u <- BNu, R <- BNR, XiRe <- BNXi, XiPowers <- BNXiPowers,
                                  curveB <- BNb, sixuPlus2NAF <- BNNaf, np <- BNnp

ASSUME NegativeInverse == (BNP * BNnp) % BNR = BNR - 1
ASSUME PowersOfXi ==
    BNXiPowers = [i \in 1 .. 7 |-> Big!Exp2(Big!Xi, <<(BNP - 1) \div 6, (BNP - 1) \div 3, (BNP - 1) \div 2,
                                                    (2 * BNP - 2) \div 3, (BNP * BNP - 1) \div 3,
                                                    (2 * BNP * BNP - 2) \div 3, (BNP * BNP - 1) \div 6>>[i])]

-----------------------------------------------------------------------------
\* The textbook: the field of P^2 elements, pairs as in gfP2.
TextMod(e) == <<e[1] % BNP, e[2] % BNP>>
TextMul(a, b) == TextMod(<<a[1] * b[2] + a[2] * b[1], a[2] * b[2] - a[1] * b[1]>>)
TextSub(a, b) == TextMod(<<a[1] - b[1], a[2] - b[2]>>)
TextInverse(a) ==
    LET n == CHOOSE n \in 0 .. BNP - 1 : (n * (a[1] * a[1] + a[2] * a[2])) % BNP = 1 IN TextMod(<<-a[1] * n, a[2] * n>>)

\* Points: "infinity" or <<x, y>> over that field; a curve point has <<0, x>>.
TextNeg(p) == IF p = "infinity" THEN p ELSE <<p[1], TextSub(<<0, 0>>, p[2])>>
TextSlope(p, q) ==
    IF p = q THEN TextMul(TextMul(<<0, 3>>, TextMul(p[1], p[1])), TextInverse(TextMul(<<0, 2>>, p[2])))
    ELSE TextMul(TextSub(q[2], p[2]), TextInverse(TextSub(q[1], p[1])))
TextAdd(p, q) ==
    IF p = "infinity" THEN q
    ELSE IF q = "infinity" THEN p
    ELSE IF q = TextNeg(p) THEN "infinity"
    ELSE CHOOSE r \in {<<x, TextSub(TextMul(s, TextSub(p[1], x)), p[2])>> :
                       s \in {TextSlope(p, q)}, x \in {TextSub(TextSub(TextMul(TextSlope(p, q), TextSlope(p, q)), p[1]), q[1])}} : TRUE
OnTextbook(p, b) == TextMul(p[2], p[2]) = TextMod(<<TextMul(p[1], TextMul(p[1], p[1]))[1] + b[1], TextMul(p[1], TextMul(p[1], p[1]))[2] + b[2]>>)

\* What Marshal writes for a point.
Bytes1(p) == IF p = "infinity" THEN <<0, 0>> ELSE <<p[1][2], p[2][2]>>
Bytes2(p) == IF p = "infinity" THEN <<0, 0, 0, 0>> ELSE <<p[1][1], p[1][2], p[2][1], p[2][2]>>
Point1(m) == <<<<0, m[1]>>, <<0, m[2]>>>>
Point2(m) == <<<<m[1], m[2]>>, <<m[3], m[4]>>>>

\* gfP12 as polynomials of degree 5 in omega over the pairs, omega^6 = xi.
Terms(e) == <<e[2][3], e[1][3], e[2][2], e[1][2], e[2][1], e[1][1]>>
TextProduct(s, t) ==
    LET term(i, k) == IF i <= k THEN TextMul(s[i], t[k + 1 - i])
                      ELSE TextMul(<<1, BNXi>>, TextMul(s[i], t[k + 7 - i]))
        sum(k, c) == MapThenSumSet(LAMBDA i : term(i, k)[c], 1 .. 6) % BNP
        at(k) == <<sum(k, 1), sum(k, 2)>>
    IN <<s, t, <<at(1), at(2), at(3), at(4), at(5), at(6)>>>>[3]
Unit == Terms(Big!One12)
RECURSIVE TextPower(_, _)
TextPower(t, k) ==
    IF k = 0 THEN Unit
    ELSE LET half == TextPower(t, k \div 2)
         IN IF k % 2 = 0 THEN TextProduct(half, half) ELSE TextProduct(TextProduct(half, half), t)
BigTerms(e) == Terms(Big!Minimal12(e))
MontTerms(e) == LET m == Mont!MarshalGT(e) IN
    Terms(<<<<<<m[1], m[2]>>, <<m[3], m[4]>>, <<m[5], m[6]>>>>, <<<<m[7], m[8]>>, <<m[9], m[10]>>, <<m[11], m[12]>>>>>>)

-----------------------------------------------------------------------------
VARIABLES scalar, g1, g2   \* a scalar and the generators times it
pairVars == <<scalar, g1, g2>>

BigGen == Big!Unmarshal(BNGen)
BigTwistGen == Big!UnmarshalT(BNTwistGen)
MontGen == Mont!Unmarshal(BNGen)
MontTwistGen == Mont!UnmarshalT(BNTwistGen)

NoScalar == -1   \* nothing is computed
PairInit == scalar = 0 /\ g1 = "infinity" /\ g2 = "infinity"
PairStep ==
    /\ scalar \in 0 .. MaxScalar - 1
    /\ scalar' = scalar + 1
    /\ g1' = TextAdd(g1, Point1(BNGen))
    /\ g2' = TextAdd(g2, Point2(BNTwistGen))

\* ScalarMult is repeated addition, for scalars beyond the order too, and the
\* same in both implementations: over the bits of the scalar in one, over those
\* of its two parts in the lattice of the endomorphism in the other.
ScalarMultExact(g) ==
    scalar # NoScalar =>
      /\ Big!Marshal(Big!Mul(g.big, scalar)) = Bytes1(g1)
      /\ Mont!Marshal(Mont!Mul(g.mont, scalar)) = Bytes1(g1)
      /\ Big!MarshalT(Big!MulT(g.bigT, scalar)) = Bytes2(g2)
      /\ Mont!MarshalT(Mont!MulT(g.montT, scalar)) = Bytes2(g2)

\* The two parts of a scalar are not negative, as their bits are taken, and
\* have about half of its length.
PartsShort ==
    scalar # NoScalar =>
      LET parts == Mont!decompose(Mont!curveLattice, scalar)
      IN \A i \in 1 .. 2 : parts[i] \in 0 .. 4 * Mont!curveLattice.vectors[2][1]

\* Add is complete: it gives the sum of any two points in any Jacobian form,
\* of a point with itself, its opposite and infinity too.
AdditionComplete(g) ==
    scalar \in PairScalars =>
      /\ \A p \in {Big!Mul(g.big, scalar)}, q \in {Big!Mul(g.big, scalar + BNOrder)} :
           \A s \in {<<p, q, TextAdd(g1, g1)>>, <<Big!Negative(p), q, "infinity">>,
                     <<p, Big!Double(q), TextAdd(g1, TextAdd(g1, g1))>>} :
              Big!Marshal(Big!Add(s[1], s[2])) = Bytes1(s[3])
      /\ \A p \in {Mont!Mul(g.mont, scalar)}, q \in {Mont!Mul(g.mont, scalar + BNOrder)} :
           \A s \in {<<p, q, TextAdd(g1, g1)>>, <<Mont!Neg(p), q, "infinity">>} :
              Mont!Marshal(Mont!Add(s[1], s[2])) = Bytes1(s[3])
      /\ \A p \in {Mont!MulT(g.montT, scalar)} : Mont!MarshalT(Mont!AddT(p, p)) = Bytes2(TextAdd(g2, g2))
      /\ \A p \in {Big!MulT(g.bigT, scalar)} : Big!MarshalT(Big!AddT(p, Big!NegativeT(p))) = <<0, 0, 0, 0>>

\* The pairing is bilinear and not degenerate, and both implementations compute
\* the same: the pairing of a multiple, on either side, is the power of the
\* pairing of the generators.
PairingBilinear(g) ==
    scalar \in PairScalars =>
    \A e \in {BigTerms(Big!Pair(g.big, g.bigT))} : \A gt \in {TextPower(e, scalar)} :
      /\ \A m \in {<<scalar, 1>>, <<1, scalar>>} :
           /\ BigTerms(Big!Pair(Big!Mul(g.big, m[1]), Big!MulT(g.bigT, m[2]))) = gt
           /\ MontTerms(Mont!Pair(Mont!Mul(g.mont, m[1]), Mont!MulT(g.montT, m[2]))) = gt
      /\ gt = Unit <=> scalar % BNOrder = 0

\* PairingCheck, which the precompiled contract answers with, holds exactly
\* when the product of the pairings is one; pairs with infinity do not count.
PairingCheckExact(g) ==
    scalar \in PairScalars =>
      \A other \in {(-scalar) % BNOrder, 1} :
        LET exact == (scalar + other) % BNOrder = 0 IN
        /\ Big!PairingCheck(<<Big!Mul(g.big, scalar), g.big>>, <<g.bigT, Big!MulT(g.bigT, other)>>) = exact
        /\ Mont!PairingCheck(<<Mont!Mul(g.mont, scalar), g.mont>>, <<g.montT, Mont!MulT(g.montT, other)>>) = exact

\* Unmarshal accepts the coordinates of the points of the group and no others,
\* and gives the point back: coordinates beyond the modulus, points off the
\* curve and points of the twist outside the subgroup are refused.
UnmarshalSound(g) ==
    scalar # NoScalar =>
      LET accepted(r) == "err" \notin DOMAIN r IN
      /\ Big!Unmarshal(Bytes1(g1)) = Big!MakeAffine(Big!Mul(g.big, scalar % BNOrder))
      /\ Mont!UnmarshalT(Bytes2(g2)) = Mont!MakeAffineT(Mont!MulT(g.montT, scalar))
      /\ scalar > 0 => \A y \in {0, 1, BNP - 1, BNP} \cup {Bytes1(g1)[2]} :
           LET valid == scalar < BNP /\ y < BNP /\ OnTextbook(Point1(<<scalar, y>>), <<0, BNb>>) IN
           /\ accepted(Big!Unmarshal(<<scalar, y>>)) <=> valid
           /\ accepted(Mont!Unmarshal(<<scalar, y>>)) <=> valid
      /\ scalar \in PairScalars => LET outside == TextAdd(Point2(BNTwistOther), g2) IN
         ~accepted(Big!UnmarshalT(Bytes2(outside))) /\ ~accepted(Mont!UnmarshalT(Bytes2(outside)))

\* An element of gfP12 without a pattern.
Element(k) == LET c(i) == (k * k + 7 * i * k + i * i * i) % BNP
              IN <<<<<<c(1), c(2)>>, <<c(3), c(4)>>, <<c(5), c(6)>>>>, <<<<c(7), c(8)>>, <<c(9), c(10)>>, <<c(11), c(12)>>>>>>

\* Multiplication, squaring, inversion and the Frobenius maps of gfP12 are
\* those of polynomials, in both implementations.
TowerExact ==
    scalar \in PairScalars =>
    LET a == Element(scalar)
        b == Element(scalar + 1)
        ma == Mont!UnmarshalGT(Mont!Coordinates(a))
        mb == Mont!UnmarshalGT(Mont!Coordinates(b))
    IN /\ BigTerms(Big!Mul12(a, b)) = TextProduct(Terms(a), Terms(b))
       /\ MontTerms(Mont!Mul12(ma, mb)) = TextProduct(Terms(a), Terms(b))
       /\ BigTerms(Big!Square12(a)) = TextProduct(Terms(a), Terms(a))
       /\ MontTerms(Mont!Square12(ma)) = TextProduct(Terms(a), Terms(a))
       /\ TextProduct(BigTerms(Big!Invert12(a)), Terms(a)) = Unit
       /\ TextProduct(MontTerms(Mont!Invert12(ma)), Terms(a)) = Unit
       /\ BigTerms(Big!Frobenius12(a)) = BigTerms(Big!Exp12(a, BNP))
       /\ MontTerms(Mont!Frobenius12(ma)) = MontTerms(Mont!Exp12(ma, BNP))
       /\ MontTerms(Mont!FrobeniusP212(ma)) = MontTerms(Mont!Frobenius12(Mont!Frobenius12(ma)))
       /\ MontTerms(Mont!FrobeniusP412(ma)) = MontTerms(Mont!FrobeniusP212(Mont!FrobeniusP212(ma)))

AllExact(g) ==
    /\ ScalarMultExact(g) /\ PartsShort /\ AdditionComplete(g)
    /\ PairingBilinear(g) /\ PairingCheckExact(g)
    /\ UnmarshalSound(g) /\ TowerExact

\* Both implementations compute the groups and the pairing of the textbook,
\* and accept the points of the groups only.
PairingsExact == AllExact([big |-> BigGen, bigT |-> BigTwistGen, mont |-> MontGen, montT |-> MontTwistGen])
=============================================================================
