----------------------------- MODULE PairingBig -----------------------------
(***************************************************************************)
(* The optimal ate pairing over big.Int, common/crypto/bn256/google, that  *)
(* the precompiled contracts use where no assembly exists.  Coordinates    *)
(* are left unreduced wherever the code leaves them so; only multiplying   *)
(* reduces them.  Elements of gfP2, gfP6 and gfP12 are tuples in the order *)
(* of the struct: <<x, y>> is x*i + y, and so on.                          *)
(***************************************************************************)
EXTENDS Integers, Sequences

CONSTANTS
  P, Order, u,       \* the prime, the order of the groups, the BN parameter
  XiRe,              \* xi = i + XiRe, 9 in the code
  XiPowers,          \* the powers of xi that constants.go lists
  curveB,            \* 3 in the code
  sixuPlus2NAF       \* 6u + 2 in signed binary digits, the lowest first

\* The loops.
RECURSIVE Exp2(_, _), Exp12(_, _), Mul(_, _), MulT(_, _), MillerDigits(_, _, _), Product(_)

ModInverse(a) == CHOOSE b \in 0 .. P - 1 : (a * b) % P = 1 % P

\* op(x) and op(x, y), the arguments evaluated first.
Then(x, op(_)) == <<x, op(x)>>[2]
Then2(x, y, op(_, _)) == <<x, y, op(x, y)>>[3]

-----------------------------------------------------------------------------
\* gfP2
Zero2 == <<0, 0>>
One2  == <<0, 1>>
Minimal2(e) == <<e[1] % P, e[2] % P>>
IsZero2(e) == e = Zero2
IsOne2(e) == e = One2
Conjugate2(a) == <<-a[1], a[2]>>
Negative2(a) == <<-a[1], -a[2]>>
Add2(a, b) == <<a[1] + b[1], a[2] + b[2]>>
Sub2(a, b) == <<a[1] - b[1], a[2] - b[2]>>
Double2(a) == <<2 * a[1], 2 * a[2]>>
Mul2(a, b) == <<(a[1] * b[2] + b[1] * a[2]) % P, (a[2] * b[2] - a[1] * b[1]) % P>>
MulScalar2(a, k) == <<a[1] * k, a[2] * k>>
MulXi(a) == <<XiRe * a[1] + a[2], XiRe * a[2] - a[1]>>
Square2(a) == <<(2 * a[1] * a[2]) % P, ((a[2] - a[1]) * (a[1] + a[2])) % P>>
Invert2(a) == LET inv == ModInverse(a[2] * a[2] + a[1] * a[1]) IN <<(-a[1] * inv) % P, (a[2] * inv) % P>>
\* The bits of the power, the highest first.
Exp2(a, power) ==
    IF power = 0 THEN One2
    ELSE Then(Exp2(a, power \div 2), LAMBDA s : IF power % 2 = 1 THEN Mul2(Square2(s), a) ELSE Square2(s))

Xi == <<1, XiRe>>
xiToPMinus1Over6 == XiPowers[1]
xiToPMinus1Over3 == XiPowers[2]
xiToPMinus1Over2 == XiPowers[3]
xiTo2PMinus2Over3 == XiPowers[4]
xiToPSquaredMinus1Over3 == XiPowers[5][2]
xiTo2PSquaredMinus2Over3 == XiPowers[6][2]
xiToPSquaredMinus1Over6 == XiPowers[7][2]

-----------------------------------------------------------------------------
\* gfP6
Zero6 == <<Zero2, Zero2, Zero2>>
One6  == <<Zero2, Zero2, One2>>
Minimal6(e) == <<Minimal2(e[1]), Minimal2(e[2]), Minimal2(e[3])>>
Negative6(a) == <<Negative2(a[1]), Negative2(a[2]), Negative2(a[3])>>
Frobenius6(a) == <<Mul2(Conjugate2(a[1]), xiTo2PMinus2Over3), Mul2(Conjugate2(a[2]), xiToPMinus1Over3), Conjugate2(a[3])>>
FrobeniusP26(a) == <<MulScalar2(a[1], xiTo2PSquaredMinus2Over3), MulScalar2(a[2], xiToPSquaredMinus1Over3), a[3]>>
Add6(a, b) == <<Add2(a[1], b[1]), Add2(a[2], b[2]), Add2(a[3], b[3])>>
Sub6(a, b) == <<Sub2(a[1], b[1]), Sub2(a[2], b[2]), Sub2(a[3], b[3])>>
Double6(a) == <<Double2(a[1]), Double2(a[2]), Double2(a[3])>>
MulScalar6(a, b) == <<Mul2(a[1], b), Mul2(a[2], b), Mul2(a[3], b)>>
MulGFP(a, k) == <<MulScalar2(a[1], k), MulScalar2(a[2], k), MulScalar2(a[3], k)>>
MulTau(a) == <<a[2], a[3], MulXi(a[1])>>

\* Karatsuba: two coefficients at a time, less their squares.
Cross(a, b, i, j, vi, vj) == Sub2(Sub2(Mul2(Add2(a[i], a[j]), Add2(b[i], b[j])), vi), vj)
Karatsuba(a, b, v0, v1, v2) ==
    <<Add2(Cross(a, b, 1, 3, v0, v2), v1),
      Add2(Cross(a, b, 2, 3, v0, v1), MulXi(v2)),
      Add2(MulXi(Cross(a, b, 1, 2, v1, v2)), v0)>>
Mul6(a, b) == Karatsuba(a, b, Mul2(a[3], b[3]), Mul2(a[2], b[2]), Mul2(a[1], b[1]))
CrossSquare(a, i, j, vi, vj) == Sub2(Sub2(Square2(Add2(a[i], a[j])), vi), vj)
KaratsubaSquare(a, v0, v1, v2) ==
    <<Add2(CrossSquare(a, 1, 3, v0, v2), v1),
      Add2(CrossSquare(a, 2, 3, v0, v1), MulXi(v2)),
      Add2(MulXi(CrossSquare(a, 1, 2, v1, v2)), v0)>>
Square6(a) == KaratsubaSquare(a, Square2(a[3]), Square2(a[2]), Square2(a[1]))
Adjugate(A, B, C, F) == <<Mul2(C, F), Mul2(B, F), Mul2(A, F)>>
InvertWith(a, A, B, C) ==
    Adjugate(A, B, C, Invert2(Add2(Add2(MulXi(Mul2(C, a[2])), Mul2(A, a[3])), MulXi(Mul2(B, a[1])))))
Invert6(a) ==
    InvertWith(a, Sub2(Square2(a[3]), MulXi(Mul2(a[1], a[2]))), Sub2(MulXi(Square2(a[1])), Mul2(a[2], a[3])),
               Sub2(Square2(a[2]), Mul2(a[1], a[3])))

-----------------------------------------------------------------------------
\* gfP12
One12 == <<Zero6, One6>>
Minimal12(e) == <<Minimal6(e[1]), Minimal6(e[2])>>
IsOne12(e) == Minimal12(e) = One12
Conjugate12(a) == <<Negative6(a[1]), a[2]>>
Frobenius12(a) == <<MulScalar6(Frobenius6(a[1]), xiToPMinus1Over6), Frobenius6(a[2])>>
FrobeniusP212(a) == <<MulGFP(FrobeniusP26(a[1]), xiToPSquaredMinus1Over6), FrobeniusP26(a[2])>>
Mul12(f, g) ==
    Then2(f, g, LAMBDA a, b :
      <<Add6(Mul6(a[1], b[2]), Mul6(b[1], a[2])), Add6(Mul6(a[2], b[2]), MulTau(Mul6(a[1], b[1])))>>)
Square12(f) ==
    Then(f, LAMBDA a : Then(Mul6(a[1], a[2]), LAMBDA v0 :
      <<Double6(v0), Sub6(Sub6(Mul6(Add6(a[1], a[2]), Add6(a[2], MulTau(a[1]))), v0), MulTau(v0))>>))
Invert12(a) ==
    Then(Invert6(Sub6(Square6(a[2]), MulTau(Square6(a[1])))), LAMBDA t : <<Mul6(Negative6(a[1]), t), Mul6(a[2], t)>>)
Exp12(a, power) ==
    IF power = 0 THEN One12
    ELSE Then(Exp12(a, power \div 2), LAMBDA s : IF power % 2 = 1 THEN Mul12(Square12(s), a) ELSE Square12(s))

-----------------------------------------------------------------------------
\* curvePoint: y^2 = x^3 + curveB.  Add and Double assign all but t, which no
\* later step reads before MakeAffine has set it; 0 stands for what is there.
Times(a, b) == (a * b) % P
IsInfinity(c) == c.z = 0
Infinity == [x |-> 0, y |-> 1, z |-> 0, t |-> 0]
IsOnCurve(c) == (c.y * c.y - Times(c.x, c.x) * c.x - curveB) % P = 0
Double(a) ==
    LET A == Times(a.x, a.x)
        B == Times(a.y, a.y)
        C == Times(B, B)
        d == 2 * (Times(a.x + B, a.x + B) - A - C)
        e == 3 * A
        x == Times(e, e) - 2 * d
    IN [x |-> x, y |-> Times(e, d - x) - 8 * C, z |-> 2 * Times(a.y, a.z), t |-> 0]
Add(a, b) ==
    LET z1z1 == Times(a.z, a.z)
        z2z2 == Times(b.z, b.z)
        u1 == Times(a.x, z2z2)
        s1 == Times(a.y, Times(b.z, z2z2))
        h == Times(b.x, z1z1) - u1
        d == Times(b.y, Times(a.z, z1z1)) - s1
        i == Times(2 * h, 2 * h)
        j == Times(h, i)
        v == Times(u1, i)
        x == Times(2 * d, 2 * d) - j - 2 * v
    IN IF IsInfinity(a) THEN b
       ELSE IF IsInfinity(b) THEN a
       ELSE IF h = 0 /\ d = 0 THEN Double(a)
       ELSE [x |-> x, y |-> Times(2 * d, v - x) - 2 * Times(s1, j),
             z |-> Times(Times(a.z + b.z, a.z + b.z) - z1z1 - z2z2, h), t |-> 0]
\* The bits from the one above the highest, which doubles infinity.
Mul(a, scalar) ==
    IF scalar = 0 THEN Double(Infinity)
    ELSE Then(Mul(a, scalar \div 2), LAMBDA s : IF scalar % 2 = 1 THEN Add(Double(s), a) ELSE Double(s))
MakeAffine(c) ==
    LET zInv == ModInverse(c.z) IN
    IF c.z = 1 THEN c
    ELSE IF IsInfinity(c) THEN Infinity
    ELSE [x |-> Times(c.x, Times(zInv, zInv)), y |-> Times(Times(c.y, zInv), Times(zInv, zInv)), z |-> 1, t |-> 1]
Negative(a) == [a EXCEPT !.y = -a.y, !.t = 0]

\* G1: the point as two coordinates below P, (0, 0) for infinity; Unmarshal
\* refuses a coordinate that is not below P and a point off the curve.
Marshal(p) == LET c == MakeAffine(p) IN IF IsInfinity(p) THEN <<0, 0>> ELSE <<c.x % P, c.y % P>>
UnmarshalCases(m, Point, infinity, onCurve(_)) ==
    IF \E i \in DOMAIN m : m[i] >= P THEN [err |-> "coordinate exceeds modulus"]
    ELSE IF \A i \in DOMAIN m : m[i] = 0 THEN infinity
    ELSE IF onCurve(Point) THEN Point ELSE [err |-> "malformed point"]
Unmarshal(m) == UnmarshalCases(m, [x |-> m[1], y |-> m[2], z |-> 1, t |-> 1], Infinity, IsOnCurve)

-----------------------------------------------------------------------------
\* twistPoint: y^2 = x^3 + twistB over gfP2
twistB == Mul2(<<0, curveB>>, Invert2(Xi))
IsInfinityT(c) == IsZero2(c.z)
InfinityT == [x |-> Zero2, y |-> One2, z |-> Zero2, t |-> Zero2]
DoubleT(a) ==
    LET A == Square2(a.x)
        B == Square2(a.y)
        C == Square2(B)
        d == Double2(Sub2(Sub2(Square2(Add2(a.x, B)), A), C))
        e == Add2(Add2(A, A), A)
        x == Sub2(Square2(e), Add2(d, d))
        yz == Mul2(a.y, a.z)
    IN [x |-> x, y |-> Sub2(Mul2(e, Sub2(d, x)), MulScalar2(C, 8)), z |-> Add2(yz, yz), t |-> Zero2]
AddT(a, b) ==
    LET z1z1 == Square2(a.z)
        z2z2 == Square2(b.z)
        u1 == Mul2(a.x, z2z2)
        s1 == Mul2(a.y, Mul2(b.z, z2z2))
        h == Sub2(Mul2(b.x, z1z1), u1)
        d == Sub2(Mul2(b.y, Mul2(a.z, z1z1)), s1)
        i == Square2(Add2(h, h))
        j == Mul2(h, i)
        r == Add2(d, d)
        v == Mul2(u1, i)
        x == Sub2(Sub2(Square2(r), j), Add2(v, v))
        sj == Mul2(s1, j)
    IN IF IsInfinityT(a) THEN b
       ELSE IF IsInfinityT(b) THEN a
       ELSE IF IsZero2(h) /\ IsZero2(d) THEN DoubleT(a)
       ELSE [x |-> x, y |-> Sub2(Mul2(r, Sub2(v, x)), Add2(sj, sj)),
             z |-> Mul2(Sub2(Sub2(Square2(Add2(a.z, b.z)), z1z1), z2z2), h), t |-> Zero2]
MulT(a, scalar) ==
    IF scalar = 0 THEN DoubleT(InfinityT)
    ELSE Then(MulT(a, scalar \div 2), LAMBDA s : IF scalar % 2 = 1 THEN AddT(DoubleT(s), a) ELSE DoubleT(s))
IsOnTwist(c) ==
    /\ Minimal2(Sub2(Sub2(Square2(c.y), Mul2(Square2(c.x), c.x)), twistB)) = Zero2
    /\ IsInfinityT(MulT(c, Order))
MakeAffineT(c) ==
    LET zInv == Invert2(c.z)
        zInv2 == Square2(zInv)
    IN IF IsOne2(c.z) THEN c
       ELSE IF IsInfinityT(c) THEN InfinityT
       ELSE [x |-> Mul2(c.x, zInv2), y |-> Mul2(Mul2(c.y, zInv), zInv2), z |-> One2, t |-> One2]
NegativeT(a) == [x |-> a.x, y |-> Sub2(Zero2, a.y), z |-> a.z, t |-> Zero2]

\* G2: four coordinates.
MarshalT(p) ==
    LET c == MakeAffineT(p) IN
    IF IsInfinityT(p) THEN <<0, 0, 0, 0>> ELSE <<c.x[1] % P, c.x[2] % P, c.y[1] % P, c.y[2] % P>>
UnmarshalT(m) ==
    UnmarshalCases(m, [x |-> <<m[1], m[2]>>, y |-> <<m[3], m[4]>>, z |-> One2, t |-> One2], InfinityT, IsOnTwist)

-----------------------------------------------------------------------------
\* The line through r and p (the tangent at r) at the point q, as the three
\* coefficients <<a, b, c>>, and the sum (the double) of the points.
lineFunctionAdd(r, p, q, r2) ==
    LET B == Mul2(p.x, r.t)
        D == Mul2(Sub2(Sub2(Square2(Add2(p.y, r.z)), r2), r.t), r.t)
        H == Sub2(B, r.x)
        I == Square2(H)
        E == MulScalar2(I, 4)
        J == Mul2(H, E)
        L1 == Sub2(Sub2(D, r.y), r.y)
        V == Mul2(r.x, E)
        x == Sub2(Sub2(Sub2(Square2(L1), J), V), V)
        z == Sub2(Sub2(Square2(Add2(r.z, H)), r.t), I)
        y == Sub2(Mul2(Sub2(V, x), L1), Double2(Mul2(r.y, J)))
        t == Square2(z)
        a == Sub2(Double2(Mul2(L1, p.x)), Sub2(Sub2(Square2(Add2(p.y, z)), r2), t))
    IN [line |-> <<a, Double2(MulScalar2(Sub2(Zero2, L1), q.x)), Double2(MulScalar2(z, q.y))>>,
        out  |-> [x |-> x, y |-> y, z |-> z, t |-> t]]
lineFunctionDouble(r, q) ==
    LET A == Square2(r.x)
        B == Square2(r.y)
        C == Square2(B)
        D == Double2(Sub2(Sub2(Square2(Add2(r.x, B)), A), C))
        E == MulScalar2(A, 3)
        G == Square2(E)
        x == Sub2(Sub2(G, D), D)
        z == Sub2(Sub2(Square2(Add2(r.y, r.z)), B), r.t)
        y == Sub2(Mul2(Sub2(D, x), E), MulScalar2(C, 8))
        a == Sub2(Sub2(Sub2(Square2(Add2(r.x, E)), A), G), MulScalar2(B, 4))
        b == MulScalar2(Sub2(Zero2, Double2(Mul2(E, r.t))), q.x)
    IN [line |-> <<a, b, MulScalar2(Double2(Mul2(z, r.t)), q.y)>>,
        out  |-> [x |-> x, y |-> y, z |-> z, t |-> Square2(z)]]
\* Mutant: the third coefficient is left out of the sum.
mulLineShort(ret, l) ==
    Then2(Mul6(<<Zero2, l[1], l[2]>>, ret[1]), MulScalar6(ret[2], l[3]), LAMBDA a2, t3 :
      <<Sub6(Sub6(Mul6(Add6(ret[1], ret[2]), <<Zero2, l[1], l[2]>>), a2), t3), Add6(t3, MulTau(a2))>>)

mulLine(ret, l) ==
    Then2(Mul6(<<Zero2, l[1], l[2]>>, ret[1]), MulScalar6(ret[2], l[3]), LAMBDA a2, t3 :
      <<Sub6(Sub6(Mul6(Add6(ret[1], ret[2]), <<Zero2, l[1], Add2(l[2], l[3])>>), a2), t3), Add6(t3, MulTau(a2))>>)

\* f is the accumulator: the value so far and the running point.
TakeLine(f, l) == Then(l, LAMBDA new : [ret |-> mulLine(f.ret, new.line), r |-> new.out])
AddLine(f, s, b) == Then2(f, s, LAMBDA g, v : TakeLine(g, lineFunctionAdd(g.r, v, b, Square2(v.y))))
Squared(f, i) == IF i = Len(sixuPlus2NAF) - 1 THEN f ELSE [f EXCEPT !.ret = Square12(f.ret)]
Digit(f, d, a, b) == IF d = 0 THEN f ELSE AddLine(f, IF d = 1 THEN a ELSE NegativeT(a), b)
MillerDigits(a, b, i) ==      \* after the digits Len(sixuPlus2NAF) .. i
    IF i = Len(sixuPlus2NAF) THEN [ret |-> One12, r |-> a]
    ELSE Then(MillerDigits(a, b, i + 1), LAMBDA f :
           Digit(TakeLine(Squared(f, i), lineFunctionDouble(f.r, b)), sixuPlus2NAF[i], a, b))
MillerLoop(a, b) ==
    LET q1 == [x |-> Mul2(Conjugate2(a.x), xiToPMinus1Over3), y |-> Mul2(Conjugate2(a.y), xiToPMinus1Over2),
               z |-> One2, t |-> One2]
        minusQ2 == [x |-> MulScalar2(a.x, xiToPSquaredMinus1Over3), y |-> a.y, z |-> One2, t |-> One2]
    IN AddLine(AddLine(MillerDigits(a, b, 1), q1, b), minusQ2, b).ret
miller(q, p) == Then2(MakeAffineT(q), MakeAffine(p), MillerLoop)

\* The power (P^12 - 1) / Order.  fu, fu2 and fu3 are the powers u, u^2 and
\* u^3 of t1.  A tuple holds what is computed before its last element.
Product(s) == IF Len(s) = 1 THEN s[1] ELSE Mul12(Product(SubSeq(s, 1, Len(s) - 1)), s[Len(s)])
Chain2(y0, y1, t1) == <<t1, Product(<<Square12(Product(<<t1, y1>>)), Product(<<t1, y0>>)>>)>>[2]
Chain1(y0, y1, y2, y3, y5, t0) ==
    <<t0, Chain2(y0, y1, Square12(Product(<<Square12(Product(<<y3, y5, t0>>)), Product(<<t0, y2>>)>>)))>>[2]
Chain0(y0, y1, y2, y3, y4, y5, y6) ==
    <<y4, y6, Chain1(y0, y1, y2, y3, y5, Product(<<Square12(y6), y4, y5>>))>>[3]
FromPowers(t1, fp2, fu, fu2, fu3) ==
    <<fp2, fu3, Chain0(Product(<<Frobenius12(t1), fp2, Frobenius12(fp2)>>), Conjugate12(t1), FrobeniusP212(fu2),
                       Conjugate12(Frobenius12(fu)), Conjugate12(Product(<<fu, Frobenius12(fu2)>>)),
                       Conjugate12(fu2), Conjugate12(Product(<<fu3, Frobenius12(fu3)>>)))>>[3]
FromSquare(t1, fu, fu2) == <<fu2, FromPowers(t1, FrobeniusP212(t1), fu, fu2, Exp12(fu2, u))>>[2]
FromPower(t1, fu) == <<fu, FromSquare(t1, fu, Exp12(fu, u))>>[2]
HardPart(t1) == <<t1, FromPower(t1, Exp12(t1, u))>>[2]
EasyPart(t) == <<t, HardPart(Product(<<t, FrobeniusP212(t)>>))>>[2]
finalExponentiation(in) == EasyPart(Product(<<Conjugate12(in), Invert12(in)>>))

\* The pairing with infinity is one, whatever the loop computes.
optimalAte(a, b) == IF IsInfinityT(a) \/ IsInfinity(b) THEN One12 ELSE Then(miller(a, b), finalExponentiation)
Pair(g1, g2) == optimalAte(g2, g1)
PairingCheck(a, b) ==
    LET acc[i \in 0 .. Len(a)] ==
          IF i = 0 THEN One12
          ELSE IF IsInfinity(a[i]) \/ IsInfinityT(b[i]) THEN acc[i - 1]
          ELSE Product(<<acc[i - 1], miller(b[i], a[i])>>)
    IN IsOne12(Then(acc[Len(a)], finalExponentiation))
=============================================================================
