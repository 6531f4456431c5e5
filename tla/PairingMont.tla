----------------------------- MODULE PairingMont ----------------------------
(***************************************************************************)
(* The optimal ate pairing in Montgomery form, common/crypto/bn256/        *)
(* cloudflare.  A gfP is a number below P that stands for itself divided   *)
(* by R.  Elements of gfP2, gfP6 and gfP12 are tuples in the order of the  *)
(* struct.                                                                 *)
(***************************************************************************)
EXTENDS Integers, Sequences

CONSTANTS P, Order, u, R, XiRe, XiPowers, curveB, sixuPlus2NAF,
          np     \* the negative inverse of P, mod R

\* The loops.
RECURSIVE InvertBits(_, _, _), Exp12(_, _), MulDigits(_, _), MulT(_, _), MillerDigits(_, _, _), Product(_)

\* op(x) and op(x, y), the arguments evaluated first.
Then(x, op(_)) == <<x, op(x)>>[2]
Then2(x, y, op(_, _)) == <<x, y, op(x, y)>>[3]

BitLen(k) == CHOOSE n \in 0 .. 30 : k < 2^n /\ \A m \in 0 .. n - 1 : k >= 2^m
Bit(k, i) == (k \div 2^i) % 2

-----------------------------------------------------------------------------
\* gfP
rN1 == CHOOSE n \in 0 .. P - 1 : (R * n) % P = 1
r2  == ((R % P) * (R % P)) % P
r3  == (r2 * (R % P)) % P

gfpCarry(a) == IF a >= P THEN a - P ELSE a
gfpNeg(a) == gfpCarry(P - a)
gfpAdd(a, b) == gfpCarry(a + b)
gfpSub(a, b) == gfpCarry(a + (P - b))
Reduced(T) == gfpCarry((T + (((T % R) * np) % R) * P) \div R)
gfpMul(a, b) == Reduced(a * b)
a ++ b == gfpAdd(a, b)
a -- b == gfpSub(a, b)
a ** b == gfpMul(a, b)

montEncode(a) == a ** r2
montDecode(a) == a ** 1
newGFp(x) == montEncode(IF x >= 0 THEN x ELSE gfpNeg(-x))
One == newGFp(1)

\* The power P - 2, square and multiply from the lowest bit.
InvertBits(sum, power, bits) ==
    IF bits = 0 THEN sum ELSE InvertBits(IF bits % 2 = 1 THEN sum ** power ELSE sum, power ** power, bits \div 2)
Invert(f) == InvertBits(rN1, f, P - 2) ** r3

-----------------------------------------------------------------------------
\* gfP2
Zero2 == <<0, 0>>
One2  == <<0, One>>
IsZero2(e) == e = Zero2
IsOne2(e) == e = One2
Conjugate2(a) == <<gfpNeg(a[1]), a[2]>>
Neg2(a) == <<gfpNeg(a[1]), gfpNeg(a[2])>>
Add2(a, b) == <<a[1] ++ b[1], a[2] ++ b[2]>>
Sub2(a, b) == <<a[1] -- b[1], a[2] -- b[2]>>
Mul2(a, b) == <<a[1] ** b[2] ++ b[1] ** a[2], a[2] ** b[2] -- a[1] ** b[1]>>
MulScalar2(a, k) == <<a[1] ** k, a[2] ** k>>
MulXi(a) == <<((XiRe * a[1]) % P) ++ a[2], ((XiRe * a[2]) % P) -- a[1]>>
Square2(a) == <<a[1] ** a[2] ++ a[1] ** a[2], (a[2] -- a[1]) ** (a[1] ++ a[2])>>
Invert2(a) == LET inv == Invert(a[1] ** a[1] ++ a[2] ** a[2]) IN <<gfpNeg(a[1]) ** inv, a[2] ** inv>>
a (+) b == Add2(a, b)
a (-) b == Sub2(a, b)
a (.) b == Mul2(a, b)
Twice(a) == a (+) a

Xi == <<One, newGFp(XiRe)>>
XiPower(i) == <<montEncode(XiPowers[i][1]), montEncode(XiPowers[i][2])>>
xiToPMinus1Over6 == XiPower(1)
xiToPMinus1Over3 == XiPower(2)
xiToPMinus1Over2 == XiPower(3)
xiTo2PMinus2Over3 == XiPower(4)
xiToPSquaredMinus1Over3 == montEncode(XiPowers[5][2])
xiTo2PSquaredMinus2Over3 == montEncode(XiPowers[6][2])
xiToPSquaredMinus1Over6 == montEncode(XiPowers[7][2])

-----------------------------------------------------------------------------
\* gfP6
Zero6 == <<Zero2, Zero2, Zero2>>
One6  == <<Zero2, Zero2, One2>>
Neg6(a) == <<Neg2(a[1]), Neg2(a[2]), Neg2(a[3])>>
Frobenius6(a) == <<Conjugate2(a[1]) (.) xiTo2PMinus2Over3, Conjugate2(a[2]) (.) xiToPMinus1Over3, Conjugate2(a[3])>>
FrobeniusP26(a) == <<MulScalar2(a[1], xiTo2PSquaredMinus2Over3), MulScalar2(a[2], xiToPSquaredMinus1Over3), a[3]>>
FrobeniusP46(a) == <<MulScalar2(a[1], xiToPSquaredMinus1Over3), MulScalar2(a[2], xiTo2PSquaredMinus2Over3), a[3]>>
Add6(a, b) == <<a[1] (+) b[1], a[2] (+) b[2], a[3] (+) b[3]>>
Sub6(a, b) == <<a[1] (-) b[1], a[2] (-) b[2], a[3] (-) b[3]>>
\* The products of the sums of two coefficients, and those of the coefficients.
Karatsuba(t13, t23, t12, v0, v1, v2) ==
    <<t13, t23, t12, v0, v1, v2,
      <<((t13 (-) v0) (+) v1) (-) v2, ((t23 (-) v0) (-) v1) (+) MulXi(v2), MulXi((t12 (-) v1) (-) v2) (+) v0>>>>[7]
Mul6(a, b) ==
    <<a, b, Karatsuba((a[1] (+) a[3]) (.) (b[1] (+) b[3]), (a[2] (+) a[3]) (.) (b[2] (+) b[3]),
                      (a[1] (+) a[2]) (.) (b[1] (+) b[2]), a[3] (.) b[3], a[2] (.) b[2], a[1] (.) b[1])>>[3]
Square6(a) ==
    <<a, Karatsuba(Square2(a[1] (+) a[3]), Square2(a[2] (+) a[3]), Square2(a[1] (+) a[2]),
                   Square2(a[3]), Square2(a[2]), Square2(a[1]))>>[2]
MulScalar6(a, b) == <<a[1] (.) b, a[2] (.) b, a[3] (.) b>>
MulGFP(a, k) == <<MulScalar2(a[1], k), MulScalar2(a[2], k), MulScalar2(a[3], k)>>
MulTau(a) == <<a[2], a[3], MulXi(a[1])>>
Adjugate(A, B, C, F) == <<C (.) F, B (.) F, A (.) F>>
InvertWith(a, A, B, C) == Adjugate(A, B, C, Invert2(MulXi(C (.) a[2]) (+) A (.) a[3] (+) MulXi(B (.) a[1])))
Invert6(a) ==
    InvertWith(a, Square2(a[3]) (-) MulXi(a[1] (.) a[2]), MulXi(Square2(a[1])) (-) a[2] (.) a[3],
               Square2(a[2]) (-) a[1] (.) a[3])

-----------------------------------------------------------------------------
\* gfP12
One12 == <<Zero6, One6>>
IsOne12(e) == e = One12
Conjugate12(a) == <<Neg6(a[1]), a[2]>>
Frobenius12(a) == <<MulScalar6(Frobenius6(a[1]), xiToPMinus1Over6), Frobenius6(a[2])>>
FrobeniusP212(a) == <<MulGFP(FrobeniusP26(a[1]), xiToPSquaredMinus1Over6), FrobeniusP26(a[2])>>
FrobeniusP412(a) == <<MulGFP(FrobeniusP46(a[1]), xiToPSquaredMinus1Over3), FrobeniusP46(a[2])>>
Mul12(f, g) ==
    Then2(f, g, LAMBDA a, b :
      <<Add6(Mul6(a[1], b[2]), Mul6(b[1], a[2])), Add6(Mul6(a[2], b[2]), MulTau(Mul6(a[1], b[1])))>>)
Less(x, y, z) == <<x, y, z, Sub6(Sub6(x, y), z)>>[4]
SquareWith(a, v0) == <<v0, <<Add6(v0, v0), Less(Mul6(Add6(a[1], a[2]), Add6(a[2], MulTau(a[1]))), v0, MulTau(v0))>>>>[2]
Square12(a) == <<a, SquareWith(a, Mul6(a[1], a[2]))>>[2]
Exp12(a, power) ==
    IF power = 0 THEN One12
    ELSE Then(Exp12(a, power \div 2), LAMBDA s : IF power % 2 = 1 THEN Mul12(Square12(s), a) ELSE Square12(s))
Invert12(a) ==
    Then(Invert6(Sub6(Square6(a[2]), MulTau(Square6(a[1])))), LAMBDA t : <<Mul6(Neg6(a[1]), t), Mul6(a[2], t)>>)

-----------------------------------------------------------------------------
\* The lattice of the endomorphism (x, y) -> (beta x, y): the decimals of the
\* code are these polynomials in u, the determinant is that of the vectors.
curveLattice ==
    [vectors |-> <<<<6 * u * u + 2 * u, 6 * u * u + 4 * u + 1>>, <<6 * u * u + 6 * u + 2, -(6 * u * u - 1)>>>>,
     inverse |-> <<6 * u * u - 1, 6 * u * u + 4 * u + 1>>,
     det     |-> 2 * Order]
half == Order \div 2
round(num, denom) == IF num % denom > half THEN num \div denom + 1 ELSE num \div denom
decompose(l, k) ==
    LET c == [i \in 1 .. 2 |-> round(k * l.inverse[i], l.det)]
        out(i) == -(c[1] * l.vectors[1][i] + c[2] * l.vectors[2][i]) + 2 * l.vectors[1][i]
    IN <<out(1) + k, out(2)>>
\* The digits of both parts together, the lowest first.
Multi(scalar) ==
    LET parts == decompose(curveLattice, scalar)
        maxLen == IF parts[1] > parts[2] THEN BitLen(parts[1]) ELSE BitLen(parts[2])
    IN [i \in 1 .. maxLen |-> Bit(parts[1], i - 1) + 2 * Bit(parts[2], i - 1)]

-----------------------------------------------------------------------------
\* curvePoint.  Add and Double leave t as it was in the receiver, here 0.
IsInfinity(c) == c.z = 0
Infinity == [x |-> 0, y |-> One, z |-> 0, t |-> 0]
Tangent(a, A, B, C) ==
    LET t == (((a.x ++ B) ** (a.x ++ B)) -- A) -- C
        d == t ++ t
        e == A ++ A ++ A
        x == e ** e -- (d ++ d)
        C4 == (C ++ C) ++ (C ++ C)
    IN [x |-> x, y |-> e ** (d -- x) -- (C4 ++ C4), z |-> a.y ** a.z ++ a.y ** a.z, t |-> 0]
TangentAt(a, B) == Tangent(a, a.x ** a.x, B, B ** B)
Double(a) == TangentAt(a, a.y ** a.y)
Chord(a, b, z12, z22, u1, s1, h, d) ==
    LET i == (h ++ h) ** (h ++ h)
        j == h ** i
        r == d ++ d
        v == u1 ** i
        x == (r ** r -- j) -- (v ++ v)
    IN IF h = 0 /\ d = 0 THEN Double(a)
       ELSE [x |-> x, y |-> r ** (v -- x) -- (s1 ** j ++ s1 ** j),
             z |-> (((a.z ++ b.z) ** (a.z ++ b.z) -- z12) -- z22) ** h, t |-> 0]
Scaled(a, b, z12, z22, u1, s1) == Chord(a, b, z12, z22, u1, s1, b.x ** z12 -- u1, b.y ** (a.z ** z12) -- s1)
WithSquares(a, b, z12, z22) == Scaled(a, b, z12, z22, a.x ** z22, a.y ** (b.z ** z22))
Add(a, b) ==
    IF IsInfinity(a) THEN b ELSE IF IsInfinity(b) THEN a ELSE WithSquares(a, b, a.z ** a.z, b.z ** b.z)
MulDigits(precomp, m) ==
    IF m = <<>> THEN Infinity
    ELSE Then(MulDigits(precomp, Tail(m)), LAMBDA s : IF m[1] = 0 THEN Double(s) ELSE Add(Double(s), precomp[m[1]]))
Mul(a, scalar) ==
    LET beta == [a EXCEPT !.x = a.x ** xiTo2PSquaredMinus2Over3]
    IN MulDigits(<<a, beta, Add(a, beta)>>, Multi(scalar))
Divided(c, zInv) ==
    LET zInv2 == zInv ** zInv IN [x |-> c.x ** zInv2, y |-> (c.y ** zInv) ** zInv2, z |-> One, t |-> One]
MakeAffine(c) == IF c.z = One THEN c ELSE IF c.z = 0 THEN Infinity ELSE Divided(c, Invert(c.z))
Neg(a) == [a EXCEPT !.y = gfpNeg(a.y), !.t = 0]
AffineOnCurve(c) == IsInfinity(c) \/ c.y ** c.y = (c.x ** c.x) ** c.x ++ newGFp(curveB)
IsOnCurve(p) == AffineOnCurve(MakeAffine(p))

\* G1
MarshalAffine(c) == IF IsInfinity(c) THEN <<0, 0>> ELSE <<montDecode(c.x), montDecode(c.y)>>
Marshal(p) == MarshalAffine(MakeAffine(p))
Checked(point, onCurve(_)) == IF onCurve(point) THEN point ELSE [err |-> "malformed point"]
UnmarshalCases(m, Point(_), infinity, onCurve(_)) ==
    LET encoded == [i \in DOMAIN m |-> montEncode(m[i])] IN
    IF \E i \in DOMAIN m : m[i] >= P THEN [err |-> "coordinate exceeds modulus"]
    ELSE IF \A i \in DOMAIN m : encoded[i] = 0 THEN infinity
    ELSE Checked(Point(encoded), onCurve)
Unmarshal(m) == UnmarshalCases(m, LAMBDA e : [x |-> e[1], y |-> e[2], z |-> One, t |-> One], Infinity, IsOnCurve)

-----------------------------------------------------------------------------
\* twistPoint
twistB == <<0, newGFp(curveB)>> (.) Invert2(Xi)
IsInfinityT(c) == IsZero2(c.z)
ZeroT == [x |-> Zero2, y |-> Zero2, z |-> Zero2, t |-> Zero2]
InfinityT == [ZeroT EXCEPT !.y = One2]
TangentT(a, A, B, C) ==
    LET d == Twice((Square2(a.x (+) B) (-) A) (-) C)
        e == A (+) A (+) A
        x == Square2(e) (-) Twice(d)
    IN [x |-> x, y |-> e (.) (d (-) x) (-) Twice(Twice(Twice(C))), z |-> Twice(a.y (.) a.z), t |-> Zero2]
TangentAtT(a, B) == TangentT(a, Square2(a.x), B, Square2(B))
DoubleT(a) == TangentAtT(a, Square2(a.y))
ChordT(a, b, z12, z22, u1, s1, h, d) ==
    LET i == Square2(Twice(h))
        j == h (.) i
        r == Twice(d)
        v == u1 (.) i
        x == (Square2(r) (-) j) (-) Twice(v)
    IN IF IsZero2(h) /\ IsZero2(d) THEN DoubleT(a)
       ELSE [x |-> x, y |-> r (.) (v (-) x) (-) Twice(s1 (.) j),
             z |-> ((Square2(a.z (+) b.z) (-) z12) (-) z22) (.) h, t |-> Zero2]
ScaledT(a, b, z12, z22, u1, s1) == ChordT(a, b, z12, z22, u1, s1, b.x (.) z12 (-) u1, b.y (.) (a.z (.) z12) (-) s1)
WithSquaresT(a, b, z12, z22) == ScaledT(a, b, z12, z22, a.x (.) z22, a.y (.) (b.z (.) z22))
AddT(a, b) ==
    IF IsInfinityT(a) THEN b ELSE IF IsInfinityT(b) THEN a ELSE WithSquaresT(a, b, Square2(a.z), Square2(b.z))
MulT(a, scalar) ==
    IF scalar = 0 THEN DoubleT(ZeroT)
    ELSE Then(MulT(a, scalar \div 2), LAMBDA s : IF scalar % 2 = 1 THEN AddT(DoubleT(s), a) ELSE DoubleT(s))
DividedT(c, zInv) ==
    LET zInv2 == Square2(zInv) IN [x |-> c.x (.) zInv2, y |-> (c.y (.) zInv) (.) zInv2, z |-> One2, t |-> One2]
MakeAffineT(c) == IF IsOne2(c.z) THEN c ELSE IF IsZero2(c.z) THEN InfinityT ELSE DividedT(c, Invert2(c.z))
NegT(a) == [a EXCEPT !.y = Neg2(a.y), !.t = Zero2]
AffineOnTwist(c) ==
    \/ IsInfinityT(c)
    \/ Square2(c.y) = (Square2(c.x) (.) c.x) (+) twistB /\ IsInfinityT(MulT(c, Order))
IsOnTwist(p) == AffineOnTwist(MakeAffineT(p))

\* G2
MarshalAffineT(c) ==
    IF IsInfinityT(c) THEN <<0, 0, 0, 0>>
    ELSE <<montDecode(c.x[1]), montDecode(c.x[2]), montDecode(c.y[1]), montDecode(c.y[2])>>
MarshalT(p) == MarshalAffineT(MakeAffineT(p))
UnmarshalT(m) ==
    UnmarshalCases(m, LAMBDA e : [x |-> <<e[1], e[2]>>, y |-> <<e[3], e[4]>>, z |-> One2, t |-> One2],
                   InfinityT, IsOnTwist)

-----------------------------------------------------------------------------
\* The line through r and p (the tangent at r) at q, and the next point.
\* H, L1, E (four times the square I of H), J and V are the code's names.
LineThrough(r, p, q, yy, L1, J, V, z, x, t) ==
    [line |-> <<Twice(L1 (.) p.x) (-) ((Square2(p.y (+) z) (-) yy) (-) t),
                Twice(MulScalar2(Neg2(L1), q.x)), Twice(MulScalar2(z, q.y))>>,
     out  |-> [x |-> x, y |-> (V (-) x) (.) L1 (-) Twice(r.y (.) J), z |-> z, t |-> t]]
LineFrom(r, p, q, yy, L1, J, V, z) ==
    <<L1, J, V, z, LineThrough(r, p, q, yy, L1, J, V, z, ((Square2(L1) (-) J) (-) V) (-) V, Square2(z))>>[5]
LineWith(r, p, q, yy, H, L1, I, E) ==
    <<E, LineFrom(r, p, q, yy, L1, H (.) E, r.x (.) E, (Square2(r.z (+) H) (-) r.t) (-) I)>>[2]
LineScaled(r, p, q, yy, H, L1, I) == <<L1, I, LineWith(r, p, q, yy, H, L1, I, Twice(Twice(I)))>>[3]
LineAt(r, p, q, yy, H, D) == <<H, D, LineScaled(r, p, q, yy, H, (D (-) r.y) (-) r.y, Square2(H))>>[3]
lineFunctionAdd(r, p, q, yy) ==
    LineAt(r, p, q, yy, p.x (.) r.t (-) r.x, ((Square2(p.y (+) r.z) (-) yy) (-) r.t) (.) r.t)
LineTangent(r, q, A, B, C, D, E, G, z, x) ==
    [line |-> <<((Square2(r.x (+) E) (-) A) (-) G) (-) Twice(Twice(B)),
                MulScalar2(Neg2(Twice(E (.) r.t)), q.x), MulScalar2(Twice(z (.) r.t), q.y)>>,
     out  |-> [x |-> x, y |-> (D (-) x) (.) E (-) Twice(Twice(Twice(C))), z |-> z, t |-> Square2(z)]]
TangentFrom(r, q, A, B, C, D, E, G, z) == <<D, G, z, LineTangent(r, q, A, B, C, D, E, G, z, (G (-) D) (-) D)>>[4]
TangentWith(r, q, A, B, C, E) ==
    <<C, E, TangentFrom(r, q, A, B, C, Twice((Square2(r.x (+) B) (-) A) (-) C), E, Square2(E),
                        (Square2(r.y (+) r.z) (-) B) (-) r.t)>>[3]
LineTangentAt(r, q, A, B) == <<A, B, TangentWith(r, q, A, B, Square2(B), A (+) A (+) A)>>[3]
lineFunctionDouble(r, q) == LineTangentAt(r, q, Square2(r.x), Square2(r.y))
LineProducts(ret, l, a2, t3) ==
    <<a2, t3, <<Less(Mul6(Add6(ret[1], ret[2]), <<Zero2, l[1], l[2] (+) l[3]>>), a2, t3), Add6(t3, MulTau(a2))>>>>[3]
mulLine(ret, l) == LineProducts(ret, l, Mul6(<<Zero2, l[1], l[2]>>, ret[1]), MulScalar6(ret[2], l[3]))

TakeLine(f, l) == <<f, l, [ret |-> mulLine(f.ret, l.line), r |-> l.out]>>[3]
AddLine(f, s, b) == Then2(f, s, LAMBDA g, v : TakeLine(g, lineFunctionAdd(g.r, v, b, Square2(v.y))))
Squared(f, i) == IF i = Len(sixuPlus2NAF) - 1 THEN f ELSE [f EXCEPT !.ret = Square12(f.ret)]
Digit(f, d, a, b) == IF d = 0 THEN f ELSE AddLine(f, IF d = 1 THEN a ELSE NegT(a), b)
MillerDigits(a, b, i) ==      \* after the digits Len(sixuPlus2NAF) .. i
    IF i = Len(sixuPlus2NAF) THEN [ret |-> One12, r |-> a]
    ELSE Then(MillerDigits(a, b, i + 1), LAMBDA f :
           Digit(TakeLine(Squared(f, i), lineFunctionDouble(f.r, b)), sixuPlus2NAF[i], a, b))
MillerLoop(a, b) ==
    LET q1 == [x |-> Conjugate2(a.x) (.) xiToPMinus1Over3, y |-> Conjugate2(a.y) (.) xiToPMinus1Over2,
               z |-> One2, t |-> One2]
        minusQ2 == [x |-> MulScalar2(a.x, xiToPSquaredMinus1Over3), y |-> a.y, z |-> One2, t |-> One2]
    IN AddLine(AddLine(MillerDigits(a, b, 1), q1, b), minusQ2, b).ret
miller(q, p) == Then2(MakeAffineT(q), MakeAffine(p), MillerLoop)

\* The power (P^12 - 1) / Order.  fu, fu2 and fu3 are the powers u, u^2 and
\* u^3 of t1.  A tuple holds what is computed before its last element.
Product(s) == IF Len(s) = 1 THEN s[1] ELSE Mul12(Product(SubSeq(s, 1, Len(s) - 1)), s[Len(s)])
Chain2(y0, y1, t1) == <<t1, Product(<<Square12(Product(<<t1, y1>>)), Product(<<t1, y0>>)>>)>>[2]
Chain1(y0, y1, y2, y3, y5, t0) ==
    <<t0, Chain2(y0, y1, Square12(Product(<<Square12(Product(<<y3, y5, t0>>)), Product(<<t0, y2>>)>>)))>>[2]
Chain0(y0, y1, y2, y3, y4, y5, y6) ==
    <<y4, y6, Chain1(y0, y1, y2, y3, y5, Product(<<Square12(y6), y4, y5>>))>>[3]
FromPowers(t1, fp2, fu, fu2, fu3) ==
    <<fp2, fu3, Chain0(Product(<<Frobenius12(t1), fp2, Frobenius12(fp2)>>), Conjugate12(t1), FrobeniusP212(fu2),
                       Conjugate12(Frobenius12(fu)), Conjugate12(Product(<<fu, Frobenius12(fu2)>>)),
                       Conjugate12(fu2), Conjugate12(Product(<<fu3, Frobenius12(fu3)>>)))>>[3]
FromSquare(t1, fu, fu2) == <<fu2, FromPowers(t1, FrobeniusP212(t1), fu, fu2, Exp12(fu2, u))>>[2]
FromPower(t1, fu) == <<fu, FromSquare(t1, fu, Exp12(fu, u))>>[2]
HardPart(t1) == <<t1, FromPower(t1, Exp12(t1, u))>>[2]
EasyPart(t) == <<t, HardPart(Product(<<t, FrobeniusP212(t)>>))>>[2]
finalExponentiation(in) == EasyPart(Product(<<Conjugate12(in), Invert12(in)>>))

optimalAte(a, b) == IF IsInfinityT(a) \/ IsInfinity(b) THEN One12 ELSE Then(miller(a, b), finalExponentiation)
Pair(g1, g2) == optimalAte(g2, g1)
PairingCheck(a, b) ==
    LET acc[i \in 0 .. Len(a)] ==
          IF i = 0 THEN One12
          ELSE IF IsInfinity(a[i]) \/ IsInfinityT(b[i]) THEN acc[i - 1]
          ELSE Product(<<acc[i - 1], miller(b[i], a[i])>>)
    IN IsOne12(Then(acc[Len(a)], finalExponentiation))

\* GT: the twelve coordinates.
Coordinates(e) == <<e[1][1][1], e[1][1][2], e[1][2][1], e[1][2][2], e[1][3][1], e[1][3][2],
                    e[2][1][1], e[2][1][2], e[2][2][1], e[2][2][2], e[2][3][1], e[2][3][2]>>
MarshalGT(e) == LET c == Coordinates(e) IN [i \in 1 .. 12 |-> montDecode(c[i])]
UnmarshalGT(m) ==
    LET e(i) == montEncode(m[i])
        six(i) == <<<<e(i), e(i + 1)>>, <<e(i + 2), e(i + 3)>>, <<e(i + 4), e(i + 5)>>>>
    IN IF \E i \in 1 .. 12 : m[i] >= P THEN [err |-> "coordinate exceeds modulus"] ELSE <<six(1), six(7)>>
=============================================================================
