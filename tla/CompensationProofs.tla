------------------------ MODULE CompensationProofs ------------------------
(***************************************************************************)
(* The numbers behind read_pressure() for every raw value, not only those   *)
(* of a grid: products wrap as 32 bits do, KindsRight and Monotone hold on  *)
(* every grid in the range of the station.                                  *)
(*                                                                          *)
(* Numbers are bounded step by step along the code's expressions; SMT is    *)
(* named in every leaf that has large ones.                                 *)
(***************************************************************************)
EXTENDS CompensationRun, TLAPS

(* A shift to the right is between two multiples. *)
LEMMA ShrIs ==
  ASSUME NEW x \in Int
  PROVE  /\ Shr(x, 1) \in Int  /\ 2 * Shr(x, 1) <= x       /\ x < 2 * Shr(x, 1) + 2
         /\ Shr(x, 2) \in Int  /\ 4 * Shr(x, 2) <= x       /\ x < 4 * Shr(x, 2) + 4
         /\ Shr(x, 3) \in Int  /\ 8 * Shr(x, 3) <= x       /\ x < 8 * Shr(x, 3) + 8
         /\ Shr(x, 4) \in Int  /\ 16 * Shr(x, 4) <= x      /\ x < 16 * Shr(x, 4) + 16
         /\ Shr(x, 8) \in Int  /\ 256 * Shr(x, 8) <= x     /\ x < 256 * Shr(x, 8) + 256
         /\ Shr(x, 11) \in Int /\ 2048 * Shr(x, 11) <= x   /\ x < 2048 * Shr(x, 11) + 2048
         /\ Shr(x, 12) \in Int /\ 4096 * Shr(x, 12) <= x   /\ x < 4096 * Shr(x, 12) + 4096
         /\ Shr(x, 13) \in Int /\ 8192 * Shr(x, 13) <= x   /\ x < 8192 * Shr(x, 13) + 8192
         /\ Shr(x, 14) \in Int /\ 16384 * Shr(x, 14) <= x  /\ x < 16384 * Shr(x, 14) + 16384
         /\ Shr(x, 15) \in Int /\ 32768 * Shr(x, 15) <= x  /\ x < 32768 * Shr(x, 15) + 32768
         /\ Shr(x, 18) \in Int /\ 262144 * Shr(x, 18) <= x /\ x < 262144 * Shr(x, 18) + 262144
<1>1. /\ Shr(x, 1) = x \div 2 /\ Shr(x, 2) = x \div 4 /\ Shr(x, 3) = x \div 8
      /\ Shr(x, 4) = x \div 16 /\ Shr(x, 8) = x \div 256 /\ Shr(x, 11) = x \div 2048
      /\ Shr(x, 12) = x \div 4096 /\ Shr(x, 13) = x \div 8192 /\ Shr(x, 14) = x \div 16384
      /\ Shr(x, 15) = x \div 32768 /\ Shr(x, 18) = x \div 262144
  BY SMT DEF Shr
<1> QED
  BY <1>1, SMT

(* Quotient and remainder. *)
LEMMA DivIs ==
  ASSUME NEW x \in Int, NEW y \in Int, y > 0
  PROVE  /\ x \div y \in Int /\ (x % y) \in Int
         /\ x = y * (x \div y) + (x % y)
         /\ 0 <= (x % y) /\ (x % y) < y
<1>1. x \div y \in Int /\ y * (x \div y) <= x /\ x < y * (x \div y) + y
  BY SMT
<1>2. x - y * (x \div y) = x % y
  BY SMT
<1>3. y * (x \div y) \in Int
  BY <1>1, SMT
<1> QED
  BY <1>1, <1>2, <1>3, SMT

-----------------------------------------------------------------------------
(* The product of two halves, put together again. *)
LEMMA HalfProductIs ==
  ASSUME NEW x \in Int, x >= 0, NEW y \in Int
  PROVE  /\ HalfProduct(x, y)[1] \in Int /\ HalfProduct(x, y)[2] \in Int
         /\ 0 <= HalfProduct(x, y)[2] /\ HalfProduct(x, y)[2] <= 65535
         /\ x * y = 65536 * HalfProduct(x, y)[1] + HalfProduct(x, y)[2]
<1> DEFINE q == y \div 256
           r == y % 256
           high == x * q
           low == x * r + 256 * (high % 256)
<1>1. q \in Int /\ r \in Int /\ y = 256 * q + r
  BY DivIs, SMT
<1>2. HalfProduct(x, y)[1] = high \div 256 + low \div 65536 /\ HalfProduct(x, y)[2] = low % 65536
  BY DEF HalfProduct
<1> HIDE DEF q, r
<1>3. x * q \in Int /\ x * r \in Int /\ x * y = 256 * (x * q) + x * r
  BY <1>1, SMT
<1>4. high \in Int /\ high \div 256 \in Int /\ (high % 256) \in Int
      /\ high = 256 * (high \div 256) + (high % 256)
  BY <1>3, DivIs, SMT
<1>5. low \in Int
  BY <1>3, <1>4, SMT
<1>6. x * y = 65536 * (high \div 256) + low
  BY <1>3, <1>4, SMT
<1> HIDE DEF low, high
<1>7. /\ low \div 65536 \in Int /\ (low % 65536) \in Int
      /\ low = 65536 * (low \div 65536) + (low % 65536)
      /\ 0 <= (low % 65536) /\ (low % 65536) <= 65535
  BY <1>5, DivIs, SMT
<1> QED
  BY <1>2, <1>4, <1>6, <1>7, SMT

(* A word of 32 bits in its halves, and k words beyond. *)
Halves(x, k, h, l) ==
  /\ h = (x \div 65536) % 65536 /\ l = x % 65536
  /\ k \in Int
  /\ h \in Int /\ 0 <= h /\ h < 65536
  /\ l \in Int /\ 0 <= l /\ l < 65536
  /\ x = 4294967296 * k + 65536 * h + l

(* Every number has such halves. *)
LEMMA HalvesAre ==
  ASSUME NEW x \in Int
  PROVE  \E k, h, l : Halves(x, k, h, l)
<1> DEFINE q == x \div 65536
<1>1. q \in Int /\ (x % 65536) \in Int /\ x = 65536 * q + (x % 65536)
      /\ 0 <= (x % 65536) /\ (x % 65536) < 65536
  BY DivIs, SMT
<1> HIDE DEF q
<1>2. q \div 65536 \in Int /\ (q % 65536) \in Int /\ q = 65536 * (q \div 65536) + (q % 65536)
      /\ 0 <= (q % 65536) /\ (q % 65536) < 65536
  BY <1>1, DivIs, SMT
<1>3. x = 4294967296 * (q \div 65536) + 65536 * (q % 65536) + (x % 65536)
  BY <1>1, <1>2, SMT
<1>4. q % 65536 = (x \div 65536) % 65536
  BY SMT DEF q
<1>5. Halves(x, q \div 65536, q % 65536, x % 65536)
  BY <1>1, <1>2, <1>3, <1>4, SMT DEF Halves
<1> QED
  BY <1>5

(* What 32 bits hold. *)
Fits(z) == z \in Int /\ -2147483648 <= z /\ z < 2147483648

(* z is x but for k words. *)
Wraps(x, z, k) == k \in Int /\ x = z + 4294967296 * k

(* Mul(x, y) is x * y but for a multiple of 2^32, and in 32 bits: what the  *)
(* multiplication of the processor leaves when the code overflows.          *)
THEOREM MulWraps ==
  ASSUME NEW x \in Int, NEW y \in Int
  PROVE  Fits(Mul(x, y)) /\ \E k : Wraps(x * y, Mul(x, y), k)
<1>1. PICK kx, xh, xl : Halves(x, kx, xh, xl)
  BY HalvesAre
<1>2. PICK ky, yh, yl : Halves(y, ky, yh, yl)
  BY HalvesAre
<1> DEFINE A == HalfProduct(xl, yl)
           B == HalfProduct(xl, yh)
           C == HalfProduct(xh, yl)
           sum == A[1] + B[2] + C[2]
           high == sum % 65536
<1>3. Mul(x, y) = (IF high < 32768 THEN high ELSE high - 65536) * 65536 + A[2]
  <2>1. xh = (x \div 65536) % 65536 /\ xl = x % 65536 /\ yh = (y \div 65536) % 65536 /\ yl = y % 65536
    BY <1>1, <1>2, SMT DEF Halves
  <2> QED
    BY <2>1, SMT DEF Mul
<1>4. /\ xh \in Int /\ xh >= 0 /\ xl \in Int /\ xl >= 0 /\ kx \in Int
      /\ yh \in Int /\ yh >= 0 /\ yl \in Int /\ yl >= 0 /\ ky \in Int
  BY <1>1, <1>2, SMT DEF Halves
<1>5. A[1] \in Int /\ A[2] \in Int /\ 0 <= A[2] /\ A[2] <= 65535 /\ xl * yl = 65536 * A[1] + A[2]
  BY <1>4, HalfProductIs, SMT
<1>6. B[1] \in Int /\ B[2] \in Int /\ xl * yh = 65536 * B[1] + B[2]
  BY <1>4, HalfProductIs, SMT
<1>7. C[1] \in Int /\ C[2] \in Int /\ xh * yl = 65536 * C[1] + C[2]
  BY <1>4, HalfProductIs, SMT
<1> HIDE DEF A, B, C
<1>8. sum \in Int
  BY <1>5, <1>6, <1>7, SMT
<1> HIDE DEF sum
<1>9. /\ sum \div 65536 \in Int /\ high \in Int /\ sum = 65536 * (sum \div 65536) + high
      /\ 0 <= high /\ high < 65536
  BY <1>8, DivIs, SMT
<1> HIDE DEF high
<1>10. x * y = 4294967296 * (kx * y) + 65536 * (xh * y) + xl * y
  BY <1>1, <1>4, SMT DEF Halves
<1>11. xh * y = 4294967296 * (xh * ky) + 65536 * (xh * yh) + xh * yl
  BY <1>2, <1>4, SMT DEF Halves
<1>12. xl * y = 4294967296 * (xl * ky) + 65536 * (xl * yh) + xl * yl
  BY <1>2, <1>4, SMT DEF Halves
<1> DEFINE a == kx * y
           b == xh * ky
           c == xh * yh
           d == xl * ky
           e == sum \div 65536
           K == a + 65536 * b + c + d + B[1] + C[1] + e
<1>13. K \in Int /\ x * y = 4294967296 * K + 65536 * high + A[2]
  <2>1. a \in Int /\ b \in Int /\ c \in Int /\ d \in Int
    BY <1>4, SMT
  <2>2. sum = A[1] + B[2] + C[2] /\ sum = 65536 * e + high /\ e \in Int
    BY <1>9, SMT DEF sum
  <2>3. x * y = 4294967296 * a + 65536 * (4294967296 * b + 65536 * c + xh * yl) + (4294967296 * d + 65536 * (xl * yh) + xl * yl)
    BY <1>10, <1>11, <1>12, SMT
  <2> HIDE DEF a, b, c, d, e
  <2>4. x * y = 4294967296 * a + 65536 * (4294967296 * b + 65536 * c + 65536 * C[1] + C[2])
                  + (4294967296 * d + 65536 * (65536 * B[1] + B[2]) + 65536 * A[1] + A[2])
    BY <2>1, <2>3, <1>5, <1>6, <1>7, SMT
  <2> DEFINE xy == x * y
  <2>5. xy = 4294967296 * a + 65536 * (4294967296 * b + 65536 * c + 65536 * C[1] + C[2])
                  + (4294967296 * d + 65536 * (65536 * B[1] + B[2]) + 65536 * A[1] + A[2])
    BY <2>4, SMT
  <2> HIDE DEF xy
  <2> DEFINE a1 == A[1]
             a2 == A[2]
             b1 == B[1]
             b2 == B[2]
             c1 == C[1]
             c2 == C[2]
  <2>7. /\ a1 \in Int /\ a2 \in Int /\ b1 \in Int /\ b2 \in Int /\ c1 \in Int /\ c2 \in Int
        /\ sum = a1 + b2 + c2
        /\ xy = 4294967296 * a + 65536 * (4294967296 * b + 65536 * c + 65536 * c1 + c2)
                  + (4294967296 * d + 65536 * (65536 * b1 + b2) + 65536 * a1 + a2)
    BY <2>2, <2>5, <1>5, <1>6, <1>7, SMT
  <2>8. K = a + 65536 * b + c + d + b1 + c1 + e
    BY SMT
  <2> HIDE DEF a1, a2, b1, b2, c1, c2, K
  <2>6. K \in Int /\ xy = 4294967296 * K + 65536 * high + a2
    <3>1. K \in Int
      BY <2>1, <2>2, <2>7, <2>8, SMT
    <3>2. high = a1 + b2 + c2 - 65536 * e /\ high \in Int
      BY <1>9, <2>2, <2>7, SMT
    <3>3. xy = 4294967296 * K + 65536 * (a1 + b2 + c2 - 65536 * e) + a2
      BY <2>1, <2>2, <2>7, <2>8, SMT
    <3> QED
      BY <3>1, <3>2, <3>3, SMT
  <2> QED
    BY <2>6, SMT DEF xy, a2
<1> HIDE DEF K
<1>14. CASE high < 32768
  <2>1. Mul(x, y) = high * 65536 + A[2]
    BY <1>3, <1>14, SMT
  <2>2. Wraps(x * y, Mul(x, y), K)
    BY <2>1, <1>5, <1>9, <1>13, SMT DEF Wraps
  <2>3. Fits(Mul(x, y))
    BY <2>1, <1>5, <1>9, <1>14, SMT DEF Fits
  <2> QED
    BY <2>2, <2>3
<1>15. CASE ~ (high < 32768)
  <2>1. Mul(x, y) = (high - 65536) * 65536 + A[2]
    BY <1>3, <1>15, SMT
  <2>2. Wraps(x * y, Mul(x, y), K + 1)
    BY <2>1, <1>5, <1>9, <1>13, SMT DEF Wraps
  <2>3. Fits(Mul(x, y))
    BY <2>1, <1>5, <1>9, <1>15, SMT DEF Fits
  <2> QED
    BY <2>2, <2>3
<1> QED
  BY <1>14, <1>15, SMT

(* A product that may wrap is a number. *)
LEMMA MulInt ==
  ASSUME NEW x \in Int, NEW y \in Int
  PROVE  Mul(x, y) \in Int
  BY MulWraps, SMT DEF Fits

(* A product that fits is the product. *)
LEMMA MulIs ==
  ASSUME NEW x \in Int, NEW y \in Int, Fits(x * y)
  PROVE  Mul(x, y) = x * y
<1>1. PICK k : Wraps(x * y, Mul(x, y), k)
  BY MulWraps
<1>2. Fits(Mul(x, y))
  BY MulWraps
<1> QED
  BY <1>1, <1>2, SMT DEF Fits, Wraps

-----------------------------------------------------------------------------
(* One quotient between two multiples. *)
LEMMA QuotientUnique ==
  ASSUME NEW n \in Int, NEW y \in Int, y > 0,
         NEW q \in Int, y * q <= n, n < y * q + y
  PROVE  n \div y = q
<1> DEFINE r == n \div y
<1>1. r \in Int /\ y * r <= n /\ n < y * r + y
  BY DivIs, SMT
<1> HIDE DEF r
<1>2. y * (r - q) < y /\ y * (q - r) < y
  BY <1>1, SMT
<1>3. ~ (r - q >= 1) /\ ~ (q - r >= 1)
  BY <1>1, <1>2, SMT
<1>4. r = q
  BY <1>1, <1>3, SMT
<1> QED
  BY <1>4, SMT DEF r

(* A multiple of d, divided without the multiple itself. *)
LEMMA DivideFirst ==
  ASSUME NEW d \in Int, NEW y \in Int, y > 0, NEW m \in Int
  PROVE  (m * d) \div y = m * (d \div y) + (m * (d % y)) \div y
<1> DEFINE q == d \div y
           r == d % y
           s == (m * r) \div y
<1>1. q \in Int /\ r \in Int /\ d = y * q + r
  BY DivIs, SMT
<1> HIDE DEF q, r
<1>2. m * r \in Int
  BY <1>1, SMT
<1>3. s \in Int /\ y * s <= m * r /\ m * r < y * s + y
  BY <1>2, DivIs, SMT
<1> HIDE DEF s
<1> DEFINE k == m * q + s
<1>4. m * d = y * (m * q) + m * r
  BY <1>1, SMT
<1>5. k \in Int /\ y * k = y * (m * q) + y * s
  BY <1>1, <1>3, SMT
<1> DEFINE n == m * d
<1>6. n \in Int /\ y * k <= n /\ n < y * k + y
  <2>1. y * (m * q) \in Int /\ y * s \in Int /\ y * k \in Int
    BY <1>1, <1>3, <1>5, SMT
  <2> QED
    BY <1>2, <1>3, <1>4, <1>5, <2>1, SMT
<1> HIDE DEF k, n
<1>7. n \div y = k
  BY <1>5, <1>6, QuotientUnique
<1> QED
  BY <1>7, SMT DEF n, k, q, r, s

(* Quotient is the division of bmp280_compensate_pressure_int32, doubled    *)
(* before it below 2^31 and after it from there on.                         *)
THEOREM QuotientIs ==
  ASSUME NEW d \in Int, NEW x1 \in Int, x1 > 0
  PROVE  Quotient(d, x1) = IF 3125 * d < 2147483648 THEN (2 * (3125 * d)) \div x1
                           ELSE 2 * ((3125 * d) \div x1)
<1>1. (6250 * d) \div x1 = 6250 * (d \div x1) + (6250 * (d % x1)) \div x1
  BY DivideFirst, SMT
<1>2. (3125 * d) \div x1 = 3125 * (d \div x1) + (3125 * (d % x1)) \div x1
  BY DivideFirst, SMT
<1>3. d < 687195 <=> 3125 * d < 2147483648
  BY SMT
<1>4. 2 * (3125 * d) = 6250 * d
  BY SMT
<1> QED
  BY <1>1, <1>2, <1>3, <1>4, SMT DEF Quotient

(* How far it is from the quotient of real numbers. *)
LEMMA QuotientNear ==
  ASSUME NEW d \in Int, NEW x1 \in Int, x1 > 0
  PROVE  /\ Quotient(d, x1) \in Int
         /\ x1 * Quotient(d, x1) <= 6250 * d
         /\ 6250 * d < x1 * Quotient(d, x1) + 2 * x1
<1> DEFINE a == (6250 * d) \div x1
           b == (3125 * d) \div x1
           Q == Quotient(d, x1)
<1>1. Q = a \/ Q = 2 * b
  <2>1. 2 * (3125 * d) = 6250 * d
    BY SMT
  <2> QED
    BY <2>1, QuotientIs, SMT
<1>2. a \in Int /\ x1 * a <= 6250 * d /\ 6250 * d < x1 * a + x1
  BY DivIs, SMT
<1>3. b \in Int /\ x1 * b <= 3125 * d /\ 3125 * d < x1 * b + x1
  BY DivIs, SMT
<1> HIDE DEF a, b, Q
<1>4. CASE Q = a
  BY <1>2, <1>4, SMT DEF Q
<1>5. CASE Q = 2 * b
  <2>1. x1 * Q = 2 * (x1 * b)
    BY <1>3, <1>5, SMT
  <2>2. Q \in Int /\ x1 * b \in Int
    BY <1>3, <1>5, SMT
  <2>3. Q \in Int /\ x1 * Q <= 6250 * d /\ 6250 * d < x1 * Q + 2 * x1
    BY <1>3, <2>1, <2>2, SMT
  <2> QED
    BY <2>3, SMT DEF Q
<1> QED
  BY <1>1, <1>4, <1>5, SMT

-----------------------------------------------------------------------------
(* The coefficients of the two sensors, whether or not the last byte came.  *)
FirstLike(c) ==
  /\ c.T1 = 28148 /\ c.T2 = 26435 /\ c.T3 = -1000
  /\ c.P1 = 36477 /\ c.P2 = -10685 /\ c.P3 = 3024
  /\ c.P4 = 2855 /\ c.P5 = 140 /\ c.P6 = -7
  /\ c.P7 = 15500 /\ c.P8 = -14600
  /\ c.P9 \in Int /\ 0 <= c.P9 /\ c.P9 <= 6000

SecondLike(c) ==
  /\ c.T1 = 28021 /\ c.T2 = 25654 /\ c.T3 = 50
  /\ c.P1 = 39145 /\ c.P2 = -10750 /\ c.P3 = 3024
  /\ c.P4 = 5667 /\ c.P5 = -120 /\ c.P6 = -7
  /\ c.P7 = 15500 /\ c.P8 = -14600
  /\ c.P9 \in Int /\ 0 <= c.P9 /\ c.P9 <= 6000

(* A calibration that was read is one of them. *)
LEMMA CoefficientsAre ==
  ASSUME NEW c \in Calibrations, c # Zeros
  PROVE  FirstLike(c) \/ SecondLike(c)
<1>1. 6000 % 256 = 112
  BY SMT
<1>2. FirstLike(First) /\ SecondLike(Second)
  BY SMT DEF First, Second, FirstLike, SecondLike
<1>3. FirstLike(CutShort(First))
  BY <1>1, SMT DEF CutShort, First, FirstLike
<1>4. SecondLike(CutShort(Second))
  BY <1>1, SMT DEF CutShort, Second, SecondLike
<1>5. c = First \/ c = Second \/ c = CutShort(First) \/ c = CutShort(Second)
  BY DEF Calibrations
<1> QED
  BY <1>2, <1>3, <1>4, <1>5

(* Coefficients are numbers. *)
LEMMA CoefficientsTyped ==
  ASSUME NEW c, FirstLike(c) \/ SecondLike(c)
  PROVE  /\ c.T1 \in Int /\ c.T2 \in Int /\ c.T3 \in Int
         /\ c.P1 \in Int /\ c.P2 \in Int /\ c.P3 \in Int
         /\ c.P4 \in Int /\ c.P5 \in Int /\ c.P6 \in Int
         /\ c.P7 \in Int /\ c.P8 \in Int /\ c.P9 \in Int
  BY SMT DEF FirstLike, SecondLike

-----------------------------------------------------------------------------
(* s is x without its lower bits, of which there are n values. *)
Cut(x, n, s) == s \in Int /\ n * s <= x /\ x < n * s + n

(* A shift to the right cuts. *)
LEMMA ShrCuts ==
  ASSUME NEW x \in Int
  PROVE  /\ Cut(x, 2, Shr(x, 1)) /\ Cut(x, 4, Shr(x, 2)) /\ Cut(x, 8, Shr(x, 3))
         /\ Cut(x, 16, Shr(x, 4)) /\ Cut(x, 256, Shr(x, 8)) /\ Cut(x, 2048, Shr(x, 11))
         /\ Cut(x, 4096, Shr(x, 12)) /\ Cut(x, 8192, Shr(x, 13)) /\ Cut(x, 16384, Shr(x, 14))
         /\ Cut(x, 32768, Shr(x, 15)) /\ Cut(x, 262144, Shr(x, 18))
  BY ShrIs, SMT DEF Cut

(* The expressions of bmp280_compensate_temperature_int32. *)
TempParts(c, t, a, x, b, q, e) ==
  /\ Cut(t, 8, a) /\ Cut((a - c.T1 * 2) * c.T2, 2048, x)
  /\ Cut(t, 16, b) /\ Cut((b - c.T1) * (b - c.T1), 4096, q) /\ Cut(q * c.T3, 16384, e)

(* They are what TFine is computed from. *)
LEMMA TempPartsExist ==
  ASSUME NEW c, FirstLike(c) \/ SecondLike(c), NEW t \in Int
  PROVE  \E a, x, b, q, e : TempParts(c, t, a, x, b, q, e) /\ TFine(c, t) = x + e
<1> DEFINE a == Shr(t, 3)
           m == (a - c.T1 * 2) * c.T2
           x == Shr(m, 11)
           b == Shr(t, 4)
           o == (b - c.T1) * (b - c.T1)
           q == Shr(o, 12)
           n == q * c.T3
           e == Shr(n, 14)
<1>1. c.T1 \in Int /\ c.T2 \in Int /\ c.T3 \in Int
  BY CoefficientsTyped
<1>2. Cut(t, 8, a) /\ Cut(t, 16, b)
  BY ShrCuts
<1>3. m \in Int /\ o \in Int
  BY <1>1, <1>2, SMT DEF Cut
<1>4. Cut(m, 2048, x) /\ Cut(o, 4096, q)
  BY <1>3, ShrCuts
<1>5. n \in Int
  BY <1>1, <1>4, SMT DEF Cut
<1>6. Cut(n, 16384, e)
  BY <1>5, ShrCuts
<1>7. TFine(c, t) = x + e
  BY DEF TFine
<1>8. TempParts(c, t, a, x, b, q, e)
  BY <1>2, <1>4, <1>6 DEF TempParts
<1> QED
  BY <1>7, <1>8

(* They are bounded within the range of the station, and no product leaves  *)
(* 32 bits.                                                                 *)
TempBounded(c, a, x, b, q, e) ==
  /\ Fits((a - c.T1 * 2) * c.T2) /\ Fits((b - c.T1) * (b - c.T1)) /\ Fits(q * c.T3)
  /\ Fits((x + e) * 5 + 128)
  /\ x + e \in Int /\ -52300 <= x + e /\ x + e <= 256000

(* Both follow from the range of the raw temperature. *)
LEMMA TempPartsBounded ==
  ASSUME NEW c, FirstLike(c) \/ SecondLike(c), NEW t \in Int, 418984 <= t, t <= 609000,
         NEW a, NEW x, NEW b, NEW q, NEW e, TempParts(c, t, a, x, b, q, e)
  PROVE  TempBounded(c, a, x, b, q, e)
<1>1. a \in Int /\ 52373 <= a /\ a <= 76125 /\ b \in Int /\ 26186 <= b /\ b <= 38062
  BY SMT DEF TempParts, Cut
<1> DEFINE o == b - c.T1
           m == (a - c.T1 * 2) * c.T2
<1>2. o \in Int /\ -1962 <= o /\ o <= 10041
  BY <1>1, SMT DEF FirstLike, SecondLike
<1>3. Cut(m, 2048, x) /\ Cut(o * o, 4096, q) /\ Cut(q * c.T3, 16384, e)
  BY SMT DEF TempParts
<1> HIDE DEF o
<1>4. o * o \in Int /\ 0 <= o * o /\ o * o <= 100821681
  BY <1>2, SMT
<1>5. q \in Int /\ 0 <= q /\ q <= 24614
  BY <1>3, <1>4, SMT DEF Cut
<1>6. CASE FirstLike(c)
  <2>1. m \in Int /\ -103704505 <= m /\ m <= 524179615
    BY <1>1, <1>6, SMT DEF FirstLike
  <2> HIDE DEF m
  <2>2. x \in Int /\ -50700 <= x /\ x <= 256000
    BY <1>3, <2>1, SMT DEF Cut
  <2>3. q * c.T3 \in Int /\ -24614000 <= q * c.T3 /\ q * c.T3 <= 0
    BY <1>5, <1>6, SMT DEF FirstLike
  <2>4. e \in Int /\ -1503 <= e /\ e <= 0
    BY <1>3, <2>3, SMT DEF Cut
  <2>5. x + e \in Int /\ -52300 <= x + e /\ x + e <= 256000
    BY <2>2, <2>4, SMT
  <2> QED
    BY <1>4, <2>1, <2>3, <2>5, SMT DEF TempBounded, Fits, m, o
<1>7. CASE SecondLike(c)
  <2>1. m \in Int /\ -94124526 <= m /\ m <= 515209282
    BY <1>1, <1>7, SMT DEF SecondLike
  <2> HIDE DEF m
  <2>2. x \in Int /\ -46000 <= x /\ x <= 251600
    BY <1>3, <2>1, SMT DEF Cut
  <2>3. q * c.T3 \in Int /\ 0 <= q * c.T3 /\ q * c.T3 <= 1230700
    BY <1>5, <1>7, SMT DEF SecondLike
  <2>4. e \in Int /\ 0 <= e /\ e <= 75
    BY <1>3, <2>3, SMT DEF Cut
  <2>5. x + e \in Int /\ -52300 <= x + e /\ x + e <= 256000
    BY <2>2, <2>4, SMT
  <2> QED
    BY <1>4, <2>1, <2>3, <2>5, SMT DEF TempBounded, Fits, m, o
<1> QED
  BY <1>6, <1>7

(* t_fine within the range of the station. *)
LEMMA TFineRange ==
  ASSUME NEW c, FirstLike(c) \/ SecondLike(c), NEW t \in Int, 418984 <= t, t <= 609000
  PROVE  TFine(c, t) \in Int /\ -52300 <= TFine(c, t) /\ TFine(c, t) <= 256000
<1>1. PICK a, x, b, q, e : TempParts(c, t, a, x, b, q, e) /\ TFine(c, t) = x + e
  BY TempPartsExist
<1>2. TempBounded(c, a, x, b, q, e)
  BY <1>1, TempPartsBounded
<1> QED
  BY <1>1, <1>2, SMT DEF TempBounded

(* A void temperature is 23.23 degrees, with or without its last four bits. *)
LEMMA VoidTemperature ==
  ASSUME NEW c, FirstLike(c) \/ SecondLike(c)
  PROVE  bmp280_compensate_temperature_int32(c, 524288) = 2323
<1> DEFINE f == TFine(c, 524288)
<1>1. PICK a, x, b, q, e : TempParts(c, 524288, a, x, b, q, e) /\ f = x + e
  <2>1. 524288 \in Int
    BY SMT
  <2> QED
    BY <2>1, TempPartsExist, SMT
<1>2. a = 65536 /\ b = 32768
  BY <1>1, SMT DEF TempParts, Cut
<1> HIDE DEF f
<1>3. ASSUME FirstLike(c) PROVE f = 118948
  <2>1. x = 119267
    BY <1>1, <1>2, <1>3, SMT DEF TempParts, Cut, FirstLike
  <2>2. q = 5211
    BY <1>1, <1>2, <1>3, SMT DEF TempParts, Cut, FirstLike
  <2>3. e = -319
    BY <1>1, <2>2, <1>3, SMT DEF TempParts, Cut, FirstLike
  <2> QED
    BY <1>1, <2>1, <2>3, SMT
<1>4. ASSUME SecondLike(c) PROVE f = 118941
  <2>1. x = 118925
    BY <1>1, <1>2, <1>4, SMT DEF TempParts, Cut, SecondLike
  <2>2. q = 5501
    BY <1>1, <1>2, <1>4, SMT DEF TempParts, Cut, SecondLike
  <2>3. e = 16
    BY <1>1, <2>2, <1>4, SMT DEF TempParts, Cut, SecondLike
  <2> QED
    BY <1>1, <2>1, <2>3, SMT
<1>5. f \in Int /\ 2323 * 256 <= f * 5 + 128 /\ f * 5 + 128 < 2324 * 256
  <2>1. f = 118948 \/ f = 118941
    BY <1>3, <1>4, SMT
  <2> QED
    BY <2>1, SMT
<1>6. Cut(f * 5 + 128, 256, Shr(f * 5 + 128, 8))
  <2>1. f * 5 + 128 \in Int
    BY <1>5, SMT
  <2> QED
    BY <2>1, ShrCuts
<1>7. bmp280_compensate_temperature_int32(c, 524288) = Shr(f * 5 + 128, 8)
  BY SMT DEF bmp280_compensate_temperature_int32, f
<1>8. Shr(f * 5 + 128, 8) = 2323
  BY <1>5, <1>6, SMT DEF Cut
<1> QED
  BY <1>7, <1>8, SMT

(* A square moves at most as far as its root and the sum of the roots.      *)
LEMMA SquaresApart ==
  ASSUME NEW o \in Int, NEW p \in Int, NEW n \in Int, NEW r \in Int,
         0 <= p - o, p - o <= n, -r <= p + o, p + o <= r, 0 <= r
  PROVE  -(n * r) <= p * p - o * o /\ p * p - o * o <= n * r
<1> DEFINE u == p - o
           v == p + o
<1>1. p * p - o * o = u * v
  BY SMT
<1>2. u \in Int /\ v \in Int /\ 0 <= u /\ u <= n /\ -r <= v /\ v <= r
  BY SMT
<1> HIDE DEF u, v
<1>3. -(u * r) <= u * v /\ u * v <= u * r
  BY <1>2, SMT
<1>4. u * r <= n * r
  BY <1>2, SMT
<1>5. u * v \in Int /\ u * r \in Int /\ n * r \in Int
  BY <1>2, SMT
<1>6. -(n * r) <= u * v /\ u * v <= n * r
  BY <1>3, <1>4, <1>5, SMT
<1> QED
  BY <1>1, <1>6, SMT

(* Raw temperatures a hundred apart are degrees apart. *)
LEMMA WarmerIsHigher ==
  ASSUME NEW c, FirstLike(c) \/ SecondLike(c),
         NEW t \in Int, 419000 <= t, NEW u \in Int, u <= 609000, t + 100 <= u
  PROVE  bmp280_compensate_temperature_int32(c, t) < bmp280_compensate_temperature_int32(c, u)
<1>1. PICK a, x, b, q, e : TempParts(c, t, a, x, b, q, e) /\ TFine(c, t) = x + e
  BY TempPartsExist
<1>2. PICK a1, x1, b1, q1, e1 : TempParts(c, u, a1, x1, b1, q1, e1) /\ TFine(c, u) = x1 + e1
  BY TempPartsExist
<1> DEFINE n == a1 - a
<1>3. /\ a \in Int /\ a1 \in Int /\ b \in Int /\ b1 \in Int /\ n \in Int /\ n >= 12
      /\ b <= b1 /\ 2 * (b1 - b) <= n + 2
      /\ 26186 <= b /\ b1 <= 38062
  BY <1>1, <1>2, SMT DEF TempParts, Cut
<1>4. /\ x \in Int /\ x1 \in Int /\ 2048 * (x1 - x) > 25654 * n - 2048
  <2>1. CASE FirstLike(c)
    BY <2>1, <1>1, <1>2, <1>3, SMT DEF TempParts, Cut, FirstLike
  <2>2. CASE SecondLike(c)
    BY <2>2, <1>1, <1>2, <1>3, SMT DEF TempParts, Cut, SecondLike
  <2> QED
    BY <2>1, <2>2
<1> DEFINE o == b - c.T1
           o1 == b1 - c.T1
<1>5. /\ o \in Int /\ o1 \in Int /\ 0 <= o1 - o /\ 2 * (o1 - o) <= n + 2
      /\ -20100 <= o1 + o /\ o1 + o <= 20100
      /\ Cut(o * o, 4096, q) /\ Cut(o1 * o1, 4096, q1)
      /\ Cut(q * c.T3, 16384, e) /\ Cut(q1 * c.T3, 16384, e1)
  <2>1. c.T1 \in {28148, 28021}
    BY SMT DEF FirstLike, SecondLike
  <2> QED
    BY <2>1, <1>1, <1>2, <1>3, SMT DEF TempParts
<1> HIDE DEF o, o1, n
<1>6. -((o1 - o) * 20100) <= o1 * o1 - o * o /\ o1 * o1 - o * o <= (o1 - o) * 20100
  <2>1. o1 - o \in Int /\ o1 - o <= o1 - o /\ 20100 \in Int /\ 0 <= 20100
    BY <1>5, SMT
  <2> QED
    BY <1>5, <2>1, SquaresApart, SMT
<1>7. /\ q \in Int /\ q1 \in Int
      /\ -(10050 * (n + 2)) - 4096 <= 4096 * (q1 - q)
      /\ 4096 * (q1 - q) <= 10050 * (n + 2) + 4096
  <2>1. o * o \in Int /\ o1 * o1 \in Int
    BY <1>5, SMT
  <2> QED
    BY <2>1, <1>3, <1>5, <1>6, SMT DEF Cut
<1>8. /\ e \in Int /\ e1 \in Int /\ 16384 * (e1 - e) >= -(1000 * (3 * (n + 2) + 1)) - 16384
  <2>1. CASE c.T3 = -1000
    BY <2>1, <1>3, <1>5, <1>7, SMT DEF Cut
  <2>2. CASE c.T3 = 50
    BY <2>2, <1>3, <1>5, <1>7, SMT DEF Cut
  <2> QED
    BY <2>1, <2>2, SMT DEF FirstLike, SecondLike
<1> DEFINE f == TFine(c, t)
           g == TFine(c, u)
<1>9. f \in Int /\ g \in Int /\ g >= f + 52
  BY <1>1, <1>2, <1>3, <1>4, <1>8, SMT
<1> HIDE DEF f, g
<1>10. Cut(f * 5 + 128, 256, Shr(f * 5 + 128, 8)) /\ Cut(g * 5 + 128, 256, Shr(g * 5 + 128, 8))
  <2>1. f * 5 + 128 \in Int /\ g * 5 + 128 \in Int
    BY <1>9, SMT
  <2> QED
    BY <2>1, ShrCuts
<1>11. Shr(f * 5 + 128, 8) < Shr(g * 5 + 128, 8)
  BY <1>9, <1>10, SMT DEF Cut
<1> QED
  BY <1>11, SMT DEF bmp280_compensate_temperature_int32, f, g

-----------------------------------------------------------------------------
(* The expressions of bmp280_compensate_pressure_int32 up to its two        *)
(* corrections, from t_fine.                                                *)
CentreParts(f, h, g) == Cut(f, 2, h) /\ Cut(h - 64000, 4, g)

OffsetParts(c, h, m, u, v, o) ==
  /\ Cut(m, 2048, u)
  /\ Cut(u * c.P6 + (h - 64000) * c.P5 * 2, 4, v)
  /\ Cut(v + c.P4 * 65536, 4096, o)

DivisorParts(c, m, n, w, k, r, s, d) ==
  /\ Cut(m, 8192, w) /\ Cut(c.P3 * w, 8, k)
  /\ Cut(n, 2, r) /\ Cut(k + r, 262144, s)
  /\ Cut((32768 + s) * c.P1, 32768, d)

(* They are what Offset is computed from. *)
LEMMA OffsetPartsExist ==
  ASSUME NEW c, FirstLike(c) \/ SecondLike(c), NEW f \in Int
  PROVE  \E h, g, u, v : CentreParts(f, h, g) /\ OffsetParts(c, h, Mul(g, g), u, v, Offset(c, f))
<1> DEFINE h == Shr(f, 1)
           x1 == h - 64000
           g == Shr(x1, 2)
           m == Mul(g, g)
           u == Shr(m, 11)
           x2 == u * c.P6 + x1 * c.P5 * 2
           v == Shr(x2, 2)
           y == v + c.P4 * 65536
<1>1. c.P4 \in Int /\ c.P5 \in Int /\ c.P6 \in Int
  BY CoefficientsTyped
<1>2. Cut(f, 2, h)
  BY ShrCuts
<1>3. x1 \in Int
  BY <1>2, SMT DEF Cut
<1>4. Cut(x1, 4, g)
  BY <1>3, ShrCuts
<1>5. m \in Int
  <2>1. g \in Int
    BY <1>4, SMT DEF Cut
  <2> QED
    BY <2>1, MulInt, SMT
<1>6. Cut(m, 2048, u)
  BY <1>5, ShrCuts
<1>7. x2 \in Int
  BY <1>1, <1>3, <1>6, SMT DEF Cut
<1>8. Cut(x2, 4, v)
  BY <1>7, ShrCuts
<1>9. y \in Int
  BY <1>1, <1>8, SMT DEF Cut
<1>10. Cut(y, 4096, Shr(y, 12))
  BY <1>9, ShrCuts
<1>11. Offset(c, f) = Shr(y, 12)
  BY SMT DEF Offset
<1>12. OffsetParts(c, h, m, u, v, Offset(c, f))
  BY <1>6, <1>8, <1>10, <1>11, SMT DEF OffsetParts
<1>13. CentreParts(f, h, g)
  BY <1>2, <1>4, SMT DEF CentreParts
<1> QED
  BY <1>12, <1>13

(* They are what Divisor is computed from. *)
LEMMA DivisorPartsExist ==
  ASSUME NEW c, FirstLike(c) \/ SecondLike(c), NEW f \in Int
  PROVE  \E h, g, w, k, r, s :
           /\ CentreParts(f, h, g)
           /\ DivisorParts(c, Mul(g, g), Mul(c.P2, h - 64000), w, k, r, s, Divisor(c, f))
<1> DEFINE h == Shr(f, 1)
           x1 == h - 64000
           g == Shr(x1, 2)
           m == Mul(g, g)
           n == Mul(c.P2, x1)
           w == Shr(m, 13)
           k == Shr(c.P3 * w, 3)
           r == Shr(n, 1)
           s == Shr(k + r, 18)
           y == (32768 + s) * c.P1
<1>1. c.P1 \in Int /\ c.P2 \in Int /\ c.P3 \in Int
  BY CoefficientsTyped
<1>2. Cut(f, 2, h)
  BY ShrCuts
<1>3. x1 \in Int
  BY <1>2, SMT DEF Cut
<1>4. Cut(x1, 4, g)
  BY <1>3, ShrCuts
<1>5. m \in Int
  <2>1. g \in Int
    BY <1>4, SMT DEF Cut
  <2> QED
    BY <2>1, MulInt, SMT
<1> HIDE DEF x1
<1>6. n \in Int
  <2> DEFINE p2 == c.P2
  <2>1. p2 \in Int
    BY <1>1
  <2> HIDE DEF p2
  <2>2. Mul(p2, x1) \in Int
    BY <1>3, <2>1, MulInt, SMT
  <2> QED
    BY <2>2, SMT DEF p2
<1>7. Cut(m, 8192, w) /\ Cut(n, 2, r)
  BY <1>5, <1>6, ShrCuts
<1>8. c.P3 * w \in Int
  BY <1>1, <1>7, SMT DEF Cut
<1>9. Cut(c.P3 * w, 8, k)
  BY <1>8, ShrCuts
<1>10. k + r \in Int
  BY <1>7, <1>9, SMT DEF Cut
<1>11. Cut(k + r, 262144, s)
  BY <1>10, ShrCuts
<1>12. y \in Int
  BY <1>1, <1>11, SMT DEF Cut
<1>13. Cut(y, 32768, Shr(y, 15))
  BY <1>12, ShrCuts
<1>14. Divisor(c, f) = Shr(y, 15)
  BY SMT DEF Divisor, x1
<1>15. DivisorParts(c, m, n, w, k, r, s, Divisor(c, f))
  BY <1>7, <1>9, <1>11, <1>13, <1>14, SMT DEF DivisorParts
<1>16. CentreParts(f, h, g)
  BY <1>2, <1>4, SMT DEF CentreParts, x1
<1>17. DivisorParts(c, Mul(g, g), Mul(c.P2, h - 64000), w, k, r, s, Divisor(c, f))
  BY <1>15, SMT DEF x1
<1> QED
  BY <1>16, <1>17

(* Within the range of the station no product of the corrections leaves 32  *)
(* bits, and the divisor is far from 0.                                     *)
CorrectionsBounded(c, x1, g, u, v, o, w, k, r, s, d) ==
  /\ Fits(g * g) /\ Fits(u * c.P6) /\ Fits(x1 * c.P5 * 2)
  /\ Fits(u * c.P6 + x1 * c.P5 * 2) /\ Fits(v + c.P4 * 65536)
  /\ Fits(c.P3 * w) /\ Fits(c.P2 * x1) /\ Fits(k + r) /\ Fits((32768 + s) * c.P1)
  /\ d \in Int /\ 35000 <= d /\ d <= 41500
  /\ o \in Int /\ 44000 <= o /\ o <= 92000

(* The square does not wrap, which the rest takes as given. *)
LEMMA SquareFits ==
  ASSUME NEW f \in Int, -52300 <= f, f <= 256000, NEW h, NEW g, CentreParts(f, h, g)
  PROVE  /\ h \in Int /\ -90150 <= h - 64000 /\ h - 64000 <= 64000
         /\ g * g \in Int /\ 0 <= g * g /\ g * g <= 507961444 /\ Mul(g, g) = g * g
<1>1. h \in Int /\ -90150 <= h - 64000 /\ h - 64000 <= 64000 /\ g \in Int /\ -22538 <= g /\ g <= 16000
  BY SMT DEF CentreParts, Cut
<1>2. g * g \in Int /\ 0 <= g * g /\ g * g <= 507961444
  BY <1>1, SMT
<1>3. Mul(g, g) = g * g
  BY <1>1, <1>2, MulIs, SMT DEF Fits
<1> QED
  BY <1>1, <1>2, <1>3, SMT

(* Nor does the other product. *)
LEMMA SlopeFits ==
  ASSUME NEW c, FirstLike(c) \/ SecondLike(c),
         NEW y \in Int, -90150 <= y, y <= 64000
  PROVE  Mul(c.P2, y) = c.P2 * y
<1> DEFINE z == c.P2
<1>1. z = -10685 \/ z = -10750
  BY SMT DEF FirstLike, SecondLike
<1> HIDE DEF z
<1>2. z \in Int /\ Fits(z * y)
  BY <1>1, SMT DEF Fits
<1>3. Mul(z, y) = z * y
  BY <1>2, MulIs
<1> QED
  BY <1>3, SMT DEF z

(* Each expression in turn, for each of the sensors. *)
LEMMA CorrectionPartsBounded ==
  ASSUME NEW c, FirstLike(c) \/ SecondLike(c), NEW f \in Int, -52300 <= f, f <= 256000,
         NEW h, NEW g, NEW u, NEW v, NEW o, NEW w, NEW k, NEW r, NEW s, NEW d,
         CentreParts(f, h, g), OffsetParts(c, h, Mul(g, g), u, v, o),
         DivisorParts(c, Mul(g, g), Mul(c.P2, h - 64000), w, k, r, s, d)
  PROVE  CorrectionsBounded(c, h - 64000, g, u, v, o, w, k, r, s, d)
<1> DEFINE x1 == h - 64000
           m == g * g
<1>1. /\ h \in Int /\ -90150 <= x1 /\ x1 <= 64000
      /\ m \in Int /\ 0 <= m /\ m <= 507961444 /\ Mul(g, g) = m
  BY SquareFits, SMT
<1>2. x1 \in Int /\ -90150 <= x1 /\ x1 <= 64000
  BY <1>1, SMT
<1>3. Fits(g * g)
  BY <1>1, SMT DEF Fits
<1>4. Mul(c.P2, h - 64000) = c.P2 * x1
  BY <1>2, SlopeFits, SMT
<1> HIDE DEF m
<1>5. /\ Cut(m, 2048, u) /\ Cut(u * c.P6 + x1 * c.P5 * 2, 4, v) /\ Cut(v + c.P4 * 65536, 4096, o)
      /\ DivisorParts(c, m, c.P2 * x1, w, k, r, s, d)
  BY <1>1, <1>4, SMT DEF OffsetParts
<1> HIDE DEF x1
<1>6. u \in Int /\ 0 <= u /\ u <= 248028 /\ w \in Int /\ 0 <= w /\ w <= 62007
  BY <1>1, <1>5, SMT DEF DivisorParts, Cut
<1>7. k \in Int /\ 0 <= k /\ k <= 23438646 /\ Fits(c.P3 * w)
  <2>1. c.P3 = 3024
    BY SMT DEF FirstLike, SecondLike
  <2> QED
    BY <1>5, <1>6, <2>1, SMT DEF DivisorParts, Cut, Fits
<1>8. ASSUME FirstLike(c) PROVE CorrectionsBounded(c, x1, g, u, v, o, w, k, r, s, d)
  <2>1. u * c.P6 \in Int /\ x1 * c.P5 * 2 \in Int
        /\ -1736196 <= u * c.P6 /\ u * c.P6 <= 0
        /\ -25242000 <= x1 * c.P5 * 2 /\ x1 * c.P5 * 2 <= 17920000
    BY <1>2, <1>6, <1>8, SMT DEF FirstLike
  <2>2. v \in Int /\ -6744600 <= v /\ v <= 4480000
    BY <1>5, <1>6, <2>1, SMT DEF Cut
  <2>3. o \in Int /\ 44000 <= o /\ o <= 92000
    BY <1>5, <1>8, <2>2, SMT DEF Cut, FirstLike
  <2>4. Fits(u * c.P6) /\ Fits(x1 * c.P5 * 2) /\ Fits(u * c.P6 + x1 * c.P5 * 2) /\ Fits(v + c.P4 * 65536)
    BY <1>8, <2>1, <2>2, SMT DEF Fits, FirstLike
  <2>5. c.P2 * x1 \in Int /\ -683840000 <= c.P2 * x1 /\ c.P2 * x1 <= 963252750
    BY <1>2, <1>8, SMT DEF FirstLike
  <2>6. r \in Int /\ -344000000 <= r /\ r <= 484556250
    BY <1>5, <2>5, SMT DEF DivisorParts, Cut
  <2>7. s \in Int /\ -1313 <= s /\ s <= 1937
    BY <1>5, <1>7, <2>6, SMT DEF DivisorParts, Cut
  <2>8. d \in Int /\ 35000 <= d /\ d <= 41500
    BY <1>5, <1>8, <2>7, SMT DEF DivisorParts, Cut, FirstLike
  <2>9. Fits(c.P2 * x1) /\ Fits(k + r) /\ Fits((32768 + s) * c.P1)
    BY <1>7, <1>8, <2>5, <2>6, <2>7, SMT DEF Fits, FirstLike
  <2> QED
    BY <1>3, <1>6, <1>7, <2>3, <2>4, <2>8, <2>9, SMT DEF CorrectionsBounded
<1>9. ASSUME SecondLike(c) PROVE CorrectionsBounded(c, x1, g, u, v, o, w, k, r, s, d)
  <2>1. u * c.P6 \in Int /\ x1 * c.P5 * 2 \in Int
        /\ -1736196 <= u * c.P6 /\ u * c.P6 <= 0
        /\ -15360000 <= x1 * c.P5 * 2 /\ x1 * c.P5 * 2 <= 21636000
    BY <1>2, <1>6, <1>9, SMT DEF SecondLike
  <2>2. v \in Int /\ -4274100 <= v /\ v <= 5409000
    BY <1>5, <1>6, <2>1, SMT DEF Cut
  <2>3. o \in Int /\ 44000 <= o /\ o <= 92000
    BY <1>5, <1>9, <2>2, SMT DEF Cut, SecondLike
  <2>4. Fits(u * c.P6) /\ Fits(x1 * c.P5 * 2) /\ Fits(u * c.P6 + x1 * c.P5 * 2) /\ Fits(v + c.P4 * 65536)
    BY <1>9, <2>1, <2>2, SMT DEF Fits, SecondLike
  <2>5. c.P2 * x1 \in Int /\ -688000000 <= c.P2 * x1 /\ c.P2 * x1 <= 969112500
    BY <1>2, <1>9, SMT DEF SecondLike
  <2>6. r \in Int /\ -344000000 <= r /\ r <= 484556250
    BY <1>5, <2>5, SMT DEF DivisorParts, Cut
  <2>7. s \in Int /\ -1313 <= s /\ s <= 1937
    BY <1>5, <1>7, <2>6, SMT DEF DivisorParts, Cut
  <2>8. d \in Int /\ 35000 <= d /\ d <= 41500
    BY <1>5, <1>9, <2>7, SMT DEF DivisorParts, Cut, SecondLike
  <2>9. Fits(c.P2 * x1) /\ Fits(k + r) /\ Fits((32768 + s) * c.P1)
    BY <1>7, <1>9, <2>5, <2>6, <2>7, SMT DEF Fits, SecondLike
  <2> QED
    BY <1>3, <1>6, <1>7, <2>3, <2>4, <2>8, <2>9, SMT DEF CorrectionsBounded
<1>10. CorrectionsBounded(c, x1, g, u, v, o, w, k, r, s, d)
  BY <1>8, <1>9
<1> QED
  BY <1>10, SMT DEF x1

(* The corrections themselves. *)
LEMMA CorrectionsInRange ==
  ASSUME NEW c, FirstLike(c) \/ SecondLike(c), NEW f \in Int, -52300 <= f, f <= 256000
  PROVE  /\ Divisor(c, f) \in Int /\ 35000 <= Divisor(c, f) /\ Divisor(c, f) <= 41500
         /\ Offset(c, f) \in Int /\ 44000 <= Offset(c, f) /\ Offset(c, f) <= 92000
<1>1. PICK h, g, u, v : CentreParts(f, h, g) /\ OffsetParts(c, h, Mul(g, g), u, v, Offset(c, f))
  BY OffsetPartsExist
<1>2. PICK h2, g2, w, k, r, s :
        /\ CentreParts(f, h2, g2)
        /\ DivisorParts(c, Mul(g2, g2), Mul(c.P2, h2 - 64000), w, k, r, s, Divisor(c, f))
  BY DivisorPartsExist
<1>3. h2 = h /\ g2 = g
  BY <1>1, <1>2, SMT DEF CentreParts, Cut
<1>4. CorrectionsBounded(c, h - 64000, g, u, v, Offset(c, f), w, k, r, s, Divisor(c, f))
  BY <1>1, <1>2, <1>3, CorrectionPartsBounded
<1> QED
  BY <1>4, SMT DEF CorrectionsBounded

(* The rest of bmp280_compensate_pressure_int32, from the quotient p on.    *)
RestParts(c, p, a, b, x1, g, x2, e) ==
  /\ Cut(p, 8, a) /\ Cut(a * a, 8192, b) /\ Cut(c.P9 * b, 4096, x1)
  /\ Cut(p, 4, g) /\ Cut(g * c.P8, 8192, x2)
  /\ Cut(x1 + x2 + c.P7, 16, e)

Distance(c, f, raw_p) == 1048576 - raw_p - Offset(c, f)

(* They are what the pressure is computed from. *)
LEMMA PressurePartsExist ==
  ASSUME NEW c, FirstLike(c) \/ SecondLike(c), NEW f, NEW raw_p \in Int,
         Offset(c, f) \in Int, Divisor(c, f) \in Int, Divisor(c, f) > 0
  PROVE  \E p, a, b, x1, g, x2, e :
           /\ RestParts(c, p, a, b, x1, g, x2, e)
           /\ p = Quotient(Distance(c, f, raw_p), Divisor(c, f))
           /\ bmp280_compensate_pressure_int32(c, f, raw_p) = p + e
<1> DEFINE d == Distance(c, f, raw_p)
           p == Quotient(d, Divisor(c, f))
           a == Shr(p, 3)
           b == Shr(a * a, 13)
           x1 == Shr(c.P9 * b, 12)
           g == Shr(p, 2)
           x2 == Shr(g * c.P8, 13)
           e == Shr(x1 + x2 + c.P7, 4)
<1>1. c.P7 \in Int /\ c.P8 \in Int /\ c.P9 \in Int
  BY CoefficientsTyped
<1>2. p \in Int
  <2>1. d \in Int
    BY SMT DEF Distance
  <2> QED
    BY <2>1, QuotientNear
<1> HIDE DEF p
<1>3. Cut(p, 8, a) /\ Cut(p, 4, g)
  BY <1>2, ShrCuts
<1>4. a \in Int /\ g \in Int /\ a * a \in Int /\ g * c.P8 \in Int
  BY <1>1, <1>3, SMT DEF Cut
<1>5. Cut(a * a, 8192, b) /\ Cut(g * c.P8, 8192, x2)
  BY <1>4, ShrCuts
<1>6. c.P9 * b \in Int
  BY <1>1, <1>5, SMT DEF Cut
<1>7. Cut(c.P9 * b, 4096, x1)
  BY <1>6, ShrCuts
<1>8. x1 + x2 + c.P7 \in Int
  BY <1>1, <1>5, <1>7, SMT DEF Cut
<1>9. Cut(x1 + x2 + c.P7, 16, e)
  BY <1>8, ShrCuts
<1>10. RestParts(c, p, a, b, x1, g, x2, e)
  BY <1>3, <1>5, <1>7, <1>9 DEF RestParts
<1>11. bmp280_compensate_pressure_int32(c, f, raw_p) = p + e
  BY SMT DEF bmp280_compensate_pressure_int32, p, Distance
<1>12. p = Quotient(Distance(c, f, raw_p), Divisor(c, f))
  BY DEF p
<1> QED
  BY <1>10, <1>11, <1>12

(* A void pressure register is never taken for a pressure. *)
LEMMA VoidPressure ==
  ASSUME NEW c, FirstLike(c) \/ SecondLike(c), NEW f \in Int, -52300 <= f, f <= 256000
  PROVE  /\ bmp280_compensate_pressure_int32(c, f, 524288) \in Int
         /\ bmp280_compensate_pressure_int32(c, f, 524288) < 90000
<1> DEFINE d == Distance(c, f, 524288)
           y == Divisor(c, f)
<1>1. /\ y \in Int /\ 35000 <= y /\ y <= 41500
      /\ Offset(c, f) \in Int /\ 44000 <= Offset(c, f) /\ Offset(c, f) <= 92000
  BY CorrectionsInRange
<1>2. y > 0 /\ 524288 \in Int
  BY <1>1, SMT
<1>3. PICK p, a, b, x1, g, x2, e :
        /\ RestParts(c, p, a, b, x1, g, x2, e)
        /\ p = Quotient(d, y)
        /\ bmp280_compensate_pressure_int32(c, f, 524288) = p + e
  BY <1>1, <1>2, PressurePartsExist
<1>4. d \in Int /\ 432288 <= d /\ d <= 480288
  BY <1>1, SMT DEF Distance
<1> HIDE DEF d, y
<1>5. p \in Int /\ y * p <= 6250 * d /\ 6250 * d < y * p + 2 * y
  BY <1>1, <1>2, <1>3, <1>4, QuotientNear, SMT
<1>6. 0 <= p /\ p <= 85800
  <2>1. ~ (p < 0)
    <3>1. p <= -1 => y * p <= -y
      BY <1>1, <1>5, SMT
    <3>2. y * p \in Int
      BY <1>1, <1>5, SMT
    <3> QED
      BY <1>1, <1>4, <1>5, <3>1, <3>2, SMT
  <2>2. ~ (p > 85800)
    <3>1. p > 85800 => y * p >= 35000 * p
      BY <1>1, <1>5, SMT
    <3>2. y * p \in Int
      BY <1>1, <1>5, SMT
    <3> QED
      BY <1>4, <1>5, <3>1, <3>2, SMT
  <2> QED
    BY <1>5, <2>1, <2>2, SMT
<1>7. a \in Int /\ 0 <= a /\ a <= 10725 /\ g \in Int /\ 0 <= g
  BY <1>3, <1>5, <1>6, SMT DEF RestParts, Cut
<1>8. a * a \in Int /\ 0 <= a * a /\ a * a <= 115025625
  BY <1>7, SMT
<1>9. b \in Int /\ 0 <= b /\ b <= 14041
  BY <1>3, <1>8, SMT DEF RestParts, Cut
<1>10. c.P9 * b \in Int /\ c.P9 * b <= 84246000
  <2>1. c.P9 \in Int /\ 0 <= c.P9 /\ c.P9 <= 6000
    BY SMT DEF FirstLike, SecondLike
  <2>2. c.P9 * b <= 6000 * b /\ c.P9 * b \in Int
    BY <1>9, <2>1, SMT
  <2> QED
    BY <1>9, <2>2, SMT
<1>11. x1 \in Int /\ x1 <= 20567
  BY <1>3, <1>10, SMT DEF RestParts, Cut
<1>12. c.P7 = 15500 /\ c.P8 = -14600
  BY DEF FirstLike, SecondLike
<1>13. x2 \in Int /\ x2 <= 0
  BY <1>3, <1>7, <1>12, SMT DEF RestParts, Cut
<1>14. e \in Int /\ e <= 2300
  BY <1>3, <1>11, <1>12, <1>13, SMT DEF RestParts, Cut
<1> QED
  BY <1>3, <1>5, <1>6, <1>14, SMT

(* The corrections of six zeros, far outside of the range of the sensor:    *)
(* products wrap.                                                           *)
LEMMA NothingCorrected ==
  ASSUME NEW c, FirstLike(c) \/ SecondLike(c)
  PROVE  \/ (Offset(c, TFine(c, 0)) = 38516 /\ Divisor(c, TFine(c, 0)) = 36960)
         \/ (Offset(c, TFine(c, 0)) = 97192 /\ Divisor(c, TFine(c, 0)) = 39067)
<1> DEFINE f == TFine(c, 0)
<1>1. 0 \in Int
  BY SMT
<1>2. \E a, x, b, q, e : TempParts(c, 0, a, x, b, q, e) /\ f = x + e
  BY <1>1, TempPartsExist
<1>3. f \in Int
  BY <1>2, SMT DEF TempParts, Cut
<1> HIDE DEF f
<1>4. PICK h, g, u, v : CentreParts(f, h, g) /\ OffsetParts(c, h, Mul(g, g), u, v, Offset(c, f))
  BY <1>3, OffsetPartsExist
<1>5. PICK w, k, r, s : DivisorParts(c, Mul(g, g), Mul(c.P2, h - 64000), w, k, r, s, Divisor(c, f))
  <2>1. PICK h2, g2, w, k, r, s :
          /\ CentreParts(f, h2, g2)
          /\ DivisorParts(c, Mul(g2, g2), Mul(c.P2, h2 - 64000), w, k, r, s, Divisor(c, f))
    BY <1>3, DivisorPartsExist
  <2>2. h2 = h /\ g2 = g
    BY <1>3, <1>4, <2>1, SMT DEF CentreParts, Cut
  <2> QED
    BY <2>1, <2>2
<1> DEFINE m == Mul(g, g)
           n == Mul(c.P2, h - 64000)
<1>6. Fits(m) /\ \E k2 : Wraps(g * g, m, k2)
  <2>1. g \in Int
    BY <1>4, SMT DEF CentreParts, Cut
  <2> QED
    BY <2>1, MulWraps
<1>7. Fits(n) /\ \E k2 : Wraps(c.P2 * (h - 64000), n, k2)
  <2> DEFINE y == h - 64000
             z == c.P2
  <2>1. y \in Int /\ z \in Int
    BY <1>4, CoefficientsTyped, SMT DEF CentreParts, Cut
  <2> HIDE DEF y, z
  <2>2. Fits(Mul(z, y)) /\ \E k2 : Wraps(z * y, Mul(z, y), k2)
    BY <2>1, MulWraps
  <2> QED
    BY <2>2, SMT DEF y, z
<1>8. OffsetParts(c, h, m, u, v, Offset(c, f)) /\ DivisorParts(c, m, n, w, k, r, s, Divisor(c, f))
  BY <1>4, <1>5
<1> HIDE DEF m, n
<1>9. ASSUME FirstLike(c) PROVE Offset(c, f) = 38516 /\ Divisor(c, f) = 36960
  <2>1. f = -738460
    <3>1. PICK a, x, b, q, e : TempParts(c, 0, a, x, b, q, e) /\ f = x + e
      BY <1>2
    <3>2. a = 0 /\ b = 0
      BY <3>1, SMT DEF TempParts, Cut
    <3>3. x = -726653 /\ q = 193435
      BY <1>9, <3>1, <3>2, SMT DEF TempParts, Cut, FirstLike
    <3>4. e = -11807
      BY <1>9, <3>1, <3>3, SMT DEF TempParts, Cut, FirstLike
    <3> QED
      BY <3>1, <3>3, <3>4, SMT
  <2>2. h = -369230 /\ g = -108308
    BY <1>4, <2>1, SMT DEF CentreParts, Cut
  <2>3. m = -1154279024
    <3>1. g * g = 11730622864
      BY <2>2, SMT
    <3> QED
      BY <1>6, <3>1, SMT DEF Fits, Wraps
  <2>4. n = 334095254
    <3>1. c.P2 * (h - 64000) = 4629062550
      BY <1>9, <2>2, SMT DEF FirstLike
    <3> QED
      BY <1>7, <3>1, SMT DEF Fits, Wraps
  <2>5. u = -563613
    BY <1>8, <2>3, SMT DEF OffsetParts, Cut
  <2>6. v = -29339778
    BY <1>9, <1>8, <2>2, <2>5, SMT DEF OffsetParts, Cut, FirstLike
  <2>7. Offset(c, f) = 38516
    BY <1>9, <1>8, <2>6, SMT DEF OffsetParts, Cut, FirstLike
  <2>8. w = -140904 /\ r = 167047627
    BY <1>8, <2>3, <2>4, SMT DEF DivisorParts, Cut
  <2>9. k = -53261712
    BY <1>9, <1>8, <2>8, SMT DEF DivisorParts, Cut, FirstLike
  <2>10. s = 434
    BY <1>8, <2>8, <2>9, SMT DEF DivisorParts, Cut
  <2>11. Divisor(c, f) = 36960
    BY <1>9, <1>8, <2>10, SMT DEF DivisorParts, Cut, FirstLike
  <2> QED
    BY <2>7, <2>11
<1>10. ASSUME SecondLike(c) PROVE Offset(c, f) = 97192 /\ Divisor(c, f) = 39067
  <2>1. f = -701418
    <3>1. PICK a, x, b, q, e : TempParts(c, 0, a, x, b, q, e) /\ f = x + e
      BY <1>2
    <3>2. a = 0 /\ b = 0
      BY <3>1, SMT DEF TempParts, Cut
    <3>3. x = -702003 /\ q = 191693
      BY <1>10, <3>1, <3>2, SMT DEF TempParts, Cut, SecondLike
    <3>4. e = 585
      BY <1>10, <3>1, <3>3, SMT DEF TempParts, Cut, SecondLike
    <3> QED
      BY <3>1, <3>3, <3>4, SMT
  <2>2. h = -350709 /\ g = -103678
    BY <1>4, <2>1, SMT DEF CentreParts, Cut
  <2>3. m = -2135774204
    <3>1. g * g = 10749127684
      BY <2>2, SMT
    <3> QED
      BY <1>6, <3>1, SMT DEF Fits, Wraps
  <2>4. n = 163154454
    <3>1. c.P2 * (h - 64000) = 4458121750
      BY <1>10, <2>2, SMT DEF SecondLike
    <3> QED
      BY <1>7, <3>1, SMT DEF Fits, Wraps
  <2>5. u = -1042859
    BY <1>8, <2>3, SMT DEF OffsetParts, Cut
  <2>6. v = 26707543
    BY <1>10, <1>8, <2>2, <2>5, SMT DEF OffsetParts, Cut, SecondLike
  <2>7. Offset(c, f) = 97192
    BY <1>10, <1>8, <2>6, SMT DEF OffsetParts, Cut, SecondLike
  <2>8. w = -260715 /\ r = 81577227
    BY <1>8, <2>3, <2>4, SMT DEF DivisorParts, Cut
  <2>9. k = -98550270
    BY <1>10, <1>8, <2>8, SMT DEF DivisorParts, Cut, SecondLike
  <2>10. s = -65
    BY <1>8, <2>8, <2>9, SMT DEF DivisorParts, Cut
  <2>11. Divisor(c, f) = 39067
    BY <1>10, <1>8, <2>10, SMT DEF DivisorParts, Cut, SecondLike
  <2> QED
    BY <2>7, <2>11
<1> QED
  BY <1>9, <1>10, SMT DEF f

(* No byte arrived: a pressure beyond all limits. *)
LEMMA NothingIsOutside ==
  ASSUME NEW c, FirstLike(c) \/ SecondLike(c)
  PROVE  /\ bmp280_compensate_pressure_int32(c, TFine(c, 0), 0) \in Int
         /\ bmp280_compensate_pressure_int32(c, TFine(c, 0), 0) >= 110000
<1> DEFINE f == TFine(c, 0)
           d == Distance(c, f, 0)
           y == Divisor(c, f)
<1>1. /\ Offset(c, f) \in Int /\ y \in Int /\ y > 0
      /\ (d = 1010060 /\ y = 36960) \/ (d = 951384 /\ y = 39067)
  BY NothingCorrected, SMT DEF Distance
<1> HIDE DEF f, d
<1>2. PICK p, a, b, x1, g, x2, e :
        /\ RestParts(c, p, a, b, x1, g, x2, e)
        /\ p = Quotient(d, y)
        /\ bmp280_compensate_pressure_int32(c, f, 0) = p + e
  <2>1. 0 \in Int
    BY SMT
  <2> QED
    BY <1>1, <2>1, PressurePartsExist DEF d
<1> HIDE DEF y
<1>3. p \in Int /\ y * p <= 6250 * d /\ 6250 * d < y * p + 2 * y
  <2>1. d \in Int
    BY <1>1, SMT
  <2> QED
    BY <1>1, <1>2, <2>1, QuotientNear, SMT
<1>4. p \in Int /\ 150000 <= p /\ p <= 172000
  BY <1>1, <1>3, SMT
<1>5. a \in Int /\ g \in Int /\ g <= 43000
  BY <1>2, <1>4, SMT DEF RestParts, Cut
<1>6. a * a \in Int /\ 0 <= a * a
  BY <1>5, SMT
<1>7. b \in Int /\ 0 <= b
  BY <1>2, <1>6, SMT DEF RestParts, Cut
<1>8. c.P9 * b \in Int /\ 0 <= c.P9 * b
  <2>1. c.P9 \in Int /\ 0 <= c.P9
    BY SMT DEF FirstLike, SecondLike
  <2> QED
    BY <1>7, <2>1, SMT
<1>9. x1 \in Int /\ 0 <= x1
  BY <1>2, <1>8, SMT DEF RestParts, Cut
<1>10. c.P7 = 15500 /\ c.P8 = -14600
  BY DEF FirstLike, SecondLike
<1>11. x2 \in Int /\ x2 >= -77000
  BY <1>2, <1>5, <1>10, SMT DEF RestParts, Cut
<1>12. e \in Int /\ e >= -4000
  BY <1>2, <1>9, <1>10, <1>11, SMT DEF RestParts, Cut
<1> QED
  BY <1>2, <1>3, <1>4, <1>12, SMT DEF f

(* Raw pressures fifty apart are Pascals apart, the other way round. *)
LEMMA HigherIsLess ==
  ASSUME NEW c, FirstLike(c) \/ SecondLike(c),
         NEW f \in Int, -52300 <= f, f <= 256000,
         NEW v \in Int, NEW w \in Int, v + 50 <= w, w <= 580000
  PROVE  bmp280_compensate_pressure_int32(c, f, w) < bmp280_compensate_pressure_int32(c, f, v)
<1> DEFINE d == Distance(c, f, v)
           d1 == Distance(c, f, w)
           y == Divisor(c, f)
<1>1. /\ y \in Int /\ 35000 <= y /\ y <= 41500
      /\ Offset(c, f) \in Int /\ 44000 <= Offset(c, f) /\ Offset(c, f) <= 92000
  BY CorrectionsInRange
<1>2. y > 0
  BY <1>1, SMT
<1>3. PICK p, a, b, x1, g, x2, e :
        /\ RestParts(c, p, a, b, x1, g, x2, e)
        /\ p = Quotient(d, y)
        /\ bmp280_compensate_pressure_int32(c, f, v) = p + e
  BY <1>1, <1>2, PressurePartsExist
<1>4. PICK p1, a1, b1, y1, g1, y2, e1 :
        /\ RestParts(c, p1, a1, b1, y1, g1, y2, e1)
        /\ p1 = Quotient(d1, y)
        /\ bmp280_compensate_pressure_int32(c, f, w) = p1 + e1
  BY <1>1, <1>2, PressurePartsExist
<1>5. d \in Int /\ d1 \in Int /\ d >= d1 + 50 /\ d1 > 300000
  BY <1>1, SMT DEF Distance
<1> HIDE DEF d, d1, y
<1>6. p \in Int /\ y * p <= 6250 * d /\ 6250 * d < y * p + 2 * y
  BY <1>1, <1>2, <1>3, <1>5, QuotientNear, SMT
<1>7. p1 \in Int /\ y * p1 <= 6250 * d1 /\ 6250 * d1 < y * p1 + 2 * y
  BY <1>1, <1>2, <1>4, <1>5, QuotientNear, SMT
<1> DEFINE n == p - p1
<1>8. n \in Int /\ n >= 6
  <2>1. n \in Int /\ y * n = y * p - y * p1 /\ y * p \in Int /\ y * p1 \in Int
    BY <1>1, <1>6, <1>7, SMT
  <2>2. y * n > 312500 - 2 * y
    BY <1>1, <1>5, <1>6, <1>7, <2>1, SMT
  <2> HIDE DEF n
  <2>3. n <= 5 => y * n <= 5 * y
    BY <1>1, <2>1, SMT
  <2>4. y * n \in Int
    BY <1>1, <2>1, SMT
  <2> QED
    BY <1>1, <2>1, <2>2, <2>3, <2>4, SMT
<1>9. p1 >= 0
  <2>1. p1 <= -1 => y * p1 <= -y
    BY <1>1, <1>7, SMT
  <2>2. y * p1 \in Int
    BY <1>1, <1>7, SMT
  <2> QED
    BY <1>1, <1>5, <1>7, <2>1, <2>2, SMT
<1>10. n = p - p1
  OBVIOUS
<1> HIDE DEF n
<1>11. /\ a \in Int /\ a1 \in Int /\ 0 <= a1 /\ a1 <= a
       /\ g \in Int /\ g1 \in Int /\ 4 * (g - g1) <= n + 3
  BY <1>3, <1>4, <1>6, <1>7, <1>8, <1>9, <1>10, SMT DEF RestParts, Cut
<1>12. a * a \in Int /\ a1 * a1 \in Int /\ a1 * a1 <= a * a
  BY <1>11, SMT
<1>13. b \in Int /\ b1 \in Int /\ b1 <= b
  BY <1>3, <1>4, <1>12, SMT DEF RestParts, Cut
<1>14. c.P9 * b \in Int /\ c.P9 * b1 \in Int /\ c.P9 * b1 <= c.P9 * b
  <2>1. c.P9 \in Int /\ 0 <= c.P9
    BY SMT DEF FirstLike, SecondLike
  <2> QED
    BY <1>13, <2>1, SMT
<1>15. x1 \in Int /\ y1 \in Int /\ y1 <= x1
  BY <1>3, <1>4, <1>14, SMT DEF RestParts, Cut
<1>16. c.P7 = 15500 /\ c.P8 = -14600
  BY DEF FirstLike, SecondLike
<1>17. x2 \in Int /\ y2 \in Int /\ 8192 * (y2 - x2) < 14600 * (g - g1) + 8192
  BY <1>3, <1>4, <1>11, <1>16, SMT DEF RestParts, Cut
<1>18. e \in Int /\ e1 \in Int /\ 16 * (e1 - e) < (y2 - x2) + 16
  BY <1>3, <1>4, <1>15, <1>16, <1>17, SMT DEF RestParts, Cut
<1>19. p1 + e1 < p + e
  BY <1>6, <1>7, <1>8, <1>10, <1>11, <1>17, <1>18, SMT
<1> QED
  BY <1>3, <1>4, <1>19, SMT

(* The rest is bounded, too. *)
RestBounded(c, d, p, a, b, x1, g, x2, e) ==
  /\ 0 <= 3125 * d /\ 3125 * d < 4294967296
  /\ Fits(p) /\ 0 <= p /\ Fits(a * a) /\ Fits(c.P9 * b) /\ Fits(g * c.P8)
  /\ Fits(x1 + x2 + c.P7) /\ Fits(p + e)

(* From the range of the two corrections. *)
LEMMA RestPartsBounded ==
  ASSUME NEW c, FirstLike(c) \/ SecondLike(c),
         NEW y \in Int, 35000 <= y, y <= 41500,
         NEW d \in Int, 376576 <= d, d <= 774576,
         NEW a, NEW b, NEW x1, NEW g, NEW x2, NEW e,
         RestParts(c, Quotient(d, y), a, b, x1, g, x2, e)
  PROVE  RestBounded(c, d, Quotient(d, y), a, b, x1, g, x2, e)
<1> DEFINE p == Quotient(d, y)
<1>1. p \in Int /\ y * p <= 6250 * d /\ 6250 * d < y * p + 2 * y
  BY QuotientNear, SMT
<1>2. RestParts(c, p, a, b, x1, g, x2, e)
  OBVIOUS
<1> HIDE DEF p
<1>3. y * p \in Int
  BY <1>1, SMT
<1>4. 0 <= p
  <2>1. p <= -1 => y * p <= -y
    BY <1>1, SMT
  <2> QED
    BY <1>1, <1>3, <2>1, SMT
<1>5. p <= 138400
  <2>1. y * p >= 35000 * p
    BY <1>1, <1>4, SMT
  <2> QED
    BY <1>1, <1>3, <2>1, SMT
<1>6. a \in Int /\ 0 <= a /\ a <= 17300 /\ g \in Int /\ 0 <= g /\ g <= 34600
  BY <1>1, <1>2, <1>4, <1>5, SMT DEF RestParts, Cut
<1>7. a * a \in Int /\ 0 <= a * a /\ a * a <= 299290000
  BY <1>6, SMT
<1>8. b \in Int /\ 0 <= b /\ b <= 36535
  BY <1>2, <1>7, SMT DEF RestParts, Cut
<1>9. c.P9 * b \in Int /\ 0 <= c.P9 * b /\ c.P9 * b <= 219210000
  <2>1. c.P9 \in Int /\ 0 <= c.P9 /\ c.P9 <= 6000
    BY SMT DEF FirstLike, SecondLike
  <2>2. c.P9 * b <= 6000 * b /\ c.P9 * b \in Int /\ 0 <= c.P9 * b
    BY <1>8, <2>1, SMT
  <2> QED
    BY <1>8, <2>2, SMT
<1>10. x1 \in Int /\ 0 <= x1 /\ x1 <= 53520
  BY <1>2, <1>9, SMT DEF RestParts, Cut
<1>11. c.P7 = 15500 /\ c.P8 = -14600
  BY DEF FirstLike, SecondLike
<1>12. x2 \in Int /\ -61700 <= x2 /\ x2 <= 0 /\ Fits(g * c.P8)
  BY <1>2, <1>6, <1>11, SMT DEF RestParts, Cut, Fits
<1>13. e \in Int /\ -4000 <= e /\ e <= 5000 /\ Fits(x1 + x2 + c.P7)
  BY <1>2, <1>10, <1>11, <1>12, SMT DEF RestParts, Cut, Fits
<1>14. RestBounded(c, d, p, a, b, x1, g, x2, e)
  BY <1>1, <1>4, <1>5, <1>7, <1>9, <1>12, <1>13, SMT DEF RestBounded, Fits
<1> QED
  BY <1>14, SMT DEF p

(* The range of the station, the last four bits of the temperature missing  *)
(* or not, and the void registers, which lie within it.                     *)
InRange(t, raw_p) ==
  /\ t \in Int /\ 418984 <= t /\ t <= 609000
  /\ raw_p \in Int /\ 230000 <= raw_p /\ raw_p <= 580000

(* No result on the way of the code leaves its 32 bits, signed ones or, for *)
(* the one multiplied by 3125, unsigned ones, for any measurement in the    *)
(* range of the station and for void registers.  The parts are the values   *)
(* of the code's expressions: Cut allows one value of each.                 *)
THEOREM NothingOverflows ==
  ASSUME NEW c \in Calibrations, c # Zeros,
         NEW t, NEW raw_p, InRange(t, raw_p)
  PROVE  /\ \E a, x, b, q, e :
               TempParts(c, t, a, x, b, q, e) /\ TFine(c, t) = x + e /\ TempBounded(c, a, x, b, q, e)
         /\ \E h, g, u, v, o, w, k, r, s, d :
               /\ CentreParts(TFine(c, t), h, g)
               /\ OffsetParts(c, h, g * g, u, v, o) /\ o = Offset(c, TFine(c, t))
               /\ DivisorParts(c, g * g, c.P2 * (h - 64000), w, k, r, s, d) /\ d = Divisor(c, TFine(c, t))
               /\ CorrectionsBounded(c, h - 64000, g, u, v, o, w, k, r, s, d)
         /\ \E p, a, b, x1, g, x2, e :
               /\ RestParts(c, p, a, b, x1, g, x2, e)
               /\ p = Quotient(Distance(c, TFine(c, t), raw_p), Divisor(c, TFine(c, t)))
               /\ bmp280_compensate_pressure_int32(c, TFine(c, t), raw_p) = p + e
               /\ RestBounded(c, Distance(c, TFine(c, t), raw_p), p, a, b, x1, g, x2, e)
<1>1. FirstLike(c) \/ SecondLike(c)
  BY CoefficientsAre
<1>2. t \in Int /\ 418984 <= t /\ t <= 609000 /\ raw_p \in Int /\ 230000 <= raw_p /\ raw_p <= 580000
  BY SMT DEF InRange
<1>3. \E a, x, b, q, e :
        TempParts(c, t, a, x, b, q, e) /\ TFine(c, t) = x + e /\ TempBounded(c, a, x, b, q, e)
  <2>1. PICK a, x, b, q, e : TempParts(c, t, a, x, b, q, e) /\ TFine(c, t) = x + e
    BY <1>1, <1>2, TempPartsExist
  <2>2. TempBounded(c, a, x, b, q, e)
    BY <1>1, <1>2, <2>1, TempPartsBounded, SMT
  <2> QED
    BY <2>1, <2>2
<1> DEFINE f == TFine(c, t)
<1>4. f \in Int /\ -52300 <= f /\ f <= 256000
  BY <1>1, <1>2, TFineRange, SMT
<1> HIDE DEF f
<1>5. \E h, g, u, v, o, w, k, r, s, d :
        /\ CentreParts(f, h, g)
        /\ OffsetParts(c, h, g * g, u, v, o) /\ o = Offset(c, f)
        /\ DivisorParts(c, g * g, c.P2 * (h - 64000), w, k, r, s, d) /\ d = Divisor(c, f)
        /\ CorrectionsBounded(c, h - 64000, g, u, v, o, w, k, r, s, d)
  <2>1. PICK h, g, u, v : CentreParts(f, h, g) /\ OffsetParts(c, h, Mul(g, g), u, v, Offset(c, f))
    BY <1>1, <1>4, OffsetPartsExist
  <2>2. PICK h2, g2, w, k, r, s :
          /\ CentreParts(f, h2, g2)
          /\ DivisorParts(c, Mul(g2, g2), Mul(c.P2, h2 - 64000), w, k, r, s, Divisor(c, f))
    BY <1>1, <1>4, DivisorPartsExist
  <2>3. h2 = h /\ g2 = g
    BY <1>4, <2>1, <2>2, SMT DEF CentreParts, Cut
  <2>4. CorrectionsBounded(c, h - 64000, g, u, v, Offset(c, f), w, k, r, s, Divisor(c, f))
    BY <1>1, <1>4, <2>1, <2>2, <2>3, CorrectionPartsBounded
  <2> DEFINE y == h - 64000
  <2>5. y \in Int /\ -90150 <= y /\ y <= 64000 /\ Mul(g, g) = g * g
    BY <1>4, <2>1, SquareFits, SMT
  <2>6. Mul(c.P2, y) = c.P2 * y
    <3> HIDE DEF y
    <3> QED
      BY <1>1, <2>5, SlopeFits, SMT
  <2>7. OffsetParts(c, h, g * g, u, v, Offset(c, f))
    BY <2>1, <2>5
  <2>8. DivisorParts(c, g * g, c.P2 * (h - 64000), w, k, r, s, Divisor(c, f))
    BY <2>2, <2>3, <2>5, <2>6
  <2> QED
    BY <2>1, <2>4, <2>7, <2>8
<1>6. \E p, a, b, x1, g, x2, e :
        /\ RestParts(c, p, a, b, x1, g, x2, e)
        /\ p = Quotient(Distance(c, f, raw_p), Divisor(c, f))
        /\ bmp280_compensate_pressure_int32(c, f, raw_p) = p + e
        /\ RestBounded(c, Distance(c, f, raw_p), p, a, b, x1, g, x2, e)
  <2>1. /\ Divisor(c, f) \in Int /\ 35000 <= Divisor(c, f) /\ Divisor(c, f) <= 41500
        /\ Offset(c, f) \in Int /\ 44000 <= Offset(c, f) /\ Offset(c, f) <= 92000
    BY <1>1, <1>4, CorrectionsInRange
  <2>2. Divisor(c, f) > 0
    BY <2>1, SMT
  <2>3. raw_p \in Int
    BY <1>2
  <2>4. PICK p, a, b, x1, g, x2, e :
          /\ RestParts(c, p, a, b, x1, g, x2, e)
          /\ p = Quotient(Distance(c, f, raw_p), Divisor(c, f))
          /\ bmp280_compensate_pressure_int32(c, f, raw_p) = p + e
    BY <1>1, <2>1, <2>2, <2>3, PressurePartsExist
  <2>5. Distance(c, f, raw_p) \in Int /\ 376576 <= Distance(c, f, raw_p) /\ Distance(c, f, raw_p) <= 774576
    BY <1>2, <2>1, SMT DEF Distance
  <2> DEFINE y == Divisor(c, f)
             d == Distance(c, f, raw_p)
  <2>6. RestParts(c, Quotient(d, y), a, b, x1, g, x2, e)
    BY <2>4
  <2> HIDE DEF y, d
  <2>7. y \in Int /\ 35000 <= y /\ y <= 41500 /\ d \in Int /\ 376576 <= d /\ d <= 774576
    BY <2>1, <2>5, SMT DEF y, d
  <2>8. RestBounded(c, d, Quotient(d, y), a, b, x1, g, x2, e)
    BY <1>1, <2>6, <2>7, RestPartsBounded, SMT
  <2> QED
    BY <2>4, <2>8 DEF y, d
<1> QED
  BY <1>3, <1>5, <1>6 DEF f

-----------------------------------------------------------------------------
(* What the tests of read_pressure make of a result. *)
LEMMA KindIs ==
  ASSUME NEW pressure \in Int, NEW temp \in Int
  PROVE  /\ Kind(pressure, temp) \in {"none", "low", "ok", "outside"}
         /\ temp \in {0, 2323} => Kind(pressure, temp) = "none"
         /\ pressure < 90000 => Kind(pressure, temp) # "ok"
         /\ pressure >= 110000 => Kind(pressure, temp) \in {"none", "outside"}
  BY SMT DEF Kind

(* An unread calibration makes every temperature 0. *)
LEMMA ZerosGiveNone ==
  ASSUME NEW t \in Int, NEW pressure
  PROVE  Kind(pressure, bmp280_compensate_temperature_int32(Zeros, t)) = "none"
<1> DEFINE a == Shr(t, 3)
           o == Shr(t, 4)
           q == Shr(o * o, 12)
<1>1. Zeros.T1 = 0 /\ Zeros.T2 = 0 /\ Zeros.T3 = 0
  BY DEF Zeros
<1>2. a \in Int /\ o \in Int
  BY ShrCuts, SMT DEF Cut
<1>3. q \in Int
  <2>1. o * o \in Int
    BY <1>2, SMT
  <2> QED
    BY <2>1, ShrCuts, SMT DEF Cut
<1>4. TFine(Zeros, t) = Shr((a - 0 * 2) * 0, 11) + Shr(Shr((o - 0) * (o - 0), 12) * 0, 14)
  BY <1>1, SMT DEF TFine
<1>5. (a - 0 * 2) * 0 = 0 /\ (o - 0) * (o - 0) = o * o
  BY <1>2, SMT
<1>6. TFine(Zeros, t) = Shr(0, 11) + Shr(q * 0, 14)
  BY <1>4, <1>5, SMT
<1>7. q * 0 = 0
  BY <1>3, SMT
<1>8. Shr(0, 11) = 0 /\ Shr(0, 14) = 0
  BY SMT DEF Shr
<1>9. TFine(Zeros, t) * 5 + 128 = 128
  BY <1>6, <1>7, <1>8, SMT
<1>10. Shr(128, 8) = 0
  BY SMT DEF Shr
<1>11. bmp280_compensate_temperature_int32(Zeros, t) = 0
  BY <1>9, <1>10, SMT DEF bmp280_compensate_temperature_int32
<1> QED
  BY <1>11, SMT DEF Kind

(* Results are numbers. *)
LEMMA TemperatureIsInt ==
  ASSUME NEW c, FirstLike(c) \/ SecondLike(c), NEW t \in Int
  PROVE  TFine(c, t) \in Int /\ bmp280_compensate_temperature_int32(c, t) \in Int
<1> DEFINE f == TFine(c, t)
<1>1. \E a, x, b, q, e : TempParts(c, t, a, x, b, q, e) /\ f = x + e
  BY TempPartsExist
<1>2. f \in Int
  BY <1>1, SMT DEF TempParts, Cut
<1> HIDE DEF f
<1>3. f * 5 + 128 \in Int
  BY <1>2, SMT
<1>4. Shr(f * 5 + 128, 8) \in Int
  BY <1>3, ShrIs
<1> QED
  BY <1>2, <1>4, SMT DEF bmp280_compensate_temperature_int32, f

(* So are pressures. *)
LEMMA PressureIsInt ==
  ASSUME NEW c, FirstLike(c) \/ SecondLike(c), NEW r \in Int,
         NEW f \in Int, -52300 <= f, f <= 256000
  PROVE  bmp280_compensate_pressure_int32(c, f, r) \in Int
<1>1. Offset(c, f) \in Int /\ Divisor(c, f) \in Int /\ Divisor(c, f) > 0
  BY CorrectionsInRange, SMT
<1>2. PICK p, a, b, x1, g, x2, e :
        /\ RestParts(c, p, a, b, x1, g, x2, e)
        /\ p = Quotient(Distance(c, f, r), Divisor(c, f))
        /\ bmp280_compensate_pressure_int32(c, f, r) = p + e
  BY <1>1, PressurePartsExist
<1>3. Distance(c, f, r) \in Int
  BY <1>1, SMT DEF Distance
<1>4. Quotient(Distance(c, f, r), Divisor(c, f)) \in Int
  BY <1>1, <1>3, QuotientNear
<1> QED
  BY <1>2, <1>4, SMT DEF RestParts, Cut

-----------------------------------------------------------------------------
(* Values of a grid lie between its ends, a step apart. *)
LEMMA GridIs ==
  ASSUME NEW from \in Int, NEW to \in Int, NEW step \in Int, step > 0,
         NEW v \in Grid(from, to, step), NEW w \in Grid(from, to, step)
  PROVE  /\ v \in Int /\ from <= v /\ v <= to
         /\ w > v => w >= v + step
<1> DEFINE n == (to - from) \div step
<1>1. PICK i \in 0 .. n : v = from + step * i
  BY DEF Grid
<1>2. PICK j \in 0 .. n : w = from + step * j
  BY DEF Grid
<1>3. n \in Int /\ step * n <= to - from
  <2>1. to - from \in Int
    BY SMT
  <2> QED
    BY <2>1, DivIs, SMT
<1> HIDE DEF n
<1>4. i \in Int /\ j \in Int /\ 0 <= i /\ i <= n
  BY <1>3, SMT
<1>5. step * i \in Int /\ step * j \in Int /\ 0 <= step * i /\ step * i <= step * n
  BY <1>3, <1>4, SMT
<1>6. v \in Int /\ from <= v /\ v <= to
  BY <1>1, <1>3, <1>4, <1>5, SMT
<1>7. ASSUME w > v PROVE w >= v + step
  <2>1. step * (j - i) = step * j - step * i
    BY <1>4, SMT
  <2>2. step * (j - i) > 0
    BY <1>1, <1>2, <1>5, <1>7, <2>1, SMT
  <2>3. j - i >= 1
    BY <1>4, <2>2, SMT
  <2>4. step * (j - i) >= step
    BY <1>4, <2>3, SMT
  <2> QED
    BY <1>1, <1>2, <1>5, <2>1, <2>4, SMT
<1> QED
  BY <1>6, <1>7

(* The raw temperatures of the grid. *)
LEMMA RawTempsAre ==
  ASSUME NEW v \in RawTemps, NEW w \in RawTemps
  PROVE  v \in Int /\ 419000 <= v /\ v <= 609000 /\ (w > v => w >= v + 100)
<1>1. /\ Coldest \in Int /\ Hottest \in Int /\ TempStep \in Int /\ TempStep > 0
      /\ TempStep >= 100 /\ 419000 <= Coldest /\ Hottest <= 609000
  BY GridAssumption, SMT
<1>2. /\ v \in Int /\ Coldest <= v /\ v <= Hottest /\ (w > v => w >= v + TempStep)
  BY <1>1, GridIs DEF RawTemps
<1>3. w \in Int
  BY <1>1, GridIs DEF RawTemps
<1> QED
  BY <1>1, <1>2, <1>3, SMT

(* The raw pressures of the grid. *)
LEMMA RawPressuresAre ==
  ASSUME NEW v \in RawPressures, NEW w \in RawPressures
  PROVE  v \in Int /\ 230000 <= v /\ v <= 580000 /\ (w > v => w >= v + 50)
<1>1. /\ Highest \in Int /\ Lowest \in Int /\ PressureStep \in Int /\ PressureStep > 0
      /\ PressureStep >= 50 /\ 230000 <= Highest /\ Lowest <= 580000
  BY GridAssumption, SMT
<1>2. /\ v \in Int /\ Highest <= v /\ v <= Lowest /\ (w > v => w >= v + PressureStep)
  BY <1>1, GridIs DEF RawPressures
<1>3. w \in Int
  BY <1>1, GridIs DEF RawPressures
<1> QED
  BY <1>1, <1>2, <1>3, SMT

-----------------------------------------------------------------------------
(* Every byte string that arrives is a pair of numbers, and what the bytes  *)
(* of live and of void registers are.                                       *)
LEMMA ArrivedIs ==
  ASSUME RunIInv
  PROVE  /\ Arrived(6) = raw
         /\ Arrived(5).p = raw.p /\ Arrived(5).t = WithoutLast(raw.t)
         /\ Arrived(0).p = 0 /\ Arrived(0).t = 0
         /\ raw.p \in Int /\ raw.t \in Int
         /\ WithoutLast(raw.t) \in Int
         /\ class.t = "void" => raw.t = Void /\ WithoutLast(raw.t) = Void
         /\ class.p = "void" => raw.p = Void
         /\ class.t = "live" => raw.t \in RawTemps /\ 418984 <= WithoutLast(raw.t) /\ WithoutLast(raw.t) <= 609000
         /\ class.p = "live" => raw.p \in RawPressures
<1>1. /\ raw.p \in (IF class.p = "live" THEN RawPressures ELSE {Void})
      /\ raw.t \in (IF class.t = "live" THEN RawTemps ELSE {Void})
      /\ raw = [p |-> raw.p, t |-> raw.t]
  BY SMT DEF RunIInv
<1>2. Arrived(6) = raw /\ Arrived(5) = [raw EXCEPT !.t = WithoutLast(@)] /\ Arrived(0) = [p |-> 0, t |-> 0]
  BY SMT DEF Arrived
<1>3. Arrived(5).p = raw.p /\ Arrived(5).t = WithoutLast(raw.t)
  BY <1>1, <1>2, SMT
<1>4. Arrived(0).p = 0 /\ Arrived(0).t = 0
  BY <1>2, SMT
<1>5. Void \in Int /\ (Void \div 16) * 16 = Void
  BY SMT DEF Void
<1>6. raw.p \in Int /\ raw.t \in Int
  BY <1>1, <1>5, RawTempsAre, RawPressuresAre, SMT
<1>7. WithoutLast(raw.t) \in Int /\ WithoutLast(raw.t) <= raw.t /\ raw.t < WithoutLast(raw.t) + 16
  <2> DEFINE v == raw.t
             n == v \div 16
  <2>1. n \in Int /\ 16 * n <= v /\ v < 16 * n + 16
    BY <1>6, DivIs, SMT
  <2> HIDE DEF n
  <2>2. WithoutLast(v) = n * 16
    BY SMT DEF WithoutLast, n
  <2> QED
    BY <1>6, <2>1, <2>2, SMT
<1>8. class.t = "void" => raw.t = Void /\ WithoutLast(raw.t) = Void
  BY <1>1, <1>5, SMT DEF WithoutLast
<1>9. class.t = "live" => raw.t \in RawTemps /\ 418984 <= WithoutLast(raw.t) /\ WithoutLast(raw.t) <= 609000
  <2>1. class.t = "live" => raw.t \in RawTemps
    BY <1>1, SMT
  <2>2. raw.t \in RawTemps => 419000 <= raw.t /\ raw.t <= 609000
    BY RawTempsAre
  <2> QED
    BY <1>6, <1>7, <2>1, <2>2, SMT
<1>10. /\ class.p = "void" => raw.p = Void
       /\ class.p = "live" => raw.p \in RawPressures
  BY <1>1, SMT
<1> QED
  BY <1>2, <1>3, <1>4, <1>6, <1>7, <1>8, <1>9, <1>10, SMT

(* The kind of a reading. *)
LEMMA ReadingKinds ==
  ASSUME RunIInv, NEW bytes \in {0, 5, 6}, NEW works \in BOOLEAN, works => bytes = 6
  PROVE  Kind(Reading(bytes, works).pressure, Reading(bytes, works).temp) \in
           Kinds(IF calib = Zeros THEN "zero" ELSE "read", class, works)
             \cup (IF class = Live THEN {"low"} ELSE {})
<1> DEFINE t == Arrived(bytes).t
           v == Arrived(bytes).p
           f == TFine(calib, t)
           temp == bmp280_compensate_temperature_int32(calib, t)
           pressure == bmp280_compensate_pressure_int32(calib, f, v)
           K == Kind(pressure, temp)
<1>1. Reading(bytes, works).pressure = pressure /\ Reading(bytes, works).temp = temp
  BY SMT DEF Reading
<1>2. t \in Int /\ v \in Int
  <2>1. 0 \in Int
    BY SMT
  <2>2. bytes = 0 \/ bytes = 5 \/ bytes = 6
    OBVIOUS
  <2> QED
    BY <2>1, <2>2, ArrivedIs
<1>3. class.p \in {"void", "live"} /\ class.t \in {"void", "live"} /\ class = [p |-> class.p, t |-> class.t]
  BY SMT DEF RunIInv
<1>4. CASE calib = Zeros
  <2>1. K = "none"
    BY <1>2, <1>4, ZerosGiveNone
  <2>2. "none" \in Kinds("zero", class, works)
    BY DEF Kinds
  <2> QED
    BY <1>1, <1>4, <2>1, <2>2
<1>5. CASE calib # Zeros
  <2>1. FirstLike(calib) \/ SecondLike(calib)
    BY <1>5, CoefficientsAre DEF RunIInv
  <2>2. "none" \in Kinds("read", class, works)
    BY <1>3, VoidAssumption, SMT DEF Kinds
  <2> SUFFICES K \in Kinds("read", class, works) \cup (IF class = Live THEN {"low"} ELSE {})
    BY <1>1, <1>5
  <2>3. f \in Int /\ temp \in Int
    BY <1>2, <2>1, TemperatureIsInt
  <2> HIDE DEF K
  <2>4. CASE bytes = 0
    <3>1. ~ works
      BY <2>4, SMT
    <3>2. t = 0 /\ v = 0
      BY <2>4, ArrivedIs
    <3>3. pressure \in Int /\ pressure >= 110000
      BY <2>1, <3>2, NothingIsOutside
    <3> HIDE DEF pressure, temp
    <3>4. K = "none" \/ K = "outside"
      BY <2>3, <3>3, KindIs, SMT DEF K
    <3>5. "outside" \in Kinds("read", class, works)
      BY <3>1, SMT DEF Kinds, Unread
    <3> QED
      BY <2>2, <3>4, <3>5
  <2>5. CASE bytes # 0 /\ class.t = "void"
    <3>1. t = Void
      <4>1. bytes = 5 \/ bytes = 6
        BY <2>5
      <4> QED
        BY <2>5, <4>1, ArrivedIs
    <3>2. temp = 2323
      BY <2>1, <3>1, VoidTemperature, SMT DEF Void
    <3>3. K = "none"
      BY <3>2, SMT DEF K, Kind
    <3> QED
      BY <2>2, <3>3
  <2>6. CASE bytes # 0 /\ class.t = "live"
    <3>1. t \in Int /\ 418984 <= t /\ t <= 609000
      <4>1. raw.t \in RawTemps
        BY <2>6, ArrivedIs
      <4>2. raw.t \in Int /\ 418984 <= raw.t /\ raw.t <= 609000
        BY <4>1, RawTempsAre, SMT
      <4>3. 418984 <= WithoutLast(raw.t) /\ WithoutLast(raw.t) <= 609000 /\ WithoutLast(raw.t) \in Int
        BY <2>6, ArrivedIs
      <4>4. t = raw.t \/ t = WithoutLast(raw.t)
        <5>1. bytes = 5 \/ bytes = 6
          BY <2>6
        <5> QED
          BY <5>1, ArrivedIs
      <4> QED
        BY <4>2, <4>3, <4>4
    <3>2. f \in Int /\ -52300 <= f /\ f <= 256000
      BY <2>1, <3>1, TFineRange
    <3>3. pressure \in Int
      BY <1>2, <2>1, <3>2, PressureIsInt
    <3>4. CASE class.p = "void"
      <4>1. v = 524288
        <5>1. bytes = 5 \/ bytes = 6
          BY <2>6
        <5>2. v = Void
          BY <3>4, <5>1, ArrivedIs
        <5> QED
          BY <5>2, SMT DEF Void
      <4>2. pressure < 90000
        BY <2>1, <3>2, <4>1, VoidPressure
      <4> HIDE DEF pressure, temp
      <4>3. K \in {"none", "low", "outside"}
        BY <2>3, <3>3, <4>2, KindIs, SMT DEF K
      <4>4. {"none", "low", "outside"} \subseteq Kinds("read", class, works)
        BY <2>6, <3>4, VoidAssumption, SMT DEF Kinds
      <4> QED
        BY <4>3, <4>4
    <3>5. CASE class.p = "live"
      <4> HIDE DEF pressure, temp
      <4>1. K \in {"none", "low", "ok", "outside"}
        BY <2>3, <3>3, KindIs, SMT DEF K
      <4>2. {"none", "ok", "outside"} \subseteq Kinds("read", class, works)
        BY <2>6, <3>5, SMT DEF Kinds
      <4>3. class = Live
        BY <1>3, <2>6, <3>5, SMT DEF Live
      <4> QED
        BY <4>1, <4>2, <4>3
    <3> QED
      BY <1>3, <3>4, <3>5
  <2> QED
    BY <1>3, <2>4, <2>5, <2>6
<1> QED
  BY <1>4, <1>5

(* A result is a reading of the registers as they are: the measurement      *)
(* drops it.                                                                *)
LEMMA RunInvariance == Spec => []RunIInv
<1>1. Init => RunIInv
  BY DEF Init, RunIInv
<1>2. RunIInv /\ [Next]_vars => RunIInv'
  <2> SUFFICES ASSUME RunIInv, [Next]_vars PROVE RunIInv'
    OBVIOUS
  <2>1. ASSUME NEW bytes \in {0, 5, 6}, NEW works \in BOOLEAN, works => bytes = 6,
               bmp280_read_pressure_temperature(bytes, works)
        PROVE  RunIInv'
    <3>1. calib' = calib /\ raw' = raw /\ class' = class
      BY <2>1 DEF bmp280_read_pressure_temperature
    <3>2. result' = Reading(bytes, works)
      BY <2>1 DEF bmp280_read_pressure_temperature, Reading
    <3>3. Reading(bytes, works)' = Reading(bytes, works)
      BY <3>1 DEF Reading, Arrived
    <3>4. (result = Reading(6, TRUE) \/ \E b \in {0, 5, 6} : result = Reading(b, FALSE))'
      <4>1. CASE works
        <5>1. works = TRUE /\ bytes = 6
          BY <2>1, <4>1
        <5>2. Reading(6, TRUE)' = Reading(6, TRUE)
          BY <3>1 DEF Reading, Arrived
        <5> QED
          BY <3>2, <5>1, <5>2
      <4>2. CASE ~ works
        <5>1. works = FALSE
          BY <4>2
        <5>2. Reading(bytes, FALSE)' = Reading(bytes, FALSE)
          BY <3>1 DEF Reading, Arrived
        <5> QED
          BY <3>2, <5>1, <5>2
      <4> QED
        BY <4>1, <4>2
    <3> QED
      BY <3>1, <3>4 DEF RunIInv
  <2>2. CASE Drift
    <3>1. calib' = calib /\ class' = class /\ result' = NoResult /\ class = Live
      BY <2>2 DEF Drift
    <3>2. class.p = "live" /\ class.t = "live"
      BY <3>1 DEF Live
    <3>3. raw = [p |-> raw.p, t |-> raw.t] /\ raw.p \in RawPressures /\ raw.t \in RawTemps
      BY <3>2, SMT DEF RunIInv
    <3>4. raw' \in [p : RawPressures, t : RawTemps]
      <4>1. CASE \E p \in RawPressures : raw' = [raw EXCEPT !.p = p]
        BY <3>3, <4>1, SMT
      <4>2. CASE \E t \in RawTemps : raw' = [raw EXCEPT !.t = t]
        BY <3>3, <4>2, SMT
      <4> QED
        BY <2>2, <4>1, <4>2 DEF Drift
    <3>5. NoResult' = NoResult
      BY <3>1 DEF NoResult
    <3>6. raw' \in [p : IF class'.p = "live" THEN RawPressures ELSE {Void},
                    t : IF class'.t = "live" THEN RawTemps ELSE {Void}]
      BY <3>1, <3>2, <3>4
    <3> QED
      BY <3>1, <3>5, <3>6 DEF RunIInv
  <2>3. CASE UNCHANGED vars
    <3>1. calib' = calib /\ raw' = raw /\ class' = class /\ result' = result
      BY <2>3 DEF vars
    <3>2. NoResult' = NoResult /\ Reading(6, TRUE)' = Reading(6, TRUE)
      BY <3>1 DEF NoResult, Reading, Arrived
    <3>3. \A b : Reading(b, FALSE)' = Reading(b, FALSE)
      BY <3>1 DEF Reading, Arrived
    <3> QED
      BY <3>1, <3>2, <3>3 DEF RunIInv
  <2> QED
    BY <2>1, <2>2, <2>3 DEF Next, Read
<1> QED
  BY <1>1, <1>2, PTL DEF Spec

(* What read_pressure makes of every result, for every raw value of the     *)
(* range and every transfer that ended early, is what Kinds says of it.     *)
THEOREM KindsAreRight == Spec => []KindsRight
<1>1. RunIInv => KindsRight
  <2> SUFFICES ASSUME RunIInv, result # NoResult PROVE KindsRight
    BY DEF KindsRight
  <2>1. PICK bytes \in {0, 5, 6}, works \in BOOLEAN :
          (works => bytes = 6) /\ result = Reading(bytes, works)
    BY DEF RunIInv
  <2>2. result.of = class /\ result.works = works
    BY <2>1 DEF Reading
  <2>3. Kind(result.pressure, result.temp) \in
           Kinds(IF calib = Zeros THEN "zero" ELSE "read", class, works)
             \cup (IF class = Live THEN {"low"} ELSE {})
    BY <2>1, ReadingKinds
  <2> QED
    BY <2>2, <2>3 DEF KindsRight
<1> QED
  BY <1>1, RunInvariance, PTL

(* The results follow the measurements over the whole range: a higher raw   *)
(* pressure is a lower pressure, a higher raw temperature a higher one.     *)
THEOREM ResultsFollow == Spec => Monotone
<1> DEFINE Step ==
      calib # Zeros /\ class = Live =>
        /\ raw'.t = raw.t /\ raw'.p > raw.p
             => Pascals(raw'.p, raw.t) < Pascals(raw.p, raw.t)
        /\ raw'.t > raw.t
             => bmp280_compensate_temperature_int32(calib, raw'.t)
                  > bmp280_compensate_temperature_int32(calib, raw.t)
<1>1. RunIInv /\ RunIInv' /\ [Next]_vars => Step \/ UNCHANGED vars
  <2> SUFFICES ASSUME RunIInv, RunIInv', Next, calib # Zeros, class = Live
               PROVE  Step
    BY DEF Step
  <2>1. FirstLike(calib) \/ SecondLike(calib)
    BY CoefficientsAre DEF RunIInv
  <2>2. class' = class
    BY DEF Next, Read, Drift, bmp280_read_pressure_temperature
  <2>3. class.p = "live" /\ class.t = "live"
    BY DEF Live
  <2> DEFINE p == raw.p
             t == raw.t
             q == raw'.p
             u == raw'.t
  <2>4. /\ p \in RawPressures /\ t \in RawTemps
        /\ q \in RawPressures /\ u \in RawTemps
    <3>1. raw \in [p : RawPressures, t : RawTemps]
      BY <2>3 DEF RunIInv
    <3>2. raw' \in [p : RawPressures, t : RawTemps]
      BY <2>2, <2>3 DEF RunIInv
    <3> QED
      BY <3>1, <3>2
  <2> HIDE DEF p, t, q, u
  <2>5. ASSUME q > p PROVE Pascals(q, t) < Pascals(p, t)
    <3> DEFINE f == TFine(calib, t)
    <3>1. p \in Int /\ q \in Int /\ p + 50 <= q /\ q <= 580000
      BY <2>4, <2>5, RawPressuresAre, SMT
    <3>2. t \in Int /\ 418984 <= t /\ t <= 609000
      BY <2>4, RawTempsAre, SMT
    <3>3. f \in Int /\ -52300 <= f /\ f <= 256000
      BY <2>1, <3>2, TFineRange
    <3> HIDE DEF f
    <3>4. bmp280_compensate_pressure_int32(calib, f, q) < bmp280_compensate_pressure_int32(calib, f, p)
      BY <2>1, <3>1, <3>3, HigherIsLess
    <3> QED
      BY <3>4, SMT DEF Pascals, f
  <2>6. ASSUME u > t
        PROVE  bmp280_compensate_temperature_int32(calib, u) > bmp280_compensate_temperature_int32(calib, t)
    <3>1. t \in Int /\ u \in Int /\ 419000 <= t /\ u <= 609000 /\ t + 100 <= u
      BY <2>4, <2>6, RawTempsAre, SMT
    <3>2. bmp280_compensate_temperature_int32(calib, t) < bmp280_compensate_temperature_int32(calib, u)
      BY <2>1, <3>1, WarmerIsHigher
    <3>3. bmp280_compensate_temperature_int32(calib, t) \in Int
          /\ bmp280_compensate_temperature_int32(calib, u) \in Int
      BY <2>1, <3>1, TemperatureIsInt
    <3> QED
      BY <3>2, <3>3, SMT
  <2> QED
    BY <2>5, <2>6 DEF p, t, q, u
<1>2. RunIInv /\ RunIInv' /\ [Next]_vars => [Step]_vars
  BY <1>1
<1> QED
  BY <1>2, RunInvariance, PTL DEF Spec, Monotone, Step

=============================================================================
