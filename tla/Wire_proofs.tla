----------------------------- MODULE Wire_proofs -----------------------------
(***************************************************************************)
(* What one side writes the other reads: for any size of a byte, any       *)
(* message whose fields fit their widths, and so for every request and     *)
(* answer of the protocol whose two functions name the same fields.        *)
(* Induction is replaced by the least number that would be an exception.   *)
(***************************************************************************)
EXTENDS Wire, Integers, SequenceTheorems, WellFoundedInduction, TLAPS

-----------------------------------------------------------------------------
(* Numbers.                                                                *)

\* A nonempty set of natural numbers has a least element.
LEMMA LeastNat ==
  ASSUME NEW T, T \subseteq Nat, T # {}
  PROVE  \E x \in T : \A y \in T : x <= y
<1> DEFINE R == OpToRel(<, Nat)
<1>1. \E x \in T : \A y \in T : ~(<<y, x>> \in R)
  <2> HIDE DEF R
  <2>1. IsWellFoundedOn(R, Nat)
    BY NatLessThanWellFounded DEF R
  <2> QED
    BY <2>1, WFMin
<1>2. PICK x \in T : \A y \in T : ~(<<y, x>> \in R)
  BY <1>1
<1>3. ASSUME NEW y \in T PROVE x <= y
  <2>1. <<y, x>> \in Nat \X Nat /\ <<y, x>>[1] = y /\ <<y, x>>[2] = x
    BY SMT
  <2>2. ASSUME y < x PROVE <<y, x>> \in R
    BY <2>1, <2>2, Zenon DEF OpToRel
  <2>3. ~(y < x)
    BY <1>2, <2>2, Zenon
  <2> HIDE DEF R
  <2> QED
    BY <2>3, SMT
<1> QED
  BY <1>3

\* A number is so many times n and a remainder.
LEMMA Division ==
  ASSUME NEW n \in Nat \ {0}, NEW a \in Int
  PROVE  a = n * (a \div n) + (a % n) /\ a \div n \in Int /\ a % n \in 0 .. n - 1
BY SMT

\* A positive number of turns is at least one turn.
LEMMA OneTurn ==
  ASSUME NEW n \in Nat \ {0}, NEW q \in Int, q >= 1
  PROVE  n * q >= n
BY SMT

\* Quotient and remainder are unique.
LEMMA OneRemainder ==
  ASSUME NEW n \in Nat \ {0}, NEW p \in Int, NEW q \in Int,
         NEW r \in 0 .. n - 1, NEW s \in 0 .. n - 1, n * p + r = n * q + s
  PROVE  r = s
<1>1. n * (p - q) = n * p - n * q /\ n * (q - p) = n * q - n * p
  BY SMT
<1>2. CASE p - q >= 1
  BY <1>1, <1>2, OneTurn, SMT
<1>3. CASE q - p >= 1
  BY <1>1, <1>3, OneTurn, SMT
<1>4. CASE p = q
  BY <1>4, SMT
<1> QED
  BY <1>2, <1>3, <1>4, SMT

-----------------------------------------------------------------------------
(* Recursion.                                                              *)

\* Two functions that begin alike and go on alike are alike.
GoAlike(n, f, s) == f[0] = s[0] /\ \A i \in 1 .. n : f[i - 1] = s[i - 1] => f[i] = s[i]

LEMMA Stepwise ==
  ASSUME NEW n \in Nat, NEW f, NEW s, GoAlike(n, f, s)
  PROVE  \A i \in 0 .. n : f[i] = s[i]
<1> DEFINE T == {k \in 0 .. n : f[k] # s[k]}
<1>1. SUFFICES ASSUME T # {} PROVE FALSE
  BY <1>1
<1>2. T \subseteq Nat
  BY SMT
<1>3. PICK k \in T : \A j \in T : k <= j
  BY <1>1, <1>2, LeastNat
<1>4. k \in 0 .. n /\ f[k] # s[k]
  BY <1>3
<1>5. k # 0
  BY <1>4 DEF GoAlike
<1>6. k \in 1 .. n /\ k - 1 \in 0 .. n /\ ~(k <= k - 1)
  BY <1>4, <1>5, SMT
<1>7. f[k - 1] = s[k - 1]
  BY <1>3, <1>6
<1> QED
  BY <1>4, <1>6, <1>7 DEF GoAlike

\* What is computed step by step exists, if each step stays among the things of a kind.
Computed(n, X, x, step) ==
  \E f \in [0 .. n -> X] : f[0] = x /\ \A i \in 1 .. n : f[i] = step[i][f[i - 1]]

LEMMA Recursion ==
  ASSUME NEW n \in Nat, NEW X, NEW x \in X, NEW step \in [1 .. n -> [X -> X]]
  PROVE  Computed(n, X, x, step)
<1> DEFINE To(k, f) == f[0] = x /\ \A i \in 1 .. k : f[i] = step[i][f[i - 1]]
           T == {k \in 0 .. n : \A f \in [0 .. k -> X] : ~To(k, f)}
<1>1. SUFFICES ASSUME T # {} PROVE FALSE
  <2>1. n \in 0 .. n
    BY SMT
  <2> QED
    BY <1>1, <2>1 DEF Computed
<1>2. T \subseteq Nat
  BY SMT
<1>3. PICK k \in T : \A j \in T : k <= j
  <2> HIDE DEF T
  <2> QED
    BY <1>1, <1>2, LeastNat
<1>4. k \in 0 .. n /\ \A f \in [0 .. k -> X] : ~To(k, f)
  BY <1>3
<1>5. k # 0
  <2> DEFINE g == [i \in 0 .. 0 |-> x]
  <2>1. g \in [0 .. 0 -> X] /\ g[0] = x /\ \A i \in 1 .. 0 : FALSE
    BY SMT
  <2> HIDE DEF g
  <2>2. To(0, g)
    BY <2>1
  <2> QED
    BY <1>4, <2>1, <2>2
<1>6. k \in 1 .. n /\ k - 1 \in 0 .. n /\ ~(k <= k - 1)
  BY <1>4, <1>5, SMT
<1>7. PICK f \in [0 .. k - 1 -> X] : To(k - 1, f)
  BY <1>3, <1>6
<1> DEFINE g == [i \in 0 .. k |-> IF i = k THEN step[k][f[k - 1]] ELSE f[i]]
<1>8. f[k - 1] \in X /\ step[k] \in [X -> X]
  BY <1>6, SMT
<1>9. g \in [0 .. k -> X]
  <2>1. step[k][f[k - 1]] \in X
    BY <1>8
  <2>2. \A i \in 0 .. k : i # k => i \in 0 .. k - 1
    BY <1>6, SMT
  <2> QED
    BY <2>1, <2>2
<1>10. \A i \in 0 .. k : g[i] = IF i = k THEN step[k][f[k - 1]] ELSE f[i]
  OBVIOUS
<1> HIDE DEF g
<1>11. g[0] = x
  BY <1>6, <1>7, <1>10, SMT
<1>12. ASSUME NEW i \in 1 .. k PROVE g[i] = step[i][g[i - 1]]
  <2>1. i \in 0 .. k /\ i - 1 \in 0 .. k /\ i - 1 # k /\ (i # k => i \in 1 .. k - 1)
    BY <1>6, SMT
  <2>2. g[i - 1] = f[i - 1]
    BY <1>10, <2>1
  <2> QED
    BY <1>7, <1>10, <2>1, <2>2
<1> QED
  BY <1>4, <1>9, <1>11, <1>12

-----------------------------------------------------------------------------
(* Numbers.                                                                *)

\* The powers of Base.
LEMMA PowerExists ==
  ASSUME NEW n \in Nat
  PROVE  \E f \in [0 .. n -> Nat \ {0}] :
           f[0] = 1 /\ \A i \in 1 .. n : f[i] = Base * f[i - 1]
<1> DEFINE X == Nat \ {0}
           step == [i \in 1 .. n |-> [y \in X |-> Base * y]]
<1>1. Base \in Nat \ {0, 1}
  BY WireAssumption
<1>2. \A y \in X : Base * y \in X
  BY <1>1, SMT
<1>3. step \in [1 .. n -> [X -> X]] /\ 1 \in X
  BY <1>2
<1> HIDE DEF step, X
<1>4. PICK f \in [0 .. n -> X] : f[0] = 1 /\ \A i \in 1 .. n : f[i] = step[i][f[i - 1]]
  <2>1. Computed(n, X, 1, step)
    BY <1>3, Recursion
  <2> QED
    BY <2>1 DEF Computed
<1>5. ASSUME NEW i \in 1 .. n PROVE f[i] = Base * f[i - 1]
  <2>1. i - 1 \in 0 .. n
    BY SMT
  <2>2. f[i - 1] \in X
    BY <2>1
  <2> QED
    BY <1>4, <2>2 DEF step
<1> QED
  BY <1>4, <1>5 DEF X

\* Power is what its recursion says.
LEMMA PowerUpTo ==
  ASSUME NEW n \in Nat, NEW f, f[0] = 1, \A i \in 1 .. n : f[i] = Base * f[i - 1]
  PROVE  Power(n) = f[n]
<1> DEFINE Step(w) == [i \in 0 .. n |-> IF i = 0 THEN 1 ELSE Base * w[i - 1]]
           p == CHOOSE w : w = Step(w)
           g == [i \in 0 .. n |-> f[i]]
<1>1. g = Step(g)
  <2>1. ASSUME NEW i \in 0 .. n PROVE g[i] = IF i = 0 THEN 1 ELSE Base * g[i - 1]
    <3>1. CASE i = 0
      BY <3>1
    <3>2. CASE i # 0
      <4>1. i \in 1 .. n /\ i - 1 \in 0 .. n
        BY <3>2, SMT
      <4> QED
        BY <3>2, <4>1
    <3> QED
      BY <3>1, <3>2
  <2> QED
    BY <2>1
<1>2. p = Step(p)
  <2> HIDE DEF Step, g
  <2> QED
    BY <1>1
<1>3. Power(n) = p[n]
  BY DEF Power
<1> HIDE DEF p
<1>4. p[0] = 1 /\ \A i \in 1 .. n : p[i] = Base * p[i - 1]
  <2>1. \A i \in 0 .. n : p[i] = IF i = 0 THEN 1 ELSE Base * p[i - 1]
    BY <1>2
  <2>2. 0 \in 0 .. n /\ \A i \in 1 .. n : i \in 0 .. n /\ i # 0
    BY SMT
  <2> QED
    BY <2>1, <2>2
<1>5. \A i \in 0 .. n : p[i] = f[i]
  <2>1. GoAlike(n, p, f)
    BY <1>4 DEF GoAlike
  <2> QED
    BY <2>1, Stepwise
<1>6. n \in 0 .. n
  BY SMT
<1> QED
  BY <1>3, <1>5, <1>6

LEMMA PowerIs ==
  /\ Power(0) = 1
  /\ \A w \in Nat : Power(w) \in Nat \ {0} /\ Power(w + 1) = Base * Power(w)
<1>1. ASSUME NEW w \in Nat
      PROVE  Power(0) = 1 /\ Power(w) \in Nat \ {0} /\ Power(w + 1) = Base * Power(w)
  <2>1. w + 1 \in Nat /\ 0 \in Nat /\ w + 1 \in 1 .. w + 1 /\ (w + 1) - 1 = w
        /\ w \in 0 .. w + 1 /\ (\A i \in 1 .. w : i \in 1 .. w + 1) /\ 1 .. 0 = {}
    BY SMT
  <2>2. PICK f \in [0 .. w + 1 -> Nat \ {0}] :
          f[0] = 1 /\ \A i \in 1 .. w + 1 : f[i] = Base * f[i - 1]
    BY <2>1, PowerExists
  <2>3. Power(w + 1) = f[w + 1]
    BY <2>1, <2>2, PowerUpTo
  <2>4. Power(w) = f[w]
    BY <2>1, <2>2, PowerUpTo
  <2>5. Power(0) = f[0]
    BY <2>1, <2>2, PowerUpTo
  <2>6. f[w + 1] = Base * f[w]
    BY <2>1, <2>2
  <2> QED
    BY <2>1, <2>2, <2>3, <2>4, <2>5, <2>6
<1> QED
  BY <1>1

\* Dividing twice.
LEMMA Twice ==
  ASSUME NEW v \in Nat, NEW p \in Nat \ {0}, NEW b \in Nat \ {0}
  PROVE  /\ v \div p \in Nat
         /\ v \div p = (v \div (b * p)) * b + ((v \div p) % b)
<1> DEFINE u == v \div p
           q == u \div b
           m == b * p
<1>1. v = p * u + (v % p) /\ u \in Int /\ v % p \in 0 .. p - 1
  BY Division, SMT
<1>2. u \in Nat
  BY SMT
<1>3. u = b * q + (u % b) /\ q \in Int /\ u % b \in 0 .. b - 1
  <2> HIDE DEF u
  <2> QED
    BY <1>2, Division, SMT
<1>4. m \in Nat \ {0}
  BY SMT
<1> DEFINE r == p * (u % b) + (v % p)
<1> HIDE DEF u, q
<1>5. v = m * q + r
  <2>1. p * u = p * (b * q) + p * (u % b)
    BY <1>2, <1>3, SMT
  <2>2. p * (b * q) = m * q
    BY <1>3, SMT
  <2> QED
    BY <1>1, <1>2, <1>3, <2>1, <2>2, SMT
<1>6. r \in 0 .. m - 1
  <2> DEFINE x == u % b
             y == (b - 1) - x
  <2>0. x \in Nat /\ y \in Nat /\ b - 1 = x + y /\ p * x \in Nat /\ p * y \in Nat
    BY <1>3, SMT
  <2>1. p * x <= p * (b - 1) /\ p * x >= 0
    <3> HIDE DEF x, y
    <3>1. p * (x + y) = p * x + p * y
      BY <2>0, SMT
    <3> QED
      BY <2>0, <3>1, SMT
  <2>2. p * (b - 1) = m - p
    BY SMT
  <2> QED
    BY <1>1, <1>3, <2>1, <2>2, <1>4, SMT
<1> HIDE DEF m
<1>7. v \div m = q
  <2> DEFINE k == v \div m
  <2>1. v = m * k + (v % m) /\ k \in Int /\ v % m \in 0 .. m - 1
    BY <1>4, Division, SMT
  <2> HIDE DEF k, r
  <2>2. v % m = r
    BY <1>3, <1>4, <1>5, <1>6, <2>1, OneRemainder
  <2>3. m * k = m * q
    BY <1>3, <1>4, <1>5, <1>6, <2>1, <2>2, SMT
  <2>4. m * (k - q) = m * k - m * q /\ m * (q - k) = m * q - m * k
    BY <1>3, <1>4, <2>1, SMT
  <2>5. ~(k - q >= 1)
    <3>1. k - q \in Int
      BY <1>3, <2>1, SMT
    <3>2. k - q >= 1 => m * (k - q) >= m
      BY <1>4, <3>1, OneTurn
    <3> QED
      BY <1>3, <1>4, <2>1, <2>3, <2>4, <3>2, SMT
  <2>6. ~(q - k >= 1)
    <3>1. q - k \in Int
      BY <1>3, <2>1, SMT
    <3>2. q - k >= 1 => m * (q - k) >= m
      BY <1>4, <3>1, OneTurn
    <3> QED
      BY <1>3, <1>4, <2>1, <2>3, <2>4, <3>2, SMT
  <2>7. k = q
    BY <1>3, <2>1, <2>5, <2>6, SMT
  <2> QED
    BY <2>7 DEF k
<1>8. q * b = b * q
  BY <1>3, SMT
<1>9. u = (v \div m) * b + (u % b)
  BY <1>3, <1>7, <1>8, Zenon
<1> QED
  BY <1>2, <1>9 DEF u, m

Bytes == 0 .. Base - 1

\* The digit of v at the place k from the right.
Digit(v, k) == (v \div Power(k)) % Base

\* Where the i-th most significant of w digits stands.
Place(i, w) == IF BigEndian THEN i ELSE w - i + 1

LEMMA DigitsAre ==
  ASSUME NEW v \in Nat, NEW w \in Nat
  PROVE  /\ Digits(v, w) \in Seq(Bytes) /\ Len(Digits(v, w)) = w
         /\ \A i \in 1 .. w : Digits(v, w)[Place(i, w)] = Digit(v, w - i)
<1> DEFINE d == Digits(v, w)
           place(i) == IF BigEndian THEN w - i ELSE i - 1
<1>1. Base \in Nat \ {0, 1}
  BY WireAssumption
<1>2. \A k \in Nat : Digit(v, k) \in Bytes
  <2>1. \A k \in Nat : v \div Power(k) \in Nat
    BY PowerIs, Twice
  <2> QED
    BY <1>1, <2>1, SMT DEF Digit, Bytes
<1>3. \A i \in 1 .. w : place(i) \in Nat
  BY SMT
<1>4. d = [i \in 1 .. w |-> Digit(v, place(i))]
  BY DEF Digits, Digit
<1>5. d \in [1 .. w -> Bytes]
  BY <1>2, <1>3, <1>4
<1>6. d \in Seq(Bytes) /\ Len(d) = w
  BY <1>5, SMT
<1>7. ASSUME NEW i \in 1 .. w
      PROVE  d[Place(i, w)] = Digit(v, w - i)
  <2>1. CASE BigEndian
    BY <1>4, <2>1 DEF Place
  <2>2. CASE ~BigEndian
    <3>1. w - i + 1 \in 1 .. w /\ (w - i + 1) - 1 = w - i
      BY SMT
    <3> QED
      BY <1>4, <2>2, <3>1 DEF Place
  <2> QED
    BY <2>1, <2>2
<1> QED
  BY <1>6, <1>7

\* What Number computes.
Counts(s, d, w) == s[0] = 0 /\ \A i \in 1 .. w : s[i] = s[i - 1] * Base + d[Place(i, w)]

LEMMA NumberIs ==
  ASSUME NEW w \in Nat, NEW d, Len(d) = w, NEW s, Counts(s, d, w)
  PROVE  Number(d) = s[w]
<1> DEFINE Step(x) == [i \in 0 .. w |-> IF i = 0 THEN 0 ELSE x[i - 1] * Base + d[Place(i, w)]]
           f == CHOOSE x : x = Step(x)
           g == [i \in 0 .. w |-> s[i]]
<1>0. s[0] = 0 /\ \A i \in 1 .. w : s[i] = s[i - 1] * Base + d[Place(i, w)]
  BY DEF Counts
<1>1. g = Step(g)
  <2>1. ASSUME NEW i \in 0 .. w PROVE g[i] = IF i = 0 THEN 0 ELSE g[i - 1] * Base + d[Place(i, w)]
    <3>1. CASE i = 0
      BY <1>0, <3>1
    <3>2. CASE i # 0
      <4>1. i \in 1 .. w /\ i - 1 \in 0 .. w
        BY <3>2, SMT
      <4> QED
        BY <1>0, <3>2, <4>1
    <3> QED
      BY <3>1, <3>2
  <2> QED
    BY <2>1
<1>2. f = Step(f)
  <2> HIDE DEF Step, g
  <2> QED
    BY <1>1
<1>3. Number(d) = f[w]
  BY DEF Number, Place
<1> HIDE DEF f
<1>4. f[0] = 0 /\ \A i \in 1 .. w : f[i] = f[i - 1] * Base + d[Place(i, w)]
  <2>1. \A i \in 0 .. w : f[i] = IF i = 0 THEN 0 ELSE f[i - 1] * Base + d[Place(i, w)]
    BY <1>2
  <2>2. 0 \in 0 .. w /\ \A i \in 1 .. w : i \in 0 .. w /\ i # 0
    BY SMT
  <2> QED
    BY <2>1, <2>2
<1>5. \A i \in 0 .. w : f[i] = s[i]
  <2>1. ASSUME NEW i \in 1 .. w, f[i - 1] = s[i - 1] PROVE f[i] = s[i]
    BY <1>0, <1>4, <2>1
  <2>2. f[0] = s[0]
    BY <1>0, <1>4
  <2>3. GoAlike(w, f, s)
    BY <2>1, <2>2 DEF GoAlike
  <2> QED
    BY <2>3, Stepwise
<1>6. w \in 0 .. w
  BY SMT
<1> QED
  BY <1>3, <1>5, <1>6

\* A number that fits is read as it was written.
LEMMA NumberOfDigits ==
  ASSUME NEW w \in Nat, NEW v \in 0 .. Power(w) - 1
  PROVE  Number(Digits(v, w)) = v
<1> DEFINE d == Digits(v, w)
           s == [i \in 0 .. w |-> v \div Power(w - i)]
<1>1. Base \in Nat \ {0, 1} /\ Power(w) \in Nat \ {0}
  BY WireAssumption, PowerIs
<1>2. v \in Nat
  BY <1>1, SMT
<1>3. Len(d) = w /\ \A i \in 1 .. w : d[Place(i, w)] = Digit(v, w - i)
  BY <1>2, DigitsAre
<1>4. s[0] = 0
  <2>1. 0 \in 0 .. w /\ w - 0 = w
    BY SMT
  <2>2. v \div Power(w) = 0
    BY <1>1, <1>2, SMT
  <2> QED
    BY <2>1, <2>2
<1>5. ASSUME NEW i \in 1 .. w
      PROVE  s[i] = s[i - 1] * Base + d[Place(i, w)]
  <2>1. i \in 0 .. w /\ i - 1 \in 0 .. w /\ w - i \in Nat /\ w - (i - 1) = (w - i) + 1
    BY SMT
  <2>2. Power(w - i) \in Nat \ {0} /\ Power((w - i) + 1) = Base * Power(w - i)
    BY <2>1, PowerIs
  <2>3. v \div Power(w - i)
        = (v \div (Base * Power(w - i))) * Base + ((v \div Power(w - i)) % Base)
    BY <1>1, <1>2, <2>2, Twice
  <2> QED
    BY <1>3, <2>1, <2>2, <2>3 DEF Digit
<1> HIDE DEF d, s
<1>6. Number(d) = s[w]
  <2>1. Counts(s, d, w)
    BY <1>4, <1>5 DEF Counts
  <2> QED
    BY <1>3, <2>1, NumberIs
<1>7. s[w] = v
  <2>1. w \in 0 .. w /\ w - w = 0 /\ v \div 1 = v
    BY <1>2, SMT
  <2> QED
    BY <2>1, PowerIs DEF s
<1> QED
  BY <1>6, <1>7 DEF d

\* Read as a count, the code of an error is beyond the reach of one byte.
LEMMA CodeIsLong == Number(Digits(500, 2)) >= Base /\ Number(Digits(500, 2)) \in Nat
<1> DEFINE d == Digits(500, 2)
           s == [i \in 0 .. 2 |-> IF i = 0 THEN 0 ELSE IF i = 1 THEN Digit(500, 1)
                                  ELSE Digit(500, 1) * Base + Digit(500, 0)]
<1>1. Base \in Nat \ {0, 1} /\ (500 \div Base) % Base # 0 /\ 500 \in Nat /\ 2 \in Nat
  BY WireAssumption
<1>2. Power(1) = Base
  <2>1. Power(0 + 1) = Base * Power(0) /\ 0 + 1 = 1 /\ Power(0) = 1
    BY PowerIs
  <2> QED
    BY <1>1, <2>1, SMT
<1>3. Digit(500, 1) \in Nat \ {0} /\ Digit(500, 0) \in Nat
  BY <1>1, <1>2, PowerIs, SMT DEF Digit
<1>4. Len(d) = 2 /\ \A i \in 1 .. 2 : d[Place(i, 2)] = Digit(500, 2 - i)
  <2> DEFINE w == 2
  <2>1. w \in Nat /\ 500 \in Nat
    OBVIOUS
  <2> HIDE DEF w
  <2>2. /\ Len(Digits(500, w)) = w
        /\ \A i \in 1 .. w : Digits(500, w)[Place(i, w)] = Digit(500, w - i)
    BY <2>1, DigitsAre
  <2> QED
    BY <2>2 DEF w
<1>5. s[0] = 0 /\ s[1] = Digit(500, 1) /\ s[2] = Digit(500, 1) * Base + Digit(500, 0)
  BY SMT
<1> HIDE DEF s, d
<1>6. \A i \in 1 .. 2 : s[i] = s[i - 1] * Base + d[Place(i, 2)]
  <2>1. d[Place(1, 2)] = Digit(500, 1)
        /\ d[Place(2, 2)] = Digit(500, 0)
    <3>1. 1 \in 1 .. 2 /\ 2 \in 1 .. 2 /\ 2 - 1 = 1 /\ 2 - 2 = 0
      BY SMT
    <3> QED
      BY <1>4, <3>1
  <2>2. s[1] = s[1 - 1] * Base + Digit(500, 1) /\ s[2] = s[2 - 1] * Base + Digit(500, 0)
    BY <1>1, <1>3, <1>5, SMT
  <2>3. \A i \in 1 .. 2 : i = 1 \/ i = 2
    BY SMT
  <2> QED
    BY <2>1, <2>2, <2>3
<1>7. Number(d) = s[2]
  <2> DEFINE w == 2
  <2>1. w \in Nat /\ Len(d) = w
    BY <1>4
  <2>2. \A i \in 1 .. w : s[i] = s[i - 1] * Base + d[Place(i, w)]
    BY <1>6
  <2> HIDE DEF w
  <2>3. Counts(s, d, w)
    BY <1>5, <2>2 DEF Counts
  <2>4. Number(d) = s[w]
    BY <2>1, <2>3, NumberIs
  <2> QED
    BY <2>4 DEF w
<1>8. Digit(500, 1) * Base >= Base /\ Digit(500, 1) * Base \in Nat
  BY <1>1, <1>3, SMT
<1> QED
  BY <1>1, <1>3, <1>5, <1>7, <1>8, SMT DEF d

-----------------------------------------------------------------------------
(* Bytes one after the other.                                              *)

\* What begins with a is a and what is left of it.
LEMMA TakeSkip ==
  ASSUME NEW a \in Seq(Bytes), NEW b \in Seq(Bytes)
  PROVE  /\ a \o b \in Seq(Bytes) /\ Len(a \o b) = Len(a) + Len(b)
         /\ Len(a) \in Nat /\ Len(b) \in Nat
         /\ SubSeq(a \o b, 1, Len(a)) = a
         /\ SubSeq(a \o b, Len(a) + 1, Len(a \o b)) = b
<1>1. Len(a) \in Nat /\ Len(b) \in Nat
  BY LenProperties
<1>2. /\ a \o b \in Seq(Bytes) /\ Len(a \o b) = Len(a) + Len(b)
      /\ \A i \in 1 .. Len(a) + Len(b) : (a \o b)[i] = IF i <= Len(a) THEN a[i] ELSE b[i - Len(a)]
  BY ConcatProperties
<1> DEFINE c == a \o b
<1> HIDE DEF c
<1>3. c \in Seq(Bytes) /\ Len(c) = Len(a) + Len(b) /\ \A i \in 1 .. Len(c) : c[i] \in Bytes
  BY <1>2, ElementOfSeq DEF c
<1>4. SubSeq(c, 1, Len(a)) = a
  <2>1. \A i \in 1 .. Len(a) : c[i] \in Bytes
    BY <1>1, <1>3, SMT
  <2>2. /\ SubSeq(c, 1, Len(a)) \in Seq(Bytes)
        /\ Len(SubSeq(c, 1, Len(a))) = IF 1 <= Len(a) THEN Len(a) - 1 + 1 ELSE 0
        /\ \A i \in 1 .. Len(a) - 1 + 1 : SubSeq(c, 1, Len(a))[i] = c[1 + i - 1]
    BY <1>1, <2>1, SubSeqProperties
  <2>3. Len(SubSeq(c, 1, Len(a))) = Len(a)
    BY <1>1, <2>2, SMT
  <2>4. ASSUME NEW i \in 1 .. Len(a) PROVE SubSeq(c, 1, Len(a))[i] = a[i]
    <3>1. i \in 1 .. Len(a) - 1 + 1 /\ 1 + i - 1 = i /\ i \in 1 .. Len(a) + Len(b) /\ i <= Len(a)
      BY <1>1, SMT
    <3>2. c[i] = a[i]
      BY <1>2, <3>1 DEF c
    <3> QED
      BY <2>2, <3>1, <3>2
  <2> QED
    BY <2>2, <2>3, <2>4, SeqEqual
<1>5. SubSeq(c, Len(a) + 1, Len(c)) = b
  <2> DEFINE m == Len(a) + 1
             n == Len(c)
  <2>0. /\ m \in Int /\ n \in Int /\ n - m + 1 = Len(b)
        /\ (m <= n => n - m + 1 = Len(b)) /\ (~(m <= n) => Len(b) = 0)
    BY <1>1, <1>3, SMT
  <2>1. \A i \in m .. n : c[i] \in Bytes
    BY <1>1, <1>3, SMT
  <2> HIDE DEF m, n
  <2>2. /\ SubSeq(c, m, n) \in Seq(Bytes)
        /\ Len(SubSeq(c, m, n)) = IF m <= n THEN n - m + 1 ELSE 0
        /\ \A i \in 1 .. n - m + 1 : SubSeq(c, m, n)[i] = c[m + i - 1]
    BY <2>0, <2>1, SubSeqProperties
  <2>3. Len(SubSeq(c, m, n)) = Len(b)
    BY <2>0, <2>2, SMT
  <2>4. ASSUME NEW i \in 1 .. Len(b) PROVE SubSeq(c, m, n)[i] = b[i]
    <3>1. /\ i \in 1 .. n - m + 1
      BY <2>0
    <3>2. /\ m + i - 1 = Len(a) + i /\ Len(a) + i \in 1 .. Len(a) + Len(b)
          /\ ~(Len(a) + i <= Len(a)) /\ (Len(a) + i) - Len(a) = i
      BY <1>1, SMT DEF m
    <3>3. c[Len(a) + i] = b[i]
      BY <1>2, <3>2 DEF c
    <3> QED
      BY <2>2, <3>1, <3>2, <3>3
  <2>5. SubSeq(c, m, n) = b
    BY <2>2, <2>3, <2>4, SeqEqual
  <2> QED
    BY <2>5 DEF m, n
<1> QED
  BY <1>1, <1>2, <1>4, <1>5 DEF c

LEMMA Regroup ==
  ASSUME NEW a \in Seq(Bytes), NEW b \in Seq(Bytes), NEW c \in Seq(Bytes)
  PROVE  (a \o b) \o c = a \o (b \o c)
BY ConcatAssociative

\* r[i] is what stands from the i-th of the sequences ss on.
Rests(ss, n, r) ==
  /\ \A i \in 1 .. n + 1 : r[i] \in Seq(Bytes)
  /\ r[n + 1] = <<>>
  /\ \A i \in 1 .. n : r[i] = ss[i] \o r[i + 1]

LEMMA RestsExist ==
  ASSUME NEW n \in Nat, NEW ss, \A i \in 1 .. n : ss[i] \in Seq(Bytes)
  PROVE  \E r : Rests(ss, n, r)
<1> DEFINE X == Seq(Bytes)
           step == [i \in 1 .. n |-> [t \in X |-> ss[n - i + 1] \o t]]
<1>1. \A i \in 1 .. n : n - i + 1 \in 1 .. n
  BY SMT
<1>2. <<>> \in X
  BY EmptySeq
<1>3. \A i \in 1 .. n : \A t \in X : ss[n - i + 1] \o t \in X
  BY <1>1, ConcatProperties
<1>4. step \in [1 .. n -> [X -> X]]
  BY <1>3
<1>5. \A i \in 1 .. n : \A t \in X : step[i][t] = ss[n - i + 1] \o t
  OBVIOUS
<1> HIDE DEF step, X
<1>6. Computed(n, X, <<>>, step)
  BY <1>2, <1>4, Recursion
<1>7. PICK f \in [0 .. n -> X] : f[0] = <<>> /\ \A i \in 1 .. n : f[i] = step[i][f[i - 1]]
  BY <1>6 DEF Computed
<1> DEFINE r == [i \in 1 .. n + 1 |-> f[n + 1 - i]]
<1>8. \A i \in 1 .. n + 1 : n + 1 - i \in 0 .. n
  BY SMT
<1>9. \A i \in 1 .. n + 1 : r[i] = f[n + 1 - i] /\ r[i] \in X
  BY <1>8
<1>10. r[n + 1] = <<>>
  <2>1. n + 1 \in 1 .. n + 1 /\ n + 1 - (n + 1) = 0
    BY SMT
  <2> QED
    BY <1>7, <1>9, <2>1
<1> HIDE DEF r
<1>11. ASSUME NEW i \in 1 .. n PROVE r[i] = ss[i] \o r[i + 1]
  <2> DEFINE k == n + 1 - i
  <2>1. /\ k \in 1 .. n /\ k - 1 \in 0 .. n /\ n - k + 1 = i
        /\ k - 1 = n + 1 - (i + 1) /\ i \in 1 .. n + 1 /\ i + 1 \in 1 .. n + 1
    BY SMT
  <2>2. r[i] = f[k] /\ r[i + 1] = f[k - 1] /\ f[k - 1] \in X
    BY <1>9, <2>1
  <2> HIDE DEF k
  <2>3. f[k] = ss[n - k + 1] \o f[k - 1]
    BY <1>5, <1>7, <2>1, <2>2
  <2> QED
    BY <2>1, <2>2, <2>3
<1> QED
  BY <1>9, <1>10, <1>11 DEF Rests, X

LEMMA FlattenIs ==
  ASSUME NEW ss, NEW n \in Nat, ss = [i \in 1 .. n |-> ss[i]], \A i \in 1 .. n : ss[i] \in Seq(Bytes),
         NEW r, Rests(ss, n, r)
  PROVE  FlattenSeq(ss) = r[1]
<1> DEFINE X == Seq(Bytes)
           step == [i \in 1 .. n |-> [t \in X |-> t \o ss[i]]]
<1>1. /\ \A i \in 1 .. n + 1 : r[i] \in X
      /\ r[n + 1] = <<>>
      /\ \A i \in 1 .. n : r[i] = ss[i] \o r[i + 1]
  BY DEF Rests
<1>2. <<>> \in X
  BY EmptySeq
<1>3. \A i \in 1 .. n : \A t \in X : t \o ss[i] \in X
  BY ConcatProperties
<1>4. step \in [1 .. n -> [X -> X]] /\ \A i \in 1 .. n : \A t \in X : step[i][t] = t \o ss[i]
  BY <1>3
<1>5. ss \in Seq(X) /\ Len(ss) = n
  BY SMT
<1> HIDE DEF step
<1>6. Computed(n, X, <<>>, step)
  BY <1>2, <1>4, Recursion
<1>7. PICK c \in [0 .. n -> X] : c[0] = <<>> /\ \A i \in 1 .. n : c[i] = step[i][c[i - 1]]
  BY <1>6 DEF Computed
<1>8. ASSUME NEW i \in 1 .. n
      PROVE  i \in 0 .. n /\ i - 1 \in 0 .. n /\ c[i] = c[i - 1] \o ss[i] /\ c[i - 1] \in X /\ c[i] \in X
  <2>1. i \in 0 .. n /\ i - 1 \in 0 .. n
    BY SMT
  <2> QED
    BY <1>4, <1>7, <2>1
<1>9. c[n] = r[1]
  <2> DEFINE f == [i \in 0 .. n |-> c[i] \o r[i + 1]]
             g == [i \in 0 .. n |-> r[1]]
  <2>1. \A i \in 0 .. n : f[i] = c[i] \o r[i + 1] /\ g[i] = r[1] /\ i + 1 \in 1 .. n + 1
    BY SMT
  <2> HIDE DEF f, g
  <2>2. f[0] = g[0]
    <3>1. 0 \in 0 .. n /\ 0 + 1 = 1 /\ r[1] \in X
      BY <1>1, SMT
    <3>2. <<>> \o r[1] = r[1]
      BY <3>1, ConcatEmptySeq
    <3> QED
      BY <1>7, <2>1, <3>1, <3>2
  <2>3. ASSUME NEW i \in 1 .. n, f[i - 1] = g[i - 1] PROVE f[i] = g[i]
    <3>1. i \in 0 .. n /\ i - 1 \in 0 .. n /\ (i - 1) + 1 = i /\ i + 1 \in 1 .. n + 1 /\ i \in 1 .. n + 1
      BY SMT
    <3>2. (c[i - 1] \o ss[i]) \o r[i + 1] = c[i - 1] \o (ss[i] \o r[i + 1])
      <4>1. c[i - 1] \in Seq(Bytes) /\ ss[i] \in Seq(Bytes) /\ r[i + 1] \in Seq(Bytes)
        BY <1>1, <1>8, <3>1
      <4> QED
        BY <4>1, Regroup
    <3>3. f[i] = (c[i - 1] \o ss[i]) \o r[i + 1]
      BY <1>8, <2>1, <3>1
    <3>4. f[i - 1] = c[i - 1] \o r[i]
      BY <2>1, <3>1
    <3>5. r[i] = ss[i] \o r[i + 1]
      BY <1>1
    <3> QED
      BY <2>1, <2>3, <3>1, <3>2, <3>3, <3>4, <3>5
  <2>4. GoAlike(n, f, g)
    BY <2>2, <2>3 DEF GoAlike
  <2>5. n \in 0 .. n
    BY SMT
  <2>6. c[n] \o <<>> = r[1]
    <3>1. f[n] = g[n]
      BY <2>4, <2>5, Stepwise
    <3> QED
      BY <1>1, <2>1, <2>5, <3>1
  <2>7. c[n] \o <<>> = c[n]
    BY <2>5, ConcatEmptySeq
  <2> QED
    BY <2>6, <2>7
<1>10. CASE n = 0
  <2>1. ss = <<>>
    BY <1>5, <1>10, EmptySeq
  <2>2. FlattenSeq(ss) = ss
    BY <1>5, <1>10 DEF FlattenSeq
  <2> QED
    BY <1>1, <1>10, <2>1, <2>2
<1>11. CASE n # 0
  <2> DEFINE Step(w) == [i \in 1 .. n |-> IF i = 1 THEN ss[i] ELSE w[i - 1] \o ss[i]]
             at == CHOOSE w : w = Step(w)
             d == [i \in 1 .. n |-> c[i]]
             h == [i \in 0 .. n |-> IF i = 0 THEN <<>> ELSE at[i]]
  <2>1. c[1] = ss[1]
    <3>1. 1 \in 1 .. n /\ 1 - 1 = 0
      BY <1>11, SMT
    <3>2. <<>> \o ss[1] = ss[1]
      BY <3>1, ConcatEmptySeq
    <3> QED
      BY <1>7, <1>8, <3>1, <3>2
  <2>2. d = Step(d)
    <3>1. ASSUME NEW i \in 1 .. n PROVE d[i] = IF i = 1 THEN ss[i] ELSE d[i - 1] \o ss[i]
      <4>1. i # 1 => i - 1 \in 1 .. n
        BY SMT
      <4>2. i # 1 => d[i - 1] = c[i - 1]
        BY <4>1
      <4> QED
        BY <1>8, <2>1, <4>2
    <3> QED
      BY <3>1
  <2>3. at = Step(at)
    <3> HIDE DEF Step, d
    <3> QED
      BY <2>2
  <2>4. FlattenSeq(ss) = at[n]
    BY <1>5, <1>11 DEF FlattenSeq
  <2> HIDE DEF at
  <2>5. \A i \in 1 .. n : at[i] = IF i = 1 THEN ss[i] ELSE at[i - 1] \o ss[i]
    BY <2>3
  <2>6. \A i \in 0 .. n : h[i] = IF i = 0 THEN <<>> ELSE at[i]
    OBVIOUS
  <2> HIDE DEF h
  <2>7. h[0] = c[0]
    <3>1. 0 \in 0 .. n
      BY SMT
    <3> QED
      BY <1>7, <2>6, <3>1
  <2>8. ASSUME NEW i \in 1 .. n, h[i - 1] = c[i - 1] PROVE h[i] = c[i]
    <3>1. i \in 0 .. n /\ i - 1 \in 0 .. n /\ i # 0
      BY SMT
    <3>2. h[i] = at[i]
      BY <2>6, <3>1
    <3>3. CASE i = 1
      BY <2>1, <2>5, <3>2, <3>3
    <3>4. CASE i # 1
      <4>1. i - 1 # 0
        BY <3>4, SMT
      <4>2. h[i - 1] = at[i - 1]
        BY <2>6, <3>1, <4>1
      <4> QED
        BY <1>8, <2>5, <2>8, <3>2, <3>4, <4>2
    <3> QED
      BY <3>3, <3>4
  <2>9. GoAlike(n, h, c)
    BY <2>7, <2>8 DEF GoAlike
  <2>10. n \in 0 .. n
    BY SMT
  <2>11. h[n] = c[n]
    BY <2>9, <2>10, Stepwise
  <2> QED
    BY <1>9, <1>11, <2>4, <2>6, <2>10, <2>11
<1> QED
  BY <1>10, <1>11

-----------------------------------------------------------------------------
(* What is written is read.                                                *)

\* What reading has come to.
State(l, e, s) == [left |-> l, got |-> e, state |-> s]

Reading(l, e) == State(l, e, "reading")

LEMMA StateIs ==
  \A l, e, s : State(l, e, s).left = l /\ State(l, e, s).got = e /\ State(l, e, s).state = s
BY DEF State

LEMMA GotUpdated ==
  \A l, e, s, h : [State(l, e, s) EXCEPT !.got = h] = State(l, h, s)
<1> TAKE l, e, s, h
<1> DEFINE N == {"left", "got", "state"}
           a == [State(l, e, s) EXCEPT !.got = h]
           b == State(l, h, s)
<1>1. a = [x \in N |-> a[x]] /\ b = [x \in N |-> b[x]]
  BY Zenon DEF State
<1>2. a["left"] = b["left"] /\ a["got"] = b["got"] /\ a["state"] = b["state"]
  BY DEF State
<1>3. \A x \in N : a[x] = b[x]
  BY <1>2
<1> QED
  BY <1>1, <1>3, Zenon

LEMMA StateUpdated ==
  \A l, e, s, h : [State(l, e, s) EXCEPT !.state = h] = State(l, e, h)
<1> TAKE l, e, s, h
<1> DEFINE N == {"left", "got", "state"}
           a == [State(l, e, s) EXCEPT !.state = h]
           b == State(l, e, h)
<1>1. a = [x \in N |-> a[x]] /\ b = [x \in N |-> b[x]]
  BY Zenon DEF State
<1>2. a["left"] = b["left"] /\ a["got"] = b["got"] /\ a["state"] = b["state"]
  BY DEF State
<1>3. \A x \in N : a[x] = b[x]
  BY <1>2
<1> QED
  BY <1>1, <1>3, Zenon

LEMMA FailsIs == \A l, e, s : Fails(State(l, e, s)) = State(l, e, "failed")
BY StateUpdated DEF Fails

LEMMA PutAny ==
  ASSUME NEW l, NEW e, NEW s, NEW n, NEW x, NEW v
  PROVE  Put(State(l, e, s), n, x, v) = State(SubSeq(l, n + 1, Len(l)), With(e, x, v), s)
<1> DEFINE m == SubSeq(l, n + 1, Len(l))
           h == With(e, x, v)
<1>1. Skip(State(l, e, s), n) = m
  BY StateIs DEF Skip
<1>2. With(State(l, e, s).got, x, v) = h
  BY StateIs
<1> HIDE DEF m, h
<1>3. Put(State(l, e, s), n, x, v) = [State(l, e, s) EXCEPT !.left = m, !.got = h]
  BY <1>1, <1>2 DEF Put
<1>4. [State(l, e, s) EXCEPT !.left = m, !.got = h] = State(m, h, s)
  <2> DEFINE N == {"left", "got", "state"}
             a == [State(l, e, s) EXCEPT !.left = m, !.got = h]
             b == State(m, h, s)
  <2>1. a = [y \in N |-> a[y]] /\ b = [y \in N |-> b[y]]
    BY Zenon DEF State
  <2>2. a["left"] = b["left"] /\ a["got"] = b["got"] /\ a["state"] = b["state"]
    BY DEF State
  <2>3. \A y \in N : a[y] = b[y]
    BY <2>2
  <2> QED
    BY <2>1, <2>3, Zenon
<1> QED
  BY <1>3, <1>4 DEF m, h

\* A number that its width holds, a string whose length two bytes hold.
Fits(f, v) ==
  \/ f.kind = "number" /\ f.width \in Nat /\ v \in 0 .. Power(f.width) - 1
  \/ f.kind = "string" /\ v \in Seq(Bytes) /\ Len(v) < Power(2)

LEMMA PutIs ==
  ASSUME NEW a \in Seq(Bytes), NEW b \in Seq(Bytes), NEW seen, NEW x, NEW v
  PROVE  Put(Reading(a \o b, seen), Len(a), x, v) = Reading(b, With(seen, x, v))
<1> DEFINE c == a \o b
           n == Len(a)
<1>1. SubSeq(c, n + 1, Len(c)) = b
  BY TakeSkip
<1> HIDE DEF c, n
<1>2. Put(State(c, seen, "reading"), n, x, v) = State(b, With(seen, x, v), "reading")
  <2>1. Put(State(c, seen, "reading"), n, x, v)
        = State(SubSeq(c, n + 1, Len(c)), With(seen, x, v), "reading")
    BY PutAny
  <2> QED
    BY <1>1, <2>1
<1>3. Put(Reading(c, seen), n, x, v) = Reading(b, With(seen, x, v))
  BY <1>2, Zenon DEF Reading
<1> QED
  BY <1>3 DEF c, n

LEMMA ReadingIs ==
  \A l, e : Reading(l, e).left = l /\ Reading(l, e).got = e /\ Reading(l, e).state = "reading"
BY StateIs DEF Reading

\* How a number and a string are read.
LEMMA ReadNumber ==
  ASSUME NEW f, f.kind = "number", NEW l, NEW e, ~(Len(l) < f.width)
  PROVE  ReadField(Reading(l, e), f)
         = Put(Reading(l, e), f.width, f.name, Number(SubSeq(l, 1, f.width)))
<1> DEFINE st == Reading(l, e)
<1>1. st.left = l /\ st.state # "failed" /\ Take(st, f.width) = SubSeq(l, 1, f.width)
  BY ReadingIs DEF Take
<1> HIDE DEF st
<1>2. ReadField(st, f) = Put(st, f.width, f.name, Number(SubSeq(l, 1, f.width)))
  BY <1>1 DEF ReadField
<1> QED
  BY <1>2 DEF st

LEMMA ReadText ==
  ASSUME NEW f, f.kind = "string", NEW l, NEW e, ~(Len(l) < 2),
         NEW n, n = Number(SubSeq(l, 1, 2)), ~(Len(l) < 2 + n)
  PROVE  ReadField(Reading(l, e), f)
         = Put(Reading(l, e), 2 + n, f.name, SubSeq(l, 2 + 1, 2 + n))
<1> DEFINE st == Reading(l, e)
<1>1. st.left = l /\ st.state # "failed" /\ Take(st, 2) = SubSeq(l, 1, 2)
  BY ReadingIs DEF Take
<1> HIDE DEF st
<1>2. ReadField(st, f) = Put(st, 2 + n, f.name, SubSeq(l, 2 + 1, 2 + n))
  BY <1>1 DEF ReadField
<1> QED
  BY <1>2 DEF st

LEMMA ReadFieldIs ==
  ASSUME NEW f, NEW v, Fits(f, v), NEW rest \in Seq(Bytes), NEW seen
  PROVE  /\ WriteField(f, v) \in Seq(Bytes)
         /\ ReadField(Reading(WriteField(f, v) \o rest, seen), f)
            = Reading(rest, With(seen, f.name, v))
<1>1. CASE f.kind = "number" /\ f.width \in Nat /\ v \in 0 .. Power(f.width) - 1
  <2> DEFINE w == f.width
             d == Digits(v, w)
             l == d \o rest
  <2>1. v \in Nat
    BY <1>1, PowerIs, SMT
  <2>2. d \in Seq(Bytes) /\ Len(d) = w
    BY <1>1, <2>1, DigitsAre
  <2>3. Number(d) = v
    BY <1>1, NumberOfDigits
  <2>4. WriteField(f, v) = d
    BY <1>1 DEF WriteField
  <2> HIDE DEF d
  <2>5. Len(l) = w + Len(rest) /\ Len(rest) \in Nat /\ SubSeq(l, 1, w) = d
    BY <2>2, TakeSkip
  <2>6. ~(Len(l) < w)
    BY <1>1, <2>5, SMT
  <2>7. Put(Reading(l, seen), w, f.name, v) = Reading(rest, With(seen, f.name, v))
    BY <2>2, PutIs
  <2> HIDE DEF l
  <2>8. ReadField(Reading(l, seen), f) = Put(Reading(l, seen), w, f.name, v)
    BY <1>1, <2>3, <2>5, <2>6, ReadNumber
  <2> QED
    BY <2>2, <2>4, <2>7, <2>8 DEF l
<1>2. CASE f.kind = "string" /\ v \in Seq(Bytes) /\ Len(v) < Power(2)
  <2> DEFINE n == Len(v)
             d == Digits(n, 2)
             c == d \o v
             l == c \o rest
  <2>1. n \in Nat /\ n \in 0 .. Power(2) - 1 /\ 2 \in Nat
    <3>1. n \in Nat /\ 2 \in Nat /\ Power(2) \in Nat
      BY <1>2, LenProperties, PowerIs
    <3> QED
      BY <1>2, <3>1, SMT
  <2>2. d \in Seq(Bytes) /\ Len(d) = 2
    BY <2>1, DigitsAre
  <2>3. Number(d) = n
    BY <2>1, NumberOfDigits
  <2>4. WriteField(f, v) = c
    BY <1>2 DEF WriteField
  <2> HIDE DEF d
  <2>5. c \in Seq(Bytes) /\ Len(c) = 2 + n /\ v \o rest \in Seq(Bytes)
    BY <1>2, <2>2, TakeSkip
  <2>6. l = d \o (v \o rest)
    BY <1>2, <2>2, Regroup
  <2>7. SubSeq(d \o (v \o rest), 1, Len(d)) = d
    BY <2>2, <2>5, TakeSkip
  <2>8. SubSeq(l, 1, 2) = d
    BY <2>2, <2>6, <2>7
  <2> HIDE DEF c
  <2>9. Len(l) = 2 + n + Len(rest) /\ Len(rest) \in Nat /\ l \in Seq(Bytes)
    <3>1. Len(l) = Len(c) + Len(rest) /\ Len(rest) \in Nat /\ l \in Seq(Bytes)
      BY <2>5, TakeSkip
    <3> QED
      BY <2>5, <3>1
  <2>10. ~(Len(l) < 2) /\ ~(Len(l) < 2 + n)
    BY <2>1, <2>9, SMT
  <2>11. SubSeq(l, 2 + 1, 2 + n) = v
    <3>1. SubSeq(l, 2 + 1, 2 + n) = SubSeq(c, 2 + 1, 2 + n)
      <4>1. CASE n = 0
        <5>1. 2 + n < 2 + 1 /\ 2 + n \in Int /\ 2 + 1 \in Int
          BY <4>1
        <5> QED
          BY <5>1, SubSeqEmpty
      <4>2. CASE n # 0
        <5>1. 2 + 1 \in 1 .. Len(c) /\ 2 + n \in 1 .. Len(c)
          BY <2>1, <2>5, <4>2, SMT
        <5> QED
          BY <2>5, <5>1, SubSeqOfConcat1
      <4> QED
        BY <4>1, <4>2
    <3>2. SubSeq(c, Len(d) + 1, Len(c)) = v
      BY <1>2, <2>2, TakeSkip DEF c
    <3> QED
      BY <2>2, <2>5, <3>1, <3>2
  <2>12. Put(Reading(l, seen), 2 + n, f.name, v) = Reading(rest, With(seen, f.name, v))
    BY <2>5, PutIs
  <2> HIDE DEF l
  <2>13. ReadField(Reading(l, seen), f) = Put(Reading(l, seen), 2 + n, f.name, v)
    <3>1. n = Number(SubSeq(l, 1, 2))
      BY <2>3, <2>8
    <3> QED
      BY <1>2, <2>10, <2>11, <3>1, ReadText
  <2> QED
    BY <2>4, <2>5, <2>12, <2>13 DEF l
<1> QED
  BY <1>1, <1>2 DEF Fits

-----------------------------------------------------------------------------
(* Fields one after the other.                                             *)

\* s[i] is the state when the first i of n pieces have been read, each of which is the
\* value in e of the field named names[i].
Walks(s, pieces, n, names, e, rest) ==
  /\ s[0] = Reading(FlattenSeq(pieces) \o rest, Nothing)
  /\ \A i \in 1 .. n : \E t \in Seq(Bytes) : \E seen :
       /\ s[i - 1] = Reading(pieces[i] \o t, seen)
       /\ s[i] = Reading(t, With(seen, names[i], e[names[i]]))
  /\ s[n] = Reading(rest, [x \in {names[i] : i \in 1 .. n} |-> e[x]])

LEMMA WalkExists ==
  ASSUME NEW n \in Nat, NEW pieces, pieces = [i \in 1 .. n |-> pieces[i]],
         \A i \in 1 .. n : pieces[i] \in Seq(Bytes), NEW names, NEW e, NEW rest \in Seq(Bytes)
  PROVE  FlattenSeq(pieces) \in Seq(Bytes) /\ \E s : Walks(s, pieces, n, names, e, rest)
<1>1. PICK r : Rests(pieces, n, r)
  BY RestsExist
<1>2. /\ \A i \in 1 .. n + 1 : r[i] \in Seq(Bytes)
      /\ r[n + 1] = <<>>
      /\ \A i \in 1 .. n : r[i] = pieces[i] \o r[i + 1]
  BY <1>1 DEF Rests
<1>3. FlattenSeq(pieces) = r[1]
  BY <1>1, FlattenIs
<1>4. 1 \in 1 .. n + 1 /\ 0 \in 0 .. n /\ n \in 0 .. n /\ 0 + 1 = 1 /\ 1 .. 0 = {}
  BY SMT
<1> DEFINE Seen(i) == [x \in {names[j] : j \in 1 .. i} |-> e[x]]
           s == [i \in 0 .. n |-> Reading(r[i + 1] \o rest, Seen(i))]
<1>5. \A i \in 0 .. n : s[i] = Reading(r[i + 1] \o rest, Seen(i))
  OBVIOUS
<1>6. Seen(0) = Nothing
  BY <1>4 DEF Nothing
<1>7. ASSUME NEW i \in 1 .. n PROVE With(Seen(i - 1), names[i], e[names[i]]) = Seen(i)
  <2> DEFINE N == {names[j] : j \in 1 .. i - 1}
             M == {names[j] : j \in 1 .. i}
  <2>1. N \cup {names[i]} = M
    <3>1. i \in 1 .. i /\ \A j : j \in 1 .. i <=> j \in 1 .. i - 1 \/ j = i
      BY SMT
    <3> QED
      BY <3>1
  <2>2. DOMAIN Seen(i - 1) = N /\ \A x \in N : Seen(i - 1)[x] = e[x]
    OBVIOUS
  <2> HIDE DEF N, M
  <2>3. With(Seen(i - 1), names[i], e[names[i]]) = [x \in M |-> e[x]]
    BY <2>1, <2>2 DEF With
  <2> QED
    BY <2>3 DEF M
<1> HIDE DEF s, Seen
<1>8. s[0] = Reading(FlattenSeq(pieces) \o rest, Nothing)
  BY <1>3, <1>4, <1>5, <1>6
<1>9. ASSUME NEW i \in 1 .. n
      PROVE  \E t \in Seq(Bytes) : \E seen :
               /\ s[i - 1] = Reading(pieces[i] \o t, seen)
               /\ s[i] = Reading(t, With(seen, names[i], e[names[i]]))
  <2> DEFINE t == r[i + 1] \o rest
  <2>1. i - 1 \in 0 .. n /\ i \in 0 .. n /\ (i - 1) + 1 = i /\ i + 1 \in 1 .. n + 1
    BY SMT
  <2>2. pieces[i] \in Seq(Bytes) /\ r[i + 1] \in Seq(Bytes)
    BY <1>2, <2>1
  <2>3. t \in Seq(Bytes)
    BY <2>2, TakeSkip
  <2>4. (pieces[i] \o r[i + 1]) \o rest = pieces[i] \o t
    BY <2>2, Regroup
  <2>5. r[i] = pieces[i] \o r[i + 1]
    BY <1>2
  <2>6. s[i - 1] = Reading(pieces[i] \o t, Seen(i - 1))
    BY <1>5, <2>1, <2>4, <2>5
  <2>7. s[i] = Reading(t, With(Seen(i - 1), names[i], e[names[i]]))
    BY <1>5, <1>7, <2>1
  <2> QED
    BY <2>3, <2>6, <2>7
<1>10. s[n] = Reading(rest, [x \in {names[i] : i \in 1 .. n} |-> e[x]])
  <2>1. r[n + 1] \o rest = rest
    BY <1>2, ConcatEmptySeq
  <2> QED
    BY <1>4, <1>5, <2>1 DEF Seen
<1>11. Walks(s, pieces, n, names, e, rest)
  BY <1>8, <1>9, <1>10 DEF Walks
<1> QED
  BY <1>2, <1>3, <1>4, <1>11

\* How ReadFields goes from field to field.
GoesThrough(s, st, fields, n) ==
  s[0] = st /\ \A i \in 1 .. n : s[i] = ReadField(s[i - 1], fields[i])

LEMMA ReadFieldsUpTo ==
  ASSUME NEW n \in Nat, NEW st, NEW fields, Len(fields) = n, NEW s, GoesThrough(s, st, fields, n)
  PROVE  ReadFields(st, fields) = s[n]
<1> DEFINE Step(x) == [i \in 0 .. n |-> IF i = 0 THEN st ELSE ReadField(x[i - 1], fields[i])]
           f == CHOOSE x : x = Step(x)
           g == [i \in 0 .. n |-> s[i]]
<1>0. s[0] = st /\ \A i \in 1 .. n : s[i] = ReadField(s[i - 1], fields[i])
  BY DEF GoesThrough
<1>1. g = Step(g)
  <2>1. ASSUME NEW i \in 0 .. n PROVE g[i] = IF i = 0 THEN st ELSE ReadField(g[i - 1], fields[i])
    <3>1. CASE i = 0
      BY <1>0, <3>1
    <3>2. CASE i # 0
      <4>1. i \in 1 .. n /\ i - 1 \in 0 .. n
        BY <3>2, SMT
      <4> QED
        BY <1>0, <3>2, <4>1
    <3> QED
      BY <3>1, <3>2
  <2> QED
    BY <2>1
<1>2. f = Step(f)
  <2> HIDE DEF Step, g
  <2> QED
    BY <1>1
<1>3. ReadFields(st, fields) = f[n]
  BY DEF ReadFields
<1> HIDE DEF f
<1>4. f[0] = st /\ \A i \in 1 .. n : f[i] = ReadField(f[i - 1], fields[i])
  <2>1. \A i \in 0 .. n : f[i] = IF i = 0 THEN st ELSE ReadField(f[i - 1], fields[i])
    BY <1>2
  <2>2. 0 \in 0 .. n /\ \A i \in 1 .. n : i \in 0 .. n /\ i # 0
    BY SMT
  <2> QED
    BY <2>1, <2>2
<1>5. \A i \in 0 .. n : f[i] = s[i]
  <2>1. ASSUME NEW i \in 1 .. n, f[i - 1] = s[i - 1] PROVE f[i] = s[i]
    BY <1>0, <1>4, <2>1
  <2>2. f[0] = s[0]
    BY <1>0, <1>4
  <2>3. GoAlike(n, f, s)
    BY <2>1, <2>2 DEF GoAlike
  <2> QED
    BY <2>3, Stepwise
<1>6. n \in 0 .. n
  BY SMT
<1> QED
  BY <1>3, <1>5, <1>6

\* The n fields fit the values e gives them.
FieldsFit(fields, n, e) ==
  /\ fields = [i \in 1 .. n |-> fields[i]]
  /\ \A i \in 1 .. n : Fits(fields[i], e[fields[i].name])

LEMMA ReadFieldsIs ==
  ASSUME NEW n \in Nat, NEW fields, NEW e, FieldsFit(fields, n, e), NEW rest \in Seq(Bytes)
  PROVE  /\ WriteFields(fields, e) \in Seq(Bytes)
         /\ ReadFields(Reading(WriteFields(fields, e) \o rest, Nothing), fields)
            = Reading(rest, [x \in Fields(fields) |-> e[x]])
<1> DEFINE pieces == [i \in 1 .. n |-> WriteField(fields[i], e[fields[i].name])]
           names == [i \in 1 .. n |-> fields[i].name]
<1>1. /\ fields = [i \in 1 .. n |-> fields[i]] /\ DOMAIN fields = 1 .. n
      /\ \A i \in 1 .. n : Fits(fields[i], e[fields[i].name])
  BY Zenon DEF FieldsFit
<1>2. Len(fields) = n
  BY <1>1, SMT
<1>3. WriteFields(fields, e) = FlattenSeq(pieces)
  BY <1>1 DEF WriteFields
<1>4. \A i \in 1 .. n : pieces[i] = WriteField(fields[i], e[fields[i].name]) /\ names[i] = fields[i].name
  OBVIOUS
<1>5. pieces = [i \in 1 .. n |-> pieces[i]] /\ \A i \in 1 .. n : pieces[i] \in Seq(Bytes)
  <2>1. <<>> \in Seq(Bytes)
    BY EmptySeq
  <2>2. ASSUME NEW i \in 1 .. n PROVE pieces[i] \in Seq(Bytes)
    BY <1>1, <1>4, <2>1, ReadFieldIs
  <2> QED
    BY <2>2
<1> HIDE DEF pieces, names
<1>6. FlattenSeq(pieces) \in Seq(Bytes) /\ \E s : Walks(s, pieces, n, names, e, rest)
  BY <1>5, WalkExists
<1>7. PICK s : Walks(s, pieces, n, names, e, rest)
  BY <1>6
<1> DEFINE st == Reading(FlattenSeq(pieces) \o rest, Nothing)
<1>8. GoesThrough(s, st, fields, n)
  <2>1. s[0] = st
    BY <1>7 DEF Walks
  <2>2. ASSUME NEW i \in 1 .. n PROVE s[i] = ReadField(s[i - 1], fields[i])
    <3> DEFINE v == e[fields[i].name]
    <3>0. PICK t \in Seq(Bytes) : \E seen :
            /\ s[i - 1] = Reading(pieces[i] \o t, seen)
            /\ s[i] = Reading(t, With(seen, names[i], e[names[i]]))
      BY <1>7 DEF Walks
    <3>1. PICK seen :
            /\ s[i - 1] = Reading(pieces[i] \o t, seen)
            /\ s[i] = Reading(t, With(seen, names[i], e[names[i]]))
      BY <3>0
    <3>2. Fits(fields[i], v)
      BY <1>1
    <3> HIDE DEF v
    <3>3. ReadField(Reading(WriteField(fields[i], v) \o t, seen), fields[i])
          = Reading(t, With(seen, fields[i].name, v))
      BY <3>2, ReadFieldIs
    <3> QED
      BY <1>4, <3>1, <3>3 DEF v
  <2> HIDE DEF st
  <2> QED
    BY <2>1, <2>2 DEF GoesThrough
<1>9. ReadFields(st, fields) = s[n]
  <2> HIDE DEF st
  <2> QED
    BY <1>2, <1>8, ReadFieldsUpTo
<1>10. {names[i] : i \in 1 .. n} = Fields(fields)
  BY <1>1, <1>4 DEF Fields
<1>11. s[n] = Reading(rest, [x \in {names[i] : i \in 1 .. n} |-> e[x]])
  BY <1>7 DEF Walks
<1> QED
  BY <1>3, <1>6, <1>9, <1>10, <1>11

-----------------------------------------------------------------------------
(* Lists.                                                                  *)

LEMMA Appended ==
  ASSUME NEW seen, NEW x, NEW u, NEW w
  PROVE  [With(seen, x, u) EXCEPT ![x] = w] = With(seen, x, w)
<1> DEFINE N == DOMAIN seen \cup {x}
<1>1. With(seen, x, u) = [y \in N |-> IF y = x THEN u ELSE seen[y]]
      /\ With(seen, x, w) = [y \in N |-> IF y = x THEN w ELSE seen[y]] /\ x \in N
  BY DEF With
<1> HIDE DEF N
<1> QED
  BY <1>1

\* An element d of the list f: its fields, and nothing else, have values that fit.
ElementFits(f, d) ==
  /\ Len(f.fields) \in Nat /\ FieldsFit(f.fields, Len(f.fields), d)
  /\ d = [x \in Fields(f.fields) |-> d[x]]

LEMMA ElementWritten ==
  ASSUME NEW f, NEW d, ElementFits(f, d)
  PROVE  WriteFields(f.fields, d) \in Seq(Bytes)
<1>1. Len(f.fields) \in Nat /\ FieldsFit(f.fields, Len(f.fields), d) /\ <<>> \in Seq(Bytes)
  BY EmptySeq DEF ElementFits
<1> QED
  BY <1>1, ReadFieldsIs

Extends(w, u, d) == w = Append(u, d)

\* An element is read and appended.
LEMMA ReadElementIs ==
  ASSUME NEW f, NEW d, ElementFits(f, d), NEW t \in Seq(Bytes), NEW seen,
         NEW u, NEW w, Extends(w, u, d)
  PROVE  /\ WriteFields(f.fields, d) \in Seq(Bytes)
         /\ ReadElement(Reading(WriteFields(f.fields, d) \o t, With(seen, f.name, u)), f)
            = Reading(t, With(seen, f.name, w))
<1> DEFINE l == WriteFields(f.fields, d) \o t
           g == With(seen, f.name, u)
           h == With(seen, f.name, w)
           st == Reading(l, g)
           fields == f.fields
<1>0. /\ Len(fields) \in Nat /\ FieldsFit(fields, Len(fields), d)
      /\ d = [x \in Fields(fields) |-> d[x]]
  BY DEF ElementFits
<1>1. /\ WriteFields(fields, d) \in Seq(Bytes)
      /\ ReadFields(Reading(l, Nothing), fields) = Reading(t, d)
  <2> DEFINE n == Len(fields)
  <2>1. n \in Nat /\ FieldsFit(fields, n, d) /\ d = [x \in Fields(fields) |-> d[x]]
    BY <1>0
  <2> HIDE DEF n, fields
  <2>2. /\ WriteFields(fields, d) \in Seq(Bytes)
        /\ ReadFields(Reading(WriteFields(fields, d) \o t, Nothing), fields)
           = Reading(t, [x \in Fields(fields) |-> d[x]])
    BY <2>1, ReadFieldsIs
  <2>3. [x \in Fields(fields) |-> d[x]] = d
    BY <2>1
  <2> QED
    BY <2>2, <2>3 DEF fields
<1>2. [st EXCEPT !.got = Nothing] = Reading(l, Nothing)
  <2> HIDE DEF l, g
  <2> QED
    BY GotUpdated DEF Reading
<1>3. st.got = g
  BY ReadingIs
<1>4. g[f.name] = u
  BY DEF With
<1>5. [g EXCEPT ![f.name] = w] = h
  <2> DEFINE x == f.name
  <2> HIDE DEF x
  <2>1. [With(seen, x, u) EXCEPT ![x] = w] = With(seen, x, w)
    BY Appended
  <2> QED
    BY <2>1 DEF x
<1> HIDE DEF l, g, h, st, fields
<1>6. ReadFields([st EXCEPT !.got = Nothing], f.fields) = Reading(t, d)
  BY <1>1, <1>2 DEF fields
<1>7. Reading(t, d).got = d
  BY ReadingIs
<1>8. ReadElement(st, f) = [Reading(t, d) EXCEPT !.got = h]
  BY <1>3, <1>4, <1>5, <1>6, <1>7 DEF ReadElement, Extends
<1>9. [Reading(t, d) EXCEPT !.got = h] = Reading(t, h)
  BY GotUpdated DEF Reading
<1> QED
  BY <1>1, <1>8, <1>9 DEF l, g, h, st, fields

\* How ReadList goes from element to element.
GoesOn(s, st, f, n) ==
  s[0] = Put(st, 2, f.name, <<>>) /\ \A i \in 1 .. n : s[i] = ReadElement(s[i - 1], f)

LEMMA ReadListUpTo ==
  ASSUME NEW n \in Nat, NEW f, NEW l, NEW e, NEW st, st = Reading(l, e), ~(Len(l) < 2),
         n = Number(SubSeq(l, 1, 2)), ~(n >= Power(f.width)), NEW s, GoesOn(s, st, f, n)
  PROVE  ReadList(st, f) = s[n]
<1> DEFINE Step(x) == [i \in 0 .. n |->
                         IF i = 0 THEN Put(st, 2, f.name, <<>>) ELSE ReadElement(x[i - 1], f)]
           c == CHOOSE x : x = Step(x)
           g == [i \in 0 .. n |-> s[i]]
<1>0. s[0] = Put(st, 2, f.name, <<>>) /\ \A i \in 1 .. n : s[i] = ReadElement(s[i - 1], f)
  BY DEF GoesOn
<1>1. g = Step(g)
  <2>1. ASSUME NEW i \in 0 .. n
        PROVE  g[i] = IF i = 0 THEN Put(st, 2, f.name, <<>>) ELSE ReadElement(g[i - 1], f)
    <3>1. CASE i = 0
      BY <1>0, <3>1
    <3>2. CASE i # 0
      <4>1. i \in 1 .. n /\ i - 1 \in 0 .. n
        BY <3>2, SMT
      <4> QED
        BY <1>0, <3>2, <4>1
    <3> QED
      BY <3>1, <3>2
  <2> QED
    BY <2>1
<1>2. c = Step(c)
  <2> HIDE DEF Step, g
  <2> QED
    BY <1>1
<1>3. ReadList(st, f) = c[n]
  <2>1. st.left = l /\ st.state # "failed" /\ Take(st, 2) = SubSeq(l, 1, 2)
    BY ReadingIs DEF Take
  <2> QED
    BY <2>1 DEF ReadList
<1> HIDE DEF c
<1>4. c[0] = Put(st, 2, f.name, <<>>) /\ \A i \in 1 .. n : c[i] = ReadElement(c[i - 1], f)
  <2>1. \A i \in 0 .. n : c[i] = IF i = 0 THEN Put(st, 2, f.name, <<>>) ELSE ReadElement(c[i - 1], f)
    BY <1>2
  <2>2. 0 \in 0 .. n /\ \A i \in 1 .. n : i \in 0 .. n /\ i # 0
    BY SMT
  <2> QED
    BY <2>1, <2>2
<1>5. \A i \in 0 .. n : c[i] = s[i]
  <2>1. ASSUME NEW i \in 1 .. n, c[i - 1] = s[i - 1] PROVE c[i] = s[i]
    BY <1>0, <1>4, <2>1
  <2>2. c[0] = s[0]
    BY <1>0, <1>4
  <2>3. GoAlike(n, c, s)
    BY <2>1, <2>2 DEF GoAlike
  <2> QED
    BY <2>3, Stepwise
<1>6. n \in 0 .. n
  BY SMT
<1> QED
  BY <1>3, <1>5, <1>6

\* A list whose length two bytes hold and whose elements fit its fields.
ListFits(f, v) ==
  /\ f.kind = "list" /\ f.width \in Nat
  /\ Len(v) \in Nat /\ v = [j \in 1 .. Len(v) |-> v[j]] /\ Len(v) < Power(2)
  /\ \A j \in 1 .. Len(v) : ElementFits(f, v[j])

\* The elements, written.
Pieces(f, v) == [j \in 1 .. Len(v) |-> WriteFields(f.fields, v[j])]

LEMMA WriteListIs ==
  ASSUME NEW f, NEW v, ListFits(f, v)
  PROVE  /\ WriteItem(f, v) = Digits(Len(v), 2) \o FlattenSeq(Pieces(f, v))
         /\ WriteItem(f, v) \in Seq(Bytes) /\ FlattenSeq(Pieces(f, v)) \in Seq(Bytes)
         /\ Digits(Len(v), 2) \in Seq(Bytes) /\ Len(Digits(Len(v), 2)) = 2
         /\ \A j \in 1 .. Len(v) :
              /\ Pieces(f, v)[j] = WriteFields(f.fields, v[j])
              /\ Pieces(f, v)[j] \in Seq(Bytes)
<1> DEFINE n == Len(v)
           pieces == Pieces(f, v)
<1>0. pieces = [j \in 1 .. n |-> WriteFields(f.fields, v[j])]
  BY DEF Pieces
<1> HIDE DEF pieces
<1>1. /\ f.kind = "list" /\ n \in Nat /\ v = [j \in 1 .. n |-> v[j]] /\ DOMAIN v = 1 .. n
      /\ \A j \in 1 .. n : ElementFits(f, v[j])
  BY Zenon DEF ListFits
<1>2. <<>> \in Seq(Bytes) /\ 2 \in Nat
  BY EmptySeq
<1>3. ASSUME NEW j \in 1 .. n PROVE pieces[j] = WriteFields(f.fields, v[j]) /\ pieces[j] \in Seq(Bytes)
  <2>1. WriteFields(f.fields, v[j]) \in Seq(Bytes)
    BY <1>1, ElementWritten
  <2> QED
    BY <1>0, <2>1
<1>4. WriteItem(f, v) = Digits(n, 2) \o FlattenSeq(pieces)
  BY <1>0, <1>1 DEF WriteItem
<1>5. FlattenSeq(pieces) \in Seq(Bytes)
  <2>1. pieces = [j \in 1 .. n |-> pieces[j]]
    BY <1>0
  <2>2. PICK r : Rests(pieces, n, r)
    BY <1>1, <1>3, RestsExist
  <2>3. FlattenSeq(pieces) = r[1]
    BY <1>1, <1>3, <2>1, <2>2, FlattenIs
  <2>4. 1 \in 1 .. n + 1
    BY <1>1, SMT
  <2> QED
    BY <2>2, <2>3, <2>4 DEF Rests
<1>6. Digits(n, 2) \in Seq(Bytes) /\ Len(Digits(n, 2)) = 2
  BY <1>1, <1>2, DigitsAre
<1>7. WriteItem(f, v) \in Seq(Bytes)
  <2> HIDE DEF n
  <2> QED
    BY <1>4, <1>5, <1>6, TakeSkip
<1> QED
  BY <1>3, <1>4, <1>5, <1>6, <1>7 DEF pieces

LEMMA ReadListIs ==
  ASSUME NEW f, NEW v, ListFits(f, v), Len(v) < Power(f.width), NEW rest \in Seq(Bytes), NEW seen
  PROVE  ReadList(Reading(WriteItem(f, v) \o rest, seen), f) = Reading(rest, With(seen, f.name, v))
<1> DEFINE n == Len(v)
           pieces == Pieces(f, v)
           d == Digits(n, 2)
           first(j) == [i \in 1 .. j |-> v[i]]
           l == WriteItem(f, v) \o rest
           st == Reading(l, seen)
<1>1. /\ f.width \in Nat /\ n \in Nat /\ v = [j \in 1 .. n |-> v[j]]
      /\ Len(v) < Power(2)
      /\ \A j \in 1 .. n : ElementFits(f, v[j])
  BY Zenon DEF ListFits
<1>2. /\ WriteItem(f, v) = d \o FlattenSeq(pieces)
      /\ FlattenSeq(pieces) \in Seq(Bytes) /\ d \in Seq(Bytes) /\ Len(d) = 2
      /\ \A j \in 1 .. n : pieces[j] = WriteFields(f.fields, v[j]) /\ pieces[j] \in Seq(Bytes)
  BY WriteListIs
<1>3. pieces = [j \in 1 .. n |-> pieces[j]]
  BY DEF Pieces
<1>4. Number(d) = n
  <2>1. 2 \in Nat /\ Power(2) \in Nat
    BY PowerIs
  <2>2. n \in 0 .. Power(2) - 1
    BY <1>1, <2>1, SMT
  <2> QED
    BY <2>1, <2>2, NumberOfDigits
<1>5. ~(n >= Power(f.width))
  BY <1>1, PowerIs, SMT
<1> HIDE DEF d, pieces
<1>6. PICK r : Rests(pieces, n, r)
  BY <1>1, <1>2, RestsExist
<1>7. /\ \A i \in 1 .. n + 1 : r[i] \in Seq(Bytes)
      /\ r[n + 1] = <<>>
      /\ \A i \in 1 .. n : r[i] = pieces[i] \o r[i + 1]
  BY <1>6 DEF Rests
<1>8. FlattenSeq(pieces) = r[1]
  BY <1>1, <1>2, <1>3, <1>6, FlattenIs
<1>9. 1 \in 1 .. n + 1 /\ 0 \in 0 .. n /\ n \in 0 .. n /\ 0 + 1 = 1
  BY <1>1, SMT
<1> DEFINE s == [j \in 0 .. n |-> Reading(r[j + 1] \o rest, With(seen, f.name, first(j)))]
<1>10. \A j \in 0 .. n : s[j] = Reading(r[j + 1] \o rest, With(seen, f.name, first(j)))
  OBVIOUS
<1>11. first(0) = <<>>
  <2>1. 1 .. 0 = {}
    BY SMT
  <2> QED
    BY <2>1, SMT
<1>12. first(n) = v
  BY <1>1, Zenon
<1>13. ASSUME NEW j \in 1 .. n PROVE Append(first(j - 1), v[j]) = first(j)
  <2> DEFINE S == {v[i] : i \in 1 .. n}
             a == first(j - 1)
             b == first(j)
  <2>1. j \in Nat /\ j - 1 \in Nat /\ (j - 1) + 1 = j /\ j \in 1 .. j
        /\ (\A i \in 1 .. j : i \in 1 .. n) /\ (\A i \in 1 .. j - 1 : i \in 1 .. n /\ i \in 1 .. j)
        /\ \A i \in 1 .. j : i # j => i \in 1 .. j - 1
    BY <1>1, SMT
  <2>2. a \in Seq(S) /\ Len(a) = j - 1 /\ b \in Seq(S) /\ Len(b) = j
    <3>1. a \in [1 .. j - 1 -> S] /\ b \in [1 .. j -> S]
      BY <2>1
    <3> QED
      BY <2>1, <3>1, SMT
  <2>3. v[j] \in S
    BY <2>1
  <2>4. (\A i \in 1 .. j - 1 : a[i] = v[i]) /\ \A i \in 1 .. j : b[i] = v[i]
    OBVIOUS
  <2> HIDE DEF S, a, b
  <2>5. /\ Append(a, v[j]) \in Seq(S) /\ Len(Append(a, v[j])) = (j - 1) + 1
        /\ \A i \in 1 .. j - 1 : Append(a, v[j])[i] = a[i]
        /\ Append(a, v[j])[(j - 1) + 1] = v[j]
    BY <2>2, <2>3, AppendProperties
  <2>6. \A i \in 1 .. j : Append(a, v[j])[i] = b[i]
    BY <2>1, <2>4, <2>5
  <2>7. Append(a, v[j]) = b
    BY <2>1, <2>2, <2>5, <2>6, SeqEqual
  <2> QED
    BY <2>7 DEF a, b
<1> HIDE DEF s, first
<1>14. l = d \o (r[1] \o rest) /\ r[1] \o rest \in Seq(Bytes)
  <2>1. r[1] \in Seq(Bytes)
    BY <1>7, <1>9
  <2> QED
    <3>1. (d \o r[1]) \o rest = d \o (r[1] \o rest)
      BY <1>2, <2>1, Regroup
    <3>2. r[1] \o rest \in Seq(Bytes)
      BY <2>1, TakeSkip
    <3> QED
      BY <1>2, <1>8, <3>1, <3>2
<1>15. s[0] = Put(st, 2, f.name, <<>>)
  <2> DEFINE b == r[1] \o rest
             w == <<>>
  <2>0. b \in Seq(Bytes)
    BY <1>14
  <2> HIDE DEF b, w
  <2>1. Put(Reading(d \o b, seen), Len(d), f.name, w) = Reading(b, With(seen, f.name, w))
    <3>1. d \in Seq(Bytes)
      BY <1>2
    <3> QED
      BY <2>0, <3>1, PutIs
  <2> QED
    BY <1>2, <1>9, <1>10, <1>11, <1>14, <2>1 DEF b, w
<1>16. ASSUME NEW j \in 1 .. n PROVE s[j] = ReadElement(s[j - 1], f)
  <2> DEFINE t == r[j + 1] \o rest
             u == first(j - 1)
             e == v[j]
             w == first(j)
  <2>1. j - 1 \in 0 .. n /\ j \in 0 .. n /\ (j - 1) + 1 = j /\ j + 1 \in 1 .. n + 1
    BY <1>1, SMT
  <2>2. pieces[j] \in Seq(Bytes) /\ r[j + 1] \in Seq(Bytes) /\ r[j] = pieces[j] \o r[j + 1]
    BY <1>2, <1>7, <2>1
  <2>3. t \in Seq(Bytes) /\ r[j] \o rest = pieces[j] \o t
    <3>1. t \in Seq(Bytes)
      BY <2>2, TakeSkip
    <3>2. (pieces[j] \o r[j + 1]) \o rest = pieces[j] \o t
      BY <2>2, Regroup
    <3> QED
      BY <2>2, <3>1, <3>2
  <2> HIDE DEF t, u, w
  <2>4. ElementFits(f, e)
    BY <1>1
  <2> HIDE DEF e
  <2>5. ReadElement(Reading(WriteFields(f.fields, e) \o t, With(seen, f.name, u)), f)
        = Reading(t, With(seen, f.name, w))
    <3>1. t \in Seq(Bytes) /\ Extends(w, u, e)
      BY <1>13, <2>3 DEF u, w, e, Extends
    <3> QED
      BY <2>4, <3>1, ReadElementIs
  <2>6. s[j - 1] = Reading(pieces[j] \o t, With(seen, f.name, u))
    BY <1>10, <2>1, <2>3 DEF u
  <2>7. s[j] = Reading(t, With(seen, f.name, w))
    BY <1>10, <2>1 DEF t, w
  <2> QED
    BY <1>2, <2>5, <2>6, <2>7 DEF e
<1>17. ReadList(st, f) = s[n]
  <2>1. GoesOn(s, st, f, n)
    BY <1>15, <1>16 DEF GoesOn
  <2> DEFINE b == r[1] \o rest
  <2> HIDE DEF l, b
  <2>2. l = d \o b /\ b \in Seq(Bytes)
    BY <1>14 DEF b
  <2>3. SubSeq(l, 1, 2) = d /\ Len(l) = 2 + Len(b) /\ Len(b) \in Nat
    BY <1>2, <2>2, TakeSkip
  <2>4. ~(Len(l) < 2)
    BY <2>3, SMT
  <2>5. n = Number(SubSeq(l, 1, 2))
    BY <1>4, <2>3
  <2> HIDE DEF n
  <2>6. st = Reading(l, seen)
    OBVIOUS
  <2> HIDE DEF st
  <2> QED
    BY <1>1, <1>5, <2>1, <2>4, <2>5, <2>6, ReadListUpTo
<1>18. s[n] = Reading(rest, With(seen, f.name, v))
  <2>1. r[n + 1] \o rest = rest
    BY <1>7, ConcatEmptySeq
  <2> QED
    BY <1>9, <1>10, <1>12, <2>1
<1> QED
  BY <1>17, <1>18

-----------------------------------------------------------------------------
(* Whole messages.                                                         *)

\* A value that is read as it was written.
Readable(f, v) == Fits(f, v) \/ (ListFits(f, v) /\ Len(v) < Power(f.width))

LEMMA ReadItemIs ==
  ASSUME NEW f, NEW v, Readable(f, v), NEW rest \in Seq(Bytes), NEW seen
  PROVE  /\ WriteItem(f, v) \in Seq(Bytes)
         /\ ReadItem(Reading(WriteItem(f, v) \o rest, seen), f)
            = Reading(rest, With(seen, f.name, v))
<1>1. CASE Fits(f, v)
  <2>1. f.kind # "list"
    BY <1>1 DEF Fits
  <2>2. WriteItem(f, v) = WriteField(f, v)
        /\ \A st : ReadItem(st, f) = ReadField(st, f)
    BY <2>1 DEF WriteItem, ReadItem
  <2>3. /\ WriteField(f, v) \in Seq(Bytes)
        /\ ReadField(Reading(WriteField(f, v) \o rest, seen), f)
           = Reading(rest, With(seen, f.name, v))
    BY <1>1, ReadFieldIs
  <2> QED
    BY <2>2, <2>3
<1>2. CASE ListFits(f, v) /\ Len(v) < Power(f.width)
  <2>1. f.kind = "list"
    BY <1>2 DEF ListFits
  <2>2. \A st : ReadItem(st, f) = ReadList(st, f)
    BY <2>1 DEF ReadItem
  <2>3. WriteItem(f, v) \in Seq(Bytes)
    BY <1>2, WriteListIs
  <2>4. ReadList(Reading(WriteItem(f, v) \o rest, seen), f) = Reading(rest, With(seen, f.name, v))
    BY <1>2, ReadListIs
  <2> QED
    BY <2>2, <2>3, <2>4
<1> QED
  BY <1>1, <1>2 DEF Readable

\* How Read goes from item to item.
GoesOver(s, st, fields, n) ==
  s[0] = st /\ \A i \in 1 .. n : s[i] = ReadItem(s[i - 1], fields[i])

LEMMA ReadUpTo ==
  ASSUME NEW n \in Nat, NEW fields, Len(fields) = n, NEW packet,
         NEW st, st = Reading(packet, Nothing), NEW s, GoesOver(s, st, fields, n)
  PROVE  Read(fields, packet) = s[n]
<1> DEFINE Step(x) == [i \in 0 .. n |-> IF i = 0 THEN st ELSE ReadItem(x[i - 1], fields[i])]
           f == CHOOSE x : x = Step(x)
           g == [i \in 0 .. n |-> s[i]]
<1>0. s[0] = st /\ \A i \in 1 .. n : s[i] = ReadItem(s[i - 1], fields[i])
  BY DEF GoesOver
<1>1. g = Step(g)
  <2>1. ASSUME NEW i \in 0 .. n PROVE g[i] = IF i = 0 THEN st ELSE ReadItem(g[i - 1], fields[i])
    <3>1. CASE i = 0
      BY <1>0, <3>1
    <3>2. CASE i # 0
      <4>1. i \in 1 .. n /\ i - 1 \in 0 .. n
        BY <3>2, SMT
      <4> QED
        BY <1>0, <3>2, <4>1
    <3> QED
      BY <3>1, <3>2
  <2> QED
    BY <2>1
<1>2. f = Step(f)
  <2> HIDE DEF Step, g
  <2> QED
    BY <1>1
<1>3. Read(fields, packet) = f[n]
  <2>1. [left |-> packet, got |-> Nothing, state |-> "reading"] = st
    BY DEF Reading, State
  <2> QED
    BY <2>1 DEF Read
<1> HIDE DEF f
<1>4. f[0] = st /\ \A i \in 1 .. n : f[i] = ReadItem(f[i - 1], fields[i])
  <2>1. \A i \in 0 .. n : f[i] = IF i = 0 THEN st ELSE ReadItem(f[i - 1], fields[i])
    BY <1>2
  <2>2. 0 \in 0 .. n /\ \A i \in 1 .. n : i \in 0 .. n /\ i # 0
    BY SMT
  <2> QED
    BY <2>1, <2>2
<1>5. \A i \in 0 .. n : f[i] = s[i]
  <2>1. ASSUME NEW i \in 1 .. n, f[i - 1] = s[i - 1] PROVE f[i] = s[i]
    BY <1>0, <1>4, <2>1
  <2>2. f[0] = s[0]
    BY <1>0, <1>4
  <2>3. GoAlike(n, f, s)
    BY <2>1, <2>2 DEF GoAlike
  <2> QED
    BY <2>3, Stepwise
<1>6. n \in 0 .. n
  BY SMT
<1> QED
  BY <1>3, <1>5, <1>6

\* The n fields of a layout have values in m that are read as they were written.
MessageFits(layout, n, m) ==
  /\ n \in Nat /\ layout = [i \in 1 .. n |-> layout[i]]
  /\ \A i \in 1 .. n : Readable(layout[i], m[layout[i].name])

\* What is written with a layout and read with the same layout is what it was: for every
\* layout and every message whose values fit their fields.
THEOREM RoundTrip ==
  ASSUME NEW layout, NEW n, NEW m, MessageFits(layout, n, m)
  PROVE  Read(layout, Write(layout, m)) = Reading(<<>>, [x \in Fields(layout) |-> m[x]])
<1> DEFINE pieces == [i \in 1 .. n |-> WriteItem(layout[i], m[layout[i].name])]
           names == [i \in 1 .. n |-> layout[i].name]
<1>1. /\ layout = [i \in 1 .. n |-> layout[i]] /\ DOMAIN layout = 1 .. n /\ n \in Nat
      /\ \A i \in 1 .. n : Readable(layout[i], m[layout[i].name])
  BY Zenon DEF MessageFits
<1>2. Len(layout) = n
  BY <1>1, SMT
<1>3. Write(layout, m) = FlattenSeq(pieces)
  BY <1>1 DEF Write
<1>4. \A i \in 1 .. n : pieces[i] = WriteItem(layout[i], m[layout[i].name]) /\ names[i] = layout[i].name
  OBVIOUS
<1>5. <<>> \in Seq(Bytes)
  BY EmptySeq
<1>6. pieces = [i \in 1 .. n |-> pieces[i]] /\ \A i \in 1 .. n : pieces[i] \in Seq(Bytes)
  <2>1. ASSUME NEW i \in 1 .. n PROVE pieces[i] \in Seq(Bytes)
    BY <1>1, <1>4, <1>5, ReadItemIs
  <2> QED
    BY <2>1
<1> HIDE DEF pieces, names
<1>7. FlattenSeq(pieces) \in Seq(Bytes) /\ \E s : Walks(s, pieces, n, names, m, <<>>)
  BY <1>1, <1>5, <1>6, WalkExists
<1>8. PICK s : Walks(s, pieces, n, names, m, <<>>)
  BY <1>7
<1> DEFINE packet == FlattenSeq(pieces)
           st == Reading(packet, Nothing)
<1>9. packet \o <<>> = packet
  BY <1>7, ConcatEmptySeq
<1>10. GoesOver(s, st, layout, n)
  <2>1. s[0] = st
    BY <1>8, <1>9 DEF Walks
  <2>2. ASSUME NEW i \in 1 .. n PROVE s[i] = ReadItem(s[i - 1], layout[i])
    <3> DEFINE v == m[layout[i].name]
    <3>0. PICK t \in Seq(Bytes) : \E seen :
            /\ s[i - 1] = Reading(pieces[i] \o t, seen)
            /\ s[i] = Reading(t, With(seen, names[i], m[names[i]]))
      BY <1>8 DEF Walks
    <3>1. PICK seen :
            /\ s[i - 1] = Reading(pieces[i] \o t, seen)
            /\ s[i] = Reading(t, With(seen, names[i], m[names[i]]))
      BY <3>0
    <3>2. Readable(layout[i], v)
      BY <1>1
    <3> HIDE DEF v
    <3>3. ReadItem(Reading(WriteItem(layout[i], v) \o t, seen), layout[i])
          = Reading(t, With(seen, layout[i].name, v))
      BY <3>2, ReadItemIs
    <3> QED
      BY <1>4, <3>1, <3>3 DEF v
  <2> HIDE DEF st
  <2> QED
    BY <2>1, <2>2 DEF GoesOver
<1>11. Read(layout, packet) = s[n]
  <2> HIDE DEF packet
  <2>1. st = Reading(packet, Nothing)
    OBVIOUS
  <2> HIDE DEF st
  <2> QED
    BY <1>1, <1>2, <1>10, <2>1, ReadUpTo
<1>12. {names[i] : i \in 1 .. n} = Fields(layout)
  BY <1>1, <1>4 DEF Fields
<1>13. s[n] = Reading(<<>>, [x \in {names[i] : i \in 1 .. n} |-> m[x]])
  BY <1>8 DEF Walks
<1> QED
  BY <1>3, <1>11, <1>12, <1>13

\* Once reading has failed it goes on failing.
Failed(packet) == State(packet, Nothing, "failed")

LEMMA StaysFailed == \A packet, f : ReadItem(Failed(packet), f) = Failed(packet)
<1> TAKE packet, f
<1>1. Failed(packet).state = "failed"
  BY StateIs DEF Failed
<1>2. Fails(Failed(packet)) = Failed(packet)
  BY FailsIs DEF Failed
<1> QED
  BY <1>1, <1>2 DEF ReadItem, ReadField, ReadList

LEMMA ReadFails ==
  ASSUME NEW layout, NEW n \in Nat \ {0}, Len(layout) = n, NEW packet,
         ReadItem(Reading(packet, Nothing), layout[1]) = Failed(packet)
  PROVE  Read(layout, packet).state = "failed"
<1> DEFINE st == Reading(packet, Nothing)
           s == [i \in 0 .. n |-> IF i = 0 THEN st ELSE Failed(packet)]
<1>1. 0 \in 0 .. n /\ n \in 0 .. n /\ n # 0
  BY SMT
<1>2. \A i \in 0 .. n : s[i] = IF i = 0 THEN st ELSE Failed(packet)
  OBVIOUS
<1> HIDE DEF s
<1>3. ASSUME NEW i \in 1 .. n PROVE s[i] = ReadItem(s[i - 1], layout[i])
  <2>1. i \in 0 .. n /\ i - 1 \in 0 .. n /\ i # 0 /\ (i - 1 = 0 <=> i = 1)
    BY SMT
  <2>2. CASE i = 1
    BY <1>2, <2>1, <2>2
  <2>3. CASE i # 1
    BY <1>2, <2>1, <2>3, StaysFailed
  <2> QED
    BY <2>2, <2>3
<1>4. GoesOver(s, st, layout, n)
  BY <1>1, <1>2, <1>3 DEF GoesOver
<1>5. Read(layout, packet) = s[n]
  BY <1>4, ReadUpTo
<1>6. s[n] = Failed(packet)
  BY <1>1, <1>2
<1> QED
  BY <1>5, <1>6, StateIs DEF Failed

\* A packet that ends within its first number is not read.
LEMMA ShortFails ==
  ASSUME NEW layout, NEW n \in Nat \ {0}, Len(layout) = n, layout[1].kind = "number",
         NEW packet, Len(packet) < layout[1].width
  PROVE  Read(layout, packet).state = "failed"
<1> DEFINE st == Reading(packet, Nothing)
           f == layout[1]
<1>1. st.left = packet
  BY ReadingIs
<1>2. Fails(st) = Failed(packet)
  BY FailsIs DEF Reading, Failed
<1> HIDE DEF st, f
<1>3. ReadItem(st, f) = Failed(packet)
  BY <1>1, <1>2 DEF ReadItem, ReadField, f
<1> QED
  BY <1>3, ReadFails DEF st, f

\* Neither is one whose first list has more elements than the index can count.
LEMMA LongFails ==
  ASSUME NEW layout, NEW n \in Nat \ {0}, Len(layout) = n, layout[1].kind = "list",
         NEW packet, Number(SubSeq(packet, 1, 2)) >= Power(layout[1].width)
  PROVE  Read(layout, packet).state = "failed"
<1> DEFINE st == Reading(packet, Nothing)
           f == layout[1]
<1>1. Take(st, 2) = SubSeq(packet, 1, 2)
  BY ReadingIs DEF Take
<1>2. Fails(st) = Failed(packet)
  BY FailsIs DEF Reading, Failed
<1> HIDE DEF st, f
<1>3. ReadItem(st, f) = Failed(packet)
  BY <1>1, <1>2 DEF ReadItem, ReadList, f
<1> QED
  BY <1>3, ReadFails DEF st, f

-----------------------------------------------------------------------------
(* The fields of the protocol: a name tells what the field is.             *)

Lists == {"queues", "agents", "msgs"}

Width(x) ==
  IF x \in {"flag", "score"} THEN 1
  ELSE IF x \in {"amount", "pos"} THEN 2
  ELSE IF x \in {"queue", "capacity", "addr", "user_addr", "wg"} THEN 4
  ELSE 8

FieldOf(x) ==
  IF x = "queues" THEN List(x, QUEUE_INFO, 1)
  ELSE IF x = "agents" THEN List(x, AGENT_INFO, 2)
  ELSE IF x = "msgs" THEN List(x, MSG_INFO, 2)
  ELSE IF x \in {"agent_name", "wg_name", "queue_name", "name", "text"} THEN Text(x)
  ELSE U(x, Width(x))

LEMMA FieldOfIs ==
  ASSUME NEW x
  PROVE  /\ FieldOf(x).name = x
         /\ x \in Lists => FieldOf(x).kind = "list" /\ FieldOf(x).width \in Nat
         /\ x \notin Lists =>
              \/ FieldOf(x).kind = "number" /\ FieldOf(x).width \in Nat
              \/ FieldOf(x).kind = "string"
<1>1. CASE x \in Lists
  BY <1>1 DEF FieldOf, List, Lists
<1>2. CASE x \notin Lists /\ x \in {"agent_name", "wg_name", "queue_name", "name", "text"}
  <2>1. FieldOf(x) = Text(x)
    BY <1>2 DEF FieldOf, Lists
  <2>2. Text(x).name = x /\ Text(x).kind = "string"
    BY DEF Text
  <2> QED
    BY <1>2, <2>1, <2>2
<1>3. CASE x \notin Lists /\ x \notin {"agent_name", "wg_name", "queue_name", "name", "text"}
  <2>1. FieldOf(x) = U(x, Width(x))
    BY <1>3 DEF FieldOf, Lists
  <2>2. \A w : U(x, w).name = x /\ U(x, w).kind = "number" /\ U(x, w).width = w
    BY DEF U
  <2>3. Width(x) \in Nat
    BY DEF Width
  <2> QED
    BY <1>3, <2>1, <2>2, <2>3
<1> QED
  BY <1>1, <1>2, <1>3

\* The fields of s are those named N, or in X.
LayoutOf(s, N, X) == s \in Seq({FieldOf(x) : x \in N} \cup X) /\ Fields(s) = N

Layout(s, N) == LayoutOf(s, N, {})

LEMMA LayoutConcat ==
  ASSUME NEW s, NEW N, NEW t, NEW M, NEW X, LayoutOf(s, N, X), LayoutOf(t, M, X)
  PROVE  LayoutOf(s \o t, N \cup M, X) /\ (Len(s) # 0 => Len(s \o t) # 0 /\ (s \o t)[1] = s[1])
<1> DEFINE S == {FieldOf(x) : x \in N \cup M} \cup X
           c == s \o t
<1>1. s \in Seq(S) /\ t \in Seq(S)
  <2>1. /\ {FieldOf(x) : x \in N} \cup X \subseteq S
        /\ {FieldOf(x) : x \in M} \cup X \subseteq S
    OBVIOUS
  <2>2. /\ s \in Seq({FieldOf(x) : x \in N} \cup X)
        /\ t \in Seq({FieldOf(x) : x \in M} \cup X)
    BY DEF LayoutOf
  <2> DEFINE A == {FieldOf(x) : x \in N} \cup X
             B == {FieldOf(x) : x \in M} \cup X
  <2> HIDE DEF S, A, B
  <2>3. A \subseteq S /\ B \subseteq S /\ s \in Seq(A) /\ t \in Seq(B)
    BY <2>1, <2>2 DEF A, B
  <2> QED
    BY <2>3, SeqMonotonic
<1> HIDE DEF S
<1>2. /\ c \in Seq(S) /\ Len(c) = Len(s) + Len(t) /\ Len(s) \in Nat /\ Len(t) \in Nat
      /\ \A i \in 1 .. Len(s) + Len(t) : c[i] = IF i <= Len(s) THEN s[i] ELSE t[i - Len(s)]
  BY <1>1, ConcatProperties, LenProperties
<1>3. DOMAIN s = 1 .. Len(s) /\ DOMAIN t = 1 .. Len(t) /\ DOMAIN c = 1 .. Len(s) + Len(t)
  BY <1>1, <1>2, LenProperties
<1>4. Fields(s) = N /\ Fields(t) = M
  BY DEF LayoutOf
<1> HIDE DEF c
<1>5. ASSUME NEW i \in DOMAIN c PROVE c[i].name \in N \cup M
  <2>1. CASE i <= Len(s)
    <3>1. i \in DOMAIN s /\ c[i] = s[i]
      BY <1>2, <1>3, <2>1
    <3> QED
      BY <1>4, <3>1 DEF Fields
  <2>2. CASE ~(i <= Len(s))
    <3>1. i - Len(s) \in DOMAIN t /\ c[i] = t[i - Len(s)]
      BY <1>2, <1>3, <2>2
    <3> QED
      BY <1>4, <3>1 DEF Fields
  <2> QED
    BY <2>1, <2>2
<1>6. ASSUME NEW x \in N PROVE \E i \in DOMAIN c : c[i].name = x
  <2>1. PICK i \in DOMAIN s : s[i].name = x
    BY <1>4 DEF Fields
  <2>2. i \in DOMAIN c /\ c[i] = s[i]
    BY <1>2, <1>3
  <2> QED
    BY <2>1, <2>2
<1>7. ASSUME NEW x \in M PROVE \E i \in DOMAIN c : c[i].name = x
  <2>1. PICK i \in DOMAIN t : t[i].name = x
    BY <1>4 DEF Fields
  <2>2. i + Len(s) \in DOMAIN c /\ c[i + Len(s)] = t[i]
    BY <1>2, <1>3
  <2> QED
    BY <2>1, <2>2
<1>8. Fields(c) = N \cup M
  BY <1>5, <1>6, <1>7 DEF Fields
<1>9. Len(s) # 0 => Len(c) # 0 /\ c[1] = s[1]
  BY <1>2
<1> QED
  BY <1>2, <1>8, <1>9 DEF LayoutOf, S, c

LEMMA LayoutOne ==
  ASSUME NEW x, NEW X
  PROVE  LayoutOf(<<FieldOf(x)>>, {x}, X)
<1> DEFINE f == FieldOf(x)
           s == <<f>>
<1>1. f \in {FieldOf(y) : y \in {x}} \cup X /\ f.name = x
  BY FieldOfIs
<1> HIDE DEF f
<1>2. s \in Seq({FieldOf(y) : y \in {x}} \cup X)
  BY <1>1
<1>3. Fields(s) = {x}
  <2>1. DOMAIN s = {1} /\ s[1].name = x
    BY <1>1
  <2> HIDE DEF s
  <2> QED
    BY <2>1 DEF Fields
<1> QED
  BY <1>2, <1>3 DEF LayoutOf, f

LEMMA LayoutTwo ==
  ASSUME NEW x, NEW y, NEW X
  PROVE  LayoutOf(<<FieldOf(x), FieldOf(y)>>, {x, y}, X)
<1> DEFINE f == FieldOf(x)
           g == FieldOf(y)
           s == <<f, g>>
<1>1. /\ f \in {FieldOf(z) : z \in {x, y}} \cup X /\ f.name = x
      /\ g \in {FieldOf(z) : z \in {x, y}} \cup X /\ g.name = y
  BY FieldOfIs
<1> HIDE DEF f, g
<1>2. s \in Seq({FieldOf(z) : z \in {x, y}} \cup X)
  BY <1>1
<1>3. Fields(s) = {x, y}
  <2>1. DOMAIN s = {1, 2} /\ s[1].name = x /\ s[2].name = y
    BY <1>1
  <2> HIDE DEF s
  <2> QED
    BY <2>1 DEF Fields
<1> QED
  BY <1>2, <1>3 DEF LayoutOf, f, g

LEMMA FieldsAre ==
  /\ Queue = FieldOf("queue") /\ Cvs = FieldOf("cvs")
  /\ U("capacity", 4) = FieldOf("capacity") /\ U("addr", 4) = FieldOf("addr")
  /\ U("user_addr", 4) = FieldOf("user_addr") /\ U("wg", 4) = FieldOf("wg")
  /\ U("score", 1) = FieldOf("score") /\ U("flag", 1) = FieldOf("flag")
  /\ U("amount", 2) = FieldOf("amount") /\ U("pos", 2) = FieldOf("pos")
  /\ \A x \in {"uin", "multpt", "agent", "agent_multpt", "user", "user_multpt", "from",
               "from_multpt", "to", "to_multpt", "receiver", "receiver_multpt", "msg", "time"} :
       U(x, 8) = FieldOf(x)
  /\ \A x \in {"agent_name", "wg_name", "queue_name", "name", "text"} : Text(x) = FieldOf(x)
  /\ List("queues", QUEUE_INFO, 1) = FieldOf("queues")
  /\ List("msgs", MSG_INFO, 2) = FieldOf("msgs")
BY DEF Queue, Cvs, FieldOf, Width

LEMMA MsgLayout ==
  Layout(MSG_INFO, {"msg", "cvs", "agent", "user", "flag", "time", "text"})
<1> DEFINE N == {"msg", "cvs", "agent", "user", "flag", "time", "text"}
           s == <<FieldOf("msg"), FieldOf("cvs"), FieldOf("agent"), FieldOf("user"),
                  FieldOf("flag"), FieldOf("time"), FieldOf("text")>>
<1>1. MSG_INFO = s
  BY FieldsAre DEF MSG_INFO
<1>2. s \in Seq({FieldOf(x) : x \in N} \cup {})
  OBVIOUS
<1>3. Fields(s) = N
  <2>1. /\ DOMAIN s = {1, 2, 3, 4, 5, 6, 7} /\ s[1].name = "msg" /\ s[2].name = "cvs"
        /\ s[3].name = "agent" /\ s[4].name = "user" /\ s[5].name = "flag"
        /\ s[6].name = "time" /\ s[7].name = "text"
    BY FieldOfIs
  <2> HIDE DEF s
  <2> QED
    BY <2>1 DEF Fields
<1> QED
  BY <1>1, <1>2, <1>3 DEF Layout, LayoutOf

\* Besides, s begins with the field named x.
Laid(s, N, X, x) == LayoutOf(s, N, X) /\ Len(s) # 0 /\ s[1] = FieldOf(x)

LEMMA Then ==
  ASSUME NEW s, NEW N, NEW X, NEW x, Laid(s, N, X, x), NEW t, NEW M, LayoutOf(t, M, X)
  PROVE  Laid(s \o t, N \cup M, X, x)
BY LayoutConcat DEF Laid

LEMMA LaidFirst ==
  ASSUME NEW x, NEW y, NEW X
  PROVE  Laid(<<FieldOf(x)>>, {x}, X, x) /\ Laid(<<FieldOf(x), FieldOf(y)>>, {x, y}, X, x)
<1> DEFINE f == FieldOf(x)
           g == FieldOf(y)
<1>1. LayoutOf(<<f>>, {x}, X) /\ LayoutOf(<<f, g>>, {x, y}, X)
  BY LayoutOne, LayoutTwo
<1> HIDE DEF f, g
<1>2. Len(<<f>>) # 0 /\ <<f>>[1] = f /\ Len(<<f, g>>) # 0 /\ <<f, g>>[1] = f
  OBVIOUS
<1>3. f = FieldOf(x)
  BY DEF f
<1> QED
  BY <1>1, <1>2, <1>3 DEF Laid, g

LEMMA ThenOne ==
  ASSUME NEW s, NEW N, NEW X, NEW x, Laid(s, N, X, x), NEW y
  PROVE  Laid(s \o <<FieldOf(y)>>, N \cup {y}, X, x)
<1> DEFINE t == <<FieldOf(y)>>
<1>1. LayoutOf(t, {y}, X)
  BY LayoutOne
<1> HIDE DEF t
<1>2. Laid(s \o t, N \cup {y}, X, x)
  BY <1>1, Then
<1> QED
  BY <1>2 DEF t

LEMMA ThenTwo ==
  ASSUME NEW s, NEW N, NEW X, NEW x, Laid(s, N, X, x), NEW y, NEW z
  PROVE  Laid(s \o <<FieldOf(y), FieldOf(z)>>, N \cup {y, z}, X, x)
<1> DEFINE t == <<FieldOf(y), FieldOf(z)>>
<1>1. LayoutOf(t, {y, z}, X)
  BY LayoutTwo
<1> HIDE DEF t
<1>2. Laid(s \o t, N \cup {y, z}, X, x)
  BY <1>1, Then
<1> QED
  BY <1>2 DEF t

Ids == {"uin", "multpt", "agent", "agent_multpt", "user", "user_multpt", "from", "from_multpt",
        "to", "to_multpt", "receiver", "receiver_multpt"}

LEMMA UMIDIs ==
  ASSUME NEW x \in Ids, NEW y \in Ids
  PROVE  UMID(x, y) = <<FieldOf(x), FieldOf(y)>>
BY FieldsAre DEF UMID, Ids

\* The parts of which the messages consist.
LEMMA PartsAre ==
  /\ <<Queue>> = <<FieldOf("queue")>> /\ <<Cvs>> = <<FieldOf("cvs")>>
  /\ <<Queue, Cvs>> = <<FieldOf("queue"), FieldOf("cvs")>>
  /\ Account = <<FieldOf("uin"), FieldOf("multpt")>>
  /\ <<U("capacity", 4)>> = <<FieldOf("capacity")>> /\ <<U("addr", 4)>> = <<FieldOf("addr")>>
  /\ <<U("score", 1)>> = <<FieldOf("score")>> /\ <<Text("text")>> = <<FieldOf("text")>>
  /\ <<U("uin", 8)>> = <<FieldOf("uin")>> /\ <<U("user_addr", 4)>> = <<FieldOf("user_addr")>>
  /\ <<Text("agent_name")>> = <<FieldOf("agent_name")>>
  /\ <<Cvs, U("score", 1)>> = <<FieldOf("cvs"), FieldOf("score")>>
  /\ <<Queue, U("amount", 2)>> = <<FieldOf("queue"), FieldOf("amount")>>
  /\ <<Queue, U("pos", 2)>> = <<FieldOf("queue"), FieldOf("pos")>>
  /\ <<List("queues", QUEUE_INFO, 1)>> = <<FieldOf("queues")>>
<1>1. \A x \in {"uin", "multpt"} : U(x, 8) = FieldOf(x)
  BY FieldsAre
<1>2. Account = <<U("uin", 8), U("multpt", 8)>>
  BY DEF Account, UMID
<1> QED
  BY <1>1, <1>2, FieldsAre

LEMMA ConversationLayout ==
  LayoutOf(CONVERSATION_INFO, {"cvs"} \cup {"agent", "agent_multpt"} \cup {"agent_name"}
                                \cup {"user", "user_multpt"} \cup {"user_addr"}, {})
<1>1. CONVERSATION_INFO
      = <<FieldOf("cvs")>> \o <<FieldOf("agent"), FieldOf("agent_multpt")>> \o <<FieldOf("agent_name")>>
          \o <<FieldOf("user"), FieldOf("user_multpt")>> \o <<FieldOf("user_addr")>>
  <2>1. UMID("agent", "agent_multpt") = <<FieldOf("agent"), FieldOf("agent_multpt")>>
        /\ UMID("user", "user_multpt") = <<FieldOf("user"), FieldOf("user_multpt")>>
    BY UMIDIs DEF Ids
  <2> QED
    BY <2>1, PartsAre, Zenon DEF CONVERSATION_INFO
<1> DEFINE s1 == <<FieldOf("cvs")>>
           s2 == s1 \o <<FieldOf("agent"), FieldOf("agent_multpt")>>
           s3 == s2 \o <<FieldOf("agent_name")>>
           s4 == s3 \o <<FieldOf("user"), FieldOf("user_multpt")>>
           N2 == {"cvs"} \cup {"agent", "agent_multpt"}
           N3 == N2 \cup {"agent_name"}
           N4 == N3 \cup {"user", "user_multpt"}
<1>2. Laid(s1, {"cvs"}, {}, "cvs")
  BY LaidFirst
<1> HIDE DEF s1
<1>3. Laid(s2, N2, {}, "cvs")
  BY <1>2, ThenTwo
<1> HIDE DEF s2, N2
<1>4. Laid(s3, N3, {}, "cvs")
  BY <1>3, ThenOne
<1> HIDE DEF s3, N3
<1>5. Laid(s4, N4, {}, "cvs")
  BY <1>4, ThenTwo
<1> HIDE DEF s4, N4
<1>6. Laid(s4 \o <<FieldOf("user_addr")>>, N4 \cup {"user_addr"}, {}, "cvs")
  BY <1>5, ThenOne
<1> QED
  BY <1>1, <1>6 DEF Laid, s1, s2, s3, s4, N2, N3, N4

LEMMA QueueLayout == Layout(QUEUE_INFO, {"wg", "wg_name", "queue", "queue_name"})
<1> DEFINE N == {"wg", "wg_name", "queue", "queue_name"}
           s == <<FieldOf("wg"), FieldOf("wg_name"), FieldOf("queue"), FieldOf("queue_name")>>
<1>1. QUEUE_INFO = s
  BY FieldsAre DEF QUEUE_INFO
<1>2. s \in Seq({FieldOf(x) : x \in N} \cup {})
  OBVIOUS
<1>3. Fields(s) = N
  <2>1. /\ DOMAIN s = {1, 2, 3, 4} /\ s[1].name = "wg" /\ s[2].name = "wg_name"
        /\ s[3].name = "queue" /\ s[4].name = "queue_name"
    BY FieldOfIs
  <2> HIDE DEF s
  <2> QED
    BY <2>1 DEF Fields
<1> QED
  BY <1>1, <1>2, <1>3 DEF Layout, LayoutOf

\* Get_Msg answers with a list of messages.
LEMMA MsgsLayout ==
  Laid(<<Queue, Cvs, List("msgs", MSG_INFO, 2)>>, {"queue", "cvs", "msgs"}, {}, "queue")
<1> DEFINE N == {"queue", "cvs", "msgs"}
           s == <<FieldOf("queue"), FieldOf("cvs"), FieldOf("msgs")>>
<1>1. <<Queue, Cvs, List("msgs", MSG_INFO, 2)>> = s
  BY FieldsAre
<1>2. s \in Seq({FieldOf(x) : x \in N} \cup {})
  OBVIOUS
<1>3. Fields(s) = N /\ Len(s) # 0 /\ s[1] = FieldOf("queue")
  <2>1. /\ DOMAIN s = {1, 2, 3} /\ s[1].name = "queue" /\ s[2].name = "cvs" /\ s[3].name = "msgs"
        /\ Len(s) # 0 /\ s[1] = FieldOf("queue")
    BY FieldOfIs
  <2> HIDE DEF s
  <2> QED
    BY <2>1 DEF Fields
<1> QED
  BY <1>1, <1>2, <1>3 DEF Laid, LayoutOf

\* The beginnings that requests have in common.
QA == {"queue"} \cup {"uin", "multpt"}
QCA == {"queue", "cvs"} \cup {"uin", "multpt"}

LEMMA Beginnings ==
  /\ Laid(<<Queue>>, {"queue"}, {}, "queue")
  /\ Laid(<<Queue>> \o Account, QA, {}, "queue")
  /\ Laid(<<Queue, Cvs>>, {"queue", "cvs"}, {}, "queue")
  /\ Laid(<<Queue, Cvs>> \o Account, QCA, {}, "queue")
<1>1. Laid(<<Queue>>, {"queue"}, {}, "queue") /\ Laid(<<Queue, Cvs>>, {"queue", "cvs"}, {}, "queue")
  BY LaidFirst, PartsAre
<1> DEFINE q == <<Queue>>
           c == <<Queue, Cvs>>
<1> HIDE DEF q, c
<1>2. Laid(q \o <<FieldOf("uin"), FieldOf("multpt")>>, QA, {}, "queue")
  BY <1>1, ThenTwo DEF QA, q
<1>3. Laid(c \o <<FieldOf("uin"), FieldOf("multpt")>>, QCA, {}, "queue")
  BY <1>1, ThenTwo DEF QCA, c
<1> QED
  BY <1>1, <1>2, <1>3, PartsAre DEF q, c

\* The parameters that are narrower than the fields they are for.
Narrow(c) == IF c = "AGENT_REDIRECT" THEN {U("cvs", 4)} ELSE {}

\* The requests of c have the fields N and its responses the fields R.
Formed(c, N, R) ==
  /\ CSMsg[c].req_in = CSMsg[c].req_out
  /\ \E x \in {"queue", "uin"} : Laid(CSMsg[c].req_out, N, {}, x)
  /\ N \cap Lists = {}
  /\ LayoutOf(Params[c], N, Narrow(c))
  /\ c # "AGENT_GET_QUEUEAGENT" =>
       /\ CSMsg[c].res_in = CSMsg[c].res_out
       /\ \E x \in {"queue", "queues"} :
            /\ Laid(CSMsg[c].res_out, R, {}, x)
            /\ x = "queues" => c = "AGENT_GET_QUEUE"
       /\ "agents" \notin R
       /\ "queues" \in R => R = {"queues"}
       /\ "queue" \in R => "queue" \in N
       /\ c = "GET_MSG" => "cvs" \in N

LEMMA FormedIs ==
  ASSUME NEW c, NEW req, NEW res, NEW ps, NEW N, NEW R, CSMsg[c] = Same(req, res), Params[c] = ps,
         NEW x \in {"queue", "uin"}, Laid(req, N, {}, x), N \cap Lists = {},
         LayoutOf(ps, N, Narrow(c)), NEW y \in {"queue", "queues"}, Laid(res, R, {}, y),
         y = "queues" => c = "AGENT_GET_QUEUE",
         "agents" \notin R, "queues" \in R => R = {"queues"}, "queue" \in R => "queue" \in N,
         c = "GET_MSG" => "cvs" \in N
  PROVE  Formed(c, N, R)
<1>1. /\ CSMsg[c].req_in = req /\ CSMsg[c].req_out = req
      /\ CSMsg[c].res_in = res /\ CSMsg[c].res_out = res
  BY DEF Same, Format
<1> QED
  BY <1>1 DEF Formed

LEMMA Formed_AGENT_PRESENCE == \E N, R : Formed("AGENT_PRESENCE", N, R)
<1> DEFINE c == "AGENT_PRESENCE"
           req == <<Queue>> \o Account \o <<U("capacity", 4)>>
           res == <<Queue>>
           ps == <<Queue>> \o Account \o <<U("capacity", 4)>>
           N == QA \cup {"capacity"}
           R == {"queue"}
<1>1. CSMsg[c] = Agent_Presence /\ Params[c] = Request_Agent_Presence
  BY DEF CSMsg, Params
<1>2. Agent_Presence = Same(req, res) /\ Request_Agent_Presence = ps
  BY DEF Agent_Presence, Request_Agent_Presence
<1>3. Laid(req, N, {}, "queue")
  <2> DEFINE s == <<Queue>> \o Account
             M == QA
  <2>1. Laid(s, M, {}, "queue")
    BY Beginnings
  <2> HIDE DEF s, M
  <2>2. Laid(s \o <<FieldOf("capacity")>>, M \cup {"capacity"}, {}, "queue")
    BY <2>1, ThenOne
  <2> QED
    BY <2>2, PartsAre DEF s, M
<1>4. Laid(res, R, {}, "queue")
  BY Beginnings
<1>5. LayoutOf(ps, N, Narrow(c))
  BY <1>3 DEF Laid, Narrow
<1>6. /\ N \cap Lists = {} /\ "agents" \notin R
      /\ "queues" \in R => R = {"queues"}
      /\ "queue" \in R => "queue" \in N
      /\ c = "GET_MSG" => "cvs" \in N
      /\ "queue" = "queues" => c = "AGENT_GET_QUEUE"
  BY DEF Lists, QA, QCA
<1> HIDE DEF req, res, ps, N, R
<1>7. CSMsg[c] = Same(req, res) /\ Params[c] = ps
  BY <1>1, <1>2
<1> HIDE DEF c
<1>8. Formed(c, N, R)
  BY <1>3, <1>4, <1>5, <1>6, <1>7, FormedIs
<1> QED
  BY <1>8 DEF c

LEMMA Formed_AGENT_ABSENCE == \E N, R : Formed("AGENT_ABSENCE", N, R)
<1> DEFINE c == "AGENT_ABSENCE"
           req == <<Queue>> \o Account
           res == <<Queue>>
           ps == <<Queue>> \o Account
           N == QA
           R == {"queue"}
<1>1. CSMsg[c] = Agent_Absence /\ Params[c] = Request_Agent_Absence
  BY DEF CSMsg, Params
<1>2. Agent_Absence = Same(req, res) /\ Request_Agent_Absence = ps
  BY DEF Agent_Absence, Request_Agent_Absence
<1>3. Laid(req, N, {}, "queue")
  BY Beginnings
<1>4. Laid(res, R, {}, "queue")
  BY Beginnings
<1>5. LayoutOf(ps, N, Narrow(c))
  BY <1>3 DEF Laid, Narrow
<1>6. /\ N \cap Lists = {} /\ "agents" \notin R
      /\ "queues" \in R => R = {"queues"}
      /\ "queue" \in R => "queue" \in N
      /\ c = "GET_MSG" => "cvs" \in N
      /\ "queue" = "queues" => c = "AGENT_GET_QUEUE"
  BY DEF Lists, QA, QCA
<1> HIDE DEF req, res, ps, N, R
<1>7. CSMsg[c] = Same(req, res) /\ Params[c] = ps
  BY <1>1, <1>2
<1> HIDE DEF c
<1>8. Formed(c, N, R)
  BY <1>3, <1>4, <1>5, <1>6, <1>7, FormedIs
<1> QED
  BY <1>8 DEF c

LEMMA Formed_AGENT_OFFLINE == \E N, R : Formed("AGENT_OFFLINE", N, R)
<1> DEFINE c == "AGENT_OFFLINE"
           req == <<Queue>> \o Account
           res == <<Queue>>
           ps == <<Queue>> \o Account
           N == QA
           R == {"queue"}
<1>1. CSMsg[c] = Agent_Offline /\ Params[c] = Request_Agent_Offline
  BY DEF CSMsg, Params
<1>2. Agent_Offline = Same(req, res) /\ Request_Agent_Offline = ps
  BY DEF Agent_Offline, Request_Agent_Offline
<1>3. Laid(req, N, {}, "queue")
  BY Beginnings
<1>4. Laid(res, R, {}, "queue")
  BY Beginnings
<1>5. LayoutOf(ps, N, Narrow(c))
  BY <1>3 DEF Laid, Narrow
<1>6. /\ N \cap Lists = {} /\ "agents" \notin R
      /\ "queues" \in R => R = {"queues"}
      /\ "queue" \in R => "queue" \in N
      /\ c = "GET_MSG" => "cvs" \in N
      /\ "queue" = "queues" => c = "AGENT_GET_QUEUE"
  BY DEF Lists, QA, QCA
<1> HIDE DEF req, res, ps, N, R
<1>7. CSMsg[c] = Same(req, res) /\ Params[c] = ps
  BY <1>1, <1>2
<1> HIDE DEF c
<1>8. Formed(c, N, R)
  BY <1>3, <1>4, <1>5, <1>6, <1>7, FormedIs
<1> QED
  BY <1>8 DEF c

LEMMA Formed_AGENT_ACCEPT == \E N, R : Formed("AGENT_ACCEPT", N, R)
<1> DEFINE c == "AGENT_ACCEPT"
           req == <<Queue>> \o Account
           res == <<Queue>> \o CONVERSATION_INFO
           ps == <<Queue>> \o Account
           N == QA
           R == {"queue"} \cup ({"cvs"} \cup {"agent", "agent_multpt"} \cup {"agent_name"}
                              \cup {"user", "user_multpt"} \cup {"user_addr"})
<1>1. CSMsg[c] = Agent_Accept /\ Params[c] = Request_Agent_Accept
  BY DEF CSMsg, Params
<1>2. Agent_Accept = Same(req, res) /\ Request_Agent_Accept = ps
  BY DEF Agent_Accept, Request_Agent_Accept
<1>3. Laid(req, N, {}, "queue")
  BY Beginnings
<1>4. Laid(res, R, {}, "queue")
  <2> DEFINE s == <<Queue>>
             t == CONVERSATION_INFO
             M == {"cvs"} \cup {"agent", "agent_multpt"} \cup {"agent_name"}
                    \cup {"user", "user_multpt"} \cup {"user_addr"}
  <2>1. Laid(s, {"queue"}, {}, "queue") /\ LayoutOf(t, M, {})
    BY Beginnings, ConversationLayout
  <2> HIDE DEF s, t, M
  <2>2. Laid(s \o t, {"queue"} \cup M, {}, "queue")
    BY <2>1, Then
  <2> QED
    BY <2>2 DEF s, t, M
<1>5. LayoutOf(ps, N, Narrow(c))
  BY <1>3 DEF Laid, Narrow
<1>6. /\ N \cap Lists = {} /\ "agents" \notin R
      /\ "queues" \in R => R = {"queues"}
      /\ "queue" \in R => "queue" \in N
      /\ c = "GET_MSG" => "cvs" \in N
      /\ "queue" = "queues" => c = "AGENT_GET_QUEUE"
  BY DEF Lists, QA, QCA
<1> HIDE DEF req, res, ps, N, R
<1>7. CSMsg[c] = Same(req, res) /\ Params[c] = ps
  BY <1>1, <1>2
<1> HIDE DEF c
<1>8. Formed(c, N, R)
  BY <1>3, <1>4, <1>5, <1>6, <1>7, FormedIs
<1> QED
  BY <1>8 DEF c

LEMMA Formed_AGENT_REFUSE == \E N, R : Formed("AGENT_REFUSE", N, R)
<1> DEFINE c == "AGENT_REFUSE"
           req == <<Queue>> \o Account
           res == <<Queue>>
           ps == <<Queue>> \o Account
           N == QA
           R == {"queue"}
<1>1. CSMsg[c] = Agent_Refuse /\ Params[c] = Request_Agent_Refuse
  BY DEF CSMsg, Params
<1>2. Agent_Refuse = Same(req, res) /\ Request_Agent_Refuse = ps
  BY DEF Agent_Refuse, Request_Agent_Refuse
<1>3. Laid(req, N, {}, "queue")
  BY Beginnings
<1>4. Laid(res, R, {}, "queue")
  BY Beginnings
<1>5. LayoutOf(ps, N, Narrow(c))
  BY <1>3 DEF Laid, Narrow
<1>6. /\ N \cap Lists = {} /\ "agents" \notin R
      /\ "queues" \in R => R = {"queues"}
      /\ "queue" \in R => "queue" \in N
      /\ c = "GET_MSG" => "cvs" \in N
      /\ "queue" = "queues" => c = "AGENT_GET_QUEUE"
  BY DEF Lists, QA, QCA
<1> HIDE DEF req, res, ps, N, R
<1>7. CSMsg[c] = Same(req, res) /\ Params[c] = ps
  BY <1>1, <1>2
<1> HIDE DEF c
<1>8. Formed(c, N, R)
  BY <1>3, <1>4, <1>5, <1>6, <1>7, FormedIs
<1> QED
  BY <1>8 DEF c

LEMMA Formed_AGENT_REDIRECT == \E N, R : Formed("AGENT_REDIRECT", N, R)
<1> DEFINE c == "AGENT_REDIRECT"
           req == <<Queue, Cvs>> \o UMID("from", "from_multpt") \o UMID("to", "to_multpt")
           res == <<Queue>>
           ps == <<Queue, U("cvs", 4)>> \o UMID("from", "from_multpt") \o UMID("to", "to_multpt")
           N == {"queue", "cvs"} \cup {"from", "from_multpt"} \cup {"to", "to_multpt"}
           R == {"queue"}
<1>1. CSMsg[c] = Agent_Redirect /\ Params[c] = Request_Agent_Redirect
  BY DEF CSMsg, Params
<1>2. Agent_Redirect = Same(req, res) /\ Request_Agent_Redirect = ps
  BY DEF Agent_Redirect, Request_Agent_Redirect
<1>3. Laid(req, N, {}, "queue")
  <2> DEFINE s == <<Queue, Cvs>>
             t == <<FieldOf("from"), FieldOf("from_multpt")>>
             u == <<FieldOf("to"), FieldOf("to_multpt")>>
             M == {"queue", "cvs"}
             X == {}
  <2>1. UMID("from", "from_multpt") = t /\ UMID("to", "to_multpt") = u
    BY UMIDIs DEF Ids
  <2>2. Laid(s, M, X, "queue")
    BY Beginnings
  <2>3. LayoutOf(t, {"from", "from_multpt"}, X) /\ LayoutOf(u, {"to", "to_multpt"}, X)
    BY LayoutTwo
  <2> HIDE DEF s, M, X, t, u
  <2>4. Laid(s \o t, M \cup {"from", "from_multpt"}, X, "queue")
    BY <2>2, <2>3, Then
  <2> DEFINE v == s \o t
             K == M \cup {"from", "from_multpt"}
  <2> HIDE DEF v, K
  <2>5. Laid(v \o u, K \cup {"to", "to_multpt"}, X, "queue")
    BY <2>3, <2>4, Then DEF v, K
  <2>6. req = v \o u
    BY <2>1 DEF s, v
  <2> QED
    BY <2>5, <2>6 DEF K, M, X
<1>4. Laid(res, R, {}, "queue")
  BY Beginnings
<1>5. LayoutOf(ps, N, Narrow(c))
  <2> DEFINE s == <<Queue, U("cvs", 4)>>
             t == <<FieldOf("from"), FieldOf("from_multpt")>>
             u == <<FieldOf("to"), FieldOf("to_multpt")>>
             M == {"queue", "cvs"}
             X == {U("cvs", 4)}
  <2>1. UMID("from", "from_multpt") = t /\ UMID("to", "to_multpt") = u
    BY UMIDIs DEF Ids
  <2>2. Laid(s, M, X, "queue")
    <3> DEFINE f == FieldOf("queue")
               g == U("cvs", 4)
    <3>1. Queue = f /\ f.name = "queue" /\ g.name = "cvs"
      BY FieldsAre, FieldOfIs DEF U
    <3>2. f \in {FieldOf(x) : x \in M} \cup X /\ g \in {FieldOf(x) : x \in M} \cup X
      OBVIOUS
    <3> HIDE DEF f, g, X
    <3>3. s = <<f, g>>
      BY <3>1 DEF g
    <3>4. s \in Seq({FieldOf(x) : x \in M} \cup X)
      BY <3>2, <3>3
    <3>5. Len(s) # 0 /\ s[1] = f /\ DOMAIN s = {1, 2} /\ s[1].name = "queue" /\ s[2].name = "cvs"
      BY <3>1, <3>3
    <3>6. Fields(s) = M
      <4> HIDE DEF s
      <4> QED
        BY <3>5 DEF Fields
    <3> QED
      BY <3>4, <3>5, <3>6 DEF Laid, LayoutOf, f
  <2>3. LayoutOf(t, {"from", "from_multpt"}, X) /\ LayoutOf(u, {"to", "to_multpt"}, X)
    BY LayoutTwo
  <2> HIDE DEF s, M, X, t, u
  <2>4. Laid(s \o t, M \cup {"from", "from_multpt"}, X, "queue")
    BY <2>2, <2>3, Then
  <2> DEFINE v == s \o t
             K == M \cup {"from", "from_multpt"}
  <2> HIDE DEF v, K
  <2>5. Laid(v \o u, K \cup {"to", "to_multpt"}, X, "queue")
    BY <2>3, <2>4, Then DEF v, K
  <2>6. ps = v \o u
    BY <2>1 DEF s, v
  <2> QED
    BY <2>5, <2>6 DEF K, M, X, Laid, Narrow
<1>6. /\ N \cap Lists = {} /\ "agents" \notin R
      /\ "queues" \in R => R = {"queues"}
      /\ "queue" \in R => "queue" \in N
      /\ c = "GET_MSG" => "cvs" \in N
      /\ "queue" = "queues" => c = "AGENT_GET_QUEUE"
  BY DEF Lists, QA, QCA
<1> HIDE DEF req, res, ps, N, R
<1>7. CSMsg[c] = Same(req, res) /\ Params[c] = ps
  BY <1>1, <1>2
<1> HIDE DEF c
<1>8. Formed(c, N, R)
  BY <1>3, <1>4, <1>5, <1>6, <1>7, FormedIs
<1> QED
  BY <1>8 DEF c

LEMMA Formed_AGENT_GET_QUEUE == \E N, R : Formed("AGENT_GET_QUEUE", N, R)
<1> DEFINE c == "AGENT_GET_QUEUE"
           req == <<U("uin", 8)>>
           res == <<List("queues", QUEUE_INFO, 1)>>
           ps == <<U("uin", 8)>>
           N == {"uin"}
           R == {"queues"}
<1>1. CSMsg[c] = Agent_Get_Queue /\ Params[c] = Request_Agent_Get_Queue
  BY DEF CSMsg, Params
<1>2. Agent_Get_Queue = Same(req, res) /\ Request_Agent_Get_Queue = ps
  BY DEF Agent_Get_Queue, Request_Agent_Get_Queue
<1>3. Laid(req, N, {}, "uin")
  BY LaidFirst, PartsAre
<1>4. Laid(res, R, {}, "queues")
  BY LaidFirst, PartsAre
<1>5. LayoutOf(ps, N, Narrow(c))
  BY <1>3 DEF Laid, Narrow
<1>6. /\ N \cap Lists = {} /\ "agents" \notin R
      /\ "queues" \in R => R = {"queues"}
      /\ "queue" \in R => "queue" \in N
      /\ c = "GET_MSG" => "cvs" \in N
      /\ "queues" = "queues" => c = "AGENT_GET_QUEUE"
  BY DEF Lists, QA, QCA
<1> HIDE DEF req, res, ps, N, R
<1>7. CSMsg[c] = Same(req, res) /\ Params[c] = ps
  BY <1>1, <1>2
<1> HIDE DEF c
<1>8. Formed(c, N, R)
  BY <1>3, <1>4, <1>5, <1>6, <1>7, FormedIs
<1> QED
  BY <1>8 DEF c

LEMMA Formed_AGENT_GET_QUEUEAGENT == \E N, R : Formed("AGENT_GET_QUEUEAGENT", N, R)
<1> DEFINE c == "AGENT_GET_QUEUEAGENT"
           req == <<Queue>>
           N == {"queue"}
<1>1. CSMsg[c] = Agent_Get_QueueAgent /\ Params[c] = req
  BY DEF CSMsg, Params, Request_Agent_Get_QueueAgent
<1>2. Agent_Get_QueueAgent.req_in = req /\ Agent_Get_QueueAgent.req_out = req
  BY DEF Agent_Get_QueueAgent, Format
<1>3. Laid(req, N, {}, "queue")
  BY Beginnings
<1>4. LayoutOf(req, N, Narrow(c))
  BY <1>3 DEF Laid, Narrow
<1>5. N \cap Lists = {}
  BY DEF Lists
<1> HIDE DEF req, N
<1>6. Formed(c, N, {})
  BY <1>1, <1>2, <1>3, <1>4, <1>5 DEF Formed
<1> QED
  BY <1>6

LEMMA Formed_AGENT_USERAMOUNT == \E N, R : Formed("AGENT_USERAMOUNT", N, R)
<1> DEFINE c == "AGENT_USERAMOUNT"
           req == <<Queue>>
           res == <<Queue, U("amount", 2)>>
           ps == <<Queue>>
           N == {"queue"}
           R == {"queue", "amount"}
<1>1. CSMsg[c] = Agent_Useramount /\ Params[c] = Request_Agent_UserNum
  BY DEF CSMsg, Params
<1>2. Agent_Useramount = Same(req, res) /\ Request_Agent_UserNum = ps
  BY DEF Agent_Useramount, Request_Agent_UserNum
<1>3. Laid(req, N, {}, "queue")
  BY Beginnings
<1>4. Laid(res, R, {}, "queue")
  BY LaidFirst, PartsAre
<1>5. LayoutOf(ps, N, Narrow(c))
  BY <1>3 DEF Laid, Narrow
<1>6. /\ N \cap Lists = {} /\ "agents" \notin R
      /\ "queues" \in R => R = {"queues"}
      /\ "queue" \in R => "queue" \in N
      /\ c = "GET_MSG" => "cvs" \in N
      /\ "queue" = "queues" => c = "AGENT_GET_QUEUE"
  BY DEF Lists, QA, QCA
<1> HIDE DEF req, res, ps, N, R
<1>7. CSMsg[c] = Same(req, res) /\ Params[c] = ps
  BY <1>1, <1>2
<1> HIDE DEF c
<1>8. Formed(c, N, R)
  BY <1>3, <1>4, <1>5, <1>6, <1>7, FormedIs
<1> QED
  BY <1>8 DEF c

LEMMA Formed_USER_JOIN == \E N, R : Formed("USER_JOIN", N, R)
<1> DEFINE c == "USER_JOIN"
           req == <<Queue>> \o Account \o <<U("addr", 4)>>
           res == <<Queue, U("pos", 2)>>
           ps == <<Queue>> \o Account \o <<U("addr", 4)>>
           N == QA \cup {"addr"}
           R == {"queue", "pos"}
<1>1. CSMsg[c] = User_Join /\ Params[c] = Request_UserJoinMsg
  BY DEF CSMsg, Params
<1>2. User_Join = Same(req, res) /\ Request_UserJoinMsg = ps
  BY DEF User_Join, Request_UserJoinMsg
<1>3. Laid(req, N, {}, "queue")
  <2> DEFINE s == <<Queue>> \o Account
             M == QA
  <2>1. Laid(s, M, {}, "queue")
    BY Beginnings
  <2> HIDE DEF s, M
  <2>2. Laid(s \o <<FieldOf("addr")>>, M \cup {"addr"}, {}, "queue")
    BY <2>1, ThenOne
  <2> QED
    BY <2>2, PartsAre DEF s, M
<1>4. Laid(res, R, {}, "queue")
  BY LaidFirst, PartsAre
<1>5. LayoutOf(ps, N, Narrow(c))
  BY <1>3 DEF Laid, Narrow
<1>6. /\ N \cap Lists = {} /\ "agents" \notin R
      /\ "queues" \in R => R = {"queues"}
      /\ "queue" \in R => "queue" \in N
      /\ c = "GET_MSG" => "cvs" \in N
      /\ "queue" = "queues" => c = "AGENT_GET_QUEUE"
  BY DEF Lists, QA, QCA
<1> HIDE DEF req, res, ps, N, R
<1>7. CSMsg[c] = Same(req, res) /\ Params[c] = ps
  BY <1>1, <1>2
<1> HIDE DEF c
<1>8. Formed(c, N, R)
  BY <1>3, <1>4, <1>5, <1>6, <1>7, FormedIs
<1> QED
  BY <1>8 DEF c

LEMMA Formed_USER_DEPART == \E N, R : Formed("USER_DEPART", N, R)
<1> DEFINE c == "USER_DEPART"
           req == <<Queue>> \o Account
           res == <<Queue>>
           ps == <<Queue>> \o Account
           N == QA
           R == {"queue"}
<1>1. CSMsg[c] = User_Depart /\ Params[c] = Request_UserDepartMsg
  BY DEF CSMsg, Params
<1>2. User_Depart = Same(req, res) /\ Request_UserDepartMsg = ps
  BY DEF User_Depart, Request_UserDepartMsg
<1>3. Laid(req, N, {}, "queue")
  BY Beginnings
<1>4. Laid(res, R, {}, "queue")
  BY Beginnings
<1>5. LayoutOf(ps, N, Narrow(c))
  BY <1>3 DEF Laid, Narrow
<1>6. /\ N \cap Lists = {} /\ "agents" \notin R
      /\ "queues" \in R => R = {"queues"}
      /\ "queue" \in R => "queue" \in N
      /\ c = "GET_MSG" => "cvs" \in N
      /\ "queue" = "queues" => c = "AGENT_GET_QUEUE"
  BY DEF Lists, QA, QCA
<1> HIDE DEF req, res, ps, N, R
<1>7. CSMsg[c] = Same(req, res) /\ Params[c] = ps
  BY <1>1, <1>2
<1> HIDE DEF c
<1>8. Formed(c, N, R)
  BY <1>3, <1>4, <1>5, <1>6, <1>7, FormedIs
<1> QED
  BY <1>8 DEF c

LEMMA Formed_USER_SCORE == \E N, R : Formed("USER_SCORE", N, R)
<1> DEFINE c == "USER_SCORE"
           req == <<Queue>> \o Account \o <<Cvs, U("score", 1)>>
           res == <<Queue>>
           ps == <<Queue, Cvs>> \o Account \o <<U("score", 1)>>
           N == QA \cup {"cvs", "score"}
           R == {"queue"}
<1>1. CSMsg[c] = User_Score /\ Params[c] = Request_UserScoreMsg
  BY DEF CSMsg, Params
<1>2. User_Score = Same(req, res) /\ Request_UserScoreMsg = ps
  BY DEF User_Score, Request_UserScoreMsg
<1>3. Laid(req, N, {}, "queue")
  <2> DEFINE s == <<Queue>> \o Account
             M == QA
  <2>1. Laid(s, M, {}, "queue")
    BY Beginnings
  <2> HIDE DEF s, M
  <2>2. Laid(s \o <<FieldOf("cvs"), FieldOf("score")>>, M \cup {"cvs", "score"}, {}, "queue")
    BY <2>1, ThenTwo
  <2> QED
    BY <2>2, PartsAre DEF s, M
<1>4. Laid(res, R, {}, "queue")
  BY Beginnings
<1>5. LayoutOf(ps, N, Narrow(c))
  <2> DEFINE s == <<Queue, Cvs>> \o Account
             M == QCA
  <2>1. Laid(s, M, {}, "queue")
    BY Beginnings
  <2> HIDE DEF s, M
  <2>2. Laid(s \o <<FieldOf("score")>>, M \cup {"score"}, {}, "queue")
    BY <2>1, ThenOne
  <2>3. M \cup {"score"} = N
    BY DEF M, QA, QCA
  <2> QED
    BY <2>2, <2>3, PartsAre DEF s, Laid, Narrow
<1>6. /\ N \cap Lists = {} /\ "agents" \notin R
      /\ "queues" \in R => R = {"queues"}
      /\ "queue" \in R => "queue" \in N
      /\ c = "GET_MSG" => "cvs" \in N
      /\ "queue" = "queues" => c = "AGENT_GET_QUEUE"
  BY DEF Lists, QA, QCA
<1> HIDE DEF req, res, ps, N, R
<1>7. CSMsg[c] = Same(req, res) /\ Params[c] = ps
  BY <1>1, <1>2
<1> HIDE DEF c
<1>8. Formed(c, N, R)
  BY <1>3, <1>4, <1>5, <1>6, <1>7, FormedIs
<1> QED
  BY <1>8 DEF c

LEMMA Formed_CONVERSATION_END == \E N, R : Formed("CONVERSATION_END", N, R)
<1> DEFINE c == "CONVERSATION_END"
           req == <<Queue, Cvs>> \o Account
           res == <<Queue>>
           ps == <<Queue>> \o Account \o <<Cvs>>
           N == QCA
           R == {"queue"}
<1>1. CSMsg[c] = Conversation_End /\ Params[c] = Request_Conversation_End
  BY DEF CSMsg, Params
<1>2. Conversation_End = Same(req, res) /\ Request_Conversation_End = ps
  BY DEF Conversation_End, Request_Conversation_End
<1>3. Laid(req, N, {}, "queue")
  BY Beginnings
<1>4. Laid(res, R, {}, "queue")
  BY Beginnings
<1>5. LayoutOf(ps, N, Narrow(c))
  <2> DEFINE s == <<Queue>> \o Account
             M == QA
  <2>1. Laid(s, M, {}, "queue")
    BY Beginnings
  <2> HIDE DEF s, M
  <2>2. Laid(s \o <<FieldOf("cvs")>>, M \cup {"cvs"}, {}, "queue")
    BY <2>1, ThenOne
  <2>3. M \cup {"cvs"} = N
    BY DEF M, QA, QCA
  <2> QED
    BY <2>2, <2>3, PartsAre DEF s, Laid, Narrow
<1>6. /\ N \cap Lists = {} /\ "agents" \notin R
      /\ "queues" \in R => R = {"queues"}
      /\ "queue" \in R => "queue" \in N
      /\ c = "GET_MSG" => "cvs" \in N
      /\ "queue" = "queues" => c = "AGENT_GET_QUEUE"
  BY DEF Lists, QA, QCA
<1> HIDE DEF req, res, ps, N, R
<1>7. CSMsg[c] = Same(req, res) /\ Params[c] = ps
  BY <1>1, <1>2
<1> HIDE DEF c
<1>8. Formed(c, N, R)
  BY <1>3, <1>4, <1>5, <1>6, <1>7, FormedIs
<1> QED
  BY <1>8 DEF c

LEMMA Formed_SEND_MSG == \E N, R : Formed("SEND_MSG", N, R)
<1> DEFINE c == "SEND_MSG"
           req == <<Queue, Cvs>> \o Account \o <<Text("text")>>
           res == <<Queue>> \o UMID("receiver", "receiver_multpt")
           ps == <<Queue, Cvs>> \o Account \o <<Text("text")>>
           N == QCA \cup {"text"}
           R == {"queue"} \cup {"receiver", "receiver_multpt"}
<1>1. CSMsg[c] = Send_Msg /\ Params[c] = Request_Send_Msg
  BY DEF CSMsg, Params
<1>2. Send_Msg = Same(req, res) /\ Request_Send_Msg = ps
  BY DEF Send_Msg, Request_Send_Msg
<1>3. Laid(req, N, {}, "queue")
  <2> DEFINE s == <<Queue, Cvs>> \o Account
             M == QCA
  <2>1. Laid(s, M, {}, "queue")
    BY Beginnings
  <2> HIDE DEF s, M
  <2>2. Laid(s \o <<FieldOf("text")>>, M \cup {"text"}, {}, "queue")
    BY <2>1, ThenOne
  <2> QED
    BY <2>2, PartsAre DEF s, M
<1>4. Laid(res, R, {}, "queue")
  <2> DEFINE s == <<Queue>>
             M == {"queue"}
  <2>1. Laid(s, M, {}, "queue")
    BY Beginnings
  <2> HIDE DEF s, M
  <2>2. Laid(s \o <<FieldOf("receiver"), FieldOf("receiver_multpt")>>,
             M \cup {"receiver", "receiver_multpt"}, {}, "queue")
    BY <2>1, ThenTwo
  <2> QED
    <3>1. UMID("receiver", "receiver_multpt") = <<FieldOf("receiver"), FieldOf("receiver_multpt")>>
      BY UMIDIs DEF Ids
    <3> QED
      BY <2>2, <3>1 DEF s, M
<1>5. LayoutOf(ps, N, Narrow(c))
  BY <1>3 DEF Laid, Narrow
<1>6. /\ N \cap Lists = {} /\ "agents" \notin R
      /\ "queues" \in R => R = {"queues"}
      /\ "queue" \in R => "queue" \in N
      /\ c = "GET_MSG" => "cvs" \in N
      /\ "queue" = "queues" => c = "AGENT_GET_QUEUE"
  BY DEF Lists, QA, QCA
<1> HIDE DEF req, res, ps, N, R
<1>7. CSMsg[c] = Same(req, res) /\ Params[c] = ps
  BY <1>1, <1>2
<1> HIDE DEF c
<1>8. Formed(c, N, R)
  BY <1>3, <1>4, <1>5, <1>6, <1>7, FormedIs
<1> QED
  BY <1>8 DEF c

LEMMA Formed_GET_MSG == \E N, R : Formed("GET_MSG", N, R)
<1> DEFINE c == "GET_MSG"
           req == <<Queue, Cvs>>
           res == <<Queue, Cvs, List("msgs", MSG_INFO, 2)>>
           ps == <<Queue, Cvs>>
           N == {"queue", "cvs"}
           R == {"queue", "cvs", "msgs"}
<1>1. CSMsg[c] = Get_Msg /\ Params[c] = Request_Get_Msg
  BY DEF CSMsg, Params
<1>2. Get_Msg = Same(req, res) /\ Request_Get_Msg = ps
  BY DEF Get_Msg, Request_Get_Msg
<1>3. Laid(req, N, {}, "queue")
  BY Beginnings
<1>4. Laid(res, R, {}, "queue")
  BY MsgsLayout
<1>5. LayoutOf(ps, N, Narrow(c))
  BY <1>3 DEF Laid, Narrow
<1>6. /\ N \cap Lists = {} /\ "agents" \notin R
      /\ "queues" \in R => R = {"queues"}
      /\ "queue" \in R => "queue" \in N
      /\ c = "GET_MSG" => "cvs" \in N
      /\ "queue" = "queues" => c = "AGENT_GET_QUEUE"
  BY DEF Lists, QA, QCA
<1> HIDE DEF req, res, ps, N, R
<1>7. CSMsg[c] = Same(req, res) /\ Params[c] = ps
  BY <1>1, <1>2
<1> HIDE DEF c
<1>8. Formed(c, N, R)
  BY <1>3, <1>4, <1>5, <1>6, <1>7, FormedIs
<1> QED
  BY <1>8 DEF c

LEMMA AllFormed ==
  ASSUME NEW c \in Command
  PROVE  \E N, R : Formed(c, N, R)
<1>1. c \in {"AGENT_PRESENCE", "AGENT_ABSENCE", "AGENT_OFFLINE", "AGENT_ACCEPT", "AGENT_REFUSE",
             "AGENT_REDIRECT", "AGENT_GET_QUEUE", "AGENT_GET_QUEUEAGENT", "AGENT_USERAMOUNT",
             "USER_JOIN", "USER_DEPART", "USER_SCORE", "CONVERSATION_END", "SEND_MSG", "GET_MSG"}
  BY DEF Command, CSMsg
<1> QED
  BY <1>1, Formed_AGENT_PRESENCE, Formed_AGENT_ABSENCE, Formed_AGENT_OFFLINE,
     Formed_AGENT_ACCEPT, Formed_AGENT_REFUSE, Formed_AGENT_REDIRECT, Formed_AGENT_GET_QUEUE,
     Formed_AGENT_GET_QUEUEAGENT, Formed_AGENT_USERAMOUNT, Formed_USER_JOIN, Formed_USER_DEPART,
     Formed_USER_SCORE, Formed_CONVERSATION_END, Formed_SEND_MSG, Formed_GET_MSG

-----------------------------------------------------------------------------
(* The messages of the protocol fit their layouts.                         *)

LEMMA SmallPowers == Power(1) = Base /\ Power(2) = Base * Base
<1>1. Power(0) = 1 /\ \A w \in Nat : Power(w + 1) = Base * Power(w)
  BY PowerIs
<1>2. Base \in Nat
  BY WireAssumption
<1>3. Power(0 + 1) = Base * Power(0) /\ Power(1 + 1) = Base * Power(1)
  BY <1>1
<1>4. 0 + 1 = 1 /\ 1 + 1 = 2 /\ Base * 1 = Base
  BY <1>2, SMT
<1> QED
  BY <1>1, <1>3, <1>4

LEMMA SampleFits ==
  ASSUME NEW p \in Patterns, NEW k \in Nat, NEW x, x \notin Lists
  PROVE  Fits(FieldOf(x), Sample(p, k, FieldOf(x)))
<1> DEFINE f == FieldOf(x)
           v == Sample(p, k, f)
<1>1. Base \in Nat \ {0, 1} /\ p \in {"low", "ramp", "high"}
  BY WireAssumption
<1>2. \/ f.kind = "number" /\ f.width \in Nat
      \/ f.kind = "string"
  BY FieldOfIs
<1> HIDE DEF f
<1>3. CASE f.kind = "number" /\ f.width \in Nat
  <2> DEFINE P == Power(f.width)
  <2>1. P \in Nat \ {0}
    BY <1>3, PowerIs
  <2> HIDE DEF P
  <2>2. 0 \in 0 .. P - 1 /\ k % P \in 0 .. P - 1 /\ P - 1 \in 0 .. P - 1
    BY <2>1, SMT
  <2>3. v = 0 \/ v = k % P \/ v = P - 1
    <3>1. CASE p = "low"
      BY <1>3, <3>1 DEF Sample
    <3>2. CASE p = "ramp"
      BY <1>3, <3>2 DEF Sample, P
    <3>3. CASE p = "high"
      BY <1>3, <3>3 DEF Sample, P
    <3> QED
      BY <1>1, <3>1, <3>2, <3>3
  <2> HIDE DEF v
  <2>4. v \in 0 .. P - 1
    BY <2>2, <2>3
  <2> QED
    BY <1>3, <2>4 DEF Fits, P, v, f
<1>4. CASE f.kind = "string"
  <2>1. 2 < Power(2) /\ 0 < Power(2)
    <3>1. Base * Base >= 2 * Base
      BY <1>1, SMT
    <3> QED
      BY <1>1, <3>1, SmallPowers, SMT
  <2>2. v = <<>> \/ v = <<k % Base, 1>>
    BY <1>4 DEF Sample
  <2>3. k % Base \in Bytes /\ 1 \in Bytes
    BY <1>1, SMT DEF Bytes
  <2>4. v \in Seq(Bytes) /\ (Len(v) = 0 \/ Len(v) = 2)
    <3> DEFINE b == k % Base
    <3> HIDE DEF b
    <3>1. <<>> \in Seq(Bytes) /\ Len(<<>>) = 0 /\ <<b, 1>> \in Seq(Bytes) /\ Len(<<b, 1>>) = 2
      BY <2>3 DEF b
    <3> HIDE DEF v
    <3> QED
      BY <2>2, <3>1 DEF b
  <2> HIDE DEF v
  <2>5. Len(v) < Power(2)
    BY <2>1, <2>4
  <2> QED
    BY <1>4, <2>4, <2>5 DEF Fits, v, f
<1> QED
  BY <1>2, <1>3, <1>4

\* In a layout, the field with a name is the one the name tells.
LEMMA FieldIs ==
  ASSUME NEW s, NEW N, Layout(s, N)
  PROVE  /\ s \in Seq({FieldOf(x) : x \in N}) /\ Len(s) \in Nat /\ DOMAIN s = 1 .. Len(s)
         /\ s = [i \in 1 .. Len(s) |-> s[i]]
         /\ Fields(s) = N
         /\ \A i \in DOMAIN s : s[i].name \in N /\ s[i] = FieldOf(s[i].name)
         /\ \A x \in N : \E i \in DOMAIN s : s[i].name = x
<1> DEFINE S == {FieldOf(x) : x \in N}
<1>1. s \in Seq(S \cup {}) /\ Fields(s) = N
  BY DEF Layout, LayoutOf
<1>2. S \cup {} = S
  OBVIOUS
<1> HIDE DEF S
<1>3. s \in Seq(S)
  BY <1>1, <1>2
<1>4. Len(s) \in Nat /\ DOMAIN s = 1 .. Len(s) /\ s \in [1 .. Len(s) -> S]
  BY <1>3, LenProperties
<1>5. s = [i \in 1 .. Len(s) |-> s[i]]
  BY <1>4
<1>6. ASSUME NEW i \in DOMAIN s PROVE s[i].name \in N /\ s[i] = FieldOf(s[i].name)
  <2>1. s[i] \in S
    BY <1>4
  <2>2. PICK x \in N : s[i] = FieldOf(x)
    BY <2>1 DEF S
  <2> QED
    BY <2>2, FieldOfIs
<1>7. \A x \in N : \E i \in DOMAIN s : s[i].name = x
  BY <1>1 DEF Fields
<1> QED
  BY <1>1, <1>3, <1>4, <1>5, <1>6, <1>7 DEF S

\* The elements of the lists of queues and of messages.
LEMMA ElementsAre ==
  ASSUME NEW x \in {"queues", "msgs"}
  PROVE  \E M : Layout(FieldOf(x).fields, M) /\ M \cap Lists = {}
<1>1. CASE x = "queues"
  <2>1. FieldOf(x).fields = QUEUE_INFO
    BY <1>1 DEF FieldOf, List
  <2>2. {"wg", "wg_name", "queue", "queue_name"} \cap Lists = {}
    BY DEF Lists
  <2> QED
    BY <2>1, <2>2, QueueLayout
<1>2. CASE x = "msgs"
  <2>1. FieldOf(x).fields = MSG_INFO
    BY <1>2 DEF FieldOf, List
  <2>2. {"msg", "cvs", "agent", "user", "flag", "time", "text"} \cap Lists = {}
    BY DEF Lists
  <2> QED
    BY <2>1, <2>2, MsgLayout
<1> QED
  BY <1>1, <1>2

LEMMA ListWidths == FieldOf("queues").width = 1 /\ FieldOf("msgs").width = 2
BY DEF FieldOf, List

\* The value of one element.
Element(fields, p, j) ==
  [y \in Fields(fields) |->
    LET i == CHOOSE i \in DOMAIN fields : fields[i].name = y
    IN  Sample(p, j + i, fields[i])]

LEMMA ElementIs ==
  ASSUME NEW x \in {"queues", "msgs"}, NEW p \in Patterns, NEW j \in Nat
  PROVE  ElementFits(FieldOf(x), Element(FieldOf(x).fields, p, j))
<1> DEFINE fields == FieldOf(x).fields
           d == Element(fields, p, j)
<1>1. PICK M : Layout(fields, M) /\ M \cap Lists = {}
  BY ElementsAre
<1> HIDE DEF fields
<1>2. /\ Len(fields) \in Nat /\ DOMAIN fields = 1 .. Len(fields) /\ Fields(fields) = M
      /\ fields = [i \in 1 .. Len(fields) |-> fields[i]]
      /\ \A i \in DOMAIN fields : fields[i].name \in M /\ fields[i] = FieldOf(fields[i].name)
      /\ \A y \in M : \E i \in DOMAIN fields : fields[i].name = y
  BY <1>1, FieldIs
<1>3. ASSUME NEW y \in M PROVE Fits(FieldOf(y), d[y])
  <2> DEFINE i == CHOOSE i \in DOMAIN fields : fields[i].name = y
  <2>1. i \in DOMAIN fields /\ fields[i].name = y
    BY <1>2
  <2>2. d[y] = Sample(p, j + i, fields[i])
    BY <1>2 DEF Element
  <2> HIDE DEF i, d
  <2>3. fields[i] = FieldOf(y) /\ j + i \in Nat
    BY <1>2, <2>1
  <2>4. y \notin Lists
    BY <1>1
  <2> QED
    BY <2>2, <2>3, <2>4, SampleFits
<1>4. \A i \in 1 .. Len(fields) : Fits(fields[i], d[fields[i].name])
  <2> HIDE DEF d
  <2> QED
    BY <1>2, <1>3
<1>5. FieldsFit(fields, Len(fields), d)
  <2> HIDE DEF d
  <2> QED
    BY <1>2, <1>4 DEF FieldsFit
<1>6. d = [y \in Fields(fields) |-> d[y]]
  BY DEF Element
<1> HIDE DEF d
<1> QED
  BY <1>2, <1>5, <1>6 DEF ElementFits, fields, d

LEMMA SamplesFit ==
  ASSUME NEW layout, NEW N, Layout(layout, N), "agents" \notin N,
         NEW p \in Patterns, NEW n \in Nat, n < Power(2)
  PROVE  /\ Samples(layout, p, n) = [x \in N |-> Samples(layout, p, n)[x]]
         /\ \A x \in N :
              /\ x \notin Lists => Fits(FieldOf(x), Samples(layout, p, n)[x])
              /\ x \in Lists => /\ ListFits(FieldOf(x), Samples(layout, p, n)[x])
                                /\ Len(Samples(layout, p, n)[x]) = n
<1> DEFINE m == Samples(layout, p, n)
           K(x) == CHOOSE i \in DOMAIN layout : layout[i].name = x
<1>1. /\ DOMAIN layout = 1 .. Len(layout) /\ Len(layout) \in Nat /\ Fields(layout) = N
      /\ \A i \in DOMAIN layout : layout[i].name \in N /\ layout[i] = FieldOf(layout[i].name)
      /\ \A x \in N : \E i \in DOMAIN layout : layout[i].name = x
  BY FieldIs
<1>2. m = [x \in N |-> m[x]]
  BY <1>1 DEF Samples
<1>3. ASSUME NEW x \in N
      PROVE  /\ K(x) \in Nat
             /\ FieldOf(x).kind # "list" => m[x] = Sample(p, K(x), FieldOf(x))
             /\ FieldOf(x).kind = "list" => m[x] = [j \in 1 .. n |-> Element(FieldOf(x).fields, p, j)]
  <2> DEFINE k == K(x)
  <2>1. k \in DOMAIN layout /\ layout[k].name = x
    BY <1>1
  <2>2. m[x] = IF layout[k].kind # "list" THEN Sample(p, k, layout[k])
               ELSE [j \in 1 .. n |-> Element(layout[k].fields, p, j)]
    BY <1>1 DEF Samples, Element
  <2> HIDE DEF k, m
  <2>3. layout[k] = FieldOf(x) /\ k \in Nat
    BY <1>1, <2>1
  <2> QED
    BY <2>2, <2>3 DEF k
<1> HIDE DEF m, K
<1>4. ASSUME NEW x \in N, x \notin Lists PROVE Fits(FieldOf(x), m[x])
  <2>1. FieldOf(x).kind # "list"
    BY <1>4, FieldOfIs
  <2>2. m[x] = Sample(p, K(x), FieldOf(x)) /\ K(x) \in Nat
    BY <1>3, <2>1
  <2> DEFINE k == K(x)
  <2> HIDE DEF k
  <2>3. Fits(FieldOf(x), Sample(p, k, FieldOf(x)))
    BY <1>4, <2>2, SampleFits DEF k
  <2> QED
    BY <2>2, <2>3 DEF k
<1>5. ASSUME NEW x \in N, x \in Lists PROVE ListFits(FieldOf(x), m[x]) /\ Len(m[x]) = n
  <2> DEFINE f == FieldOf(x)
             v == m[x]
  <2>1. x \in {"queues", "msgs"}
    BY <1>5 DEF Lists
  <2>2. f.kind = "list" /\ f.width \in Nat
    BY <1>5, FieldOfIs
  <2>3. v = [j \in 1 .. n |-> Element(f.fields, p, j)]
    BY <1>3, <2>2
  <2>4. \A j \in 1 .. n : ElementFits(f, Element(f.fields, p, j))
    BY <2>1, ElementIs
  <2> HIDE DEF f, v
  <2>5. Len(v) = n /\ v = [j \in 1 .. n |-> v[j]] /\ \A j \in 1 .. n : v[j] = Element(f.fields, p, j)
    BY <2>3
  <2>6. ListFits(f, v)
    BY <2>2, <2>4, <2>5 DEF ListFits
  <2> QED
    BY <2>5, <2>6 DEF f, v
<1> QED
  BY <1>2, <1>4, <1>5 DEF m

\* What the parameters of a function make of what the caller means fits the request, and is
\* what he means, but for the conversation of a redirect.
Means(c, p) == Samples(CSMsg[c].req_out, p, 0)

LEMMA PassedFits ==
  ASSUME NEW c, NEW N, NEW R, Formed(c, N, R), NEW p \in Patterns
  PROVE  /\ Means(c, p) = [x \in N |-> Means(c, p)[x]]
         /\ Passed(c, Means(c, p)) = [x \in N |-> Passed(c, Means(c, p))[x]]
         /\ \A x \in N :
              /\ Fits(FieldOf(x), Passed(c, Means(c, p))[x])
              /\ \/ Passed(c, Means(c, p))[x] = Means(c, p)[x]
                 \/ c = "AGENT_REDIRECT" /\ x = "cvs" /\ Means(c, p)[x] >= Power(4)
<1> DEFINE means == Means(c, p)
           m == Passed(c, means)
           P == {Params[c][i] : i \in DOMAIN Params[c]}
<1>1. /\ Layout(CSMsg[c].req_out, N) /\ N \cap Lists = {} /\ "agents" \notin N
      /\ LayoutOf(Params[c], N, Narrow(c))
  BY DEF Formed, Laid, Layout, Lists
<1>2. 0 \in Nat /\ 0 < Power(2)
  BY PowerIs
<1>3. means = [x \in N |-> means[x]] /\ \A x \in N : Fits(FieldOf(x), means[x])
  <2> DEFINE layout == CSMsg[c].req_out
             n == 0
  <2>1. Layout(layout, N) /\ n \in Nat /\ n < Power(2) /\ Means(c, p) = Samples(layout, p, n)
    BY <1>1, <1>2 DEF Means
  <2> HIDE DEF layout, n
  <2>2. /\ Samples(layout, p, n) = [x \in N |-> Samples(layout, p, n)[x]]
        /\ \A x \in N : x \notin Lists => Fits(FieldOf(x), Samples(layout, p, n)[x])
    BY <1>1, <2>1, SamplesFit
  <2> QED
    BY <1>1, <2>1, <2>2
<1> HIDE DEF means
<1>4. DOMAIN means = N
  BY <1>3
<1>5. m = [x \in N |-> m[x]]
  BY <1>4 DEF Passed
<1>6. ASSUME NEW f \in P PROVE f = FieldOf(f.name) \/ (c = "AGENT_REDIRECT" /\ f = U("cvs", 4))
  <2> DEFINE S == {FieldOf(x) : x \in N} \cup Narrow(c)
  <2>1. Params[c] \in Seq(S)
    BY <1>1 DEF LayoutOf
  <2> HIDE DEF S
  <2>2. f \in S
    <3>1. DOMAIN Params[c] = 1 .. Len(Params[c]) /\ Params[c] \in [1 .. Len(Params[c]) -> S]
      BY <2>1, LenProperties
    <3> QED
      BY <3>1
  <2>3. CASE f \in Narrow(c)
    BY <2>3 DEF Narrow
  <2>4. CASE f \notin Narrow(c)
    <3>1. PICK x \in N : f = FieldOf(x)
      BY <2>2, <2>4 DEF S
    <3> QED
      BY <3>1, FieldOfIs
  <2> QED
    BY <2>3, <2>4
<1>7. \A x \in N : \E f \in P : f.name = x
  BY <1>1 DEF LayoutOf, Fields
<1> HIDE DEF P
<1>8. ASSUME NEW x \in N
      PROVE  /\ Fits(FieldOf(x), m[x])
             /\ \/ m[x] = means[x]
                \/ c = "AGENT_REDIRECT" /\ x = "cvs" /\ means[x] >= Power(4)
  <2> DEFINE f == CHOOSE f \in P : f.name = x
             v == means[x]
  <2>1. f \in P /\ f.name = x
    BY <1>7
  <2>2. m[x] = IF f.kind = "number" THEN v % Power(f.width) ELSE v
    BY <1>4 DEF Passed, P
  <2> HIDE DEF f, m
  <2>3. Fits(FieldOf(x), v)
    BY <1>3
  <2> HIDE DEF v
  <2>4. CASE f = FieldOf(x)
    <3>1. f.kind = "number" => m[x] = v
      <4> SUFFICES ASSUME f.kind = "number" PROVE m[x] = v
        OBVIOUS
      <4>1. f.width \in Nat /\ v \in 0 .. Power(f.width) - 1
        BY <2>3, <2>4 DEF Fits
      <4>2. Power(f.width) \in Nat \ {0}
        BY <4>1, PowerIs
      <4>3. v % Power(f.width) = v
        BY <4>1, <4>2, SMT
      <4> QED
        BY <2>2, <4>3
    <3>2. m[x] = v
      BY <2>2, <3>1
    <3> QED
      BY <2>3, <3>2 DEF v
  <2>5. CASE f # FieldOf(x)
    <3>1. c = "AGENT_REDIRECT" /\ f = U("cvs", 4) /\ x = "cvs"
      <4>1. c = "AGENT_REDIRECT" /\ f = U("cvs", 4)
        BY <1>6, <2>1, <2>5
      <4>2. U("cvs", 4).name = "cvs"
        BY DEF U
      <4> QED
        BY <2>1, <4>1, <4>2
    <3>2. FieldOf(x).kind = "number" /\ FieldOf(x).width = 8 /\ f.kind = "number" /\ f.width = 4
      BY <3>1 DEF FieldOf, Width, U
    <3>3. v \in 0 .. Power(8) - 1 /\ Power(8) \in Nat \ {0} /\ Power(4) \in Nat \ {0}
      BY <2>3, <3>2, PowerIs DEF Fits
    <3>4. m[x] = v % Power(4)
      BY <2>2, <3>2
    <3>5. v % Power(4) \in 0 .. Power(8) - 1 /\ (v % Power(4) = v \/ v >= Power(4))
      <4> DEFINE a == Power(4)
                 b == Power(8)
      <4> HIDE DEF a, b
      <4>1. a \in Nat \ {0} /\ b \in Nat \ {0} /\ v \in 0 .. b - 1
        BY <3>3 DEF a, b
      <4>2. v % a \in 0 .. a - 1 /\ (v < a => v % a = v) /\ v \in Nat
        BY <4>1, SMT
      <4>3. v % a \in 0 .. b - 1 /\ (v % a = v \/ v >= a)
        BY <4>1, <4>2, SMT
      <4> QED
        BY <4>3 DEF a, b
    <3>6. Fits(FieldOf(x), m[x])
      BY <3>2, <3>4, <3>5 DEF Fits
    <3> QED
      BY <3>1, <3>4, <3>5, <3>6 DEF v
  <2> QED
    BY <2>4, <2>5
<1> QED
  BY <1>3, <1>5, <1>8 DEF means

\* A request is read as it was written.
LEMMA RequestRead ==
  ASSUME NEW c, NEW N, NEW R, Formed(c, N, R), NEW p \in Patterns
  PROVE  Read(CSMsg[c].req_in, Write(CSMsg[c].req_out, Passed(c, Means(c, p))))
         = Reading(<<>>, Passed(c, Means(c, p)))
<1> DEFINE layout == CSMsg[c].req_out
           m == Passed(c, Means(c, p))
<1>1. CSMsg[c].req_in = layout /\ Layout(layout, N)
  BY DEF Formed, Laid, Layout
<1>2. m = [x \in N |-> m[x]] /\ \A x \in N : Fits(FieldOf(x), m[x])
  BY PassedFits
<1> HIDE DEF layout, m
<1>3. /\ Len(layout) \in Nat /\ layout = [i \in 1 .. Len(layout) |-> layout[i]] /\ Fields(layout) = N
      /\ DOMAIN layout = 1 .. Len(layout)
      /\ \A i \in DOMAIN layout : layout[i].name \in N /\ layout[i] = FieldOf(layout[i].name)
  BY <1>1, FieldIs
<1>4. MessageFits(layout, Len(layout), m)
  BY <1>2, <1>3 DEF MessageFits, Readable
<1>5. Read(layout, Write(layout, m)) = Reading(<<>>, [x \in N |-> m[x]])
  BY <1>3, <1>4, RoundTrip
<1> QED
  BY <1>1, <1>2, <1>5 DEF layout, m

\* What the server puts into the answer to a request it has read.
Answer(c, p, q, n) == Answered(c, Passed(c, Means(c, p)), Samples(CSMsg[c].res_out, q, n))

\* It fits its layout, and names the queue of the request.
LEMMA AnswerFits ==
  ASSUME NEW c, NEW N, NEW R, Formed(c, N, R), c # "AGENT_GET_QUEUEAGENT",
         NEW p \in Patterns, NEW q \in Patterns, NEW n \in Nat, n < Power(2)
  PROVE  /\ Answer(c, p, q, n) = [x \in R |-> Answer(c, p, q, n)[x]]
         /\ "queue" \in R => "queue" \in N
                             /\ Answer(c, p, q, n)["queue"] = Passed(c, Means(c, p))["queue"]
         /\ \A x \in R :
              /\ x \notin Lists => Fits(FieldOf(x), Answer(c, p, q, n)[x])
              /\ x \in Lists => /\ ListFits(FieldOf(x), Answer(c, p, q, n)[x])
                                /\ Len(Answer(c, p, q, n)[x]) = n
<1> DEFINE layout == CSMsg[c].res_out
           request == Passed(c, Means(c, p))
           res == Samples(layout, q, n)
           b == Answer(c, p, q, n)
<1>1. /\ Layout(layout, R) /\ "agents" \notin R /\ ("queue" \in R => "queue" \in N)
      /\ (c = "GET_MSG" => "cvs" \in N)
  BY DEF Formed, Laid, Layout
<1>2. \A x \in N : Fits(FieldOf(x), request[x])
  BY PassedFits
<1> HIDE DEF layout, request
<1>3. /\ res = [x \in R |-> res[x]]
      /\ \A x \in R : /\ x \notin Lists => Fits(FieldOf(x), res[x])
                      /\ x \in Lists => ListFits(FieldOf(x), res[x]) /\ Len(res[x]) = n
  BY <1>1, SamplesFit
<1>4. b = Answered(c, request, res)
  BY DEF Answer, layout, request
<1> HIDE DEF b, res
<1>5. DOMAIN res = R
  BY <1>3
<1>6. /\ b = [x \in R |-> b[x]]
      /\ \A x \in R : b[x] = IF x = "queue" \/ (c = "GET_MSG" /\ x = "cvs") THEN request[x] ELSE res[x]
  BY <1>4, <1>5 DEF Answered
<1>7. ASSUME NEW x \in R
      PROVE  /\ x \notin Lists => Fits(FieldOf(x), b[x])
             /\ x \in Lists => ListFits(FieldOf(x), b[x]) /\ Len(b[x]) = n
  <2>1. CASE x = "queue" \/ (c = "GET_MSG" /\ x = "cvs")
    <3>1. x \in N /\ x \notin Lists /\ b[x] = request[x]
      BY <1>1, <1>6, <2>1 DEF Lists
    <3> QED
      BY <1>2, <3>1
  <2>2. CASE ~(x = "queue" \/ (c = "GET_MSG" /\ x = "cvs"))
    <3>1. b[x] = res[x]
      BY <1>6, <2>2
    <3> QED
      BY <1>3, <3>1
  <2> QED
    BY <2>1, <2>2
<1>8. "queue" \in R => "queue" \in N /\ b["queue"] = request["queue"]
  BY <1>1, <1>6
<1> QED
  BY <1>6, <1>7, <1>8 DEF b, request

\* The lists of responses: who has a list of queues has nothing else, and is the command
\* that asks for it.
LEMMA QueuesAlone ==
  ASSUME NEW c, NEW N, NEW R, Formed(c, N, R), c # "AGENT_GET_QUEUEAGENT", "queues" \in R
  PROVE  c = "AGENT_GET_QUEUE" /\ Laid(CSMsg[c].res_out, R, {}, "queues")
<1>1. R = {"queues"}
  BY DEF Formed
<1>2. PICK x \in {"queue", "queues"} :
        Laid(CSMsg[c].res_out, R, {}, x) /\ (x = "queues" => c = "AGENT_GET_QUEUE")
  BY DEF Formed
<1> DEFINE layout == CSMsg[c].res_out
<1> HIDE DEF layout
<1>3. Fields(layout) = R /\ 1 \in DOMAIN layout /\ layout[1].name = x
  <2>1. Layout(layout, R) /\ Len(layout) # 0 /\ layout[1] = FieldOf(x)
    BY <1>2 DEF Laid, Layout, layout
  <2>2. Fields(layout) = R /\ DOMAIN layout = 1 .. Len(layout) /\ Len(layout) \in Nat
    BY <2>1, FieldIs
  <2>3. 1 \in DOMAIN layout
    BY <2>1, <2>2
  <2> QED
    BY <2>1, <2>2, <2>3, FieldOfIs
<1>4. x \in R
  BY <1>3 DEF Fields
<1> QED
  BY <1>1, <1>2, <1>4

\* An answer is read as it was written, unless its list is too long for the index.
LEMMA AnswerRead ==
  ASSUME NEW c, NEW N, NEW R, Formed(c, N, R), c # "AGENT_GET_QUEUEAGENT",
         NEW p \in Patterns, NEW q \in Patterns, NEW n \in Nat, n < Power(2),
         "queues" \in R => Len(Answer(c, p, q, n)["queues"]) < Base
  PROVE  Read(CSMsg[c].res_in, Write(CSMsg[c].res_out, Answer(c, p, q, n)))
         = Reading(<<>>, Answer(c, p, q, n))
<1> DEFINE layout == CSMsg[c].res_out
           b == Answer(c, p, q, n)
<1>1. CSMsg[c].res_in = layout /\ Layout(layout, R) /\ "agents" \notin R
  BY DEF Formed, Laid, Layout
<1>2. /\ b = [x \in R |-> b[x]]
      /\ \A x \in R : /\ x \notin Lists => Fits(FieldOf(x), b[x])
                      /\ x \in Lists => ListFits(FieldOf(x), b[x]) /\ Len(b[x]) = n
  BY AnswerFits
<1> HIDE DEF layout, b
<1>3. /\ Len(layout) \in Nat /\ layout = [i \in 1 .. Len(layout) |-> layout[i]] /\ Fields(layout) = R
      /\ DOMAIN layout = 1 .. Len(layout)
      /\ \A i \in DOMAIN layout : layout[i].name \in R /\ layout[i] = FieldOf(layout[i].name)
  <2>1. Layout(layout, R)
    BY <1>1
  <2> QED
    BY <2>1, FieldIs
<1>4. ASSUME NEW x \in R PROVE Readable(FieldOf(x), b[x])
  <2>1. CASE x \notin Lists
    BY <1>2, <2>1 DEF Readable
  <2>2. CASE x = "queues"
    <3>1. Len(b[x]) < Power(FieldOf(x).width)
      BY <2>2, ListWidths, SmallPowers DEF b
    <3>2. x \in Lists
      BY <2>2 DEF Lists
    <3> QED
      BY <1>2, <3>1, <3>2 DEF Readable
  <2>3. CASE x = "msgs"
    <3>1. FieldOf(x).width = 2 /\ x \in Lists
      BY <2>3, ListWidths DEF Lists
    <3> QED
      BY <1>2, <3>1 DEF Readable
  <2> QED
    BY <1>1, <2>1, <2>2, <2>3 DEF Lists
<1>5. MessageFits(layout, Len(layout), b)
  BY <1>3, <1>4 DEF MessageFits
<1>6. Read(layout, Write(layout, b)) = Reading(<<>>, [x \in R |-> b[x]])
  BY <1>3, <1>5, RoundTrip
<1> QED
  BY <1>1, <1>2, <1>6 DEF layout, b

\* A message begins with its first field.
LEMMA WriteBegins ==
  ASSUME NEW layout, NEW n \in Nat \ {0}, layout = [i \in 1 .. n |-> layout[i]], NEW m,
         \A i \in 1 .. n : WriteItem(layout[i], m[layout[i].name]) \in Seq(Bytes)
  PROVE  \E t \in Seq(Bytes) :
           Write(layout, m) = WriteItem(layout[1], m[layout[1].name]) \o t
<1> DEFINE pieces == [i \in 1 .. n |-> WriteItem(layout[i], m[layout[i].name])]
<1>1. Write(layout, m) = FlattenSeq(pieces)
  BY DEF Write
<1>2. pieces = [i \in 1 .. n |-> pieces[i]] /\ \A i \in 1 .. n : pieces[i] \in Seq(Bytes)
  OBVIOUS
<1>3. 1 \in 1 .. n /\ pieces[1] = WriteItem(layout[1], m[layout[1].name]) /\ 1 - 1 = 0
  BY SMT
<1>4. <<>> \in Seq(Bytes)
  BY EmptySeq
<1> HIDE DEF pieces
<1>5. FlattenSeq(pieces) \in Seq(Bytes) /\ \E s : Walks(s, pieces, n, pieces, m, <<>>)
  BY <1>2, <1>4, WalkExists
<1>6. PICK s : Walks(s, pieces, n, pieces, m, <<>>)
  BY <1>5
<1>7. PICK t \in Seq(Bytes) : \E seen : s[1 - 1] = Reading(pieces[1] \o t, seen)
  BY <1>3, <1>6 DEF Walks
<1>7a. PICK seen : s[1 - 1] = Reading(pieces[1] \o t, seen)
  BY <1>7
<1>8. s[1 - 1] = Reading(FlattenSeq(pieces) \o <<>>, Nothing)
  BY <1>3, <1>6 DEF Walks
<1>9. FlattenSeq(pieces) \o <<>> = pieces[1] \o t
  <2> DEFINE l == FlattenSeq(pieces) \o <<>>
             k == pieces[1] \o t
  <2>1. Reading(l, Nothing) = Reading(k, seen)
    BY <1>7a, <1>8
  <2> HIDE DEF l, k
  <2>2. Reading(l, Nothing).left = l /\ Reading(k, seen).left = k
    BY ReadingIs
  <2>3. l = k
    BY <2>1, <2>2
  <2> QED
    BY <2>3 DEF l, k
<1>10. FlattenSeq(pieces) \o <<>> = FlattenSeq(pieces)
  BY <1>5, ConcatEmptySeq
<1> QED
  BY <1>1, <1>3, <1>9, <1>10

\* A list of queues that is too long is not read.
LEMMA AnswerLong ==
  ASSUME NEW c, NEW N, NEW R, Formed(c, N, R), c # "AGENT_GET_QUEUEAGENT",
         NEW p \in Patterns, NEW q \in Patterns, NEW n \in Nat, n < Power(2),
         "queues" \in R, ~(Len(Answer(c, p, q, n)["queues"]) < Base)
  PROVE  Read(CSMsg[c].res_in, Write(CSMsg[c].res_out, Answer(c, p, q, n))).state = "failed"
<1> DEFINE layout == CSMsg[c].res_out
           b == Answer(c, p, q, n)
           v == b["queues"]
           f == FieldOf("queues")
<1>1. /\ CSMsg[c].res_in = layout /\ Layout(layout, R) /\ "agents" \notin R
      /\ Len(layout) # 0 /\ layout[1] = f
  BY QueuesAlone DEF Formed, Laid, Layout
<1>2. \A x \in R : /\ x \notin Lists => Fits(FieldOf(x), b[x])
                   /\ x \in Lists => ListFits(FieldOf(x), b[x]) /\ Len(b[x]) = n
  BY AnswerFits
<1> HIDE DEF layout, b
<1>3. /\ Len(layout) \in Nat /\ layout = [i \in 1 .. Len(layout) |-> layout[i]]
      /\ DOMAIN layout = 1 .. Len(layout)
      /\ \A i \in DOMAIN layout : layout[i].name \in R /\ layout[i] = FieldOf(layout[i].name)
  BY <1>1, FieldIs
<1>4. "queues" \in Lists
  BY DEF Lists
<1>5. ListFits(f, v) /\ Len(v) = n /\ f.width = 1 /\ f.name = "queues" /\ f.kind = "list"
  BY <1>2, <1>4, ListWidths, FieldOfIs
<1>6. ASSUME NEW i \in 1 .. Len(layout)
      PROVE  WriteItem(layout[i], b[layout[i].name]) \in Seq(Bytes)
  <2> DEFINE x == layout[i].name
  <2>1. x \in R /\ layout[i] = FieldOf(x)
    BY <1>3
  <2> HIDE DEF x
  <2>2. CASE x \in Lists
    BY <1>2, <2>1, <2>2, WriteListIs DEF x
  <2>3. CASE x \notin Lists
    <3>1. Fits(FieldOf(x), b[x])
      BY <1>2, <2>1, <2>3
    <3>2. <<>> \in Seq(Bytes) /\ Readable(FieldOf(x), b[x])
      BY <3>1, EmptySeq DEF Readable
    <3>3. WriteItem(FieldOf(x), b[x]) \in Seq(Bytes)
      BY <3>2, ReadItemIs
    <3> QED
      BY <2>1, <3>3 DEF x
  <2> QED
    BY <2>2, <2>3
<1> HIDE DEF v, f
<1>7. PICK t \in Seq(Bytes) : Write(layout, b) = WriteItem(f, v) \o t
  <2>1. Len(layout) \in Nat \ {0} /\ layout[1] = f /\ b[layout[1].name] = v
    BY <1>1, <1>3, <1>5 DEF v
  <2> DEFINE k == Len(layout)
  <2>2. /\ k \in Nat \ {0} /\ layout = [i \in 1 .. k |-> layout[i]]
        /\ \A i \in 1 .. k : WriteItem(layout[i], b[layout[i].name]) \in Seq(Bytes)
    BY <1>3, <1>6, <2>1
  <2> HIDE DEF k
  <2>3. \E t \in Seq(Bytes) :
          Write(layout, b) = WriteItem(layout[1], b[layout[1].name]) \o t
    BY <2>2, WriteBegins
  <2> QED
    BY <2>1, <2>3
<1> DEFINE d == Digits(Len(v), 2)
           r == FlattenSeq(Pieces(f, v))
<1>8. WriteItem(f, v) = d \o r /\ r \in Seq(Bytes) /\ d \in Seq(Bytes) /\ Len(d) = 2
  BY <1>5, WriteListIs
<1>9. Number(d) = n
  <2>1. n \in 0 .. Power(2) - 1 /\ 2 \in Nat
    BY SMT, PowerIs
  <2> QED
    BY <1>5, <2>1, NumberOfDigits
<1> HIDE DEF d, r
<1> DEFINE packet == Write(layout, b)
           u == r \o t
<1>10. packet = d \o u
  <2>1. (d \o r) \o t = d \o (r \o t)
    BY <1>7, <1>8, Regroup
  <2> QED
    BY <1>7, <1>8, <2>1
<1>11. u \in Seq(Bytes)
  BY <1>7, <1>8, TakeSkip
<1> HIDE DEF packet, u
<1>12. SubSeq(packet, 1, 2) = d
  BY <1>8, <1>10, <1>11, TakeSkip
<1>13. ~(n < Base) /\ Base \in Nat /\ Power(1) = Base
  BY <1>5, SmallPowers, WireAssumption DEF v, b
<1>14. Number(SubSeq(packet, 1, 2)) >= Power(f.width)
  <2>1. n >= Base
    BY <1>13, SMT
  <2> QED
    BY <1>5, <1>9, <1>12, <1>13, <2>1
<1>15. Len(layout) \in Nat \ {0} /\ layout[1] = f
  BY <1>1, <1>3 DEF f
<1>16. Read(layout, packet).state = "failed"
  BY <1>5, <1>14, <1>15, LongFails
<1> QED
  BY <1>1, <1>16 DEF layout, b, packet

\* The error code is no response, and no packet at all is no request.
LEMMA ErrorsFail ==
  ASSUME NEW c, NEW N, NEW R, Formed(c, N, R)
  PROVE  /\ Read(CSMsg[c].req_in, <<>>).state = "failed"
         /\ c # "AGENT_GET_QUEUEAGENT" => Read(CSMsg[c].res_in, sendErrCode).state = "failed"
<1>1. /\ FieldOf("queue").kind = "number" /\ FieldOf("queue").width = 4
      /\ FieldOf("uin").kind = "number" /\ FieldOf("uin").width = 8
      /\ FieldOf("queues").kind = "list" /\ FieldOf("queues").width = 1
  BY DEF FieldOf, U, Width, List
<1>2. Read(CSMsg[c].req_in, <<>>).state = "failed"
  <2> DEFINE layout == CSMsg[c].req_in
             packet == <<>>
  <2>1. PICK x \in {"queue", "uin"} : Laid(layout, N, {}, x)
    BY DEF Formed
  <2> HIDE DEF layout
  <2>2. Layout(layout, N) /\ Len(layout) # 0 /\ layout[1] = FieldOf(x)
    BY <2>1 DEF Laid, Layout
  <2>3. Len(layout) \in Nat
    BY <2>2, FieldIs
  <2>4. Len(packet) = 0
    OBVIOUS
  <2> HIDE DEF packet
  <2>5. layout[1].kind = "number" /\ Len(packet) < layout[1].width /\ Len(layout) \in Nat \ {0}
    BY <1>1, <2>1, <2>2, <2>3, <2>4
  <2>6. Read(layout, packet).state = "failed"
    BY <2>5, ShortFails
  <2> QED
    BY <2>6 DEF layout, packet
<1>3. ASSUME c # "AGENT_GET_QUEUEAGENT" PROVE Read(CSMsg[c].res_in, sendErrCode).state = "failed"
  <2> DEFINE layout == CSMsg[c].res_in
             packet == sendErrCode
  <2>1. PICK x \in {"queue", "queues"} : Laid(layout, R, {}, x)
    BY <1>3 DEF Formed
  <2> HIDE DEF layout
  <2>2. Layout(layout, R) /\ Len(layout) # 0 /\ layout[1] = FieldOf(x)
    BY <2>1 DEF Laid, Layout
  <2>3. Len(layout) \in Nat
    BY <2>2, FieldIs
  <2>4. packet \in Seq(Bytes) /\ Len(packet) = 2
    <3>1. 500 \in Nat /\ 2 \in Nat
      BY SMT
    <3>2. \A v \in Nat, w \in Nat : Digits(v, w) \in Seq(Bytes) /\ Len(Digits(v, w)) = w
      BY DigitsAre
    <3>3. Digits(500, 2) \in Seq(Bytes) /\ Len(Digits(500, 2)) = 2
      BY <3>1, <3>2
    <3> QED
      BY <3>3 DEF sendErrCode
  <2>5. Number(packet) >= Base /\ Power(1) = Base
    BY CodeIsLong, SmallPowers DEF sendErrCode
  <2> HIDE DEF packet
  <2>6. CASE x = "queue"
    <3>1. layout[1].kind = "number" /\ Len(packet) < layout[1].width /\ Len(layout) \in Nat \ {0}
      BY <1>1, <2>2, <2>3, <2>4, <2>6
    <3> QED
      BY <3>1, ShortFails DEF layout, packet
  <2>7. CASE x = "queues"
    <3>1. SubSeq(packet, 1, 2) = packet
      <4>1. packet \o <<>> = packet /\ <<>> \in Seq(Bytes)
        BY <2>4, ConcatEmptySeq, EmptySeq
      <4> QED
        BY <2>4, <4>1, TakeSkip
    <3>2. /\ layout[1].kind = "list" /\ Number(SubSeq(packet, 1, 2)) >= Power(layout[1].width)
          /\ Len(layout) \in Nat \ {0}
      BY <1>1, <2>2, <2>3, <2>5, <2>7, <3>1
    <3> QED
      BY <3>2, LongFails DEF layout, packet
  <2> QED
    BY <2>6, <2>7
<1> QED
  BY <1>2, <1>3

-----------------------------------------------------------------------------
(* A request and its answer.                                               *)

\* What a caller may ask for, and what the server may answer.
Asks(c, a) == \E p \in Patterns : a = Means(c, p)

Answers(c, a, b) ==
  \E q \in Patterns, n \in Lengths :
    b = Answered(c, Passed(c, a), Samples(CSMsg[c].res_out, q, n))

LEMMA ServerReads ==
  ASSUME NEW c \in Command, NEW a, Asks(c, a)
  PROVE  /\ Read(CSMsg[c].req_in, Write(CSMsg[c].req_out, Passed(c, a)))
            = Reading(<<>>, Passed(c, a))
         /\ Read(CSMsg[c].req_in, <<>>).state = "failed"
         /\ Passed(c, a) = a \/ (c = "AGENT_REDIRECT" /\ a["cvs"] >= Power(4))
<1>1. PICK N, R : Formed(c, N, R)
  BY AllFormed
<1>2. PICK p \in Patterns : a = Means(c, p)
  BY DEF Asks
<1>3. Read(CSMsg[c].req_in, Write(CSMsg[c].req_out, Passed(c, Means(c, p))))
      = Reading(<<>>, Passed(c, Means(c, p)))
  BY <1>1, RequestRead
<1>4. Read(CSMsg[c].req_in, <<>>).state = "failed"
  BY <1>1, ErrorsFail
<1> DEFINE m == Passed(c, a)
<1>5. /\ a = [x \in N |-> a[x]] /\ m = [x \in N |-> m[x]]
      /\ \A x \in N : m[x] = a[x] \/ (c = "AGENT_REDIRECT" /\ x = "cvs" /\ a[x] >= Power(4))
  BY <1>1, <1>2, PassedFits
<1> HIDE DEF m
<1>6. m = a \/ (c = "AGENT_REDIRECT" /\ a["cvs"] >= Power(4))
  <2>1. CASE \A x \in N : m[x] = a[x]
    BY <1>5, <2>1
  <2>2. CASE \E x \in N : m[x] # a[x]
    BY <1>5, <2>2
  <2> QED
    BY <2>1, <2>2
<1> QED
  BY <1>2, <1>3, <1>4, <1>6 DEF m

LEMMA ClientReads ==
  ASSUME NEW c \in Command, c # "AGENT_GET_QUEUEAGENT", NEW a, Asks(c, a)
  PROVE  /\ Read(CSMsg[c].res_in, sendErrCode).state = "failed"
         /\ \A b : Answers(c, a, b) =>
              \/ /\ Read(CSMsg[c].res_in, Write(CSMsg[c].res_out, b)) = Reading(<<>>, b)
                 /\ "queue" \in DOMAIN b => b["queue"] = a["queue"]
              \/ /\ Read(CSMsg[c].res_in, Write(CSMsg[c].res_out, b)).state = "failed"
                 /\ c = "AGENT_GET_QUEUE" /\ Len(b["queues"]) >= Base
<1>1. PICK N, R : Formed(c, N, R)
  BY AllFormed
<1>2. Read(CSMsg[c].res_in, sendErrCode).state = "failed"
  BY <1>1, ErrorsFail
<1>3. PICK p \in Patterns : a = Means(c, p)
  BY DEF Asks
<1>4. ASSUME NEW b, Answers(c, a, b)
      PROVE  \/ /\ Read(CSMsg[c].res_in, Write(CSMsg[c].res_out, b)) = Reading(<<>>, b)
                /\ "queue" \in DOMAIN b => b["queue"] = a["queue"]
             \/ /\ Read(CSMsg[c].res_in, Write(CSMsg[c].res_out, b)).state = "failed"
                /\ c = "AGENT_GET_QUEUE" /\ Len(b["queues"]) >= Base
  <2>1. PICK q \in Patterns, n \in Lengths : b = Answer(c, p, q, n)
    BY <1>3, <1>4 DEF Answers, Answer
  <2>2. n \in Nat /\ n < Power(2) /\ Base \in Nat
    <3>1. n \in 0 .. Base * Base - 1 /\ Base \in Nat
      BY WireAssumption
    <3>2. n \in Nat /\ n < Base * Base
      BY <3>1, SMT
    <3> QED
      BY <3>1, <3>2, SmallPowers
  <2>3. /\ b = [x \in R |-> b[x]]
        /\ "queue" \in R => "queue" \in N /\ b["queue"] = Passed(c, a)["queue"]
        /\ \A x \in R : x \in Lists => Len(b[x]) = n
    <3>1. /\ Answer(c, p, q, n) = [x \in R |-> Answer(c, p, q, n)[x]]
          /\ "queue" \in R => "queue" \in N
                              /\ Answer(c, p, q, n)["queue"] = Passed(c, Means(c, p))["queue"]
          /\ \A x \in R : x \in Lists => Len(Answer(c, p, q, n)[x]) = n
      BY <1>1, <2>2, AnswerFits
    <3> QED
      BY <1>3, <2>1, <3>1
  <2>4. "queue" \in N => Passed(c, a)["queue"] = a["queue"]
    <3>1. \A x \in N : \/ Passed(c, Means(c, p))[x] = Means(c, p)[x]
                       \/ c = "AGENT_REDIRECT" /\ x = "cvs" /\ Means(c, p)[x] >= Power(4)
      BY <1>1, PassedFits
    <3> QED
      BY <1>3, <3>1
  <2>5. "queue" \in DOMAIN b => b["queue"] = a["queue"]
    <3>1. DOMAIN b = R
      BY <2>3
    <3> QED
      BY <2>3, <2>4, <3>1
  <2>6. CASE "queues" \in R => Len(b["queues"]) < Base
    <3>1. "queues" \in R => Len(Answer(c, p, q, n)["queues"]) < Base
      BY <2>1, <2>6
    <3>2. Read(CSMsg[c].res_in, Write(CSMsg[c].res_out, Answer(c, p, q, n)))
          = Reading(<<>>, Answer(c, p, q, n))
      BY <1>1, <2>2, <3>1, AnswerRead
    <3> QED
      BY <2>1, <2>5, <3>2
  <2>7. CASE "queues" \in R /\ ~(Len(b["queues"]) < Base)
    <3>1. "queues" \in R /\ ~(Len(Answer(c, p, q, n)["queues"]) < Base)
      BY <2>1, <2>7
    <3>2. Read(CSMsg[c].res_in, Write(CSMsg[c].res_out, Answer(c, p, q, n))).state = "failed"
      BY <1>1, <2>2, <3>1, AnswerLong
    <3>3. c = "AGENT_GET_QUEUE"
      BY <1>1, <2>7, QueuesAlone
    <3>4. Len(b["queues"]) = n
      BY <2>3, <2>7 DEF Lists
    <3>5. Len(b["queues"]) >= Base
      BY <2>2, <2>7, <3>4
    <3> QED
      BY <2>1, <3>2, <3>3, <3>5
  <2> QED
    BY <2>6, <2>7
<1> QED
  BY <1>2, <1>4

\* What the server has is what was written, or nothing after an error code of the client's;
\* what the client has is the answer to the request, or the server's error code.
WireInv ==
  /\ pc \in {"idle", "server", "client", "called"}
  /\ pc # "idle" => cmd \in Command /\ Asks(cmd, asked)
  /\ heard # Nothing => pc # "idle" /\ heard = Passed(cmd, asked)
  /\ pc = "server" => \/ wire = <<>>
                      \/ wire = Write(CSMsg[cmd].req_out, Passed(cmd, asked))
  /\ pc = "client" => \/ told.body = Nothing /\ wire = sendErrCode
                      \/ /\ Answers(cmd, asked, told.body)
                         /\ wire = Write(CSMsg[cmd].res_out, told.body)
  /\ AnswerArrives

LEMMA WireInit == Init => WireInv
BY DEF Init, WireInv, AnswerArrives

LEMMA RequestStep ==
  ASSUME WireInv, NEW c \in Command, Request(c)
  PROVE  WireInv'
<1>1. /\ pc = "idle" /\ pc' = "server" /\ cmd' = c /\ heard' = heard
      /\ wire' = Write(CSMsg[c].req_out, Passed(c, asked'))
      /\ Asks(c, asked')
  BY DEF Request, Asks, Means
<1>2. heard = Nothing
  BY <1>1 DEF WireInv
<1>3. AnswerArrives'
  BY <1>1 DEF AnswerArrives
<1> QED
  BY <1>1, <1>2, <1>3 DEF WireInv

LEMMA ServeStep ==
  ASSUME WireInv, Serve
  PROVE  WireInv'
<1> DEFINE st == Read(CSMsg[cmd].req_in, wire)
<1>1. pc = "server" /\ pc' = "client" /\ cmd' = cmd /\ asked' = asked
  BY DEF Serve
<1>2. cmd \in Command /\ Asks(cmd, asked)
  BY <1>1 DEF WireInv
<1>3. AnswerArrives'
  BY <1>1 DEF AnswerArrives
<1>4. CASE st.state = "reading"
  <2>1. st = Reading(<<>>, Passed(cmd, asked))
    <3>1. wire = <<>> \/ wire = Write(CSMsg[cmd].req_out, Passed(cmd, asked))
      BY <1>1 DEF WireInv
    <3>2. wire # <<>>
      BY <1>2, <1>4, ServerReads
    <3> QED
      BY <1>2, <3>1, <3>2, ServerReads
  <2>2. st.got = Passed(cmd, asked)
    BY <2>1, ReadingIs
  <2>3. /\ heard' = st.got
        /\ \E q \in Patterns, n \in Lengths :
             told'.body = Answered(cmd, st.got, Samples(CSMsg[cmd].res_out, q, n))
        /\ wire' = Write(CSMsg[cmd].res_out, told'.body)
    BY <1>4 DEF Serve
  <2> HIDE DEF st
  <2>4. heard' = Passed(cmd, asked) /\ Answers(cmd, asked, told'.body)
    BY <2>2, <2>3 DEF Answers
  <2> QED
    BY <1>1, <1>2, <1>3, <2>3, <2>4 DEF WireInv
<1>5. CASE st.state # "reading"
  <2>1. told'.body = Nothing /\ wire' = sendErrCode /\ heard' = heard
    BY <1>5 DEF Serve
  <2> HIDE DEF st
  <2>2. heard # Nothing => heard = Passed(cmd, asked)
    BY DEF WireInv
  <2> QED
    BY <1>1, <1>2, <1>3, <2>1, <2>2 DEF WireInv
<1> QED
  BY <1>4, <1>5

LEMMA ReceiveStep ==
  ASSUME WireInv, Receive
  PROVE  WireInv'
<1> DEFINE st == Read(CSMsg[cmd].res_in, wire)
<1>1. /\ pc = "client" /\ cmd' = cmd /\ asked' = asked /\ heard' = heard /\ told' = told
      /\ \/ /\ st.state = "reading" /\ pc' = "called"
            /\ got' = [x \in Shown(cmd) \cap DOMAIN st.got |-> st.got[x]]
         \/ wire' = <<>> /\ pc' = "server"
  BY DEF Receive
<1>2. cmd \in Command /\ Asks(cmd, asked) /\ (heard # Nothing => heard = Passed(cmd, asked))
  BY <1>1 DEF WireInv
<1>3. ASSUME pc' = "called", cmd # "AGENT_GET_QUEUEAGENT"
      PROVE  /\ \A x \in DOMAIN got' : got'[x] = told'.body[x]
             /\ "queue" \in DOMAIN got' => got'["queue"] = asked'["queue"]
  <2> DEFINE b == told.body
  <2>1. /\ st.state = "reading"
        /\ got' = [x \in Shown(cmd) \cap DOMAIN st.got |-> st.got[x]]
    BY <1>1, <1>3
  <2>2. /\ Answers(cmd, asked, b) /\ wire = Write(CSMsg[cmd].res_out, b)
    <3>1. wire # sendErrCode
      BY <1>2, <1>3, <2>1, ClientReads
    <3> QED
      BY <1>1, <3>1 DEF WireInv
  <2> HIDE DEF b
  <2>3. st = Reading(<<>>, b) /\ ("queue" \in DOMAIN b => b["queue"] = asked["queue"])
    BY <1>2, <1>3, <2>1, <2>2, ClientReads
  <2>4. st.got = b
    BY <2>3, ReadingIs
  <2> HIDE DEF st
  <2>5. DOMAIN got' = Shown(cmd) \cap DOMAIN b /\ \A x \in DOMAIN got' : got'[x] = b[x]
    BY <2>1, <2>4
  <2> QED
    BY <1>1, <2>3, <2>5 DEF b
<1>4. AnswerArrives'
  BY <1>1, <1>3 DEF AnswerArrives
<1> HIDE DEF st
<1> QED
  BY <1>1, <1>2, <1>4 DEF WireInv

LEMMA ReturnStep ==
  ASSUME Return
  PROVE  WireInv'
<1>1. pc' = "idle" /\ heard' = Nothing
  BY DEF Return
<1>2. AnswerArrives'
  BY <1>1 DEF AnswerArrives
<1> QED
  BY <1>1, <1>2 DEF WireInv

LEMMA WireStep == WireInv /\ [Next]_vars => WireInv'
<1> SUFFICES ASSUME WireInv, [Next]_vars PROVE WireInv'
  OBVIOUS
<1>1. CASE \E c \in Command : Request(c)
  BY <1>1, RequestStep
<1>2. CASE Serve
  BY <1>2, ServeStep
<1>3. CASE Receive
  BY <1>3, ReceiveStep
<1>4. CASE Return
  BY <1>4, ReturnStep
<1>5. CASE UNCHANGED vars
  BY <1>5 DEF vars, WireInv, AnswerArrives
<1> QED
  BY <1>1, <1>2, <1>3, <1>4, <1>5 DEF Next

\* The invariant holds in every reachable state.
THEOREM WireInductive == Spec => []WireInv
BY WireInit, WireStep, PTL DEF Spec

\* The server reads from every request what the caller has asked for, whatever the values
\* of its fields that the patterns give, but for a redirect's long conversation (encode and
\* decode of the requests).
THEOREM WireRequests == Spec => []RequestArrives
<1>1. WireInv => RequestArrives
  <2> SUFFICES ASSUME WireInv, heard # Nothing PROVE heard = asked \/ LongCvs
    BY DEF RequestArrives
  <2>1. cmd \in Command /\ Asks(cmd, asked) /\ heard = Passed(cmd, asked)
    BY DEF WireInv
  <2>2. heard = asked \/ (cmd = "AGENT_REDIRECT" /\ asked["cvs"] >= Power(4))
    BY <2>1, ServerReads
  <2> QED
    BY <2>2 DEF LongCvs
<1> QED
  BY <1>1, WireInductive, PTL

\* What a callback is given is what the server has put into its answer, and it names the
\* queue of the request (encode and decode of the responses).
THEOREM WireAnswers == Spec => []AnswerArrives
<1>1. WireInv => AnswerArrives
  BY DEF WireInv
<1> QED
  BY <1>1, WireInductive, PTL

\* The client sends an error code back for no answer but those whose two functions disagree
\* and the lists of queues that the index cannot count.
THEOREM WireReadable == Spec => AnswersReadable
<1>1. WireInv /\ [Next]_vars => [Receive /\ pc' = "server" /\ told.body # Nothing => Unreadable]_vars
  <2> SUFFICES ASSUME WireInv, Receive, pc' = "server", told.body # Nothing,
                      cmd # "AGENT_GET_QUEUEAGENT"
               PROVE  cmd = "AGENT_GET_QUEUE" /\ Len(told.body.queues) >= Base
    BY DEF Unreadable
  <2> DEFINE st == Read(CSMsg[cmd].res_in, wire)
             b == told.body
  <2>1. pc = "client" /\ st.state = "failed"
    BY DEF Receive
  <2>2. cmd \in Command /\ Asks(cmd, asked)
    BY <2>1 DEF WireInv
  <2>3. Answers(cmd, asked, b) /\ wire = Write(CSMsg[cmd].res_out, b)
    BY <2>1 DEF WireInv
  <2> HIDE DEF b
  <2>4. st # Reading(<<>>, b)
    BY <2>1, ReadingIs
  <2>5. cmd = "AGENT_GET_QUEUE" /\ Len(b["queues"]) >= Base
    BY <2>2, <2>3, <2>4, ClientReads
  <2> QED
    BY <2>5 DEF b
<1> QED
  BY <1>1, WireInductive, PTL DEF Spec, AnswersReadable

=============================================================================
