----------------------------- MODULE IpamProofs -----------------------------
(***************************************************************************)
(* Proofs about IpamBytes and, through it, Ipam: for every width of an     *)
(* address, every base and every CIDR.                                     *)
(***************************************************************************)
EXTENDS IpamBytes, TLAPS, WellFoundedInduction

-----------------------------------------------------------------------------
(* Induction, for a set of numbers: the provers cannot instantiate the     *)
(* library's induction theorems, but they can cite that Nat is well        *)
(* founded.                                                                *)

(* A set of numbers that is not empty has a least element.                 *)
LEMMA LeastNumber ==
  ASSUME NEW T, T \subseteq Nat, T # {}
  PROVE  \E x \in T : \A y \in T : x <= y
<1> DEFINE R == OpToRel(<, Nat)
<1>1. IsWellFoundedOn(R, Nat)
  BY NatLessThanWellFounded
<1>2. \A x, y \in Nat : x < y => <<x, y>> \in R
  BY DEF OpToRel
<1> HIDE DEF R
<1>3. PICK x \in T : \A y \in T : ~(<<y, x>> \in R)
  BY <1>1, WFMin
<1>4. ASSUME NEW y \in T
      PROVE  x <= y
  <2>1. x \in Nat /\ y \in Nat /\ ~(<<y, x>> \in R)
    BY <1>3
  <2>2. ~(y < x)
    BY <1>2, <2>1
  <2> QED
    BY <2>1, <2>2
<1> QED
  BY <1>4

(* A set with 0, and with n + 1 for each of its numbers n, has all         *)
(* numbers.                                                                *)
LEMMA Induction ==
  ASSUME NEW S, 0 \in S, \A n \in Nat : n \in S => n + 1 \in S
  PROVE  \A n \in Nat : n \in S
<1> SUFFICES ASSUME NEW m \in Nat, m \notin S
             PROVE  FALSE
  OBVIOUS
<1> DEFINE T == {n \in Nat : n \notin S}
<1>1. T \subseteq Nat /\ T # {}
  OBVIOUS
<1>2. PICK x \in T : \A y \in T : x <= y
  BY <1>1, LeastNumber
<1>3. x # 0 /\ x \in Nat /\ x \notin S
  OBVIOUS
<1>4. x - 1 \in Nat /\ x - 1 \in S
  BY <1>2, <1>3
<1> QED
  BY <1>3, <1>4

(* From m up to n.                                                         *)
LEMMA Upwards ==
  ASSUME NEW S, NEW m \in Nat, NEW n \in Nat, m \in S, \A i \in m..n - 1 : i \in S => i + 1 \in S
  PROVE  \A i \in m..n : i \in S
<1> DEFINE T == {k \in Nat : m + k <= n => m + k \in S}
<1>1. 0 \in T
  OBVIOUS
<1>2. ASSUME NEW k \in Nat, k \in T
      PROVE  k + 1 \in T
  <2>1. CASE m + (k + 1) <= n
    <3>1. m + k \in m..n - 1 /\ m + k \in S
      BY <1>2, <2>1
    <3>2. (m + k) + 1 \in S /\ (m + k) + 1 = m + (k + 1)
      BY <3>1
    <3> QED
      BY <3>2
  <2>2. CASE ~(m + (k + 1) <= n)
    BY <2>2
  <2> QED
    BY <2>1, <2>2
<1> HIDE DEF T
<1>3. \A k \in Nat : k \in T
  BY <1>1, <1>2, Induction
<1>4. ASSUME NEW i \in m..n
      PROVE  i \in S
  <2>1. i - m \in Nat /\ m + (i - m) = i /\ i <= n
    OBVIOUS
  <2>2. i - m \in T
    BY <1>3, <2>1
  <2> QED
    BY <2>1, <2>2 DEF T
<1> QED
  BY <1>4

-----------------------------------------------------------------------------
(* The numbers bytes stand for *)

(* The recursive definition of Digits defines a function.                  *)
AreDigits(v, lead, d, n) == v = [i \in 0..n |-> IF i = 0 THEN lead ELSE v[i - 1] * Base + d[i]]

(* There is such a function for every number of bytes: it is built from    *)
(* the one before.                                                         *)
LEMMA DigitsExist ==
  ASSUME NEW lead, NEW d
  PROVE  \A n \in Nat : \E v : AreDigits(v, lead, d, n)
<1> DEFINE P(n) == \E v : AreDigits(v, lead, d, n)
           S == {n \in Nat : P(n)}
<1> USE DEF AreDigits
<1>1. P(0)
  <2> DEFINE v == [i \in 0..0 |-> lead]
  <2>1. v = [i \in 0..0 |-> IF i = 0 THEN lead ELSE v[i - 1] * Base + d[i]]
    OBVIOUS
  <2> QED
    BY <2>1
<1>2. ASSUME NEW n \in Nat, P(n)
      PROVE  P(n + 1)
  <2>1. PICK v : v = [i \in 0..n |-> IF i = 0 THEN lead ELSE v[i - 1] * Base + d[i]]
    BY <1>2
  <2> DEFINE w == [i \in 0..n + 1 |-> IF i = n + 1 THEN v[n] * Base + d[n + 1] ELSE v[i]]
  <2>2. /\ DOMAIN w = 0..n + 1
        /\ w[n + 1] = v[n] * Base + d[n + 1]
        /\ \A i \in 0..n : w[i] = v[i]
    OBVIOUS
  <2>3. \A i \in 0..n + 1 : w[i] = IF i = 0 THEN lead ELSE w[i - 1] * Base + d[i]
    <3>1. \A i \in 0..n : v[i] = IF i = 0 THEN lead ELSE v[i - 1] * Base + d[i]
      BY <2>1
    <3> HIDE DEF w
    <3>2. ASSUME NEW i \in 0..n
          PROVE  w[i] = IF i = 0 THEN lead ELSE w[i - 1] * Base + d[i]
      <4>1. i # 0 => i - 1 \in 0..n
        OBVIOUS
      <4> QED
        BY <2>2, <3>1, <4>1
    <3>3. w[n + 1] = w[(n + 1) - 1] * Base + d[n + 1]
      BY <2>2
    <3> QED
      BY <3>2, <3>3
  <2>4. w = [i \in 0..n + 1 |-> w[i]]
    OBVIOUS
  <2> HIDE DEF w
  <2>5. w = [i \in 0..n + 1 |-> IF i = 0 THEN lead ELSE w[i - 1] * Base + d[i]]
    BY <2>3, <2>4
  <2> QED
    BY <2>5
<1> HIDE DEF AreDigits
<1>3. 0 \in S /\ \A n \in Nat : n \in S => n + 1 \in S
  BY <1>1, <1>2
<1> HIDE DEF S
<1>4. \A n \in Nat : n \in S
  BY <1>3, Induction
<1> QED
  BY <1>4 DEF S

(* So Digits satisfies its two equations.                                  *)
LEMMA DigitsAre ==
  ASSUME NEW lead, NEW d
  PROVE  /\ Digits(lead, d)[0] = lead
         /\ \A i \in 1..Width : Digits(lead, d)[i] = Digits(lead, d)[i - 1] * Base + d[i]
<1> DEFINE v == Digits(lead, d)
<1>1. \E f : AreDigits(f, lead, d, Width)
  <2>1. Width \in Nat
    BY BytesAssumption
  <2> QED
    BY <2>1, DigitsExist
<1>2. v = [i \in 0..Width |-> IF i = 0 THEN lead ELSE v[i - 1] * Base + d[i]]
  BY <1>1 DEF Digits, AreDigits
<1> HIDE DEF v
<1>3. v[0] = lead /\ \A i \in 1..Width : v[i] = v[i - 1] * Base + d[i]
  BY <1>2, BytesAssumption
<1> QED
  BY <1>3 DEF v

(* The address of zeros is an address.                                     *)
LEMMA ZeroIsIP == Zero \in IP
BY BytesAssumption DEF Zero, IP, Digit

(* A byte of an address is below Base.                                     *)
LEMMA ByteOf ==
  ASSUME NEW d \in IP, NEW i \in 1..Width
  PROVE  d[i] \in 0..Base - 1
BY DEF IP, Digit

(* What is used of multiplication by Base.                                 *)
LEMMA Products ==
  ASSUME NEW a \in Nat, NEW b \in Nat
  PROVE  /\ a * Base \in Nat
         /\ a < b => a * Base + Base <= b * Base
         /\ (a + 1) * Base = a * Base + Base
<1>1. Base \in Nat \ {0, 1}
  BY BytesAssumption
<1>2. a * Base \in Nat /\ b * Base \in Nat
  BY <1>1
<1>3. (a + 1) * Base = a * Base + Base
  BY <1>1
<1>4. ASSUME a < b
      PROVE  a * Base + Base <= b * Base
  <2>1. PICK c \in Nat : b = (a + 1) + c
    <3>1. b - (a + 1) \in Nat /\ b = (a + 1) + (b - (a + 1))
      BY <1>4
    <3> QED
      BY <3>1
  <2>2. b * Base = (a + 1) * Base + c * Base /\ c * Base \in Nat
    BY <1>1, <2>1
  <2> QED
    BY <1>1, <1>2, <1>3, <2>2
<1> QED
  BY <1>2, <1>3, <1>4

(* The bytes of an address stand for a natural number, after any of them.  *)
LEMMA DigitsNat ==
  ASSUME NEW lead \in Nat, NEW d \in IP
  PROVE  \A i \in 0..Width : Digits(lead, d)[i] \in Nat
<1> DEFINE v == Digits(lead, d)
           S == {i \in Nat : v[i] \in Nat}
<1> HIDE DEF v
<1>1. 0 \in S
  BY DigitsAre DEF v
<1>2. ASSUME NEW i \in 0..Width - 1, i \in S
      PROVE  i + 1 \in S
  <2>1. i + 1 \in 1..Width /\ (i + 1) - 1 = i /\ i + 1 \in Nat
    BY BytesAssumption
  <2>2. v[i + 1] = v[i] * Base + d[i + 1]
    BY <2>1, DigitsAre DEF v
  <2>3. v[i] \in Nat /\ v[i] * Base \in Nat /\ d[i + 1] \in Nat
    BY <1>2, <2>1, Products, ByteOf
  <2> QED
    BY <2>1, <2>2, <2>3
<1> HIDE DEF S
<1>3. Width \in Nat /\ 0 \in Nat
  BY BytesAssumption
<1>4. \A i \in 0..Width : i \in S
  BY <1>1, <1>2, <1>3, Upwards
<1> QED
  BY <1>4 DEF S, v

(* What is less after some bytes is less after more of them: the first     *)
(* difference decides.                                                     *)
LEMMA DigitsLess ==
  ASSUME NEW x \in Nat, NEW d \in IP, NEW y \in Nat, NEW e \in IP,
         NEW m \in 0..Width, Digits(x, d)[m] < Digits(y, e)[m]
  PROVE  Digits(x, d)[Width] < Digits(y, e)[Width]
<1> DEFINE v == Digits(x, d)
           w == Digits(y, e)
           S == {i \in Nat : v[i] < w[i]}
<1> HIDE DEF v, w
<1>1. Width \in Nat /\ m \in Nat /\ m \in S
  BY BytesAssumption DEF v, w
<1>2. ASSUME NEW i \in m..Width - 1, i \in S
      PROVE  i + 1 \in S
  <2>1. i \in 0..Width /\ i + 1 \in 1..Width /\ (i + 1) - 1 = i /\ i + 1 \in Nat
    BY <1>1
  <2>2. v[i + 1] = v[i] * Base + d[i + 1] /\ w[i + 1] = w[i] * Base + e[i + 1]
    BY <2>1, DigitsAre DEF v, w
  <2>3. v[i] \in Nat /\ w[i] \in Nat /\ v[i] < w[i]
    BY <1>2, <2>1, DigitsNat DEF v, w
  <2>4. v[i] * Base \in Nat /\ w[i] * Base \in Nat /\ v[i] * Base + Base <= w[i] * Base
    BY <2>3, Products
  <2>5. d[i + 1] \in 0..Base - 1 /\ e[i + 1] \in 0..Base - 1 /\ Base \in Nat
    BY <2>1, ByteOf, BytesAssumption
  <2>6. v[i + 1] < w[i + 1]
    BY <2>2, <2>4, <2>5
  <2> QED
    BY <2>1, <2>6
<1> HIDE DEF S
<1>3. \A i \in m..Width : i \in S
  BY <1>1, <1>2, Upwards
<1>4. Width \in m..Width
  BY <1>1
<1> QED
  BY <1>3, <1>4 DEF S, v, w

(* Equal bytes stand for equal numbers.                                    *)
LEMMA DigitsSame ==
  ASSUME NEW x \in Nat, NEW d \in IP, NEW e \in IP,
         NEW m \in 0..Width, \A i \in 1..m : d[i] = e[i]
  PROVE  Digits(x, d)[m] = Digits(x, e)[m]
<1> DEFINE v == Digits(x, d)
           w == Digits(x, e)
           S == {i \in Nat : v[i] = w[i]}
<1> HIDE DEF v, w
<1>1. m \in Nat /\ 0 \in Nat
  BY BytesAssumption
<1>2. 0 \in S
  BY DigitsAre DEF v, w
<1>3. ASSUME NEW i \in 0..m - 1, i \in S
      PROVE  i + 1 \in S
  <2>1. i + 1 \in 1..Width /\ (i + 1) - 1 = i /\ i + 1 \in Nat /\ i + 1 \in 1..m
    BY <1>1, BytesAssumption
  <2>2. v[i + 1] = v[i] * Base + d[i + 1] /\ w[i + 1] = w[i] * Base + e[i + 1]
    BY <2>1, DigitsAre DEF v, w
  <2>3. v[i] = w[i] /\ d[i + 1] = e[i + 1]
    BY <1>3, <2>1
  <2> QED
    BY <2>1, <2>2, <2>3
<1> HIDE DEF S
<1>4. \A i \in 0..m : i \in S
  BY <1>1, <1>2, <1>3, Upwards
<1> QED
  BY <1>1, <1>4 DEF S, v, w

(* An address is a number of the address space.                            *)
LEMMA ValueType ==
  ASSUME NEW ip \in IP
  PROVE  Value(ip) \in Numeric!Addr
<1>1. 0 \in 0..Width /\ Width \in 0..Width
  BY BytesAssumption
<1>2. Digits(0, ip)[0] = 0 /\ Digits(1, Zero)[0] = 1
  BY DigitsAre
<1>3. Digits(0, ip)[0] < Digits(1, Zero)[0]
  BY <1>2
<1>4. Digits(0, ip)[Width] < Digits(1, Zero)[Width]
  BY <1>1, <1>3, DigitsLess, ZeroIsIP
<1>5. Digits(0, ip)[Width] \in Nat /\ Digits(1, Zero)[Width] \in Nat
  BY <1>1, DigitsNat, ZeroIsIP
<1> QED
  BY <1>4, <1>5 DEF Value, Numeric!Addr

(* Comparing bytes is comparing numbers.                                   *)
LEMMA CompareIs ==
  ASSUME NEW l \in IP, NEW r \in IP
  PROVE  \/ bytesCompare(l, r) = 0 /\ l = r
         \/ bytesCompare(l, r) = -1 /\ Value(l) < Value(r)
         \/ bytesCompare(l, r) = 1 /\ Value(r) < Value(l)
<1> DEFINE differ == {i \in 1..Width : l[i] # r[i]}
<1>1. CASE differ = {}
  <2>1. \A i \in 1..Width : l[i] = r[i]
    BY <1>1
  <2>2. l = [i \in 1..Width |-> l[i]] /\ r = [i \in 1..Width |-> r[i]]
    BY DEF IP
  <2>3. l = r
    BY <2>1, <2>2
  <2> QED
    BY <1>1, <2>3 DEF bytesCompare
<1>2. CASE differ # {}
  <2>1. \E x \in differ : \A y \in differ : x <= y
    <3>1. differ \subseteq Nat
      BY BytesAssumption
    <3> HIDE DEF differ
    <3> QED
      BY <1>2, <3>1, LeastNumber
  <2> DEFINE m == Min(differ)
  <2>2. m \in differ /\ \A y \in differ : m <= y
    BY <2>1 DEF Min
  <2>3. bytesCompare(l, r) = IF l[m] < r[m] THEN -1 ELSE 1
    BY <1>2 DEF bytesCompare
  <2> HIDE DEF m
  <2>4. m \in 1..Width /\ l[m] # r[m] /\ \A i \in 1..m - 1 : l[i] = r[i]
    <3>1. m \in 1..Width /\ l[m] # r[m]
      BY <2>2
    <3>2. ASSUME NEW i \in 1..m - 1, l[i] # r[i]
          PROVE  FALSE
      <4>1. i \in differ /\ i < m /\ i \in Int /\ m \in Int
        BY <3>1, <3>2, BytesAssumption
      <4> QED
        BY <2>2, <4>1
    <3> QED
      BY <3>1, <3>2
  <2>5. m - 1 \in 0..Width /\ m \in 0..Width /\ l[m] \in 0..Base - 1 /\ r[m] \in 0..Base - 1
    BY <2>4, ByteOf, BytesAssumption
  <2>6. Digits(0, l)[m - 1] = Digits(0, r)[m - 1] /\ Digits(0, l)[m - 1] \in Nat
    BY <2>4, <2>5, DigitsSame, DigitsNat
  <2>7. /\ Digits(0, l)[m] = Digits(0, l)[m - 1] * Base + l[m]
        /\ Digits(0, r)[m] = Digits(0, r)[m - 1] * Base + r[m]
    BY <2>4, DigitsAre
  <2>8. Digits(0, l)[m - 1] * Base \in Nat
    BY <2>6, Products
  <2>9. CASE l[m] < r[m]
    <3>1. Digits(0, l)[m] < Digits(0, r)[m]
      BY <2>5, <2>6, <2>7, <2>8, <2>9
    <3> QED
      BY <2>3, <2>5, <2>9, <3>1, DigitsLess DEF Value
  <2>10. CASE r[m] < l[m]
    <3>1. Digits(0, r)[m] < Digits(0, l)[m]
      BY <2>5, <2>6, <2>7, <2>8, <2>10
    <3>2. ~(l[m] < r[m])
      BY <2>5, <2>10
    <3> QED
      BY <2>3, <2>5, <3>1, <3>2, DigitsLess DEF Value
  <2> QED
    BY <2>4, <2>5, <2>9, <2>10
<1> QED
  BY <1>1, <1>2

(* The same, for the conditions of the code.                               *)
LEMMA CompareValues ==
  ASSUME NEW l \in IP, NEW r \in IP
  PROVE  /\ Value(l) \in Nat /\ Value(r) \in Nat
         /\ l = r <=> Value(l) = Value(r)
         /\ bytesCompare(l, r) <= 0 <=> Value(l) <= Value(r)
         /\ bytesCompare(l, r) > 0 <=> Value(l) > Value(r)
         /\ bytesCompare(l, r) >= 0 <=> Value(l) >= Value(r)
<1>1. Value(l) \in Nat /\ Value(r) \in Nat
  <2>1. 0 \in Nat /\ Width \in 0..Width
    BY BytesAssumption
  <2> QED
    BY <2>1, DigitsNat DEF Value
<1>2. CASE bytesCompare(l, r) = 0 /\ l = r
  BY <1>1, <1>2
<1>3. CASE bytesCompare(l, r) = -1 /\ Value(l) < Value(r)
  BY <1>1, <1>3
<1>4. CASE bytesCompare(l, r) = 1 /\ Value(r) < Value(l)
  BY <1>1, <1>4
<1> QED
  BY <1>2, <1>3, <1>4, CompareIs

(* Hence an address is in a set when its number is in the set's numbers.   *)
LEMMA ValuesMember ==
  ASSUME NEW ip \in IP, NEW S \in SUBSET IP
  PROVE  ip \in S <=> Value(ip) \in Values(S)
<1>1. ASSUME Value(ip) \in Values(S)
      PROVE  ip \in S
  <2>1. PICK q \in S : Value(ip) = Value(q)
    BY <1>1 DEF Values
  <2>2. ip = q
    BY <2>1, CompareValues
  <2> QED
    BY <2>2
<1> QED
  BY <1>1 DEF Values

(* A set of addresses is a set of numbers of the address space.            *)
LEMMA ValuesType ==
  ASSUME NEW S \in SUBSET IP
  PROVE  Values(S) \in SUBSET Numeric!Addr
BY ValueType DEF Values

(* Incrementing bytes with a carry is incrementing numbers: up to byte i,  *)
(* the increment has an effect when all bytes after i go from Base - 1 to  *)
(* 0, and it goes from the last number of i bytes to 0.                    *)
LEMMA NextIs ==
  ASSUME NEW ip \in IP
  PROVE  /\ getNextIP(ip) \in IP
         /\ Value(getNextIP(ip)) = (Value(ip) + 1) % Digits(1, Zero)[Width]
<1> DEFINE nxt == getNextIP(ip)
           v == Digits(0, ip)
           w == Digits(0, nxt)
           p == Digits(1, Zero)
           Carry(i) == \A j \in i + 1..Width : ip[j] = Base - 1
           Bumped(i) == w[i] = IF Carry(i)
                                 THEN IF v[i] + 1 = p[i] THEN 0 ELSE v[i] + 1
                                 ELSE v[i]
           S == {i \in Nat : v[i] < p[i] /\ Bumped(i)}
<1>1. Width \in Nat /\ Width >= 1 /\ Base \in Nat /\ Base >= 2
  BY BytesAssumption
<1>2. \A i \in 1..Width : nxt[i] = IF Carry(i) THEN (ip[i] + 1) % Base ELSE ip[i]
  BY DEF getNextIP
<1>3. nxt \in IP
  <2>1. \A i \in 1..Width : ip[i] \in 0..Base - 1
    BY ByteOf
  <2>2. ASSUME NEW i \in 1..Width
        PROVE  nxt[i] \in 0..Base - 1
    <3>1. ip[i] \in 0..Base - 1 /\ (ip[i] + 1) % Base \in 0..Base - 1
      BY <1>1, <2>1
    <3> QED
      BY <1>2, <3>1
  <2>3. nxt = [i \in 1..Width |-> nxt[i]]
    BY DEF getNextIP
  <2> HIDE DEF nxt
  <2> QED
    BY <2>2, <2>3 DEF IP, Digit
<1> HIDE DEF nxt, v, w, p
<1>4. \A i \in 0..Width : v[i] \in Nat /\ w[i] \in Nat /\ p[i] \in Nat
  BY <1>3, DigitsNat, ZeroIsIP DEF v, w, p
<1>5. /\ v[0] = 0 /\ w[0] = 0 /\ p[0] = 1
      /\ \A i \in 1..Width : /\ v[i] = v[i - 1] * Base + ip[i]
                             /\ w[i] = w[i - 1] * Base + nxt[i]
                             /\ p[i] = p[i - 1] * Base + Zero[i]
  BY DigitsAre DEF v, w, p
<1>6. 0 \in S
  BY <1>5
<1>7. ASSUME NEW i \in 0..Width - 1, i \in S
      PROVE  i + 1 \in S
  <2> DEFINE k == i + 1
  <2>1. i \in 0..Width /\ k \in 1..Width /\ k - 1 = i /\ k \in Nat /\ k \in 0..Width
    BY <1>1
  <2> HIDE DEF k
  <2>2. /\ v[k] = v[i] * Base + ip[k]
        /\ w[k] = w[i] * Base + nxt[k]
        /\ p[k] = p[i] * Base
    <3>1. Zero[k] = 0
      BY <2>1 DEF Zero
    <3>2. p[i] \in Nat /\ p[i] * Base \in Nat
      BY <1>4, <2>1, Products
    <3> QED
      BY <1>5, <2>1, <3>1, <3>2
  <2>3. v[i] \in Nat /\ w[i] \in Nat /\ p[i] \in Nat /\ v[k] \in Nat /\ w[k] \in Nat /\ p[k] \in Nat
    BY <1>4, <2>1
  <2>4. v[i] < p[i] /\ Bumped(i)
    BY <1>7
  <2>5. ip[k] \in 0..Base - 1
    BY <2>1, ByteOf
  <2>6. v[i] * Base \in Nat /\ v[i] * Base + Base <= p[i] * Base /\ p[i] * Base \in Nat
    BY <2>3, <2>4, Products
  <2>7. v[k] < p[k]
    BY <1>1, <2>2, <2>5, <2>6
  <2>8. Carry(i) <=> Carry(k) /\ ip[k] = Base - 1
    <3>1. k = i + 1 /\ i \in Nat
      BY <1>1 DEF k
    <3>2. \A j : j \in i + 1..Width <=> j \in k + 1..Width \/ j = k
      BY <1>1, <2>1, <3>1
    <3> QED
      BY <3>2
  <2>9. CASE ~Carry(k)
    <3>1. w[i] = v[i] /\ nxt[k] = ip[k]
      BY <1>2, <2>1, <2>4, <2>8, <2>9
    <3>2. w[k] = v[k]
      BY <2>2, <3>1
    <3> QED
      BY <2>1, <2>7, <2>9, <3>2 DEF k
  <2>10. CASE Carry(k) /\ ip[k] # Base - 1
    <3>1. w[i] = v[i]
      BY <2>4, <2>8, <2>10
    <3>2. nxt[k] = ip[k] + 1
      <4>1. nxt[k] = (ip[k] + 1) % Base
        BY <1>2, <2>1, <2>10
      <4>2. (ip[k] + 1) % Base = ip[k] + 1
        BY <1>1, <2>5, <2>10
      <4> QED
        BY <4>1, <4>2
    <3>3. w[k] = v[k] + 1
      BY <2>2, <2>5, <2>6, <3>1, <3>2
    <3>4. v[k] + 1 # p[k]
      BY <1>1, <2>2, <2>5, <2>6, <2>10
    <3> QED
      BY <2>1, <2>7, <2>10, <3>3, <3>4 DEF k
  <2>11. CASE Carry(k) /\ ip[k] = Base - 1
    <3>1. nxt[k] = 0
      <4>1. nxt[k] = (ip[k] + 1) % Base
        BY <1>2, <2>1, <2>11
      <4>2. (ip[k] + 1) % Base = 0
        BY <1>1, <2>11
      <4> QED
        BY <4>1, <4>2
    <3>2. w[i] = IF v[i] + 1 = p[i] THEN 0 ELSE v[i] + 1
      BY <2>4, <2>8, <2>11
    <3>3. w[k] = w[i] * Base
      <4>1. w[i] * Base \in Nat
        BY <2>3, Products
      <4> QED
        BY <2>2, <3>1, <4>1
    <3>4. v[k] + 1 = v[i] * Base + Base
      BY <1>1, <2>2, <2>6, <2>11
    <3>5. (v[i] + 1) * Base = v[i] * Base + Base
      BY <2>3, Products
    <3>6. CASE v[i] + 1 = p[i]
      <4>1. w[k] = 0
        BY <1>1, <3>2, <3>3, <3>6
      <4>2. v[k] + 1 = p[k]
        BY <2>2, <3>4, <3>5, <3>6
      <4> QED
        BY <2>1, <2>7, <2>11, <4>1, <4>2 DEF k
    <3>7. CASE v[i] + 1 # p[i]
      <4>1. w[k] = v[k] + 1
        BY <3>2, <3>3, <3>4, <3>5, <3>7
      <4>2. v[i] + 1 \in Nat /\ v[i] + 1 < p[i]
        BY <2>3, <2>4, <3>7
      <4>3. (v[i] + 1) * Base + Base <= p[i] * Base /\ (v[i] + 1) * Base \in Nat
        BY <2>3, <4>2, Products
      <4>4. v[k] + 1 # p[k]
        BY <1>1, <2>2, <2>6, <3>4, <3>5, <4>3
      <4> QED
        BY <2>1, <2>7, <2>11, <4>1, <4>4 DEF k
    <3> QED
      BY <3>6, <3>7
  <2> QED
    BY <2>9, <2>10, <2>11
<1> HIDE DEF S
<1>8. \A i \in 0..Width : i \in S
  BY <1>1, <1>6, <1>7, Upwards
<1>9. Width \in 0..Width /\ Carry(Width)
  BY <1>1
<1>10. v[Width] < p[Width] /\ w[Width] = IF v[Width] + 1 = p[Width] THEN 0 ELSE v[Width] + 1
  <2>1. Width \in S
    BY <1>8, <1>9
  <2> QED
    BY <1>9, <2>1 DEF S
<1>11. v[Width] \in Nat /\ p[Width] \in Nat
  BY <1>4, <1>9
<1>12. w[Width] = (v[Width] + 1) % p[Width]
  <2>1. CASE v[Width] + 1 = p[Width]
    <3>1. p[Width] % p[Width] = 0
      BY <1>10, <1>11
    <3> QED
      BY <1>10, <2>1, <3>1
  <2>2. CASE v[Width] + 1 < p[Width]
    <3>1. (v[Width] + 1) % p[Width] = v[Width] + 1
      BY <1>10, <1>11, <2>2
    <3> QED
      BY <1>10, <1>11, <2>2, <3>1
  <2> QED
    BY <1>10, <1>11, <2>1, <2>2
<1> QED
  BY <1>3, <1>12 DEF Value, v, w, p, nxt

(* Every number of the address space is the number of an address.          *)
LEMMA ValueOnto ==
  ASSUME NEW n \in Numeric!Addr
  PROVE  \E ip \in IP : Value(ip) = n
<1> DEFINE p == Digits(1, Zero)
           Reached(i) == \A x \in 0..p[i] - 1 : \E ip \in IP : Digits(0, ip)[i] = x
           S == {i \in Nat : Reached(i)}
<1>1. Width \in Nat /\ 0 \in Nat /\ Base \in Nat /\ Base >= 2
  BY BytesAssumption
<1> HIDE DEF p
<1>2. p[0] = 1 /\ \A i \in 1..Width : p[i] = p[i - 1] * Base + Zero[i]
  BY DigitsAre DEF p
<1>3. \A i \in 0..Width : p[i] \in Nat
  BY DigitsNat, ZeroIsIP DEF p
<1>4. 0 \in S
  <2>1. Digits(0, Zero)[0] = 0
    BY DigitsAre
  <2>2. \A x \in 0..p[0] - 1 : x = 0
    BY <1>2
  <2> QED
    BY <2>1, <2>2, ZeroIsIP
<1>5. ASSUME NEW i \in 0..Width - 1, i \in S
      PROVE  i + 1 \in S
  <2> DEFINE k == i + 1
  <2>1. i \in 0..Width /\ k \in 1..Width /\ k - 1 = i /\ k \in Nat /\ i \in Nat /\ i < k
    BY <1>1
  <2> HIDE DEF k
  <2>2. p[k] = p[i] * Base /\ p[i] \in Nat /\ p[i] * Base \in Nat
    <3>1. Zero[k] = 0
      BY <2>1 DEF Zero
    <3>2. p[i] \in Nat /\ p[i] * Base \in Nat
      BY <1>3, <2>1, Products
    <3> QED
      BY <1>2, <2>1, <3>1, <3>2
  <2>3. ASSUME NEW x \in 0..p[k] - 1
        PROVE  \E ip \in IP : Digits(0, ip)[k] = x
    <3> DEFINE q == x \div Base
               r == x % Base
    <3>1. x \in Nat /\ x < p[i] * Base
      BY <2>2
    <3>2. q \in Nat /\ r \in 0..Base - 1 /\ x = q * Base + r
      BY <1>1, <3>1
    <3> HIDE DEF q, r
    <3>3. q < p[i]
      <4>1. p[i] < q => p[i] * Base + Base <= q * Base
        BY <2>2, <3>2, Products
      <4>2. p[i] = q => p[i] * Base = q * Base
        OBVIOUS
      <4>3. q * Base \in Nat
        BY <3>2, Products
      <4> QED
        BY <1>1, <2>2, <3>1, <3>2, <4>1, <4>2, <4>3
    <3>4. PICK ip \in IP : Digits(0, ip)[i] = q
      <4>1. q \in 0..p[i] - 1
        BY <2>2, <3>2, <3>3
      <4> QED
        BY <1>5, <4>1
    <3> DEFINE ip2 == [ip EXCEPT ![k] = r]
    <3>5. ip2 \in IP /\ ip2[k] = r /\ \A j \in 1..i : ip[j] = ip2[j]
      BY <2>1, <3>2 DEF IP, Digit
    <3> HIDE DEF ip2
    <3>6. Digits(0, ip2)[i] = q
      BY <1>1, <2>1, <3>4, <3>5, DigitsSame
    <3>7. Digits(0, ip2)[k] = Digits(0, ip2)[i] * Base + ip2[k]
      BY <2>1, DigitsAre
    <3> QED
      BY <3>2, <3>5, <3>6, <3>7
  <2> QED
    BY <2>1, <2>3 DEF k
<1> HIDE DEF S
<1>6. \A i \in 0..Width : i \in S
  BY <1>1, <1>4, <1>5, Upwards
<1>7. Width \in S
  BY <1>1, <1>6
<1> QED
  BY <1>7 DEF S, Value, Numeric!Addr, p

(* What Ipam assumes of addresses and of CIDR blocks holds of bytes.       *)
THEOREM AddressesAreNumbers == Numeric!AddrAssumption /\ Numeric!BlocksAreIntervals
<1> DEFINE Space == Digits(1, Zero)[Width]
<1>1. Space \in Nat \ {0}
  <2>1. Value(Zero) \in 0..Space - 1
    BY ZeroIsIP, ValueType DEF Numeric!Addr
  <2>2. Space \in Nat
    BY DigitsNat, ZeroIsIP, BytesAssumption
  <2> HIDE DEF Space
  <2> QED
    BY <2>1, <2>2
<1>2. {Values(c) : c \in Blocks} \subseteq SUBSET Numeric!Addr
  BY ValuesType, BytesAssumption
<1>3. Numeric!AddrAssumption
  BY <1>1, <1>2 DEF Numeric!AddrAssumption
<1>4. ASSUME NEW c \in Blocks, NEW x \in Values(c), NEW y \in Values(c), NEW n \in x..y
      PROVE  n \in Values(c)
  <2>1. c \in SUBSET IP
    BY BytesAssumption
  <2>2. PICK a \in c : x = Value(a)
    BY DEF Values
  <2>3. PICK b \in c : y = Value(b)
    BY DEF Values
  <2>4. a \in IP /\ b \in IP /\ x \in Numeric!Addr /\ y \in Numeric!Addr
    BY <2>1, <2>2, <2>3, ValueType
  <2>5. n \in Numeric!Addr /\ x <= n /\ n <= y
    BY <1>1, <2>4 DEF Numeric!Addr
  <2>6. PICK ip \in IP : Value(ip) = n
    BY <2>5, ValueOnto
  <2>7. bytesCompare(a, ip) <= 0 /\ bytesCompare(ip, b) <= 0
    BY <2>2, <2>3, <2>4, <2>5, <2>6, CompareValues
  <2>8. ip \in c
    BY <2>7, BlocksAssumption
  <2> QED
    BY <2>6, <2>8 DEF Values
<1>5. Numeric!BlocksAreIntervals
  BY <1>4 DEF Numeric!BlocksAreIntervals, Numeric!Interval
<1> QED
  BY <1>3, <1>5

-----------------------------------------------------------------------------
(* The trie and the types: what the refinement rests on *)

(* Every node on the way to an end is there, so a walk from the root finds *)
(* each end.                                                               *)
Walkable(t) == t.ends \in SUBSET IP /\ \A ip \in t.ends : Prefixes(ip) \subseteq t.nodes

(* The empty trie is one.                                                  *)
LEMMA WalkableNew == Walkable(newIPTrie) /\ newIPTrie.ends = {}
BY DEF Walkable, newIPTrie

(* Insert keeps it one, and adds the address.                              *)
LEMMA WalkableInsert ==
  ASSUME NEW t, Walkable(t), NEW ip \in IP
  PROVE  Walkable(Insert(t, ip)) /\ Insert(t, ip).ends = t.ends \cup {ip}
<1>1. /\ Insert(t, ip).nodes = t.nodes \cup Prefixes(ip)
      /\ Insert(t, ip).ends = t.ends \cup {ip}
  BY DEF Insert
<1>2. \A q \in t.ends \cup {ip} : Prefixes(q) \subseteq t.nodes \cup Prefixes(ip)
  BY DEF Walkable
<1> QED
  BY <1>1, <1>2 DEF Walkable

(* In such a trie Contains finds exactly the addresses inserted.           *)
LEMMA WalkableContains ==
  ASSUME NEW t, Walkable(t), NEW ip
  PROVE  Contains(t, ip) <=> ip \in t.ends
BY DEF Walkable, Contains

(* The trie holds what AddrList returned, as far as it is inserted; the    *)
(* candidate and the result are addresses, and Allocate starts afresh.     *)
BytesOK ==
  /\ pc \in {"new", "rejected", "ready", "insert", "loop", "done"}
  /\ cidr \in Blocks
  /\ from \in IP /\ to \in IP /\ currCandidate \in IP
  /\ addrs \in SUBSET IP /\ ret \in SUBSET IP
  /\ Walkable(ipTrie) /\ ipTrie.ends \subseteq addrs
  /\ pc \in {"loop", "done"} => ipTrie.ends = addrs
  /\ pc \in {"new", "rejected", "ready", "insert"} => currCandidate = from /\ ret = {}

(* It holds initially,                                                     *)
LEMMA BytesOKInit == Init => BytesOK
BY WalkableNew DEF Init, BytesOK

(* every step keeps it,                                                    *)
LEMMA BytesOKStep ==
  ASSUME BytesOK, [Next]_vars
  PROVE  BytesOK'
<1>1. CASE New
  BY <1>1 DEF New, BytesOK
<1>2. CASE Start
  BY <1>2, WalkableNew DEF Start, BytesOK
<1>3. CASE InsertAddr
  <2>1. PICK ip \in addrs \ ipTrie.ends : ipTrie' = Insert(ipTrie, ip)
    BY <1>3 DEF InsertAddr
  <2>2. Walkable(ipTrie') /\ ipTrie'.ends = ipTrie.ends \cup {ip}
    BY <2>1, WalkableInsert DEF BytesOK
  <2> QED
    BY <1>3, <2>1, <2>2 DEF InsertAddr, BytesOK
<1>4. CASE InsertedAll
  BY <1>4 DEF InsertedAll, BytesOK
<1>5. CASE Loop
  <2>1. getNextIP(currCandidate) \in IP
    BY NextIs DEF BytesOK
  <2> QED
    BY <1>5, <2>1 DEF Loop, BytesOK
<1>6. CASE Return
  BY <1>6, WalkableNew DEF Return, BytesOK
<1>7. CASE UNCHANGED vars
  BY <1>7 DEF vars, BytesOK
<1> QED
  BY <1>1, <1>2, <1>3, <1>4, <1>5, <1>6, <1>7 DEF Next, Step

(* and so it holds throughout.                                             *)
LEMMA BytesOKAlways == Spec => []BytesOK
BY BytesOKInit, BytesOKStep, PTL DEF Spec

-----------------------------------------------------------------------------
(* The refinement *)

(* No address, no number.                                                  *)
LEMMA ValuesEmpty == Values({}) = {}
BY DEF Values

(* Initial states map to initial states of Ipam.                           *)
LEMMA InitRefines == Init => Numeric!Init
<1> SUFFICES ASSUME Init
             PROVE  Numeric!Init
  OBVIOUS
<1>1. pc = "new" /\ cidr \in Blocks /\ from \in IP /\ to \in IP /\ currCandidate = from /\ ret = {}
  BY DEF Init
<1>2. Values(cidr) \in {Values(c) : c \in Blocks}
  BY <1>1
<1>3. /\ Value(from) \in Numeric!Addr /\ Value(to) \in Numeric!Addr
      /\ Value(currCandidate) = Value(from)
  BY <1>1, ValueType
<1> QED
  BY <1>1, <1>2, <1>3, ValuesEmpty DEF Numeric!Init

(* The mapped variables after a step, in terms of the code's.              *)
LEMMA MappedPrimes ==
  /\ Value(from)' = Value(from') /\ Value(to)' = Value(to')
  /\ Value(currCandidate)' = Value(currCandidate')
  /\ Values(cidr)' = Values(cidr') /\ Values(ret)' = Values(ret')
  /\ Values(addrs)' = Values(addrs')
BY DEF Value, Values, Digits

(* Every step maps to a step of Ipam or to a stutter: AddrList and the     *)
(* insertions into the trie are unseen until the first loop ends.          *)
LEMMA StepRefines ==
  ASSUME BytesOK, [Next]_vars
  PROVE  [Numeric!Next]_(Numeric!vars)
<1> USE MappedPrimes
<1>1. CASE New
  <2>1. bytesCompare(from, to) >= 0 <=> Value(from) >= Value(to)
    BY CompareValues DEF BytesOK
  <2>2. /\ from \in cidr <=> Value(from) \in Values(cidr)
        /\ to \in cidr <=> Value(to) \in Values(cidr)
    BY ValuesMember, BytesAssumption DEF BytesOK
  <2>3. ~(Value(from) >= Value(to)) <=> Value(from) < Value(to)
    BY CompareValues DEF BytesOK
  <2>4. Numeric!New
    BY <1>1, <2>1, <2>2, <2>3 DEF New, Numeric!New
  <2> QED
    BY <2>4 DEF Numeric!Next
<1>2. CASE Start
  BY <1>2 DEF Start, Numeric!vars
<1>3. CASE InsertAddr
  BY <1>3 DEF InsertAddr, Numeric!vars
<1>4. CASE InsertedAll
  <2>1. Values(addrs) \in SUBSET Numeric!Addr
    BY ValuesType DEF BytesOK
  <2>2. Numeric!Start
    BY <1>4, <2>1, ValuesEmpty DEF InsertedAll, BytesOK, Numeric!Start
  <2> QED
    BY <2>2 DEF Numeric!Next
<1>5. CASE Loop
  <2>1. /\ bytesCompare(currCandidate, to) <= 0 <=> Value(currCandidate) <= Value(to)
        /\ bytesCompare(currCandidate, to) > 0 <=> Value(currCandidate) > Value(to)
    BY CompareValues DEF BytesOK
  <2>2. pc = "loop" /\ UNCHANGED <<cidr, from, to, addrs, ipTrie>>
    BY <1>5 DEF Loop
  <2>3. Contains(ipTrie, currCandidate) <=> Value(currCandidate) \in Values(addrs)
    BY <2>2, WalkableContains, ValuesMember DEF BytesOK
  <2>4. Value(getNextIP(currCandidate)) = (Value(currCandidate) + 1) % Digits(1, Zero)[Width]
    BY NextIs DEF BytesOK
  <2>5. Values({currCandidate}) = {Value(currCandidate)}
    BY DEF Values
  <2>6. Numeric!Taken \/ Numeric!Found \/ Numeric!Exhausted
    <3>1. CASE /\ bytesCompare(currCandidate, to) <= 0
               /\ Contains(ipTrie, currCandidate)
               /\ currCandidate' = getNextIP(currCandidate)
               /\ UNCHANGED <<pc, ret>>
      BY <2>1, <2>2, <2>3, <2>4, <3>1 DEF Numeric!Taken
    <3>2. CASE /\ bytesCompare(currCandidate, to) <= 0
               /\ ~Contains(ipTrie, currCandidate)
               /\ ret' = {currCandidate}
               /\ pc' = "done"
               /\ UNCHANGED currCandidate
      BY <2>1, <2>2, <2>3, <2>5, <3>2 DEF Numeric!Found
    <3>3. CASE /\ bytesCompare(currCandidate, to) > 0
               /\ pc' = "done"
               /\ UNCHANGED <<currCandidate, ret>>
      BY <2>1, <2>2, <3>3 DEF Numeric!Exhausted
    <3> QED
      BY <1>5, <3>1, <3>2, <3>3 DEF Loop
  <2> QED
    BY <2>6 DEF Numeric!Next, Numeric!Step
<1>6. CASE Return
  <2>1. Numeric!Return
    BY <1>6, ValuesEmpty DEF Return, Numeric!Return
  <2> QED
    BY <2>1 DEF Numeric!Next
<1>7. CASE UNCHANGED vars
  BY <1>7 DEF vars, Numeric!vars
<1> QED
  BY <1>1, <1>2, <1>3, <1>4, <1>5, <1>6, <1>7 DEF Next, Step

(* Bytes, carries and trie implement the numbers: every behaviour of the   *)
(* code is one of Ipam.                                                    *)
THEOREM BytesImplementNumbers == Spec => ImplementsNumeric
<1>1. BytesOK /\ [Next]_vars => [Numeric!Next]_(Numeric!vars)
  BY StepRefines
<1> QED
  BY <1>1, InitRefines, BytesOKAlways, PTL DEF Spec, ImplementsNumeric, Numeric!Spec

-----------------------------------------------------------------------------
(* The scan, on numbers *)

(* Incrementing an address gives an address, at the last one too.          *)
LEMMA NextAddr ==
  ASSUME NEW n \in Nat \ {0}, NEW a \in 0..n - 1
  PROVE  (a + 1) % n \in 0..n - 1 /\ (a < n - 1 => (a + 1) % n = a + 1)
OBVIOUS

(* One step keeps the scan invariant.                                      *)
LEMMA ScannedInductive ==
  ASSUME Scanned, [Numeric!Next]_(Numeric!vars)
  PROVE  Scanned'
<1> DEFINE space == Digits(1, Zero)[Width]
           state == IF pc = "insert" THEN "ready" ELSE pc
           block == Values(cidr)
           low == Value(from)
           high == Value(to)
           used == IF pc \in {"loop", "done"} THEN Values(addrs) ELSE {}
           cand == Value(currCandidate)
           result == Values(ret)
<1>1. space \in Nat \ {0} /\ Numeric!Addr = 0..space - 1 /\ space' = space
  BY AddressesAreNumbers DEF Numeric!AddrAssumption, Numeric!Addr
<1>2. Numeric!TypeOK
  BY DEF Scanned, Numeric!Scanned
<1>3. /\ low \in 0..space - 1 /\ high \in 0..space - 1 /\ cand \in 0..space - 1
      /\ low \in Int /\ high \in Int /\ cand \in Int
  BY <1>1, <1>2 DEF Numeric!TypeOK
<1> USE DEF Scanned, Numeric!Scanned, Numeric!TypeOK, Numeric!NoWrap, Numeric!ReturnsLeastFree
<1>4. CASE Numeric!New
  BY <1>4 DEF Numeric!New
<1>5. CASE Numeric!Start
  BY <1>1, <1>3, <1>5 DEF Numeric!Start
<1>6. CASE Numeric!Taken
  <2>1. state = "loop" /\ cand <= high /\ cand \in used /\ cand' = (cand + 1) % space
    BY <1>6 DEF Numeric!Taken
  <2>2. UNCHANGED <<state, block, low, high, used, result>>
    BY <1>6 DEF Numeric!Taken
  <2>3. cand' \in Numeric!Addr /\ (cand < space - 1 => cand' = cand + 1)
    BY <1>1, <1>3, <2>1, NextAddr
  <2>4. Numeric!TypeOK'
    BY <1>2, <2>2, <2>3
  <2>5. ASSUME Numeric!NoWrap
        PROVE  /\ low <= cand' /\ cand' <= high + 1
               /\ \A a \in low..high : a < cand' => a \in used
    <3>1. cand' = cand + 1
      BY <1>1, <1>3, <2>1, <2>3, <2>5
    <3>2. low <= cand /\ \A a \in low..high : a < cand => a \in used
      BY <2>1, <2>5
    <3> QED
      BY <1>3, <2>1, <3>1, <3>2
  <2> QED
    BY <2>1, <2>2, <2>4, <2>5
<1>7. CASE Numeric!Found
  <2>1. state = "loop" /\ cand <= high /\ cand \notin used /\ result' = {cand} /\ state' = "done"
    BY <1>7 DEF Numeric!Found
  <2>2. UNCHANGED <<block, low, high, used, cand>>
    BY <1>7 DEF Numeric!Found
  <2>3. Numeric!TypeOK'
    BY <1>2, <2>1, <2>2
  <2>4. ASSUME Numeric!NoWrap
        PROVE  {cand} = Numeric!LeastFree(low, high, used)
    <3>1. cand \in low..high /\ cand \notin used /\ \A a \in low..high : a < cand => a \in used
      BY <1>3, <2>1, <2>4
    <3>2. cand \in Numeric!LeastFree(low, high, used)
      BY <3>1 DEF Numeric!LeastFree
    <3>3. ASSUME NEW x \in Numeric!LeastFree(low, high, used)
          PROVE  x = cand
      <4>1. x \in low..high /\ x \notin used /\ \A a \in low..high : a < x => a \in used
        BY <3>3 DEF Numeric!LeastFree
      <4> QED
        BY <1>3, <3>1, <4>1
    <3> QED
      BY <3>2, <3>3
  <2> QED
    BY <2>1, <2>2, <2>3, <2>4
<1>8. CASE Numeric!Exhausted
  <2>1. state = "loop" /\ cand > high /\ state' = "done"
    BY <1>8 DEF Numeric!Exhausted
  <2>2. UNCHANGED <<block, low, high, used, cand, result>>
    BY <1>8 DEF Numeric!Exhausted
  <2>3. Numeric!TypeOK'
    BY <1>2, <2>1, <2>2
  <2>4. ASSUME Numeric!NoWrap
        PROVE  result = {} /\ Numeric!LeastFree(low, high, used) = {}
    <3>1. result = {} /\ \A a \in low..high : a < cand => a \in used
      BY <2>1, <2>4
    <3>2. \A a \in low..high : a \in used
      BY <1>3, <2>1, <3>1
    <3> QED
      BY <3>1, <3>2 DEF Numeric!LeastFree
  <2> QED
    BY <2>1, <2>2, <2>3, <2>4
<1>9. CASE Numeric!Return
  BY <1>1, <1>3, <1>9 DEF Numeric!Return
<1>10. CASE UNCHANGED Numeric!vars
  BY <1>10 DEF Numeric!vars
<1> QED
  BY <1>4, <1>5, <1>6, <1>7, <1>8, <1>9, <1>10 DEF Numeric!Next, Numeric!Step

(* The scan invariant holds throughout: the loop has passed addresses of   *)
(* the link only, and its result is the least free one.                    *)
THEOREM ScanCorrect == Spec => []Scanned
<1>1. Numeric!Init => Scanned
  BY DEF Numeric!Init, Scanned, Numeric!Scanned, Numeric!TypeOK, Numeric!ReturnsLeastFree
<1>2. Scanned /\ [Numeric!Next]_(Numeric!vars) => Scanned'
  BY ScannedInductive
<1> QED
  BY <1>1, <1>2, BytesImplementNumbers, PTL DEF ImplementsNumeric, Numeric!Spec

(* Allocate returns the least address of the dynamic range that is not on  *)
(* the link, and reports exhaustion only when there is none.               *)
THEOREM AllocateCorrect == Spec => []ReturnsLeastFree
<1>1. Scanned => ReturnsLeastFree
  BY DEF Scanned, ReturnsLeastFree, Numeric!Scanned
<1> QED
  BY <1>1, ScanCorrect, PTL

(* Every address handed out lies in the CIDR, though New only checks the   *)
(* two ends of the range.                                                  *)
THEOREM AllocateInCidr == Spec => []StaysInCidr
<1>1. Scanned => StaysInCidr
  <2> SUFFICES ASSUME Scanned, pc = "done", Numeric!NoWrap
               PROVE  Values(ret) \subseteq Values(cidr)
    BY DEF StaysInCidr, Numeric!StaysInCidr
  <2>1. Values(ret) \subseteq Value(from)..Value(to)
    BY DEF Scanned, Numeric!Scanned, Numeric!ReturnsLeastFree, Numeric!LeastFree
  <2>2. /\ Value(from) \in Values(cidr) /\ Value(to) \in Values(cidr)
        /\ Values(cidr) \in {Values(c) : c \in Blocks}
    BY DEF Scanned, Numeric!Scanned, Numeric!TypeOK
  <2>3. Value(from)..Value(to) \subseteq Values(cidr)
    BY <2>2, AddressesAreNumbers DEF Numeric!BlocksAreIntervals, Numeric!Interval
  <2> QED
    BY <2>1, <2>3
<1> QED
  BY <1>1, ScanCorrect, PTL
=============================================================================
