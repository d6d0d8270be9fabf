------------------------ MODULE SerialisationProofs ------------------------
(***************************************************************************)
(* The node reads back what a transfer was created for, for every base,    *)
(* width, key, name, block, nonce and amount.                              *)
(***************************************************************************)
EXTENDS Serialisation, LeastNaturals, SequenceTheorems

(* Numbers in a base *)

LEMMA DivideTwice ==
  ASSUME NEW n \in Nat, NEW p \in Nat \ {0}, NEW b \in Nat \ {0}
  PROVE  (n \div p) \div b = n \div (b * p)
  OBVIOUS

LEMMA DivideSmall ==
  ASSUME NEW n \in Nat, NEW p \in Nat \ {0}
  PROVE  n \div p \in Nat /\ (n < p => n \div p = 0)
  OBVIOUS

LEMMA DivideRest ==
  ASSUME NEW n \in Nat, NEW p \in Nat \ {0}
  PROVE  n \div p \in Nat /\ n % p \in Nat /\ n % p < p /\ n = p * (n \div p) + (n % p)
<1>1. n \div p \in Nat
  OBVIOUS
<1>2. n % p \in Nat /\ n % p < p
  OBVIOUS
<1>3. n = p * (n \div p) + (n % p)
  OBVIOUS
<1> QED
  BY <1>1, <1>2, <1>3

LEMMA PowersAre ==
  ASSUME NEW b \in Nat
  PROVE  /\ Powers(b) = [n \in Nat |-> IF n = 0 THEN 1 ELSE b * Powers(b)[n - 1]]
         /\ \A n \in Nat : Powers(b)[n] \in Int
<1> DEFINE zero == [k \in Nat |-> 0]
<1>1. PICK f \in [Nat -> Int] : f = [k \in Nat |-> IF k = 0 THEN 1 ELSE b * f[k - 1] + zero[k]]
  <2>1. zero \in [Nat -> Int] /\ 1 \in Int /\ b \in Int
    OBVIOUS
  <2> HIDE DEF zero
  <2> QED
    BY <2>1, Recursion, Zenon
<1>2. f = [k \in Nat |-> IF k = 0 THEN 1 ELSE b * f[k - 1]]
  <2>1. ASSUME NEW k \in Nat, k # 0
        PROVE  b * f[k - 1] + zero[k] = b * f[k - 1]
    <3>1. f[k - 1] \in Int
      BY <2>1
    <3>2. b * f[k - 1] \in Int
      BY <3>1
    <3> QED
      BY <3>2
  <2> HIDE DEF zero
  <2> QED
    BY <1>1, <2>1
<1>3. Powers(b) = [n \in Nat |-> IF n = 0 THEN 1 ELSE b * Powers(b)[n - 1]]
  BY <1>2 DEF Powers
<1> HIDE DEF zero
<1>4. \A n \in Nat : Powers(b)[n] \in Int
  <2> DEFINE Bad == {n \in Nat : Powers(b)[n] \notin Int}
  <2> SUFFICES ASSUME Bad # {} PROVE FALSE
    OBVIOUS
  <2>1. PICK n \in Bad : \A k \in Bad : n <= k
    BY LeastNatural
  <2>2. n # 0
    BY <1>3, <2>1
  <2>3. n \in Nat /\ Powers(b)[n] \notin Int /\ n - 1 \in Nat
    BY <2>1, <2>2
  <2>4. Powers(b)[n - 1] \in Int
    <3>1. n - 1 \notin Bad
      BY <2>1, <2>3
    <3> QED
      BY <2>3, <3>1
  <2>5. Powers(b)[n] = b * Powers(b)[n - 1]
    <3> DEFINE g == Powers(b)
    <3>1. g = [k \in Nat |-> IF k = 0 THEN 1 ELSE b * g[k - 1]]
      BY <1>3
    <3> HIDE DEF g
    <3>2. g[n] = b * g[n - 1]
      BY <2>2, <2>3, <3>1
    <3> QED
      BY <3>2 DEF g
  <2> QED
    BY <2>3, <2>4, <2>5
<1> QED
  BY <1>3, <1>4

LEMMA PowerIs ==
  ASSUME NEW b \in Nat
  PROVE  /\ Power(b, 0) = 1
         /\ \A n \in Nat : Power(b, n) \in Int /\ Power(b, n + 1) = b * Power(b, n)
  BY PowersAre DEF Power

LEMMA PowerPositive ==
  ASSUME NEW b \in Nat \ {0}
  PROVE  \A n \in Nat : Power(b, n) \in Nat \ {0}
<1> DEFINE Bad == {n \in Nat : Power(b, n) \notin Nat \ {0}}
<1> SUFFICES ASSUME Bad # {} PROVE FALSE
  OBVIOUS
<1>1. PICK n \in Bad : \A k \in Bad : n <= k
  BY LeastNatural
<1>2. n # 0
  <2>1. Power(b, 0) = 1
    BY PowerIs
  <2> QED
    BY <1>1, <2>1
<1>3. n - 1 \in Nat /\ n - 1 \notin Bad
  BY <1>1, <1>2
<1>4. Power(b, n) = b * Power(b, n - 1) /\ Power(b, n - 1) \in Nat \ {0}
  BY <1>3, PowerIs
<1>5. \A x, y \in Nat \ {0} : x * y \in Nat \ {0}
  OBVIOUS
<1> QED
  BY <1>1, <1>4, <1>5

LEMMA PowerRises ==
  ASSUME NEW b \in Nat \ {0}
  PROVE  \A n, m \in Nat : n <= m => Power(b, n) <= Power(b, m)
<1> SUFFICES ASSUME NEW n \in Nat
             PROVE  \A m \in Nat : n <= m => Power(b, n) <= Power(b, m)
  OBVIOUS
<1> DEFINE Bad == {m \in Nat : n <= m /\ ~(Power(b, n) <= Power(b, m))}
<1> SUFFICES ASSUME Bad # {} PROVE FALSE
  OBVIOUS
<1>1. PICK m \in Bad : \A k \in Bad : m <= k
  BY LeastNatural
<1>2. Power(b, n) \in Nat
  BY PowerPositive
<1>3. m # n
  BY <1>1, <1>2
<1>4. m - 1 \in Nat /\ m - 1 \notin Bad /\ n <= m - 1
  BY <1>1, <1>3
<1>5. /\ Power(b, m) = b * Power(b, m - 1) /\ Power(b, m - 1) \in Nat
      /\ Power(b, n) <= Power(b, m - 1)
  BY <1>4, PowerIs, PowerPositive
<1>6. \A x \in Nat : x <= b * x
  OBVIOUS
<1>7. b * Power(b, m - 1) \in Nat
  BY <1>5
<1> QED
  BY <1>1, <1>2, <1>5, <1>6, <1>7

LEMMA PowerAbove ==
  ASSUME NEW b \in Nat \ {0, 1}
  PROVE  \A n \in Nat : Power(b, n) > n
<1> DEFINE Bad == {n \in Nat : ~(Power(b, n) > n)}
<1> SUFFICES ASSUME Bad # {} PROVE FALSE
  OBVIOUS
<1>1. PICK n \in Bad : \A k \in Bad : n <= k
  BY LeastNatural
<1>2. n # 0
  BY <1>1, PowerIs
<1>3. n - 1 \in Nat /\ n - 1 \notin Bad
  BY <1>1, <1>2
<1>4. /\ Power(b, n) = b * Power(b, n - 1) /\ Power(b, n - 1) \in Nat \ {0}
      /\ Power(b, n - 1) > n - 1
  BY <1>3, PowerIs, PowerPositive
<1>5. \A x \in Nat \ {0} : b * x >= x + 1
  OBVIOUS
<1>6. Power(b, n) >= Power(b, n - 1) + 1
  BY <1>4, <1>5
<1> QED
  BY <1>1, <1>3, <1>4, <1>6

LEMMA PowerSum ==
  ASSUME NEW b \in Nat \ {0}, NEW n \in Nat
  PROVE  \A m \in Nat : Power(b, n + m) = Power(b, n) * Power(b, m)
<1> DEFINE Bad == {m \in Nat : Power(b, n + m) # Power(b, n) * Power(b, m)}
<1> SUFFICES ASSUME Bad # {} PROVE FALSE
  OBVIOUS
<1>1. PICK m \in Bad : \A k \in Bad : m <= k
  BY LeastNatural
<1>2. m # 0
  BY <1>1, PowerIs
<1>3. m - 1 \in Nat /\ n + (m - 1) \in Nat /\ m - 1 \notin Bad
  BY <1>1, <1>2
<1>4. Power(b, n + (m - 1)) = Power(b, n) * Power(b, m - 1)
  BY <1>3
<1>5. Power(b, m) = b * Power(b, m - 1) /\ Power(b, n + m) = b * Power(b, n + (m - 1))
  <2>1. (m - 1) + 1 = m /\ (n + (m - 1)) + 1 = n + m
    BY <1>1
  <2> QED
    BY <1>3, <2>1, PowerIs
<1>6. \A x, y \in Int : b * (x * y) = x * (b * y)
  OBVIOUS
<1>7. Power(b, n) \in Int /\ Power(b, m - 1) \in Int
  BY <1>3, PowerIs
<1> QED
  BY <1>1, <1>4, <1>5, <1>6, <1>7

(* Numbers as bytes *)

LEMMA BaseIs ==
  /\ Digit \in Nat \ {0, 1} /\ Base \in Nat \ {0, 1} /\ Base \in Nat \ {0}
  /\ Base = Digit * Digit /\ Ten \in Nat \ {0}
<1>1. Digit \in Nat \ {0, 1} /\ Ten \in Nat \ {0}
  BY SerialisationAssumption
<1>2. \A d \in Nat \ {0, 1} : d * d \in Nat \ {0, 1}
  OBVIOUS
<1> QED
  BY <1>1, <1>2 DEF Base

\* Number as a recursion: highest byte first.
LEMMA NumberIs ==
  ASSUME NEW bytes, NEW from \in Nat, NEW width \in Nat,
         \A k \in 1..width : bytes[from + width - k] \in Int
  PROVE  \E h \in [0..width -> Int] :
           /\ h[0] = 0
           /\ \A k \in 1..width : h[k] = Base * h[k - 1] + bytes[from + width - k]
           /\ Number(bytes, from, width) = h[width]
<1> DEFINE c == [k \in Nat |-> IF k \in 1..width THEN bytes[from + width - k] ELSE 0]
           Step(g, k) == IF k = 0 THEN 0 ELSE Base * g[k - 1] + bytes[from + width - k]
           h == CHOOSE g : g = [k \in 0..width |-> Step(g, k)]
<1>1. PICK f : Recurs(f, width, 0, Base, c)
  <2>1. c \in [Nat -> Int] /\ 0 \in Int /\ Base \in Int
    BY BaseIs
  <2> HIDE DEF c
  <2> QED
    BY <2>1, RecursionUpTo
<1>2. \A k \in 1..width : c[k] = bytes[from + width - k]
  OBVIOUS
<1> HIDE DEF c
<1>3. f = [k \in 0..width |-> Step(f, k)]
  <2>1. f = [k \in 0..width |-> f[k]]
    BY <1>1 DEF Recurs
  <2>2. ASSUME NEW k \in 0..width
        PROVE  f[k] = Step(f, k)
    <3>1. CASE k = 0
      BY <1>1, <3>1 DEF Recurs
    <3>2. CASE k # 0
      <4>1. k \in 1..width
        BY <3>2
      <4> QED
        BY <1>1, <1>2, <3>2, <4>1 DEF Recurs
    <3> QED
      BY <3>1, <3>2
  <2> HIDE DEF Step
  <2> QED
    BY <2>1, <2>2
<1>4. h = [k \in 0..width |-> Step(h, k)]
  BY <1>3
<1>5. Number(bytes, from, width) = h[width]
  BY DEF Number
<1> HIDE DEF h
<1>6. \A k \in 0..width : h[k] = Step(h, k)
  BY <1>4
<1>7. h[0] = 0 /\ \A k \in 1..width : h[k] = Base * h[k - 1] + bytes[from + width - k]
  BY <1>6
<1>8. \A k \in 0..width : h[k] \in Int
  <2> DEFINE Bad == {k \in 0..width : h[k] \notin Int}
  <2> SUFFICES ASSUME Bad # {} PROVE FALSE
    OBVIOUS
  <2>1. PICK k \in Bad : \A j \in Bad : k <= j
    <3>1. Bad \in SUBSET Nat
      OBVIOUS
    <3> HIDE DEF Bad
    <3> QED
      BY <3>1, LeastNatural
  <2>2. k # 0
    BY <1>7, <2>1
  <2>3. k \in 1..width /\ k - 1 \in 0..width /\ k - 1 \notin Bad
    BY <2>1, <2>2
  <2>4. h[k - 1] \in Int /\ bytes[from + width - k] \in Int /\ Base \in Int
    BY <2>3, BaseIs
  <2> QED
    BY <1>7, <2>1, <2>3, <2>4
<1>9. h \in [0..width -> Int]
  BY <1>4, <1>8
<1> QED
  BY <1>5, <1>7, <1>9

\* What was written by LittleEndian is read by Number.
LEMMA NumberRead ==
  ASSUME NEW bytes, NEW from \in Nat, NEW width \in Nat, NEW n \in Nat,
         n < Power(Base, width),
         \A i \in 1..width : bytes[from + i - 1] = (n \div Power(Base, i - 1)) % Base
  PROVE  Number(bytes, from, width) = n
<1>1. \A k \in 1..width :
        /\ bytes[from + width - k] = (n \div Power(Base, width - k)) % Base
        /\ bytes[from + width - k] \in Int
  <2> SUFFICES ASSUME NEW k \in 1..width
               PROVE  /\ bytes[from + width - k] = (n \div Power(Base, width - k)) % Base
                      /\ bytes[from + width - k] \in Int
    OBVIOUS
  <2> DEFINE i == width - k + 1
  <2>1. i \in 1..width /\ i - 1 = width - k /\ from + i - 1 = from + width - k
    OBVIOUS
  <2>2. bytes[from + width - k] = (n \div Power(Base, width - k)) % Base
    BY <2>1
  <2>3. width - k \in Nat /\ Power(Base, width - k) \in Nat \ {0}
    BY BaseIs, PowerPositive
  <2>4. n \div Power(Base, width - k) \in Nat
    BY <2>3, DivideSmall
  <2>5. (n \div Power(Base, width - k)) % Base \in Nat
    BY <2>4, BaseIs, DivideRest
  <2> QED
    BY <2>2, <2>5
<1>2. PICK h \in [0..width -> Int] :
        /\ h[0] = 0
        /\ \A k \in 1..width : h[k] = Base * h[k - 1] + bytes[from + width - k]
        /\ Number(bytes, from, width) = h[width]
  <2>1. \A k \in 1..width : bytes[from + width - k] \in Int
    BY <1>1
  <2> QED
    BY <2>1, NumberIs, Zenon
<1>3. \A k \in 0..width : h[k] = n \div Power(Base, width - k)
  <2> DEFINE Bad == {k \in 0..width : h[k] # n \div Power(Base, width - k)}
  <2> SUFFICES ASSUME Bad # {} PROVE FALSE
    OBVIOUS
  <2>1. PICK k \in Bad : \A j \in Bad : k <= j
    <3>1. Bad \in SUBSET Nat
      OBVIOUS
    <3> HIDE DEF Bad
    <3> QED
      BY <3>1, LeastNatural
  <2>2. k # 0
    <3>1. n \div Power(Base, width) = 0
      BY BaseIs, PowerPositive, DivideSmall
    <3>2. width - 0 = width
      OBVIOUS
    <3> QED
      BY <1>2, <2>1, <3>1, <3>2
  <2>3. /\ k \in 1..width /\ k - 1 \in 0..width /\ k - 1 \notin Bad
        /\ width - k \in Nat /\ width - (k - 1) = (width - k) + 1
    BY <2>1, <2>2
  <2> DEFINE m == n \div Power(Base, width - k)
  <2>4. m \in Nat /\ m \div Base = n \div Power(Base, width - (k - 1))
    <3>1. Power(Base, width - k) \in Nat \ {0}
      BY <2>3, BaseIs, PowerPositive
    <3>2. Power(Base, width - (k - 1)) = Base * Power(Base, width - k)
      BY <2>3, BaseIs, PowerIs
    <3>3. m \in Nat
      BY <3>1, DivideSmall
    <3>4. m \div Base = n \div (Base * Power(Base, width - k))
      BY <3>1, BaseIs, DivideTwice
    <3> QED
      BY <3>2, <3>3, <3>4
  <2>5. h[k - 1] = m \div Base /\ bytes[from + width - k] = m % Base
    BY <1>1, <2>3, <2>4
  <2>6. h[k] # m
    BY <2>1
  <2> HIDE DEF m
  <2>7. Base * (m \div Base) + (m % Base) = m
    BY <2>4, BaseIs, DivideRest
  <2> QED
    BY <1>2, <2>3, <2>5, <2>6, <2>7
<1>4. h[width] = n \div 1
  <2>1. width - width = 0 /\ Power(Base, 0) = 1 /\ width \in 0..width
    BY BaseIs, PowerIs
  <2> QED
    BY <1>3, <2>1
<1> QED
  BY <1>2, <1>4

LEMMA FunctionIsSeq ==
  ASSUME NEW S, NEW n \in Nat, NEW s \in [1..n -> S]
  PROVE  s \in Seq(S) /\ Len(s) = n
<1>1. s \in Seq(S)
  BY SeqDef
<1>2. Len(s) \in Nat /\ DOMAIN s = 1..Len(s)
  BY <1>1, LenProperties
<1>3. 1..Len(s) = 1..n
  BY <1>2
<1> QED
  BY <1>1, <1>2, <1>3

LEMMA LittleEndianIs ==
  ASSUME NEW n \in Nat, NEW width \in Nat
  PROVE  /\ LittleEndian(n, width) \in Seq(Int) /\ Len(LittleEndian(n, width)) = width
         /\ \A i \in 1..width :
              LittleEndian(n, width)[i] = (n \div Power(Base, i - 1)) % Base
<1>1. ASSUME NEW i \in 1..width
      PROVE  (n \div Power(Base, i - 1)) % Base \in Int
  <2>1. i - 1 \in Nat /\ Power(Base, i - 1) \in Nat \ {0}
    BY BaseIs, PowerPositive
  <2>2. n \div Power(Base, i - 1) \in Nat
    BY <2>1, DivideSmall
  <2> QED
    BY <2>2, BaseIs, DivideRest
<1>2. LittleEndian(n, width) \in [1..width -> Int]
  BY <1>1 DEF LittleEndian
<1> QED
  BY <1>2, FunctionIsSeq DEF LittleEndian

\* A number without its leading zeros, lowest byte first, filled up with zeros.
LEMMA DepositIs ==
  ASSUME NEW n \in Nat, n < Power(Base, DepositWidth)
  PROVE  Deposit(n) = LittleEndian(n, DepositWidth)
<1> DEFINE Fits(w) == /\ Power(Base, w) > n
                      /\ \A v \in 0..(w - 1) : Power(Base, v) <= n
           width == CHOOSE w \in 0..n : Fits(w)
           low == LittleEndian(n, width)
           pad == [i \in 1..(DepositWidth - width) |-> 0]
           wide == LittleEndian(n, DepositWidth)
<1>1. \E w \in 0..n : Fits(w)
  <2> DEFINE Enough == {w \in Nat : Power(Base, w) > n}
  <2>1. n \in Enough
    BY BaseIs, PowerAbove
  <2>2. PICK w \in Enough : \A v \in Enough : w <= v
    <3>1. Enough \in SUBSET Nat
      OBVIOUS
    <3> HIDE DEF Enough
    <3> QED
      BY <2>1, <3>1, LeastNatural
  <2>3. ASSUME NEW v \in 0..(w - 1)
        PROVE  Power(Base, v) <= n
    <3>1. v \in Nat /\ v \notin Enough
      BY <2>2
    <3>2. Power(Base, v) \in Int
      BY <3>1, BaseIs, PowerIs
    <3> QED
      BY <3>1, <3>2
  <2> QED
    BY <2>1, <2>2, <2>3
<1>2. width \in 0..n /\ Fits(width)
  <2> HIDE DEF Fits
  <2> QED
    BY <1>1
<1>3. Bytes(n) = Reverse(low)
  BY DEF Bytes
<1> HIDE DEF width
<1>4. DepositWidth \in Nat /\ width \in 0..DepositWidth
  <2>1. DepositWidth \in Nat
    BY SerialisationAssumption
  <2>2. Power(Base, DepositWidth) \in Int
    BY <2>1, BaseIs, PowerIs
  <2> QED
    BY <1>2, <2>1, <2>2
<1>5. /\ low \in Seq(Int) /\ Len(low) = width
      /\ wide \in Seq(Int) /\ Len(wide) = DepositWidth
  BY <1>2, <1>4, LittleEndianIs
<1>6. pad \in Seq(Int) /\ Len(pad) = DepositWidth - width
  <2>1. pad \in [1..(DepositWidth - width) -> Int] /\ DepositWidth - width \in Nat
    BY <1>4
  <2> HIDE DEF pad
  <2> QED
    BY <2>1, FunctionIsSeq
<1>7. Reverse(Reverse(low)) = low
  <2> HIDE DEF low
  <2>1. low \in [1..Len(low) -> Int] /\ Len(low) \in Nat
    BY <1>5, LenProperties
  <2> QED
    BY <2>1 DEF Reverse
<1>8. Deposit(n) = low \o pad
  BY <1>3, <1>5, <1>7 DEF Deposit, RightPadBytes
<1>9. ASSUME NEW i \in 1..DepositWidth
      PROVE  (low \o pad)[i] = wide[i]
  <2>1. wide[i] = (n \div Power(Base, i - 1)) % Base
    BY <1>4, LittleEndianIs
  <2>2. CASE i <= width
    <3>1. (low \o pad)[i] = low[i] /\ i \in 1..width /\ width \in Nat
      BY <1>4, <1>5, <1>6, <2>2, ConcatProperties
    <3>2. low[i] = (n \div Power(Base, i - 1)) % Base
      BY <3>1, LittleEndianIs
    <3> QED
      BY <2>1, <3>1, <3>2
  <2>3. CASE i > width
    <3>1. (low \o pad)[i] = pad[i - width] /\ i - width \in 1..(DepositWidth - width)
      BY <1>4, <1>5, <1>6, <2>3, ConcatProperties
    <3>2. i - 1 \in Nat /\ width \in Nat /\ width <= i - 1
      BY <1>4, <2>3
    <3>3. /\ Power(Base, width) <= Power(Base, i - 1)
          /\ Power(Base, width) \in Int /\ Power(Base, i - 1) \in Nat \ {0}
      BY <3>2, BaseIs, PowerIs, PowerPositive, PowerRises
    <3>4. n \div Power(Base, i - 1) = 0
      BY <1>2, <3>3, DivideSmall
    <3>5. wide[i] = 0
      BY <2>1, <3>4, BaseIs
    <3> QED
      BY <3>1, <3>5
  <2>4. i <= width \/ i > width
    BY <1>4
  <2> QED
    BY <2>2, <2>3, <2>4
<1> HIDE DEF low, pad, wide
<1> DEFINE filled == low \o pad
<1>10. filled \in Seq(Int) /\ Len(filled) = DepositWidth
  <2>1. low \in Seq(Int) /\ pad \in Seq(Int)
    BY <1>5, <1>6
  <2>2. filled \in Seq(Int) /\ Len(filled) = Len(low) + Len(pad)
    BY <2>1, ConcatProperties
  <2>3. width + (DepositWidth - width) = DepositWidth
    BY <1>4
  <2> QED
    BY <1>5, <1>6, <2>2, <2>3
<1>11. \A i \in 1..DepositWidth : filled[i] = wide[i]
  BY <1>9, Zenon
<1> HIDE DEF filled
<1>12. filled = wide
  BY <1>5, <1>10, <1>11, SeqEqual
<1> QED
  BY <1>8, <1>12 DEF filled, wide

\* The hex digits of an address decode to its key.
LEMMA AddressDecoded ==
  ASSUME NEW key \in Keys
  PROVE  /\ AddressEncode(key) \in Seq(Int) /\ Len(AddressEncode(key)) = 2 * KeyLength
         /\ DecodeString(AddressEncode(key)) = key
         /\ key \in Seq(Int) /\ Len(key) = KeyLength
<1>1. KeyLength \in Nat /\ key \in [1..KeyLength -> Nat]
  BY SerialisationAssumption, BaseIs DEF Byte
<1>2. key \in Seq(Int) /\ Len(key) = KeyLength
  BY <1>1, FunctionIsSeq
<1> DEFINE text == AddressEncode(key)
<1>3. text = [i \in 1..2 * KeyLength |-> IF i % 2 = 1 THEN key[(i + 1) \div 2] \div Digit
                                                      ELSE key[i \div 2] % Digit]
  BY <1>2 DEF AddressEncode
<1>4. ASSUME NEW i \in 1..2 * KeyLength
      PROVE  text[i] \in Int
  <2>1. CASE i % 2 = 1
    <3>1. text[i] = key[(i + 1) \div 2] \div Digit
      BY <1>3, <2>1
    <3>2. (i + 1) \div 2 \in 1..KeyLength
      BY <1>1, <2>1
    <3> QED
      BY <1>1, <3>1, <3>2, BaseIs, DivideRest
  <2>2. CASE i % 2 # 1
    <3>1. text[i] = key[i \div 2] % Digit
      BY <1>3, <2>2
    <3>2. i \div 2 \in 1..KeyLength
      BY <1>1, <2>2
    <3> QED
      BY <1>1, <3>1, <3>2, BaseIs, DivideRest
  <2> QED
    BY <2>1, <2>2
<1>5. text \in Seq(Int) /\ Len(text) = 2 * KeyLength
  <2> HIDE DEF text
  <2>1. text \in [1..2 * KeyLength -> Int] /\ 2 * KeyLength \in Nat
    BY <1>1, <1>3, <1>4
  <2> QED
    BY <2>1, FunctionIsSeq
<1> HIDE DEF text
<1>6. ASSUME NEW i \in 1..KeyLength
      PROVE  Digit * text[2 * i - 1] + text[2 * i] = key[i]
  <2>1. /\ 2 * i - 1 \in 1..2 * KeyLength /\ 2 * i \in 1..2 * KeyLength
        /\ (2 * i - 1) % 2 = 1 /\ (2 * i) % 2 = 0
        /\ ((2 * i - 1) + 1) \div 2 = i /\ (2 * i) \div 2 = i
    BY <1>1
  <2>2. text[2 * i - 1] = key[i] \div Digit /\ text[2 * i] = key[i] % Digit
    BY <1>3, <2>1
  <2>3. key[i] \in Nat
    BY <1>1
  <2> QED
    BY <2>2, <2>3, BaseIs, DivideRest
<1>7. (2 * KeyLength) \div 2 = KeyLength
  BY <1>1
<1>8. DecodeString(text) = [i \in 1..KeyLength |-> Digit * text[2 * i - 1] + text[2 * i]]
  BY <1>5, <1>7 DEF DecodeString
<1>9. DecodeString(text) = key
  BY <1>1, <1>6, <1>8
<1> QED
  BY <1>2, <1>5, <1>9 DEF text

(* What stands where *)

\* bytes hold p after the first from of them.
Holds(bytes, from, p) == \A i \in 1..Len(p) : bytes[from + i] = p[i]

LEMMA HoldsParts ==
  ASSUME NEW S, NEW bytes, NEW from \in Nat, NEW p \in Seq(S), NEW q \in Seq(S),
         Holds(bytes, from, p \o q)
  PROVE  Holds(bytes, from, p) /\ Holds(bytes, from + Len(p), q)
<1>1. Len(p) \in Nat /\ Len(q) \in Nat
  BY LenProperties
<1>2. /\ Len(p \o q) = Len(p) + Len(q)
      /\ \A i \in 1..Len(p) + Len(q) :
           (p \o q)[i] = IF i <= Len(p) THEN p[i] ELSE q[i - Len(p)]
  BY ConcatProperties
<1>3. \A i \in 1..Len(p) + Len(q) : bytes[from + i] = (p \o q)[i]
  BY <1>2 DEF Holds
<1>4. ASSUME NEW i \in 1..Len(p)
      PROVE  bytes[from + i] = p[i]
  <2>1. i \in 1..Len(p) + Len(q) /\ i <= Len(p)
    BY <1>1
  <2> QED
    BY <1>2, <1>3, <2>1
<1>5. ASSUME NEW i \in 1..Len(q)
      PROVE  bytes[(from + Len(p)) + i] = q[i]
  <2> DEFINE j == Len(p) + i
  <2>1. /\ j \in 1..Len(p) + Len(q) /\ ~(j <= Len(p)) /\ j - Len(p) = i
        /\ from + j = (from + Len(p)) + i
    BY <1>1
  <2> HIDE DEF j
  <2> QED
    BY <1>2, <1>3, <2>1
<1> QED
  BY <1>4, <1>5 DEF Holds

LEMMA HoldsField ==
  ASSUME NEW S, NEW bytes, NEW from \in Nat, NEW p \in Seq(S), Holds(bytes, from, p)
  PROVE  SubSeq(bytes, from + 1, from + Len(p)) = p
<1> DEFINE first == from + 1
           last == from + Len(p)
<1>0. first \in Int /\ first = from + 1 /\ last \in Int /\ last = from + Len(p)
  BY LenProperties
<1> HIDE DEF first, last
<1>1. Len(p) \in Nat /\ last - first + 1 = Len(p)
      /\ (IF first <= last THEN last - first + 1 ELSE 0) = Len(p)
  BY <1>0, LenProperties
<1>2. \A i \in 1..Len(p) : bytes[from + i] = p[i] /\ p[i] \in S
  BY ElementOfSeq DEF Holds
<1>3. \A i \in first..last : bytes[i] \in S
  <2> SUFFICES ASSUME NEW i \in first..last PROVE bytes[i] \in S
    OBVIOUS
  <2>1. i - from \in 1..Len(p) /\ from + (i - from) = i
    BY <1>0, <1>1
  <2> QED
    BY <1>2, <2>1
<1>4. /\ SubSeq(bytes, first, last) \in Seq(S)
      /\ Len(SubSeq(bytes, first, last)) = Len(p)
      /\ \A i \in 1..last - first + 1 : SubSeq(bytes, first, last)[i] = bytes[first + i - 1]
  BY <1>0, <1>1, <1>3, SubSeqProperties
<1>5. ASSUME NEW i \in 1..Len(p)
      PROVE  SubSeq(bytes, first, last)[i] = p[i]
  <2>1. first + i - 1 = from + i
    BY <1>0
  <2> QED
    BY <1>1, <1>2, <1>4, <2>1
<1> QED
  BY <1>4, <1>5, SeqEqual DEF first, last

LEMMA HoldsNumber ==
  ASSUME NEW bytes, NEW from \in Nat, NEW n \in Nat, NEW width \in Nat,
         n < Power(Base, width), Holds(bytes, from, LittleEndian(n, width))
  PROVE  Number(bytes, from + 1, width) = n
<1>0. from + 1 \in Nat
  OBVIOUS
<1>1. ASSUME NEW i \in 1..width
      PROVE  bytes[(from + 1) + i - 1] = (n \div Power(Base, i - 1)) % Base
  <2>1. (from + 1) + i - 1 = from + i
    OBVIOUS
  <2>2. bytes[from + i] = LittleEndian(n, width)[i]
    BY LittleEndianIs DEF Holds
  <2> QED
    BY <2>1, <2>2, LittleEndianIs
<1> QED
  BY <1>0, <1>1, NumberRead

LEMMA HoldsByte ==
  ASSUME NEW bytes, NEW from \in Nat, NEW n \in Int, Holds(bytes, from, <<n>>)
  PROVE  bytes[from + 1] = n
  BY DEF Holds

(* The layout *)

Writable(tx) ==
  /\ tx.signerId \in Seq(Int) /\ Len(tx.signerId) < Power(Base, LengthWidth)
  /\ tx.publicKey \in Seq(Int) /\ Len(tx.publicKey) = KeyLength
  /\ tx.nonce \in Nat /\ tx.nonce < Power(Base, NonceWidth)
  /\ tx.receiverId \in Seq(Int) /\ Len(tx.receiverId) < Power(Base, LengthWidth)
  /\ tx.blockHash \in Seq(Int) /\ Len(tx.blockHash) = HashLength
  /\ tx.deposit \in Nat /\ tx.deposit < Power(Base, DepositWidth)

\* The first fields of the layout, one after the other.
Upto1(tx) == String(tx.signerId)
Upto2(tx) == Upto1(tx) \o <<0>>
Upto3(tx) == Upto2(tx) \o tx.publicKey
Upto4(tx) == Upto3(tx) \o LittleEndian(tx.nonce, NonceWidth)
Upto5(tx) == Upto4(tx) \o String(tx.receiverId)
Upto6(tx) == Upto5(tx) \o tx.blockHash
Upto7(tx) == Upto6(tx) \o LittleEndian(1, LengthWidth)
Upto8(tx) == Upto7(tx) \o <<3>>
Unsigned(tx) == Upto8(tx) \o Deposit(tx.deposit)

LEMMA SerializeIs ==
  ASSUME NEW tx
  PROVE  Serialize(tx) = Unsigned(tx) \o (IF tx.signature = <<>> THEN <<>>
                                                             ELSE <<0>> \o tx.signature)
  BY DEF Serialize, Unsigned, Upto1, Upto2, Upto3, Upto4, Upto5, Upto6, Upto7, Upto8

LEMMA WidthsAre ==
  /\ LengthWidth \in Nat /\ NonceWidth \in Nat /\ DepositWidth \in Nat
  /\ KeyLength \in Nat /\ HashLength \in Nat /\ 1 < Power(Base, LengthWidth)
<1>1. /\ LengthWidth \in Nat \ {0} /\ NonceWidth \in Nat /\ DepositWidth \in Nat
      /\ KeyLength \in Nat /\ HashLength \in Nat
  BY SerialisationAssumption
<1>2. Power(Base, LengthWidth) > LengthWidth /\ Power(Base, LengthWidth) \in Int
  BY <1>1, BaseIs, PowerAbove, PowerIs
<1> QED
  BY <1>1, <1>2

LEMMA StringIs ==
  ASSUME NEW text \in Seq(Int)
  PROVE  /\ LittleEndian(Len(text), LengthWidth) \in Seq(Int)
         /\ Len(LittleEndian(Len(text), LengthWidth)) = LengthWidth
         /\ Len(text) \in Nat
         /\ String(text) \in Seq(Int) /\ Len(String(text)) = LengthWidth + Len(text)
<1>1. Len(text) \in Nat
  BY LenProperties
<1>2. /\ LittleEndian(Len(text), LengthWidth) \in Seq(Int)
      /\ Len(LittleEndian(Len(text), LengthWidth)) = LengthWidth
  BY <1>1, WidthsAre, LittleEndianIs
<1> QED
  BY <1>1, <1>2, ConcatProperties DEF String

LEMMA UnsignedIs ==
  ASSUME NEW tx, Writable(tx)
  PROVE  /\ Upto1(tx) \in Seq(Int) /\ Len(Upto1(tx)) = LengthWidth + Len(tx.signerId)
         /\ Upto2(tx) \in Seq(Int) /\ Len(Upto2(tx)) = Len(Upto1(tx)) + 1
         /\ Upto3(tx) \in Seq(Int) /\ Len(Upto3(tx)) = Len(Upto2(tx)) + KeyLength
         /\ Upto4(tx) \in Seq(Int) /\ Len(Upto4(tx)) = Len(Upto3(tx)) + NonceWidth
         /\ Upto5(tx) \in Seq(Int)
         /\ Len(Upto5(tx)) = Len(Upto4(tx)) + (LengthWidth + Len(tx.receiverId))
         /\ Upto6(tx) \in Seq(Int) /\ Len(Upto6(tx)) = Len(Upto5(tx)) + HashLength
         /\ Upto7(tx) \in Seq(Int) /\ Len(Upto7(tx)) = Len(Upto6(tx)) + LengthWidth
         /\ Upto8(tx) \in Seq(Int) /\ Len(Upto8(tx)) = Len(Upto7(tx)) + 1
         /\ Unsigned(tx) \in Seq(Int) /\ Len(Unsigned(tx)) = Len(Upto8(tx)) + DepositWidth
<1>1. Upto1(tx) \in Seq(Int) /\ Len(Upto1(tx)) = LengthWidth + Len(tx.signerId)
  BY StringIs DEF Upto1, Writable
<1>2. \A n \in Int : <<n>> \in Seq(Int) /\ Len(<<n>>) = 1
  OBVIOUS
<1>3. Upto2(tx) \in Seq(Int) /\ Len(Upto2(tx)) = Len(Upto1(tx)) + 1
  BY <1>1, <1>2, ConcatProperties DEF Upto2
<1>4. Upto3(tx) \in Seq(Int) /\ Len(Upto3(tx)) = Len(Upto2(tx)) + KeyLength
  BY <1>3, ConcatProperties DEF Upto3, Writable
<1>5. /\ LittleEndian(tx.nonce, NonceWidth) \in Seq(Int)
      /\ Len(LittleEndian(tx.nonce, NonceWidth)) = NonceWidth
  BY WidthsAre, LittleEndianIs DEF Writable
<1>6. Upto4(tx) \in Seq(Int) /\ Len(Upto4(tx)) = Len(Upto3(tx)) + NonceWidth
  BY <1>4, <1>5, ConcatProperties DEF Upto4
<1>7. /\ String(tx.receiverId) \in Seq(Int) /\ Len(tx.receiverId) \in Nat
      /\ Len(String(tx.receiverId)) = LengthWidth + Len(tx.receiverId)
  BY StringIs DEF Writable
<1>8. /\ Upto5(tx) \in Seq(Int)
      /\ Len(Upto5(tx)) = Len(Upto4(tx)) + (LengthWidth + Len(tx.receiverId))
  <2>1. Upto5(tx) \in Seq(Int) /\ Len(Upto5(tx)) = Len(Upto4(tx)) + Len(String(tx.receiverId))
    BY <1>6, <1>7, ConcatProperties DEF Upto5
  <2> QED
    BY <1>7, <2>1, Zenon
<1>9. Upto6(tx) \in Seq(Int) /\ Len(Upto6(tx)) = Len(Upto5(tx)) + HashLength
  BY <1>8, ConcatProperties DEF Upto6, Writable
<1>10. /\ LittleEndian(1, LengthWidth) \in Seq(Int)
       /\ Len(LittleEndian(1, LengthWidth)) = LengthWidth
  BY WidthsAre, LittleEndianIs
<1>11. Upto7(tx) \in Seq(Int) /\ Len(Upto7(tx)) = Len(Upto6(tx)) + LengthWidth
  BY <1>9, <1>10, ConcatProperties DEF Upto7
<1>12. Upto8(tx) \in Seq(Int) /\ Len(Upto8(tx)) = Len(Upto7(tx)) + 1
  BY <1>2, <1>11, ConcatProperties DEF Upto8
<1>13. Deposit(tx.deposit) \in Seq(Int) /\ Len(Deposit(tx.deposit)) = DepositWidth
  <2>1. tx.deposit \in Nat /\ tx.deposit < Power(Base, DepositWidth)
    BY DEF Writable
  <2>2. Deposit(tx.deposit) = LittleEndian(tx.deposit, DepositWidth)
    BY <2>1, DepositIs
  <2> QED
    BY <2>1, <2>2, WidthsAre, LittleEndianIs
<1>14. Unsigned(tx) \in Seq(Int) /\ Len(Unsigned(tx)) = Len(Upto8(tx)) + DepositWidth
  BY <1>12, <1>13, ConcatProperties DEF Unsigned
<1> QED
  BY <1>1, <1>3, <1>4, <1>6, <1>8, <1>9, <1>11, <1>12, <1>14

\* Where bytes hold the fields, each of them can be read.
LEMMA UnsignedHeld ==
  ASSUME NEW tx, Writable(tx), NEW bytes, Holds(bytes, 0, Unsigned(tx))
  PROVE  /\ Holds(bytes, 0, LittleEndian(Len(tx.signerId), LengthWidth))
         /\ Holds(bytes, LengthWidth, tx.signerId)
         /\ Holds(bytes, Len(Upto2(tx)), tx.publicKey)
         /\ Holds(bytes, Len(Upto3(tx)), LittleEndian(tx.nonce, NonceWidth))
         /\ Holds(bytes, Len(Upto4(tx)), LittleEndian(Len(tx.receiverId), LengthWidth))
         /\ Holds(bytes, Len(Upto4(tx)) + LengthWidth, tx.receiverId)
         /\ Holds(bytes, Len(Upto5(tx)), tx.blockHash)
         /\ Holds(bytes, Len(Upto6(tx)), LittleEndian(1, LengthWidth))
         /\ Holds(bytes, Len(Upto7(tx)), <<3>>)
         /\ Holds(bytes, Len(Upto8(tx)), LittleEndian(tx.deposit, DepositWidth))
<1>1. /\ Upto1(tx) \in Seq(Int) /\ Upto2(tx) \in Seq(Int) /\ Upto3(tx) \in Seq(Int)
      /\ Upto4(tx) \in Seq(Int) /\ Upto5(tx) \in Seq(Int) /\ Upto6(tx) \in Seq(Int)
      /\ Upto7(tx) \in Seq(Int) /\ Upto8(tx) \in Seq(Int)
  BY UnsignedIs
<1>2. /\ tx.signerId \in Seq(Int) /\ tx.publicKey \in Seq(Int)
      /\ tx.receiverId \in Seq(Int) /\ tx.blockHash \in Seq(Int)
      /\ tx.nonce \in Nat /\ tx.deposit \in Nat
      /\ tx.deposit < Power(Base, DepositWidth)
  BY DEF Writable
<1>3. \A s \in Seq(Int) : 0 + Len(s) = Len(s) /\ Len(s) \in Nat
  BY LenProperties
<1>4. \A s, p \in Seq(Int) :
        Holds(bytes, 0, s \o p) => Holds(bytes, 0, s) /\ Holds(bytes, Len(s), p)
  <2> SUFFICES ASSUME NEW s \in Seq(Int), NEW p \in Seq(Int), Holds(bytes, 0, s \o p)
               PROVE  Holds(bytes, 0, s) /\ Holds(bytes, Len(s), p)
    OBVIOUS
  <2>1. Holds(bytes, 0, s) /\ Holds(bytes, 0 + Len(s), p)
    BY HoldsParts
  <2> QED
    BY <1>3, <2>1
<1>5. \A n \in Nat : LittleEndian(n, LengthWidth) \in Seq(Int)
  BY WidthsAre, LittleEndianIs
<1>6. /\ LittleEndian(tx.nonce, NonceWidth) \in Seq(Int) /\ <<0>> \in Seq(Int)
      /\ LittleEndian(tx.deposit, DepositWidth) \in Seq(Int) /\ <<3>> \in Seq(Int)
      /\ Len(tx.signerId) \in Nat /\ Len(tx.receiverId) \in Nat
      /\ String(tx.signerId) \in Seq(Int) /\ String(tx.receiverId) \in Seq(Int)
  <2>1. /\ LittleEndian(tx.nonce, NonceWidth) \in Seq(Int)
        /\ LittleEndian(tx.deposit, DepositWidth) \in Seq(Int)
    BY <1>2, WidthsAre, LittleEndianIs
  <2>2. <<0>> \in Seq(Int) /\ <<3>> \in Seq(Int)
    OBVIOUS
  <2>3. Len(tx.signerId) \in Nat /\ String(tx.signerId) \in Seq(Int)
    BY <1>2, StringIs
  <2>4. Len(tx.receiverId) \in Nat /\ String(tx.receiverId) \in Seq(Int)
    BY <1>2, StringIs
  <2> QED
    BY <2>1, <2>2, <2>3, <2>4
<1>7. /\ Holds(bytes, 0, Upto8(tx))
      /\ Holds(bytes, Len(Upto8(tx)), LittleEndian(tx.deposit, DepositWidth))
  BY <1>1, <1>2, <1>4, <1>6, DepositIs DEF Unsigned
<1>8. Holds(bytes, 0, Upto7(tx)) /\ Holds(bytes, Len(Upto7(tx)), <<3>>)
  BY <1>1, <1>4, <1>6, <1>7 DEF Upto8
<1>9. /\ Holds(bytes, 0, Upto6(tx))
      /\ Holds(bytes, Len(Upto6(tx)), LittleEndian(1, LengthWidth))
  BY <1>1, <1>4, <1>5, <1>8 DEF Upto7
<1>10. Holds(bytes, 0, Upto5(tx)) /\ Holds(bytes, Len(Upto5(tx)), tx.blockHash)
  BY <1>1, <1>2, <1>4, <1>9 DEF Upto6
<1>11. Holds(bytes, 0, Upto4(tx)) /\ Holds(bytes, Len(Upto4(tx)), String(tx.receiverId))
  BY <1>1, <1>4, <1>6, <1>10 DEF Upto5
<1>12. /\ Holds(bytes, 0, Upto3(tx))
       /\ Holds(bytes, Len(Upto3(tx)), LittleEndian(tx.nonce, NonceWidth))
  BY <1>1, <1>4, <1>6, <1>11 DEF Upto4
<1>13. Holds(bytes, 0, Upto2(tx)) /\ Holds(bytes, Len(Upto2(tx)), tx.publicKey)
  BY <1>1, <1>2, <1>4, <1>12 DEF Upto3
<1>14. Holds(bytes, 0, String(tx.signerId))
  BY <1>1, <1>4, <1>6, <1>13 DEF Upto2, Upto1
<1>15. /\ Holds(bytes, 0, LittleEndian(Len(tx.signerId), LengthWidth))
       /\ Holds(bytes, LengthWidth, tx.signerId)
  <2>1. /\ Holds(bytes, 0, LittleEndian(Len(tx.signerId), LengthWidth))
        /\ Holds(bytes, Len(LittleEndian(Len(tx.signerId), LengthWidth)), tx.signerId)
    BY <1>2, <1>4, <1>5, <1>6, <1>14 DEF String
  <2> QED
    BY <1>6, <2>1, WidthsAre, LittleEndianIs
<1>16. /\ Holds(bytes, Len(Upto4(tx)), LittleEndian(Len(tx.receiverId), LengthWidth))
       /\ Holds(bytes, Len(Upto4(tx)) + LengthWidth, tx.receiverId)
  <2>1. Len(Upto4(tx)) \in Nat
    BY <1>1, <1>3
  <2>2. /\ Holds(bytes, Len(Upto4(tx)), LittleEndian(Len(tx.receiverId), LengthWidth))
        /\ Holds(bytes, Len(Upto4(tx)) + Len(LittleEndian(Len(tx.receiverId), LengthWidth)),
                 tx.receiverId)
    BY <1>2, <1>5, <1>6, <1>11, <2>1, HoldsParts DEF String
  <2> QED
    BY <1>6, <2>2, WidthsAre, LittleEndianIs
<1> QED
  BY <1>7, <1>8, <1>9, <1>10, <1>12, <1>13, <1>15, <1>16

\* What stands behind the bytes that were signed.
Behind(sig) == <<0>> \o <<sig>>

\* The node reads what was written, and whatever signature was put behind it.
LEMMA Decoded ==
  ASSUME NEW tx, Writable(tx), NEW sig, NEW bytes,
         bytes = Unsigned(tx) \o Behind(sig)
  PROVE  Decode(bytes) = [signer |-> tx.signerId, key |-> tx.publicKey,
                          nonce |-> tx.nonce, to |-> tx.receiverId,
                          blockHash |-> tx.blockHash, transfers |-> 1,
                          deposit |-> tx.deposit, signature |-> <<sig>>,
                          hash |-> digest(Unsigned(tx))]
<1> DEFINE S == Int \cup {sig}
           signerLength == Number(bytes, 1, LengthWidth)
           key == LengthWidth + signerLength + 2
           nonce == key + KeyLength
           receiver == nonce + NonceWidth + LengthWidth
           receiverLength == Number(bytes, nonce + NonceWidth, LengthWidth)
           hash == receiver + receiverLength
           actions == hash + HashLength
           deposit == actions + LengthWidth + 1
           end == deposit + DepositWidth
           upto2 == Len(Upto2(tx))
           upto3 == Len(Upto3(tx))
           upto4 == Len(Upto4(tx))
           upto5 == Len(Upto5(tx))
           upto6 == Len(Upto6(tx))
           upto7 == Len(Upto7(tx))
           upto8 == Len(Upto8(tx))
           all == Len(Unsigned(tx))
           ofSigner == Len(tx.signerId)
           ofReceiver == Len(tx.receiverId)
<1>1. /\ Unsigned(tx) \in Seq(S) /\ Behind(sig) \in Seq(S) /\ bytes \in Seq(S)
      /\ all \in Nat /\ Len(bytes) = all + 2
  <2>1. Unsigned(tx) \in Seq(S) /\ all \in Nat
    BY UnsignedIs, SeqMonotonic, LenProperties
  <2>2. Behind(sig) \in Seq(S) /\ Len(Behind(sig)) = 2
    BY DEF Behind
  <2> HIDE DEF S
  <2> QED
    BY <2>1, <2>2, ConcatProperties
<1>2. Holds(bytes, 0, Unsigned(tx)) /\ Holds(bytes, all, Behind(sig))
  <2>1. Holds(bytes, 0, bytes)
    BY DEF Holds
  <2>2. 0 + all = all /\ 0 \in Nat
    BY <1>1
  <2> HIDE DEF S
  <2>3. Holds(bytes, 0, Unsigned(tx)) /\ Holds(bytes, 0 + all, Behind(sig))
    BY <1>1, <2>1, <2>2, HoldsParts
  <2> QED
    BY <2>2, <2>3
<1>3. \A s \in Seq(Int) : Len(s) \in Nat
  BY LenProperties
<1>4. /\ ofSigner \in Nat /\ ofReceiver \in Nat
      /\ upto2 \in Nat /\ upto3 \in Nat /\ upto4 \in Nat /\ upto5 \in Nat
      /\ upto6 \in Nat /\ upto7 \in Nat /\ upto8 \in Nat
  BY <1>3, UnsignedIs DEF Writable
<1>5. /\ upto3 = upto2 + KeyLength /\ upto4 = upto3 + NonceWidth
      /\ upto5 = upto4 + (LengthWidth + ofReceiver) /\ upto6 = upto5 + HashLength
      /\ upto7 = upto6 + LengthWidth /\ upto8 = upto7 + 1 /\ all = upto8 + DepositWidth
  BY UnsignedIs
<1>6. upto2 = (LengthWidth + ofSigner) + 1
  BY UnsignedIs, Zenon
<1>7. /\ tx.signerId \in Seq(Int) /\ Len(tx.signerId) = ofSigner
      /\ ofSigner < Power(Base, LengthWidth)
      /\ tx.publicKey \in Seq(Int) /\ Len(tx.publicKey) = KeyLength
      /\ tx.nonce \in Nat /\ tx.nonce < Power(Base, NonceWidth)
      /\ tx.receiverId \in Seq(Int) /\ Len(tx.receiverId) = ofReceiver
      /\ ofReceiver < Power(Base, LengthWidth)
      /\ tx.blockHash \in Seq(Int) /\ Len(tx.blockHash) = HashLength
      /\ tx.deposit \in Nat /\ tx.deposit < Power(Base, DepositWidth)
      /\ Len(Unsigned(tx)) = all
  BY DEF Writable
<1>8. /\ Holds(bytes, 0, LittleEndian(ofSigner, LengthWidth))
      /\ Holds(bytes, LengthWidth, tx.signerId)
      /\ Holds(bytes, upto2, tx.publicKey)
      /\ Holds(bytes, upto3, LittleEndian(tx.nonce, NonceWidth))
      /\ Holds(bytes, upto4, LittleEndian(ofReceiver, LengthWidth))
      /\ Holds(bytes, upto4 + LengthWidth, tx.receiverId)
      /\ Holds(bytes, upto5, tx.blockHash)
      /\ Holds(bytes, upto6, LittleEndian(1, LengthWidth))
      /\ Holds(bytes, upto7, <<3>>)
      /\ Holds(bytes, upto8, LittleEndian(tx.deposit, DepositWidth))
  BY <1>2, UnsignedHeld, Zenon
<1> HIDE DEF upto2, upto3, upto4, upto5, upto6, upto7, upto8, all, ofSigner, ofReceiver
<1>9. signerLength = ofSigner
  <2>1. /\ ofSigner \in Nat /\ ofSigner < Power(Base, LengthWidth) /\ LengthWidth \in Nat
        /\ Holds(bytes, 0, LittleEndian(ofSigner, LengthWidth)) /\ 0 \in Nat
    BY <1>4, <1>7, <1>8, WidthsAre
  <2>2. Number(bytes, 0 + 1, LengthWidth) = ofSigner
    BY <2>1, HoldsNumber
  <2>3. 0 + 1 = 1
    OBVIOUS
  <2> QED
    BY <2>2, <2>3
<1> HIDE DEF signerLength
<1>10. /\ key \in Nat /\ key = upto2 + 1
       /\ nonce \in Nat /\ nonce = upto3 + 1
       /\ nonce + NonceWidth \in Nat /\ nonce + NonceWidth = upto4 + 1
  BY <1>4, <1>5, <1>6, <1>9, WidthsAre
<1> HIDE DEF nonce
<1>11. receiverLength = ofReceiver
  <2>1. Number(bytes, upto4 + 1, LengthWidth) = ofReceiver
    BY <1>4, <1>7, <1>8, WidthsAre, HoldsNumber
  <2> QED
    BY <1>10, <2>1
<1> HIDE DEF receiverLength
<1>12. /\ receiver \in Nat /\ receiver = (upto4 + LengthWidth) + 1
       /\ hash \in Nat /\ hash = upto5 + 1
       /\ actions \in Nat /\ actions = upto6 + 1
       /\ deposit \in Nat /\ deposit - 1 = upto7 + 1 /\ deposit = upto8 + 1
       /\ end \in Nat /\ end = all + 1
  BY <1>4, <1>5, <1>10, <1>11, WidthsAre
<1> HIDE DEF key, receiver, hash, actions, deposit, end
<1>13. SubSeq(bytes, LengthWidth + 1, LengthWidth + signerLength) = tx.signerId
  <2>1. LengthWidth + 1 \in Int /\ LengthWidth + ofSigner \in Int /\ LengthWidth \in Nat
    BY <1>4, WidthsAre
  <2>2. SubSeq(bytes, LengthWidth + 1, LengthWidth + ofSigner) = tx.signerId
    BY <1>7, <1>8, <2>1, HoldsField
  <2> QED
    BY <1>9, <2>2
<1>14. SubSeq(bytes, key, nonce - 1) = tx.publicKey
  <2>1. nonce - 1 = upto2 + KeyLength /\ nonce - 1 \in Int /\ key \in Int
    BY <1>4, <1>5, <1>10, WidthsAre
  <2>2. SubSeq(bytes, upto2 + 1, upto2 + KeyLength) = tx.publicKey
    BY <1>4, <1>7, <1>8, HoldsField
  <2> QED
    BY <1>10, <2>1, <2>2
<1>15. Number(bytes, nonce, NonceWidth) = tx.nonce
  <2> DEFINE n == tx.nonce
  <2>1. /\ n \in Nat /\ n < Power(Base, NonceWidth)
        /\ Holds(bytes, upto3, LittleEndian(n, NonceWidth))
    BY <1>7, <1>8
  <2> HIDE DEF n
  <2>2. Number(bytes, upto3 + 1, NonceWidth) = n
    BY <1>4, <2>1, WidthsAre, HoldsNumber
  <2> QED
    BY <1>10, <2>2 DEF n
<1>16. SubSeq(bytes, receiver, hash - 1) = tx.receiverId
  <2>1. /\ hash - 1 = (upto4 + LengthWidth) + ofReceiver /\ hash - 1 \in Int
        /\ upto4 + LengthWidth \in Nat /\ receiver \in Int
    BY <1>4, <1>5, <1>12, WidthsAre
  <2>2. SubSeq(bytes, (upto4 + LengthWidth) + 1, (upto4 + LengthWidth) + ofReceiver)
          = tx.receiverId
    BY <1>7, <1>8, <2>1, HoldsField
  <2> QED
    BY <1>12, <2>1, <2>2
<1>17. SubSeq(bytes, hash, actions - 1) = tx.blockHash
  <2>1. actions - 1 = upto5 + HashLength /\ actions - 1 \in Int /\ hash \in Int
    BY <1>4, <1>5, <1>12, WidthsAre
  <2>2. SubSeq(bytes, upto5 + 1, upto5 + HashLength) = tx.blockHash
    BY <1>4, <1>7, <1>8, HoldsField
  <2> QED
    BY <1>12, <2>1, <2>2
<1>18. bytes[deposit - 1] = 3
  <2>1. bytes[upto7 + 1] = 3
    <3>1. upto7 \in Nat /\ 3 \in Int /\ Holds(bytes, upto7, <<3>>)
      BY <1>4, <1>8
    <3> QED
      BY <3>1, HoldsByte, Zenon
  <2> QED
    BY <1>12, <2>1
<1>19. Number(bytes, actions, LengthWidth) = 1
  <2>1. Number(bytes, upto6 + 1, LengthWidth) = 1
    BY <1>4, <1>8, WidthsAre, HoldsNumber
  <2> QED
    BY <1>12, <2>1
<1>20. Number(bytes, deposit, DepositWidth) = tx.deposit
  <2> DEFINE n == tx.deposit
  <2>1. /\ n \in Nat /\ n < Power(Base, DepositWidth)
        /\ Holds(bytes, upto8, LittleEndian(n, DepositWidth))
    BY <1>7, <1>8
  <2> HIDE DEF n
  <2>2. Number(bytes, upto8 + 1, DepositWidth) = n
    BY <1>4, <2>1, WidthsAre, HoldsNumber
  <2> QED
    BY <1>12, <2>2 DEF n
<1>21. SubSeq(bytes, end + 1, Len(bytes)) = <<sig>>
  <2>1. <<0>> \in Seq(S) /\ <<sig>> \in Seq(S) /\ Len(<<0>>) = 1 /\ Len(<<sig>>) = 1
    OBVIOUS
  <2> HIDE DEF S
  <2>2. Holds(bytes, all + 1, <<sig>>)
    BY <1>1, <1>2, <2>1, HoldsParts DEF Behind
  <2>3. /\ all + 1 \in Nat /\ end + 1 \in Int /\ Len(bytes) \in Int
        /\ end + 1 = (all + 1) + 1 /\ Len(bytes) = (all + 1) + 1
    BY <1>1, <1>12
  <2> QED
    BY <2>1, <2>2, <2>3, HoldsField
<1>22. SubSeq(bytes, 1, end - 1) = Unsigned(tx)
  <2>1. end - 1 = 0 + all /\ end - 1 \in Int /\ 0 \in Nat /\ 1 \in Int /\ 1 = 0 + 1
    BY <1>1, <1>12
  <2> HIDE DEF S
  <2> QED
    BY <1>1, <1>2, <1>7, <2>1, HoldsField
<1> QED
  BY <1>13, <1>14, <1>15, <1>16, <1>17, <1>18, <1>19, <1>20, <1>21, <1>22
  DEF Decode, signerLength, key, nonce, receiver, receiverLength, hash, actions, deposit, end

(* What is asked for can be written *)

LEMMA AskWritable ==
  ASSUME NEW ask \in Ask
  PROVE  /\ Writable(NewTransaction(ask)) /\ Writable(Marshal(NewTransaction(ask)))
         /\ NewTransaction(ask).deposit * Power(Ten, ask.amount.places)
              = ask.amount.units * Power(Ten, Decimals)
<1> DEFINE tx == NewTransaction(ask)
           read == Marshal(tx)
           a == ask.amount
<1>1. /\ ask.key \in Keys /\ ask.to \in Receivers /\ ask.blockHash \in BlockHashes
      /\ ask.nonce \in Nonces /\ a \in Amounts
  BY DEF Ask
<1>2. /\ tx.signerId = AddressEncode(ask.key)
      /\ tx.publicKey = DecodeString(AddressEncode(ask.key))
      /\ tx.nonce = ask.nonce /\ tx.receiverId = ask.to /\ tx.blockHash = ask.blockHash
      /\ tx.deposit = Smallest(a)
  BY DEF NewTransaction
<1>3. /\ tx.signerId \in Seq(Int) /\ Len(tx.signerId) < Power(Base, LengthWidth)
      /\ tx.publicKey \in Seq(Int) /\ Len(tx.publicKey) = KeyLength
  <2>1. 2 * KeyLength < Power(Base, LengthWidth)
    BY SerialisationAssumption
  <2>2. /\ AddressEncode(ask.key) \in Seq(Int) /\ Len(AddressEncode(ask.key)) = 2 * KeyLength
        /\ DecodeString(AddressEncode(ask.key)) = ask.key
        /\ ask.key \in Seq(Int) /\ Len(ask.key) = KeyLength
    BY <1>1, AddressDecoded
  <2> HIDE DEF tx
  <2> QED
    BY <1>2, <2>1, <2>2
<1>4. tx.nonce \in Nat /\ tx.nonce < Power(Base, NonceWidth)
  <2>1. Power(Base, NonceWidth) \in Int
    BY WidthsAre, BaseIs, PowerIs
  <2>2. ask.nonce \in 0..(Power(Base, NonceWidth) - 1)
    BY <1>1, SerialisationAssumption
  <2> QED
    BY <1>2, <2>1, <2>2
<1>5. /\ tx.receiverId \in Seq(Int) /\ Len(tx.receiverId) < Power(Base, LengthWidth)
      /\ Json[tx.receiverId] \in Seq(Int) /\ Len(Json[tx.receiverId]) < Power(Base, LengthWidth)
  <2>1. /\ ask.to \in Seq(Byte) /\ Len(ask.to) < Power(Base, LengthWidth)
        /\ Json[ask.to] \in Seq(Byte) /\ Len(Json[ask.to]) < Power(Base, LengthWidth)
    BY <1>1, SerialisationAssumption
  <2>2. Byte \subseteq Int
    BY DEF Byte
  <2>3. ask.to \in Seq(Int) /\ Json[ask.to] \in Seq(Int)
    BY <2>1, <2>2, SeqMonotonic
  <2> QED
    BY <1>2, <2>1, <2>3
<1>6. tx.blockHash \in Seq(Int) /\ Len(tx.blockHash) = HashLength
  <2>1. ask.blockHash \in [1..HashLength -> Int]
    BY <1>1, SerialisationAssumption DEF Byte
  <2> QED
    BY <1>2, <2>1, WidthsAre, FunctionIsSeq
<1>7. /\ a.units \in Nat /\ a.places \in Nat /\ Decimals - a.places \in Nat
      /\ (Decimals - a.places) + a.places = Decimals
      /\ a.units * Power(Ten, Decimals - a.places) < Power(Base, DepositWidth)
  <2>1. /\ a.units \in Nat /\ a.places \in 0..Decimals /\ Decimals \in Nat
        /\ a.units * Power(Ten, Decimals - a.places) < Power(Base, DepositWidth)
    BY <1>1, SerialisationAssumption
  <2> QED
    BY <2>1
<1>8. /\ Power(Ten, Decimals - a.places) \in Nat /\ Power(Ten, a.places) \in Nat
      /\ Power(Ten, Decimals) = Power(Ten, Decimals - a.places) * Power(Ten, a.places)
  <2>1. Power(Ten, Decimals - a.places) \in Nat /\ Power(Ten, a.places) \in Nat
    BY <1>7, BaseIs, PowerPositive
  <2>2. Power(Ten, (Decimals - a.places) + a.places)
          = Power(Ten, Decimals - a.places) * Power(Ten, a.places)
    BY <1>7, BaseIs, PowerSum
  <2> QED
    BY <1>7, <2>1, <2>2
<1>9. tx.deposit \in Nat /\ tx.deposit < Power(Base, DepositWidth)
  <2>1. \A x, y \in Nat : x * y \in Nat
    OBVIOUS
  <2> QED
    BY <1>2, <1>7, <1>8, <2>1 DEF Smallest
<1>10. tx.deposit * Power(Ten, a.places) = a.units * Power(Ten, Decimals)
  <2>1. \A x, y, z \in Nat : (x * y) * z = x * (y * z)
    OBVIOUS
  <2>2. tx.deposit = a.units * Power(Ten, Decimals - a.places)
    BY <1>2 DEF Smallest
  <2> QED
    BY <1>7, <1>8, <2>1, <2>2
<1>11. /\ read.signerId = tx.signerId /\ read.publicKey = tx.publicKey
       /\ read.nonce = tx.nonce /\ read.receiverId = Json[tx.receiverId]
       /\ read.blockHash = tx.blockHash /\ read.deposit = tx.deposit
  BY DEF Marshal, NewTransaction
<1> HIDE DEF tx, read
<1>12. Writable(tx) /\ Writable(read)
  BY <1>3, <1>4, <1>5, <1>6, <1>9, <1>11 DEF Writable
<1> QED
  BY <1>10, <1>12 DEF tx, read

(* The invariant *)

SignatureOf(ask) == [by |-> ask.key, of |-> Message(NewTransaction(ask))]
SignedBytes(ask) == Signing(Marshal(NewTransaction(ask)), <<SignatureOf(ask)>>)

\* Whatever has been made of a transaction comes from what was asked for.
FromAsked ==
  \/ asked = Nothing /\ rawHex.form = "none" /\ node = Nothing
  \/ /\ asked \in Ask
     /\ message = Message(NewTransaction(asked))
     /\ \/ rawHex = As("json", Marshal(NewTransaction(asked)))
        \/ rawHex = As("hex", SignedBytes(asked))
        \/ rawHex = As("base64", SignedBytes(asked))
     /\ node \in {Nothing, Decode(SignedBytes(asked))}

LEMMA InitFrom == Init => FromAsked
  BY DEF Init, FromAsked, As

LEMMA StepFrom == FromAsked /\ [Next]_vars => FromAsked'
<1> SUFFICES ASSUME FromAsked, [Next]_vars
             PROVE  FromAsked'
  OBVIOUS
<1>1. ASSUME NEW ask \in Ask, Create(ask)
      PROVE  FromAsked'
  <2>1. node' = Nothing
    BY <1>1, SerialisationAssumption DEF Create, FromAsked
  <2> QED
    BY <1>1, <2>1 DEF Create, FromAsked
<1>2. CASE SignRawTransaction
  <2>1. /\ asked \in Ask /\ message = Message(NewTransaction(asked))
        /\ rawHex = As("json", Marshal(NewTransaction(asked)))
        /\ node \in {Nothing, Decode(SignedBytes(asked))}
    BY <1>2 DEF SignRawTransaction, FromAsked, As
  <2>2. signed' = <<SignatureOf(asked)>>
    BY <1>2, <2>1 DEF SignRawTransaction, Signature, SignatureOf
  <2>3. rawHex' = As("hex", SignedBytes(asked))
    BY <1>2, <2>1, <2>2 DEF SignRawTransaction, SignedBytes, As
  <2> QED
    BY <1>2, <2>1, <2>3 DEF SignRawTransaction, FromAsked
<1>3. CASE VerifyRawTransaction
  <2>1. /\ asked \in Ask /\ message = Message(NewTransaction(asked))
        /\ rawHex = As("hex", SignedBytes(asked))
        /\ node \in {Nothing, Decode(SignedBytes(asked))}
    BY <1>3 DEF VerifyRawTransaction, FromAsked, As
  <2>2. rawHex' = As("base64", SignedBytes(asked))
    BY <1>3, <2>1 DEF VerifyRawTransaction, As
  <2> QED
    BY <1>3, <2>1, <2>2 DEF VerifyRawTransaction, FromAsked
<1>4. CASE SubmitRawTransaction
  <2>1. /\ asked \in Ask /\ message = Message(NewTransaction(asked))
        /\ rawHex = As("base64", SignedBytes(asked))
    BY <1>4 DEF SubmitRawTransaction, FromAsked, As
  <2>2. node' = Decode(SignedBytes(asked))
    BY <1>4, <2>1 DEF SubmitRawTransaction, As
  <2> QED
    BY <1>4, <2>1, <2>2 DEF SubmitRawTransaction, FromAsked
<1>5. CASE UNCHANGED vars
  BY <1>5 DEF vars, FromAsked
<1> QED
  BY <1>1, <1>2, <1>3, <1>4, <1>5 DEF Next

\* What is hashed has no signature; what is sent is what came back of the JSON, with
\* one behind it.
LEMMA AskRead ==
  ASSUME NEW ask \in Ask
  PROVE  /\ Decode(SignedBytes(ask)) =
              [signer |-> AddressEncode(ask.key), key |-> ask.key, nonce |-> ask.nonce,
               to |-> Json[ask.to], blockHash |-> ask.blockHash, transfers |-> 1,
               deposit |-> NewTransaction(ask).deposit, signature |-> <<SignatureOf(ask)>>,
               hash |-> digest(Unsigned(Marshal(NewTransaction(ask))))]
         /\ Message(NewTransaction(ask)) = digest(Unsigned(NewTransaction(ask)))
<1> DEFINE tx == NewTransaction(ask)
           read == Marshal(tx)
           sig == SignatureOf(ask)
           sent == [read EXCEPT !.signature = <<sig>>]
<1>1. /\ tx.signerId = AddressEncode(ask.key) /\ tx.publicKey = ask.key
      /\ tx.nonce = ask.nonce /\ tx.receiverId = ask.to
      /\ tx.blockHash = ask.blockHash /\ tx.signature = <<>>
  BY AddressDecoded DEF NewTransaction, Ask
<1>2. /\ read.signerId = tx.signerId /\ read.publicKey = tx.publicKey
      /\ read.nonce = tx.nonce /\ read.receiverId = Json[tx.receiverId]
      /\ read.blockHash = tx.blockHash /\ read.deposit = tx.deposit
  BY DEF Marshal, NewTransaction
<1>3. /\ sent.signerId = read.signerId /\ sent.publicKey = read.publicKey
      /\ sent.nonce = read.nonce /\ sent.receiverId = read.receiverId
      /\ sent.blockHash = read.blockHash /\ sent.deposit = read.deposit
      /\ sent.signature = <<sig>>
  BY DEF Marshal, NewTransaction
<1>4. Writable(tx) /\ Writable(read)
  BY AskWritable
<1> HIDE DEF sig
<1>5. SignedBytes(ask) = Serialize(sent)
  BY DEF SignedBytes, Signing, sig
<1> HIDE DEF tx, read, sent
<1>6. Unsigned(sent) = Unsigned(read)
  BY <1>3 DEF Unsigned, Upto1, Upto2, Upto3, Upto4, Upto5, Upto6, Upto7, Upto8
<1>7. Serialize(sent) = Unsigned(read) \o Behind(sig)
  <2>1. <<sig>> # <<>>
    OBVIOUS
  <2> QED
    BY <1>3, <1>6, <2>1, SerializeIs DEF Behind
<1>8. Message(tx) = digest(Unsigned(tx))
  <2>1. Unsigned(tx) \o <<>> = Unsigned(tx)
    BY <1>4, UnsignedIs, ConcatEmptySeq
  <2> QED
    BY <1>1, <2>1, SerializeIs DEF Message
<1>9. Decode(SignedBytes(ask)) =
        [signer |-> read.signerId, key |-> read.publicKey, nonce |-> read.nonce,
         to |-> read.receiverId, blockHash |-> read.blockHash, transfers |-> 1,
         deposit |-> read.deposit, signature |-> <<sig>>, hash |-> digest(Unsigned(read))]
  BY <1>4, <1>5, <1>7, Decoded
<1>10. Decode(SignedBytes(ask)) =
        [signer |-> tx.signerId, key |-> tx.publicKey, nonce |-> tx.nonce,
         to |-> Json[tx.receiverId], blockHash |-> tx.blockHash, transfers |-> 1,
         deposit |-> tx.deposit, signature |-> <<sig>>, hash |-> digest(Unsigned(read))]
  BY <1>2, <1>9
<1> QED
  BY <1>1, <1>8, <1>10 DEF tx, read, sig

\* Two transactions whose bytes are the same have the same receiver: there is one
\* way to read them.
LEMMA ReadOneWay ==
  ASSUME NEW tx, NEW read, Writable(tx), Writable(read), Unsigned(tx) = Unsigned(read)
  PROVE  tx.receiverId = read.receiverId
<1> DEFINE bytes == Unsigned(tx) \o Behind(tx)
           Read(x) == [signer |-> x.signerId, key |-> x.publicKey,
                       nonce |-> x.nonce, to |-> x.receiverId,
                       blockHash |-> x.blockHash, transfers |-> 1,
                       deposit |-> x.deposit, signature |-> <<tx>>,
                       hash |-> digest(Unsigned(x))]
<1>1. bytes = Unsigned(read) \o Behind(tx)
  OBVIOUS
<1>2. bytes = Unsigned(tx) \o Behind(tx)
  OBVIOUS
<1> HIDE DEF bytes
<1>3. Decode(bytes) = Read(tx)
  BY <1>2, Decoded
<1>4. Decode(bytes) = Read(read)
  BY <1>1, Decoded
<1>5. Read(tx).to = tx.receiverId /\ Read(read).to = read.receiverId
  OBVIOUS
<1> HIDE DEF Read
<1> QED
  BY <1>3, <1>4, <1>5

\* The signature is of the bytes the node reads only if JSON left the name alone.
LEMMA AcceptedAsked ==
  ASSUME FromAsked, node # Nothing
  PROVE  /\ asked \in Ask /\ node = Decode(SignedBytes(asked))
         /\ Accepted <=> Json[asked.to] = asked.to
<1>1. asked \in Ask /\ node = Decode(SignedBytes(asked))
  BY DEF FromAsked
<1> DEFINE tx == NewTransaction(asked)
           read == Marshal(tx)
<1>2. /\ node.signature = <<SignatureOf(asked)>> /\ node.key = asked.key
      /\ node.hash = digest(Unsigned(read)) /\ Message(tx) = digest(Unsigned(tx))
  BY <1>1, AskRead
<1>3. Writable(tx) /\ Writable(read)
  BY <1>1, AskWritable
<1>4. tx.receiverId = asked.to /\ read.receiverId = Json[asked.to]
  BY DEF NewTransaction, Marshal
<1>5. ASSUME Json[asked.to] = asked.to
      PROVE  read = tx
  BY <1>5 DEF Marshal, NewTransaction
<1> HIDE DEF tx, read
<1>6. Accepted <=> digest(Unsigned(read)) = digest(Unsigned(tx))
  <2>1. node.signature = <<[by |-> asked.key, of |-> digest(Unsigned(tx))]>>
    BY <1>2 DEF SignatureOf, tx
  <2>2. Signature(node.key, node.hash) = <<[by |-> asked.key, of |-> digest(Unsigned(read))]>>
    BY <1>2 DEF Signature
  <2>3. \A k, g, h : <<[by |-> k, of |-> g]>> = <<[by |-> k, of |-> h]>> <=> g = h
    OBVIOUS
  <2> QED
    BY <2>1, <2>2, <2>3 DEF Accepted
<1>7. digest(Unsigned(read)) = digest(Unsigned(tx)) <=> Unsigned(read) = Unsigned(tx)
  BY DEF digest
<1>8. Unsigned(read) = Unsigned(tx) <=> Json[asked.to] = asked.to
  BY <1>3, <1>4, <1>5, ReadOneWay
<1> QED
  BY <1>1, <1>6, <1>7, <1>8

\* What the node accepts is what the transaction was created for, for every base,
\* width, key, name, block, nonce and amount, and whatever JSON makes of names:
\* neartransaction.Serialize, json.Marshal in createRawTransaction.
THEOREM AskedAlwaysRead == Spec => []NodeReadsAsked
<1>1. FromAsked => NodeReadsAsked
  <2> SUFFICES ASSUME FromAsked, Accepted
               PROVE  /\ node.signer = AddressEncode(asked.key) /\ node.key = asked.key
                      /\ node.to = asked.to
                      /\ node.nonce = asked.nonce /\ node.blockHash = asked.blockHash
                      /\ node.transfers = 1
                      /\ node.deposit * Power(Ten, asked.amount.places)
                           = asked.amount.units * Power(Ten, Decimals)
    BY DEF NodeReadsAsked
  <2>1. /\ asked \in Ask /\ node = Decode(SignedBytes(asked))
        /\ Json[asked.to] = asked.to
    BY AcceptedAsked DEF Accepted
  <2>2. /\ node.signer = AddressEncode(asked.key) /\ node.key = asked.key
        /\ node.to = Json[asked.to] /\ node.nonce = asked.nonce
        /\ node.blockHash = asked.blockHash /\ node.transfers = 1
        /\ node.deposit = NewTransaction(asked).deposit
    BY <2>1, AskRead
  <2> QED
    BY <2>1, <2>2, AskWritable
<1> QED
  BY <1>1, InitFrom, StepFrom, PTL DEF Spec

\* A transfer to a name that is text is accepted: SignRawTransaction signs the hash
\* of what Serialize made before the JSON, and sends what it makes after it.
THEOREM SignatureAlwaysOfRead == Spec => []SignatureIsOfRead
<1>1. FromAsked => SignatureIsOfRead
  BY AcceptedAsked DEF SignatureIsOfRead
<1> QED
  BY <1>1, InitFrom, StepFrom, PTL DEF Spec
=============================================================================
