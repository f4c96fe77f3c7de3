--------------------------- MODULE RLPCodec_proofs ---------------------------
(***************************************************************************)
(* Proofs about RLPCodec, for all items, words and lists that a            *)
(* transaction can pay for: the reader takes out what the writer put in.   *)
(***************************************************************************)
EXTENDS RLPCodec, SequenceTheorems, NaturalsInduction, WellFoundedInduction, TLAPS

-----------------------------------------------------------------------------
(***************************************************************************)
(* Natural numbers: the least of a set, induction with a set in place of a *)
(* predicate, and recursion with a function in place of an operator.       *)
(***************************************************************************)
Less == {pair \in Nat \X Nat : pair[1] < pair[2]}

LEMMA LeastNat ==
  ASSUME NEW T \in SUBSET Nat, T # {}
  PROVE  \E x \in T : \A y \in T : x <= y
<1>1. IsWellFoundedOn(Less, Nat)
  <2>1. Less = OpToRel(<, Nat)
    BY DEF Less, OpToRel
  <2>. QED BY <2>1, NatLessThanWellFounded
<1>2. PICK x \in T : \A y \in T : ~(<<y, x>> \in Less)
  BY WFMin, <1>1
<1>3. \A y \in T : y \in Nat
  OBVIOUS
<1>4. \A y \in T : ~(y < x)
  BY <1>2, <1>3 DEF Less
<1>. QED BY <1>3, <1>4

LEMMA Induction ==
  ASSUME NEW T \in SUBSET Nat, 0 \in T, \A n \in T : n + 1 \in T
  PROVE  T = Nat
<1>1. SUFFICES ASSUME Nat \ T # {} PROVE FALSE
  OBVIOUS
<1>2. PICK x \in Nat \ T : \A y \in Nat \ T : x <= y
  BY <1>1, LeastNat
<1>3. x # 0 /\ x - 1 \in Nat
  BY <1>2
<1>4. x - 1 \in T
  BY <1>2, <1>3
<1>. QED BY <1>3, <1>4

Iterates(f, S, base, step) ==
  f \in [Nat -> S] /\ f[0] = base /\ \A n \in Nat : f[n + 1] = step[<<n, f[n]>>]

LEMMA Recursion ==
  ASSUME NEW S, NEW base \in S, NEW step \in [Nat \X S -> S]
  PROVE  \E f : Iterates(f, S, base, step)
<1>. DEFINE Begins(n) ==
              {g \in [0..n -> S] : g[0] = base /\ \A i \in 0..(n - 1) : g[i + 1] = step[<<i, g[i]>>]}
            T == {n \in Nat : Begins(n) # {}}
<1>1. 0 \in T
  <2>1. [i \in 0..0 |-> base] \in Begins(0)
    OBVIOUS
  <2>. QED BY <2>1
<1>2. ASSUME NEW n \in T PROVE n + 1 \in T
  <2>1. PICK g \in [0..n -> S] : g[0] = base /\ \A i \in 0..(n - 1) : g[i + 1] = step[<<i, g[i]>>]
    BY <1>2
  <2>. DEFINE h == [i \in 0..(n + 1) |-> IF i = n + 1 THEN step[<<n, g[n]>>] ELSE g[i]]
  <2>2. n \in Nat /\ g[n] \in S /\ step[<<n, g[n]>>] \in S
    BY <1>2, <2>1
  <2>3. h \in [0..(n + 1) -> S]
    BY <2>1, <2>2
  <2>4. /\ h[n + 1] = step[<<n, g[n]>>]
        /\ \A i \in 0..n : h[i] = g[i]
    BY <2>2
  <2>5. h[0] = base
    BY <2>1, <2>2, <2>4
  <2>6. ASSUME NEW i \in 0..n PROVE h[i + 1] = step[<<i, h[i]>>]
    <3>. HIDE DEF h
    <3>1. CASE i = n
      BY <2>2, <2>4, <3>1
    <3>2. CASE i # n
      <4>1. i \in 0..(n - 1) /\ i + 1 \in 0..n
        BY <2>2, <3>2
      <4>. QED BY <2>1, <2>4, <4>1
    <3>. QED BY <3>1, <3>2
  <2>7. h \in Begins(n + 1)
    <3>1. (n + 1) - 1 = n
      BY <2>2
    <3>. HIDE DEF h
    <3>. QED BY <2>3, <2>5, <2>6, <3>1
  <2>8. n + 1 \in Nat
    BY <2>2
  <2>. HIDE DEF Begins, h
  <2>. QED BY <2>7, <2>8
<1>3. T = Nat
  <2>. HIDE DEF T
  <2>1. T \in SUBSET Nat
    BY DEF T
  <2>. QED BY <1>1, <1>2, <2>1, Induction
<1>. DEFINE G(n) == CHOOSE g \in Begins(n) : TRUE
            f == [n \in Nat |-> G(n)[n]]
<1>4. ASSUME NEW n \in Nat
      PROVE  G(n) \in [0..n -> S] /\ G(n)[0] = base /\ \A i \in 0..(n - 1) : G(n)[i + 1] = step[<<i, G(n)[i]>>]
  <2>1. Begins(n) # {}
    BY <1>3
  <2>2. G(n) \in Begins(n)
    <3>. HIDE DEF Begins
    <3>. QED BY <2>1
  <2>. HIDE DEF G
  <2>. QED BY <2>2
<1>5. ASSUME NEW n \in Nat PROVE f[n + 1] = step[<<n, f[n]>>]
  <2>. DEFINE U == {i \in Nat : i <= n => G(n + 1)[i] = G(n)[i]}
  <2>. HIDE DEF G, f
  <2>0. n + 1 \in Nat /\ (n + 1) - 1 = n
    OBVIOUS
  <2>1. 0 \in U
    BY <1>4, <2>0
  <2>2. ASSUME NEW i \in U PROVE i + 1 \in U
    <3>1. CASE i + 1 <= n
      <4>1. i \in 0..(n - 1) /\ i \in 0..n /\ i <= n
        BY <3>1
      <4>2. G(n + 1)[i + 1] = step[<<i, G(n + 1)[i]>>]
        BY <1>4, <2>0, <4>1
      <4>3. G(n)[i + 1] = step[<<i, G(n)[i]>>]
        BY <1>4, <4>1
      <4>. QED BY <4>1, <4>2, <4>3
    <3>2. CASE ~(i + 1 <= n)
      BY <3>2
    <3>. QED BY <3>1, <3>2
  <2>3. U = Nat
    <3>1. U \in SUBSET Nat
      OBVIOUS
    <3>. HIDE DEF U
    <3>. QED BY <2>1, <2>2, <3>1, Induction
  <2>4. G(n + 1)[n] = G(n)[n]
    BY <2>3
  <2>5. G(n + 1)[n + 1] = step[<<n, G(n + 1)[n]>>]
    BY <1>4, <2>0
  <2>6. f[n] = G(n)[n] /\ f[n + 1] = G(n + 1)[n + 1]
    BY <2>0 DEF f
  <2>. QED BY <2>4, <2>5, <2>6
<1>6. f \in [Nat -> S] /\ f[0] = base
  <2>1. \A n \in Nat : G(n)[n] \in S
    <3>1. \A n \in Nat : n \in 0..n
      OBVIOUS
    <3>. HIDE DEF G
    <3>. QED BY <1>4, <3>1
  <2>2. G(0)[0] = base
    <3>. HIDE DEF G
    <3>. QED BY <1>4
  <2>. HIDE DEF G
  <2>. QED BY <2>1, <2>2
<1>. HIDE DEF f
<1>7. Iterates(f, S, base, step)
  BY <1>5, <1>6 DEF Iterates
<1>. QED BY <1>7

-----------------------------------------------------------------------------
(***************************************************************************)
(* Numbers as bytes.                                                       *)
(***************************************************************************)
LEMMA ShiftedBy ==
  ASSUME NEW x \in Nat
  PROVE  /\ Shifted(x) \in [Nat -> Nat] /\ Shifted(x)[0] = x
         /\ \A i \in Nat : Shifted(x)[i + 1] = Shifted(x)[i] \div 256
<1>. DEFINE step == [p \in Nat \X Nat |-> p[2] \div 256]
            Is(f) == f = [i \in Nat |-> IF i = 0 THEN x ELSE f[i - 1] \div 256]
<1>1. step \in [Nat \X Nat -> Nat]
  OBVIOUS
<1>2. \A n, y \in Nat : step[<<n, y>>] = y \div 256
  OBVIOUS
<1>3. PICK f : f \in [Nat -> Nat] /\ f[0] = x /\ \A n \in Nat : f[n + 1] = step[<<n, f[n]>>]
  <2>. HIDE DEF step
  <2>1. \E f : Iterates(f, Nat, x, step)
    BY <1>1, Recursion, Zenon
  <2>. QED BY <2>1 DEF Iterates
<1>4. Is(f)
  <2>1. ASSUME NEW i \in Nat PROVE f[i] = IF i = 0 THEN x ELSE f[i - 1] \div 256
    <3>1. CASE i # 0
      <4>1. i - 1 \in Nat /\ (i - 1) + 1 = i
        BY <3>1
      <4>. HIDE DEF step
      <4>2. f[(i - 1) + 1] = step[<<i - 1, f[i - 1]>>] /\ f[i - 1] \in Nat
        BY <1>3, <4>1
      <4>3. step[<<i - 1, f[i - 1]>>] = f[i - 1] \div 256
        BY <1>2, <4>1, <4>2
      <4>. QED BY <3>1, <4>1, <4>2, <4>3
    <3>. QED BY <1>3, <3>1
  <2>. HIDE DEF step
  <2>. QED BY <1>3, <2>1
<1>5. Is(Shifted(x))
  <2>1. Is(CHOOSE g : Is(g))
    <3>. HIDE DEF Is
    <3>. QED BY <1>4
  <2>. QED BY <2>1 DEF Shifted
<1>6. ASSUME NEW i \in Nat PROVE Shifted(x)[i + 1] = Shifted(x)[i] \div 256
  <2>1. i + 1 \in Nat /\ i + 1 # 0 /\ (i + 1) - 1 = i
    OBVIOUS
  <2>. QED BY <1>5, <2>1
<1>7. Shifted(x)[0] = x
  BY <1>5
<1>8. \A i \in Nat : Shifted(x)[i] \in Nat
  <2>. DEFINE T == {i \in Nat : Shifted(x)[i] \in Nat}
  <2>1. 0 \in T
    BY <1>7
  <2>2. \A i \in T : i + 1 \in T
    BY <1>6
  <2>3. T \in SUBSET Nat
    OBVIOUS
  <2>. HIDE DEF T
  <2>4. T = Nat
    BY <2>1, <2>2, <2>3, Induction
  <2>. QED BY <2>4 DEF T
<1>9. Shifted(x) = [i \in Nat |-> Shifted(x)[i]]
  BY <1>5
<1>. QED BY <1>6, <1>7, <1>8, <1>9

LEMMA LengthIs ==
  ASSUME NEW x \in Nat
  PROVE  /\ LengthOf(x) \in Nat /\ Shifted(x)[LengthOf(x)] = 0
         /\ \A i \in 0..(LengthOf(x) - 1) : Shifted(x)[i] # 0
<1>. DEFINE S == Shifted(x)
<1>1. S \in [Nat -> Nat] /\ S[0] = x /\ \A i \in Nat : S[i + 1] = S[i] \div 256
  BY ShiftedBy
<1>. HIDE DEF S
<1>2. S[x] = 0
  <2>. DEFINE T == {i \in Nat : S[i] = 0 \/ S[i] + i <= x}
  <2>1. 0 \in T
    BY <1>1
  <2>2. ASSUME NEW i \in T PROVE i + 1 \in T
    <3>1. i \in Nat /\ i + 1 \in Nat /\ S[i] \in Nat /\ S[i + 1] = S[i] \div 256
      BY <1>1
    <3>2. S[i] = 0 => S[i + 1] = 0
      BY <3>1
    <3>3. S[i] # 0 => S[i + 1] < S[i] /\ S[i + 1] \in Nat
      BY <3>1
    <3>4. S[i] = 0 \/ S[i] + i <= x
      OBVIOUS
    <3>. QED BY <3>1, <3>2, <3>3, <3>4
  <2>3. T \in SUBSET Nat
    OBVIOUS
  <2>4. T = Nat
    <3>. HIDE DEF T
    <3>. QED BY <2>1, <2>2, <2>3, Induction
  <2>5. x \in T
    BY <2>4
  <2>. QED BY <1>1, <2>5
<1>. DEFINE Zeros == {i \in Nat : S[i] = 0}
<1>3. PICK n \in Zeros : \A i \in Zeros : n <= i
  <2>1. Zeros \in SUBSET Nat /\ x \in Zeros
    BY <1>2
  <2>. HIDE DEF Zeros
  <2>. QED BY <2>1, LeastNat
<1>4. n \in 0..x /\ S[n] = 0 /\ \A i \in 0..(n - 1) : S[i] # 0
  <2>1. n <= x
    BY <1>2, <1>3
  <2>2. \A i \in 0..(n - 1) : i \in Nat /\ ~(n <= i)
    BY <1>3
  <2>. QED BY <1>3, <2>1, <2>2
<1>. DEFINE Is(k) == S[k] = 0 /\ \A i \in 0..(k - 1) : S[i] # 0
<1>5. LengthOf(x) \in 0..x /\ Is(LengthOf(x))
  <2>1. LengthOf(x) = CHOOSE k \in 0..x : Is(k)
    BY DEF LengthOf, S
  <2>2. Is(n)
    BY <1>4
  <2>. HIDE DEF Is
  <2>. QED BY <1>4, <2>1, <2>2
<1>. QED BY <1>5 DEF S

LEMMA LengthAtMost ==
  ASSUME NEW x \in Nat, NEW n \in Nat, Shifted(x)[n] = 0
  PROVE  LengthOf(x) <= n
<1>1. \A k \in Nat : ~(k <= n) => n \in 0..(k - 1)
  OBVIOUS
<1>. QED BY <1>1, LengthIs

\* No item has as many bytes, and no list.
ItemBound == 16777216
ListBound == 281474976710656

\* No list has more items.
MostItems == 65535

LEMMA LengthOfLength ==
  ASSUME NEW x \in Nat
  PROVE  /\ x < ItemBound => LengthOf(x) <= 3
         /\ x < ListBound => LengthOf(x) <= 6
         /\ x # 0 => LengthOf(x) >= 1
         /\ x > 255 => LengthOf(x) >= 2
         /\ x \in 1..255 => LengthOf(x) = 1
<1>. DEFINE S == Shifted(x)
<1>1. S \in [Nat -> Nat] /\ S[0] = x /\ \A i \in Nat : S[i + 1] = S[i] \div 256
  BY ShiftedBy
<1>2. /\ S[1] = S[0] \div 256 /\ S[2] = S[1] \div 256 /\ S[3] = S[2] \div 256
      /\ S[4] = S[3] \div 256 /\ S[5] = S[4] \div 256 /\ S[6] = S[5] \div 256
      /\ S[1] \in Nat /\ S[2] \in Nat /\ S[3] \in Nat /\ S[4] \in Nat /\ S[5] \in Nat /\ S[6] \in Nat
  <2>. HIDE DEF S
  <2>1. /\ S[0 + 1] = S[0] \div 256 /\ S[1 + 1] = S[1] \div 256 /\ S[2 + 1] = S[2] \div 256
        /\ S[3 + 1] = S[3] \div 256 /\ S[4 + 1] = S[4] \div 256 /\ S[5 + 1] = S[5] \div 256
    BY <1>1
  <2>. QED BY <1>1, <2>1
<1>3. ASSUME x < ItemBound PROVE LengthOf(x) <= 3
  <2>1. S[3] = 0
    <3>. HIDE DEF S
    <3>. QED BY <1>1, <1>2, <1>3, SMT DEF ItemBound
  <2>. QED BY <2>1, LengthAtMost
<1>4. ASSUME x < ListBound PROVE LengthOf(x) <= 6
  <2>1. S[6] = 0
    <3>. HIDE DEF S
    <3>1. S[1] < 1099511627776
      BY <1>1, <1>2, <1>4, SMT DEF ListBound
    <3>2. S[2] < 4294967296
      BY <1>2, <3>1, SMT
    <3>3. S[3] < 16777216
      BY <1>2, <3>2, SMT
    <3>. QED BY <1>2, <3>3, SMT
  <2>. QED BY <2>1, LengthAtMost
<1>5. ASSUME x # 0 PROVE LengthOf(x) >= 1
  <2>1. LengthOf(x) # 0
    BY <1>1, <1>5, LengthIs
  <2>. QED BY <2>1, LengthIs
<1>6. ASSUME x > 255 PROVE LengthOf(x) >= 2
  <2>1. S[1] # 0
    <3>. HIDE DEF S
    <3>. QED BY <1>1, <1>2, <1>6
  <2>2. S[LengthOf(x)] = 0 /\ LengthOf(x) \in Nat
    BY LengthIs
  <2>3. S[0] # 0
    BY <1>1, <1>6
  <2>. HIDE DEF S
  <2>. QED BY <2>1, <2>2, <2>3
<1>7. ASSUME x \in 1..255 PROVE LengthOf(x) <= 1
  <2>1. S[1] = 0
    <3>. HIDE DEF S
    <3>. QED BY <1>1, <1>2, <1>7
  <2>. QED BY <2>1, LengthAtMost
<1>8. LengthOf(x) \in Nat
  BY LengthIs
<1>. QED BY <1>3, <1>4, <1>5, <1>6, <1>7, <1>8

LEMMA Bytes ==
  ASSUME NEW x \in Nat
  PROVE  /\ ToBinary(x) \in Seq(Byte) /\ Len(ToBinary(x)) = LengthOf(x)
         /\ \A i \in 1..LengthOf(x) : ToBinary(x)[i] = Shifted(x)[LengthOf(x) - i] % 256
<1>1. LengthOf(x) \in Nat
  BY LengthIs
<1>2. \A i \in 1..LengthOf(x) : LengthOf(x) - i \in Nat
  BY <1>1
<1>3. \A y \in Nat : y % 256 \in Byte
  BY DEF Byte
<1>4. ASSUME NEW i \in 1..LengthOf(x) PROVE Shifted(x)[LengthOf(x) - i] % 256 \in Byte
  <2>1. Shifted(x)[LengthOf(x) - i] \in Nat
    BY <1>2, ShiftedBy
  <2>. QED BY <1>3, <2>1
<1>. QED BY <1>1, <1>4 DEF ToBinary

-----------------------------------------------------------------------------
(***************************************************************************)
(* Memory: what is behind a pointer.                                       *)
(***************************************************************************)
\* The bytes of s are at ptr.
Holds(m, ptr, s) == \A i \in 1..Len(s) : At(m, ptr + i - 1) = s[i]

LEMMA BytesAt == ASSUME NEW m \in Seq(Byte), NEW ptr PROVE At(m, ptr) \in Byte /\ At(m, ptr) \in Nat
<1>1. ptr \in 1..Len(m) => m[ptr] \in Byte
  <2>. HIDE DEF Byte
  <2>. QED BY ElementOfSeq
<1>2. 0 \in Byte /\ \A b \in Byte : b \in Nat
  BY DEF Byte
<1>. QED BY <1>1, <1>2 DEF At

LEMMA HoldsParts ==
  ASSUME NEW m, NEW ptr \in Nat, NEW s \in Seq(Byte), NEW t \in Seq(Byte)
  PROVE  Holds(m, ptr, s \o t) <=> Holds(m, ptr, s) /\ Holds(m, ptr + Len(s), t)
<1>1. /\ Len(s) \in Nat /\ Len(t) \in Nat /\ Len(s \o t) = Len(s) + Len(t)
      /\ \A i \in 1..Len(s) : (s \o t)[i] = s[i]
      /\ \A i \in 1..Len(t) : (s \o t)[Len(s) + i] = t[i]
  OBVIOUS
<1>2. \A i \in 1..Len(s) : i \in 1..Len(s \o t)
  BY <1>1
<1>3. \A i \in 1..Len(t) : Len(s) + i \in 1..Len(s \o t) /\ ptr + (Len(s) + i) - 1 = (ptr + Len(s)) + i - 1
  BY <1>1
<1>4. \A i \in 1..Len(s \o t) : i \in 1..Len(s) \/ \E j \in 1..Len(t) : i = Len(s) + j
  <2>1. TAKE i \in 1..Len(s \o t)
  <2>2. i > Len(s) => i - Len(s) \in 1..Len(t) /\ i = Len(s) + (i - Len(s))
    BY <1>1
  <2>. QED BY <1>1, <2>2
<1>5. Holds(m, ptr, s \o t) => Holds(m, ptr, s)
  BY <1>1, <1>2 DEF Holds
<1>6. Holds(m, ptr, s \o t) => Holds(m, ptr + Len(s), t)
  <2>1. SUFFICES ASSUME Holds(m, ptr, s \o t), NEW i \in 1..Len(t)
                 PROVE  At(m, (ptr + Len(s)) + i - 1) = t[i]
    BY DEF Holds
  <2>2. At(m, ptr + (Len(s) + i) - 1) = (s \o t)[Len(s) + i]
    BY <1>3, <2>1 DEF Holds
  <2>. QED BY <1>1, <1>3, <2>2
<1>7. Holds(m, ptr, s) /\ Holds(m, ptr + Len(s), t) => Holds(m, ptr, s \o t)
  <2>1. SUFFICES ASSUME Holds(m, ptr, s), Holds(m, ptr + Len(s), t), NEW i \in 1..Len(s \o t)
                 PROVE  At(m, ptr + i - 1) = (s \o t)[i]
    BY DEF Holds
  <2>2. CASE i \in 1..Len(s)
    BY <1>1, <2>1, <2>2 DEF Holds
  <2>3. CASE \E j \in 1..Len(t) : i = Len(s) + j
    <3>1. PICK j \in 1..Len(t) : i = Len(s) + j
      BY <2>3
    <3>2. At(m, (ptr + Len(s)) + j - 1) = t[j]
      BY <2>1 DEF Holds
    <3>. QED BY <1>1, <1>3, <3>1, <3>2
  <2>. QED BY <1>4, <2>2, <2>3
<1>. QED BY <1>5, <1>6, <1>7

LEMMA LoadBy ==
  ASSUME NEW m \in Seq(Byte), NEW ptr \in Nat
  PROVE  /\ Load(m, ptr) \in [Nat -> Nat] /\ Load(m, ptr)[0] = 0
         /\ \A n \in Nat : Load(m, ptr)[n + 1] = 256 * Load(m, ptr)[n] + At(m, ptr + n)
<1>. DEFINE step == [p \in Nat \X Nat |-> 256 * p[2] + At(m, ptr + p[1])]
            Is(f) == f = [n \in Nat |-> IF n = 0 THEN 0 ELSE 256 * f[n - 1] + At(m, ptr + n - 1)]
<1>1. \A n, y \in Nat : 256 * y + At(m, ptr + n) \in Nat
  <2>1. TAKE n, y \in Nat
  <2>3. At(m, ptr + n) \in Nat
    BY BytesAt
  <2>4. \A a \in Nat : 256 * y + a \in Nat
    OBVIOUS
  <2>. QED BY <2>3, <2>4
<1>2. step \in [Nat \X Nat -> Nat] /\ \A n, y \in Nat : step[<<n, y>>] = 256 * y + At(m, ptr + n)
  BY <1>1
<1>3. PICK f : f \in [Nat -> Nat] /\ f[0] = 0 /\ \A n \in Nat : f[n + 1] = step[<<n, f[n]>>]
  <2>. HIDE DEF step
  <2>1. 0 \in Nat
    OBVIOUS
  <2>2. \E f : Iterates(f, Nat, 0, step)
    BY <1>2, <2>1, Recursion, Zenon
  <2>. QED BY <2>2 DEF Iterates
<1>4. Is(f)
  <2>1. ASSUME NEW n \in Nat PROVE f[n] = IF n = 0 THEN 0 ELSE 256 * f[n - 1] + At(m, ptr + n - 1)
    <3>1. CASE n # 0
      <4>1. n - 1 \in Nat /\ (n - 1) + 1 = n /\ ptr + (n - 1) = ptr + n - 1
        BY <3>1
      <4>. HIDE DEF step
      <4>2. f[(n - 1) + 1] = step[<<n - 1, f[n - 1]>>] /\ f[n - 1] \in Nat
        BY <1>3, <4>1
      <4>3. step[<<n - 1, f[n - 1]>>] = 256 * f[n - 1] + At(m, ptr + (n - 1))
        BY <1>2, <4>1, <4>2
      <4>. QED BY <3>1, <4>1, <4>2, <4>3
    <3>. QED BY <1>3, <3>1
  <2>. HIDE DEF step
  <2>. QED BY <1>3, <2>1
<1>5. Is(Load(m, ptr))
  <2>1. Is(CHOOSE g : Is(g))
    <3>. HIDE DEF Is
    <3>. QED BY <1>4
  <2>. QED BY <2>1 DEF Load
<1>6. ASSUME NEW n \in Nat PROVE Load(m, ptr)[n + 1] = 256 * Load(m, ptr)[n] + At(m, ptr + n)
  <2>1. n + 1 \in Nat /\ n + 1 # 0 /\ (n + 1) - 1 = n /\ ptr + (n + 1) - 1 = ptr + n
    OBVIOUS
  <2>. QED BY <1>5, <2>1
<1>7. Load(m, ptr)[0] = 0
  BY <1>5
<1>8. \A n \in Nat : Load(m, ptr)[n] \in Nat
  <2>. DEFINE T == {n \in Nat : Load(m, ptr)[n] \in Nat}
  <2>1. 0 \in T
    BY <1>7
  <2>2. ASSUME NEW n \in T PROVE n + 1 \in T
    <3>1. n \in Nat /\ Load(m, ptr)[n] \in Nat /\ n + 1 \in Nat
      OBVIOUS
    <3>2. 256 * Load(m, ptr)[n] + At(m, ptr + n) \in Nat
      BY <1>1, <3>1
    <3>3. Load(m, ptr)[n + 1] = 256 * Load(m, ptr)[n] + At(m, ptr + n)
      BY <1>6, <3>1
    <3>4. Load(m, ptr)[n + 1] \in Nat
      BY <3>2, <3>3, Zenon
    <3>. QED BY <3>1, <3>4
  <2>3. T \in SUBSET Nat
    OBVIOUS
  <2>. HIDE DEF T
  <2>4. T = Nat
    BY <2>1, <2>2, <2>3, Induction
  <2>. QED BY <2>4 DEF T
<1>9. Load(m, ptr) = [n \in Nat |-> Load(m, ptr)[n]]
  BY <1>5
<1>. QED BY <1>6, <1>7, <1>8, <1>9

\* The bytes that were made of x are read as x.
LEMMA LoadsNumber ==
  ASSUME NEW m \in Seq(Byte), NEW ptr \in Nat, NEW x \in Nat, Holds(m, ptr, ToBinary(x))
  PROVE  Load(m, ptr)[LengthOf(x)] = x
<1>. DEFINE n == LengthOf(x)
            S == Shifted(x)
            L == Load(m, ptr)
<1>1. n \in Nat /\ S[n] = 0
  BY LengthIs
<1>2. S \in [Nat -> Nat] /\ S[0] = x /\ \A i \in Nat : S[i + 1] = S[i] \div 256
  BY ShiftedBy
<1>3. L \in [Nat -> Nat] /\ L[0] = 0 /\ \A i \in Nat : L[i + 1] = 256 * L[i] + At(m, ptr + i)
  BY LoadBy
<1>4. \A i \in 1..n : At(m, ptr + i - 1) = S[n - i] % 256
  BY Bytes DEF Holds
<1>. HIDE DEF n, S, L
<1>. DEFINE T == {i \in Nat : i <= n => L[i] = S[n - i]}
<1>5. 0 \in T
  <2>. n - 0 = n
    BY <1>1
  <2>. QED BY <1>1, <1>3
<1>6. ASSUME NEW i \in T, i + 1 <= n PROVE L[i + 1] = S[n - (i + 1)]
  <2>1. i \in Nat /\ i <= n /\ i + 1 \in 1..n /\ n - (i + 1) \in Nat /\ (n - (i + 1)) + 1 = n - i
        /\ ptr + (i + 1) - 1 = ptr + i
    BY <1>1, <1>6
  <2>2. L[i] = S[n - i]
    BY <2>1
  <2>3. S[n - i] = S[n - (i + 1)] \div 256
    BY <1>2, <2>1
  <2>4. At(m, ptr + i) = S[n - (i + 1)] % 256
    BY <1>4, <2>1
  <2>5. L[i + 1] = 256 * (S[n - (i + 1)] \div 256) + (S[n - (i + 1)] % 256)
    BY <1>3, <2>1, <2>2, <2>3, <2>4
  <2>6. \A y \in Nat : y = 256 * (y \div 256) + (y % 256)
    OBVIOUS
  <2>7. S[n - (i + 1)] \in Nat
    BY <1>2, <2>1
  <2>. QED BY <2>5, <2>6, <2>7
<1>7. T = Nat
  <2>1. \A i \in T : i + 1 \in T
    BY <1>6
  <2>2. T \in SUBSET Nat
    OBVIOUS
  <2>. HIDE DEF T
  <2>. QED BY <1>5, <2>1, <2>2, Induction
<1>8. L[n] = S[n - n] /\ n - n = 0
  BY <1>1, <1>7
<1>. QED BY <1>2, <1>8 DEF n, S, L

-----------------------------------------------------------------------------
(***************************************************************************)
(* What the writer makes of an item is what the reader takes for it.       *)
(***************************************************************************)
LEMMA ShortForm ==
  ASSUME NEW len \in Nat, len < 56, NEW offset \in {128, 192}
  PROVE  /\ EncodeLength(len, offset) = <<len + offset>>
         /\ EncodeLength(len, offset) \in Seq(Byte) /\ Len(EncodeLength(len, offset)) = 1
<1>1. len + offset \in Byte
  BY DEF Byte
<1>2. \A b \in Byte : <<b>> \in Seq(Byte) /\ Len(<<b>>) = 1
  OBVIOUS
<1>. QED BY <1>1, <1>2 DEF EncodeLength

LEMMA LongForm ==
  ASSUME NEW len \in Nat, ~(len < 56), len < ListBound, NEW offset \in {128, 192}
  PROVE  /\ LengthOf(len) \in 1..6 /\ (len < ItemBound => LengthOf(len) <= 3)
         /\ LengthOf(len) + offset + 55 \in Byte
         /\ EncodeLength(len, offset) = <<LengthOf(len) + offset + 55>> \o ToBinary(len)
         /\ EncodeLength(len, offset) \in Seq(Byte) /\ Len(EncodeLength(len, offset)) = 1 + LengthOf(len)
<1>. DEFINE L == LengthOf(len)
<1>1. L \in 1..6 /\ (len < ItemBound => L <= 3)
  <2>1. len # 0
    OBVIOUS
  <2>. QED BY <2>1, LengthIs, LengthOfLength
<1>2. L + offset + 55 \in Byte
  <2>. HIDE DEF L
  <2>. QED BY <1>1 DEF Byte
<1>3. EncodeLength(len, offset) = <<L + offset + 55>> \o ToBinary(len)
  BY DEF EncodeLength
<1>4. ToBinary(len) \in Seq(Byte) /\ Len(ToBinary(len)) = L
  BY Bytes
<1>5. \A b \in Byte, s \in Seq(Byte) : <<b>> \o s \in Seq(Byte) /\ Len(<<b>> \o s) = 1 + Len(s)
  OBVIOUS
<1>6. EncodeLength(len, offset) \in Seq(Byte) /\ Len(EncodeLength(len, offset)) = 1 + L
  <2>. HIDE DEF L
  <2>. QED BY <1>2, <1>3, <1>4, <1>5
<1>. QED BY <1>1, <1>2, <1>3, <1>6

LEMMA LengthBytes ==
  ASSUME NEW len \in Nat, len < ListBound, NEW offset \in {128, 192}
  PROVE  /\ EncodeLength(len, offset) \in Seq(Byte)
         /\ Len(EncodeLength(len, offset)) \in 1..7
         /\ len < ItemBound => Len(EncodeLength(len, offset)) <= 4
<1>1. CASE len < 56
  <2>1. EncodeLength(len, offset) \in Seq(Byte) /\ Len(EncodeLength(len, offset)) = 1
    BY <1>1, ShortForm
  <2>2. 1 \in 1..7 /\ 1 <= 4
    OBVIOUS
  <2>. QED BY <2>1, <2>2, Zenon
<1>2. CASE ~(len < 56)
  <2>. DEFINE L == LengthOf(len)
              N == Len(EncodeLength(len, offset))
  <2>1. L \in 1..6 /\ (len < ItemBound => L <= 3) /\ N = 1 + L /\ EncodeLength(len, offset) \in Seq(Byte)
    BY <1>2, LongForm
  <2>. HIDE DEF L, N
  <2>2. N \in 1..7 /\ (len < ItemBound => N <= 4)
    BY <2>1
  <2>. QED BY <2>1, <2>2 DEF N
<1>. QED BY <1>1, <1>2

\* The ranges of the first byte, one by one.
LEMMA FirstByte ==
  ASSUME NEW m, NEW ptr
  PROVE  /\ At(m, ptr) \in 0..127 => PayloadOffset(m, ptr) = 0 /\ ItemLength(m, ptr) = 1
         /\ At(m, ptr) \in 128..183 =>
              PayloadOffset(m, ptr) = 1 /\ ItemLength(m, ptr) = At(m, ptr) - 128 + 1
         /\ At(m, ptr) \in 184..191 =>
              /\ PayloadOffset(m, ptr) = At(m, ptr) - 183 + 1
              /\ ItemLength(m, ptr) = Load(m, ptr + 1)[At(m, ptr) - 183] + (At(m, ptr) - 183) + 1
         /\ At(m, ptr) \in 192..247 =>
              PayloadOffset(m, ptr) = 1 /\ ItemLength(m, ptr) = At(m, ptr) - 192 + 1
         /\ At(m, ptr) \in 248..255 =>
              /\ PayloadOffset(m, ptr) = At(m, ptr) - 247 + 1
              /\ ItemLength(m, ptr) = Load(m, ptr + 1)[At(m, ptr) - 247] + (At(m, ptr) - 247) + 1
<1>1. ASSUME At(m, ptr) \in 0..127 PROVE PayloadOffset(m, ptr) = 0 /\ ItemLength(m, ptr) = 1
  BY <1>1, SMT DEF PayloadOffset, ItemLength
<1>2. ASSUME At(m, ptr) \in 128..183
      PROVE  PayloadOffset(m, ptr) = 1 /\ ItemLength(m, ptr) = At(m, ptr) - 128 + 1
  BY <1>2, SMT DEF PayloadOffset, ItemLength
<1>3. ASSUME At(m, ptr) \in 184..191
      PROVE  /\ PayloadOffset(m, ptr) = At(m, ptr) - 183 + 1
             /\ ItemLength(m, ptr) = Load(m, ptr + 1)[At(m, ptr) - 183] + (At(m, ptr) - 183) + 1
  BY <1>3, SMT DEF PayloadOffset, ItemLength
<1>4. ASSUME At(m, ptr) \in 192..247
      PROVE  PayloadOffset(m, ptr) = 1 /\ ItemLength(m, ptr) = At(m, ptr) - 192 + 1
  BY <1>4, SMT DEF PayloadOffset, ItemLength
<1>5. ASSUME At(m, ptr) \in 248..255
      PROVE  /\ PayloadOffset(m, ptr) = At(m, ptr) - 247 + 1
             /\ ItemLength(m, ptr) = Load(m, ptr + 1)[At(m, ptr) - 247] + (At(m, ptr) - 247) + 1
  BY <1>5, SMT DEF PayloadOffset, ItemLength
<1>. QED BY <1>1, <1>2, <1>3, <1>4, <1>5

LEMMA LengthRead ==
  ASSUME NEW len \in Nat, len < ListBound, NEW offset \in {128, 192},
         NEW m \in Seq(Byte), NEW ptr \in Nat, Holds(m, ptr, EncodeLength(len, offset))
  PROVE  /\ PayloadOffset(m, ptr) = Len(EncodeLength(len, offset))
         /\ ItemLength(m, ptr) = Len(EncodeLength(len, offset)) + len
         /\ At(m, ptr) >= offset
<1>. DEFINE byte0 == At(m, ptr)
            N == Len(EncodeLength(len, offset))
<1>1. CASE len < 56
  <2>1. EncodeLength(len, offset) = <<len + offset>> /\ N = 1
    BY <1>1, ShortForm
  <2>2. byte0 = len + offset
    <3>1. ptr + 1 - 1 = ptr /\ 1 \in 1..1 /\ <<len + offset>>[1] = len + offset
      OBVIOUS
    <3>. QED BY <2>1, <3>1 DEF Holds
  <2>3. PayloadOffset(m, ptr) = 1 /\ ItemLength(m, ptr) = 1 + len
    <3>. HIDE DEF byte0
    <3>1. CASE offset = 128
      <4>1. byte0 \in 128..183 /\ byte0 - 128 + 1 = 1 + len
        BY <1>1, <2>2, <3>1
      <4>. QED BY <4>1, FirstByte DEF byte0
    <3>2. CASE offset = 192
      <4>1. byte0 \in 192..247 /\ byte0 - 192 + 1 = 1 + len
        BY <1>1, <2>2, <3>2
      <4>. QED BY <4>1, FirstByte DEF byte0
    <3>. QED BY <3>1, <3>2
  <2>4. byte0 >= offset
    <3>. HIDE DEF byte0
    <3>. QED BY <2>2
  <2>. QED BY <2>1, <2>3, <2>4
<1>2. CASE ~(len < 56)
  <2>. DEFINE L == LengthOf(len)
  <2>1. /\ L \in 1..6 /\ L + offset + 55 \in Byte /\ N = 1 + L
        /\ EncodeLength(len, offset) = <<L + offset + 55>> \o ToBinary(len)
    <3>1. L \in 1..6 /\ L + offset + 55 \in Byte
      BY <1>2, LongForm
    <3>2. N = 1 + L
      BY <1>2, LongForm
    <3>3. EncodeLength(len, offset) = <<L + offset + 55>> \o ToBinary(len)
      BY <1>2 DEF EncodeLength
    <3>. QED BY <3>1, <3>2, <3>3
  <2>2. ToBinary(len) \in Seq(Byte)
    BY Bytes
  <2>3. \A b \in Byte : <<b>> \in Seq(Byte) /\ Len(<<b>>) = 1 /\ <<b>>[1] = b
    OBVIOUS
  <2>. HIDE DEF L, byte0, N
  <2>4. Holds(m, ptr, <<L + offset + 55>>) /\ Holds(m, ptr + 1, ToBinary(len))
    <3>1. <<L + offset + 55>> \in Seq(Byte) /\ Len(<<L + offset + 55>>) = 1
      BY <2>1, <2>3
    <3>2. Holds(m, ptr, <<L + offset + 55>> \o ToBinary(len))
      BY <2>1
    <3>3. \A s, t \in Seq(Byte) : Holds(m, ptr, s \o t) => Holds(m, ptr, s) /\ Holds(m, ptr + Len(s), t)
      BY HoldsParts
    <3>4. Holds(m, ptr + Len(<<L + offset + 55>>), ToBinary(len)) /\ Holds(m, ptr, <<L + offset + 55>>)
      BY <2>2, <3>1, <3>2, <3>3, Zenon
    <3>. QED BY <3>1, <3>4, Zenon
  <2>5. byte0 = L + offset + 55
    <3>1. 1 \in 1..Len(<<L + offset + 55>>) /\ <<L + offset + 55>>[1] = L + offset + 55
      BY <2>1, <2>3
    <3>2. At(m, ptr + 1 - 1) = <<L + offset + 55>>[1]
      BY <2>4, <3>1 DEF Holds
    <3>3. ptr + 1 - 1 = ptr
      OBVIOUS
    <3>. QED BY <3>1, <3>2, <3>3 DEF byte0
  <2>6. Load(m, ptr + 1)[L] = len
    <3>1. ptr + 1 \in Nat
      OBVIOUS
    <3>. QED BY <2>4, <3>1, LoadsNumber DEF L
  <2>7. PayloadOffset(m, ptr) = L + 1 /\ ItemLength(m, ptr) = Load(m, ptr + 1)[L] + L + 1
    <3>1. CASE offset = 128
      <4>1. byte0 \in 184..191 /\ byte0 - 183 = L
        BY <2>1, <2>5, <3>1
      <4>. QED BY <4>1, FirstByte DEF byte0
    <3>2. CASE offset = 192
      <4>1. byte0 \in 248..255 /\ byte0 - 247 = L
        BY <2>1, <2>5, <3>2
      <4>. QED BY <4>1, FirstByte DEF byte0
    <3>. QED BY <3>1, <3>2
  <2>8. byte0 >= offset
    BY <2>1, <2>5
  <2>9. PayloadOffset(m, ptr) = N /\ ItemLength(m, ptr) = N + len
    BY <2>1, <2>6, <2>7
  <2>. QED BY <2>8, <2>9 DEF N, byte0
<1>. QED BY <1>1, <1>2

\* Whatever surrounds the code in the memory, it is read as the item.
IsCode(code, item) ==
  \A m \in Seq(Byte), ptr \in Nat :
    Holds(m, ptr, code) =>
      ItemLength(m, ptr) = Len(code) /\ ToBytes(m, ptr, Len(code)) = item

\* The item that does not come back.
Byte128 == <<128>>

LEMMA BytesAreCoded ==
  ASSUME NEW item \in Seq(Byte), Len(item) < ItemBound, item # Byte128
  PROVE  /\ EncodeBytes(item) \in Seq(Byte)
         /\ Len(EncodeBytes(item)) \in Nat \ {0} /\ Len(EncodeBytes(item)) < ItemBound + 4
         /\ IsCode(EncodeBytes(item), item)
<1>0. Len(item) \in Nat /\ Len(item) < ListBound /\ ItemBound \in Nat /\ ItemBound > 1
  BY SMT DEF ItemBound, ListBound
<1>1. CASE Len(item) = 1 /\ item[1] <= 128
  <2>1. item = <<item[1]>> /\ item[1] \in Byte
    BY <1>1
  <2>2. item[1] \in 0..127
    <3>1. item[1] # 128
      BY <2>1 DEF Byte128
    <3>2. \A b \in Byte : b <= 128 /\ b # 128 => b \in 0..127
      BY DEF Byte
    <3>. QED BY <1>1, <2>1, <3>1, <3>2
  <2>3. EncodeBytes(item) = item
    BY <1>1 DEF EncodeBytes
  <2>4. ASSUME NEW m \in Seq(Byte), NEW ptr \in Nat, Holds(m, ptr, item)
        PROVE  ItemLength(m, ptr) = 1 /\ ToBytes(m, ptr, 1) = item
    <3>1. ptr + 1 - 1 = ptr /\ 1 \in 1..Len(item)
      BY <1>1
    <3>2. At(m, ptr) = item[1]
      BY <2>4, <3>1 DEF Holds
    <3>3. PayloadOffset(m, ptr) = 0 /\ ItemLength(m, ptr) = 1
      BY <2>2, <3>2, FirstByte
    <3>4. ToBytes(m, ptr, 1) = [i \in 1..(1 - 0) |-> At(m, ptr + 0 + i - 1)]
      BY <3>3 DEF ToBytes
    <3>5. 1 - 0 = 1 /\ ptr + 0 + 1 - 1 = ptr /\ \A i \in 1..1 : i = 1
      OBVIOUS
    <3>6. ToBytes(m, ptr, 1) = [i \in 1..1 |-> item[i]]
      BY <3>2, <3>4, <3>5
    <3>7. item = [i \in 1..1 |-> item[i]]
      BY <1>1
    <3>. QED BY <3>3, <3>6, <3>7
  <2>5. 1 \in Nat \ {0} /\ 1 < ItemBound + 4
    BY <1>0
  <2>. QED BY <1>1, <2>3, <2>4, <2>5 DEF IsCode
<1>2. CASE ~(Len(item) = 1 /\ item[1] <= 128)
  <2>. DEFINE head == EncodeLength(Len(item), 128)
  <2>1. EncodeBytes(item) = head \o item
    BY <1>2 DEF EncodeBytes
  <2>2. head \in Seq(Byte) /\ Len(head) \in 1..4
    <3>1. head \in Seq(Byte) /\ Len(head) \in 1..7 /\ Len(head) <= 4
      BY <1>0, LengthBytes
    <3>2. \A y \in 1..7 : y <= 4 => y \in 1..4
      OBVIOUS
    <3>. HIDE DEF head
    <3>. QED BY <3>1, <3>2, Zenon
  <2>. HIDE DEF head
  <2>3. head \o item \in Seq(Byte) /\ Len(head \o item) = Len(head) + Len(item)
    BY <2>2
  <2>4. ASSUME NEW m \in Seq(Byte), NEW ptr \in Nat, Holds(m, ptr, head \o item)
        PROVE  ItemLength(m, ptr) = Len(head \o item) /\ ToBytes(m, ptr, Len(head \o item)) = item
    <3>1. Holds(m, ptr, head) /\ Holds(m, ptr + Len(head), item)
      BY <2>2, <2>4, HoldsParts
    <3>2. PayloadOffset(m, ptr) = Len(head) /\ ItemLength(m, ptr) = Len(head) + Len(item)
      BY <1>0, <3>1, LengthRead DEF head
    <3>3. (Len(head) + Len(item)) - Len(head) = Len(item)
      BY <1>0, <2>2
    <3>4. ToBytes(m, ptr, Len(head \o item)) = [i \in 1..Len(item) |-> At(m, ptr + Len(head) + i - 1)]
      BY <2>3, <3>2, <3>3 DEF ToBytes
    <3>5. ToBytes(m, ptr, Len(head \o item)) = [i \in 1..Len(item) |-> item[i]]
      BY <3>1, <3>4 DEF Holds
    <3>6. item = [i \in 1..Len(item) |-> item[i]]
      OBVIOUS
    <3>. QED BY <2>3, <3>2, <3>5, <3>6
  <2>5. IsCode(head \o item, item)
    BY <2>4 DEF IsCode
  <2>6. Len(head \o item) \in Nat \ {0} /\ Len(head \o item) < ItemBound + 4
    <3>1. \A a \in 1..4, b, c \in Nat : b < c => a + b \in Nat \ {0} /\ a + b < c + 4
      OBVIOUS
    <3>. QED BY <1>0, <2>2, <2>3, <3>1
  <2>. QED BY <2>1, <2>3, <2>5, <2>6
<1>. QED BY <1>1, <1>2

\* An update takes x out of the code.
IsLeafOf(code, x) ==
  \A m \in Seq(Byte), ptr \in Nat :
    Holds(m, ptr, code) => UpdateStorageValue(m, ptr, Len(code)) = x

\* The value part of the leaf of x, in the trie and therefore for its reader.
LeafItem(x) == IF x < 128 THEN ToBinary(x) ELSE <<128 + Len(ToBinary(x))>> \o ToBinary(x)

LEMMA LeavesAreCoded ==
  ASSUME NEW x \in Nat, x # 0, x # 128, LengthOf(x) <= 32
  PROVE  /\ LeafItem(x) \in Seq(Byte) /\ Len(LeafItem(x)) < ItemBound /\ LeafItem(x) # Byte128
         /\ LeafValue(x) = EncodeBytes(LeafItem(x))
         /\ IsLeafOf(LeafValue(x), x)
<1>. DEFINE n == LengthOf(x)
            binary == ToBinary(x)
<1>1. n \in 1..32
  BY LengthIs, LengthOfLength
<1>2. binary \in Seq(Byte) /\ Len(binary) = n
  BY Bytes
<1>3. \A y \in 0..33 : y < ItemBound /\ y < ListBound
  BY SMT DEF ItemBound, ListBound
<1>4. \A b \in Byte : <<b>> \in Seq(Byte) /\ Len(<<b>>) = 1 /\ <<b>>[1] = b
  OBVIOUS
<1>5. n = 1 => x \in 1..255 /\ binary = <<x>>
  <2>1. SUFFICES ASSUME n = 1 PROVE x \in 1..255 /\ binary = <<x>>
    OBVIOUS
  <2>2. x \in 1..255
    <3>1. ~(x > 255)
      BY <2>1, LengthOfLength
    <3>. QED BY <3>1
  <2>3. binary[1] = Shifted(x)[1 - 1] % 256
    <3>1. 1 \in 1..LengthOf(x)
      BY <2>1
    <3>2. ToBinary(x)[1] = Shifted(x)[LengthOf(x) - 1] % 256
      BY <3>1, Bytes
    <3>. QED BY <2>1, <3>2
  <2>4. Shifted(x)[1 - 1] = x
    BY ShiftedBy
  <2>5. binary[1] = x
    <3>. HIDE DEF binary
    <3>. QED BY <2>2, <2>3, <2>4
  <2>. HIDE DEF binary, n
  <2>. QED BY <1>2, <2>1, <2>2, <2>5
<1>6. CASE x < 128
  <2>1. LeafItem(x) = binary /\ LeafValue(x) = EncodeBytes(binary)
    BY <1>6 DEF LeafItem, LeafValue, EncodeUint
  <2>2. n = 1
    BY <1>6, LengthOfLength
  <2>. HIDE DEF n, binary
  <2>3. binary = <<x>> /\ x \in Byte /\ x \in 0..127
    BY <1>5, <1>6, <2>2 DEF Byte
  <2>4. binary # Byte128
    BY <2>3 DEF Byte128
  <2>5. EncodeBytes(binary) = binary
    BY <1>4, <2>3 DEF EncodeBytes
  <2>6. IsLeafOf(binary, x)
    <3>1. SUFFICES ASSUME NEW m \in Seq(Byte), NEW ptr \in Nat, Holds(m, ptr, binary)
                   PROVE  UpdateStorageValue(m, ptr, Len(binary)) = x
      BY DEF IsLeafOf
    <3>2. ptr + 1 - 1 = ptr /\ 1 \in 1..Len(binary)
      BY <1>2, <2>2
    <3>3. At(m, ptr) = x
      BY <1>4, <2>3, <3>1, <3>2 DEF Holds
    <3>. QED BY <2>3, <3>3 DEF UpdateStorageValue
  <2>7. Len(binary) < ItemBound
    BY <1>2, <1>3, <2>2
  <2>. QED BY <1>2, <2>1, <2>4, <2>5, <2>6, <2>7, Zenon
<1>7. CASE ~(x < 128)
  <2>. DEFINE item == <<128 + n>> \o binary
  <2>1. LeafItem(x) = item
    BY <1>2, <1>7 DEF LeafItem
  <2>2. x > 127 /\ x > 128
    BY <1>7
  <2>. HIDE DEF n, binary
  <2>3. 128 + n \in Byte
    BY <1>1 DEF Byte
  <2>4. item \in Seq(Byte) /\ Len(item) = n + 1
    <3>1. \A b \in Byte, s \in Seq(Byte) : <<b>> \o s \in Seq(Byte) /\ Len(<<b>> \o s) = Len(s) + 1
      OBVIOUS
    <3>. QED BY <1>2, <2>3, <3>1
  <2>5. EncodeUint(x) = item
    <3>1. ~(Len(binary) = 1 /\ binary[1] <= 128)
      BY <1>2, <1>5, <2>2
    <3>2. EncodeBytes(binary) = EncodeLength(Len(binary), 128) \o binary
      BY <3>1 DEF EncodeBytes
    <3>3. EncodeLength(Len(binary), 128) = <<n + 128>>
      BY <1>1, <1>2 DEF EncodeLength
    <3>4. n + 128 = 128 + n
      BY <1>1
    <3>5. EncodeUint(x) = EncodeBytes(binary)
      BY DEF EncodeUint, binary
    <3>. QED BY <3>2, <3>3, <3>4, <3>5
  <2>6. LeafValue(x) = EncodeBytes(item)
    BY <2>2, <2>5 DEF LeafValue
  <2>. HIDE DEF item
  <2>7. EncodeBytes(item) = <<n + 129>> \o item
    <3>1. ~(Len(item) = 1 /\ item[1] <= 128)
      BY <1>1, <2>4
    <3>2. EncodeLength(n + 1, 128) = <<n + 1 + 128>>
      BY <1>1 DEF EncodeLength
    <3>3. n + 1 + 128 = n + 129
      BY <1>1
    <3>4. EncodeBytes(item) = EncodeLength(n + 1, 128) \o item
      BY <2>4, <3>1 DEF EncodeBytes
    <3>. QED BY <3>2, <3>3, <3>4
  <2>8. n + 129 \in Byte
    BY <1>1 DEF Byte
  <2>9. Len(<<n + 129>> \o item) = n + 2
    <3>1. \A b \in Byte, s \in Seq(Byte) : Len(<<b>> \o s) = Len(s) + 1
      OBVIOUS
    <3>. QED BY <1>1, <2>4, <2>8, <3>1
  <2>10. ASSUME NEW m \in Seq(Byte), NEW ptr \in Nat, Holds(m, ptr, <<n + 129>> \o item)
         PROVE  UpdateStorageValue(m, ptr, n + 2) = x
    <3>1. \A b \in Byte, s \in Seq(Byte), p \in Nat :
            Holds(m, p, <<b>> \o s) => At(m, p) = b /\ Holds(m, p + 1, s)
      <4>1. TAKE b \in Byte, s \in Seq(Byte), p \in Nat
      <4>2. Holds(m, p, <<b>> \o s) => Holds(m, p, <<b>>) /\ Holds(m, p + Len(<<b>>), s)
        BY <1>4, HoldsParts
      <4>3. p + 1 - 1 = p /\ 1 \in 1..Len(<<b>>) /\ <<b>>[1] = b /\ Len(<<b>>) = 1
        BY <1>4
      <4>4. Holds(m, p, <<b>>) => At(m, p) = b
        BY <4>3 DEF Holds
      <4>. QED BY <4>2, <4>3, <4>4
    <3>2. At(m, ptr) = n + 129 /\ Holds(m, ptr + 1, item)
      BY <2>4, <2>8, <2>10, <3>1
    <3>3. At(m, ptr + 1) = 128 + n /\ Holds(m, (ptr + 1) + 1, binary)
      <4>1. ptr + 1 \in Nat
        OBVIOUS
      <4>. QED BY <1>2, <2>3, <3>1, <3>2, <4>1 DEF item
    <3>4. Load(m, (ptr + 1) + 1)[n] = x
      <4>1. (ptr + 1) + 1 \in Nat
        OBVIOUS
      <4>. QED BY <3>3, <4>1, LoadsNumber DEF n, binary
    <3>5. PayloadOffset(m, ptr + 1) = 1
      <4>1. 128 + n \in 128..183
        BY <1>1
      <4>. QED BY <3>3, <4>1, FirstByte
    <3>6. ToUint(m, ptr + 1, (n + 2) - 1) = Load(m, (ptr + 1) + 1)[((n + 2) - 1) - 1]
      BY <3>5 DEF ToUint
    <3>7. ((n + 2) - 1) - 1 = n /\ n + 129 > 127
      BY <1>1
    <3>. QED BY <3>2, <3>4, <3>6, <3>7 DEF UpdateStorageValue
  <2>11. IsLeafOf(LeafValue(x), x)
    BY <2>6, <2>7, <2>9, <2>10 DEF IsLeafOf
  <2>12. item # Byte128 /\ Len(item) < ItemBound
    <3>1. Len(item) # 1 /\ Len(item) \in 0..33
      BY <1>1, <2>4
    <3>2. Len(Byte128) = 1
      BY DEF Byte128
    <3>. QED BY <1>3, <3>1, <3>2
  <2>. QED BY <2>1, <2>4, <2>6, <2>11, <2>12
<1>. QED BY <1>6, <1>7

-----------------------------------------------------------------------------
(***************************************************************************)
(* Lists of codes.                                                         *)
(***************************************************************************)
IsFlat(F, list) ==
  /\ F \in [Nat -> Seq(Byte)] /\ F[0] = <<>>
  /\ \A i \in 1..Len(list) : F[i] = F[i - 1] \o list[i]

LEMMA FlatExists == ASSUME NEW list \in Seq(Seq(Byte)) PROVE \E F : IsFlat(F, list)
<1>. DEFINE step == [p \in Nat \X Seq(Byte) |->
                       IF p[1] + 1 \in 1..Len(list) THEN p[2] \o list[p[1] + 1] ELSE p[2]]
<1>1. \A s, t \in Seq(Byte) : s \o t \in Seq(Byte)
  OBVIOUS
<1>2. \A i \in 1..Len(list) : list[i] \in Seq(Byte)
  BY ElementOfSeq
<1>3. ASSUME NEW i \in Nat, NEW s \in Seq(Byte)
      PROVE  (IF i + 1 \in 1..Len(list) THEN s \o list[i + 1] ELSE s) \in Seq(Byte)
  BY <1>1, <1>2
<1>4. step \in [Nat \X Seq(Byte) -> Seq(Byte)]
  BY <1>3
<1>5. \A i \in Nat, s \in Seq(Byte) : i + 1 \in 1..Len(list) => step[<<i, s>>] = s \o list[i + 1]
  OBVIOUS
<1>. HIDE DEF step
<1>6. PICK F : Iterates(F, Seq(Byte), <<>>, step)
  <2>1. <<>> \in Seq(Byte)
    OBVIOUS
  <2>. QED BY <1>4, <2>1, Recursion, Zenon
<1>7. F \in [Nat -> Seq(Byte)] /\ F[0] = <<>> /\ \A i \in Nat : F[i + 1] = step[<<i, F[i]>>]
  BY <1>6 DEF Iterates
<1>8. ASSUME NEW i \in 1..Len(list) PROVE F[i] = F[i - 1] \o list[i]
  <2>1. i - 1 \in Nat /\ (i - 1) + 1 = i
    OBVIOUS
  <2>2. F[(i - 1) + 1] = step[<<i - 1, F[i - 1]>>] /\ F[i - 1] \in Seq(Byte)
    BY <1>7, <2>1
  <2>3. step[<<i - 1, F[i - 1]>>] = F[i - 1] \o list[(i - 1) + 1]
    BY <1>5, <2>1, <2>2
  <2>. QED BY <2>1, <2>2, <2>3
<1>9. IsFlat(F, list)
  BY <1>7, <1>8 DEF IsFlat
<1>. QED BY <1>9

LEMMA FlatIs ==
  ASSUME NEW list \in Seq(Seq(Byte)), NEW F, IsFlat(F, list)
  PROVE  FlattenSeq(list) = F[Len(list)]
<1>. DEFINE n == Len(list)
            Is(f) == f = [i \in 1..n |-> IF i = 1 THEN list[i] ELSE f[i - 1] \o list[i]]
<1>1. /\ F \in [Nat -> Seq(Byte)] /\ F[0] = <<>> /\ \A i \in 1..n : F[i] = F[i - 1] \o list[i]
      /\ n \in Nat
  <2>1. F \in [Nat -> Seq(Byte)] /\ F[0] = <<>> /\ \A i \in 1..n : F[i] = F[i - 1] \o list[i]
    BY DEF IsFlat
  <2>2. n \in Nat
    OBVIOUS
  <2>. QED BY <2>1, <2>2, Zenon
<1>2. \A i \in 1..n : list[i] \in Seq(Byte)
  BY ElementOfSeq
<1>3. \A s \in Seq(Byte) : <<>> \o s = s
  OBVIOUS
<1>4. CASE n = 0
  <2>1. list = <<>>
    BY <1>4
  <2>. QED BY <1>1, <1>4, <2>1 DEF FlattenSeq
<1>5. CASE n # 0
  <2>1. FlattenSeq(list) = (CHOOSE f : Is(f))[n]
    BY <1>5 DEF FlattenSeq
  <2>2. 1 \in 1..n /\ n \in 1..n
    BY <1>1, <1>5
  <2>3. F[1] = list[1]
    <3>1. F[1] = F[1 - 1] \o list[1]
      BY <1>1, <2>2, Zenon
    <3>2. F[1 - 1] = <<>>
      <4>1. 1 - 1 = 0
        OBVIOUS
      <4>. QED BY <1>1, <4>1, Zenon
    <3>. QED BY <1>2, <1>3, <2>2, <3>1, <3>2
  <2>4. Is([i \in 1..n |-> F[i]])
    <3>1. ASSUME NEW i \in 1..n, i # 1 PROVE i - 1 \in 1..n
      BY <1>1, <3>1
    <3>2. ASSUME NEW i \in 1..n
          PROVE  F[i] = IF i = 1 THEN list[i] ELSE [j \in 1..n |-> F[j]][i - 1] \o list[i]
      BY <1>1, <2>3, <3>1
    <3>. QED BY <3>2
  <2>5. PICK f : Is(f) /\ f = CHOOSE g : Is(g)
    <3>. HIDE DEF Is
    <3>. QED BY <2>4
  <2>6. f[1] = list[1] /\ \A i \in 1..n : i # 1 => f[i] = f[i - 1] \o list[i]
    BY <2>2, <2>5
  <2>. DEFINE T == {i \in Nat : i + 1 <= n => f[i + 1] = F[i + 1]}
  <2>7. 0 \in T
    BY <2>3, <2>6
  <2>8. ASSUME NEW i \in T PROVE i + 1 \in T
    <3>1. i \in Nat /\ (i + 1) + 1 # 1 /\ ((i + 1) + 1) - 1 = i + 1 /\ i + 1 \in Nat
      OBVIOUS
    <3>2. ASSUME (i + 1) + 1 <= n PROVE f[(i + 1) + 1] = F[(i + 1) + 1]
      <4>1. (i + 1) + 1 \in 1..n /\ i + 1 <= n
        BY <1>1, <3>1, <3>2
      <4>2. f[(i + 1) + 1] = f[i + 1] \o list[(i + 1) + 1]
        BY <2>6, <3>1, <4>1
      <4>3. F[(i + 1) + 1] = F[i + 1] \o list[(i + 1) + 1]
        BY <1>1, <3>1, <4>1
      <4>. QED BY <4>1, <4>2, <4>3
    <3>. QED BY <3>1, <3>2
  <2>9. T = Nat
    <3>1. T \in SUBSET Nat
      OBVIOUS
    <3>. HIDE DEF T
    <3>. QED BY <2>7, <2>8, <3>1, Induction
  <2>10. f[n] = F[n]
    <3>1. n - 1 \in Nat /\ (n - 1) + 1 = n /\ n <= n
      BY <1>1, <1>5
    <3>2. n - 1 \in T
      BY <2>9, <3>1, Zenon
    <3>. QED BY <3>1, <3>2
  <2>. HIDE DEF Is
  <2>. QED BY <2>1, <2>5, <2>10
<1>. QED BY <1>4, <1>5

\* The codes of the first k items.
Flat(list, k) == FlattenSeq(SubSeq(list, 1, k))

LEMMA FlatBy ==
  ASSUME NEW list \in Seq(Seq(Byte))
  PROVE  /\ Flat(list, 0) = <<>> /\ Flat(list, Len(list)) = FlattenSeq(list)
         /\ \A k \in 0..Len(list) : Flat(list, k) \in Seq(Byte)
         /\ \A k \in 0..(Len(list) - 1) : Flat(list, k + 1) = Flat(list, k) \o list[k + 1]
<1>1. PICK F : IsFlat(F, list)
  BY FlatExists
<1>2. F \in [Nat -> Seq(Byte)] /\ F[0] = <<>> /\ \A i \in 1..Len(list) : F[i] = F[i - 1] \o list[i]
  BY <1>1 DEF IsFlat
<1>3. ASSUME NEW k \in 0..Len(list) PROVE Flat(list, k) = F[k]
  <2>1. SubSeq(list, 1, k) \in Seq(Seq(Byte)) /\ Len(SubSeq(list, 1, k)) = k
        /\ \A i \in 1..k : SubSeq(list, 1, k)[i] = list[i]
    OBVIOUS
  <2>2. \A i \in 1..k : i \in 1..Len(list)
    OBVIOUS
  <2>3. IsFlat(F, SubSeq(list, 1, k))
    BY <1>2, <2>1, <2>2 DEF IsFlat
  <2>4. FlattenSeq(SubSeq(list, 1, k)) = F[Len(SubSeq(list, 1, k))]
    BY <2>1, <2>3, FlatIs
  <2>. QED BY <2>1, <2>4 DEF Flat
<1>4. ASSUME NEW k \in 0..(Len(list) - 1) PROVE Flat(list, k + 1) = Flat(list, k) \o list[k + 1]
  <2>1. k \in 0..Len(list) /\ k + 1 \in 0..Len(list) /\ k + 1 \in 1..Len(list) /\ (k + 1) - 1 = k
    OBVIOUS
  <2>2. Flat(list, k) = F[k] /\ Flat(list, k + 1) = F[k + 1]
    BY <1>3, <2>1
  <2>. QED BY <1>2, <2>1, <2>2
<1>5. 0 \in 0..Len(list) /\ Len(list) \in 0..Len(list) /\ SubSeq(list, 1, Len(list)) = list
  OBVIOUS
<1>6. Flat(list, 0) = <<>> /\ Flat(list, Len(list)) = FlattenSeq(list)
  <2>1. Flat(list, 0) = F[0]
    BY <1>3, <1>5
  <2>. QED BY <1>2, <1>5, <2>1, Zenon DEF Flat
<1>7. ASSUME NEW k \in 0..Len(list) PROVE Flat(list, k) \in Seq(Byte)
  <2>1. k \in Nat /\ Flat(list, k) = F[k]
    BY <1>3
  <2>. QED BY <1>2, <2>1
<1>. QED BY <1>4, <1>6, <1>7, Zenon

\* The codes are as long as items have them.
HasSizes(list) == \A i \in 1..Len(list) : Len(list[i]) \in Nat \ {0} /\ Len(list[i]) < ItemBound + 4

LEMMA FlatGrows ==
  ASSUME NEW list \in Seq(Seq(Byte)), HasSizes(list)
  PROVE  \A k \in 0..(Len(list) - 1) :
           /\ Len(Flat(list, k)) \in Nat /\ Len(list[k + 1]) \in Nat \ {0} /\ Len(list[k + 1]) < ItemBound + 4
           /\ Len(Flat(list, k + 1)) = Len(Flat(list, k)) + Len(list[k + 1])
<1>1. TAKE k \in 0..(Len(list) - 1)
<1>2. k \in 0..Len(list) /\ k + 1 \in 1..Len(list)
  OBVIOUS
<1>3. Flat(list, k) \in Seq(Byte) /\ list[k + 1] \in Seq(Byte)
      /\ Flat(list, k + 1) = Flat(list, k) \o list[k + 1]
  BY <1>2, FlatBy, ElementOfSeq
<1>4. \A s, t \in Seq(Byte) : Len(s) \in Nat /\ Len(s \o t) = Len(s) + Len(t)
  OBVIOUS
<1>5. Len(list[k + 1]) \in Nat \ {0} /\ Len(list[k + 1]) < ItemBound + 4
  BY <1>2 DEF HasSizes
<1>. QED BY <1>3, <1>4, <1>5

\* As many bytes have the codes of k items at most.
SizeBound(k) == 16777219 * k

LEMMA SizeBounds ==
  /\ SizeBound(0) = 0
  /\ \A k \in Nat, a \in Nat, c \in Nat :
       a <= SizeBound(k) /\ c < ItemBound + 4 => a + c <= SizeBound(k + 1)
  /\ \A k \in Nat, a \in Nat : k <= MostItems /\ a <= SizeBound(k) => a < ListBound
<1>1. SizeBound(0) = 0
  BY SMT DEF SizeBound
<1>2. ASSUME NEW k \in Nat, NEW a \in Nat, NEW c \in Nat, a <= SizeBound(k), c < ItemBound + 4
      PROVE  a + c <= SizeBound(k + 1)
  BY <1>2, SMT DEF SizeBound, ItemBound
<1>3. ASSUME NEW k \in Nat, NEW a \in Nat, k <= MostItems, a <= SizeBound(k) PROVE a < ListBound
  BY <1>3, SMT DEF SizeBound, ListBound, MostItems
<1>. QED BY <1>1, <1>2, <1>3, Zenon

LEMMA FlatSizes ==
  ASSUME NEW list \in Seq(Seq(Byte)), HasSizes(list)
  PROVE  \A k \in 0..Len(list) :
           /\ Len(Flat(list, k)) \in Nat /\ k <= Len(Flat(list, k))
           /\ Len(Flat(list, k)) <= SizeBound(k)
<1>. DEFINE n == Len(list)
            F(k) == Len(Flat(list, k))
            T == {k \in Nat : k <= n => F(k) \in Nat /\ k <= F(k) /\ F(k) <= SizeBound(k)}
<1>0. n \in Nat
  OBVIOUS
<1>1. 0 \in T
  <2>1. F(0) = 0 /\ SizeBound(0) = 0
    BY FlatBy, SizeBounds
  <2>. HIDE DEF F
  <2>. QED BY <2>1
<1>2. ASSUME NEW k \in T PROVE k + 1 \in T
  <2>1. k \in Nat /\ k + 1 \in Nat
    OBVIOUS
  <2>2. ASSUME k + 1 <= n
        PROVE  F(k + 1) \in Nat /\ k + 1 <= F(k + 1) /\ F(k + 1) <= SizeBound(k + 1)
    <3>1. k \in 0..(n - 1) /\ k <= n
      BY <1>0, <2>1, <2>2
    <3>2. F(k) \in Nat /\ k <= F(k) /\ F(k) <= SizeBound(k)
      BY <1>2, <3>1
    <3>3. PICK c \in Nat \ {0} : c < ItemBound + 4 /\ F(k + 1) = F(k) + c
      BY <3>1, FlatGrows
    <3>. HIDE DEF F
    <3>4. F(k) + c <= SizeBound(k + 1)
      BY <2>1, <3>2, <3>3, SizeBounds
    <3>5. F(k) + c \in Nat /\ k + 1 <= F(k) + c
      BY <2>1, <3>2, <3>3
    <3>. QED BY <3>3, <3>4, <3>5, Zenon
  <2>. HIDE DEF F, n
  <2>. QED BY <2>1, <2>2
<1>3. T = Nat
  <2>1. T \in SUBSET Nat
    OBVIOUS
  <2>. HIDE DEF T
  <2>. QED BY <1>1, <1>2, <2>1, Induction
<1>4. TAKE k \in 0..Len(list)
<1>5. k \in T /\ k <= n
  <2>1. k \in Nat /\ k <= n
    BY <1>0
  <2>. HIDE DEF T
  <2>. QED BY <1>3, <2>1
<1>. QED BY <1>5

\* The codes of fewer items are a shorter sequence.
LEMMA FlatShorter ==
  ASSUME NEW list \in Seq(Seq(Byte)), HasSizes(list), NEW k \in 0..(Len(list) - 1)
  PROVE  Len(Flat(list, k)) < Len(FlattenSeq(list))
<1>. DEFINE n == Len(list)
            F(i) == Len(Flat(list, i))
            T == {j \in Nat : k + 1 + j <= n => F(k) < F(k + 1 + j)}
<1>0. n \in Nat /\ k \in Nat
  OBVIOUS
<1>1. \A i \in 0..(n - 1) : F(i) \in Nat /\ F(i + 1) \in Nat /\ F(i) < F(i + 1)
  <2>1. TAKE i \in 0..(n - 1)
  <2>2. PICK c \in Nat \ {0} : F(i) \in Nat /\ F(i + 1) = F(i) + c
    BY <2>1, FlatGrows
  <2>. HIDE DEF F
  <2>. QED BY <2>2
<1>. HIDE DEF F, n
<1>2. 0 \in T
  <2>. k + 1 + 0 = k + 1 /\ (k + 1 <= n => k \in 0..(n - 1))
    BY <1>0
  <2>. QED BY <1>1
<1>3. ASSUME NEW j \in T PROVE j + 1 \in T
  <2>1. j \in Nat /\ j + 1 \in Nat /\ k + 1 + (j + 1) = (k + 1 + j) + 1
    BY <1>0
  <2>2. ASSUME k + 1 + (j + 1) <= n PROVE F(k) < F(k + 1 + (j + 1))
    <3>1. k + 1 + j \in 0..(n - 1) /\ k \in 0..(n - 1) /\ k + 1 + j <= n
      BY <1>0, <2>1, <2>2
    <3>2. F(k) < F(k + 1 + j)
      BY <1>3, <3>1
    <3>3. /\ F(k + 1 + j) < F((k + 1 + j) + 1) /\ F(k + 1 + j) \in Nat /\ F((k + 1 + j) + 1) \in Nat
          /\ F(k) \in Nat
      BY <1>1, <3>1
    <3>. QED BY <2>1, <3>2, <3>3
  <2>. QED BY <2>1, <2>2
<1>4. T = Nat
  <2>1. T \in SUBSET Nat
    OBVIOUS
  <2>. HIDE DEF T
  <2>. QED BY <1>2, <1>3, <2>1, Induction
<1>5. n - 1 - k \in Nat /\ k + 1 + (n - 1 - k) = n /\ n <= n
  BY <1>0 DEF n
<1>6. F(k) < F(n)
  BY <1>4, <1>5
<1>. QED BY <1>6, FlatBy DEF F, n

\* A list in memory has each of its codes behind those before it.
LEMMA ListHolds ==
  ASSUME NEW list \in Seq(Seq(Byte)), NEW m, NEW ptr \in Nat, Holds(m, ptr, FlattenSeq(list)),
         NEW k \in 0..(Len(list) - 1)
  PROVE  Holds(m, ptr + Len(Flat(list, k)), list[k + 1])
<1>. DEFINE n == Len(list)
            T == {j \in Nat : j <= n => Holds(m, ptr, Flat(list, n - j))}
<1>0. n \in Nat /\ k \in Nat /\ k + 1 <= n
  OBVIOUS
<1>1. ASSUME NEW i \in 0..(n - 1), Holds(m, ptr, Flat(list, i + 1))
      PROVE  Holds(m, ptr, Flat(list, i)) /\ Holds(m, ptr + Len(Flat(list, i)), list[i + 1])
  <2>1. i \in 0..Len(list) /\ i + 1 \in 1..Len(list)
    OBVIOUS
  <2>2. Flat(list, i) \in Seq(Byte) /\ list[i + 1] \in Seq(Byte)
        /\ Flat(list, i + 1) = Flat(list, i) \o list[i + 1]
    BY <1>1, <2>1, FlatBy, ElementOfSeq
  <2>3. \A s, t \in Seq(Byte) : Holds(m, ptr, s \o t) => Holds(m, ptr, s) /\ Holds(m, ptr + Len(s), t)
    BY HoldsParts
  <2>4. Holds(m, ptr, Flat(list, i) \o list[i + 1])
    BY <1>1, <2>2, Zenon
  <2>. QED BY <2>2, <2>3, <2>4, Zenon
<1>. HIDE DEF n
<1>2. 0 \in T
  <2>1. n - 0 = n
    BY <1>0
  <2>2. Holds(m, ptr, Flat(list, n))
    BY FlatBy DEF n
  <2>. QED BY <2>1, <2>2
<1>3. ASSUME NEW j \in T PROVE j + 1 \in T
  <2>1. j \in Nat /\ j + 1 \in Nat
    OBVIOUS
  <2>2. ASSUME j + 1 <= n PROVE Holds(m, ptr, Flat(list, n - (j + 1)))
    <3>1. n - (j + 1) \in 0..(n - 1) /\ (n - (j + 1)) + 1 = n - j /\ j <= n
      BY <1>0, <2>1, <2>2
    <3>2. Holds(m, ptr, Flat(list, n - j))
      BY <1>3, <3>1
    <3>. QED BY <1>1, <3>1, <3>2
  <2>. QED BY <2>1, <2>2
<1>4. T = Nat
  <2>1. T \in SUBSET Nat
    OBVIOUS
  <2>. HIDE DEF T
  <2>. QED BY <1>2, <1>3, <2>1, Induction
<1>5. n - (k + 1) \in Nat /\ n - (k + 1) <= n /\ n - (n - (k + 1)) = k + 1
  BY <1>0
<1>6. Holds(m, ptr, Flat(list, k + 1))
  BY <1>4, <1>5
<1>7. k \in 0..(n - 1)
  BY <1>0
<1>. QED BY <1>1, <1>6, <1>7

-----------------------------------------------------------------------------
(***************************************************************************)
(* The encoded list in memory.                                             *)
(***************************************************************************)
\* The bytes in front of the first code.
HeadOf(list) == Len(EncodeLength(Len(FlattenSeq(list)), 192))

LEMMA WireRead ==
  ASSUME NEW list \in Seq(Seq(Byte)), HasSizes(list), Len(list) <= MostItems
  PROVE  /\ FlattenSeq(list) \in Seq(Byte) /\ HeadOf(list) \in Nat \ {0}
         /\ EncodeList(list) \in Seq(Byte) /\ EncodeList(list) # <<>>
         /\ Len(EncodeList(list)) = HeadOf(list) + Len(FlattenSeq(list))
         /\ PayloadOffset(EncodeList(list), 1) = HeadOf(list)
         /\ IsList(EncodeList(list), 1)
         /\ Holds(EncodeList(list), 1 + HeadOf(list), FlattenSeq(list))
<1>. DEFINE flat == FlattenSeq(list)
            head == EncodeLength(Len(flat), 192)
<1>1. flat \in Seq(Byte) /\ Len(flat) \in Nat
  <2>1. Len(list) \in 0..Len(list)
    OBVIOUS
  <2>2. flat \in Seq(Byte)
    BY <2>1, FlatBy, Zenon
  <2>3. \A s \in Seq(Byte) : Len(s) \in Nat
    OBVIOUS
  <2>. QED BY <2>2, <2>3, Zenon
<1>2. Len(flat) < ListBound
  <2>1. Len(list) \in Nat /\ Len(list) \in 0..Len(list)
    OBVIOUS
  <2>2. Len(Flat(list, Len(list))) <= SizeBound(Len(list))
    BY <2>1, FlatSizes, Zenon
  <2>3. Len(flat) <= SizeBound(Len(list))
    BY <2>2, FlatBy
  <2>. QED BY <1>1, <2>1, <2>3, SizeBounds
<1>3. head \in Seq(Byte) /\ Len(head) \in 1..7
  <2>1. 192 \in {128, 192}
    OBVIOUS
  <2>. QED BY <1>1, <1>2, <2>1, LengthBytes
<1>4. EncodeList(list) = head \o flat
  BY DEF EncodeList
<1>5. HeadOf(list) = Len(head)
  BY DEF HeadOf
<1>. HIDE DEF head, flat
<1>6. /\ head \o flat \in Seq(Byte) /\ head \o flat # <<>>
      /\ Len(head \o flat) = Len(head) + Len(flat) /\ Len(head) \in Nat \ {0}
  <2>1. \A s, t \in Seq(Byte) : s \o t \in Seq(Byte) /\ Len(s \o t) = Len(s) + Len(t)
    OBVIOUS
  <2>2. Len(head) \in Nat \ {0}
    <3>1. \A a \in 1..7 : a \in Nat \ {0}
      OBVIOUS
    <3>. QED BY <1>3, <3>1, Zenon
  <2>3. Len(head) + Len(flat) # 0 /\ Len(<<>>) = 0
    BY <1>1, <2>2
  <2>4. head \o flat \in Seq(Byte) /\ Len(head \o flat) = Len(head) + Len(flat)
    BY <1>1, <1>3, <2>1, Zenon
  <2>5. head \o flat # <<>>
    BY <2>3, <2>4, Zenon
  <2>. QED BY <2>2, <2>4, <2>5, Zenon
<1>7. Holds(head \o flat, 1, head \o flat)
  <2>1. ASSUME NEW i \in 1..Len(head \o flat) PROVE At(head \o flat, 1 + i - 1) = (head \o flat)[i]
    <3>1. 1 + i - 1 = i
      OBVIOUS
    <3>. QED BY <3>1 DEF At
  <2>. QED BY <2>1 DEF Holds
<1>8. Holds(head \o flat, 1, head) /\ Holds(head \o flat, 1 + Len(head), flat)
  BY <1>1, <1>3, <1>7, HoldsParts
<1>9. PayloadOffset(head \o flat, 1) = Len(head) /\ IsList(head \o flat, 1)
  <2>1. 192 \in {128, 192} /\ 1 \in Nat
    OBVIOUS
  <2>2. PayloadOffset(head \o flat, 1) = Len(head) /\ At(head \o flat, 1) >= 192
    <3>1. Holds(head \o flat, 1, EncodeLength(Len(flat), 192))
      BY <1>8 DEF head
    <3>2. \A len \in Nat, m \in Seq(Byte) :
            len < ListBound /\ Holds(m, 1, EncodeLength(len, 192)) =>
              PayloadOffset(m, 1) = Len(EncodeLength(len, 192)) /\ At(m, 1) >= 192
      BY <2>1, LengthRead
    <3>. QED BY <1>1, <1>2, <1>6, <3>1, <3>2, Zenon DEF head
  <2>. QED BY <2>2 DEF IsList
<1>. QED BY <1>1, <1>4, <1>5, <1>6, <1>8, <1>9 DEF flat

LEMMA ItemLengthNat == ASSUME NEW m \in Seq(Byte), NEW ptr \in Nat PROVE ItemLength(m, ptr) \in Nat
<1>. DEFINE b == At(m, ptr)
<1>1. b \in Byte
  BY BytesAt
<1>2. \A n \in Nat : Load(m, ptr + 1)[n] \in Nat
  <2>1. ptr + 1 \in Nat
    OBVIOUS
  <2>. QED BY <2>1, LoadBy
<1>3. CASE b \in 0..127
  <2>1. ItemLength(m, ptr) = 1
    BY <1>3, FirstByte
  <2>. QED BY <2>1
<1>31. CASE b \in 128..183
  <2>1. ItemLength(m, ptr) = b - 128 + 1
    BY <1>31, FirstByte
  <2>2. \A y \in 128..183 : y - 128 + 1 \in Nat
    OBVIOUS
  <2>. HIDE DEF b
  <2>. QED BY <1>31, <2>1, <2>2
<1>32. CASE b \in 192..247
  <2>1. ItemLength(m, ptr) = b - 192 + 1
    BY <1>32, FirstByte
  <2>2. \A y \in 192..247 : y - 192 + 1 \in Nat
    OBVIOUS
  <2>. HIDE DEF b
  <2>. QED BY <1>32, <2>1, <2>2
<1>4. CASE b \in 184..191
  <2>1. ItemLength(m, ptr) = Load(m, ptr + 1)[b - 183] + (b - 183) + 1
    BY <1>4, FirstByte
  <2>. HIDE DEF b
  <2>2. b - 183 \in Nat
    BY <1>4
  <2>3. Load(m, ptr + 1)[b - 183] \in Nat
    BY <1>2, <2>2
  <2>. QED BY <2>1, <2>2, <2>3
<1>5. CASE b \in 248..255
  <2>1. ItemLength(m, ptr) = Load(m, ptr + 1)[b - 247] + (b - 247) + 1
    BY <1>5, FirstByte
  <2>. HIDE DEF b
  <2>2. b - 247 \in Nat
    BY <1>5
  <2>3. Load(m, ptr + 1)[b - 247] \in Nat
    BY <1>2, <2>2
  <2>. QED BY <2>1, <2>2, <2>3
<1>6. \A y \in Byte : y \in 0..127 \/ y \in 128..183 \/ y \in 184..191 \/ y \in 192..247 \/ y \in 248..255
  BY DEF Byte
<1>. HIDE DEF b
<1>. QED BY <1>1, <1>3, <1>31, <1>32, <1>4, <1>5, <1>6

LEMMA PointersBy ==
  ASSUME NEW m \in Seq(Byte), PayloadOffset(m, 1) \in Nat
  PROVE  /\ Pointers(m) \in [Nat -> Nat] /\ Pointers(m)[0] = 1 + PayloadOffset(m, 1)
         /\ \A i \in Nat : Pointers(m)[i + 1] = Pointers(m)[i] + ItemLength(m, Pointers(m)[i])
<1>. DEFINE first == 1 + PayloadOffset(m, 1)
            step == [p \in Nat \X Nat |-> p[2] + ItemLength(m, p[2])]
            Is(f) == f = [i \in Nat |-> IF i = 0 THEN first
                                        ELSE f[i - 1] + ItemLength(m, f[i - 1])]
<1>1. \A y \in Nat : y + ItemLength(m, y) \in Nat
  <2>1. \A y, l \in Nat : y + l \in Nat
    OBVIOUS
  <2>. QED BY <2>1, ItemLengthNat
<1>2. step \in [Nat \X Nat -> Nat] /\ \A i, y \in Nat : step[<<i, y>>] = y + ItemLength(m, y)
  BY <1>1
<1>3. first \in Nat
  OBVIOUS
<1>. HIDE DEF step, first
<1>4. PICK f : f \in [Nat -> Nat] /\ f[0] = first /\ \A i \in Nat : f[i + 1] = step[<<i, f[i]>>]
  <2>1. \E f : Iterates(f, Nat, first, step)
    BY <1>2, <1>3, Recursion, Zenon
  <2>. QED BY <2>1 DEF Iterates
<1>5. Is(f)
  <2>1. ASSUME NEW i \in Nat
        PROVE  f[i] = IF i = 0 THEN first ELSE f[i - 1] + ItemLength(m, f[i - 1])
    <3>1. CASE i # 0
      <4>1. i - 1 \in Nat /\ (i - 1) + 1 = i
        BY <3>1
      <4>2. f[(i - 1) + 1] = step[<<i - 1, f[i - 1]>>] /\ f[i - 1] \in Nat
        BY <1>4, <4>1
      <4>3. step[<<i - 1, f[i - 1]>>] = f[i - 1] + ItemLength(m, f[i - 1])
        BY <1>2, <4>1, <4>2
      <4>. QED BY <3>1, <4>1, <4>2, <4>3
    <3>. QED BY <1>4, <3>1
  <2>. QED BY <1>4, <2>1
<1>6. Is(Pointers(m))
  <2>1. Is(CHOOSE g : Is(g))
    <3>. HIDE DEF Is
    <3>. QED BY <1>5
  <2>. QED BY <2>1 DEF Pointers, first
<1>7. Pointers(m)[0] = first
  BY <1>6
<1>8. ASSUME NEW i \in Nat PROVE Pointers(m)[i + 1] = Pointers(m)[i] + ItemLength(m, Pointers(m)[i])
  <2>1. i + 1 \in Nat /\ i + 1 # 0 /\ (i + 1) - 1 = i
    OBVIOUS
  <2>. QED BY <1>6, <2>1
<1>9. \A i \in Nat : Pointers(m)[i] \in Nat
  <2>. DEFINE T == {i \in Nat : Pointers(m)[i] \in Nat}
  <2>1. 0 \in T
    BY <1>3, <1>7
  <2>2. ASSUME NEW i \in T PROVE i + 1 \in T
    <3>1. i \in Nat /\ i + 1 \in Nat /\ Pointers(m)[i] \in Nat
      OBVIOUS
    <3>. QED BY <1>1, <1>8, <3>1
  <2>3. T \in SUBSET Nat
    OBVIOUS
  <2>. HIDE DEF T
  <2>4. T = Nat
    BY <2>1, <2>2, <2>3, Induction
  <2>. QED BY <2>4 DEF T
<1>10. Pointers(m) = [i \in Nat |-> Pointers(m)[i]]
  BY <1>6
<1>. QED BY <1>7, <1>8, <1>9, <1>10 DEF first

\* The reader has the length of every code.
HasLengths(list) ==
  \A i \in 1..Len(list) : \A m \in Seq(Byte), ptr \in Nat :
    Holds(m, ptr, list[i]) => ItemLength(m, ptr) = Len(list[i])

LEMMA PointersAre ==
  ASSUME NEW list \in Seq(Seq(Byte)), HasSizes(list), HasLengths(list), Len(list) <= MostItems
  PROVE  \A k \in 0..Len(list) :
           Pointers(EncodeList(list))[k] = 1 + HeadOf(list) + Len(Flat(list, k))
<1>. DEFINE w == EncodeList(list)
            h == HeadOf(list)
            n == Len(list)
            F(k) == Len(Flat(list, k))
            P == Pointers(w)
            T == {k \in Nat : k <= n => P[k] = 1 + h + F(k)}
<1>0. n \in Nat
  OBVIOUS
<1>1. /\ w \in Seq(Byte) /\ h \in Nat \ {0} /\ PayloadOffset(w, 1) = h
      /\ Holds(w, 1 + h, FlattenSeq(list))
  BY WireRead
<1>2. /\ P \in [Nat -> Nat] /\ P[0] = 1 + h
      /\ \A i \in Nat : P[i + 1] = P[i] + ItemLength(w, P[i])
  <2>. HIDE DEF w, h
  <2>1. PayloadOffset(w, 1) \in Nat
    BY <1>1
  <2>. QED BY <1>1, <2>1, PointersBy
<1>3. F(0) = 0
  BY FlatBy
<1>4. ASSUME NEW k \in 0..(n - 1)
      PROVE  /\ Holds(w, 1 + h + F(k), list[k + 1]) /\ F(k) \in Nat
             /\ Len(list[k + 1]) \in Nat /\ F(k + 1) = F(k) + Len(list[k + 1])
  <2>1. Len(list[k + 1]) \in Nat \ {0} /\ F(k) \in Nat /\ F(k + 1) = F(k) + Len(list[k + 1])
    BY FlatGrows
  <2>2. 1 + h \in Nat
    BY <1>1
  <2>3. Holds(w, (1 + h) + F(k), list[k + 1])
    <3>. HIDE DEF w, h
    <3>. QED BY <1>1, <2>2, ListHolds
  <2>. QED BY <2>1, <2>3
<1>. HIDE DEF P, w, h, F
<1>5. 0 \in T
  BY <1>1, <1>2, <1>3
<1>6. ASSUME NEW k \in T PROVE k + 1 \in T
  <2>1. k \in Nat /\ k + 1 \in Nat
    OBVIOUS
  <2>2. ASSUME k + 1 <= n PROVE P[k + 1] = 1 + h + F(k + 1)
    <3>1. k \in 0..(n - 1) /\ k + 1 \in 1..n /\ k <= n
      BY <1>0, <2>1, <2>2
    <3>2. P[k] = 1 + h + F(k)
      BY <1>6, <3>1
    <3>3. 1 + h + F(k) \in Nat
      BY <1>1, <1>4, <3>1
    <3>4. ItemLength(w, P[k]) = Len(list[k + 1])
      BY <1>1, <1>4, <3>1, <3>2, <3>3 DEF HasLengths
    <3>5. P[k + 1] = (1 + h + F(k)) + Len(list[k + 1])
      BY <1>2, <2>1, <3>2, <3>4
    <3>6. F(k + 1) = F(k) + Len(list[k + 1]) /\ F(k) \in Nat /\ Len(list[k + 1]) \in Nat
      BY <1>4, <3>1
    <3>7. \A a, b, c \in Nat : (1 + a + b) + c = 1 + a + (b + c)
      OBVIOUS
    <3>8. h \in Nat
      BY <1>1
    <3>9. (1 + h + F(k)) + Len(list[k + 1]) = 1 + h + (F(k) + Len(list[k + 1]))
      BY <3>6, <3>7, <3>8, Zenon
    <3>. QED BY <3>5, <3>6, <3>9, Zenon
  <2>. HIDE DEF n
  <2>. QED BY <2>1, <2>2
<1>7. T = Nat
  <2>1. T \in SUBSET Nat
    OBVIOUS
  <2>. HIDE DEF T
  <2>. QED BY <1>5, <1>6, <2>1, Induction
<1>8. TAKE k \in 0..Len(list)
<1>9. k \in T /\ k <= n
  <2>1. k \in Nat /\ k <= n
    BY <1>0
  <2>. HIDE DEF T
  <2>. QED BY <1>7, <2>1
<1>10. P[k] = 1 + h + F(k)
  BY <1>9
<1>. QED BY <1>10 DEF P, w, h, F

LEMMA NumItemsIs ==
  ASSUME NEW list \in Seq(Seq(Byte)), HasSizes(list), HasLengths(list), Len(list) <= MostItems
  PROVE  NumItems(EncodeList(list)) = Len(list)
<1>. DEFINE w == EncodeList(list)
            h == HeadOf(list)
            n == Len(list)
            P == Pointers(w)
            Is(k) == P[k] > Len(w) /\ \A i \in 0..(k - 1) : P[i] <= Len(w)
<1>0. n \in Nat /\ n \in 0..n /\ \A k \in 0..(n - 1) : k \in 0..n
  OBVIOUS
<1>1. /\ h \in Nat \ {0} /\ Len(w) = h + Len(FlattenSeq(list)) /\ Flat(list, n) = FlattenSeq(list)
  BY WireRead, FlatBy
<1>2. \A k \in 0..n : P[k] = 1 + h + Len(Flat(list, k))
  BY PointersAre
<1>3. Len(Flat(list, n)) \in Nat /\ n <= Len(Flat(list, n))
  BY <1>0, FlatSizes
<1>4. P[n] > Len(w) /\ n \in 0..Len(w)
  <2>. HIDE DEF P, w, h, n
  <2>. QED BY <1>0, <1>1, <1>2, <1>3
<1>5. ASSUME NEW k \in 0..(n - 1) PROVE P[k] <= Len(w)
  <2>1. Len(Flat(list, k)) < Len(FlattenSeq(list)) /\ Len(Flat(list, k)) \in Nat
    BY FlatShorter, FlatGrows
  <2>2. P[k] = 1 + h + Len(Flat(list, k))
    BY <1>0, <1>2
  <2>. HIDE DEF P, w, h, n
  <2>. QED BY <1>1, <1>3, <2>1, <2>2
<1>. HIDE DEF P, n, w
<1>6. Is(n)
  BY <1>4, <1>5
<1>7. ASSUME NEW k \in 0..Len(w), Is(k) PROVE k = n
  <2>1. ~(n \in 0..(k - 1))
    <3>1. ASSUME n \in 0..(k - 1) PROVE FALSE
      <4>1. P[n] <= Len(w)
        BY <1>7, <3>1
      <4>2. P[n] \in Int /\ Len(w) \in Int
        BY <1>0, <1>1, <1>2, <1>3
      <4>. QED BY <1>4, <4>1, <4>2
    <3>. QED BY <3>1
  <2>2. ~(k \in 0..(n - 1))
    <3>1. ASSUME k \in 0..(n - 1) PROVE FALSE
      <4>1. P[k] <= Len(w) /\ P[k] > Len(w)
        BY <1>5, <1>7, <3>1
      <4>2. P[k] = 1 + h + Len(Flat(list, k)) /\ Len(Flat(list, k)) \in Nat
        BY <1>0, <1>2, <3>1, FlatGrows DEF n
      <4>3. P[k] \in Int /\ Len(w) \in Int
        BY <1>1, <1>3, <4>2
      <4>. QED BY <4>1, <4>3
    <3>. QED BY <3>1
  <2>. QED BY <1>0, <2>1, <2>2
<1>8. NumItems(w) = CHOOSE k \in 0..Len(w) : Is(k)
  BY DEF NumItems, P
<1>. HIDE DEF Is
<1>9. NumItems(w) = n
  BY <1>4, <1>6, <1>7, <1>8
<1>. QED BY <1>9 DEF w, n

-----------------------------------------------------------------------------
(***************************************************************************)
(* The invariant.                                                          *)
(***************************************************************************)
\* What the writer made of an item, which may be the leaf of a word.
Coded(code, item, word) ==
  /\ Len(code) \in Nat \ {0} /\ Len(code) < ItemBound + 4
  /\ IsCode(code, item)
  /\ word # 0 => IsLeafOf(code, word)

WrittenOK ==
  /\ items \in Seq(Seq(Byte)) /\ encoded \in Seq(Seq(Byte)) /\ words \in Seq(Nat)
  /\ Len(encoded) = Len(items) /\ Len(words) = Len(items) /\ Len(items) <= MostItems
  /\ \A i \in 1..Len(items) : Coded(encoded[i], items[i], words[i])

WireOK == wire = <<>> \/ wire = EncodeList(encoded)

\* The iterator is behind the codes of the items that were read.
AtBoundary ==
  /\ wire # <<>>
  /\ Len(read) \in 0..Len(items) /\ read = SubSeq(items, 1, Len(read))
  /\ nextPtr = 1 + HeadOf(encoded) + Len(Flat(encoded, Len(read)))

ReadOK == \/ nextPtr = 0 /\ read = <<>>
          \/ AtBoundary

CodecInv == WrittenOK /\ WireOK /\ ReadOK

\* Of the byte 128 the writer makes the code of the empty byte string.
NoByte128 == Byte128 \notin ByteStrings /\ 128 \notin Words

LEMMA CodecFacts ==
  /\ \A s \in ByteStrings : s \in Seq(Byte) /\ Len(s) < ItemBound
  /\ \A x \in Words : x \in Nat /\ x # 0 /\ LengthOf(x) <= 32
  /\ MaxItems \in Nat /\ MaxItems <= MostItems /\ MostItems \in Nat
<1>1. \A s \in ByteStrings : s \in Seq(Byte)
  BY CodecAssumption
<1>2. \A s \in ByteStrings : Len(s) < ItemBound
  BY CodecAssumption, SMT DEF ItemBound
<1>3. ASSUME NEW x \in Words PROVE x \in Nat /\ x # 0 /\ LengthOf(x) <= 32
  <2>1. x \in Nat /\ x # 0 /\ LengthOf(x) <= WordBytes /\ WordBytes \in 1..32
    BY CodecAssumption
  <2>2. LengthOf(x) \in Nat
    BY <2>1, LengthIs
  <2>. QED BY <2>1, <2>2
<1>4. MaxItems \in Nat /\ MaxItems <= MostItems /\ MostItems \in Nat
  BY CodecAssumption, SMT DEF MostItems
<1>. QED BY <1>1, <1>2, <1>3, <1>4

\* What the properties of lists need, once there is a list.
LEMMA WireFacts ==
  ASSUME CodecInv, wire # <<>>
  PROVE  /\ wire = EncodeList(encoded) /\ wire \in Seq(Byte)
         /\ HasSizes(encoded) /\ HasLengths(encoded) /\ Len(encoded) <= MostItems
         /\ HeadOf(encoded) \in Nat \ {0} /\ PayloadOffset(wire, 1) = HeadOf(encoded)
         /\ Len(wire) = HeadOf(encoded) + Len(FlattenSeq(encoded))
         /\ Holds(wire, 1 + HeadOf(encoded), FlattenSeq(encoded))
<1>1. /\ wire = EncodeList(encoded) /\ encoded \in Seq(Seq(Byte)) /\ Len(encoded) <= MostItems
      /\ \A i \in 1..Len(encoded) : Coded(encoded[i], items[i], words[i])
  BY DEF CodecInv, WrittenOK, WireOK
<1>2. HasSizes(encoded)
  BY <1>1 DEF HasSizes, Coded
<1>3. HasLengths(encoded)
  BY <1>1 DEF HasLengths, Coded, IsCode
<1>. QED BY <1>1, <1>2, <1>3, WireRead, Zenon

LEMMA NextItem ==
  ASSUME CodecInv, AtBoundary
  PROVE  /\ nextPtr \in Nat /\ nextPtr > 0
         /\ Len(read) \in Nat /\ Len(items) \in Nat
         /\ nextPtr <= Len(wire) <=> Len(read) < Len(items)
         /\ Len(read) < Len(items) =>
              /\ Len(read) + 1 \in 1..Len(items)
              /\ Holds(wire, nextPtr, encoded[Len(read) + 1])
              /\ Len(Flat(encoded, Len(read) + 1)) = Len(Flat(encoded, Len(read))) + Len(encoded[Len(read) + 1])
              /\ Len(Flat(encoded, Len(read))) \in Nat /\ Len(encoded[Len(read) + 1]) \in Nat
<1>. DEFINE k == Len(read)
            n == Len(items)
            h == HeadOf(encoded)
            F(i) == Len(Flat(encoded, i))
<1>1. /\ h \in Nat \ {0} /\ Len(wire) = h + F(n) /\ HasSizes(encoded)
      /\ Holds(wire, 1 + h, FlattenSeq(encoded)) /\ FlattenSeq(encoded) = Flat(encoded, n)
  <2>1. wire # <<>>
    BY DEF AtBoundary
  <2>2. encoded \in Seq(Seq(Byte)) /\ Len(encoded) = n
    BY DEF CodecInv, WrittenOK
  <2>. QED BY <2>1, <2>2, WireFacts, FlatBy
<1>2. encoded \in Seq(Seq(Byte)) /\ Len(encoded) = n /\ n \in Nat /\ k \in 0..n /\ nextPtr = 1 + h + F(k)
  BY DEF CodecInv, WrittenOK, AtBoundary
<1>3. F(k) \in Nat /\ F(n) \in Nat
  <2>1. k \in 0..Len(encoded) /\ n \in 0..Len(encoded)
    BY <1>2
  <2>. QED BY <1>1, <1>2, <2>1, FlatSizes
<1>4. ASSUME k < n
      PROVE  /\ F(k) < F(n) /\ Holds(wire, nextPtr, encoded[k + 1])
             /\ F(k + 1) = F(k) + Len(encoded[k + 1]) /\ Len(encoded[k + 1]) \in Nat
  <2>1. k \in 0..(Len(encoded) - 1)
    BY <1>2, <1>4
  <2>2. F(k) < F(n)
    BY <1>1, <1>2, <2>1, FlatShorter
  <2>3. F(k + 1) = F(k) + Len(encoded[k + 1]) /\ Len(encoded[k + 1]) \in Nat
    BY <1>1, <1>2, <2>1, FlatGrows
  <2>4. Holds(wire, (1 + h) + F(k), encoded[k + 1])
    <3>1. 1 + h \in Nat
      BY <1>1
    <3>. QED BY <1>1, <1>2, <2>1, <3>1, ListHolds
  <2>. QED BY <1>2, <2>2, <2>3, <2>4
<1>. HIDE DEF k, n, h, F
<1>5. nextPtr \in Nat /\ nextPtr > 0
  BY <1>1, <1>2, <1>3
<1>6. nextPtr <= Len(wire) <=> k < n
  <2>1. CASE k < n
    BY <1>1, <1>2, <1>3, <1>4, <2>1
  <2>2. CASE k = n
    BY <1>1, <1>2, <1>3, <2>2
  <2>. QED BY <1>2, <2>1, <2>2
<1>7. k < n => k + 1 \in 1..n
  BY <1>2
<1>. QED BY <1>2, <1>3, <1>4, <1>5, <1>6, <1>7 DEF k, n, F

LEMMA WriteStep ==
  ASSUME CodecInv, NEW bytes \in Seq(Byte), NEW word \in Nat, NEW code \in Seq(Byte),
         Coded(code, bytes, word), Write(bytes, word, code)
  PROVE  CodecInv'
<1>1. /\ wire = <<>> /\ Len(items) < MaxItems
      /\ items' = Append(items, bytes) /\ words' = Append(words, word)
      /\ encoded' = Append(encoded, code)
      /\ wire' = wire /\ nextPtr' = nextPtr /\ read' = read
  BY DEF Write
<1>2. /\ items \in Seq(Seq(Byte)) /\ encoded \in Seq(Seq(Byte)) /\ words \in Seq(Nat)
      /\ Len(encoded) = Len(items) /\ Len(words) = Len(items) /\ Len(items) \in Nat
      /\ \A i \in 1..Len(items) : Coded(encoded[i], items[i], words[i])
  BY DEF CodecInv, WrittenOK
<1>3. /\ items' \in Seq(Seq(Byte)) /\ encoded' \in Seq(Seq(Byte)) /\ words' \in Seq(Nat)
      /\ Len(items') = Len(items) + 1 /\ Len(encoded') = Len(items) + 1 /\ Len(words') = Len(items) + 1
  BY <1>1, <1>2
<1>4. Len(items') <= MostItems
  <2>1. MaxItems \in Nat /\ MaxItems <= MostItems /\ MostItems \in Nat
    BY CodecFacts
  <2>. QED BY <1>1, <1>2, <1>3, <2>1
<1>5. ASSUME NEW i \in 1..Len(items') PROVE Coded(encoded'[i], items'[i], words'[i])
  <2>1. CASE i = Len(items) + 1
    <3>1. encoded'[i] = code /\ items'[i] = bytes /\ words'[i] = word
      BY <1>1, <1>2, <2>1
    <3>. QED BY <3>1
  <2>2. CASE i # Len(items) + 1
    <3>1. i \in 1..Len(items)
      BY <1>2, <1>3, <2>2
    <3>2. encoded'[i] = encoded[i] /\ items'[i] = items[i] /\ words'[i] = words[i]
      BY <1>1, <1>2, <3>1
    <3>. QED BY <1>2, <3>1, <3>2
  <2>. QED BY <2>1, <2>2
<1>6. WrittenOK'
  BY <1>3, <1>4, <1>5 DEF WrittenOK
<1>7. nextPtr = 0 /\ read = <<>>
  BY <1>1 DEF CodecInv, ReadOK, AtBoundary
<1>8. WireOK' /\ ReadOK'
  BY <1>1, <1>7 DEF WireOK, ReadOK
<1>. QED BY <1>6, <1>8 DEF CodecInv

LEMMA CodecStep ==
  ASSUME NoByte128, CodecInv, CodecNext
  PROVE  CodecInv'
<1>1. CASE WriteBytes
  <2>1. PICK x \in ByteStrings : Write(x, 0, EncodeBytes(x))
    BY <1>1 DEF WriteBytes
  <2>2. x \in Seq(Byte) /\ Len(x) < ItemBound /\ x # Byte128
    BY CodecFacts DEF NoByte128
  <2>3. EncodeBytes(x) \in Seq(Byte) /\ Coded(EncodeBytes(x), x, 0)
    BY <2>2, BytesAreCoded DEF Coded
  <2>4. 0 \in Nat
    OBVIOUS
  <2>. QED BY <2>1, <2>2, <2>3, <2>4, WriteStep, Zenon
<1>2. CASE WriteLeaf
  <2>1. PICK x \in Words : Write(LeafItem(x), x, LeafValue(x))
    BY <1>2, Zenon DEF WriteLeaf, LeafItem
  <2>2. x \in Nat /\ x # 0 /\ x # 128 /\ LengthOf(x) <= 32
    BY CodecFacts DEF NoByte128
  <2>3. /\ LeafItem(x) \in Seq(Byte) /\ Len(LeafItem(x)) < ItemBound /\ LeafItem(x) # Byte128
        /\ LeafValue(x) = EncodeBytes(LeafItem(x)) /\ IsLeafOf(LeafValue(x), x)
    BY <2>2, LeavesAreCoded, Zenon
  <2>4. LeafValue(x) \in Seq(Byte) /\ Coded(LeafValue(x), LeafItem(x), x)
    BY <2>3, BytesAreCoded, Zenon DEF Coded
  <2>. QED BY <2>1, <2>2, <2>3, <2>4, WriteStep, Zenon
<1>3. CASE WriteList
  <2>1. /\ wire = <<>> /\ wire' = EncodeList(encoded)
        /\ items' = items /\ words' = words /\ encoded' = encoded /\ nextPtr' = nextPtr /\ read' = read
    BY <1>3 DEF WriteList
  <2>2. nextPtr = 0 /\ read = <<>>
    BY <2>1 DEF CodecInv, ReadOK, AtBoundary
  <2>3. WrittenOK'
    BY <2>1 DEF CodecInv, WrittenOK
  <2>. QED BY <2>1, <2>2, <2>3 DEF CodecInv, WireOK, ReadOK
<1>4. CASE Iterator
  <2>1. /\ wire # <<>> /\ nextPtr = 0 /\ nextPtr' = 1 + PayloadOffset(wire, 1)
        /\ items' = items /\ words' = words /\ encoded' = encoded /\ wire' = wire /\ read' = read
    BY <1>4 DEF Iterator
  <2>2. read = <<>>
    <3>1. ASSUME AtBoundary PROVE FALSE
      BY <2>1, <3>1, NextItem
    <3>. QED BY <3>1 DEF CodecInv, ReadOK
  <2>3. PayloadOffset(wire, 1) = HeadOf(encoded) /\ HeadOf(encoded) \in Nat
    BY <2>1, WireFacts
  <2>4. /\ Len(read) = 0 /\ 0 \in 0..Len(items) /\ SubSeq(items, 1, 0) = <<>>
        /\ Len(Flat(encoded, 0)) = 0
    <3>1. items \in Seq(Seq(Byte)) /\ encoded \in Seq(Seq(Byte))
      BY DEF CodecInv, WrittenOK
    <3>2. Flat(encoded, 0) = <<>>
      BY <3>1, FlatBy
    <3>. QED BY <2>2, <3>1, <3>2
  <2>5. AtBoundary'
    <3>1. nextPtr' = 1 + HeadOf(encoded) + Len(Flat(encoded, 0))
      BY <2>1, <2>3, <2>4
    <3>. QED BY <2>1, <2>2, <2>4, <3>1, Zenon DEF AtBoundary
  <2>6. WrittenOK' /\ WireOK'
    BY <2>1 DEF CodecInv, WrittenOK, WireOK
  <2>. QED BY <2>5, <2>6 DEF CodecInv, ReadOK
<1>5. CASE ReadNext
  <2>. DEFINE k == Len(read)
              code == encoded[k + 1]
  <2>1. /\ nextPtr > 0 /\ nextPtr <= Len(wire)
        /\ read' = Append(read, ToBytes(wire, nextPtr, ItemLength(wire, nextPtr)))
        /\ nextPtr' = nextPtr + ItemLength(wire, nextPtr)
        /\ items' = items /\ words' = words /\ encoded' = encoded /\ wire' = wire
    BY <1>5 DEF ReadNext
  <2>2. AtBoundary
    <3>1. nextPtr # 0
      BY <2>1
    <3>. QED BY <3>1 DEF CodecInv, ReadOK
  <2>3. wire \in Seq(Byte) /\ wire # <<>>
    <3>1. wire # <<>>
      BY <2>2 DEF AtBoundary
    <3>. QED BY <3>1, WireFacts
  <2>4. /\ nextPtr \in Nat /\ k \in Nat /\ k + 1 \in 1..Len(items) /\ Holds(wire, nextPtr, code)
        /\ Len(Flat(encoded, k + 1)) = Len(Flat(encoded, k)) + Len(code)
        /\ Len(Flat(encoded, k)) \in Nat /\ Len(code) \in Nat
    BY <2>1, <2>2, NextItem
  <2>5. items \in Seq(Seq(Byte)) /\ IsCode(code, items[k + 1])
    BY <2>4 DEF CodecInv, WrittenOK, Coded
  <2>6. ItemLength(wire, nextPtr) = Len(code) /\ ToBytes(wire, nextPtr, Len(code)) = items[k + 1]
    BY <2>3, <2>4, <2>5 DEF IsCode
  <2>7. read' = Append(read, items[k + 1]) /\ read = SubSeq(items, 1, k) /\ k \in 0..Len(items)
    BY <2>1, <2>2, <2>6 DEF AtBoundary
  <2>8. Append(SubSeq(items, 1, k), items[k + 1]) = SubSeq(items, 1, k + 1)
        /\ Len(SubSeq(items, 1, k + 1)) = k + 1
    <3>. HIDE DEF k
    <3>. QED BY <2>4, <2>5
  <2>9. read' = SubSeq(items, 1, k + 1) /\ Len(read') = k + 1
    BY <2>7, <2>8, Zenon
  <2>10. nextPtr' = 1 + HeadOf(encoded) + Len(Flat(encoded, k + 1))
    <3>1. nextPtr = 1 + HeadOf(encoded) + Len(Flat(encoded, k)) /\ HeadOf(encoded) \in Nat
      BY <2>2, <2>3, WireFacts DEF AtBoundary
    <3>2. nextPtr' = nextPtr + Len(code)
      BY <2>1, <2>6
    <3>3. \A a, b, c \in Nat : (1 + a + b) + c = 1 + a + (b + c)
      OBVIOUS
    <3>4. (1 + HeadOf(encoded) + Len(Flat(encoded, k))) + Len(code)
            = 1 + HeadOf(encoded) + (Len(Flat(encoded, k)) + Len(code))
      BY <2>4, <3>1, <3>3, Zenon
    <3>. QED BY <2>4, <3>1, <3>2, <3>4, Zenon
  <2>11. k + 1 \in 0..Len(items)
    <3>. HIDE DEF k
    <3>. QED BY <2>4
  <2>12. AtBoundary'
    <3>. HIDE DEF k
    <3>. QED BY <2>1, <2>3, <2>9, <2>10, <2>11, Zenon DEF AtBoundary
  <2>13. WrittenOK' /\ WireOK'
    BY <2>1 DEF CodecInv, WrittenOK, WireOK
  <2>. QED BY <2>12, <2>13 DEF CodecInv, ReadOK
<1>. QED BY <1>1, <1>2, <1>3, <1>4, <1>5 DEF CodecNext

LEMMA CodecInvariant == ASSUME NoByte128 PROVE CodecSpec => []CodecInv
<1>1. CodecInit => CodecInv
  <2>1. SUFFICES ASSUME CodecInit PROVE CodecInv
    OBVIOUS
  <2>2. items = <<>> /\ words = <<>> /\ encoded = <<>> /\ wire = <<>> /\ nextPtr = 0 /\ read = <<>>
    BY <2>1 DEF CodecInit
  <2>3. /\ <<>> \in Seq(Seq(Byte)) /\ <<>> \in Seq(Nat) /\ Len(<<>>) = 0 /\ 1..0 = {}
    OBVIOUS
  <2>4. 0 <= MostItems
    BY SMT DEF MostItems
  <2>5. WrittenOK
    BY <2>2, <2>3, <2>4 DEF WrittenOK
  <2>. QED BY <2>2, <2>5 DEF CodecInv, WireOK, ReadOK
<1>2. CodecInv /\ [CodecNext]_codecVars => CodecInv'
  <2>1. SUFFICES ASSUME CodecInv, [CodecNext]_codecVars PROVE CodecInv'
    OBVIOUS
  <2>2. CASE CodecNext
    BY <2>1, <2>2, CodecStep
  <2>3. CASE UNCHANGED codecVars
    BY <2>1, <2>3 DEF codecVars, CodecInv, WrittenOK, WireOK, ReadOK, AtBoundary
  <2>. QED BY <2>1, <2>2, <2>3
<1>. QED BY <1>1, <1>2, PTL DEF CodecSpec

\* The reader counts the items the writer encoded and gives each of them back,
\* in order, whatever their lengths are (RLPWriter.encodeBytes and encodeList,
\* RLPReader.toList).  It does for no list with the byte 128 alone.
THEOREM ReadsWhatWasWrittenCorrect == ASSUME NoByte128 PROVE CodecSpec => []ReadsWhatWasWritten
<1>1. CodecInv => ReadsWhatWasWritten
  <2>1. SUFFICES ASSUME CodecInv, wire # <<>>
                 PROVE  /\ NumItems(wire) = Len(items)
                        /\ nextPtr > Len(wire) => read = items
    BY DEF ReadsWhatWasWritten
  <2>2. encoded \in Seq(Seq(Byte)) /\ items \in Seq(Seq(Byte)) /\ Len(encoded) = Len(items)
    BY <2>1 DEF CodecInv, WrittenOK
  <2>3. NumItems(wire) = Len(items)
    BY <2>1, <2>2, WireFacts, NumItemsIs
  <2>4. ASSUME nextPtr > Len(wire) PROVE read = items
    <3>1. Len(wire) \in Nat
      BY <2>1, WireFacts
    <3>2. AtBoundary
      <4>1. nextPtr # 0
        BY <2>4, <3>1
      <4>. QED BY <2>1, <4>1 DEF CodecInv, ReadOK
    <3>3. ~(Len(read) < Len(items)) /\ Len(read) \in Nat /\ Len(items) \in Nat
      <4>1. nextPtr \in Nat /\ (nextPtr <= Len(wire) <=> Len(read) < Len(items))
            /\ Len(read) \in Nat /\ Len(items) \in Nat
        BY <2>1, <3>2, NextItem
      <4>. QED BY <2>4, <3>1, <4>1
    <3>4. Len(read) \in 0..Len(items) /\ read = SubSeq(items, 1, Len(read))
      BY <3>2 DEF AtBoundary
    <3>5. Len(read) = Len(items)
      BY <3>3, <3>4
    <3>6. SubSeq(items, 1, Len(items)) = items
      BY <2>2
    <3>. QED BY <3>4, <3>5, <3>6, Zenon
  <2>. QED BY <2>3, <2>4
<1>. QED BY <1>1, CodecInvariant, PTL

\* An update takes out of a leaf the word that restoreOldValueState put into
\* it, whatever stands in front of the leaf and behind it (updateStorageValue).
\* It does not for the word 128.
THEOREM LeafHoldsItsWordCorrect == ASSUME NoByte128 PROVE CodecSpec => []LeafHoldsItsWord
<1>1. CodecInv => LeafHoldsItsWord
  <2>1. SUFFICES ASSUME CodecInv, nextPtr > 0, nextPtr <= Len(wire), Len(read) < Len(words),
                        words[Len(read) + 1] # 0
                 PROVE  UpdateStorageValue(wire, nextPtr, ItemLength(wire, nextPtr))
                          = words[Len(read) + 1]
    BY DEF LeafHoldsItsWord
  <2>. DEFINE code == encoded[Len(read) + 1]
              word == words[Len(read) + 1]
  <2>2. AtBoundary
    <3>1. nextPtr # 0
      BY <2>1
    <3>. QED BY <2>1, <3>1 DEF CodecInv, ReadOK
  <2>3. wire \in Seq(Byte)
    <3>1. wire # <<>>
      BY <2>2 DEF AtBoundary
    <3>. QED BY <2>1, <3>1, WireFacts
  <2>4. nextPtr \in Nat /\ Len(read) + 1 \in 1..Len(items) /\ Holds(wire, nextPtr, code)
    BY <2>1, <2>2, NextItem
  <2>5. IsCode(code, items[Len(read) + 1]) /\ IsLeafOf(code, word)
    BY <2>1, <2>4 DEF CodecInv, WrittenOK, Coded
  <2>6. ItemLength(wire, nextPtr) = Len(code)
    BY <2>3, <2>4, <2>5 DEF IsCode
  <2>7. UpdateStorageValue(wire, nextPtr, Len(code)) = word
    BY <2>3, <2>4, <2>5 DEF IsLeafOf
  <2>. QED BY <2>6, <2>7
<1>. QED BY <1>1, CodecInvariant, PTL

=============================================================================
