----------------------------- MODULE AddressProofs -----------------------------
(***************************************************************************)
(* What the address check takes, for every base, radix, block, key and     *)
(* digest size: a text that is decoded is what its bytes are written as,   *)
(* and a text is valid just if it is an address, but for the two ways of   *)
(* its own that the code has (Wraps, Overlong).                            *)
(*                                                                         *)
(* Numbers and their digits come first, then texts cut into blocks, then   *)
(* base58, then varints and addresses.                                     *)
(***************************************************************************)
EXTENDS AddressCheck, TextProofs

-----------------------------------------------------------------------------
(* Counting.                                                               *)

(* Induction, with a set for the property.                                 *)
LEMMA UpTo ==
  ASSUME NEW n \in Nat, NEW T, 0 \in T, \A k \in 1 .. n : k - 1 \in T => k \in T
  PROVE  0 .. n \subseteq T
<1> DEFINE out == {k \in 0 .. n : k \notin T}
<1>1. ASSUME out # {} PROVE FALSE
  <2>1. out \subseteq Nat
    OBVIOUS
  <2>2. PICK k \in out : \A j \in out : k <= j
    BY <1>1, <2>1, LeastNumber
  <2>3. k \in 1 .. n /\ k - 1 \in 0 .. n /\ k - 1 \notin out
    BY <2>2
  <2> QED
    BY <2>2, <2>3
<1> QED
  BY <1>1

(* A function may be given by its first value and its steps.               *)
Runs(f, n, X, x, step) ==
  f \in [0 .. n -> X] /\ f[0] = x /\ \A k \in 1 .. n : f[k] = step[k][f[k - 1]]

LEMMA StepByStep ==
  ASSUME NEW n \in Nat, NEW X, NEW x \in X, NEW step \in [1 .. n -> [X -> X]]
  PROVE  \E f : Runs(f, n, X, x, step)
<1> DEFINE Is(f, m) == f[0] = x /\ \A k \in 1 .. m : f[k] = step[k][f[k - 1]]
           T == {m \in 0 .. n : \E f \in [0 .. m -> X] : Is(f, m)}
<1>1. 0 \in T
  <2> DEFINE f == [k \in 0 .. 0 |-> x]
  <2>1. f \in [0 .. 0 -> X] /\ Is(f, 0)
    OBVIOUS
  <2> HIDE DEF f
  <2> QED
    BY <2>1
<1>2. ASSUME NEW m \in 1 .. n, m - 1 \in T PROVE m \in T
  <2>1. PICK g \in [0 .. m - 1 -> X] : Is(g, m - 1)
    BY <1>2
  <2> DEFINE f == [k \in 0 .. m |-> IF k < m THEN g[k] ELSE step[m][g[m - 1]]]
  <2>2. step[m][g[m - 1]] \in X
    <3>1. g[m - 1] \in X
      OBVIOUS
    <3> QED
      BY <3>1
  <2>3. f \in [0 .. m -> X]
    BY <2>2
  <2>4. f[0] = x
    BY <2>1
  <2>5. ASSUME NEW k \in 1 .. m PROVE f[k] = step[k][f[k - 1]]
    <3>1. k - 1 \in 0 .. m /\ k - 1 < m /\ f[k - 1] = g[k - 1]
      OBVIOUS
    <3>2. CASE k < m
      <4>1. k \in 1 .. m - 1 /\ f[k] = g[k]
        BY <3>2
      <4> QED
        BY <2>1, <3>1, <4>1
    <3>3. CASE k = m
      BY <3>1, <3>3
    <3> QED
      BY <3>2, <3>3
  <2>6. Is(f, m)
    BY <2>4, <2>5
  <2> HIDE DEF f, Is
  <2> QED
    BY <2>3, <2>6
<1>3. n \in T
  <2> HIDE DEF T
  <2>1. 0 .. n \subseteq T
    BY <1>1, <1>2, UpTo
  <2> QED
    BY <2>1
<1> QED
  BY <1>3 DEF Runs

-----------------------------------------------------------------------------
(* Numbers and their digits.                                               *)

LEMMA NumberSteps ==
  ASSUME NEW d \in Seq(Nat), NEW base \in Nat
  PROVE  \E f \in [0 .. Len(d) -> Nat] :
           /\ f[0] = 0 /\ \A i \in 1 .. Len(d) : f[i] = f[i - 1] * base + d[i]
           /\ Number(d, base) = f[Len(d)]
<1> DEFINE n == Len(d)
           step == [i \in 1 .. n |-> [x \in Nat |-> x * base + d[i]]]
           Body(f) == [i \in 0 .. n |-> IF i = 0 THEN 0 ELSE f[i - 1] * base + d[i]]
           number == CHOOSE f : f = Body(f)
<1>1. n \in Nat /\ \A i \in 1 .. n : d[i] \in Nat
  BY LenProperties, ElementOfSeq
<1>2. step \in [1 .. n -> [Nat -> Nat]]
  BY <1>1
<1>3. \A i \in 1 .. n, x \in Nat : step[i][x] = x * base + d[i]
  OBVIOUS
<1> HIDE DEF n, step
<1>4. PICK f : Runs(f, n, Nat, 0, step)
  BY <1>1, <1>2, StepByStep
<1>5. f \in [0 .. n -> Nat] /\ f[0] = 0 /\ \A i \in 1 .. n : f[i] = step[i][f[i - 1]]
  BY <1>4 DEF Runs
<1>6. ASSUME NEW i \in 1 .. n PROVE f[i] = f[i - 1] * base + d[i]
  <2>1. f[i - 1] \in Nat
    BY <1>1, <1>5
  <2> QED
    BY <1>3, <1>5, <2>1
<1>7. f = Body(f)
  BY <1>1, <1>5, <1>6
<1>8. number = Body(number)
  <2> HIDE DEF Body
  <2> QED
    BY <1>7
<1>9. Number(d, base) = number[n]
  BY DEF Number, n
<1> HIDE DEF number
<1>10. number[0] = 0 /\ \A i \in 1 .. n : number[i] = number[i - 1] * base + d[i]
  BY <1>1, <1>8
<1>11. \A i \in 0 .. n : number[i] = f[i]
  <2> DEFINE T == {i \in 0 .. n : number[i] = f[i]}
  <2>1. 0 \in T
    BY <1>1, <1>5, <1>10
  <2>2. \A k \in 1 .. n : k - 1 \in T => k \in T
    BY <1>1, <1>6, <1>10
  <2> HIDE DEF T
  <2>3. 0 .. n \subseteq T
    BY <1>1, <2>1, <2>2, UpTo
  <2> QED
    BY <2>3 DEF T
<1>12. Number(d, base) = f[n]
  BY <1>1, <1>9, <1>11
<1> QED
  BY <1>5, <1>6, <1>12 DEF n

LEMMA ShiftedSteps ==
  ASSUME NEW v \in Nat, NEW base \in Nat \ {0}, NEW most \in Nat
  PROVE  /\ Shifted(v, base, most) \in [0 .. most -> Nat]
         /\ Shifted(v, base, most)[0] = v
         /\ \A k \in 1 .. most : Shifted(v, base, most)[k] = Shifted(v, base, most)[k - 1] \div base
<1> DEFINE step == [k \in 1 .. most |-> [x \in Nat |-> x \div base]]
           Body(f) == [k \in 0 .. most |-> IF k = 0 THEN v ELSE f[k - 1] \div base]
           shifted == CHOOSE f : f = Body(f)
<1>1. \A x \in Nat : x \div base \in Nat
  OBVIOUS
<1>2. step \in [1 .. most -> [Nat -> Nat]]
  BY <1>1
<1>3. \A k \in 1 .. most, x \in Nat : step[k][x] = x \div base
  OBVIOUS
<1> HIDE DEF step
<1>4. PICK f : Runs(f, most, Nat, v, step)
  BY <1>2, StepByStep
<1>5. /\ f \in [0 .. most -> Nat] /\ f[0] = v
      /\ \A k \in 1 .. most : f[k] = step[k][f[k - 1]]
  BY <1>4 DEF Runs
<1>6. ASSUME NEW k \in 1 .. most PROVE f[k] = f[k - 1] \div base
  <2>1. f[k - 1] \in Nat
    BY <1>5
  <2> QED
    BY <1>3, <1>5, <2>1
<1>7. f = Body(f)
  BY <1>5, <1>6
<1>8. shifted = Body(shifted)
  <2> HIDE DEF Body
  <2> QED
    BY <1>7
<1>9. Shifted(v, base, most) = shifted
  BY DEF Shifted
<1> HIDE DEF shifted
<1>10. shifted[0] = v /\ \A k \in 1 .. most : shifted[k] = shifted[k - 1] \div base
  BY <1>8
<1>11. \A k \in 0 .. most : shifted[k] \in Nat
  <2> DEFINE T == {k \in 0 .. most : shifted[k] \in Nat}
  <2>1. 0 \in T
    BY <1>10
  <2>2. ASSUME NEW k \in 1 .. most, k - 1 \in T PROVE k \in T
    <3>1. shifted[k - 1] \in Nat
      BY <2>2
    <3>2. shifted[k] = shifted[k - 1] \div base
      BY <1>10
    <3>3. shifted[k] \in Nat
      BY <1>1, <3>1, <3>2
    <3> QED
      BY <3>3
  <2> HIDE DEF T
  <2>3. 0 .. most \subseteq T
    BY <2>1, <2>2, UpTo
  <2> QED
    BY <2>3 DEF T
<1>12. shifted \in [0 .. most -> Nat]
  BY <1>8, <1>11
<1> QED
  BY <1>9, <1>10, <1>12

(* Digits are digits.                                                      *)
LEMMA DigitsAre ==
  ASSUME NEW v \in Nat, NEW base \in Nat \ {0}, NEW size \in Nat
  PROVE  /\ Digits(v, base, size) \in Seq(0 .. base - 1)
         /\ Len(Digits(v, base, size)) = size
         /\ \A i \in 1 .. size :
              Digits(v, base, size)[i] = Shifted(v, base, size)[size - i] % base
<1> DEFINE s == Shifted(v, base, size)
<1>1. s \in [0 .. size -> Nat]
  BY ShiftedSteps
<1> HIDE DEF s
<1>2. \A i \in 1 .. size : s[size - i] \in Nat
  BY <1>1
<1>3. \A i \in 1 .. size : s[size - i] % base \in 0 .. base - 1
  BY <1>2
<1>4. [i \in 1 .. size |-> s[size - i] % base] \in Seq(0 .. base - 1)
  BY <1>3
<1>5. Digits(v, base, size) = [i \in 1 .. size |-> s[size - i] % base]
  BY DEF Digits, s
<1>6. Len([i \in 1 .. size |-> s[size - i] % base]) = size
  OBVIOUS
<1> QED
  BY <1>4, <1>5, <1>6 DEF s

(* The digits of the number that digits stand for are those digits.        *)
LEMMA DigitsOfNumber ==
  ASSUME NEW base \in Nat \ {0}, NEW d \in Seq(0 .. base - 1)
  PROVE  /\ Number(d, base) \in Nat /\ HasDigits(Number(d, base), base, Len(d))
         /\ Digits(Number(d, base), base, Len(d)) = d
<1> DEFINE n == Len(d)
           v == Number(d, base)
           s == Shifted(v, base, n)
<1>1. n \in Nat /\ \A i \in 1 .. n : d[i] \in 0 .. base - 1
  BY LenProperties, ElementOfSeq
<1>2. d \in Seq(Nat) /\ DOMAIN d = 1 .. n
  BY LenProperties
<1>3. PICK f \in [0 .. n -> Nat] :
        /\ f[0] = 0 /\ \A i \in 1 .. n : f[i] = f[i - 1] * base + d[i]
        /\ v = f[n]
  BY <1>2, NumberSteps
<1>4. v \in Nat
  BY <1>1, <1>3
<1> HIDE DEF n, v
<1>5. s \in [0 .. n -> Nat] /\ s[0] = v /\ \A k \in 1 .. n : s[k] = s[k - 1] \div base
  BY <1>1, <1>4, ShiftedSteps
<1> HIDE DEF s
<1>6. \A i \in 1 .. n : f[i] \div base = f[i - 1] /\ f[i] % base = d[i]
  <2>1. ASSUME NEW i \in 1 .. n PROVE f[i] \div base = f[i - 1] /\ f[i] % base = d[i]
    <3>1. /\ f[i - 1] \in Nat /\ d[i] \in 0 .. base - 1
          /\ f[i] = f[i - 1] * base + d[i]
      BY <1>1, <1>3
    <3>2. \A q \in Nat, r \in 0 .. base - 1 : (q * base + r) \div base = q /\ (q * base + r) % base = r
      OBVIOUS
    <3>3. /\ (f[i - 1] * base + d[i]) \div base = f[i - 1]
          /\ (f[i - 1] * base + d[i]) % base = d[i]
      BY <3>1, <3>2, Zenon
    <3> QED
      BY <3>1, <3>3, Zenon
  <2> QED
    BY <2>1
<1>7. \A k \in 0 .. n : s[k] = f[n - k]
  <2> DEFINE T == {k \in 0 .. n : s[k] = f[n - k]}
  <2>1. 0 \in T
    BY <1>1, <1>3, <1>5
  <2>2. ASSUME NEW k \in 1 .. n, k - 1 \in T PROVE k \in T
    <3>1. s[k - 1] = f[n - (k - 1)]
      BY <2>2
    <3>2. n - (k - 1) \in 1 .. n /\ (n - (k - 1)) - 1 = n - k
      BY <1>1
    <3>3. f[n - (k - 1)] \div base = f[n - k]
      BY <1>6, <3>2
    <3>4. s[k] = f[n - k]
      BY <1>5, <3>1, <3>3
    <3> QED
      BY <1>1, <3>4
  <2> HIDE DEF T
  <2>3. 0 .. n \subseteq T
    BY <1>1, <2>1, <2>2, UpTo
  <2> QED
    BY <2>3 DEF T
<1>8. s[n] = 0
  BY <1>1, <1>3, <1>7
<1>9. ASSUME NEW i \in 1 .. n PROVE s[n - i] % base = d[i]
  <2>1. n - i \in 0 .. n /\ n - (n - i) = i
    BY <1>1
  <2> QED
    BY <1>6, <1>7, <2>1
<1>10. /\ Digits(v, base, n) \in Seq(0 .. base - 1) /\ Len(Digits(v, base, n)) = n
       /\ \A i \in 1 .. n : Digits(v, base, n)[i] = d[i]
  BY <1>1, <1>4, <1>9, DigitsAre DEF s
<1>11. Digits(v, base, n) = d
  BY <1>10, SeqEqual DEF n
<1> QED
  BY <1>4, <1>8, <1>11 DEF HasDigits, s, n, v

(* And the number of its digits is a number that has no more.              *)
LEMMA NumberOfDigits ==
  ASSUME NEW v \in Nat, NEW base \in Nat \ {0}, NEW size \in Nat, HasDigits(v, base, size)
  PROVE  Number(Digits(v, base, size), base) = v
<1> DEFINE d == Digits(v, base, size)
           s == Shifted(v, base, size)
<1>1. /\ s \in [0 .. size -> Nat] /\ s[0] = v
      /\ \A k \in 1 .. size : s[k] = s[k - 1] \div base
  BY ShiftedSteps
<1>2. /\ d \in Seq(0 .. base - 1) /\ Len(d) = size
      /\ \A i \in 1 .. size : d[i] = s[size - i] % base
  BY DigitsAre
<1>3. s[size] = 0
  BY DEF HasDigits
<1> HIDE DEF d, s
<1>4. d \in Seq(Nat)
  BY <1>2, LenProperties
<1>5. PICK f \in [0 .. size -> Nat] :
        /\ f[0] = 0 /\ \A i \in 1 .. size : f[i] = f[i - 1] * base + d[i]
        /\ Number(d, base) = f[size]
  BY <1>2, <1>4, NumberSteps
<1>6. \A k \in 0 .. size : f[k] = s[size - k]
  <2> DEFINE T == {k \in 0 .. size : f[k] = s[size - k]}
  <2>1. 0 \in T
    BY <1>3, <1>5
  <2>2. ASSUME NEW k \in 1 .. size, k - 1 \in T PROVE k \in T
    <3>1. f[k - 1] = s[size - (k - 1)]
      BY <2>2
    <3>2. size - (k - 1) \in 1 .. size /\ (size - (k - 1)) - 1 = size - k
      OBVIOUS
    <3>3. s[size - (k - 1)] = s[size - k] \div base
      BY <1>1, <3>2
    <3>4. f[k] = (s[size - k] \div base) * base + (s[size - k] % base)
      BY <1>2, <1>5, <3>1, <3>3
    <3>5. s[size - k] \in Nat
      BY <1>1
    <3>6. \A x \in Nat : (x \div base) * base + (x % base) = x
      OBVIOUS
    <3>7. f[k] = s[size - k]
      BY <3>4, <3>5, <3>6, Zenon
    <3> QED
      BY <3>7
  <2> HIDE DEF T
  <2>3. 0 .. size \subseteq T
    BY <2>1, <2>2, UpTo
  <2> QED
    BY <2>3 DEF T
<1>7. f[size] = v
  BY <1>1, <1>6
<1> QED
  BY <1>5, <1>7 DEF d

-----------------------------------------------------------------------------
(* Blocks.                                                                 *)

LEMMA Quotient ==
  ASSUME NEW n \in Nat \ {0}, NEW q \in Nat, NEW r \in 0 .. n - 1
  PROVE  (q * n + r) \div n = q /\ (q * n + r) % n = r
  OBVIOUS

LEMMA Product ==
  ASSUME NEW n \in Nat, NEW j \in Nat, NEW k \in Nat, j <= k
  PROVE  j * n \in Nat /\ k * n \in Nat /\ j * n <= k * n /\ (j + 1) * n = j * n + n
  OBVIOUS

(* Every place of a text is one of a block.                                *)
IsPlace(j, n, m, r, k, i) ==
  k \in 1 .. m + 1 /\ i \in 1 .. n /\ j = (k - 1) * n + i /\ (k = m + 1 => i <= r)

LEMMA PlaceInBlock ==
  ASSUME NEW n \in Nat \ {0}, NEW m \in Nat, NEW r \in 1 .. n, NEW j \in 1 .. m * n + r
  PROVE  \E k, i : IsPlace(j, n, m, r, k, i)
<1> DEFINE q == (j - 1) \div n
           i == ((j - 1) % n) + 1
<1>1. m * n \in Nat
  OBVIOUS
<1>2. j - 1 \in Nat /\ j <= m * n + r
  BY <1>1
<1>3. q \in Nat /\ i \in 1 .. n /\ j - 1 = q * n + (i - 1)
  BY <1>2
<1> HIDE DEF q, i
<1>4. q <= m
  <2>1. ASSUME q > m PROVE FALSE
    <3>1. (m + 1) * n <= q * n /\ (m + 1) * n = m * n + n /\ q * n \in Nat
      BY <1>3, <2>1, Product
    <3> QED
      BY <1>1, <1>2, <1>3, <3>1
  <2> QED
    BY <1>3, <2>1
<1>5. q = m => i <= r
  BY <1>1, <1>2, <1>3
<1>6. q * n \in Nat
  BY <1>3, Product
<1>7. q + 1 \in 1 .. m + 1 /\ j = ((q + 1) - 1) * n + i /\ (q + 1 = m + 1 => i <= r)
  BY <1>2, <1>3, <1>4, <1>5, <1>6
<1>8. IsPlace(j, n, m, r, q + 1, i)
  BY <1>3, <1>7 DEF IsPlace
<1> QED
  BY <1>8

(* Blocks of n, the last of which may be shorter, and the text they are.   *)
AreBlocks(bs, n, S) ==
  /\ bs \in Seq(Seq(S))
  /\ \A k \in 1 .. Len(bs) : Len(bs[k]) \in 1 .. n
  /\ \A k \in 1 .. Len(bs) - 1 : Len(bs[k]) = n

AreBlocksOf(bs, s, n) ==
  /\ Len(s) = IF Len(bs) = 0 THEN 0 ELSE (Len(bs) - 1) * n + Len(bs[Len(bs)])
  /\ \A k \in 1 .. Len(bs) : \A i \in 1 .. Len(bs[k]) : s[(k - 1) * n + i] = bs[k][i]

(* Blocks make one text.                                                   *)
LEMMA OneText ==
  ASSUME NEW S, NEW n \in Nat \ {0}, NEW bs, AreBlocks(bs, n, S),
         NEW s \in Seq(S), AreBlocksOf(bs, s, n), NEW t \in Seq(S), AreBlocksOf(bs, t, n)
  PROVE  s = t
<1>1. Len(bs) \in Nat /\ Len(s) = Len(t) /\ Len(s) \in Nat
  BY LenProperties DEF AreBlocks, AreBlocksOf
<1>2. ASSUME NEW j \in 1 .. Len(s) PROVE s[j] = t[j]
  <2> DEFINE m == Len(bs) - 1
             r == Len(bs[Len(bs)])
  <2>1. Len(bs) # 0
    <3>1. Len(bs) = 0 => Len(s) = 0
      BY DEF AreBlocksOf
    <3> QED
      BY <3>1
  <2>2. m \in Nat /\ r \in 1 .. n /\ Len(s) = m * n + r /\ Len(bs) = m + 1
    BY <1>1, <2>1 DEF AreBlocks, AreBlocksOf
  <2>3. \A k \in 1 .. m : Len(bs[k]) = n
    BY DEF AreBlocks
  <2>4. Len(bs[m + 1]) = r
    BY <2>2
  <2> HIDE DEF m, r
  <2>5. j \in 1 .. m * n + r
    BY <2>2
  <2>6. PICK k, i : IsPlace(j, n, m, r, k, i)
    BY <2>2, <2>5, PlaceInBlock
  <2>7. k \in 1 .. m + 1 /\ i \in 1 .. n /\ j = (k - 1) * n + i /\ (k = m + 1 => i <= r)
    BY <2>6 DEF IsPlace
  <2>8. k \in 1 .. Len(bs) /\ i \in 1 .. Len(bs[k])
    <3>1. CASE k = m + 1
      BY <2>2, <2>4, <2>7, <3>1
    <3>2. CASE k # m + 1
      BY <2>2, <2>3, <2>7, <3>2
    <3> QED
      BY <3>1, <3>2
  <2> QED
    BY <2>7, <2>8 DEF AreBlocksOf
<1> QED
  BY <1>1, <1>2, SeqEqual

(* A text has one cut into blocks.                                         *)
LEMMA OneCut ==
  ASSUME NEW S, NEW n \in Nat \ {0}, NEW s,
         NEW bs, AreBlocks(bs, n, S), AreBlocksOf(bs, s, n),
         NEW cs, AreBlocks(cs, n, S), AreBlocksOf(cs, s, n)
  PROVE  bs = cs
<1>1. /\ bs \in Seq(Seq(S)) /\ cs \in Seq(Seq(S)) /\ Len(bs) \in Nat /\ Len(cs) \in Nat
  BY LenProperties DEF AreBlocks
<1>2. \A xs : AreBlocks(xs, n, S) /\ AreBlocksOf(xs, s, n) /\ Len(xs) # 0 =>
        /\ Len(xs) \in Nat \ {0} /\ Len(xs[Len(xs)]) \in 1 .. n
        /\ Len(s) = (Len(xs) - 1) * n + Len(xs[Len(xs)])
        /\ Len(s) > 0 /\ Len(xs) - 1 = (Len(s) - 1) \div n
  <2> SUFFICES ASSUME NEW xs, AreBlocks(xs, n, S), AreBlocksOf(xs, s, n), Len(xs) # 0
               PROVE  /\ Len(xs) \in Nat \ {0} /\ Len(xs[Len(xs)]) \in 1 .. n
                      /\ Len(s) = (Len(xs) - 1) * n + Len(xs[Len(xs)])
                      /\ Len(s) > 0 /\ Len(xs) - 1 = (Len(s) - 1) \div n
    OBVIOUS
  <2> DEFINE m == Len(xs) - 1
             r == Len(xs[Len(xs)])
  <2>1. Len(xs) \in Nat
    BY LenProperties DEF AreBlocks
  <2>2. m \in Nat /\ r \in 1 .. n /\ Len(s) = m * n + r /\ Len(xs) = m + 1
    <3>1. Len(xs) \in 1 .. Len(xs) /\ m \in Nat /\ Len(xs) = m + 1
      BY <2>1
    <3>2. r \in 1 .. n
      BY <3>1 DEF AreBlocks
    <3>3. Len(s) = m * n + r
      BY DEF AreBlocksOf
    <3> QED
      BY <3>1, <3>2, <3>3
  <2> HIDE DEF m, r
  <2>3. m * n \in Nat /\ r - 1 \in 0 .. n - 1
    BY <2>2
  <2>4. Len(s) - 1 = m * n + (r - 1) /\ Len(s) > 0
    BY <2>2, <2>3
  <2>5. (m * n + (r - 1)) \div n = m
    BY <2>2, <2>3, Quotient
  <2> QED
    BY <2>2, <2>4, <2>5 DEF m, r
<1>3. Len(bs) = Len(cs)
  <2>1. \A xs : AreBlocks(xs, n, S) /\ AreBlocksOf(xs, s, n) /\ Len(xs) = 0 => Len(s) = 0
    BY DEF AreBlocksOf
  <2>2. Len(bs) = 0 <=> Len(cs) = 0
    <3>1. (Len(bs) = 0 => Len(s) = 0) /\ (Len(cs) = 0 => Len(s) = 0)
      BY <2>1
    <3>2. Len(bs) # 0 => Len(s) > 0
      BY <1>2
    <3>3. Len(cs) # 0 => Len(s) > 0
      BY <1>2
    <3> QED
      BY <3>1, <3>2, <3>3
  <2>3. CASE Len(bs) # 0
    <3>1. Len(bs) - 1 = Len(cs) - 1
      BY <1>2, <2>2, <2>3
    <3> QED
      BY <1>1, <3>1
  <2> QED
    BY <2>2, <2>3
<1>4. ASSUME NEW k \in 1 .. Len(bs) PROVE bs[k] = cs[k]
  <2>1. bs[k] \in Seq(S) /\ cs[k] \in Seq(S)
    BY <1>1, <1>3, ElementOfSeq
  <2>2. Len(bs[k]) = Len(cs[k])
    <3>1. CASE k # Len(bs)
      BY <1>1, <1>3, <3>1 DEF AreBlocks
    <3>2. CASE k = Len(bs)
      <4> DEFINE p == (Len(bs) - 1) * n
      <4>1. Len(bs) # 0 /\ Len(cs) # 0 /\ Len(bs) - 1 \in Nat
        BY <1>1, <1>3
      <4>2. p \in Int
        BY <4>1
      <4>3. Len(s) = p + Len(bs[Len(bs)])
        BY <1>2, <4>1
      <4>4. Len(s) = (Len(cs) - 1) * n + Len(cs[Len(cs)])
        BY <1>2, <4>1
      <4>5. /\ p \in Int
            /\ Len(s) = p + Len(bs[Len(bs)]) /\ Len(s) = p + Len(cs[Len(cs)])
        BY <1>3, <4>2, <4>3, <4>4
      <4> HIDE DEF p
      <4>6. Len(bs[Len(bs)]) \in Nat /\ Len(cs[Len(cs)]) \in Nat
        BY <1>3, <2>1, <3>2, LenProperties
      <4> QED
        BY <1>3, <3>2, <4>5, <4>6
    <3> QED
      BY <3>1, <3>2
  <2>3. \A i \in 1 .. Len(bs[k]) : bs[k][i] = cs[k][i]
    BY <1>3, <2>2 DEF AreBlocksOf
  <2> QED
    BY <2>1, <2>2, <2>3, SeqEqual
<1> QED
  BY <1>1, <1>3, <1>4, SeqEqual

LEMMA SubSeqAt ==
  ASSUME NEW S, NEW s \in Seq(S), NEW lo \in 1 .. Len(s), NEW hi \in lo .. Len(s)
  PROVE  /\ SubSeq(s, lo, hi) \in Seq(S) /\ Len(SubSeq(s, lo, hi)) = hi - lo + 1
         /\ \A i \in 1 .. hi - lo + 1 : SubSeq(s, lo, hi)[i] = s[(lo - 1) + i]
<1>1. Len(s) \in Nat
  BY LenProperties
<1>2. lo \in Nat /\ hi \in Nat /\ lo <= hi /\ hi <= Len(s) /\ lo >= 1
  BY <1>1
<1>3. \A i \in lo .. hi : s[i] \in S
  BY <1>1, <1>2, ElementOfSeq
<1>4. /\ SubSeq(s, lo, hi) \in Seq(S)
      /\ Len(SubSeq(s, lo, hi)) = IF lo <= hi THEN hi - lo + 1 ELSE 0
      /\ \A i \in 1 .. hi - lo + 1 : SubSeq(s, lo, hi)[i] = s[lo + i - 1]
  BY <1>2, <1>3, SubSeqProperties
<1>5. \A i \in 1 .. hi - lo + 1 : lo + i - 1 = (lo - 1) + i
  BY <1>2
<1> QED
  BY <1>2, <1>4, <1>5

(* Blocks cuts a text into its blocks.                                     *)
LEMMA BlocksCut ==
  ASSUME NEW S, NEW s \in Seq(S), NEW n \in Nat \ {0}
  PROVE  AreBlocks(Blocks(s, n), n, S) /\ AreBlocksOf(Blocks(s, n), s, n)
<1> DEFINE L  == Len(s)
           bs == Blocks(s, n)
<1>1. L \in Nat
  BY LenProperties
<1>2. CASE L = 0
  <2>1. 0 * n + (n - 1) = L + n - 1 /\ n - 1 \in 0 .. n - 1
    BY <1>2
  <2>2. (0 * n + (n - 1)) \div n = 0
    BY <2>1, Quotient
  <2>3. (L + n - 1) \div n = 0
    BY <2>1, <2>2
  <2>4. bs = <<>>
    <3> DEFINE Block(k) == SubSeq(s, (k - 1) * n + 1, IF k * n < L THEN k * n ELSE L)
               none == [k \in 1 .. 0 |-> Block(k)]
    <3>1. bs = none
      BY <2>3 DEF Blocks
    <3> HIDE DEF Block
    <3>2. none \in Seq(S) /\ Len(none) = 0
      OBVIOUS
    <3>3. none = <<>>
      BY <3>2, EmptySeq
    <3> QED
      BY <3>1, <3>3
  <2>5. <<>> \in Seq(Seq(S)) /\ Len(<<>>) = 0
    OBVIOUS
  <2> QED
    BY <1>2, <2>4, <2>5 DEF AreBlocks, AreBlocksOf
<1>3. CASE L # 0
  <2> DEFINE q == (L - 1) \div n
             r == ((L - 1) % n) + 1
             Block(k) == SubSeq(s, (k - 1) * n + 1, IF k * n < L THEN k * n ELSE L)
  <2>1. q \in Nat /\ r \in 1 .. n /\ L = q * n + r /\ q * n \in Nat /\ r - 1 \in 0 .. n - 1
    BY <1>1, <1>3
  <2> HIDE DEF q, r
  <2>2. (q + 1) * n = q * n + n
    BY <2>1, Product
  <2>3. L + n - 1 = (q + 1) * n + (r - 1) /\ q + 1 \in Nat
    BY <1>1, <2>1, <2>2
  <2>4. (L + n - 1) \div n = q + 1
    BY <2>1, <2>3, Quotient
  <2>5. bs = [k \in 1 .. q + 1 |-> Block(k)]
    BY <2>4 DEF Blocks
  <2>6. ASSUME NEW k \in 1 .. q + 1
        PROVE  /\ Block(k) \in Seq(S) /\ Len(Block(k)) = IF k = q + 1 THEN r ELSE n
               /\ \A i \in 1 .. Len(Block(k)) : Block(k)[i] = s[(k - 1) * n + i]
    <3> DEFINE p  == (k - 1) * n
               lo == p + 1
               hi == IF k * n < L THEN k * n ELSE L
    <3>1. k - 1 \in Nat /\ k - 1 <= q /\ (k - 1) + 1 = k
      BY <2>1
    <3>2. p \in Nat /\ p <= q * n /\ k * n = p + n
      BY <2>1, <3>1, Product
    <3>3. CASE k = q + 1
      <4>1. p = q * n
        BY <2>1, <3>3
      <4> HIDE DEF p
      <4>2. hi = L /\ lo \in 1 .. L /\ hi \in lo .. L /\ hi - lo + 1 = r /\ lo - 1 = p
        BY <1>1, <2>1, <3>2, <4>1
      <4> HIDE DEF lo, hi
      <4>3. /\ SubSeq(s, lo, hi) \in Seq(S) /\ Len(SubSeq(s, lo, hi)) = hi - lo + 1
            /\ \A i \in 1 .. hi - lo + 1 : SubSeq(s, lo, hi)[i] = s[(lo - 1) + i]
        BY <4>2, SubSeqAt
      <4> QED
        BY <3>3, <4>2, <4>3 DEF lo, hi, p
    <3>4. CASE k # q + 1
      <4>1. k <= q /\ k \in Nat
        BY <2>1, <3>4
      <4>2. k * n <= q * n /\ k * n \in Nat
        BY <2>1, <4>1, Product
      <4> HIDE DEF p
      <4>3. hi = k * n /\ lo \in 1 .. L /\ hi \in lo .. L /\ hi - lo + 1 = n /\ lo - 1 = p
        BY <1>1, <2>1, <3>2, <4>2
      <4> HIDE DEF lo, hi
      <4>4. /\ SubSeq(s, lo, hi) \in Seq(S) /\ Len(SubSeq(s, lo, hi)) = hi - lo + 1
            /\ \A i \in 1 .. hi - lo + 1 : SubSeq(s, lo, hi)[i] = s[(lo - 1) + i]
        BY <4>3, SubSeqAt
      <4> QED
        BY <3>4, <4>3, <4>4 DEF lo, hi, p
    <3> QED
      BY <3>3, <3>4
  <2> HIDE DEF Block, bs
  <2>7. bs \in Seq(Seq(S)) /\ Len(bs) = q + 1
    <3>1. bs \in [1 .. q + 1 -> Seq(S)]
      BY <2>5, <2>6
    <3>2. q + 1 \in Nat
      BY <2>3
    <3> QED
      BY <3>1, <3>2
  <2>8. \A k \in 1 .. q + 1 : bs[k] = Block(k)
    BY <2>5
  <2>9. AreBlocks(bs, n, S)
    BY <2>1, <2>6, <2>7, <2>8 DEF AreBlocks
  <2>10. AreBlocksOf(bs, s, n)
    <3>1. Len(s) = (Len(bs) - 1) * n + Len(bs[Len(bs)]) /\ Len(bs) # 0
      <4>1. Len(bs) - 1 = q /\ Len(bs) # 0 /\ q + 1 \in 1 .. q + 1
        BY <2>1, <2>7
      <4>2. Len(bs[Len(bs)]) = r
        BY <2>6, <2>7, <2>8, <4>1
      <4> QED
        BY <2>1, <4>1, <4>2
    <3>2. ASSUME NEW k \in 1 .. Len(bs), NEW i \in 1 .. Len(bs[k])
          PROVE  s[(k - 1) * n + i] = bs[k][i]
      BY <2>6, <2>7, <2>8
    <3> QED
      BY <3>1, <3>2 DEF AreBlocksOf
  <2> QED
    BY <2>9, <2>10 DEF bs
<1> QED
  BY <1>2, <1>3

(* Joining blocks gives the text they are blocks of.                       *)
LEMMA FlattenCut ==
  ASSUME NEW S, NEW n \in Nat \ {0}, NEW bs, AreBlocks(bs, n, S)
  PROVE  FlattenSeq(bs) \in Seq(S) /\ AreBlocksOf(bs, FlattenSeq(bs), n)
<1> DEFINE m == Len(bs)
           step == [i \in 1 .. m |-> [t \in Seq(S) |-> t \o bs[i]]]
           Body(f) == [i \in 1 .. m |-> IF i = 1 THEN bs[i] ELSE f[i - 1] \o bs[i]]
           flatten == CHOOSE f : f = Body(f)
<1>1. bs \in Seq(Seq(S)) /\ m \in Nat
  BY LenProperties DEF AreBlocks
<1>2. \A i \in 1 .. m : bs[i] \in Seq(S) /\ Len(bs[i]) \in 1 .. n
  BY <1>1, ElementOfSeq DEF AreBlocks
<1>3. \A i \in 1 .. m - 1 : Len(bs[i]) = n
  BY DEF AreBlocks
<1>4. CASE m = 0
  <2>1. bs = <<>>
    BY <1>1, <1>4, EmptySeq
  <2>2. FlattenSeq(bs) = <<>>
    BY <1>4, <2>1 DEF FlattenSeq
  <2>3. <<>> \in Seq(S) /\ Len(<<>>) = 0
    OBVIOUS
  <2>4. AreBlocksOf(bs, <<>>, n)
    <3>1. Len(bs) = 0 /\ 1 .. Len(bs) = {}
      BY <1>4
    <3> QED
      BY <2>3, <3>1 DEF AreBlocksOf
  <2> QED
    BY <2>2, <2>3, <2>4
<1>5. CASE m # 0
  <2>1. FlattenSeq(bs) = flatten[m]
    BY <1>5 DEF FlattenSeq
  <2>2. \A i \in 1 .. m, t \in Seq(S) : t \o bs[i] \in Seq(S)
    BY <1>2, Joined
  <2>3. step \in [1 .. m -> [Seq(S) -> Seq(S)]]
    BY <2>2
  <2>4. \A i \in 1 .. m, t \in Seq(S) : step[i][t] = t \o bs[i]
    OBVIOUS
  <2> HIDE DEF m, step
  <2>5. <<>> \in Seq(S)
    OBVIOUS
  <2>6. PICK g : Runs(g, m, Seq(S), <<>>, step)
    BY <1>1, <2>3, <2>5, StepByStep
  <2>7. /\ g \in [0 .. m -> Seq(S)] /\ g[0] = <<>>
        /\ \A i \in 1 .. m : g[i] = step[i][g[i - 1]]
    BY <2>6 DEF Runs
  <2>8. ASSUME NEW i \in 1 .. m PROVE g[i - 1] \in Seq(S) /\ g[i] = g[i - 1] \o bs[i]
    <3>1. g[i - 1] \in Seq(S)
      BY <1>1, <2>7
    <3> QED
      BY <2>4, <2>7, <3>1
  <2>9. 1 \in 1 .. m /\ m \in 1 .. m
    BY <1>1, <1>5
  <2>10. g[1] = bs[1]
    <3>1. g[1] = <<>> \o bs[1]
      <4>1. g[1] = g[1 - 1] \o bs[1]
        BY <2>8, <2>9
      <4>2. 1 - 1 = 0
        OBVIOUS
      <4> QED
        BY <2>7, <4>1, <4>2
    <3> QED
      BY <1>2, <2>9, <3>1, ConcatEmptySeq
  <2> DEFINE f == [i \in 1 .. m |-> g[i]]
  <2>11. f = Body(f)
    <3>1. ASSUME NEW i \in 1 .. m PROVE f[i] = Body(f)[i]
      <4>1. CASE i = 1
        BY <2>10, <4>1
      <4>2. CASE i # 1
        <5>1. i - 1 \in 1 .. m /\ f[i - 1] = g[i - 1] /\ f[i] = g[i]
          BY <1>1, <4>2
        <5> QED
          BY <2>8, <4>2, <5>1
      <4> QED
        BY <4>1, <4>2
    <3> QED
      BY <3>1
  <2>12. flatten = Body(flatten)
    <3> HIDE DEF Body, f
    <3> QED
      BY <2>11
  <2> HIDE DEF flatten
  <2>13. /\ flatten[1] = bs[1]
         /\ \A i \in 2 .. m : flatten[i] = flatten[i - 1] \o bs[i]
    <3> DEFINE e(i) == IF i = 1 THEN bs[i] ELSE flatten[i - 1] \o bs[i]
    <3>1. \A i \in 1 .. m : flatten[i] = e(i)
      <4>1. flatten = [i \in 1 .. m |-> e(i)]
        BY <2>12
      <4> HIDE DEF e
      <4> QED
        BY <4>1
    <3>2. e(1) = bs[1] /\ \A i \in 2 .. m : i \in 1 .. m /\ e(i) = flatten[i - 1] \o bs[i]
      <4>1. e(1) = bs[1]
        OBVIOUS
      <4>2. ASSUME NEW i \in 2 .. m PROVE i \in 1 .. m /\ e(i) = flatten[i - 1] \o bs[i]
        <5>1. i \in 1 .. m /\ i # 1
          BY <1>1
        <5> QED
          BY <5>1
      <4> QED
        BY <4>1, <4>2
    <3> HIDE DEF e
    <3> QED
      BY <2>9, <3>1, <3>2
  <2>14. flatten[m] = g[m]
    <3> DEFINE T == {i \in 0 .. m : i # 0 => flatten[i] = g[i]}
    <3>1. 0 \in T
      BY <1>1
    <3>2. ASSUME NEW i \in 1 .. m, i - 1 \in T PROVE i \in T
      <4>1. CASE i = 1
        BY <1>1, <2>10, <2>13, <4>1
      <4>2. CASE i # 1
        <5>1. i \in 2 .. m /\ i - 1 # 0 /\ i \in 0 .. m
          BY <1>1, <4>2
        <5>2. flatten[i - 1] = g[i - 1]
          BY <3>2, <5>1
        <5>3. flatten[i] = g[i]
          BY <2>8, <2>13, <5>1, <5>2
        <5> QED
          BY <5>1, <5>3
      <4> QED
        BY <4>1, <4>2
    <3> HIDE DEF T
    <3>3. 0 .. m \subseteq T
      BY <1>1, <3>1, <3>2, UpTo
    <3> QED
      BY <1>1, <1>5, <3>3 DEF T
  <2> DEFINE Holds(k) ==
        /\ Len(g[k]) = IF k = 0 THEN 0 ELSE (k - 1) * n + Len(bs[k])
        /\ \A j \in 1 .. k : \A i \in 1 .. Len(bs[j]) : g[k][(j - 1) * n + i] = bs[j][i]
  <2>15. Holds(m)
    <3> DEFINE T == {k \in 0 .. m : Holds(k)}
    <3>1. 0 \in T
      <4>1. Len(g[0]) = 0
        BY <2>7
      <4> QED
        BY <1>1, <4>1
    <3>2. ASSUME NEW k \in 1 .. m, k - 1 \in T PROVE k \in T
      <4> DEFINE p == g[k - 1]
      <4>1. /\ p \in Seq(S) /\ bs[k] \in Seq(S) /\ g[k] = p \o bs[k]
            /\ Len(bs[k]) \in 1 .. n
        BY <1>2, <2>8
      <4>2. Len(p) = (k - 1) * n
        <5>1. CASE k = 1
          BY <3>2, <5>1
        <5>2. CASE k # 1
          <6>1. k - 1 # 0 /\ k - 1 \in 1 .. m - 1 /\ k - 2 \in Nat /\ (k - 1) - 1 = k - 2
            BY <1>1, <5>2
          <6>2. Len(p) = (k - 2) * n + n
            BY <1>3, <3>2, <6>1
          <6>3. ((k - 2) + 1) * n = (k - 2) * n + n /\ (k - 2) + 1 = k - 1
            BY <6>1, Product
          <6> QED
            BY <6>2, <6>3
        <5> QED
          BY <5>1, <5>2
      <4>3. \A j \in 1 .. k - 1 : \A i \in 1 .. Len(bs[j]) : p[(j - 1) * n + i] = bs[j][i]
        BY <3>2
      <4> HIDE DEF p
      <4>4. Len(p) \in Nat /\ Len(p \o bs[k]) = Len(p) + Len(bs[k])
        BY <4>1, Joined
      <4>5. \A i \in 1 .. Len(p) : (p \o bs[k])[i] = p[i]
        BY <4>1, Joined
      <4>6. \A i \in 1 .. Len(bs[k]) : (p \o bs[k])[Len(p) + i] = bs[k][i]
        BY <4>1, Joined
      <4>7. Len(g[k]) = (k - 1) * n + Len(bs[k])
        BY <4>1, <4>2, <4>4
      <4>8. ASSUME NEW j \in 1 .. k, NEW i \in 1 .. Len(bs[j])
            PROVE  g[k][(j - 1) * n + i] = bs[j][i]
        <5>1. CASE j = k
          BY <4>1, <4>2, <4>6, <5>1
        <5>2. CASE j # k
          <6>1. j \in 1 .. m /\ j \in 1 .. k - 1 /\ j - 1 \in Nat /\ k - 1 \in Nat /\ j <= k - 1
            BY <1>1, <5>2
          <6>2. i \in 1 .. n
            BY <1>2, <6>1
          <6>3. (j - 1) * n \in Nat /\ ((j - 1) + 1) * n = (j - 1) * n + n /\ (j - 1) + 1 = j
            BY <6>1, Product
          <6>4. j * n <= (k - 1) * n
            BY <6>1, Product
          <6>5. (j - 1) * n + i \in 1 .. Len(p)
            BY <4>2, <4>4, <6>2, <6>3, <6>4
          <6> QED
            BY <4>1, <4>3, <4>5, <6>1, <6>5
        <5> QED
          BY <5>1, <5>2
      <4>9. k # 0 /\ k \in 0 .. m
        BY <1>1
      <4>10. Len(g[k]) = IF k = 0 THEN 0 ELSE (k - 1) * n + Len(bs[k])
        BY <4>7, <4>9
      <4>11. \A j \in 1 .. k : \A i \in 1 .. Len(bs[j]) : g[k][(j - 1) * n + i] = bs[j][i]
        BY <4>8
      <4>12. Holds(k)
        BY <4>10, <4>11, Zenon
      <4> HIDE DEF Holds
      <4> QED
        BY <4>9, <4>12
    <3> HIDE DEF T
    <3>3. 0 .. m \subseteq T
      BY <1>1, <3>1, <3>2, UpTo
    <3>4. m \in T
      BY <1>1, <3>3
    <3> HIDE DEF Holds
    <3> QED
      BY <3>4 DEF T
  <2>16. FlattenSeq(bs) = g[m] /\ g[m] \in Seq(S)
    BY <2>1, <2>7, <2>9, <2>14
  <2>17. Len(g[m]) = (m - 1) * n + Len(bs[m])
    BY <1>5, <2>15
  <2>18. \A j \in 1 .. m : \A i \in 1 .. Len(bs[j]) : g[m][(j - 1) * n + i] = bs[j][i]
    BY <2>15
  <2> QED
    BY <1>5, <2>16, <2>17, <2>18 DEF AreBlocksOf, m
<1> QED
  BY <1>4, <1>5

LEMMA FlattenBlocks ==
  ASSUME NEW S, NEW s \in Seq(S), NEW n \in Nat \ {0}
  PROVE  FlattenSeq(Blocks(s, n)) = s
<1> DEFINE bs == Blocks(s, n)
<1>1. AreBlocks(bs, n, S) /\ AreBlocksOf(bs, s, n)
  BY BlocksCut
<1> HIDE DEF bs
<1>2. FlattenSeq(bs) \in Seq(S) /\ AreBlocksOf(bs, FlattenSeq(bs), n)
  BY <1>1, FlattenCut
<1>3. FlattenSeq(bs) = s
  BY <1>1, <1>2, OneText
<1> QED
  BY <1>3 DEF bs

LEMMA BlocksFlatten ==
  ASSUME NEW S, NEW n \in Nat \ {0}, NEW bs, AreBlocks(bs, n, S)
  PROVE  Blocks(FlattenSeq(bs), n) = bs
<1> DEFINE s  == FlattenSeq(bs)
           cs == Blocks(s, n)
<1>1. s \in Seq(S) /\ AreBlocksOf(bs, s, n)
  BY FlattenCut
<1> HIDE DEF s
<1>2. AreBlocks(cs, n, S) /\ AreBlocksOf(cs, s, n)
  BY <1>1, BlocksCut
<1> HIDE DEF cs
<1>3. cs = bs
  BY <1>1, <1>2, OneCut
<1> QED
  BY <1>3 DEF cs, s

-----------------------------------------------------------------------------
(* Base58.                                                                 *)

Byte == 0 .. Radix - 1
Char == 0 .. Base - 1

LEMMA Sizes ==
  /\ FullBytes \in Nat \ {0} /\ FullChars \in Nat \ {0} /\ DOMAIN EncSizes = 1 .. FullBytes
  /\ \A i \in 1 .. FullBytes :
       EncSizes[i] \in 1 .. FullChars /\ (EncSizes[i] = FullChars <=> i = FullBytes)
  /\ \A i, j \in 1 .. FullBytes : EncSizes[i] = EncSizes[j] => i = j
  /\ Base \in Nat \ {0} /\ Radix \in Nat \ {0}
<1>1. EncSizes \in Seq(Nat \ {0}) /\ EncSizes # <<>>
  BY AddressAssumption DEF AddressAssumption
<1>2. FullBytes \in Nat \ {0} /\ DOMAIN EncSizes = 1 .. FullBytes
  BY <1>1, EmptySeq, LenProperties DEF FullBytes
<1>3. \A i \in 1 .. FullBytes : EncSizes[i] \in Nat \ {0}
  BY <1>1, <1>2, ElementOfSeq DEF FullBytes
<1>4. \A i, j \in 1 .. FullBytes : i < j => EncSizes[i] < EncSizes[j]
  BY <1>2, AddressAssumption DEF AddressAssumption
<1>5. FullChars \in Nat \ {0}
  BY <1>2, <1>3 DEF FullChars
<1>6. ASSUME NEW i \in 1 .. FullBytes
      PROVE  EncSizes[i] \in 1 .. FullChars /\ (EncSizes[i] = FullChars <=> i = FullBytes)
  <2>1. CASE i = FullBytes
    BY <1>5, <2>1 DEF FullChars
  <2>2. CASE i # FullBytes
    <3>1. i < FullBytes /\ FullBytes \in 1 .. FullBytes
      BY <1>2, <2>2
    <3>2. EncSizes[i] < FullChars
      BY <1>4, <3>1 DEF FullChars
    <3> QED
      BY <1>3, <1>5, <2>2, <3>2
  <2> QED
    BY <2>1, <2>2
<1>7. ASSUME NEW i \in 1 .. FullBytes, NEW j \in 1 .. FullBytes, EncSizes[i] = EncSizes[j]
      PROVE  i = j
  <2>1. ~(i < j) /\ ~(j < i)
    BY <1>3, <1>4, <1>7
  <2> QED
    BY <1>2, <2>1
<1>8. Base \in Nat \ {0} /\ Radix \in Nat \ {0}
  BY AddressAssumption DEF AddressAssumption
<1> QED
  BY <1>2, <1>5, <1>6, <1>7, <1>8

(* A block that is decoded is written back as it was, unless it was cut.   *)
LEMMA BlockDecoded ==
  ASSUME NEW S, NEW block \in Seq(S), DecodeBlock(block) # Refused
  PROVE  \E size \in 1 .. FullBytes :
           /\ EncSizes[size] = Len(block)
           /\ DecodeBlock(block) \in Seq(Byte) /\ Len(DecodeBlock(block)) = size
           /\ (size = FullBytes => HasDigits(Number(block, Base), Radix, size)) =>
                EncodeBlock(DecodeBlock(block)) = block
<1> DEFINE sizes == {i \in DOMAIN EncSizes : EncSizes[i] = Len(block)}
           size  == CHOOSE i \in sizes : TRUE
           v     == Number(block, Base)
<1>1. /\ sizes # {} /\ \A i \in DOMAIN block : block[i] \in Char
      /\ Fits(v, size) /\ DecodeBlock(block) = Digits(v, Radix, size)
  BY DEF DecodeBlock, Char
<1>2. size \in sizes
  BY <1>1
<1> HIDE DEF size
<1>3. size \in 1 .. FullBytes /\ EncSizes[size] = Len(block) /\ size \in Nat
  <2>1. size \in DOMAIN EncSizes /\ EncSizes[size] = Len(block)
    BY <1>2
  <2> QED
    BY <2>1, Sizes
<1> HIDE DEF sizes
<1>4. block \in Seq(Char)
  <2>1. block \in [1 .. Len(block) -> S] /\ Len(block) \in Nat /\ DOMAIN block = 1 .. Len(block)
    BY LenProperties
  <2>2. block \in [1 .. Len(block) -> Char]
    BY <1>1, <2>1
  <2> QED
    BY <2>1, <2>2
<1>5. /\ v \in Nat /\ HasDigits(v, Base, Len(block))
      /\ Digits(v, Base, Len(block)) = block
  BY <1>4, Sizes, DigitsOfNumber DEF Char
<1> HIDE DEF v
<1>6. Digits(v, Radix, size) \in Seq(Byte) /\ Len(Digits(v, Radix, size)) = size
  <2>1. Radix \in Nat \ {0}
    BY Sizes
  <2> QED
    BY <1>3, <1>5, <2>1, DigitsAre DEF Byte
<1>7. ASSUME HasDigits(v, Radix, size) PROVE EncodeBlock(Digits(v, Radix, size)) = block
  <2>1. Number(Digits(v, Radix, size), Radix) = v
    BY <1>3, <1>5, <1>7, Sizes, NumberOfDigits
  <2> QED
    BY <1>3, <1>5, <1>6, <2>1 DEF EncodeBlock
<1>8. size # FullBytes => HasDigits(v, Radix, size)
  <2>1. size # FullBytes => size < FullBytes
    BY <1>3, Sizes
  <2> QED
    BY <1>1, <2>1 DEF Fits
<1>9. (size = FullBytes => HasDigits(v, Radix, size)) => EncodeBlock(DecodeBlock(block)) = block
  BY <1>1, <1>7, <1>8
<1> QED
  BY <1>1, <1>3, <1>6, <1>9 DEF v

(* The blocks of a text that is decoded, and of its bytes.                 *)
Decoded(text) ==
  [k \in DOMAIN Blocks(text, FullChars) |-> DecodeBlock(Blocks(text, FullChars)[k])]

LEMMA TextDecoded ==
  ASSUME NEW S, NEW text \in Seq(S), Base58Decode(text) # Refused
  PROVE  /\ AreBlocks(Decoded(text), FullBytes, Byte)
         /\ Len(Decoded(text)) = Len(Blocks(text, FullChars))
         /\ Base58Decode(text) = FlattenSeq(Decoded(text))
         /\ \A k \in DOMAIN Blocks(text, FullChars) : Decoded(text)[k] # Refused
<1> DEFINE bs == Blocks(text, FullChars)
           ds == Decoded(text)
<1>1. FullChars \in Nat \ {0} /\ FullBytes \in Nat \ {0}
  BY Sizes
<1>2. AreBlocks(bs, FullChars, S)
  BY <1>1, BlocksCut
<1>3. DOMAIN ds = DOMAIN bs /\ \A k \in DOMAIN bs : ds[k] = DecodeBlock(bs[k])
  BY DEF Decoded
<1>4. \A k \in DOMAIN bs : ds[k] # Refused
  BY <1>3 DEF Base58Decode, Decoded
<1>5. Base58Decode(text) = FlattenSeq(ds)
  BY <1>3, <1>4 DEF Base58Decode, Decoded
<1>6. ds = [k \in DOMAIN bs |-> DecodeBlock(bs[k])]
  BY DEF Decoded
<1> HIDE DEF bs, ds
<1>7. bs \in Seq(Seq(S)) /\ Len(bs) \in Nat /\ DOMAIN bs = 1 .. Len(bs)
  BY <1>2, LenProperties DEF AreBlocks
<1>8. ASSUME NEW k \in 1 .. Len(bs)
      PROVE  /\ ds[k] \in Seq(Byte) /\ Len(ds[k]) \in 1 .. FullBytes
             /\ k \in 1 .. Len(bs) - 1 => Len(ds[k]) = FullBytes
  <2>1. bs[k] \in Seq(S)
    BY <1>7, ElementOfSeq
  <2>2. DecodeBlock(bs[k]) # Refused /\ ds[k] = DecodeBlock(bs[k])
    BY <1>3, <1>4, <1>7
  <2>3. PICK size \in 1 .. FullBytes :
          /\ EncSizes[size] = Len(bs[k]) /\ ds[k] \in Seq(Byte) /\ Len(ds[k]) = size
    BY <2>1, <2>2, BlockDecoded
  <2>4. k \in 1 .. Len(bs) - 1 => Len(bs[k]) = FullChars
    BY <1>2 DEF AreBlocks
  <2>5. Len(bs[k]) = FullChars => size = FullBytes
    BY <2>3, Sizes
  <2> QED
    BY <2>3, <2>4, <2>5
<1>9. ds \in Seq(Seq(Byte)) /\ Len(ds) = Len(bs)
  <2>1. ds \in [1 .. Len(bs) -> Seq(Byte)]
    BY <1>6, <1>3, <1>7, <1>8
  <2>2. ds = [k \in 1 .. Len(bs) |-> ds[k]]
    BY <2>1
  <2>3. [k \in 1 .. Len(bs) |-> ds[k]] \in Seq(Seq(Byte))
    BY <1>7, <1>8
  <2>4. Len([k \in 1 .. Len(bs) |-> ds[k]]) = Len(bs)
    BY <1>7
  <2> QED
    BY <2>2, <2>3, <2>4
<1>10. AreBlocks(ds, FullBytes, Byte)
  BY <1>8, <1>9 DEF AreBlocks
<1> QED
  BY <1>4, <1>5, <1>9, <1>10 DEF bs, ds

(* A text that is decoded is what its bytes are written as, unless a full  *)
(* block is cut.                                                           *)
LEMMA DecodedBack ==
  ASSUME NEW S, NEW text \in Seq(S), Base58Decode(text) # Refused, ~Wraps(text)
  PROVE  Encode(Base58Decode(text)) = text
<1> DEFINE bs == Blocks(text, FullChars)
           ds == Decoded(text)
           es == [k \in DOMAIN ds |-> EncodeBlock(ds[k])]
<1>1. FullChars \in Nat \ {0} /\ FullBytes \in Nat \ {0}
  BY Sizes
<1>2. AreBlocks(bs, FullChars, S) /\ FlattenSeq(bs) = text
  BY <1>1, BlocksCut, FlattenBlocks
<1>3. \A k \in DOMAIN bs : Len(bs[k]) = FullChars => HasDigits(Number(bs[k], Base), Radix, FullBytes)
  BY DEF Wraps
<1>4. /\ AreBlocks(ds, FullBytes, Byte) /\ Len(ds) = Len(bs)
      /\ Base58Decode(text) = FlattenSeq(ds) /\ \A k \in DOMAIN bs : ds[k] # Refused
  BY TextDecoded
<1>5. \A k \in DOMAIN bs : ds[k] = DecodeBlock(bs[k])
  BY DEF Decoded
<1> HIDE DEF bs, ds
<1>6. Blocks(FlattenSeq(ds), FullBytes) = ds
  BY <1>1, <1>4, BlocksFlatten
<1>7. Encode(Base58Decode(text)) = FlattenSeq(es)
  BY <1>4, <1>6 DEF Encode
<1>8. /\ bs \in Seq(Seq(S)) /\ Len(bs) \in Nat /\ DOMAIN bs = 1 .. Len(bs)
      /\ ds \in Seq(Seq(Byte)) /\ DOMAIN ds = 1 .. Len(ds)
  BY <1>2, <1>4, LenProperties DEF AreBlocks
<1>9. ASSUME NEW k \in 1 .. Len(bs) PROVE EncodeBlock(ds[k]) = bs[k]
  <2>1. bs[k] \in Seq(S)
    BY <1>8, ElementOfSeq
  <2>2. DecodeBlock(bs[k]) # Refused /\ ds[k] = DecodeBlock(bs[k])
    BY <1>4, <1>5, <1>8
  <2>3. PICK size \in 1 .. FullBytes :
          /\ EncSizes[size] = Len(bs[k])
          /\ (size = FullBytes => HasDigits(Number(bs[k], Base), Radix, size)) =>
               EncodeBlock(ds[k]) = bs[k]
    BY <2>1, <2>2, BlockDecoded
  <2>4. size = FullBytes => HasDigits(Number(bs[k], Base), Radix, size)
    <3>1. size = FullBytes => Len(bs[k]) = FullChars
      BY <2>3 DEF FullChars
    <3> QED
      BY <1>3, <1>8, <3>1
  <2> QED
    BY <2>3, <2>4
<1>10. es = bs
  <2>1. es = [k \in 1 .. Len(bs) |-> bs[k]]
    BY <1>4, <1>8, <1>9
  <2>2. bs = [k \in 1 .. Len(bs) |-> bs[k]]
    BY <1>8
  <2> QED
    BY <2>1, <2>2
<1> QED
  BY <1>2, <1>7, <1>10

-----------------------------------------------------------------------------
(* Addresses as they are written.                                          *)

(* A sequence of bytes, counted.                                           *)
LEMMA BytesAre ==
  ASSUME NEW n \in Nat
  PROVE  /\ \A b \in Seq(Byte) : Len(b) = n => b \in Bytes(n)
         /\ \A b \in Bytes(n) : b \in Seq(Byte) /\ Len(b) = n
<1>1. ASSUME NEW b \in Seq(Byte), Len(b) = n PROVE b \in Bytes(n)
  BY <1>1, LenProperties DEF Bytes, Byte
<1>2. ASSUME NEW b \in Bytes(n) PROVE b \in Seq(Byte) /\ Len(b) = n
  <2>1. b = [i \in 1 .. n |-> b[i]] /\ \A i \in 1 .. n : b[i] \in Byte
    BY DEF Bytes, Byte
  <2> QED
    BY <2>1
<1> QED
  BY <1>1, <1>2

(* A block that is written is decoded.                                     *)
LEMMA BlockEncoded ==
  ASSUME NEW bytes \in Seq(Byte), Len(bytes) \in 1 .. FullBytes
  PROVE  /\ EncodeBlock(bytes) \in Seq(Char) /\ Len(EncodeBlock(bytes)) = EncSizes[Len(bytes)]
         /\ DecodeBlock(EncodeBlock(bytes)) = bytes /\ bytes # Refused
<1> DEFINE n     == Len(bytes)
           v     == Number(bytes, Radix)
           block == EncodeBlock(bytes)
           sizes == {i \in DOMAIN EncSizes : EncSizes[i] = Len(block)}
<1>1. v \in Nat /\ HasDigits(v, Radix, n) /\ Digits(v, Radix, n) = bytes
  <2>1. Radix \in Nat \ {0}
    BY Sizes
  <2> QED
    BY <2>1, DigitsOfNumber DEF Byte
<1>2. HasDigits(v, Base, EncSizes[n])
  <2>1. n \in Nat /\ n \in DOMAIN EncSizes
    BY Sizes
  <2>2. bytes \in Bytes(n)
    BY <2>1, BytesAre
  <2> QED
    BY <2>1, <2>2, EncodingAssumption DEF EncodingAssumption
<1>3. block = Digits(v, Base, EncSizes[n])
  BY DEF EncodeBlock
<1>4. n \in 1 .. FullBytes /\ bytes # Refused
  <2>1. bytes[1] \in Byte
    BY LenProperties, ElementOfSeq
  <2>2. bytes[1] # -1
    BY <2>1, Sizes DEF Byte
  <2> QED
    BY <2>2 DEF Refused
<1> HIDE DEF n, v, block
<1>5. EncSizes[n] \in Nat /\ Base \in Nat \ {0}
  BY <1>4, Sizes
<1>6. block \in Seq(Char) /\ Len(block) = EncSizes[n]
  BY <1>1, <1>3, <1>5, DigitsAre DEF Char
<1>7. Number(block, Base) = v
  BY <1>1, <1>2, <1>3, <1>5, NumberOfDigits
<1>8. n \in sizes /\ \A i \in sizes : i = n
  <2>1. n \in DOMAIN EncSizes
    BY <1>4, Sizes
  <2>2. ASSUME NEW i \in sizes PROVE i = n
    <3>1. i \in 1 .. FullBytes /\ EncSizes[i] = EncSizes[n]
      BY <1>6, Sizes
    <3> QED
      BY <1>4, <3>1, Sizes
  <2> QED
    BY <1>6, <2>1, <2>2
<1>9. (CHOOSE i \in sizes : TRUE) = n /\ sizes # {}
  BY <1>8
<1>10. \A i \in DOMAIN block : block[i] \in Char
  BY <1>6, LenProperties, ElementOfSeq
<1>11. Fits(v, n)
  BY <1>1 DEF Fits
<1>12. DecodeBlock(block) = Digits(v, Radix, n)
  BY <1>7, <1>9, <1>10, <1>11 DEF DecodeBlock, Char
<1> QED
  BY <1>1, <1>4, <1>6, <1>12 DEF n, block

(* What is written is decoded, and is as long as its bytes say.            *)
LEMMA EncodedBack ==
  ASSUME NEW b \in Seq(Byte), b # <<>>
  PROVE  /\ Base58Decode(Encode(b)) = b /\ b # Refused
         /\ Len(Encode(b)) = EncodedLength(Len(b))
<1> DEFINE bs   == Blocks(b, FullBytes)
           es   == [k \in DOMAIN bs |-> EncodeBlock(bs[k])]
           text == Encode(b)
<1>1. FullBytes \in Nat \ {0} /\ FullChars \in Nat \ {0}
  BY Sizes
<1>2. AreBlocks(bs, FullBytes, Byte) /\ AreBlocksOf(bs, b, FullBytes) /\ FlattenSeq(bs) = b
  BY <1>1, BlocksCut, FlattenBlocks
<1>3. text = FlattenSeq(es)
  BY DEF Encode
<1>4. es = [k \in DOMAIN bs |-> EncodeBlock(bs[k])]
  OBVIOUS
<1> HIDE DEF bs, es
<1>5. bs \in Seq(Seq(Byte)) /\ Len(bs) \in Nat /\ DOMAIN bs = 1 .. Len(bs)
  BY <1>2, LenProperties DEF AreBlocks
<1>6. ASSUME NEW k \in 1 .. Len(bs)
      PROVE  /\ es[k] = EncodeBlock(bs[k]) /\ es[k] \in Seq(Char)
             /\ Len(es[k]) = EncSizes[Len(bs[k])] /\ Len(es[k]) \in 1 .. FullChars
             /\ k \in 1 .. Len(bs) - 1 => Len(es[k]) = FullChars
             /\ DecodeBlock(es[k]) = bs[k] /\ bs[k] # Refused
  <2>1. bs[k] \in Seq(Byte) /\ Len(bs[k]) \in 1 .. FullBytes
    BY <1>2, <1>5, ElementOfSeq DEF AreBlocks
  <2>2. es[k] = EncodeBlock(bs[k])
    BY <1>4, <1>5
  <2>3. /\ es[k] \in Seq(Char) /\ Len(es[k]) = EncSizes[Len(bs[k])]
        /\ DecodeBlock(es[k]) = bs[k] /\ bs[k] # Refused
    BY <2>1, <2>2, BlockEncoded
  <2>4. k \in 1 .. Len(bs) - 1 => Len(bs[k]) = FullBytes
    BY <1>2 DEF AreBlocks
  <2>5. EncSizes[Len(bs[k])] \in 1 .. FullChars /\ EncSizes[FullBytes] = FullChars
    BY <2>1, Sizes DEF FullChars
  <2> QED
    BY <2>2, <2>3, <2>4, <2>5
<1>7. es \in Seq(Seq(Char)) /\ Len(es) = Len(bs)
  <2>1. es = [k \in 1 .. Len(bs) |-> es[k]]
    BY <1>4, <1>5
  <2>2. [k \in 1 .. Len(bs) |-> es[k]] \in Seq(Seq(Char))
    BY <1>5, <1>6
  <2>3. Len([k \in 1 .. Len(bs) |-> es[k]]) = Len(bs)
    BY <1>5
  <2> QED
    BY <2>1, <2>2, <2>3
<1>8. AreBlocks(es, FullChars, Char)
  BY <1>6, <1>7 DEF AreBlocks
<1>9. Blocks(text, FullChars) = es
  BY <1>1, <1>3, <1>8, BlocksFlatten
<1>10. AreBlocksOf(es, text, FullChars)
  BY <1>1, <1>3, <1>8, FlattenCut
<1>11. Base58Decode(text) = b
  <2> DEFINE ds == [k \in DOMAIN es |-> DecodeBlock(es[k])]
  <2>1. DOMAIN es = 1 .. Len(bs)
    BY <1>7, LenProperties
  <2>2. ds = [k \in 1 .. Len(bs) |-> bs[k]]
    BY <1>6, <2>1
  <2>3. ds = bs
    BY <1>5, <2>2
  <2>4. \A k \in DOMAIN ds : ds[k] # Refused
    BY <1>5, <1>6, <2>3
  <2>5. Base58Decode(text) = FlattenSeq(ds)
    BY <1>9, <2>4 DEF Base58Decode
  <2> QED
    BY <1>2, <2>3, <2>5
<1>12. b # Refused
  <2>1. Len(b) \in Nat \ {0} /\ b[1] \in Byte
    BY LenProperties, ElementOfSeq, EmptySeq
  <2>2. b[1] # -1
    BY <2>1, Sizes DEF Byte
  <2> QED
    BY <2>2 DEF Refused
<1>13. Len(text) = EncodedLength(Len(b))
  <2> DEFINE m == Len(bs) - 1
             r == Len(bs[Len(bs)])
  <2>1. Len(b) \in Nat \ {0}
    BY LenProperties, EmptySeq
  <2>2. m \in Nat /\ r \in 1 .. FullBytes /\ Len(b) = m * FullBytes + r /\ Len(bs) = m + 1
    <3>1. Len(bs) # 0
      BY <1>2, <2>1 DEF AreBlocksOf
    <3>2. Len(bs) \in 1 .. Len(bs)
      BY <1>5, <3>1
    <3>3. r \in 1 .. FullBytes
      BY <1>2, <3>2 DEF AreBlocks
    <3>4. Len(b) = m * FullBytes + r
      BY <1>2, <3>1 DEF AreBlocksOf
    <3> QED
      BY <1>5, <3>1, <3>3, <3>4
  <2>3. Len(text) = m * FullChars + EncSizes[r]
    <3>1. Len(bs) \in 1 .. Len(bs) /\ Len(es) # 0
      BY <1>7, <2>2
    <3>2. Len(es[Len(bs)]) = EncSizes[r]
      BY <1>6, <3>1
    <3> QED
      BY <1>7, <1>10, <3>1, <3>2 DEF AreBlocksOf
  <2> HIDE DEF m, r
  <2>4. m * FullBytes \in Nat /\ r - 1 \in 0 .. FullBytes - 1
    BY <1>1, <2>2
  <2>5. (m * FullBytes + (r - 1)) \div FullBytes = m
    BY <1>1, <2>2, <2>4, Quotient
  <2>6. Len(b) - 1 = m * FullBytes + (r - 1) /\ Len(b) - m * FullBytes = r
    BY <1>1, <2>2, <2>4
  <2>7. (Len(b) - 1) \div FullBytes = m
    BY <2>5, <2>6
  <2> QED
    BY <2>3, <2>6, <2>7 DEF EncodedLength
<1> QED
  BY <1>11, <1>12, <1>13

(* Fewer steps of shifting give the same values.                           *)
LEMMA ShiftedLess ==
  ASSUME NEW v \in Nat, NEW base \in Nat \ {0}, NEW most \in Nat, NEW n \in 0 .. most
  PROVE  \A k \in 0 .. n : Shifted(v, base, n)[k] = Shifted(v, base, most)[k]
<1> DEFINE s == Shifted(v, base, n)
           t == Shifted(v, base, most)
           T == {k \in 0 .. n : s[k] = t[k]}
<1>1. s[0] = v /\ \A k \in 1 .. n : s[k] = s[k - 1] \div base
  BY ShiftedSteps
<1>2. t[0] = v /\ \A k \in 1 .. most : t[k] = t[k - 1] \div base
  BY ShiftedSteps
<1> HIDE DEF s, t
<1>3. 0 \in T
  BY <1>1, <1>2
<1>4. \A k \in 1 .. n : k - 1 \in T => k \in T
  BY <1>1, <1>2
<1> HIDE DEF T
<1>5. 0 .. n \subseteq T
  BY <1>3, <1>4, UpTo
<1> QED
  BY <1>5 DEF T, s, t

LEMMA LowIs == Low \in Nat \ {0} /\ 2 * Low <= Radix /\ Radix \in Nat
<1>1. Radix \in Nat /\ Radix > 1
  BY AddressAssumption DEF AddressAssumption
<1> QED
  BY <1>1 DEF Low

(* The shortest varint of a number that has one: high bytes, then a low    *)
(* one, that hold the number's digits.                                     *)
LEMMA VarintIs ==
  ASSUME NEW v \in Nat, HasDigits(v, Low, VarintBytes)
  PROVE  \E n \in 1 .. VarintBytes :
           /\ Varint(v) \in Seq(Byte) /\ Len(Varint(v)) = n /\ HasDigits(v, Low, n)
           /\ \A i \in 1 .. n : /\ Continues(Varint(v)[i]) <=> i < n
                                /\ Varint(v)[i] % Low = Digits(v, Low, n)[n + 1 - i]
<1> DEFINE rest == Shifted(v, Low, VarintBytes)
           ends == {k \in 1 .. VarintBytes : rest[k] = 0}
           IsEnd(k) == rest[k] = 0 /\ (k = 1 \/ rest[k - 1] # 0)
           n    == CHOOSE k \in 1 .. VarintBytes : IsEnd(k)
           x    == [i \in 1 .. n |-> (rest[i - 1] % Low) + (IF i < n THEN Low ELSE 0)]
<1>1. VarintBytes \in Nat \ {0}
  BY AddressAssumption DEF AddressAssumption
<1>2. rest \in [0 .. VarintBytes -> Nat]
  BY <1>1, LowIs, ShiftedSteps
<1>3. rest[VarintBytes] = 0
  BY DEF HasDigits
<1>4. \A k \in 1 .. VarintBytes : Shifted(v, Low, k)[k] = rest[k]
  <2>1. ASSUME NEW k \in 1 .. VarintBytes PROVE Shifted(v, Low, k)[k] = rest[k]
    <3>1. k \in 0 .. VarintBytes /\ k \in 0 .. k /\ VarintBytes \in Nat
      BY <1>1
    <3> QED
      BY <3>1, LowIs, ShiftedLess
  <2> QED
    BY <2>1
<1>5. Varint(v) = x
  BY DEF Varint
<1>6. \A k \in 1 .. VarintBytes : \A i \in 1 .. k : Digits(v, Low, k)[k + 1 - i] = rest[i - 1] % Low
  <2>1. ASSUME NEW k \in 1 .. VarintBytes, NEW i \in 1 .. k
        PROVE  Digits(v, Low, k)[k + 1 - i] = rest[i - 1] % Low
    <3>1. /\ k \in Nat /\ k \in 0 .. VarintBytes /\ VarintBytes \in Nat /\ i - 1 \in 0 .. k
          /\ k + 1 - i \in 1 .. k /\ k - (k + 1 - i) = i - 1
      BY <1>1
    <3>2. Digits(v, Low, k)[k + 1 - i] = Shifted(v, Low, k)[k - (k + 1 - i)] % Low
      BY <3>1, LowIs, DigitsAre
    <3>3. Shifted(v, Low, k)[i - 1] = rest[i - 1]
      BY <3>1, LowIs, ShiftedLess
    <3> QED
      BY <3>1, <3>2, <3>3
  <2> QED
    BY <2>1
<1> HIDE DEF rest
<1>7. \E k \in 1 .. VarintBytes : IsEnd(k)
  <2>1. VarintBytes \in ends /\ ends \subseteq Nat
    BY <1>1, <1>3
  <2>2. PICK k \in ends : \A j \in ends : k <= j
    BY <2>1, LeastNumber
  <2>3. k \in 1 .. VarintBytes /\ rest[k] = 0
    BY <2>2
  <2>4. k # 1 => k - 1 \in 1 .. VarintBytes /\ k - 1 \notin ends
    BY <1>1, <2>2, <2>3
  <2>5. IsEnd(k)
    BY <2>3, <2>4
  <2> QED
    BY <2>3, <2>5
<1>8. n \in 1 .. VarintBytes /\ IsEnd(n)
  <2> HIDE DEF IsEnd
  <2> QED
    BY <1>7
<1> HIDE DEF n
<1>9. n \in Nat /\ HasDigits(v, Low, n)
  BY <1>1, <1>4, <1>8 DEF HasDigits
<1>10. ASSUME NEW i \in 1 .. n
       PROVE  /\ x[i] \in Byte /\ (Continues(x[i]) <=> i < n)
              /\ x[i] % Low = rest[i - 1] % Low
  <2>1. rest[i - 1] \in Nat
    <3>1. i - 1 \in 0 .. VarintBytes
      BY <1>1, <1>8
    <3> QED
      BY <1>2, <3>1
  <2> DEFINE d == rest[i - 1] % Low
  <2>2. d \in 0 .. Low - 1 /\ Low \in Nat
    BY <2>1, LowIs
  <2>3. x[i] = d + (IF i < n THEN Low ELSE 0)
    OBVIOUS
  <2> HIDE DEF d, x
  <2>4. x[i] \in Byte /\ (Continues(x[i]) <=> i < n)
    BY <2>2, <2>3, LowIs DEF Byte, Continues
  <2>5. d % Low = d /\ (d + Low) % Low = d
    <3>1. (0 * Low + d) % Low = d /\ (1 * Low + d) % Low = d
      BY <2>2, LowIs, Quotient
    <3> QED
      BY <2>2, <3>1
  <2>6. x[i] % Low = d
    BY <2>2, <2>3, <2>5
  <2> QED
    BY <2>4, <2>6 DEF d
<1>11. x \in Seq(Byte) /\ Len(x) = n
  BY <1>9, <1>10
<1>12. \A i \in 1 .. n : x[i] % Low = Digits(v, Low, n)[n + 1 - i]
  BY <1>6, <1>8, <1>10
<1> HIDE DEF x
<1> QED
  BY <1>5, <1>8, <1>9, <1>10, <1>11, <1>12

(* A varint at the start of a text is read.                                *)
LEMMA VarintRead ==
  ASSUME NEW v \in 0 .. Word - 1, HasDigits(v, Low, VarintBytes), NEW more \in Seq(Byte)
  PROVE  /\ Varint(v) \in Seq(Byte) /\ Len(Varint(v)) \in 1 .. VarintBytes
         /\ ReadVarint(Varint(v) \o more) = [value |-> v, bytes |-> Len(Varint(v))]
<1> DEFINE x    == Varint(v)
           b    == x \o more
           ends == {i \in 1 .. VarintBytes : i <= Len(b) /\ ~Continues(b[i])}
           end  == CHOOSE i \in ends : \A j \in ends : i <= j
<1>1. v \in Nat /\ v % Word = v
  <2>1. Word \in Nat
    BY AddressAssumption DEF AddressAssumption
  <2>2. Word \in Nat \ {0}
    BY <2>1
  <2>3. (0 * Word + v) % Word = v
    BY <2>2, Quotient
  <2> QED
    BY <2>1, <2>3
<1>2. PICK n \in 1 .. VarintBytes :
        /\ x \in Seq(Byte) /\ Len(x) = n /\ HasDigits(v, Low, n)
        /\ \A i \in 1 .. n : (Continues(x[i]) <=> i < n) /\ x[i] % Low = Digits(v, Low, n)[n + 1 - i]
  BY <1>1, VarintIs
<1>3. VarintBytes \in Nat /\ Low \in Nat \ {0}
  BY LowIs, AddressAssumption DEF AddressAssumption
<1> HIDE DEF x
<1>4. Len(b) \in Nat /\ n <= Len(b) /\ \A i \in 1 .. n : b[i] = x[i]
  <2>1. Len(more) \in Nat /\ Len(b) = Len(x) + Len(more)
    BY <1>2, Joined
  <2>2. \A i \in 1 .. Len(x) : b[i] = x[i]
    BY <1>2, Joined
  <2> HIDE DEF b
  <2> QED
    BY <1>2, <2>1, <2>2
<1> HIDE DEF b
<1>5. n \in ends /\ \A j \in ends : n <= j
  <2>1. n \in ends
    BY <1>2, <1>4
  <2>2. ASSUME NEW j \in ends, j < n PROVE FALSE
    <3>1. j \in 1 .. n /\ ~Continues(b[j])
      BY <1>2, <2>2
    <3> QED
      BY <1>2, <1>4, <2>2, <3>1
  <2> QED
    BY <1>2, <2>1, <2>2
<1>6. end = n /\ ends # {}
  <2>1. \A i \in ends : (\A j \in ends : i <= j) => i = n
    BY <1>5
  <2> HIDE DEF ends
  <2> QED
    BY <1>5, <2>1
<1>7. [i \in 1 .. n |-> b[n + 1 - i] % Low] = Digits(v, Low, n)
  <2> DEFINE d == Digits(v, Low, n)
  <2>1. d \in Seq(0 .. Low - 1) /\ Len(d) = n
    BY <1>1, <1>2, <1>3, DigitsAre
  <2> HIDE DEF d
  <2>2. ASSUME NEW i \in 1 .. n PROVE b[n + 1 - i] % Low = d[i]
    <3>1. n + 1 - i \in 1 .. n /\ n + 1 - (n + 1 - i) = i
      BY <1>2
    <3> QED
      BY <1>2, <1>4, <3>1 DEF d
  <2>3. d = [i \in 1 .. n |-> d[i]]
    BY <2>1, LenProperties
  <2> QED
    BY <2>2, <2>3 DEF d
<1>8. Number(Digits(v, Low, n), Low) = v
  BY <1>1, <1>2, <1>3, NumberOfDigits
<1>9. ReadVarint(b) = [value |-> v, bytes |-> n]
  BY <1>1, <1>6, <1>7, <1>8 DEF ReadVarint
<1> QED
  BY <1>2, <1>9 DEF b, x

(* The kinds of addresses, and what an address of each is written from.    *)
DataOf(kind) == IF kind = 3 THEN KeyBytes + IdBytes ELSE KeyBytes

LEMMA AddressKinds ==
  ASSUME NEW network, NEW t
  PROVE  t \in Addresses(network) <=>
           \E kind \in 1 .. 3 : \E data \in Bytes(DataOf(kind)) : t = AddressText(network, kind, data)
<1> DEFINE Text(kind, data) == AddressText(network, kind, data)
<1>1. t \in Addresses(network) <=>
        \/ \E kind \in {1, 2} : \E data \in Bytes(KeyBytes) : t = Text(kind, data)
        \/ \E data \in Bytes(KeyBytes + IdBytes) : t = Text(3, data)
  BY DEF Addresses
<1>2. DataOf(1) = KeyBytes /\ DataOf(2) = KeyBytes /\ DataOf(3) = KeyBytes + IdBytes
  BY DEF DataOf
<1>3. 1 .. 3 = {1, 2} \cup {3}
  OBVIOUS
<1> HIDE DEF Text
<1> QED
  BY <1>1, <1>2, <1>3 DEF Text

LEMMA PrefixIs ==
  ASSUME NEW network, KnownNetwork(network), NEW kind \in 1 .. 3
  PROVE  /\ PrefixesOf(network)[kind] \in 0 .. Word - 1
         /\ HasDigits(PrefixesOf(network)[kind], Low, VarintBytes)
<1>1. \E n \in DOMAIN AddressPrefixes : PrefixesOf(network) = AddressPrefixes[n]
  BY EncodingAssumption DEF EncodingAssumption, PrefixesOf, KnownNetwork
<1> QED
  BY <1>1, EncodingAssumption DEF EncodingAssumption

(* The parts of what is written, and of what is read.                      *)
LEMMA CutAfter ==
  ASSUME NEW S, NEW s \in Seq(S), NEW t \in Seq(S)
  PROVE  SubSeq(s \o t, 1, Len(s)) = s /\ SubSeq(s \o t, Len(s) + 1, Len(s \o t)) = t
  OBVIOUS

LEMMA CutAndJoined ==
  ASSUME NEW S, NEW s \in Seq(S), NEW i \in 0 .. Len(s), NEW j \in i .. Len(s)
  PROVE  /\ SubSeq(s, i + 1, j) \in Seq(S) /\ Len(SubSeq(s, i + 1, j)) = j - i
         /\ SubSeq(s, 1, i) \o SubSeq(s, i + 1, j) = SubSeq(s, 1, j)
  OBVIOUS

(* Every address is valid.                                                 *)
LEMMA AddressIsValid ==
  ASSUME NEW network, KnownNetwork(network), NEW kind \in 1 .. 3,
         NEW data \in Bytes(DataOf(kind))
  PROVE  Valid(AddressText(network, kind, data), network)
<1> DEFINE v      == PrefixesOf(network)[kind]
           prefix == Varint(v)
           body   == prefix \o data
           digest == Digest(body)
           b      == body \o digest
           text   == AddressText(network, kind, data)
           n      == Len(prefix)
<1>1. /\ KeyBytes \in Nat /\ IdBytes \in Nat /\ CheckBytes \in Nat \ {0} /\ VarintBytes \in Nat
      /\ DataOf(kind) \in Nat
  BY AddressAssumption DEF AddressAssumption, DataOf
<1>2. v \in 0 .. Word - 1 /\ HasDigits(v, Low, VarintBytes)
  BY PrefixIs
<1>3. data \in Seq(Byte) /\ Len(data) = DataOf(kind)
  BY <1>1, BytesAre
<1>4. text = Encode(b)
  BY DEF AddressText
<1> HIDE DEF v, text
<1>5. prefix \in Seq(Byte) /\ n \in 1 .. VarintBytes
  BY <1>2, <1>3, VarintRead
<1> HIDE DEF prefix
<1>6. body \in Seq(Byte) /\ Len(body) = n + DataOf(kind)
  BY <1>3, <1>5, Joined
<1> HIDE DEF body
<1>7. digest \in Seq(Byte) /\ Len(digest) = CheckBytes
  <2>1. Len(body) \in 1 .. VarintBytes + KeyBytes + IdBytes
    BY <1>1, <1>5, <1>6 DEF DataOf
  <2>2. body \in Bytes(Len(body))
    BY <1>6, <2>1, BytesAre
  <2>3. digest \in Bytes(CheckBytes)
    BY <2>1, <2>2, EncodingAssumption DEF EncodingAssumption
  <2> QED
    BY <1>1, <2>3, BytesAre
<1> HIDE DEF digest
<1>8. b \in Seq(Byte) /\ Len(b) = (n + DataOf(kind)) + CheckBytes
  BY <1>6, <1>7, Joined
<1>9. SubSeq(b, 1, Len(body)) = body /\ SubSeq(b, Len(body) + 1, Len(b)) = digest
  BY <1>6, <1>7, CutAfter
<1>10. ReadVarint(b) = [value |-> v, bytes |-> n]
  <2> DEFINE more == data \o digest
  <2>1. more \in Seq(Byte)
    BY <1>3, <1>7, Joined
  <2>2. Regroups(prefix, data, digest)
    BY <1>3, <1>5, <1>7, Regrouped
  <2>3. b = prefix \o more
    BY <2>2 DEF Regroups, body
  <2> HIDE DEF more, b
  <2>4. ReadVarint(prefix \o more) = [value |-> v, bytes |-> n]
    BY <1>2, <2>1, VarintRead DEF prefix
  <2> QED
    BY <2>3, <2>4
<1> HIDE DEF b
<1>11. /\ Base58Decode(text) = b /\ b # Refused
       /\ Len(text) = EncodedLength(Len(b))
  <2>1. b # <<>>
    BY <1>1, <1>5, <1>8, LenProperties
  <2> QED
    BY <1>4, <1>8, <2>1, EncodedBack
<1>12. Len(text) >= MinChars
  <2>1. DataOf(kind) \in {KeyBytes, KeyBytes + IdBytes}
    BY DEF DataOf
  <2>2. EncodedLength((n + DataOf(kind)) + CheckBytes) >= MinChars
    BY <1>5, <2>1, EncodingAssumption DEF EncodingAssumption
  <2> QED
    BY <1>8, <1>11, <2>2
<1>13. Len(b) >= CheckBytes /\ n > 0 /\ Len(b) - CheckBytes = n + DataOf(kind)
  BY <1>1, <1>5, <1>8
<1>14. BodyFits(v, n + DataOf(kind), n, network)
  <2>1. n + KeyBytes + IdBytes = n + (KeyBytes + IdBytes)
    BY <1>1, <1>5
  <2>2. kind \in {1, 2} \/ kind = 3
    OBVIOUS
  <2> QED
    BY <2>1, <2>2 DEF BodyFits, DataOf, v
<1>15. Digest(SubSeq(b, 1, Len(b) - CheckBytes)) = SubSeq(b, Len(b) - CheckBytes + 1, Len(b))
  BY <1>6, <1>9, <1>13 DEF digest
<1>16. Valid(text, network)
  BY <1>10, <1>11, <1>12, <1>13, <1>14, <1>15 DEF Valid
<1> QED
  BY <1>16 DEF text

(* What is read as a varint is there.                                      *)
LEMMA VarintIsThere ==
  ASSUME NEW b \in Seq(Byte)
  PROVE  ReadVarint(b).bytes \in 0 .. Len(b)
<1> DEFINE ends == {i \in 1 .. VarintBytes : i <= Len(b) /\ ~Continues(b[i])}
           n    == CHOOSE i \in ends : \A j \in ends : i <= j
<1>1. VarintBytes \in Nat /\ Len(b) \in Nat
  BY AddressAssumption, LenProperties DEF AddressAssumption
<1>2. ends \subseteq Nat /\ \A i \in ends : i \in 1 .. Len(b)
  BY <1>1
<1>3. ends = {} => ReadVarint(b) = NoVarint
  BY DEF ReadVarint
<1>4. ends # {} => ReadVarint(b).bytes = n
  BY DEF ReadVarint
<1> HIDE DEF ends
<1>5. ends # {} => n \in ends
  BY <1>2, LeastNumber
<1>6. NoVarint.bytes = 0
  BY DEF NoVarint
<1> HIDE DEF n
<1>7. CASE ends = {}
  BY <1>1, <1>3, <1>6, <1>7
<1>8. CASE ends # {}
  <2>1. n \in 1 .. Len(b)
    BY <1>2, <1>5, <1>8
  <2> QED
    BY <1>1, <1>4, <1>8, <2>1
<1> QED
  BY <1>7, <1>8

(* A valid text is an address, unless a block of it is cut or its prefix   *)
(* is longer than it need be.                                              *)
LEMMA ValidIsWritten ==
  ASSUME NEW S, NEW text \in Seq(S), NEW network,
         Valid(text, network), ~Wraps(text), ~Overlong(text)
  PROVE  text \in Addresses(network)
<1> DEFINE b      == Base58Decode(text)
           prefix == ReadVarint(b)
           v      == prefix.value
           n      == prefix.bytes
           body   == Len(b) - CheckBytes
           front  == SubSeq(b, 1, body)
<1>1. /\ b # Refused /\ Len(b) >= CheckBytes /\ n > 0
      /\ BodyFits(v, body, n, network)
      /\ Digest(front) = SubSeq(b, body + 1, Len(b))
  BY DEF Valid
<1>2. SubSeq(b, 1, n) = Varint(v)
  BY <1>1 DEF Overlong
<1>3. Encode(b) = text
  BY <1>1, DecodedBack
<1>4. b \in Seq(Byte)
  <2>1. AreBlocks(Decoded(text), FullBytes, Byte) /\ b = FlattenSeq(Decoded(text))
    BY <1>1, TextDecoded
  <2>2. FullBytes \in Nat \ {0}
    BY Sizes
  <2> QED
    BY <2>1, <2>2, FlattenCut
<1>5. n \in Nat /\ n <= Len(b) /\ Len(b) \in Nat /\ CheckBytes \in Nat /\ KeyBytes \in Nat /\ IdBytes \in Nat
  BY <1>4, VarintIsThere, LenProperties, AddressAssumption DEF AddressAssumption
<1>6. PICK kind \in 1 .. 3 : v = PrefixesOf(network)[kind] /\ body = n + DataOf(kind)
  <2>1. 1 \in 1 .. 3 /\ 2 \in 1 .. 3 /\ 3 \in 1 .. 3
    OBVIOUS
  <2>2. DataOf(1) = KeyBytes /\ DataOf(2) = KeyBytes /\ DataOf(3) = KeyBytes + IdBytes
    BY DEF DataOf
  <2> HIDE DEF v, n, body
  <2>3. (n + KeyBytes) + IdBytes = n + (KeyBytes + IdBytes)
    BY <1>5
  <2> QED
    BY <1>1, <2>1, <2>2, <2>3 DEF BodyFits
<1>7. DataOf(kind) \in Nat
  BY <1>5 DEF DataOf
<1> DEFINE data == SubSeq(b, n + 1, body)
<1> HIDE DEF b, v, n
<1>8. n \in 0 .. Len(b) /\ body \in n .. Len(b)
  BY <1>5, <1>6, <1>7
<1> HIDE DEF body
<1>9. /\ data \in Seq(Byte) /\ Len(data) = DataOf(kind)
      /\ SubSeq(b, 1, n) \o data = front
  <2>1. /\ data \in Seq(Byte) /\ Len(data) = body - n
        /\ SubSeq(b, 1, n) \o data = front
    BY <1>4, <1>8, CutAndJoined
  <2> HIDE DEF data, front
  <2>2. body - n = DataOf(kind)
    BY <1>5, <1>6, <1>7
  <2> QED
    BY <2>1, <2>2
<1>10. data \in Bytes(DataOf(kind))
  BY <1>7, <1>9, BytesAre
<1>11. front \o SubSeq(b, body + 1, Len(b)) = b
  <2>1. body \in 0 .. Len(b) /\ Len(b) \in body .. Len(b)
    BY <1>5, <1>8
  <2>2. front \o SubSeq(b, body + 1, Len(b)) = SubSeq(b, 1, Len(b))
    BY <1>4, <2>1, CutAndJoined
  <2>3. SubSeq(b, 1, Len(b)) = b
    BY <1>4
  <2> QED
    BY <2>2, <2>3
<1>12. text = AddressText(network, kind, data)
  <2>1. Varint(PrefixesOf(network)[kind]) \o data = front
    BY <1>2, <1>6, <1>9
  <2>2. front \o Digest(front) = b
    BY <1>1, <1>11
  <2> QED
    BY <1>3, <2>1, <2>2 DEF AddressText
<1> QED
  BY <1>10, <1>12, AddressKinds
=============================================================================
