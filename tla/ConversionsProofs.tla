-------------------------- MODULE ConversionsProofs --------------------------
(***************************************************************************)
(* Play times survive, for every time: FormatNPTTime and ParseNPTTime are  *)
(* taken apart into digits, numbers, fields and texts. With the ids of     *)
(* FolderBrowserProofs.                                                    *)
(***************************************************************************)
EXTENDS Conversions, FolderBrowserProofs

-----------------------------------------------------------------------------
(* The value of digits.                                                    *)

(* The m digits of t from i on, and what ParseNPTTime reads in them.       *)
AreDigits(t, i, m) == \A k \in 0 .. m - 1 : t[i + k] \in 0 .. 9

Number(t, i, m) == Value(t, i, i + m)

(* What f has read after the first, second, ... of these digits.           *)
Reads(f, t, i, m) ==
  /\ f \in [0 .. m -> Nat]
  /\ f[0] = 0
  /\ \A k \in 1 .. m : f[k] = 10 * f[k - 1] + t[i + k - 1]

(* The function that Value is defined by exists.                           *)
LEMMA NumberRun ==
  ASSUME NEW t, NEW i \in Nat, NEW m \in Nat, AreDigits(t, i, m)
  PROVE  \E f : Reads(f, t, i, m) /\ Number(t, i, m) = f[m]
  <1> DEFINE step == [x \in (1 .. m) \X Nat |-> 10 * x[2] + t[i + x[1] - 1]]
             Turn(f, k) == IF k = i THEN 0 ELSE 10 * f[k - 1] + t[k - 1]
             Solves(f) == f = [k \in i .. i + m |-> Turn(f, k)]
             result == CHOOSE f : Solves(f)
  <1>1. \A k \in 1 .. m : t[i + k - 1] \in 0 .. 9
    <2>1. \A k \in 1 .. m : k - 1 \in 0 .. m - 1 /\ i + (k - 1) = i + k - 1
      OBVIOUS
    <2>2. QED
      BY <2>1 DEF AreDigits
  <1>2. step \in Steps(m, Nat)
    <2>1. ASSUME NEW x \in (1 .. m) \X Nat
          PROVE  10 * x[2] + t[i + x[1] - 1] \in Nat
      <3>1. x[1] \in 1 .. m /\ x[2] \in Nat
        OBVIOUS
      <3>2. t[i + x[1] - 1] \in 0 .. 9
        BY <1>1, <3>1
      <3>3. QED
        BY <3>1, <3>2
    <2>2. QED
      BY <2>1 DEF Steps
  <1>3. \A k \in 1 .. m, v \in Nat : step[<<k, v>>] = 10 * v + t[i + k - 1]
    OBVIOUS
  <1> HIDE DEF step
  <1>4. PICK run \in [0 .. m -> Nat] :
          /\ run[0] = 0
          /\ \A k \in 1 .. m : run[k] = step[<<k, run[k - 1]>>]
    <2>1. Runs(m, Nat, 0, step) # {}
      BY <1>2, RunExists
    <2>2. QED
      BY <2>1 DEF Runs
  <1>5. \A k \in 1 .. m : run[k] = 10 * run[k - 1] + t[i + k - 1]
    <2>1. \A k \in 1 .. m : run[k - 1] \in Nat
      OBVIOUS
    <2>2. QED
      BY <1>3, <1>4, <2>1
  <1> DEFINE g == [k \in i .. i + m |-> run[k - i]]
  <1>6. Solves(g)
    <2>1. ASSUME NEW k \in i .. i + m
          PROVE  run[k - i] = Turn(g, k)
      <3>1. CASE k = i
        BY <1>4, <3>1
      <3>2. CASE k # i
        <4>1. k - i \in 1 .. m /\ k - 1 \in i .. i + m
          BY <3>2
        <4>2. run[k - i] = 10 * run[(k - i) - 1] + t[i + (k - i) - 1]
          BY <1>5, <4>1
        <4>3. (k - i) - 1 = (k - 1) - i /\ i + (k - i) - 1 = k - 1
          OBVIOUS
        <4>4. g[k - 1] = run[(k - 1) - i]
          BY <4>1
        <4>5. QED
          BY <3>2, <4>2, <4>3, <4>4
      <3>3. QED
        BY <3>1, <3>2
    <2> HIDE DEF Turn
    <2>2. QED
      BY <2>1
  <1>7. Number(t, i, m) = result[i + m]
    BY DEF Number, Value
  <1>8. Solves(result)
    <2> HIDE DEF Solves
    <2>1. QED
      BY <1>6
  <1> HIDE DEF result, g
  <1> DEFINE h == [k \in 0 .. m |-> result[i + k]]
  <1>9. \A k \in i .. i + m : result[k] = Turn(result, k)
    <2> HIDE DEF Turn
    <2>1. QED
      BY <1>8
  <1> HIDE DEF Solves
  <1>10. h[0] = 0
    <2>1. i \in i .. i + m /\ 0 \in 0 .. m /\ i + 0 = i
      OBVIOUS
    <2>2. QED
      BY <1>9, <2>1
  <1>11. ASSUME NEW k \in 1 .. m
         PROVE  h[k] = 10 * h[k - 1] + t[i + k - 1]
    <2>1. /\ i + k \in i .. i + m /\ i + k # i /\ k \in 0 .. m /\ k - 1 \in 0 .. m
          /\ (i + k) - 1 = i + (k - 1) /\ i + (k - 1) = i + k - 1
      OBVIOUS
    <2>2. result[i + k] = 10 * result[(i + k) - 1] + t[(i + k) - 1]
      BY <1>9, <2>1
    <2>3. QED
      BY <2>1, <2>2
  <1>12. m \in 0 .. m /\ h[m] = result[i + m]
    OBVIOUS
  <1> HIDE DEF h
  <1>13. KeepTogether(m, run, h)
    BY <1>4, <1>5, <1>10, <1>11 DEF KeepTogether
  <1>14. \A k \in 0 .. m : run[k] = h[k]
    BY <1>13, RunsAgree
  <1>15. Reads(run, t, i, m)
    BY <1>4, <1>5 DEF Reads
  <1>16. run[m] = h[m]
    BY <1>12, <1>14
  <1>17. QED
    BY <1>7, <1>12, <1>15, <1>16

LEMMA NumberZero == ASSUME NEW t, NEW i \in Nat PROVE Number(t, i, 0) = 0
  <1>1. AreDigits(t, i, 0)
    BY DEF AreDigits
  <1>2. PICK f : Reads(f, t, i, 0) /\ Number(t, i, 0) = f[0]
    BY <1>1, NumberRun
  <1>3. QED
    BY <1>2 DEF Reads

LEMMA NumberType ==
  ASSUME NEW t, NEW i \in Nat, NEW m \in Nat, AreDigits(t, i, m)
  PROVE  Number(t, i, m) \in Nat
  <1>1. m \in 0 .. m
    OBVIOUS
  <1>2. PICK f : Reads(f, t, i, m) /\ Number(t, i, m) = f[m]
    BY NumberRun
  <1>3. QED
    BY <1>1, <1>2 DEF Reads

(* One digit more.                                                         *)
LEMMA NumberNext ==
  ASSUME NEW t, NEW i \in Nat, NEW m \in Nat, AreDigits(t, i, m + 1)
  PROVE  /\ AreDigits(t, i, m)
         /\ t[i + m] \in 0 .. 9
         /\ Number(t, i, m + 1) = 10 * Number(t, i, m) + t[i + m]
  <1>1. AreDigits(t, i, m) /\ t[i + m] \in 0 .. 9
    BY DEF AreDigits
  <1>2. PICK f : Reads(f, t, i, m) /\ Number(t, i, m) = f[m]
    BY <1>1, NumberRun
  <1>3. PICK g : Reads(g, t, i, m + 1) /\ Number(t, i, m + 1) = g[m + 1]
    BY NumberRun
  <1>4. \A k \in 1 .. m : k \in 1 .. m + 1
    OBVIOUS
  <1>5. KeepTogether(m, f, g)
    BY <1>2, <1>3, <1>4 DEF KeepTogether, Reads
  <1>6. f[m] = g[m]
    BY <1>5, RunsAgree
  <1>7. m + 1 \in 1 .. m + 1 /\ (m + 1) - 1 = m /\ i + (m + 1) - 1 = i + m
    OBVIOUS
  <1>8. QED
    BY <1>1, <1>2, <1>3, <1>6, <1>7 DEF Reads

(* The same digits elsewhere.                                              *)
SameDigits(t, i, u, j, m) == \A k \in 0 .. m - 1 : u[j + k] = t[i + k]

LEMMA NumberMoved ==
  ASSUME NEW t, NEW i \in Nat, NEW u, NEW j \in Nat
  PROVE  \A m \in Nat :
           /\ AreDigits(t, i, m)
           /\ SameDigits(t, i, u, j, m)
           => AreDigits(u, j, m) /\ Number(u, j, m) = Number(t, i, m)
  <1> DEFINE Both(m) == AreDigits(u, j, m) /\ Number(u, j, m) = Number(t, i, m)
             T == {m \in Nat : AreDigits(t, i, m) /\ SameDigits(t, i, u, j, m) => Both(m)}
  <1>1. 0 \in T
    BY NumberZero DEF AreDigits
  <1>2. ASSUME NEW m \in Nat, m \in T
        PROVE  m + 1 \in T
    <2>1. SUFFICES ASSUME AreDigits(t, i, m + 1), SameDigits(t, i, u, j, m + 1)
                   PROVE  Both(m + 1)
      OBVIOUS
    <2>2. AreDigits(u, j, m + 1)
      BY <2>1 DEF AreDigits, SameDigits
    <2>3. SameDigits(t, i, u, j, m) /\ u[j + m] = t[i + m]
      BY <2>1 DEF SameDigits
    <2>4. AreDigits(t, i, m) /\ Number(t, i, m + 1) = 10 * Number(t, i, m) + t[i + m]
      BY <2>1, NumberNext
    <2>5. Number(u, j, m + 1) = 10 * Number(u, j, m) + u[j + m]
      BY <2>2, NumberNext
    <2>6. Number(u, j, m) = Number(t, i, m)
      BY <1>2, <2>3, <2>4
    <2>7. QED
      BY <2>2, <2>3, <2>4, <2>5, <2>6
  <1>3. Nat \subseteq T
    <2> HIDE DEF T
    <2>1. QED
      BY <1>1, <1>2, NatSetInduction
  <1>4. QED
    BY <1>3

(* Leading zeros.                                                          *)
LEMMA NumberAfterZero ==
  ASSUME NEW t, NEW i \in Nat, t[i] = 0
  PROVE  \A m \in Nat : AreDigits(t, i + 1, m) =>
           AreDigits(t, i, m + 1) /\ Number(t, i, m + 1) = Number(t, i + 1, m)
  <1> DEFINE T == {m \in Nat : AreDigits(t, i + 1, m) =>
                     AreDigits(t, i, m + 1) /\ Number(t, i, m + 1) = Number(t, i + 1, m)}
  <1>0. ASSUME NEW m \in Nat, AreDigits(t, i + 1, m)
        PROVE  AreDigits(t, i, m + 1)
    <2> SUFFICES ASSUME NEW k \in 0 .. m PROVE t[i + k] \in 0 .. 9
      BY DEF AreDigits
    <2>1. CASE k = 0
      BY <2>1
    <2>2. CASE k # 0
      <3>1. k - 1 \in 0 .. m - 1 /\ (i + 1) + (k - 1) = i + k
        BY <2>2
      <3>2. QED
        BY <1>0, <3>1 DEF AreDigits
    <2>3. QED
      BY <2>1, <2>2
  <1>1. 0 \in T
    <2> SUFFICES ASSUME AreDigits(t, i + 1, 0)
                 PROVE  AreDigits(t, i, 0 + 1) /\ Number(t, i, 0 + 1) = Number(t, i + 1, 0)
      OBVIOUS
    <2>1. AreDigits(t, i, 0 + 1)
      BY <1>0
    <2>2. Number(t, i, 0 + 1) = 10 * Number(t, i, 0) + t[i + 0]
      <3> DEFINE m == 0
      <3>1. m \in Nat /\ AreDigits(t, i, m + 1)
        BY <2>1
      <3> HIDE DEF m
      <3>2. Number(t, i, m + 1) = 10 * Number(t, i, m) + t[i + m]
        BY <3>1, NumberNext
      <3>3. QED
        BY <3>2 DEF m
    <2>3. Number(t, i, 0) = 0 /\ Number(t, i + 1, 0) = 0 /\ i + 0 = i
      BY NumberZero
    <2>4. QED
      BY <2>1, <2>2, <2>3
  <1>2. ASSUME NEW m \in Nat, m \in T
        PROVE  m + 1 \in T
    <2>1. SUFFICES ASSUME AreDigits(t, i + 1, m + 1)
                   PROVE  /\ AreDigits(t, i, (m + 1) + 1)
                          /\ Number(t, i, (m + 1) + 1) = Number(t, i + 1, m + 1)
      OBVIOUS
    <2>2. AreDigits(t, i, (m + 1) + 1)
      BY <1>0, <2>1
    <2>3. Number(t, i, (m + 1) + 1) = 10 * Number(t, i, m + 1) + t[i + (m + 1)]
      BY <2>2, NumberNext
    <2>4. /\ AreDigits(t, i + 1, m)
          /\ Number(t, i + 1, m + 1) = 10 * Number(t, i + 1, m) + t[(i + 1) + m]
      <3> DEFINE j == i + 1
      <3>1. j \in Nat /\ AreDigits(t, j, m + 1)
        BY <2>1
      <3> HIDE DEF j
      <3>2. AreDigits(t, j, m) /\ Number(t, j, m + 1) = 10 * Number(t, j, m) + t[j + m]
        BY <3>1, NumberNext
      <3>3. QED
        BY <3>2 DEF j
    <2>5. Number(t, i, m + 1) = Number(t, i + 1, m)
      BY <1>2, <2>4
    <2>6. i + (m + 1) = (i + 1) + m
      OBVIOUS
    <2>7. QED
      BY <2>2, <2>3, <2>4, <2>5, <2>6
  <1>3. Nat \subseteq T
    <2> HIDE DEF T
    <2>1. QED
      BY <1>1, <1>2, NatSetInduction
  <1>4. QED
    BY <1>3

-----------------------------------------------------------------------------
(* Decimal digits.                                                         *)

LEMMA DigitsOfSeq == ASSUME NEW d \in Seq(0 .. 9) PROVE AreDigits(d, 1, Len(d))
  <1>1. \A k \in 0 .. Len(d) - 1 : 1 + k \in 1 .. Len(d)
    OBVIOUS
  <1>2. \A k \in 1 .. Len(d) : d[k] \in 0 .. 9
    OBVIOUS
  <1>3. QED
    BY <1>1, <1>2 DEF AreDigits

LEMMA NumberAppend ==
  ASSUME NEW d \in Seq(0 .. 9), NEW x \in 0 .. 9
  PROVE  Number(Append(d, x), 1, Len(d) + 1) = 10 * Number(d, 1, Len(d)) + x
  <1> DEFINE e == Append(d, x)
             n == Len(d)
  <1>1. /\ e \in Seq(0 .. 9) /\ Len(e) = n + 1 /\ n \in Nat
        /\ e[n + 1] = x
        /\ \A k \in 1 .. n : e[k] = d[k]
    BY AppendProperties
  <1> HIDE DEF e, n
  <1>2. AreDigits(e, 1, n + 1)
    BY <1>1, DigitsOfSeq
  <1>3. Number(e, 1, n + 1) = 10 * Number(e, 1, n) + e[1 + n]
    BY <1>1, <1>2, NumberNext
  <1>4. Number(e, 1, n) = Number(d, 1, n)
    <2>1. AreDigits(d, 1, n)
      BY DigitsOfSeq DEF n
    <2>2. \A k \in 0 .. n - 1 : e[1 + k] = d[1 + k]
      <3>1. \A k \in 0 .. n - 1 : 1 + k \in 1 .. n
        BY <1>1
      <3>2. QED
        BY <1>1, <3>1
    <2>3. QED
      BY <1>1, <2>1, <2>2, NumberMoved DEF SameDigits
  <1>5. 1 + n = n + 1
    BY <1>1
  <1>6. QED
    BY <1>1, <1>3, <1>4, <1>5 DEF e, n

(* The digits d say the number k, the shortest way as far as a field of a  *)
(* time has a width.                                                       *)
Says(d, k) ==
  /\ d \in Seq(0 .. 9)
  /\ Len(d) >= 1
  /\ Number(d, 1, Len(d)) = k
  /\ k < 10 => Len(d) = 1
  /\ k < 100 => Len(d) <= 2
  /\ k < 1000 => Len(d) <= 3

LEMMA OneDigit == ASSUME NEW k \in 0 .. 9 PROVE Says(<<k>>, k)
  <1> DEFINE none == <<>>
             d == Append(none, k)
  <1>1. none \in Seq(0 .. 9) /\ Len(none) = 0
    BY EmptySeq
  <1>2. d = <<k>>
    <2>1. d = none \o <<k>> /\ <<k>> \in Seq(0 .. 9)
      BY <1>1, AppendIsConcat
    <2>2. QED
      BY <2>1, ConcatEmptySeq
  <1> HIDE DEF none
  <1>3. d \in Seq(0 .. 9) /\ Len(d) = 0 + 1
    BY <1>1, AppendProperties
  <1>4. Number(d, 1, 0 + 1) = 10 * Number(none, 1, 0) + k
    BY <1>1, NumberAppend
  <1>5. Number(none, 1, 0) = 0
    BY NumberZero
  <1> HIDE DEF d
  <1>6. Says(d, k)
    BY <1>3, <1>4, <1>5 DEF Says
  <1>7. QED
    BY <1>2, <1>6

LEMMA OneDigitMore ==
  ASSUME NEW k \in Nat, k >= 10, NEW d, Says(d, k \div 10)
  PROVE  Says(Append(d, k % 10), k)
  <1> DEFINE e == Append(d, k % 10)
  <1>1. k % 10 \in 0 .. 9 /\ k = 10 * (k \div 10) + (k % 10)
    OBVIOUS
  <1>2. d \in Seq(0 .. 9) /\ Len(d) \in Nat
    BY DEF Says
  <1>3. e \in Seq(0 .. 9) /\ Len(e) = Len(d) + 1
    BY <1>1, <1>2, AppendProperties
  <1>4. Number(e, 1, Len(d) + 1) = 10 * Number(d, 1, Len(d)) + (k % 10)
    BY <1>1, <1>2, NumberAppend
  <1>5. Number(e, 1, Len(e)) = k
    BY <1>1, <1>3, <1>4 DEF Says
  <1>6. (k < 100 => k \div 10 < 10) /\ (k < 1000 => k \div 10 < 100)
    OBVIOUS
  <1> HIDE DEF e
  <1>7. /\ Len(d) >= 1
        /\ k \div 10 < 10 => Len(d) = 1
        /\ k \div 10 < 100 => Len(d) <= 2
    BY DEF Says
  <1>8. Says(e, k)
    <2>1. Len(e) >= 1 /\ ~(k < 10)
      BY <1>2, <1>3
    <2>2. (k < 100 => Len(e) <= 2) /\ (k < 1000 => Len(e) <= 3)
      <3> DEFINE tenth == k \div 10
                 m == Len(d)
                 n == Len(e)
      <3>1. m \in Nat /\ n = m + 1
        BY <1>2, <1>3
      <3>2. /\ k < 100 => tenth < 10
            /\ k < 1000 => tenth < 100
            /\ tenth < 10 => m = 1
            /\ tenth < 100 => m <= 2
        BY <1>6, <1>7
      <3> HIDE DEF tenth, m, n
      <3>3. (k < 100 => n <= 2) /\ (k < 1000 => n <= 3)
        BY <3>1, <3>2
      <3>4. QED
        BY <3>3 DEF n
    <2>3. QED
      BY <1>3, <1>5, <2>1, <2>2 DEF Says
  <1>9. QED
    BY <1>8 DEF e

Written(f, k) == IF k < 10 THEN <<k>> ELSE Append(f[k \div 10], k % 10)

(* The function that Decimal is defined by exists: it looks back to the    *)
(* tenth part of a number.                                                 *)
LEMMA DecimalExists ==
  ASSUME NEW n \in Nat
  PROVE  \E f : f = [k \in 0 .. n |-> Written(f, k)]
  <1> DEFINE Solves(f, m) == f = [k \in 0 .. m |-> Written(f, k)]
             T == {m \in Nat : \E f : Solves(f, m)}
  <1>1. 0 \in T
    <2> DEFINE f == [k \in 0 .. 0 |-> <<0>>]
    <2>1. \A k \in 0 .. 0 : Written(f, k) = <<0>>
      BY DEF Written
    <2> HIDE DEF Written
    <2>2. Solves(f, 0)
      BY <2>1
    <2>3. QED
      BY <2>2
  <1>2. ASSUME NEW m \in Nat, m \in T
        PROVE  m + 1 \in T
    <2>1. PICK f : Solves(f, m)
      BY <1>2
    <2> DEFINE g == [k \in 0 .. m + 1 |-> Written(f, k)]
    <2>2. \A k \in 0 .. m : f[k] = g[k]
      <3>1. \A k \in 0 .. m : f[k] = Written(f, k) /\ k \in 0 .. m + 1
        BY <2>1
      <3>2. QED
        BY <3>1
    <2> HIDE DEF g
    <2>3. ASSUME NEW k \in 0 .. m + 1
          PROVE  Written(f, k) = Written(g, k)
      <3>1. CASE k < 10
        BY <3>1 DEF Written
      <3>2. CASE k >= 10
        <4>1. k \div 10 \in 0 .. m
          BY <3>2
        <4>2. f[k \div 10] = g[k \div 10]
          BY <2>2, <4>1
        <4>3. QED
          BY <4>2 DEF Written
      <3>3. QED
        BY <3>1, <3>2
    <2>4. Solves(g, m + 1)
      BY <2>3 DEF g
    <2> HIDE DEF Solves
    <2>5. QED
      BY <2>4
  <1>3. Nat \subseteq T
    <2> HIDE DEF T
    <2>1. QED
      BY <1>1, <1>2, NatSetInduction
  <1>4. QED
    BY <1>3

(* Decimal writes the number it is given.                                  *)
LEMMA DecimalSays == ASSUME NEW n \in Nat PROVE Says(Decimal(n), n)
  <1> DEFINE Solves(f) == f = [k \in 0 .. n |-> Written(f, k)]
             digits == CHOOSE f : Solves(f)
             T == {m \in Nat : \A k \in 0 .. m : k <= n => Says(digits[k], k)}
  <1>1. Decimal(n) = digits[n]
    BY DEF Decimal, Written
  <1>2. Solves(digits)
    <2>1. \E f : Solves(f)
      BY DecimalExists
    <2> HIDE DEF Solves
    <2>2. QED
      BY <2>1
  <1> HIDE DEF digits
  <1>3. \A k \in 0 .. n : digits[k] = Written(digits, k)
    BY <1>2
  <1>4. ASSUME NEW k \in 0 .. n, k < 10
        PROVE  Says(digits[k], k)
    <2>1. k \in 0 .. 9 /\ Written(digits, k) = <<k>>
      BY <1>4 DEF Written
    <2>2. digits[k] = <<k>>
      BY <1>3, <2>1
    <2>3. QED
      BY <2>1, <2>2, OneDigit
  <1>5. 0 \in T
    BY <1>4
  <1>6. ASSUME NEW m \in Nat, m \in T
        PROVE  m + 1 \in T
    <2>1. SUFFICES ASSUME m + 1 <= n PROVE Says(digits[m + 1], m + 1)
      <3>1. \A k \in 0 .. m + 1 : k \in 0 .. m \/ k = m + 1
        OBVIOUS
      <3>2. QED
        BY <1>6, <3>1
    <2> DEFINE k == m + 1
    <2>2. k \in 0 .. n /\ k \in Nat
      BY <2>1
    <2>3. CASE k < 10
      BY <1>4, <2>2, <2>3
    <2>4. CASE k >= 10
      <3>1. k \div 10 \in 0 .. m /\ k \div 10 <= n
        BY <2>2, <2>4
      <3>2. Says(digits[k \div 10], k \div 10)
        BY <1>6, <3>1
      <3> HIDE DEF k
      <3>3. digits[k] = Append(digits[k \div 10], k % 10)
        <4>1. Written(digits, k) = Append(digits[k \div 10], k % 10)
          BY <2>2, <2>4 DEF Written
        <4>2. QED
          BY <1>3, <2>2, <4>1
      <3>4. Says(digits[k], k)
        BY <2>2, <2>4, <3>2, <3>3, OneDigitMore
      <3>5. QED
        BY <3>4 DEF k
    <2>5. QED
      BY <2>2, <2>3, <2>4
  <1>7. Nat \subseteq T
    <2> HIDE DEF T
    <2>1. QED
      BY <1>5, <1>6, NatSetInduction
  <1>8. Says(digits[n], n)
    <2>1. n \in T /\ n \in 0 .. n
      BY <1>7
    <2>2. QED
      BY <2>1
  <1>9. QED
    BY <1>1, <1>8

(* Digits writes it in at least w digits, for the widths of the fields.    *)
LEMMA PadOne ==
  ASSUME NEW d \in Seq(0 .. 9)
  PROVE  LET e == <<0>> \o d
         IN /\ e \in Seq(0 .. 9)
            /\ Len(e) = Len(d) + 1
            /\ Number(e, 1, Len(e)) = Number(d, 1, Len(d))
  <1> DEFINE zero == <<0>>
             e == zero \o d
             n == Len(d)
  <1>1. zero \in Seq(0 .. 9) /\ Len(zero) = 1 /\ zero[1] = 0 /\ n \in Nat
    OBVIOUS
  <1> HIDE DEF zero, n
  <1>2. /\ e \in Seq(0 .. 9) /\ Len(e) = 1 + Len(d)
        /\ \A k \in 1 .. 1 + Len(d) : e[k] = IF k <= 1 THEN zero[k] ELSE d[k - 1]
    <2>1. /\ zero \o d \in Seq(0 .. 9)
          /\ Len(zero \o d) = Len(zero) + Len(d)
          /\ \A k \in 1 .. Len(zero) + Len(d) :
               (zero \o d)[k] = IF k <= Len(zero) THEN zero[k] ELSE d[k - Len(zero)]
      BY <1>1, ConcatProperties
    <2>2. QED
      BY <1>1, <2>1
  <1>3. e[1] = 0
    <2>1. 1 \in 1 .. 1 + Len(d)
      BY <1>1 DEF n
    <2>2. QED
      BY <1>1, <1>2, <2>1
  <1> HIDE DEF e
  <1>4. SameDigits(d, 1, e, 2, n)
    <2>1. \A k \in 0 .. n - 1 : 2 + k \in 1 .. 1 + n /\ ~(2 + k <= 1) /\ (2 + k) - 1 = 1 + k
      BY <1>1
    <2>2. QED
      BY <1>2, <2>1 DEF n, SameDigits
  <1>5. AreDigits(d, 1, n)
    BY DigitsOfSeq DEF n
  <1>6. AreDigits(e, 2, n) /\ Number(e, 2, n) = Number(d, 1, n)
    BY <1>1, <1>4, <1>5, NumberMoved
  <1>7. Number(e, 1, n + 1) = Number(e, 2, n)
    <2>1. 1 + 1 = 2
      OBVIOUS
    <2>2. QED
      BY <1>1, <1>3, <1>6, <2>1, NumberAfterZero
  <1>8. /\ e \in Seq(0 .. 9) /\ Len(e) = n + 1
        /\ Number(e, 1, Len(e)) = Number(d, 1, n)
    BY <1>1, <1>2, <1>6, <1>7 DEF n
  <1>9. QED
    BY <1>8 DEF e, zero, n

LEMMA PadTwo ==
  ASSUME NEW d \in Seq(0 .. 9)
  PROVE  LET e == <<0, 0>> \o d
         IN /\ e \in Seq(0 .. 9)
            /\ Len(e) = Len(d) + 2
            /\ Number(e, 1, Len(e)) = Number(d, 1, Len(d))
  <1> DEFINE zero == <<0>>
             once == zero \o d
  <1>1. zero \in Seq(0 .. 9) /\ <<0, 0>> = zero \o zero
    OBVIOUS
  <1>2. <<0, 0>> \o d = zero \o once
    BY <1>1, ConcatAssociative
  <1>3. /\ once \in Seq(0 .. 9) /\ Len(once) = Len(d) + 1
        /\ Number(once, 1, Len(once)) = Number(d, 1, Len(d))
    BY PadOne
  <1> HIDE DEF once
  <1>4. /\ zero \o once \in Seq(0 .. 9) /\ Len(zero \o once) = Len(once) + 1
        /\ Number(zero \o once, 1, Len(zero \o once)) = Number(once, 1, Len(once))
    BY <1>3, PadOne
  <1> DEFINE twice == zero \o once
  <1> HIDE DEF zero, twice
  <1>5. Len(d) \in Nat
    OBVIOUS
  <1>6. Len(twice) = Len(d) + 2
    BY <1>3, <1>4, <1>5 DEF twice
  <1>7. /\ twice \in Seq(0 .. 9)
        /\ Number(twice, 1, Len(twice)) = Number(d, 1, Len(d))
    BY <1>3, <1>4 DEF twice
  <1>8. <<0, 0>> \o d = twice
    BY <1>2 DEF twice
  <1>9. QED
    BY <1>6, <1>7, <1>8

LEMMA DigitsSay ==
  ASSUME NEW n \in Nat, NEW w \in {2, 3}
  PROVE  /\ Digits(n, w) \in Seq(0 .. 9)
         /\ Len(Digits(n, w)) >= w
         /\ Number(Digits(n, w), 1, Len(Digits(n, w))) = n
         /\ w = 2 /\ n < 100 => Len(Digits(n, w)) = 2
         /\ w = 3 /\ n < 1000 => Len(Digits(n, w)) = 3
  <1> DEFINE d == Decimal(n)
             zeros == [i \in 1 .. w - Len(d) |-> 0]
  <1>1. Says(d, n)
    BY DecimalSays
  <1>2. Digits(n, w) = IF Len(d) < w THEN zeros \o d ELSE d
    BY DEF Digits
  <1> HIDE DEF d
  <1>3. /\ d \in Seq(0 .. 9) /\ Len(d) \in Nat /\ Len(d) >= 1
        /\ Number(d, 1, Len(d)) = n
        /\ n < 100 => Len(d) <= 2
        /\ n < 1000 => Len(d) <= 3
    BY <1>1 DEF Says
  <1>4. CASE ~(Len(d) < w)
    <2>1. Digits(n, w) = d
      BY <1>2, <1>4
    <2> DEFINE m == Len(d)
    <2>2. /\ m \in Nat /\ ~(m < w)
          /\ n < 100 => m <= 2
          /\ n < 1000 => m <= 3
      BY <1>3, <1>4
    <2> HIDE DEF m
    <2>3. m >= w /\ (w = 2 /\ n < 100 => m = 2) /\ (w = 3 /\ n < 1000 => m = 3)
      BY <2>2
    <2>4. QED
      BY <1>3, <2>1, <2>3 DEF m
  <1>5. CASE Len(d) = w - 1
    <2>1. zeros = <<0>>
      <3>1. w - Len(d) = 1
        BY <1>3, <1>5
      <3>2. zeros = [i \in 1 .. 1 |-> 0]
        BY <3>1
      <3>3. [i \in 1 .. 1 |-> 0] = <<0>>
        OBVIOUS
      <3>4. QED
        BY <3>2, <3>3
    <2>2. Digits(n, w) = <<0>> \o d
      BY <1>2, <1>3, <1>5, <2>1
    <2> DEFINE e == <<0>> \o d
    <2>3. /\ e \in Seq(0 .. 9) /\ Len(e) = Len(d) + 1
          /\ Number(e, 1, Len(e)) = Number(d, 1, Len(d))
      BY <1>3, PadOne
    <2> HIDE DEF e
    <2>4. Len(e) = w
      BY <1>3, <1>5, <2>3
    <2>5. Digits(n, w) = e
      BY <2>2 DEF e
    <2>6. QED
      BY <1>3, <2>3, <2>4, <2>5
  <1>6. CASE Len(d) = w - 2
    <2>1. zeros = <<0, 0>>
      <3>1. w - Len(d) = 2
        BY <1>3, <1>6
      <3>2. zeros = [i \in 1 .. 2 |-> 0]
        BY <3>1
      <3>3. [i \in 1 .. 2 |-> 0] = <<0, 0>>
        OBVIOUS
      <3>4. QED
        BY <3>2, <3>3
    <2>2. Digits(n, w) = <<0, 0>> \o d
      BY <1>2, <1>3, <1>6, <2>1
    <2> DEFINE e == <<0, 0>> \o d
    <2>3. /\ e \in Seq(0 .. 9) /\ Len(e) = Len(d) + 2
          /\ Number(e, 1, Len(e)) = Number(d, 1, Len(d))
      BY <1>3, PadTwo
    <2> HIDE DEF e
    <2>4. Len(e) = w
      BY <1>3, <1>6, <2>3
    <2>5. Digits(n, w) = e
      BY <2>2 DEF e
    <2>6. QED
      BY <1>3, <2>3, <2>4, <2>5
  <1>7. QED
    BY <1>3, <1>4, <1>5, <1>6

-----------------------------------------------------------------------------
(* The text of a time.                                                     *)

LEMMA FieldsOfTime ==
  ASSUME NEW npt \in Nat
  PROVE  LET f == Fields(npt)
         IN /\ f.h \in Nat /\ f.m \in 0 .. 59 /\ f.s \in 0 .. 59 /\ f.ms \in 0 .. 999
            /\ f.h * Hour + f.m * Minute + f.s * Second + f.ms = npt
            /\ f.ms = npt % Second
  <1> DEFINE sec == npt \div 1000
             min == sec \div 60
             h   == min \div 60
  <1>1. sec \in Nat /\ npt % 1000 \in 0 .. 999 /\ npt = 1000 * sec + (npt % 1000)
    OBVIOUS
  <1> HIDE DEF sec
  <1>2. min \in Nat /\ sec % 60 \in 0 .. 59 /\ sec = 60 * min + (sec % 60)
    BY <1>1
  <1> HIDE DEF min
  <1>3. h \in Nat /\ min % 60 \in 0 .. 59 /\ min = 60 * h + (min % 60)
    BY <1>2
  <1> HIDE DEF h
  <1>4. Fields(npt) = [h |-> h, m |-> min % 60, s |-> sec % 60, ms |-> npt % 1000]
    BY DEF Fields, h, min, sec
  <1> DEFINE m  == min % 60
             s  == sec % 60
             ms == npt % 1000
  <1>5. h * 3600000 + m * 60000 + s * 1000 + ms = npt
    <2>1. min = 60 * h + m /\ sec = 60 * min + s /\ npt = 1000 * sec + ms
      BY <1>1, <1>2, <1>3
    <2>2. m \in Nat /\ s \in Nat /\ ms \in Nat
      BY <1>1, <1>2, <1>3
    <2> HIDE DEF m, s, ms
    <2>3. QED
      BY <1>1, <1>2, <1>3, <2>1, <2>2
  <1>6. Second = 1000 /\ Minute = 60000 /\ Hour = 3600000
    BY DEF Second, Minute, Hour
  <1>7. QED
    BY <1>1, <1>2, <1>3, <1>4, <1>5, <1>6

Letter == 0 .. 11

(* The text u stands in t after position k.                                *)
Stands(t, u, k) == \A i \in 1 .. Len(u) : t[k + i] = u[i]

LEMMA StandsInBoth ==
  ASSUME NEW t \in Seq(Letter), NEW u \in Seq(Letter), NEW k \in Nat, NEW n \in Nat,
         Len(t) = k, n = k + Len(u)
  PROVE  /\ t \o u \in Seq(Letter)
         /\ Len(t \o u) = n
         /\ Stands(t \o u, t, 0)
         /\ Stands(t \o u, u, k)
  <1>1. Len(t) \in Nat /\ Len(u) \in Nat
    OBVIOUS
  <1>2. /\ t \o u \in Seq(Letter)
        /\ Len(t \o u) = Len(t) + Len(u)
        /\ \A i \in 1 .. Len(t) + Len(u) :
             (t \o u)[i] = IF i <= Len(t) THEN t[i] ELSE u[i - Len(t)]
    BY ConcatProperties
  <1>3. ASSUME NEW i \in 1 .. Len(u)
        PROVE  (t \o u)[Len(t) + i] = u[i]
    <2>1. /\ Len(t) + i \in 1 .. Len(t) + Len(u)
          /\ ~(Len(t) + i <= Len(t)) /\ (Len(t) + i) - Len(t) = i
      BY <1>1
    <2>2. QED
      BY <1>2, <2>1
  <1>4. ASSUME NEW i \in 1 .. Len(t)
        PROVE  (t \o u)[0 + i] = t[i]
    <2>1. i \in 1 .. Len(t) + Len(u) /\ i <= Len(t) /\ 0 + i = i
      BY <1>1
    <2>2. QED
      BY <1>2, <2>1
  <1>5. QED
    BY <1>2, <1>3, <1>4 DEF Stands

LEMMA StandsWithin ==
  ASSUME NEW t, NEW u \in Seq(Letter), NEW v \in Seq(Letter), NEW k \in Nat,
         k + Len(v) <= Len(u), Stands(t, u, 0), Stands(u, v, k)
  PROVE  Stands(t, v, k)
  <1>1. Len(u) \in Nat /\ Len(v) \in Nat
    OBVIOUS
  <1>2. ASSUME NEW i \in 1 .. Len(v)
        PROVE  t[k + i] = v[i]
    <2>1. k + i \in 1 .. Len(u) /\ 0 + (k + i) = k + i
      BY <1>1
    <2>2. t[k + i] = u[k + i]
      BY <2>1 DEF Stands
    <2>3. QED
      BY <2>2 DEF Stands
  <1>3. QED
    BY <1>2 DEF Stands

(* What the fields of a text say, whatever stands before and after them.   *)
LEMMA FieldIsRead ==
  ASSUME NEW d \in Seq(0 .. 9), NEW t, NEW k \in Nat, Stands(t, d, k)
  PROVE  /\ AreDigits(t, k + 1, Len(d))
         /\ Number(t, k + 1, Len(d)) = Number(d, 1, Len(d))
  <1> DEFINE j == k + 1
             n == Len(d)
  <1>1. j \in Nat /\ n \in Nat
    OBVIOUS
  <1>2. AreDigits(d, 1, n)
    BY DigitsOfSeq
  <1>3. SameDigits(d, 1, t, j, n)
    <2>1. ASSUME NEW i \in 0 .. n - 1
          PROVE  t[j + i] = d[1 + i]
      <3>1. 1 + i \in 1 .. n /\ k + (1 + i) = j + i
        BY <1>1
      <3>2. QED
        BY <3>1 DEF Stands
    <2>2. QED
      BY <2>1 DEF SameDigits
  <1> HIDE DEF j, n
  <1>4. AreDigits(t, j, n) /\ Number(t, j, n) = Number(d, 1, n)
    BY <1>1, <1>2, <1>3, NumberMoved
  <1>5. QED
    BY <1>4 DEF j, n

(* fmt.Sscanf reads digits up to the width it is given.                    *)
DigitsFrom(t, i, m) == \A k \in i .. i + m - 1 : IsDigit(t, k)

LEMMA AfterDigits ==
  ASSUME NEW t, NEW i \in Nat, NEW m \in Nat, NEW w \in Nat, m <= w,
         DigitsFrom(t, i, m), m = w \/ ~IsDigit(t, i + m)
  PROVE  After(t, i, w) = i + m
  <1> DEFINE Ends(j) == /\ \A k \in i .. j - 1 : IsDigit(t, k)
                        /\ j = i + w \/ ~IsDigit(t, j)
  <1>1. i + m \in i .. i + w /\ Ends(i + m)
    BY DEF DigitsFrom
  <1>2. ASSUME NEW j \in i .. i + w, Ends(j)
        PROVE  j = i + m
    <2>1. CASE j < i + m
      <3>1. j \in i .. i + m - 1 /\ j # i + w
        BY <2>1
      <3>2. QED
        BY <1>2, <3>1 DEF DigitsFrom
    <2>2. CASE j > i + m
      <3>1. i + m \in i .. j - 1 /\ m # w
        BY <2>2
      <3>2. QED
        BY <1>2, <3>1
    <2>3. QED
      BY <2>1, <2>2
  <1>3. After(t, i, w) = CHOOSE j \in i .. i + w : Ends(j)
    BY DEF After
  <1> HIDE DEF Ends
  <1>4. QED
    BY <1>1, <1>2, <1>3

(* Where the text of a time has its signs, and what its fields say. There  *)
(* are a digits before the first sign.                                     *)
FieldsStand(t, f, a) ==
  /\ a \in Nat /\ a >= 2
  /\ t \in Seq(Letter) /\ Len(t) = a + 10
  /\ t[a + 1] = Colon /\ t[a + 4] = Colon /\ t[a + 7] = Dot
  /\ AreDigits(t, 1, a)     /\ Number(t, 1, a) = f.h
  /\ AreDigits(t, a + 2, 2) /\ Number(t, a + 2, 2) = f.m
  /\ AreDigits(t, a + 5, 2) /\ Number(t, a + 5, 2) = f.s
  /\ AreDigits(t, a + 8, 3) /\ Number(t, a + 8, 3) = f.ms

LEMMA TextOfTime ==
  ASSUME NEW npt \in Nat
  PROVE  \E a : FieldsStand(FormatNPTTime(npt), Fields(npt), a)
  <1> DEFINE f == Fields(npt)
             h  == Digits(f.h, 2)
             m  == Digits(f.m, 2)
             s  == Digits(f.s, 2)
             ms == Digits(f.ms, 3)
             a  == Len(h)
             colon == <<Colon>>
             dot   == <<Dot>>
             t1 == h \o colon
             t2 == t1 \o m
             t3 == t2 \o colon
             t4 == t3 \o s
             t5 == t4 \o dot
             t  == t5 \o ms
  <1>1. f.h \in Nat /\ f.m \in 0 .. 59 /\ f.s \in 0 .. 59 /\ f.ms \in 0 .. 999
    BY FieldsOfTime
  <1>2. FormatNPTTime(npt) = t
    BY DEF FormatNPTTime
  <1> HIDE DEF f
  <1>3. /\ h \in Seq(0 .. 9) /\ a \in Nat /\ a >= 2 /\ Number(h, 1, a) = f.h
        /\ m \in Seq(0 .. 9) /\ Len(m) = 2 /\ Number(m, 1, 2) = f.m
        /\ s \in Seq(0 .. 9) /\ Len(s) = 2 /\ Number(s, 1, 2) = f.s
        /\ ms \in Seq(0 .. 9) /\ Len(ms) = 3 /\ Number(ms, 1, 3) = f.ms
    <2>1. h \in Seq(0 .. 9) /\ a \in Nat /\ a >= 2 /\ Number(h, 1, a) = f.h
      <3>1. h \in Seq(0 .. 9) /\ Len(h) >= 2 /\ Number(h, 1, Len(h)) = f.h
        BY <1>1, DigitsSay
      <3> HIDE DEF h
      <3>2. Len(h) \in Nat
        BY <3>1
      <3>3. QED
        BY <3>1, <3>2
    <2>2. m \in Seq(0 .. 9) /\ Len(m) = 2 /\ Number(m, 1, 2) = f.m
      <3>1. f.m \in Nat /\ f.m < 100
        BY <1>1
      <3>2. QED
        BY <3>1, DigitsSay
    <2>3. s \in Seq(0 .. 9) /\ Len(s) = 2 /\ Number(s, 1, 2) = f.s
      <3>1. f.s \in Nat /\ f.s < 100
        BY <1>1
      <3>2. QED
        BY <3>1, DigitsSay
    <2>4. ms \in Seq(0 .. 9) /\ Len(ms) = 3 /\ Number(ms, 1, 3) = f.ms
      <3>1. f.ms \in Nat /\ f.ms < 1000
        BY <1>1
      <3>2. QED
        BY <3>1, DigitsSay
    <2>5. QED
      BY <2>1, <2>2, <2>3, <2>4
  <1> HIDE DEF h, m, s, ms
  <1>4. /\ h \in Seq(Letter) /\ m \in Seq(Letter) /\ s \in Seq(Letter) /\ ms \in Seq(Letter)
        /\ colon \in Seq(Letter) /\ Len(colon) = 1 /\ colon[1] = Colon
        /\ dot \in Seq(Letter) /\ Len(dot) = 1 /\ dot[1] = Dot
    <2>1. 0 .. 9 \subseteq Letter /\ Colon \in Letter /\ Dot \in Letter
      BY DEF Letter, Colon, Dot
    <2> HIDE DEF Letter
    <2>2. h \in Seq(Letter) /\ m \in Seq(Letter) /\ s \in Seq(Letter) /\ ms \in Seq(Letter)
      <3>1. Seq(0 .. 9) \subseteq Seq(Letter)
        BY <2>1
      <3>2. QED
        BY <1>3, <3>1
    <2>3. colon \in Seq(Letter) /\ Len(colon) = 1 /\ colon[1] = Colon
      BY <2>1
    <2>4. dot \in Seq(Letter) /\ Len(dot) = 1 /\ dot[1] = Dot
      BY <2>1
    <2>5. QED
      BY <2>2, <2>3, <2>4
  <1> HIDE DEF colon, dot, a
  <1>5. /\ t1 \in Seq(Letter) /\ Len(t1) = a + 1
        /\ Stands(t1, h, 0) /\ Stands(t1, colon, a)
    <2>1. a \in Nat /\ a + 1 \in Nat /\ a + 1 = a + 1
      BY <1>3
    <2>2. Len(h) = a /\ a + 1 = a + Len(colon)
      BY <1>3, <1>4, <2>1 DEF a
    <2>3. h \in Seq(Letter) /\ colon \in Seq(Letter)
      BY <1>4
    <2>4. QED
      BY <2>1, <2>2, <2>3, StandsInBoth
  <1> HIDE DEF t1
  <1>6. /\ t2 \in Seq(Letter) /\ Len(t2) = a + 3
        /\ Stands(t2, t1, 0) /\ Stands(t2, m, a + 1)
    <2>1. a + 1 \in Nat /\ a + 3 \in Nat /\ a + 3 = (a + 1) + 2
      BY <1>3
    <2>2. Len(t1) = a + 1 /\ a + 3 = (a + 1) + Len(m)
      BY <1>3, <1>4, <1>5, <2>1
    <2>3. t1 \in Seq(Letter) /\ m \in Seq(Letter)
      BY <1>4, <1>5
    <2>4. QED
      BY <2>1, <2>2, <2>3, StandsInBoth
  <1> HIDE DEF t2
  <1>7. /\ t3 \in Seq(Letter) /\ Len(t3) = a + 4
        /\ Stands(t3, t2, 0) /\ Stands(t3, colon, a + 3)
    <2>1. a + 3 \in Nat /\ a + 4 \in Nat /\ a + 4 = (a + 3) + 1
      BY <1>3
    <2>2. Len(t2) = a + 3 /\ a + 4 = (a + 3) + Len(colon)
      BY <1>3, <1>4, <1>6, <2>1
    <2>3. t2 \in Seq(Letter) /\ colon \in Seq(Letter)
      BY <1>4, <1>6
    <2>4. QED
      BY <2>1, <2>2, <2>3, StandsInBoth
  <1> HIDE DEF t3
  <1>8. /\ t4 \in Seq(Letter) /\ Len(t4) = a + 6
        /\ Stands(t4, t3, 0) /\ Stands(t4, s, a + 4)
    <2>1. a + 4 \in Nat /\ a + 6 \in Nat /\ a + 6 = (a + 4) + 2
      BY <1>3
    <2>2. Len(t3) = a + 4 /\ a + 6 = (a + 4) + Len(s)
      BY <1>3, <1>4, <1>7, <2>1
    <2>3. t3 \in Seq(Letter) /\ s \in Seq(Letter)
      BY <1>4, <1>7
    <2>4. QED
      BY <2>1, <2>2, <2>3, StandsInBoth
  <1> HIDE DEF t4
  <1>9. /\ t5 \in Seq(Letter) /\ Len(t5) = a + 7
        /\ Stands(t5, t4, 0) /\ Stands(t5, dot, a + 6)
    <2>1. a + 6 \in Nat /\ a + 7 \in Nat /\ a + 7 = (a + 6) + 1
      BY <1>3
    <2>2. Len(t4) = a + 6 /\ a + 7 = (a + 6) + Len(dot)
      BY <1>3, <1>4, <1>8, <2>1
    <2>3. t4 \in Seq(Letter) /\ dot \in Seq(Letter)
      BY <1>4, <1>8
    <2>4. QED
      BY <2>1, <2>2, <2>3, StandsInBoth
  <1> HIDE DEF t5
  <1>10. /\ t \in Seq(Letter) /\ Len(t) = a + 10
        /\ Stands(t, t5, 0) /\ Stands(t, ms, a + 7)
    <2>1. a + 7 \in Nat /\ a + 10 \in Nat /\ a + 10 = (a + 7) + 3
      BY <1>3
    <2>2. Len(t5) = a + 7 /\ a + 10 = (a + 7) + Len(ms)
      BY <1>3, <1>4, <1>9, <2>1
    <2>3. t5 \in Seq(Letter) /\ ms \in Seq(Letter)
      BY <1>4, <1>9
    <2>4. QED
      BY <2>1, <2>2, <2>3, StandsInBoth
  <1> HIDE DEF t
  <1>11. Stands(t, t4, 0)
    <2>1. 0 \in Nat /\ 0 + Len(t4) <= Len(t5)
      BY <1>3, <1>8, <1>9
    <2>2. QED
      BY <1>8, <1>9, <1>10, <2>1, StandsWithin
  <1>12. Stands(t, t3, 0)
    <2>1. 0 \in Nat /\ 0 + Len(t3) <= Len(t4)
      BY <1>3, <1>7, <1>8
    <2>2. QED
      BY <1>7, <1>8, <1>11, <2>1, StandsWithin
  <1>13. Stands(t, t2, 0)
    <2>1. 0 \in Nat /\ 0 + Len(t2) <= Len(t3)
      BY <1>3, <1>6, <1>7
    <2>2. QED
      BY <1>6, <1>7, <1>12, <2>1, StandsWithin
  <1>14. Stands(t, t1, 0)
    <2>1. 0 \in Nat /\ 0 + Len(t1) <= Len(t2)
      BY <1>3, <1>5, <1>6
    <2>2. QED
      BY <1>5, <1>6, <1>13, <2>1, StandsWithin
  <1>15. Stands(t, h, 0)
    <2>1. 0 \in Nat /\ 0 + Len(h) <= Len(t1)
      BY <1>3, <1>4, <1>5 DEF a
    <2>2. QED
      BY <1>4, <1>5, <1>14, <2>1, StandsWithin
  <1>16. Stands(t, colon, a)
    <2>1. a \in Nat /\ a + Len(colon) <= Len(t1)
      BY <1>3, <1>4, <1>5
    <2>2. QED
      BY <1>4, <1>5, <1>14, <2>1, StandsWithin
  <1>17. Stands(t, m, a + 1)
    <2>1. a + 1 \in Nat /\ a + 1 + Len(m) <= Len(t2)
      BY <1>3, <1>4, <1>6
    <2>2. QED
      BY <1>4, <1>6, <1>13, <2>1, StandsWithin
  <1>18. Stands(t, colon, a + 3)
    <2>1. a + 3 \in Nat /\ a + 3 + Len(colon) <= Len(t3)
      BY <1>3, <1>4, <1>7
    <2>2. /\ colon \in Seq(Letter) /\ t3 \in Seq(Letter)
          /\ Stands(t, t3, 0) /\ Stands(t3, colon, a + 3)
      BY <1>4, <1>7, <1>12
    <2>3. QED
      BY <2>1, <2>2, StandsWithin
  <1>19. Stands(t, s, a + 4)
    <2>1. a + 4 \in Nat /\ a + 4 + Len(s) <= Len(t4)
      BY <1>3, <1>4, <1>8
    <2>2. QED
      BY <1>4, <1>8, <1>11, <2>1, StandsWithin
  <1>20. Stands(t, dot, a + 6)
    <2>1. a + 6 \in Nat /\ a + 6 + Len(dot) <= Len(t5)
      BY <1>3, <1>4, <1>9
    <2>2. /\ dot \in Seq(Letter) /\ t5 \in Seq(Letter)
          /\ Stands(t, t5, 0) /\ Stands(t5, dot, a + 6)
      BY <1>4, <1>9, <1>10
    <2>3. QED
      BY <2>1, <2>2, StandsWithin
  <1>21. t[a + 1] = Colon /\ t[a + 4] = Colon /\ t[a + 7] = Dot
    <2>1. t[a + 1] = Colon /\ t[(a + 3) + 1] = Colon /\ t[(a + 6) + 1] = Dot
      BY <1>4, <1>16, <1>18, <1>20 DEF Stands
    <2>2. (a + 3) + 1 = a + 4 /\ (a + 6) + 1 = a + 7
      BY <1>3
    <2>3. QED
      BY <2>1, <2>2
  <1>22. AreDigits(t, 1, a) /\ Number(t, 1, a) = f.h
    <2>1. AreDigits(t, 0 + 1, a) /\ Number(t, 0 + 1, a) = Number(h, 1, a)
      BY <1>3, <1>15, FieldIsRead DEF a
    <2>2. QED
      BY <1>3, <2>1
  <1>23. AreDigits(t, a + 2, 2) /\ Number(t, a + 2, 2) = f.m
    <2>1. a + 1 \in Nat /\ (a + 1) + 1 = a + 2
      BY <1>3
    <2>2. AreDigits(t, (a + 1) + 1, 2) /\ Number(t, (a + 1) + 1, 2) = Number(m, 1, 2)
      BY <1>3, <1>17, <2>1, FieldIsRead
    <2>3. QED
      BY <1>3, <2>1, <2>2
  <1>24. AreDigits(t, a + 5, 2) /\ Number(t, a + 5, 2) = f.s
    <2>1. a + 4 \in Nat /\ (a + 4) + 1 = a + 5
      BY <1>3
    <2>2. AreDigits(t, (a + 4) + 1, 2) /\ Number(t, (a + 4) + 1, 2) = Number(s, 1, 2)
      BY <1>3, <1>19, <2>1, FieldIsRead
    <2>3. QED
      BY <1>3, <2>1, <2>2
  <1>25. AreDigits(t, a + 8, 3) /\ Number(t, a + 8, 3) = f.ms
    <2>1. a + 7 \in Nat /\ (a + 7) + 1 = a + 8
      BY <1>3
    <2>2. AreDigits(t, (a + 7) + 1, 3) /\ Number(t, (a + 7) + 1, 3) = Number(ms, 1, 3)
      BY <1>3, <1>10, <2>1, FieldIsRead
    <2>3. QED
      BY <1>3, <2>1, <2>2
  <1>26. FieldsStand(t, f, a)
    BY <1>3, <1>10, <1>21, <1>22, <1>23, <1>24, <1>25 DEF FieldsStand
  <1>27. QED
    BY <1>2, <1>26 DEF f

(* Where the fields of a text end, and what is read there.                 *)
LEMMA FieldsAreFound ==
  ASSUME NEW t, NEW f, NEW a, FieldsStand(t, f, a)
  PROVE  /\ After(t, 1, Len(t)) = a + 1
         /\ After(t, a + 2, 2) = a + 4
         /\ After(t, a + 5, 2) = a + 7
         /\ After(t, a + 8, 3) = a + 11
  <1>1. DOMAIN t = 1 .. a + 10 /\ Len(t) = a + 10 /\ a \in Nat /\ a >= 2
    BY DEF FieldsStand
  <1>2. ~IsDigit(t, a + 1)
    BY DEF FieldsStand, IsDigit, Colon
  <1>3. ASSUME NEW i \in Nat, NEW m \in Nat, i >= 1, i + m <= a + 11, AreDigits(t, i, m)
        PROVE  DigitsFrom(t, i, m)
    <2> SUFFICES ASSUME NEW k \in i .. i + m - 1 PROVE IsDigit(t, k)
      BY DEF DigitsFrom
    <2>1. k - i \in 0 .. m - 1 /\ i + (k - i) = k /\ k \in 1 .. a + 10
      BY <1>1, <1>3
    <2>2. t[k] \in 0 .. 9
      BY <1>3, <2>1 DEF AreDigits
    <2>3. QED
      BY <1>1, <2>1, <2>2 DEF IsDigit
  <1>4. After(t, 1, Len(t)) = a + 1
    <2>1. /\ 1 + a = a + 1 /\ a <= Len(t) /\ 1 \in Nat /\ Len(t) \in Nat
          /\ 1 >= 1 /\ 1 + a <= a + 11
      BY <1>1
    <2>2. DigitsFrom(t, 1, a)
      BY <1>3, <2>1 DEF FieldsStand
    <2>3. After(t, 1, Len(t)) = 1 + a
      BY <1>1, <1>2, <2>1, <2>2, AfterDigits
    <2>4. QED
      BY <2>1, <2>3
  <1>5. ASSUME NEW i \in Nat, NEW m \in Nat, NEW w \in Nat, m = w,
               i >= 1, i + m <= a + 11, AreDigits(t, i, m)
        PROVE  After(t, i, w) = i + m
    <2>1. m <= w /\ DigitsFrom(t, i, m)
      BY <1>3, <1>5
    <2>2. QED
      BY <1>5, <2>1, AfterDigits
  <1>6. After(t, a + 2, 2) = (a + 2) + 2 /\ After(t, a + 5, 2) = (a + 5) + 2
    BY <1>1, <1>5 DEF FieldsStand
  <1>7. After(t, a + 8, 3) = (a + 8) + 3
    BY <1>1, <1>5 DEF FieldsStand
  <1>8. QED
    BY <1>1, <1>4, <1>6, <1>7

(* ParseNPTTime reads what FormatNPTTime wrote, for any number of hours.   *)
THEOREM EveryTimeSurvives == ASSUME NEW npt \in Nat PROVE RoundTrip(npt)
  <1> DEFINE t == FormatNPTTime(npt)
             f == Fields(npt)
  <1>1. PICK a : FieldsStand(t, f, a)
    BY TextOfTime
  <1>2. f.h * Hour + f.m * Minute + f.s * Second + f.ms = npt
    BY FieldsOfTime
  <1> HIDE DEF t, f
  <1>3. a \in Nat /\ a >= 2
    BY <1>1 DEF FieldsStand
  <1>4. /\ After(t, 1, Len(t)) = a + 1
        /\ After(t, (a + 1) + 1, 2) = a + 4
        /\ After(t, (a + 4) + 1, 2) = a + 7
        /\ After(t, (a + 7) + 1, 3) = a + 11
    <2>1. (a + 1) + 1 = a + 2 /\ (a + 4) + 1 = a + 5 /\ (a + 7) + 1 = a + 8
      BY <1>3
    <2>2. QED
      BY <1>1, <2>1, FieldsAreFound
  <1>5. /\ Sign(t, a + 1, Colon) /\ Sign(t, a + 4, Colon) /\ Sign(t, a + 7, Dot)
        /\ a + 1 > 1 /\ a + 4 > (a + 1) + 1 /\ a + 7 > (a + 4) + 1 /\ a + 11 > (a + 7) + 1
    <2>1. DOMAIN t = 1 .. a + 10
      BY <1>1 DEF FieldsStand
    <2>2. a + 1 \in DOMAIN t /\ a + 4 \in DOMAIN t /\ a + 7 \in DOMAIN t
      BY <1>3, <2>1
    <2>3. t[a + 1] = Colon /\ t[a + 4] = Colon /\ t[a + 7] = Dot
      BY <1>1 DEF FieldsStand
    <2>4. QED
      BY <1>3, <2>2, <2>3 DEF Sign
  <1>6. /\ Value(t, 1, a + 1) = f.h
        /\ Value(t, (a + 1) + 1, a + 4) = f.m
        /\ Value(t, (a + 4) + 1, a + 7) = f.s
        /\ Value(t, (a + 7) + 1, a + 11) = f.ms
    <2>1. /\ Number(t, 1, a) = f.h /\ Number(t, a + 2, 2) = f.m
          /\ Number(t, a + 5, 2) = f.s /\ Number(t, a + 8, 3) = f.ms
      BY <1>1 DEF FieldsStand
    <2>2. /\ (a + 1) + 1 = a + 2 /\ (a + 4) + 1 = a + 5 /\ (a + 7) + 1 = a + 8
          /\ 1 + a = a + 1 /\ (a + 2) + 2 = a + 4 /\ (a + 5) + 2 = a + 7
          /\ (a + 8) + 3 = a + 11
      BY <1>3
    <2>3. QED
      BY <2>1, <2>2 DEF Number
  <1>7. ParseNPTTime(t) = {f.h * Hour + f.m * Minute + f.s * Second + f.ms}
    BY <1>4, <1>5, <1>6 DEF ParseNPTTime, Scan
  <1>8. QED
    BY <1>2, <1>7 DEF RoundTrip, t

(* The digits after the dot are the decimals of a second.                  *)
THEOREM EveryTimeIsMeant == ASSUME NEW npt \in Nat PROVE DecimalsOfASecond(npt)
  <1> DEFINE t == FormatNPTTime(npt)
             f == Fields(npt)
             dot == CHOOSE i \in DOMAIN t : t[i] = Dot
  <1>1. PICK a : FieldsStand(t, f, a)
    BY TextOfTime
  <1>2. f.ms = npt % Second /\ npt % Second \in Nat
    <2>1. f.ms = npt % Second
      BY FieldsOfTime
    <2>2. npt % 1000 \in Nat
      OBVIOUS
    <2>3. QED
      BY <2>1, <2>2 DEF Second
  <1> HIDE DEF t, f
  <1>3. a \in Nat /\ DOMAIN t = 1 .. a + 10 /\ Len(t) = a + 10
    BY <1>1 DEF FieldsStand
  <1>4. a + 7 \in DOMAIN t /\ t[a + 7] = Dot
    BY <1>1, <1>3 DEF FieldsStand
  <1>5. ASSUME NEW i \in DOMAIN t, i # a + 7
        PROVE  t[i] # Dot
    <2>1. ASSUME NEW j \in Nat, NEW m \in Nat, AreDigits(t, j, m), i \in j .. j + m - 1
          PROVE  t[i] # Dot
      <3>1. i - j \in 0 .. m - 1 /\ j + (i - j) = i
        BY <2>1
      <3>2. t[i] \in 0 .. 9
        BY <2>1, <3>1 DEF AreDigits
      <3>3. QED
        BY <3>2 DEF Dot
    <2>2. \/ i = a + 1 \/ i = a + 4
          \/ i \in 1 .. 1 + a - 1 \/ i \in a + 2 .. (a + 2) + 2 - 1
          \/ i \in a + 5 .. (a + 5) + 2 - 1 \/ i \in a + 8 .. (a + 8) + 3 - 1
      BY <1>3, <1>5
    <2>3. t[a + 1] # Dot /\ t[a + 4] # Dot
      BY <1>1 DEF FieldsStand, Colon, Dot
    <2>4. AreDigits(t, 1, a) /\ AreDigits(t, a + 2, 2) /\ AreDigits(t, a + 5, 2) /\ AreDigits(t, a + 8, 3)
      BY <1>1 DEF FieldsStand
    <2>5. a + 2 \in Nat /\ a + 5 \in Nat /\ a + 8 \in Nat
      BY <1>3
    <2>6. QED
      BY <1>3, <2>1, <2>2, <2>3, <2>4, <2>5
  <1>6. dot = a + 7
    BY <1>4, <1>5
  <1> HIDE DEF dot
  <1>7. Value(t, dot + 1, Len(t) + 1) = npt % Second
    <2>1. dot + 1 = a + 8 /\ Len(t) + 1 = (a + 8) + 3
      BY <1>3, <1>6
    <2>2. Value(t, a + 8, (a + 8) + 3) = f.ms
      BY <1>1 DEF FieldsStand, Number
    <2>3. QED
      BY <1>2, <2>1, <2>2
  <1>8. 10^(Len(t) - dot) = Second
    <2>1. Len(t) - dot = 3
      BY <1>3, <1>6
    <2>2. 10^3 = 1000
      OBVIOUS
    <2>3. QED
      BY <2>1, <2>2 DEF Second
  <1>9. QED
    BY <1>7, <1>8 DEF DecimalsOfASecond, t, dot

LEMMA TimesStay == ConversionsSpec => [](time \in Nat)
  <1>1. ConversionsInit => time \in Nat
    BY ConversionsAssumption DEF ConversionsInit
  <1>2. time \in Nat /\ [ConversionsNext]_<<vars, time>> => (time \in Nat)'
    BY DEF ConversionsNext
  <1>3. QED
    BY <1>1, <1>2, PTL DEF ConversionsSpec

(* Whatever times the program is given, each survives the two conversions. *)
THEOREM AllTimesSurvive == ConversionsSpec => []TimesSurvive
  <1>1. time \in Nat => TimesSurvive
    BY EveryTimeSurvives DEF TimesSurvive
  <1>2. QED
    BY <1>1, TimesStay, PTL

(* And its text means the same to others.                                  *)
THEOREM AllTimesAreMeant == ConversionsSpec => []TimesAreMeant
  <1>1. time \in Nat => TimesAreMeant
    BY EveryTimeIsMeant DEF TimesAreMeant
  <1>2. QED
    BY <1>1, TimesStay, PTL

-----------------------------------------------------------------------------
(* The ids next to the times.                                              *)

(* Everything that FolderBrowser promises holds with the play times too.   *)
THEOREM ConversionsBrowse == ConversionsSpec => Spec
  <1>1. ConversionsInit => Init
    BY DEF ConversionsInit
  <1>2. [ConversionsNext]_<<vars, time>> => [Next]_vars
    BY DEF ConversionsNext
  <1>3. QED
    BY <1>1, <1>2, PTL DEF ConversionsSpec, Spec

(* Ids lead back and paths are clean in the runs that have times as well.  *)
THEOREM AllIdsLeadBack ==
  ConversionsSpec => [](PathIsClean /\ IdsLeadBack /\ ParentsLeadBack)
  <1>1. QED
    BY ConversionsBrowse, PathsAreCleaned, ShownIdsLeadBack, ShownParentsLeadBack, PTL
=============================================================================
