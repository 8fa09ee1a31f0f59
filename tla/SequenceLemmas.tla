--------------------------- MODULE SequenceLemmas ----------------------------
(***************************************************************************)
(* Facts about numbers and sequences that the proofs of more than one      *)
(* component need: induction, recursive functions on an interval, and      *)
(* prefixes.                                                               *)
(***************************************************************************)
EXTENDS Integers, SequencesExt, SequenceTheorems, WellFoundedInduction, TLAPS

(* Induction, for a set: a number outside of it would have a least one.    *)
LEMMA NatSetInduction ==
  ASSUME NEW T, 0 \in T, \A n \in Nat : n \in T => n + 1 \in T
  PROVE  Nat \subseteq T
  <1> DEFINE Rest == Nat \ T
  <1> SUFFICES ASSUME Rest # {} PROVE FALSE
    OBVIOUS
  <1>1. PICK x \in Rest : \A y \in Rest : ~ (<<y, x>> \in OpToRel(<, Nat))
    <2>1. IsWellFoundedOn(OpToRel(<, Nat), Nat)
      BY NatLessThanWellFounded
    <2>2. Rest \subseteq Nat
      OBVIOUS
    <2> HIDE DEF Rest
    <2>3. QED
      BY <2>1, <2>2, WFMin
  <1>2. x # 0 /\ x - 1 \in Nat
    OBVIOUS
  <1>3. <<x - 1, x>> \in OpToRel(<, Nat)
    BY <1>2 DEF OpToRel
  <1>4. x - 1 \in T
    BY <1>1, <1>2, <1>3
  <1>5. QED
    BY <1>2, <1>4

(* The same for sequences that grow at their end.                          *)
LEMMA SeqSetInduction ==
  ASSUME NEW S, NEW T, <<>> \in T,
         \A s \in Seq(S), x \in S : s \in T => Append(s, x) \in T
  PROVE  Seq(S) \subseteq T
  <1> DEFINE U == {n \in Nat : \A s \in Seq(S) : Len(s) = n => s \in T}
  <1>1. 0 \in U
    BY EmptySeq
  <1>2. ASSUME NEW n \in Nat, n \in U
        PROVE  n + 1 \in U
    <2>1. SUFFICES ASSUME NEW s \in Seq(S), Len(s) = n + 1 PROVE s \in T
      OBVIOUS
    <2> DEFINE front == SubSeq(s, 1, n)
               last == s[n + 1]
    <2>2. front \in Seq(S) /\ Len(front) = n /\ last \in S
      BY <2>1
    <2>3. s = Append(front, last)
      <3>1. /\ Append(front, last) \in Seq(S)
            /\ Len(Append(front, last)) = n + 1
            /\ \A i \in 1 .. n + 1 : Append(front, last)[i] = s[i]
        BY <2>1, <2>2
      <3>2. QED
        BY <2>1, <3>1, SeqEqual
    <2> HIDE DEF front, last
    <2>4. front \in T
      BY <1>2, <2>2
    <2>5. QED
      BY <2>2, <2>3, <2>4
  <1>3. Nat \subseteq U
    <2> HIDE DEF U
    <2>1. QED
      BY <1>1, <1>2, NatSetInduction
  <1>4. QED
    BY <1>3

-----------------------------------------------------------------------------
(* Recursive functions on an interval.                                     *)

(* Functions that a step takes from one number to the next.                *)
Steps(n, S) == [(1 .. n) \X S -> S]

Runs(n, S, base, step) ==
  {f \in [0 .. n -> S] : /\ f[0] = base
                        /\ \A i \in 1 .. n : f[i] = step[<<i, f[i - 1]>>]}

(* Two functions of which neither departs from the other.                  *)
KeepTogether(n, f, g) ==
  f[0] = g[0] /\ \A i \in 1 .. n : f[i - 1] = g[i - 1] => f[i] = g[i]

(* A function that is defined from one number to the next exists, and has  *)
(* the type that its step keeps.                                           *)
LEMMA RunExists ==
  ASSUME NEW n \in Nat, NEW S, NEW base \in S, NEW step \in Steps(n, S)
  PROVE  Runs(n, S, base, step) # {}
  <1> USE DEF Steps, Runs
  <1> DEFINE Run(f, m) == /\ f \in [0 .. m -> S]
                          /\ f[0] = base
                          /\ \A i \in 1 .. m : f[i] = step[<<i, f[i - 1]>>]
             T == {m \in Nat : m <= n => \E f : Run(f, m)}
  <1>1. 0 \in T
    <2>1. Run([i \in 0 .. 0 |-> base], 0)
      OBVIOUS
    <2>2. QED
      BY <2>1
  <1>2. ASSUME NEW m \in Nat, m \in T
        PROVE  m + 1 \in T
    <2>1. SUFFICES ASSUME m + 1 <= n PROVE \E g : Run(g, m + 1)
      OBVIOUS
    <2>2. PICK f : Run(f, m)
      BY <1>2, <2>1
    <2> DEFINE next == step[<<m + 1, f[m]>>]
               g == [i \in 0 .. m + 1 |-> IF i = m + 1 THEN next ELSE f[i]]
    <2>3. next \in S
      BY <2>1, <2>2
    <2>4. \A i \in 0 .. m : g[i] = f[i]
      OBVIOUS
    <2>5. g[m + 1] = next
      OBVIOUS
    <2>6. g \in [0 .. m + 1 -> S]
      <3> HIDE DEF next
      <3>1. QED
        BY <2>2, <2>3
    <2> HIDE DEF g
    <2>7. ASSUME NEW i \in 1 .. m + 1
          PROVE  g[i] = step[<<i, g[i - 1]>>]
      <3>1. CASE i = m + 1
        <4>1. g[i - 1] = f[m]
          BY <2>4, <3>1
        <4>2. QED
          BY <2>5, <3>1, <4>1
      <3>2. CASE i # m + 1
        <4>1. i \in 1 .. m /\ g[i] = f[i] /\ g[i - 1] = f[i - 1]
          BY <2>4, <3>2
        <4>2. QED
          BY <2>2, <4>1
      <3>3. QED
        BY <3>1, <3>2
    <2>8. g[0] = base
      BY <2>2, <2>4
    <2>9. QED
      BY <2>6, <2>7, <2>8
  <1>3. n \in T
    <2> HIDE DEF T
    <2>1. QED
      BY <1>1, <1>2, NatSetInduction
  <1>4. QED
    BY <1>3

(* Two that begin alike and go on alike are alike.                         *)
LEMMA RunsAgree ==
  ASSUME NEW n \in Nat, NEW f, NEW g, KeepTogether(n, f, g)
  PROVE  \A i \in 0 .. n : f[i] = g[i]
  <1> USE DEF KeepTogether
  <1> DEFINE T == {m \in Nat : m <= n => f[m] = g[m]}
  <1>1. 0 \in T
    OBVIOUS
  <1>2. ASSUME NEW m \in Nat, m \in T
        PROVE  m + 1 \in T
    <2>1. SUFFICES ASSUME m + 1 <= n PROVE f[m + 1] = g[m + 1]
      OBVIOUS
    <2>2. m + 1 \in 1 .. n /\ (m + 1) - 1 = m /\ f[m] = g[m]
      BY <1>2, <2>1
    <2>3. QED
      BY <2>2
  <1>3. Nat \subseteq T
    <2> HIDE DEF T
    <2>1. QED
      BY <1>1, <1>2, NatSetInduction
  <1>4. QED
    BY <1>3

-----------------------------------------------------------------------------
(* Prefixes.                                                               *)

(* A prefix, element by element.                                           *)
LEMMA PrefixByElements ==
  ASSUME NEW S, NEW s \in Seq(S), NEW t \in Seq(S)
  PROVE  IsPrefix(s, t) <=>
           Len(s) <= Len(t) /\ \A i \in 1 .. Len(s) : s[i] = t[i]
  <1>1. CASE Len(s) <= Len(t)
    <2>1. /\ SubSeq(s, 1, Len(s)) = s
          /\ SubSeq(t, 1, Len(s)) \in Seq(S)
          /\ Len(SubSeq(t, 1, Len(s))) = Len(s)
          /\ \A i \in 1 .. Len(s) : SubSeq(t, 1, Len(s))[i] = t[i]
      BY <1>1
    <2>2. (\A i \in 1 .. Len(s) : s[i] = t[i]) <=> s = SubSeq(t, 1, Len(s))
      BY <2>1, SeqEqual
    <2>3. QED
      BY <1>1, <2>1, <2>2 DEF IsPrefix
  <1>2. CASE ~ (Len(s) <= Len(t))
    BY <1>2 DEF IsPrefix
  <1>3. QED
    BY <1>1, <1>2

LEMMA PrefixTransitive ==
  ASSUME NEW S, NEW s \in Seq(S), NEW t \in Seq(S), NEW u \in Seq(S),
         IsPrefix(s, t), IsPrefix(t, u)
  PROVE  IsPrefix(s, u)
  BY PrefixByElements

LEMMA PrefixReflexive ==
  ASSUME NEW S, NEW s \in Seq(S)
  PROVE  IsPrefix(s, s)
  BY PrefixByElements
=============================================================================
