------------------------- MODULE FolderBrowserProofs -------------------------
(***************************************************************************)
(* Object ids lead back to their objects and up to their parents, for      *)
(* every alphabet, every set of names and every client of FolderBrowser.   *)
(* The recursive functions of ObjectIds are unfolded from one character or *)
(* name to the next; paths are then the images of sequences of names.      *)
(***************************************************************************)
EXTENDS FolderBrowser, SequenceLemmas

-----------------------------------------------------------------------------
(* What stands between the slashes.                                        *)

SlashFree == {w \in Seq(Chars) : Slashes(w) = {}}

Splits == {e \in Seq(SlashFree) : e # <<>>}

LEMMA EmptyIsSlashFree == <<>> \in SlashFree /\ <<<<>>>> \in Splits
  <1>1. <<>> \in SlashFree
    BY DEF SlashFree, Slashes
  <1>2. <<<<>>>> \in Seq(SlashFree) /\ Len(<<<<>>>>) = 1
    BY <1>1
  <1>3. QED
    BY <1>1, <1>2 DEF Splits

LEMMA ExtendedType ==
  ASSUME NEW e \in Splits, NEW c \in Chars
  PROVE  Extended(e, c) \in Splits
  <1>1. e \in Seq(SlashFree) /\ Len(e) \in Nat /\ Len(e) >= 1
    BY EmptySeq DEF Splits
  <1>2. CASE c = "/"
    <2>1. Append(e, <<>>) \in Seq(SlashFree) /\ Len(Append(e, <<>>)) = Len(e) + 1
      BY <1>1, EmptyIsSlashFree
    <2>2. QED
      BY <1>1, <1>2, <2>1 DEF Extended, Splits
  <1>3. CASE c # "/"
    <2> DEFINE w == e[Len(e)]
               f == [e EXCEPT ![Len(e)] = Append(w, c)]
    <2>1. w \in Seq(Chars) /\ Slashes(w) = {}
      BY <1>1 DEF SlashFree
    <2>2. Append(w, c) \in Seq(Chars) /\ Slashes(Append(w, c)) = {}
      BY <1>3, <2>1 DEF Slashes
    <2>3. Append(w, c) \in SlashFree
      BY <2>2 DEF SlashFree
    <2> HIDE DEF w
    <2>4. f \in Seq(SlashFree) /\ Len(f) = Len(e)
      BY <1>1, <2>3, ExceptSeq
    <2>5. Extended(e, c) = f
      BY <1>3 DEF Extended, w
    <2> HIDE DEF f
    <2>6. QED
      BY <1>1, <2>4, <2>5 DEF Splits
  <1>4. QED
    BY <1>2, <1>3

(* The function that Elements is defined by exists.                        *)
LEMMA ElementsRun ==
  ASSUME NEW p \in Seq(Chars)
  PROVE  \E f \in [0 .. Len(p) -> Splits] :
           /\ f[0] = <<<<>>>>
           /\ \A i \in 1 .. Len(p) : f[i] = Extended(f[i - 1], p[i])
           /\ Elements(p) = f[Len(p)]
  <1> DEFINE n == Len(p)
             step == [x \in (1 .. n) \X Splits |-> Extended(x[2], p[x[1]])]
             Turn(f, i) == IF i = 0 THEN <<<<>>>> ELSE Extended(f[i - 1], p[i])
             Solves(f) == f = [i \in 0 .. n |-> Turn(f, i)]
             names == CHOOSE f : Solves(f)
  <1>1. n \in Nat /\ \A i \in 1 .. n : p[i] \in Chars
    OBVIOUS
  <1>2. step \in Steps(n, Splits)
    BY <1>1, ExtendedType DEF Steps
  <1>3. \A i \in 1 .. n, e \in Splits : step[<<i, e>>] = Extended(e, p[i])
    OBVIOUS
  <1> HIDE DEF step
  <1>4. PICK run \in [0 .. n -> Splits] :
          /\ run[0] = <<<<>>>>
          /\ \A i \in 1 .. n : run[i] = step[<<i, run[i - 1]>>]
    <2> DEFINE base == <<<<>>>>
    <2>1. base \in Splits
      BY EmptyIsSlashFree
    <2> HIDE DEF base, n
    <2>2. Runs(n, Splits, base, step) # {}
      BY <1>1, <1>2, <2>1, RunExists
    <2>3. QED
      BY <2>2 DEF base, Runs
  <1>5. \A i \in 1 .. n : run[i] = Extended(run[i - 1], p[i])
    <2>1. \A i \in 1 .. n : run[i - 1] \in Splits
      BY <1>1
    <2>2. QED
      BY <1>3, <1>4, <2>1
  <1>6. Solves(run)
    <2>1. ASSUME NEW i \in 0 .. n
          PROVE  run[i] = Turn(run, i)
      <3>1. i = 0 \/ i \in 1 .. n
        BY <1>1
      <3>2. QED
        BY <1>4, <1>5, <3>1
    <2> HIDE DEF Turn
    <2>2. QED
      BY <2>1
  <1>7. Elements(p) = names[n]
    BY DEF Elements
  <1>8. Solves(names)
    <2> HIDE DEF Solves
    <2>1. QED
      BY <1>6
  <1> HIDE DEF names
  <1>9. names[0] = <<<<>>>> /\ \A i \in 1 .. n : names[i] = Extended(names[i - 1], p[i])
    <2>1. \A i \in 0 .. n : names[i] = Turn(names, i)
      <3> HIDE DEF Turn
      <3>1. QED
        BY <1>8
    <2>2. QED
      BY <1>1, <2>1
  <1>10. \A i \in 0 .. n : run[i] = names[i]
    <2>1. KeepTogether(n, run, names)
      BY <1>4, <1>5, <1>9 DEF KeepTogether
    <2>2. QED
      BY <1>1, <2>1, RunsAgree
  <1>11. n \in 0 .. n
    BY <1>1
  <1>12. QED
    BY <1>4, <1>5, <1>7, <1>10, <1>11

LEMMA ElementsType ==
  ASSUME NEW p \in Seq(Chars)
  PROVE  Elements(p) \in Splits
  <1>1. Len(p) \in 0 .. Len(p)
    OBVIOUS
  <1>2. QED
    BY <1>1, ElementsRun

LEMMA ElementsEmpty == Elements(<<>>) = <<<<>>>>
  <1>1. <<>> \in Seq(Chars) /\ Len(<<>>) = 0
    OBVIOUS
  <1> DEFINE p == <<>>
  <1> HIDE DEF p
  <1>2. p \in Seq(Chars) /\ Len(p) = 0
    BY <1>1 DEF p
  <1>3. Elements(p) = <<<<>>>>
    BY <1>2, ElementsRun
  <1>4. QED
    BY <1>3 DEF p

LEMMA ElementsAppend ==
  ASSUME NEW p \in Seq(Chars), NEW c \in Chars
  PROVE  Elements(Append(p, c)) = Extended(Elements(p), c)
  <1> DEFINE q == Append(p, c)
             n == Len(p)
  <1>1. /\ q \in Seq(Chars) /\ Len(q) = n + 1 /\ n \in Nat
        /\ q[n + 1] = c
        /\ \A i \in 1 .. n : q[i] = p[i]
    BY AppendProperties
  <1>2. PICK f : /\ f[0] = <<<<>>>>
                 /\ \A i \in 1 .. n : f[i] = Extended(f[i - 1], p[i])
                 /\ Elements(p) = f[n]
    BY ElementsRun
  <1> HIDE DEF q, n
  <1>3. PICK g : /\ g[0] = <<<<>>>>
                 /\ \A i \in 1 .. n + 1 : g[i] = Extended(g[i - 1], q[i])
                 /\ Elements(q) = g[n + 1]
    BY <1>1, ElementsRun
  <1>4. KeepTogether(n, f, g)
    BY <1>1, <1>2, <1>3 DEF KeepTogether
  <1>5. f[n] = g[n]
    BY <1>1, <1>4, RunsAgree
  <1>6. n + 1 \in 1 .. n + 1 /\ (n + 1) - 1 = n
    BY <1>1
  <1>7. g[n + 1] = Extended(g[n], c)
    BY <1>1, <1>3, <1>6
  <1>8. QED
    BY <1>2, <1>3, <1>5, <1>7 DEF q

(* A name that is added after a slash is one more element.                 *)
LEMMA ElementsOfChild ==
  ASSUME NEW p \in Seq(Chars), NEW w \in SlashFree
  PROVE  Elements(Below(p, w)) = Append(Elements(p), w)
  <1> DEFINE q == p \o <<"/">>
             E == Elements(p)
             T == {v \in Seq(Chars) : Slashes(v) = {} =>
                     Elements(q \o v) = Append(E, v)}
  <1>1. q = Append(p, "/") /\ q \in Seq(Chars)
    <2>1. "/" \in Chars
      BY ObjectIdsAssumption
    <2>2. QED
      BY <2>1, AppendIsConcat, AppendProperties
  <1>2. E \in Seq(SlashFree)
    BY ElementsType DEF Splits
  <1> HIDE DEF q, E
  <1>3. Elements(q) = Append(E, <<>>)
    BY <1>1, ObjectIdsAssumption, ElementsAppend DEF Extended, E
  <1>4. <<>> \in T
    <2>1. q \o <<>> = q
      BY <1>1, ConcatEmptySeq
    <2>2. QED
      BY <1>3, <2>1
  <1>5. ASSUME NEW v \in Seq(Chars), NEW c \in Chars, v \in T
        PROVE  Append(v, c) \in T
    <2>1. Append(v, c) \in Seq(Chars)
      OBVIOUS
    <2>2. SUFFICES ASSUME Slashes(Append(v, c)) = {}
                   PROVE  Elements(q \o Append(v, c)) = Append(E, Append(v, c))
      BY <2>1
    <2>3. c # "/" /\ Slashes(v) = {}
      <3>1. /\ Len(Append(v, c)) = Len(v) + 1
            /\ Append(v, c)[Len(v) + 1] = c
            /\ \A i \in 1 .. Len(v) : Append(v, c)[i] = v[i]
        BY AppendProperties
      <3>2. QED
        BY <2>1, <2>2, <3>1 DEF Slashes
    <2>4. q \o Append(v, c) = Append(q \o v, c) /\ q \o v \in Seq(Chars)
      <3>1. Append(v, c) = v \o <<c>> /\ Append(q \o v, c) = (q \o v) \o <<c>>
        BY <1>1, AppendIsConcat, ConcatProperties
      <3>2. QED
        BY <1>1, <3>1, ConcatAssociative, ConcatProperties
    <2>5. Elements(q \o v) = Append(E, v)
      BY <1>5, <2>3
    <2>6. Elements(q \o Append(v, c)) = Extended(Append(E, v), c)
      BY <2>4, <2>5, ElementsAppend
    <2> DEFINE F == Append(E, v)
    <2>7. v \in SlashFree /\ Append(v, c) \in SlashFree
      BY <2>1, <2>2, <2>3 DEF SlashFree
    <2>8. /\ F \in Seq(SlashFree) /\ Len(F) = Len(E) + 1
          /\ F[Len(E) + 1] = v /\ \A i \in 1 .. Len(E) : F[i] = E[i]
      BY <1>2, <2>7, AppendProperties
    <2> HIDE DEF F
    <2>9. Extended(F, c) = [F EXCEPT ![Len(F)] = Append(v, c)]
      BY <1>2, <2>3, <2>8 DEF Extended
    <2> DEFINE G == Append(E, Append(v, c))
               H == [F EXCEPT ![Len(F)] = Append(v, c)]
    <2>10. /\ G \in Seq(SlashFree) /\ Len(G) = Len(E) + 1
           /\ G[Len(E) + 1] = Append(v, c) /\ \A i \in 1 .. Len(E) : G[i] = E[i]
      BY <1>2, <2>7, AppendProperties
    <2>11. /\ H \in Seq(SlashFree) /\ Len(H) = Len(E) + 1
           /\ H[Len(E) + 1] = Append(v, c) /\ \A i \in 1 .. Len(E) : H[i] = E[i]
      BY <1>2, <2>7, <2>8, ExceptSeq
    <2> HIDE DEF G, H
    <2>12. G = H
      <3>1. Len(E) \in Nat
        BY <1>2
      <3>2. ASSUME NEW i \in 1 .. Len(G)
            PROVE  G[i] = H[i]
        <4>1. i = Len(E) + 1 \/ i \in 1 .. Len(E)
          BY <2>10, <3>1
        <4>2. QED
          BY <2>10, <2>11, <4>1
      <3>3. G \in Seq(SlashFree) /\ H \in Seq(SlashFree)
        BY <2>10, <2>11
      <3>4. QED
        BY <2>10, <2>11, <3>2, <3>3, SeqEqual
    <2>13. QED
      BY <2>6, <2>9, <2>12 DEF F, G, H
  <1>6. Seq(Chars) \subseteq T
    <2> HIDE DEF T
    <2>1. QED
      BY <1>4, <1>5, SeqSetInduction
  <1>7. QED
    BY <1>6 DEF SlashFree, q, E, Below

-----------------------------------------------------------------------------
(* The names that are left.                                                *)

ProperNames == {w \in SlashFree : IsName(w)}

LEMMA FollowType ==
  ASSUME NEW names \in Seq(ProperNames), NEW w \in SlashFree
  PROVE  Follow(names, w) \in Seq(ProperNames)
  <1>1. CASE w \in {<<>>, <<".">>}
    BY <1>1 DEF Follow
  <1>2. CASE w = <<".", ".">> /\ w \notin {<<>>, <<".">>}
    <2>1. Follow(names, w) = SubSeq(names, 1, Len(names) - 1)
      BY <1>2 DEF Follow
    <2>2. CASE Len(names) = 0
      <3>1. SubSeq(names, 1, Len(names) - 1) = <<>>
        BY <2>2
      <3>2. QED
        BY <2>1, <3>1, EmptySeq
    <2>3. CASE Len(names) # 0
      BY <2>1, <2>3
    <2>4. QED
      BY <2>2, <2>3
  <1>3. CASE w \notin {<<>>, <<".">>, <<".", ".">>}
    <2>1. w \in ProperNames
      BY <1>3 DEF ProperNames, IsName, SlashFree
    <2>2. Follow(names, w) = Append(names, w)
      BY <1>3 DEF Follow
    <2>3. QED
      BY <2>1, <2>2
  <1>4. QED
    BY <1>1, <1>2, <1>3

LEMMA FollowedRun ==
  ASSUME NEW s \in Seq(SlashFree)
  PROVE  \E f \in [0 .. Len(s) -> Seq(ProperNames)] :
           /\ f[0] = <<>>
           /\ \A i \in 1 .. Len(s) : f[i] = Follow(f[i - 1], s[i])
           /\ Followed(s) = f[Len(s)]
  <1> DEFINE n == Len(s)
             step == [x \in (1 .. n) \X Seq(ProperNames) |-> Follow(x[2], s[x[1]])]
             Turn(f, i) == IF i = 0 THEN <<>> ELSE Follow(f[i - 1], s[i])
             Solves(f) == f = [i \in 0 .. n |-> Turn(f, i)]
             result == CHOOSE f : Solves(f)
  <1>1. n \in Nat /\ \A i \in 1 .. n : s[i] \in SlashFree
    OBVIOUS
  <1>2. step \in Steps(n, Seq(ProperNames))
    BY <1>1, FollowType DEF Steps
  <1>3. \A i \in 1 .. n, e \in Seq(ProperNames) : step[<<i, e>>] = Follow(e, s[i])
    OBVIOUS
  <1> HIDE DEF step
  <1>4. PICK run \in [0 .. n -> Seq(ProperNames)] :
          /\ run[0] = <<>>
          /\ \A i \in 1 .. n : run[i] = step[<<i, run[i - 1]>>]
    <2> DEFINE base == <<>>
    <2>1. base \in Seq(ProperNames)
      BY EmptySeq
    <2> HIDE DEF base, n
    <2>2. Runs(n, Seq(ProperNames), base, step) # {}
      BY <1>1, <1>2, <2>1, RunExists
    <2>3. QED
      BY <2>2 DEF base, Runs
  <1>5. \A i \in 1 .. n : run[i] = Follow(run[i - 1], s[i])
    <2>1. \A i \in 1 .. n : run[i - 1] \in Seq(ProperNames)
      BY <1>1
    <2>2. QED
      BY <1>3, <1>4, <2>1
  <1>6. Solves(run)
    <2>1. ASSUME NEW i \in 0 .. n
          PROVE  run[i] = Turn(run, i)
      <3>1. i = 0 \/ i \in 1 .. n
        BY <1>1
      <3>2. QED
        BY <1>4, <1>5, <3>1
    <2> HIDE DEF Turn
    <2>2. QED
      BY <2>1
  <1>7. Followed(s) = result[n]
    BY DEF Followed
  <1>8. Solves(result)
    <2> HIDE DEF Solves
    <2>1. QED
      BY <1>6
  <1> HIDE DEF result
  <1>9. /\ result[0] = <<>>
        /\ \A i \in 1 .. n : result[i] = Follow(result[i - 1], s[i])
    <2>1. \A i \in 0 .. n : result[i] = Turn(result, i)
      <3> HIDE DEF Turn
      <3>1. QED
        BY <1>8
    <2>2. QED
      BY <1>1, <2>1
  <1>10. \A i \in 0 .. n : run[i] = result[i]
    <2>1. KeepTogether(n, run, result)
      BY <1>4, <1>5, <1>9 DEF KeepTogether
    <2>2. QED
      BY <1>1, <2>1, RunsAgree
  <1>11. n \in 0 .. n
    BY <1>1
  <1>12. QED
    BY <1>4, <1>5, <1>7, <1>10, <1>11

LEMMA FollowedType ==
  ASSUME NEW s \in Seq(SlashFree)
  PROVE  Followed(s) \in Seq(ProperNames)
  <1>1. Len(s) \in 0 .. Len(s)
    OBVIOUS
  <1>2. QED
    BY <1>1, FollowedRun

LEMMA FollowedEmpty == Followed(<<>>) = <<>>
  <1> DEFINE s == <<>>
  <1>1. s \in Seq(SlashFree) /\ Len(s) = 0
    OBVIOUS
  <1> HIDE DEF s
  <1>2. Followed(s) = <<>>
    BY <1>1, FollowedRun
  <1>3. QED
    BY <1>2 DEF s

LEMMA FollowedAppend ==
  ASSUME NEW s \in Seq(SlashFree), NEW x \in SlashFree
  PROVE  Followed(Append(s, x)) = Follow(Followed(s), x)
  <1> DEFINE t == Append(s, x)
             n == Len(s)
  <1>1. /\ t \in Seq(SlashFree) /\ Len(t) = n + 1 /\ n \in Nat
        /\ t[n + 1] = x
        /\ \A i \in 1 .. n : t[i] = s[i]
    BY AppendProperties
  <1>2. PICK f : /\ f[0] = <<>>
                 /\ \A i \in 1 .. n : f[i] = Follow(f[i - 1], s[i])
                 /\ Followed(s) = f[n]
    BY FollowedRun
  <1> HIDE DEF t, n
  <1>3. PICK g : /\ g[0] = <<>>
                 /\ \A i \in 1 .. n + 1 : g[i] = Follow(g[i - 1], t[i])
                 /\ Followed(t) = g[n + 1]
    BY <1>1, FollowedRun
  <1>4. KeepTogether(n, f, g)
    BY <1>1, <1>2, <1>3 DEF KeepTogether
  <1>5. f[n] = g[n]
    BY <1>1, <1>4, RunsAgree
  <1>6. n + 1 \in 1 .. n + 1 /\ (n + 1) - 1 = n
    BY <1>1
  <1>7. g[n + 1] = Follow(g[n], x)
    BY <1>1, <1>3, <1>6
  <1>8. QED
    BY <1>2, <1>3, <1>5, <1>7 DEF t

-----------------------------------------------------------------------------
(* The path of names.                                                      *)

LEMMA BelowType ==
  ASSUME NEW p \in Seq(Chars), NEW w \in ProperNames
  PROVE  Below(p, w) \in Seq(Chars)
  <1>1. "/" \in Chars /\ w \in Seq(Chars)
    BY ObjectIdsAssumption DEF ProperNames, SlashFree
  <1>2. QED
    BY <1>1 DEF Below

LEMMA JoinedRun ==
  ASSUME NEW s \in Seq(ProperNames)
  PROVE  \E f \in [0 .. Len(s) -> Seq(Chars)] :
           /\ f[0] = <<>>
           /\ \A i \in 1 .. Len(s) : f[i] = Below(f[i - 1], s[i])
           /\ Joined(s) = f[Len(s)]
  <1> DEFINE n == Len(s)
             step == [x \in (1 .. n) \X Seq(Chars) |-> Below(x[2], s[x[1]])]
             Turn(f, i) == IF i = 0 THEN <<>> ELSE Below(f[i - 1], s[i])
             Solves(f) == f = [i \in 0 .. n |-> Turn(f, i)]
             result == CHOOSE f : Solves(f)
  <1>1. n \in Nat /\ \A i \in 1 .. n : s[i] \in ProperNames
    OBVIOUS
  <1>2. step \in Steps(n, Seq(Chars))
    BY <1>1, BelowType DEF Steps
  <1>3. \A i \in 1 .. n, e \in Seq(Chars) : step[<<i, e>>] = Below(e, s[i])
    OBVIOUS
  <1> HIDE DEF step
  <1>4. PICK run \in [0 .. n -> Seq(Chars)] :
          /\ run[0] = <<>>
          /\ \A i \in 1 .. n : run[i] = step[<<i, run[i - 1]>>]
    <2> DEFINE base == <<>>
    <2>1. base \in Seq(Chars)
      BY EmptySeq
    <2> HIDE DEF base, n
    <2>2. Runs(n, Seq(Chars), base, step) # {}
      BY <1>1, <1>2, <2>1, RunExists
    <2>3. QED
      BY <2>2 DEF base, Runs
  <1>5. \A i \in 1 .. n : run[i] = Below(run[i - 1], s[i])
    <2>1. \A i \in 1 .. n : run[i - 1] \in Seq(Chars)
      BY <1>1
    <2>2. QED
      BY <1>3, <1>4, <2>1
  <1>6. Solves(run)
    <2>1. ASSUME NEW i \in 0 .. n
          PROVE  run[i] = Turn(run, i)
      <3>1. i = 0 \/ i \in 1 .. n
        BY <1>1
      <3>2. QED
        BY <1>4, <1>5, <3>1
    <2> HIDE DEF Turn
    <2>2. QED
      BY <2>1
  <1>7. Joined(s) = result[n]
    BY DEF Joined
  <1>8. Solves(result)
    <2> HIDE DEF Solves
    <2>1. QED
      BY <1>6
  <1> HIDE DEF result
  <1>9. /\ result[0] = <<>>
        /\ \A i \in 1 .. n : result[i] = Below(result[i - 1], s[i])
    <2>1. \A i \in 0 .. n : result[i] = Turn(result, i)
      <3> HIDE DEF Turn
      <3>1. QED
        BY <1>8
    <2>2. QED
      BY <1>1, <2>1
  <1>10. \A i \in 0 .. n : run[i] = result[i]
    <2>1. KeepTogether(n, run, result)
      BY <1>4, <1>5, <1>9 DEF KeepTogether
    <2>2. QED
      BY <1>1, <2>1, RunsAgree
  <1>11. n \in 0 .. n
    BY <1>1
  <1>12. QED
    BY <1>4, <1>5, <1>7, <1>10, <1>11

LEMMA JoinedType ==
  ASSUME NEW s \in Seq(ProperNames)
  PROVE  Joined(s) \in Seq(Chars)
  <1>1. Len(s) \in 0 .. Len(s)
    OBVIOUS
  <1>2. QED
    BY <1>1, JoinedRun

LEMMA JoinedEmpty == Joined(<<>>) = <<>>
  <1> DEFINE s == <<>>
  <1>1. s \in Seq(ProperNames) /\ Len(s) = 0
    OBVIOUS
  <1> HIDE DEF s
  <1>2. Joined(s) = <<>>
    BY <1>1, JoinedRun
  <1>3. QED
    BY <1>2 DEF s

LEMMA JoinedAppend ==
  ASSUME NEW s \in Seq(ProperNames), NEW x \in ProperNames
  PROVE  Joined(Append(s, x)) = Below(Joined(s), x)
  <1> DEFINE t == Append(s, x)
             n == Len(s)
  <1>1. /\ t \in Seq(ProperNames) /\ Len(t) = n + 1 /\ n \in Nat
        /\ t[n + 1] = x
        /\ \A i \in 1 .. n : t[i] = s[i]
    BY AppendProperties
  <1>2. PICK f : /\ f[0] = <<>>
                 /\ \A i \in 1 .. n : f[i] = Below(f[i - 1], s[i])
                 /\ Joined(s) = f[n]
    BY JoinedRun
  <1> HIDE DEF t, n
  <1>3. PICK g : /\ g[0] = <<>>
                 /\ \A i \in 1 .. n + 1 : g[i] = Below(g[i - 1], t[i])
                 /\ Joined(t) = g[n + 1]
    BY <1>1, JoinedRun
  <1>4. KeepTogether(n, f, g)
    BY <1>1, <1>2, <1>3 DEF KeepTogether
  <1>5. f[n] = g[n]
    BY <1>1, <1>4, RunsAgree
  <1>6. n + 1 \in 1 .. n + 1 /\ (n + 1) - 1 = n
    BY <1>1
  <1>7. g[n + 1] = Below(g[n], x)
    BY <1>1, <1>3, <1>6
  <1>8. QED
    BY <1>2, <1>3, <1>5, <1>7 DEF t

-----------------------------------------------------------------------------
(* Paths and their names.                                                  *)

(* What stands between the slashes of a rooted path.                       *)
Rooted(names) == <<<<>>>> \o names

LEMMA RootedEmpty == Rooted(<<>>) = <<<<>>>>
  BY EmptyIsSlashFree, ConcatEmptySeq DEF Rooted, Splits

LEMMA RootedType ==
  ASSUME NEW names \in Seq(ProperNames)
  PROVE  /\ Rooted(names) \in Seq(SlashFree)
         /\ Len(Rooted(names)) = Len(names) + 1
         /\ \A i \in 1 .. Len(names) : Rooted(names)[i + 1] = names[i]
  <1>1. <<<<>>>> \in Seq(SlashFree) /\ Len(<<<<>>>>) = 1
    BY EmptyIsSlashFree DEF Splits
  <1>2. names \in Seq(SlashFree)
    BY DEF ProperNames
  <1> DEFINE empty == <<<<>>>>
  <1> HIDE DEF empty
  <1>3. empty \in Seq(SlashFree) /\ Len(empty) = 1
    BY <1>1 DEF empty
  <1>4. Rooted(names) = empty \o names
    BY DEF Rooted, empty
  <1>5. /\ empty \o names \in Seq(SlashFree)
        /\ Len(empty \o names) = Len(empty) + Len(names)
        /\ \A i \in 1 .. Len(empty) + Len(names) :
             (empty \o names)[i] = IF i <= Len(empty) THEN empty[i]
                                   ELSE names[i - Len(empty)]
    BY <1>2, <1>3, ConcatProperties
  <1>6. Len(names) \in Nat
    OBVIOUS
  <1>7. ASSUME NEW i \in 1 .. Len(names)
        PROVE  (empty \o names)[i + 1] = names[i]
    <2>1. i + 1 \in 1 .. 1 + Len(names) /\ ~(i + 1 <= 1) /\ (i + 1) - 1 = i
      BY <1>6
    <2>2. QED
      BY <1>3, <1>5, <2>1
  <1>8. Len(empty) + Len(names) = Len(names) + 1
    BY <1>3, <1>6
  <1>9. QED
    BY <1>4, <1>5, <1>7, <1>8

LEMMA RootedAppend ==
  ASSUME NEW names \in Seq(ProperNames), NEW w \in ProperNames
  PROVE  Rooted(Append(names, w)) = Append(Rooted(names), w)
  <1>1. /\ Append(names, w) = names \o <<w>>
        /\ names \in Seq(SlashFree) /\ <<w>> \in Seq(SlashFree)
        /\ <<<<>>>> \in Seq(SlashFree)
    BY EmptyIsSlashFree, AppendIsConcat DEF ProperNames, Splits
  <1>2. Append(Rooted(names), w) = Rooted(names) \o <<w>>
    BY RootedType, AppendIsConcat DEF ProperNames
  <1>3. QED
    BY <1>1, <1>2, ConcatAssociative DEF Rooted

(* Proper names are followed without loss.                                 *)
LEMMA FollowProper ==
  ASSUME NEW names, NEW w \in ProperNames
  PROVE  Follow(names, w) = Append(names, w)
  BY DEF Follow, ProperNames, IsName

LEMMA FollowEmpty == ASSUME NEW names PROVE Follow(names, <<>>) = names
  BY DEF Follow

LEMMA FollowedRooted ==
  ASSUME NEW names \in Seq(ProperNames)
  PROVE  Followed(Rooted(names)) = names
  <1> DEFINE T == {s \in Seq(ProperNames) : Followed(Rooted(s)) = s}
  <1>1. <<>> \in T
    <2>1. <<<<>>>> = Append(<<>>, <<>>)
      OBVIOUS
    <2>2. Followed(Append(<<>>, <<>>)) = Follow(Followed(<<>>), <<>>)
      BY EmptyIsSlashFree, EmptySeq, FollowedAppend
    <2>3. Followed(Rooted(<<>>)) = <<>>
      BY <2>1, <2>2, RootedEmpty, FollowedEmpty, FollowEmpty
    <2>4. QED
      BY <2>3, EmptySeq
  <1>2. ASSUME NEW s \in Seq(ProperNames), NEW x \in ProperNames, s \in T
        PROVE  Append(s, x) \in T
    <2>1. Followed(Append(Rooted(s), x)) = Follow(Followed(Rooted(s)), x)
      BY RootedType, FollowedAppend DEF ProperNames
    <2>2. Followed(Rooted(Append(s, x))) = Append(s, x)
      BY <1>2, <2>1, RootedAppend, FollowProper
    <2>3. QED
      BY <2>2
  <1>3. Seq(ProperNames) \subseteq T
    <2> HIDE DEF T
    <2>1. QED
      BY <1>1, <1>2, SeqSetInduction
  <1>4. QED
    BY <1>3

LEMMA ElementsOfJoined ==
  ASSUME NEW names \in Seq(ProperNames)
  PROVE  Elements(Joined(names)) = Rooted(names)
  <1> DEFINE T == {s \in Seq(ProperNames) : Elements(Joined(s)) = Rooted(s)}
  <1>1. <<>> \in T
    BY EmptySeq, JoinedEmpty, ElementsEmpty, RootedEmpty
  <1>2. ASSUME NEW s \in Seq(ProperNames), NEW x \in ProperNames, s \in T
        PROVE  Append(s, x) \in T
    <2>1. Joined(s) \in Seq(Chars) /\ x \in SlashFree
      BY JoinedType DEF ProperNames
    <2>2. Elements(Below(Joined(s), x)) = Append(Elements(Joined(s)), x)
      BY <2>1, ElementsOfChild
    <2>3. Elements(Joined(Append(s, x))) = Rooted(Append(s, x))
      BY <1>2, <2>2, JoinedAppend, RootedAppend
    <2>4. QED
      BY <2>3
  <1>3. Seq(ProperNames) \subseteq T
    <2> HIDE DEF T
    <2>1. QED
      BY <1>1, <1>2, SeqSetInduction
  <1>4. QED
    BY <1>3

(* A path of proper names is rooted.                                       *)
LEMMA BelowIsAbs ==
  ASSUME NEW p \in Seq(Chars), NEW w \in ProperNames, p = <<>> \/ p[1] = "/"
  PROVE  IsAbs(Below(p, w))
  <1> DEFINE q == p \o <<"/">>
  <1>1. "/" \in Chars /\ w \in Seq(Chars)
    BY ObjectIdsAssumption DEF ProperNames, SlashFree
  <1>2. /\ q \in Seq(Chars)
        /\ Len(q) = Len(p) + 1
        /\ q[1] = IF 1 <= Len(p) THEN p[1] ELSE "/"
    BY <1>1
  <1>3. q[1] = "/"
    BY <1>2
  <1> HIDE DEF q
  <1>4. /\ q \o w \in Seq(Chars)
        /\ Len(q \o w) = Len(q) + Len(w)
        /\ (q \o w)[1] = q[1]
    <2>1. /\ q \o w \in Seq(Chars)
          /\ Len(q \o w) = Len(q) + Len(w)
          /\ \A i \in 1 .. Len(q) + Len(w) :
               (q \o w)[i] = IF i <= Len(q) THEN q[i] ELSE w[i - Len(q)]
      BY <1>1, <1>2, ConcatProperties
    <2>2. Len(p) \in Nat /\ Len(w) \in Nat /\ Len(q) = Len(p) + 1
      BY <1>1, <1>2
    <2>3. 1 \in 1 .. Len(q) + Len(w) /\ 1 <= Len(q)
      BY <2>2
    <2>4. QED
      BY <2>1, <2>3
  <1>5. Below(p, w) = q \o w
    BY DEF Below, q
  <1>6. Len(q \o w) # 0
    BY <1>1, <1>2, <1>4
  <1>7. QED
    BY <1>3, <1>4, <1>5, <1>6 DEF IsAbs

LEMMA JoinedIsAbs ==
  ASSUME NEW names \in Seq(ProperNames)
  PROVE  names = <<>> \/ IsAbs(Joined(names))
  <1> DEFINE T == {s \in Seq(ProperNames) : s = <<>> \/ IsAbs(Joined(s))}
  <1>1. <<>> \in T
    BY EmptySeq
  <1>2. ASSUME NEW s \in Seq(ProperNames), NEW x \in ProperNames, s \in T
        PROVE  Append(s, x) \in T
    <2>1. Joined(s) \in Seq(Chars) /\ (Joined(s) = <<>> \/ Joined(s)[1] = "/")
      BY <1>2, JoinedType, JoinedEmpty DEF IsAbs
    <2>2. IsAbs(Joined(Append(s, x)))
      BY <2>1, JoinedAppend, BelowIsAbs
    <2>3. QED
      BY <2>2
  <1>3. Seq(ProperNames) \subseteq T
    <2> HIDE DEF T
    <2>1. QED
      BY <1>1, <1>2, SeqSetInduction
  <1>4. QED
    BY <1>3

(* Clean returns the path of some proper names, and these paths it leaves  *)
(* alone.                                                                  *)
Paths == {PathOf(names) : names \in Seq(ProperNames)}

LEMMA NamesType ==
  ASSUME NEW p \in Seq(Chars)
  PROVE  Names(p) \in Seq(ProperNames)
  BY ElementsType, FollowedType DEF Names, Splits

LEMMA CleanIsPath ==
  ASSUME NEW p \in Seq(Chars)
  PROVE  Clean(p) \in Paths
  BY NamesType DEF Clean, Paths

LEMMA RootType == Root \in Seq(Chars) /\ IsAbs(Root)
  <1>1. "/" \in Chars
    BY ObjectIdsAssumption
  <1>2. QED
    BY <1>1 DEF Root, IsAbs

(* An empty element leads nowhere: a slash at the end makes no difference. *)
LEMMA NamesOfSlash ==
  ASSUME NEW names \in Seq(ProperNames)
  PROVE  Names(Below(Joined(names), <<>>)) = names
  <1>1. Elements(Below(Joined(names), <<>>)) = Append(Rooted(names), <<>>)
    BY JoinedType, EmptyIsSlashFree, ElementsOfChild, ElementsOfJoined
  <1>2. Followed(Append(Rooted(names), <<>>)) = Follow(Followed(Rooted(names)), <<>>)
    BY RootedType, EmptyIsSlashFree, FollowedAppend
  <1>3. QED
    BY <1>1, <1>2, FollowedRooted, FollowEmpty DEF Names

LEMMA NamesOfPath ==
  ASSUME NEW names \in Seq(ProperNames)
  PROVE  Names(PathOf(names)) = names
  <1>1. CASE names = <<>>
    <2>1. Below(Joined(<<>>), <<>>) = Root
      <3>1. <<>> \o <<"/">> = Root /\ Root \o <<>> = Root
        BY RootType, ConcatEmptySeq DEF Root
      <3>2. QED
        BY <3>1, JoinedEmpty DEF Below
    <2>2. QED
      BY <1>1, <2>1, NamesOfSlash DEF PathOf
  <1>2. CASE names # <<>>
    BY <1>2, ElementsOfJoined, FollowedRooted DEF PathOf, Names
  <1>3. QED
    BY <1>1, <1>2

LEMMA PathsAreClean ==
  ASSUME NEW names \in Seq(ProperNames)
  PROVE  /\ PathOf(names) \in Seq(Chars)
         /\ IsAbs(PathOf(names))
         /\ Clean(PathOf(names)) = PathOf(names)
  BY NamesOfPath, JoinedType, JoinedIsAbs, RootType DEF PathOf, Clean

(* A name below a path is one name more.                                   *)
LEMMA NamesOfChild ==
  ASSUME NEW p \in Seq(Chars), NEW w \in ProperNames
  PROVE  Names(Below(p, w)) = Append(Names(p), w)
  <1>1. w \in SlashFree
    BY DEF ProperNames
  <1>2. Elements(Below(p, w)) = Append(Elements(p), w)
    BY <1>1, ElementsOfChild
  <1>3. Elements(p) \in Seq(SlashFree)
    BY ElementsType DEF Splits
  <1>4. Followed(Append(Elements(p), w)) = Follow(Followed(Elements(p)), w)
    BY <1>1, <1>3, FollowedAppend
  <1>5. QED
    BY <1>2, <1>4, FollowProper DEF Names

LEMMA ChildOfPath ==
  ASSUME NEW names \in Seq(ProperNames), NEW w \in ProperNames
  PROVE  JoinPath(PathOf(names), w) = PathOf(Append(names, w))
  BY PathsAreClean, NamesOfChild, NamesOfPath DEF JoinPath, Clean

(* The last slash of a path stands before its last name.                   *)
LEMMA LastSlash ==
  ASSUME NEW p \in Seq(Chars), NEW w \in SlashFree
  PROVE  LET c == Below(p, w)
             i == CHOOSE i \in Slashes(c) : \A j \in Slashes(c) : j <= i
         IN SubSeq(c, 1, i) = Below(p, <<>>)
  <1> DEFINE c == Below(p, w)
             q == p \o <<"/">>
             k == Len(p) + 1
             i == CHOOSE i \in Slashes(c) : \A j \in Slashes(c) : j <= i
  <1>1. "/" \in Chars
    BY ObjectIdsAssumption
  <1>2. q \in Seq(Chars) /\ Len(q) = k /\ q[k] = "/" /\ k \in Nat /\ k >= 1
    BY <1>1
  <1>3. w \in Seq(Chars) /\ Len(w) \in Nat
    BY DEF SlashFree
  <1>4. c = q \o w
    BY DEF Below
  <1>5. Below(p, <<>>) = q
    BY <1>2, ConcatEmptySeq DEF Below
  <1> HIDE DEF q, k, c
  <1>6. /\ c \in Seq(Chars) /\ Len(c) = k + Len(w)
        /\ \A j \in 1 .. k : c[j] = q[j]
        /\ \A j \in k + 1 .. k + Len(w) : c[j] = w[j - k]
    <2>1. /\ q \o w \in Seq(Chars)
          /\ Len(q \o w) = Len(q) + Len(w)
          /\ \A j \in 1 .. Len(q) + Len(w) :
               (q \o w)[j] = IF j <= Len(q) THEN q[j] ELSE w[j - Len(q)]
      BY <1>2, <1>3, ConcatProperties
    <2>2. \A j \in 1 .. k : j \in 1 .. k + Len(w) /\ j <= k
      BY <1>2, <1>3
    <2>3. \A j \in k + 1 .. k + Len(w) : j \in 1 .. k + Len(w) /\ ~(j <= k)
      BY <1>2, <1>3
    <2>4. QED
      BY <1>2, <1>4, <2>1, <2>2, <2>3
  <1>7. k \in Slashes(c)
    BY <1>2, <1>3, <1>6 DEF Slashes
  <1>8. ASSUME NEW j \in Slashes(c)
        PROVE  j <= k
    <2>1. j \in 1 .. k + Len(w) /\ c[j] = "/"
      BY <1>6 DEF Slashes
    <2>2. SUFFICES ASSUME ~(j <= k) PROVE FALSE
      OBVIOUS
    <2>3. j \in k + 1 .. k + Len(w) /\ j - k \in 1 .. Len(w)
      BY <1>2, <1>3, <2>1, <2>2
    <2>4. w[j - k] = "/" /\ j - k \in DOMAIN w
      BY <1>3, <1>6, <2>1, <2>3
    <2>5. QED
      BY <2>4 DEF SlashFree, Slashes
  <1>9. Slashes(c) \subseteq Nat
    BY <1>6 DEF Slashes
  <1>10. i = k
    BY <1>2, <1>7, <1>8, <1>9
  <1> HIDE DEF i
  <1>11. SubSeq(c, 1, k) = q
    <2>1. /\ SubSeq(c, 1, k) \in Seq(Chars)
          /\ Len(SubSeq(c, 1, k)) = k
          /\ \A j \in 1 .. k : SubSeq(c, 1, k)[j] = c[j]
      BY <1>2, <1>3, <1>6
    <2>2. \A j \in 1 .. k : SubSeq(c, 1, k)[j] = q[j]
      BY <1>6, <2>1
    <2>3. QED
      BY <1>2, <2>1, <2>2, SeqEqual
  <1>12. SubSeq(c, 1, i) = Below(p, <<>>)
    BY <1>5, <1>10, <1>11
  <1>13. QED
    BY <1>12 DEF i, c

LEMMA DirOfChild ==
  ASSUME NEW names \in Seq(ProperNames), NEW w \in ProperNames
  PROVE  Dir(PathOf(Append(names, w))) = PathOf(names)
  <1>1. Append(names, w) # <<>>
    <2>1. Len(Append(names, w)) = Len(names) + 1 /\ Len(names) \in Nat
      BY AppendProperties
    <2>2. QED
      BY <2>1, EmptySeq
  <1>2. PathOf(Append(names, w)) = Below(Joined(names), w)
    BY <1>1, JoinedAppend DEF PathOf
  <1>3. Dir(Below(Joined(names), w)) = Clean(Below(Joined(names), <<>>))
    <2>1. Joined(names) \in Seq(Chars) /\ w \in SlashFree
      BY JoinedType DEF ProperNames
    <2>2. QED
      BY <2>1, LastSlash DEF Dir
  <1>4. QED
    BY <1>2, <1>3, NamesOfSlash DEF Clean

LEMMA ChildIsNotRoot ==
  ASSUME NEW names \in Seq(ProperNames), NEW w \in ProperNames
  PROVE  PathOf(Append(names, w)) # Root
  <1> DEFINE child == Append(names, w)
             none == <<>>
  <1>1. /\ child \in Seq(ProperNames) /\ child # none
        /\ none \in Seq(ProperNames) /\ PathOf(none) = Root
    BY EmptySeq DEF PathOf
  <1> HIDE DEF child, none
  <1>2. Names(PathOf(child)) = child /\ Names(PathOf(none)) = none
    BY <1>1, NamesOfPath
  <1>3. PathOf(child) # Root
    BY <1>1, <1>2
  <1>4. QED
    BY <1>3 DEF child

-----------------------------------------------------------------------------
(* Paths and ids.                                                          *)

(* One character survives the two conversions.                             *)
LEMMA DecodeEncode ==
  ASSUME NEW c \in Chars
  PROVE  Encode(c) # Plain("%") /\ Decode(Encode(c)) = c
  BY ObjectIdsAssumption DEF Encode, Decode, Plain, Escaped

(* url.QueryUnescape takes every text that url.QueryEscape returns, and    *)
(* gives back what was escaped: no name needs to avoid "%", "+" or " ".    *)
THEOREM QueryRoundTrip ==
  ASSUME NEW p \in Seq(Chars)
  PROVE  /\ Decodable(QueryEscape(p))
         /\ QueryUnescape(QueryEscape(p)) = p
  <1> DEFINE id == QueryEscape(p)
  <1>1. /\ DOMAIN id = DOMAIN p
        /\ \A i \in DOMAIN p : id[i] = Encode(p[i]) /\ p[i] \in Chars
    BY DEF QueryEscape
  <1>2. \A i \in DOMAIN p : id[i] # Plain("%") /\ Decode(id[i]) = p[i]
    BY <1>1, DecodeEncode
  <1>3. Decodable(id)
    BY <1>1, <1>2 DEF Decodable
  <1>4. QueryUnescape(id) = [i \in DOMAIN p |-> p[i]]
    BY <1>1, <1>2 DEF QueryUnescape
  <1>5. [i \in DOMAIN p |-> p[i]] = p
    OBVIOUS
  <1>6. QED
    BY <1>3, <1>4, <1>5

(* objectFromID gives the object back whose ID it is asked for, the root   *)
(* with its "0" and a file of the name 0 included.                         *)
THEOREM IdRoundTrip ==
  ASSUME NEW p \in Seq(Chars), IsAbs(p), Clean(p) = p
  PROVE  ObjectFromID(ID(p)) = {p}
  <1>1. CASE Len(p) = 1
    <2>1. p = Root
      BY <1>1 DEF IsAbs, Root
    <2>2. ID(p) = RootID
      BY <1>1 DEF ID
    <2>3. Decodable(RootID) /\ QueryUnescape(RootID) = <<"0">>
      <3>1. DOMAIN RootID = {1} /\ RootID[1] = Plain("0")
        BY DEF RootID
      <3>2. Plain("0") # Plain("%") /\ Decode(Plain("0")) = "0"
        BY DEF Plain, Decode
      <3>3. QueryUnescape(RootID) = [i \in {1} |-> "0"]
        BY <3>1, <3>2 DEF QueryUnescape
      <3>4. [i \in {1} |-> "0"] = <<"0">>
        OBVIOUS
      <3>5. QED
        BY <3>1, <3>2, <3>3, <3>4 DEF Decodable
    <2>4. IsAbs(Root)
      BY <2>1
    <2>5. QED
      BY <2>1, <2>2, <2>3, <2>4 DEF ObjectFromID
  <1>2. CASE Len(p) # 1
    <2>1. ID(p) = QueryEscape(p)
      BY <1>2 DEF ID
    <2>2. p # <<"0">>
      BY <1>2
    <2>3. QED
      BY <2>1, <2>2, QueryRoundTrip DEF ObjectFromID
  <1>3. QED
    BY <1>1, <1>2


(* The types of the two conversions.                                       *)
LEMMA QueryEscapeType ==
  ASSUME NEW p \in Seq(Chars)
  PROVE  QueryEscape(p) \in Seq(Tokens)
  <1>1. \A c \in Chars : Encode(c) \in Tokens
    BY ObjectIdsAssumption DEF Encode, Tokens, Plain, Escaped
  <1>2. \A i \in 1 .. Len(p) : p[i] \in Chars
    OBVIOUS
  <1>3. DOMAIN p = 1 .. Len(p) /\ Len(p) \in Nat
    OBVIOUS
  <1> HIDE DEF Encode, Tokens
  <1>4. QED
    BY <1>1, <1>2, <1>3 DEF QueryEscape

LEMMA RootIDType == RootID \in Seq(Tokens)
  <1>1. Plain("0") \in Tokens
    BY ObjectIdsAssumption DEF Tokens, Plain
  <1>2. QED
    BY <1>1 DEF RootID

LEMMA IDType == ASSUME NEW p \in Seq(Chars) PROVE ID(p) \in Seq(Tokens)
  BY QueryEscapeType, RootIDType DEF ID

LEMMA QueryUnescapeType ==
  ASSUME NEW id \in Seq(Tokens)
  PROVE  QueryUnescape(id) \in Seq(Chars)
  <1>1. \A t \in Tokens : Decode(t) \in Chars
    BY ObjectIdsAssumption DEF Decode, Tokens
  <1>2. \A i \in 1 .. Len(id) : id[i] \in Tokens
    OBVIOUS
  <1>3. DOMAIN id = 1 .. Len(id) /\ Len(id) \in Nat
    OBVIOUS
  <1> HIDE DEF Decode, Tokens
  <1>4. QED
    BY <1>1, <1>2, <1>3 DEF QueryUnescape

(* The object of an id, however it is spelled, is a clean path.            *)
LEMMA ObjectsArePaths ==
  ASSUME NEW id \in Seq(Tokens)
  PROVE  \/ ObjectFromID(id) = {}
         \/ \E names \in Seq(ProperNames) : ObjectFromID(id) = {PathOf(names)}
  <1> DEFINE p == QueryUnescape(id)
             q == IF p = <<"0">> THEN Root ELSE p
  <1>1. q \in Seq(Chars)
    BY QueryUnescapeType, RootType
  <1>2. ObjectFromID(id) = {} \/ ObjectFromID(id) = {Clean(q)}
    BY DEF ObjectFromID
  <1> HIDE DEF q
  <1>3. QED
    BY <1>1, <1>2, NamesType DEF Clean

(* Cleaning a path twice is cleaning it once: objectFromID may be given an *)
(* id that was made from a path it has cleaned before.                     *)
THEOREM CleanIsIdempotent ==
  ASSUME NEW p \in Seq(Chars)
  PROVE  IsAbs(Clean(p)) /\ Clean(Clean(p)) = Clean(p)
  BY NamesType, PathsAreClean DEF Clean

(* Two objects have two ids: ContentDirectory tells objects apart by their *)
(* ids alone. The objects are those that objectFromID may return.          *)
THEOREM IdsAreUnique ==
  ASSUME NEW id1 \in Seq(Tokens), NEW id2 \in Seq(Tokens),
         NEW p \in ObjectFromID(id1), NEW q \in ObjectFromID(id2), ID(p) = ID(q)
  PROVE  p = q
  <1>1. PICK names1 \in Seq(ProperNames) : p = PathOf(names1)
    BY ObjectsArePaths
  <1>2. PICK names2 \in Seq(ProperNames) : q = PathOf(names2)
    BY ObjectsArePaths
  <1>3. ObjectFromID(ID(p)) = {p} /\ ObjectFromID(ID(q)) = {q}
    BY <1>1, <1>2, PathsAreClean, IdRoundTrip
  <1>4. QED
    BY <1>3

-----------------------------------------------------------------------------
(* The client of FolderBrowser.                                            *)

LEMMA FileNamesAreProper == FileNames \subseteq ProperNames
  BY FolderBrowserAssumption DEF ProperNames, SlashFree, IsName

(* The id of a path is one that the server has written.                    *)
LEMMA IDIsWritten ==
  ASSUME NEW names \in Seq(ProperNames)
  PROVE  /\ IsWritten(ID(PathOf(names)))
         /\ ObjectFromID(ID(PathOf(names))) = {PathOf(names)}
  <1>1. ObjectFromID(ID(PathOf(names))) = {PathOf(names)}
    BY PathsAreClean, IdRoundTrip
  <1>2. ID(PathOf(names)) \in Seq(Tokens)
    BY PathsAreClean, IDType
  <1>3. QED
    BY <1>1, <1>2 DEF IsWritten

LEMMA RootIDIsWritten == IsWritten(RootID)
  <1> DEFINE none == <<>>
  <1>1. none \in Seq(ProperNames) /\ PathOf(none) = Root
    BY EmptySeq DEF PathOf
  <1>2. ID(Root) = RootID
    BY DEF ID, Root
  <1> HIDE DEF none
  <1>3. QED
    BY <1>1, <1>2, IDIsWritten

(* What a page says of the object n in the folder of some names.           *)
LEMMA ShownChild ==
  ASSUME NEW names \in Seq(ProperNames), NEW n \in FileNames
  PROVE  LET child == PathOf(Append(names, n))
         IN Shown(PathOf(names), n)
              = [id |-> ID(child), parent |-> ID(PathOf(names)), path |-> child]
  <1>1. n \in ProperNames
    BY FileNamesAreProper
  <1>2. JoinPath(PathOf(names), n) = PathOf(Append(names, n))
    BY <1>1, ChildOfPath
  <1>3. ParentID(PathOf(Append(names, n))) = ID(PathOf(names))
    BY <1>1, ChildIsNotRoot, DirOfChild DEF ParentID, IsRoot
  <1>4. QED
    BY <1>2, <1>3 DEF Shown

(* A page shows the children of the object that was asked for.             *)
LEMMA PageShowsChildren ==
  ASSUME NEW id \in Seq(Tokens), NEW o \in PageOf(id)
  PROVE  \E names \in Seq(ProperNames), n \in FileNames :
           /\ ObjectFromID(id) = {PathOf(names)}
           /\ Append(names, n) \in Seq(ProperNames)
           /\ o = [id |-> ID(PathOf(Append(names, n))), parent |-> ID(PathOf(names)),
                   path |-> PathOf(Append(names, n))]
  <1>1. PICK p \in ObjectFromID(id) : \E n \in Holds(p) : o = Shown(p, n)
    BY DEF PageOf
  <1>2. PICK names \in Seq(ProperNames) : ObjectFromID(id) = {PathOf(names)}
    BY <1>1, ObjectsArePaths
  <1>3. p = PathOf(names)
    BY <1>1, <1>2
  <1>4. PICK n \in FileNames : o = Shown(PathOf(names), n)
    BY <1>1, <1>3 DEF Holds
  <1>5. Append(names, n) \in Seq(ProperNames)
    BY FileNamesAreProper, AppendProperties
  <1>6. QED
    BY <1>2, <1>4, <1>5, ShownChild

LEMMA BrowserInit == Init => IInv
  <1> SUFFICES ASSUME Init PROVE IInv
    OBVIOUS
  <1>1. asked \in Seq(Tokens)
    BY FolderBrowserAssumption, RootIDType DEF Init
  <1>2. trail = <<>>
    BY DEF Init
  <1>3. trail \in Seq([id : Seq(Tokens), parent : Seq(Tokens), path : Seq(Chars)])
    BY <1>2, EmptySeq
  <1>4. asked = RootID \/ trail # <<>> => IsWritten(asked)
    BY <1>2, RootIDIsWritten
  <1>5. \A i \in DOMAIN trail : IsWritten(trail[i].parent)
    BY <1>2
  <1>6. QED
    BY <1>1, <1>3, <1>4, <1>5 DEF Init, IInv

LEMMA BrowserStep == IInv /\ [Next]_vars => IInv'
  <1> SUFFICES ASSUME IInv, [Next]_vars PROVE IInv'
    OBVIOUS
  <1> DEFINE Objects == [id : Seq(Tokens), parent : Seq(Tokens), path : Seq(Chars)]
  <1>1. ASSUME Up PROVE IInv'
    <2>1. trail \in Seq(Objects) /\ trail # <<>>
      BY <1>1 DEF IInv, Up
    <2>2. Len(trail) \in 1 .. Len(trail) /\ Len(trail) \in Nat
      BY <2>1, EmptySeq
    <2>3. asked' = trail[Len(trail)].parent /\ IsWritten(asked')
      BY <1>1, <2>1, <2>2 DEF Up, Browse, Last, IInv
    <2>4. /\ trail' \in Seq(Objects)
          /\ \A i \in DOMAIN trail' : i \in DOMAIN trail /\ trail'[i] = trail[i]
      <3> DEFINE k == Len(trail) - 1
      <3>1. trail' = SubSeq(trail, 1, k)
        BY <1>1 DEF Up, Front
      <3> HIDE DEF Objects
      <3>2. k \in Nat /\ \A i \in 1 .. k : i \in DOMAIN trail /\ trail[i] \in Objects
        BY <2>1, <2>2
      <3> HIDE DEF k
      <3>3. /\ trail' \in Seq(Objects) /\ Len(trail') = k
            /\ \A i \in 1 .. k : trail'[i] = trail[i]
        BY <3>1, <3>2, SubSeqProperties
      <3>4. DOMAIN trail' = 1 .. k
        BY <3>3
      <3>5. QED
        BY <3>2, <3>3, <3>4
    <2>5. \A i \in DOMAIN trail' : IsWritten(trail'[i].parent)
      BY <2>4 DEF IInv
    <2>6. QED
      BY <1>1, <2>3, <2>4, <2>5 DEF Up, Browse, IInv, IsWritten
  <1>2. ASSUME NEW o \in page, Enter(o) PROVE IInv'
    <2>1. PICK names \in Seq(ProperNames), n \in FileNames :
            /\ Append(names, n) \in Seq(ProperNames)
            /\ o = [id |-> ID(PathOf(Append(names, n))), parent |-> ID(PathOf(names)),
                    path |-> PathOf(Append(names, n))]
      BY PageShowsChildren DEF IInv
    <2>2. IsWritten(o.id) /\ IsWritten(o.parent) /\ o.path \in Seq(Chars)
      BY <2>1, IDIsWritten, PathsAreClean
    <2>3. o \in Objects
      BY <2>1, <2>2 DEF IsWritten
    <2>4. /\ trail \in Seq(Objects) /\ trail' = Append(trail, o)
          /\ asked' = o.id /\ object' = ObjectFromID(o.id) /\ page' = PageOf(o.id)
      BY <1>2 DEF IInv, Enter, Browse
    <2> HIDE DEF Objects
    <2>5. /\ trail' \in Seq(Objects)
          /\ Len(trail') = Len(trail) + 1
          /\ \A i \in 1 .. Len(trail) : trail'[i] = trail[i]
          /\ trail'[Len(trail) + 1] = o
      BY <2>3, <2>4, AppendProperties
    <2>6. ASSUME NEW i \in DOMAIN trail'
          PROVE  IsWritten(trail'[i].parent)
      <3>1. DOMAIN trail' = 1 .. Len(trail) + 1 /\ DOMAIN trail = 1 .. Len(trail)
        BY <2>4, <2>5
      <3>2. i \in 1 .. Len(trail) \/ i = Len(trail) + 1
        BY <2>4, <3>1
      <3>3. QED
        BY <2>2, <2>5, <3>1, <3>2 DEF IInv
    <2>7. asked' \in Seq(Tokens) /\ IsWritten(asked')
      BY <2>2, <2>4 DEF IsWritten
    <2>8. QED
      BY <2>4, <2>5, <2>6, <2>7 DEF IInv, Objects
  <1>3. ASSUME UNCHANGED vars PROVE IInv'
    BY <1>3 DEF IInv, vars
  <1>4. QED
    BY <1>1, <1>2, <1>3 DEF Next

(* What the server has answered follows from what it was asked, and the    *)
(* client's trail holds ids that the server has written.                   *)
THEOREM BrowserInvariant == Spec => []IInv
  <1>1. QED
    BY BrowserInit, BrowserStep, PTL DEF Spec

(* "The cleaned, absolute path for the object relative to the server":     *)
(* however an id is spelled, the path that is given to ReadDir stays in    *)
(* the server's tree.                                                      *)
THEOREM PathsAreCleaned == Spec => []PathIsClean
  <1>1. IInv => PathIsClean
    <2> SUFFICES ASSUME IInv, NEW p \in object
                 PROVE  /\ IsAbs(p)
                        /\ p # Root => \A i \in 2 .. Len(Elements(p)) : IsName(Elements(p)[i])
      BY DEF PathIsClean
    <2>1. PICK names \in Seq(ProperNames) : p = PathOf(names)
      BY ObjectsArePaths DEF IInv
    <2>2. ASSUME p # Root, NEW i \in 2 .. Len(Elements(p))
          PROVE  IsName(Elements(p)[i])
      <3>1. Elements(p) = Rooted(names)
        BY <2>1, <2>2, ElementsOfJoined DEF PathOf
      <3>2. Len(names) \in Nat
        OBVIOUS
      <3>3. i \in 2 .. Len(names) + 1
        BY <3>1, RootedType
      <3>4. i - 1 \in 1 .. Len(names) /\ (i - 1) + 1 = i
        BY <3>2, <3>3
      <3>5. Rooted(names)[i] = names[i - 1] /\ names[i - 1] \in ProperNames
        BY <3>4, RootedType
      <3>6. QED
        BY <3>1, <3>5 DEF ProperNames
    <2>3. QED
      BY <2>1, <2>2, PathsAreClean
  <1>2. QED
    BY <1>1, BrowserInvariant, PTL

(* The id that a page shows for an object leads to that very object,       *)
(* whatever the characters of its name and of the folders it is in.        *)
THEOREM ShownIdsLeadBack == Spec => []IdsLeadBack
  <1>1. IInv => IdsLeadBack
    <2> SUFFICES ASSUME IInv, NEW o \in page PROVE ObjectFromID(o.id) = {o.path}
      BY DEF IdsLeadBack
    <2>1. PICK names \in Seq(ProperNames), n \in FileNames :
            /\ Append(names, n) \in Seq(ProperNames)
            /\ o = [id |-> ID(PathOf(Append(names, n))), parent |-> ID(PathOf(names)),
                    path |-> PathOf(Append(names, n))]
      BY PageShowsChildren DEF IInv
    <2>2. QED
      BY <2>1, IDIsWritten
  <1>2. QED
    BY <1>1, BrowserInvariant, PTL

(* Going up undoes going down: the parent id of what a page shows leads to *)
(* the folder of the page, and is the id that a client from the root asked *)
(* for.                                                                    *)
THEOREM ShownParentsLeadBack == Spec => []ParentsLeadBack
  <1>1. IInv => ParentsLeadBack
    <2> SUFFICES ASSUME IInv, NEW o \in page
                 PROVE  /\ ObjectFromID(o.parent) = object
                        /\ asked = RootID \/ trail # <<>> => o.parent = asked
      BY DEF ParentsLeadBack
    <2>1. PICK names \in Seq(ProperNames), n \in FileNames :
            /\ object = {PathOf(names)}
            /\ o = [id |-> ID(PathOf(Append(names, n))), parent |-> ID(PathOf(names)),
                    path |-> PathOf(Append(names, n))]
      BY PageShowsChildren DEF IInv
    <2>2. ObjectFromID(o.parent) = object
      BY <2>1, IDIsWritten
    <2>3. ASSUME asked = RootID \/ trail # <<>>
          PROVE  o.parent = asked
      <3>1. asked = ID(PathOf(names))
        BY <2>1, <2>3 DEF IInv, IsWritten
      <3>2. QED
        BY <2>1, <3>1
    <2>4. QED
      BY <2>2, <2>3
  <1>2. QED
    BY <1>1, BrowserInvariant, PTL
=============================================================================
