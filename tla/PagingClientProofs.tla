------------------------- MODULE PagingClientProofs --------------------------
(***************************************************************************)
(* What a folder shows and what a page holds, that no legal request makes  *)
(* a handler panic, and that paging with Browse works: for all folders,    *)
(* all page sizes, all clients and any number of changes and retries, the  *)
(* pages fit together and a client that stops has the whole folder.        *)
(***************************************************************************)
EXTENDS PagingClient, SequenceLemmas

-----------------------------------------------------------------------------
(* The loop of readContainer.                                              *)

(* Its function exists and is what the recursion says.                     *)
LEMMA CollectedTurns ==
  ASSUME NEW l \in Seq(Entries)
  PROVE  /\ Collected(l)[0] = <<>>
         /\ \A i \in 1 .. Len(l) :
              Collected(l)[i] = IF Shown(l[i]) THEN Append(Collected(l)[i - 1], l[i])
                                ELSE Collected(l)[i - 1]
  <1> DEFINE Turn(f, i) == IF i = 0 THEN <<>>
                           ELSE IF Shown(l[i]) THEN Append(f[i - 1], l[i]) ELSE f[i - 1]
             Turns(f, n) == f = [i \in 0 .. n |-> Turn(f, i)]
             T == {n \in Nat : \E f : Turns(f, n)}
  <1>1. 0 \in T
    <2> DEFINE f == [i \in 0 .. 0 |-> <<>>]
    <2>1. Turns(f, 0)
      OBVIOUS
    <2>2. QED
      BY <2>1
  <1>2. ASSUME NEW n \in Nat, n \in T
        PROVE  n + 1 \in T
    <2>1. PICK f : Turns(f, n)
      BY <1>2
    <2> DEFINE g == [i \in 0 .. n + 1 |-> IF i = n + 1 THEN Turn(f, i) ELSE f[i]]
    <2>2. ASSUME NEW i \in 0 .. n + 1
          PROVE  g[i] = Turn(g, i)
      <3>1. CASE i = 0
        BY <2>1, <3>1
      <3>2. CASE i # 0
        <4>1. i - 1 \in 0 .. n /\ i - 1 # n + 1
          BY <3>2
        <4>2. g[i - 1] = f[i - 1]
          BY <4>1
        <4>3. CASE i = n + 1
          <5>1. g[i] = Turn(f, i)
            BY <4>3
          <5> HIDE DEF g
          <5>2. Turn(g, i) = Turn(f, i)
            BY <4>2
          <5>3. QED
            BY <5>1, <5>2
        <4>4. CASE i # n + 1
          <5>1. i \in 0 .. n /\ g[i] = f[i]
            BY <4>4
          <5>2. Turn(g, i) = Turn(f, i)
            <6> HIDE DEF g
            <6>1. QED
              BY <4>2
          <5>3. f[i] = Turn(f, i)
            <6>1. f = [j \in 0 .. n |-> Turn(f, j)]
              BY <2>1
            <6> HIDE DEF Turn
            <6>2. QED
              BY <5>1, <6>1
          <5>4. QED
            BY <5>1, <5>2, <5>3
        <4>5. QED
          BY <4>3, <4>4
      <3>3. QED
        BY <3>1, <3>2
    <2>3. Turns(g, n + 1)
      <3> HIDE DEF Turn
      <3>1. QED
        BY <2>2
    <2> HIDE DEF Turns
    <2>4. QED
      BY <2>3
  <1>3. Len(l) \in T
    <2> HIDE DEF T
    <2>1. QED
      BY <1>1, <1>2, NatSetInduction
  <1>4. Collected(l) = CHOOSE f : Turns(f, Len(l))
    BY DEF Collected
  <1>5. Turns(Collected(l), Len(l))
    BY <1>3, <1>4
  <1> DEFINE ret == Collected(l)
  <1>6. \A i \in 0 .. Len(l) : ret[i] = Turn(ret, i)
    <2>1. ret = [i \in 0 .. Len(l) |-> Turn(ret, i)]
      BY <1>5
    <2> HIDE DEF ret, Turn
    <2>2. QED
      BY <2>1
  <1> HIDE DEF ret
  <1>7. /\ ret[0] = <<>>
        /\ \A i \in 1 .. Len(l) :
             ret[i] = IF Shown(l[i]) THEN Append(ret[i - 1], l[i]) ELSE ret[i - 1]
    <2>1. Len(l) \in Nat
      OBVIOUS
    <2>2. QED
      BY <1>6, <2>1
  <1>8. QED
    BY <1>7 DEF ret

(* Its results are sequences of entries.                                   *)
LEMMA CollectedType ==
  ASSUME NEW l \in Seq(Entries), NEW i \in 0 .. Len(l)
  PROVE  Collected(l)[i] \in Seq(Entries)
  <1> DEFINE ret == Collected(l)
             T == {n \in Nat : n <= Len(l) => ret[n] \in Seq(Entries)}
  <1>1. 0 \in T
    <2>1. ret[0] = <<>>
      BY CollectedTurns
    <2> HIDE DEF ret
    <2>2. QED
      BY <2>1, EmptySeq
  <1>2. ASSUME NEW n \in Nat, n \in T
        PROVE  n + 1 \in T
    <2>1. SUFFICES ASSUME n + 1 <= Len(l) PROVE ret[n + 1] \in Seq(Entries)
      OBVIOUS
    <2>2. n + 1 \in 1 .. Len(l) /\ (n + 1) - 1 = n
      BY <2>1
    <2>3. ret[n + 1] = IF Shown(l[n + 1]) THEN Append(ret[n], l[n + 1]) ELSE ret[n]
      BY <2>2, CollectedTurns
    <2>4. ret[n] \in Seq(Entries) /\ l[n + 1] \in Entries
      BY <1>2, <2>1, <2>2
    <2> HIDE DEF ret
    <2>5. QED
      BY <2>3, <2>4
  <1>3. i \in T
    <2> HIDE DEF T
    <2>1. QED
      BY <1>1, <1>2, NatSetInduction
  <1>4. QED
    BY <1>3

LEMMA ObjectsType ==
  ASSUME NEW l \in Seq(Entries)
  PROVE  Objects(l) \in Seq(Entries)
  BY CollectedType DEF Objects

(* It has done the same when it has read the same.                         *)
LEMMA CollectedPrefix ==
  ASSUME NEW k \in Seq(Entries), NEW l \in Seq(Entries), IsPrefix(k, l),
         NEW i \in 0 .. Len(k)
  PROVE  Collected(k)[i] = Collected(l)[i]
  <1> DEFINE rk == Collected(k)
             rl == Collected(l)
             T == {n \in Nat : n <= Len(k) => rk[n] = rl[n]}
  <1>1. 0 \in T
    BY CollectedTurns
  <1>2. ASSUME NEW n \in Nat, n \in T
        PROVE  n + 1 \in T
    <2>1. SUFFICES ASSUME n + 1 <= Len(k) PROVE rk[n + 1] = rl[n + 1]
      OBVIOUS
    <2>2. /\ n + 1 \in 1 .. Len(k) /\ n + 1 \in 1 .. Len(l)
          /\ (n + 1) - 1 = n
          /\ k[n + 1] = l[n + 1]
      BY <2>1, PrefixByElements
    <2>3. rk[n + 1] = IF Shown(k[n + 1]) THEN Append(rk[n], k[n + 1]) ELSE rk[n]
      BY <2>2, CollectedTurns
    <2>4. rl[n + 1] = IF Shown(l[n + 1]) THEN Append(rl[n], l[n + 1]) ELSE rl[n]
      BY <2>2, CollectedTurns
    <2>5. rk[n] = rl[n]
      BY <1>2, <2>1
    <2> HIDE DEF rk, rl
    <2>6. QED
      BY <2>2, <2>3, <2>4, <2>5
  <1>3. i \in T
    <2> HIDE DEF T
    <2>1. QED
      BY <1>1, <1>2, NatSetInduction
  <1>4. QED
    BY <1>3

(* It only adds to what it has.                                            *)
LEMMA CollectedGrows ==
  ASSUME NEW l \in Seq(Entries), NEW m \in 0 .. Len(l), NEW i \in m .. Len(l)
  PROVE  IsPrefix(Collected(l)[m], Collected(l)[i])
  <1> DEFINE ret == Collected(l)
             T == {n \in Nat : m <= n /\ n <= Len(l) => IsPrefix(ret[m], ret[n])}
  <1>1. 0 \in T
    <2>1. m = 0 => ret[m] = ret[0] /\ ret[0] \in Seq(Entries)
      BY CollectedType
    <2> HIDE DEF ret
    <2>2. QED
      BY <2>1, PrefixReflexive
  <1>2. ASSUME NEW n \in Nat, n \in T
        PROVE  n + 1 \in T
    <2>1. SUFFICES ASSUME m <= n + 1, n + 1 <= Len(l)
                   PROVE  IsPrefix(ret[m], ret[n + 1])
      OBVIOUS
    <2>2. CASE m = n + 1
      BY <2>2, CollectedType, PrefixReflexive
    <2>3. CASE m <= n
      <3>1. n + 1 \in 1 .. Len(l) /\ (n + 1) - 1 = n /\ l[n + 1] \in Entries
        BY <2>1
      <3>2. ret[n + 1] = IF Shown(l[n + 1]) THEN Append(ret[n], l[n + 1]) ELSE ret[n]
        BY <3>1, CollectedTurns
      <3>3. /\ ret[m] \in Seq(Entries)
            /\ ret[n] \in Seq(Entries)
            /\ ret[n + 1] \in Seq(Entries)
        BY <2>1, CollectedType
      <3>4. IsPrefix(ret[m], ret[n])
        BY <1>2, <2>1, <2>3
      <3>5. IsPrefix(ret[n], ret[n + 1])
        <4> HIDE DEF ret
        <4>1. CASE Shown(l[n + 1])
          <5>1. ret[n + 1] = Append(ret[n], l[n + 1])
            BY <3>2, <4>1
          <5>2. Len(ret[n]) <= Len(ret[n + 1])
            BY <3>1, <3>3, <5>1
          <5>3. \A j \in 1 .. Len(ret[n]) : ret[n][j] = ret[n + 1][j]
            BY <3>1, <3>3, <5>1, AppendProperties
          <5>4. QED
            BY <3>3, <5>2, <5>3, PrefixByElements
        <4>2. CASE ~ Shown(l[n + 1])
          BY <3>2, <3>3, <4>2, PrefixReflexive
        <4>3. QED
          BY <4>1, <4>2
      <3>6. QED
        <4> HIDE DEF ret
        <4>1. QED
          BY <3>3, <3>4, <3>5, PrefixTransitive
    <2>4. QED
      BY <2>1, <2>2, <2>3
  <1>3. i \in T
    <2> HIDE DEF T
    <2>1. i \in Nat
      OBVIOUS
    <2>2. QED
      BY <1>1, <1>2, <2>1, NatSetInduction
  <1>4. QED
    BY <1>3

(* What a folder shows grows at its end when the folder does.              *)
LEMMA ObjectsPrefix ==
  ASSUME NEW k \in Seq(Entries), NEW l \in Seq(Entries), IsPrefix(k, l)
  PROVE  IsPrefix(Objects(k), Objects(l))
  <1>1. Len(k) \in 0 .. Len(l) /\ Len(l) \in Len(k) .. Len(l) /\ Len(k) \in 0 .. Len(k)
    BY PrefixByElements
  <1>2. Collected(k)[Len(k)] = Collected(l)[Len(k)]
    BY <1>1, CollectedPrefix
  <1>3. IsPrefix(Collected(l)[Len(k)], Collected(l)[Len(l)])
    BY <1>1, CollectedGrows
  <1>4. QED
    BY <1>2, <1>3 DEF Objects

-----------------------------------------------------------------------------
(* The page.                                                               *)

(* A legal request is cut within bounds, and its page holds what stands in *)
(* the listing from StartingIndex on, something if there is anything.      *)
LEMMA WindowPage ==
  ASSUME NEW objs \in Seq(Entries), NEW start \in Nat, NEW count \in Nat
  PROVE  LET w == Window(objs, start, count)
         IN /\ ~ OutOfBounds(objs, start, count)
            /\ w \in Seq(Entries)
            /\ start + Len(w) <= Len(objs) \/ w = <<>>
            /\ \A i \in 1 .. Len(w) : w[i] = objs[start + i]
            /\ w = <<>> => start >= Len(objs)
  <1> DEFINE low == Low(objs, start)
             rest == SubSeq(objs, low + 1, Len(objs))
  <1>1. low \in 0 .. Len(objs) /\ (start <= Len(objs) => low = start)
                               /\ (start > Len(objs) => low = Len(objs))
    BY DEF Low
  <1>2. ~ OutOfBounds(objs, start, count)
    BY <1>1 DEF OutOfBounds
  <1> HIDE DEF low
  <1>3. /\ rest \in Seq(Entries)
        /\ Len(rest) = Len(objs) - low
        /\ \A i \in 1 .. Len(rest) : rest[i] = objs[low + i]
    BY <1>1
  <1>4. Window(objs, start, count) =
          IF count # 0 /\ count < Len(rest) THEN SubSeq(rest, 1, count) ELSE rest
    BY DEF Window, low
  <1> HIDE DEF rest
  <1> DEFINE w == Window(objs, start, count)
  <1>5. /\ w \in Seq(Entries)
        /\ Len(w) <= Len(rest)
        /\ Len(w) = 0 => Len(rest) = 0
        /\ \A i \in 1 .. Len(w) : w[i] = rest[i]
    <2>1. CASE count # 0 /\ count < Len(rest)
      <3>1. w = SubSeq(rest, 1, count)
        BY <1>4, <2>1
      <3>2. QED
        BY <1>3, <2>1, <3>1
    <2>2. CASE ~ (count # 0 /\ count < Len(rest))
      BY <1>3, <1>4, <2>2
    <2>3. QED
      BY <2>1, <2>2
  <1> HIDE DEF w
  <1>6. start + Len(w) <= Len(objs) \/ w = <<>>
    BY <1>1, <1>3, <1>5
  <1>7. ASSUME NEW i \in 1 .. Len(w)
        PROVE  w[i] = objs[start + i]
    <2>1. low = start /\ i \in 1 .. Len(rest)
      BY <1>1, <1>3, <1>5
    <2>2. QED
      BY <1>3, <1>5, <2>1
  <1>8. w = <<>> => start >= Len(objs)
    BY <1>1, <1>3, <1>5
  <1>9. QED
    BY <1>2, <1>5, <1>6, <1>7, <1>8 DEF w

-----------------------------------------------------------------------------
(* The handlers.                                                           *)

(* The answers that need no look at the folders are no panics.             *)
LEMMA ImmediateAnswers ==
  ASSUME NEW q
  PROVE  Immediate(q).kind \in {"bad", "result", "fault"}
  BY DEF Immediate, Bad, Result, Fault

(* The page of a legal request is none.                                    *)
LEMMA PageAnswers ==
  ASSUME NEW l \in Seq(Entries), NEW q, q.start \in Nat, q.count \in Nat
  PROVE  PageOf(l, q) = Page(Window(Objects(l), q.start, q.count), Len(Objects(l)))
  BY ObjectsType, WindowPage DEF PageOf

(* The initial states satisfy the invariant.                               *)
LEMMA ControlInvInit == Init => ControlInv
  BY ServiceControlAssumption
  DEF Init, ControlInv, TypeOK, ListingInv, LegalRequestsDoNotPanic

(* Every step of a request keeps it, whatever the client asks for.         *)
LEMMA ReceiveStep ==
  ASSUME ControlInv, NEW c \in Clients, NEW q, IsRequest(q), Receive(c, q)
  PROVE  ControlInv'
  BY DEF Receive, ControlInv, TypeOK, ListingInv, LegalRequestsDoNotPanic

LEMMA DispatchStep ==
  ASSUME ControlInv, NEW c \in Clients, Dispatch(c)
  PROVE  ControlInv'
  <1> USE DEF ControlInv, TypeOK, ListingInv, LegalRequestsDoNotPanic
  <1>1. PICK q \in request[c] :
          IF Lists(q)
            THEN /\ stage' = [stage EXCEPT ![c] = "listing"]
                 /\ UNCHANGED reply
            ELSE /\ stage' = [stage EXCEPT ![c] = "answered"]
                 /\ reply' = [reply EXCEPT ![c] = {Immediate(q)}]
    BY DEF Dispatch
  <1>2. /\ stage[c] = "received"
        /\ UNCHANGED <<webdav, changes, request>>
        /\ request[c] = {q}
    BY <1>1 DEF Dispatch
  <1>3. CASE Lists(q)
    BY <1>1, <1>2, <1>3
  <1>4. CASE ~ Lists(q)
    <2>1. Immediate(q) # Aborted
      BY ImmediateAnswers DEF Aborted
    <2>2. QED
      BY <1>1, <1>2, <1>4, <2>1
  <1>5. QED
    BY <1>3, <1>4

LEMMA ReadContainerStep ==
  ASSUME ControlInv, NEW c \in Clients, ReadContainer(c)
  PROVE  ControlInv'
  <1> USE DEF ControlInv, TypeOK, ListingInv, LegalRequestsDoNotPanic
  <1>1. PICK q \in request[c] : request[c] = {q}
    BY DEF ReadContainer
  <1>2. /\ stage[c] = "listing"
        /\ stage' = [stage EXCEPT ![c] = "answered"]
        /\ reply' = [reply EXCEPT ![c] = {PageOf(webdav[q.id], q)}]
        /\ UNCHANGED <<webdav, changes, request>>
    <2>1. {PageOf(webdav[r.id], r) : r \in request[c]} = {PageOf(webdav[q.id], q)}
      <3> DEFINE page(r) == PageOf(webdav[r.id], r)
      <3> HIDE DEF page
      <3>1. {page(r) : r \in request[c]} = {page(q)}
        BY <1>1
      <3>2. QED
        BY <3>1 DEF page
    <2>2. QED
      BY <2>1 DEF ReadContainer
  <1>3. webdav[q.id] \in Seq(Entries) /\ IsRequest(q)
    <2>1. q.id \in Folders
      BY <1>1, <1>2 DEF Lists
    <2>2. webdav[q.id] \in Listings
      BY <2>1
    <2>3. QED
      BY <2>2, <1>1, ServiceControlAssumption
  <1>4. q.start >= 0 /\ q.count >= 0 => PageOf(webdav[q.id], q) # Aborted
    <2>1. SUFFICES ASSUME q.start >= 0, q.count >= 0
                   PROVE  PageOf(webdav[q.id], q).kind = "page"
      BY DEF Aborted
    <2>2. QED
      BY <1>3, <2>1, PageAnswers DEF IsRequest, Page
  <1> DEFINE page == PageOf(webdav[q.id], q)
  <1> HIDE DEF page
  <1>5. reply' = [reply EXCEPT ![c] = {page}]
    BY <1>2 DEF page
  <1>6. q.start >= 0 /\ q.count >= 0 => page # Aborted
    BY <1>4 DEF page
  <1>7. QED
    BY <1>1, <1>2, <1>5, <1>6

LEMMA ReadDirFailsStep ==
  ASSUME ControlInv, NEW c \in Clients, ReadDirFails(c)
  PROVE  ControlInv'
  BY DEF ReadDirFails, Fault, Aborted, ControlInv, TypeOK, ListingInv,
         LegalRequestsDoNotPanic

LEMMA FinishStep ==
  ASSUME ControlInv, NEW c \in Clients, Finish(c)
  PROVE  ControlInv'
  BY DEF Finish, ControlInv, TypeOK, ListingInv, LegalRequestsDoNotPanic

LEMMA ChangeStep ==
  ASSUME ControlInv, NEW f \in Folders, NEW l \in Listings, Change(f, l)
  PROVE  ControlInv'
  BY ServiceControlAssumption
  DEF Change, ControlInv, TypeOK, ListingInv, LegalRequestsDoNotPanic

LEMMA ControlInvStep == ControlInv /\ [Next]_vars => ControlInv'
  <1> SUFFICES ASSUME ControlInv, [Next]_vars PROVE ControlInv'
    OBVIOUS
  <1>1. ASSUME NEW c \in Clients, HandlerStep(c) \/ Finish(c)
        PROVE  ControlInv'
    BY <1>1, DispatchStep, ReadContainerStep, ReadDirFailsStep, FinishStep
    DEF HandlerStep
  <1>2. ASSUME NEW c \in Clients, NEW q \in Requests, Receive(c, q)
        PROVE  ControlInv'
    BY <1>2, ReceiveStep, ServiceControlAssumption
  <1>3. ASSUME NEW f \in Folders, NEW l \in Listings, Change(f, l)
        PROVE  ControlInv'
    BY <1>3, ChangeStep
  <1>4. CASE UNCHANGED vars
    BY <1>4 DEF vars, ControlInv, TypeOK, ListingInv, LegalRequestsDoNotPanic
  <1>5. QED
    BY <1>1, <1>2, <1>3, <1>4 DEF Next

(* The services keep their types, and no request with numbers that their   *)
(* descriptions allow makes a handler panic, whatever happens to the       *)
(* folders between its arrival and ReadDir.                                *)
THEOREM LegalRequestsNeverPanic == Spec => [](TypeOK /\ LegalRequestsDoNotPanic)
  <1>1. ControlInv => TypeOK /\ LegalRequestsDoNotPanic
    BY DEF ControlInv
  <1>2. QED
    BY ControlInvInit, ControlInvStep, <1>1, PTL DEF Spec

-----------------------------------------------------------------------------
(* The clients of PagingClient.                                            *)

(* The request for a page is legal, and is listed.                         *)
LEMMA AskIsRequest ==
  ASSUME NEW f, NEW start \in Nat, NEW n \in Nat
  PROVE  /\ IsRequest(Ask(f, start, n))
         /\ Ask(f, start, n).id = f
         /\ Ask(f, start, n).start = start
         /\ Ask(f, start, n).count = n
  BY DEF Ask, IsRequest

-----------------------------------------------------------------------------
(* Lemmas on sequences and pages.                                          *)

LEMMA EmptyIsPrefix ==
  ASSUME NEW s \in Seq(Entries)
  PROVE  IsPrefix(<<>>, s)
  <1>1. <<>> \in Seq(Entries) /\ Len(<<>>) = 0
    OBVIOUS
  <1> DEFINE e == <<>>
  <1>2. e \in Seq(Entries) /\ Len(e) = 0
    BY <1>1
  <1> HIDE DEF e
  <1>3. IsPrefix(e, s)
    <2>1. Len(e) <= Len(s) /\ \A i \in 1 .. Len(e) : e[i] = s[i]
      BY <1>2
    <2>2. QED
      BY <1>2, <2>1, PrefixByElements
  <1>4. QED
    BY <1>3 DEF e

(* Of two prefixes of a sequence the shorter is a prefix of the longer.    *)
LEMMA PrefixesCompare ==
  ASSUME NEW s \in Seq(Entries), NEW t \in Seq(Entries), NEW u \in Seq(Entries),
         IsPrefix(s, u), IsPrefix(t, u), Len(s) <= Len(t)
  PROVE  IsPrefix(s, t)
  BY PrefixByElements

(* A page of what the folder shows now, cut from where the client stands,  *)
(* fits.                                                                   *)
LEMMA PageOfListingFits ==
  ASSUME NEW have \in Seq(Entries), NEW opened \in Seq(Entries),
         NEW now \in Seq(Entries), NEW n \in Nat,
         IsPrefix(have, now), IsPrefix(opened, now)
  PROVE  Fits(Page(Window(now, Len(have), n), Len(now)), have, opened, now)
  <1> DEFINE w == Window(now, Len(have), n)
  <1>1. /\ w \in Seq(Entries)
        /\ Len(have) + Len(w) <= Len(now) \/ w = <<>>
        /\ \A i \in 1 .. Len(w) : w[i] = now[Len(have) + i]
        /\ w = <<>> => Len(have) >= Len(now)
    BY WindowPage
  <1> HIDE DEF w
  <1>2. /\ Len(have) <= Len(now) /\ Len(opened) <= Len(now)
        /\ \A i \in 1 .. Len(have) : have[i] = now[i]
    BY PrefixByElements
  <1> DEFINE all == have \o w
  <1>3. /\ all \in Seq(Entries)
        /\ Len(all) = Len(have) + Len(w)
        /\ \A i \in 1 .. Len(all) :
             all[i] = IF i <= Len(have) THEN have[i] ELSE w[i - Len(have)]
    BY <1>1, ConcatProperties
  <1> HIDE DEF all
  <1>4. Len(all) <= Len(now)
    BY <1>1, <1>2, <1>3
  <1>5. ASSUME NEW i \in 1 .. Len(all)
        PROVE  all[i] = now[i]
    <2>1. CASE i <= Len(have)
      BY <1>2, <1>3, <2>1
    <2>2. CASE ~ (i <= Len(have))
      <3>1. i - Len(have) \in 1 .. Len(w) /\ Len(have) + (i - Len(have)) = i
        BY <1>1, <1>3, <2>2
      <3>2. w[i - Len(have)] = now[i]
        BY <1>1, <3>1
      <3>3. QED
        BY <1>3, <2>2, <3>2
    <2>3. QED
      BY <2>1, <2>2
  <1>6. IsPrefix(all, now)
    BY <1>3, <1>4, <1>5, PrefixByElements
  <1>7. w = <<>> => IsPrefix(opened, have)
    BY <1>1, <1>2, PrefixesCompare
  <1>8. Len(all) >= Len(now) => IsPrefix(opened, all)
    BY <1>2, <1>3, <1>6, PrefixesCompare
  <1>9. QED
    BY <1>6, <1>7, <1>8 DEF Fits, Page, all, w

-----------------------------------------------------------------------------
(* The steps.                                                              *)

(* What the folders hold is a sequence of entries.                         *)
LEMMA FoldersHoldSequences ==
  ASSUME TypeOK, NEW f \in Folders
  PROVE  webdav[f] \in Seq(Entries)
  BY ServiceControlAssumption DEF TypeOK

LEMMA PagingInvInit == PagingInit => PagingInv
  <1> SUFFICES ASSUME PagingInit PROVE PagingInv
    OBVIOUS
  <1>1. ControlInv
    BY ControlInvInit DEF PagingInit
  <1>2. ClientTypeOK
    BY EmptySeq DEF PagingInit, ClientTypeOK
  <1>3. QED
    BY <1>1, <1>2 DEF PagingInit, PagingInv, AsksForTheRest, NothingBeforeOpening,
                      OnlyGrew, PagesFitTogether, WholeFolder, PageFits

(* A handler that looks at no folder, or finds none, sends no page.        *)
LEMMA NoPageStep ==
  ASSUME PagingInv, NEW c \in Clients, Dispatch(c) \/ ReadDirFails(c),
         UNCHANGED clientVars
  PROVE  PagingInv'
  <1> USE DEF PagingInv, clientVars
  <1>1. ControlInv'
    BY DispatchStep, ReadDirFailsStep
  <1>2. /\ UNCHANGED <<webdav, request>>
        /\ \A d \in Clients : \A p \in reply'[d] : p.kind = "page" => p \in reply[d]
    <2>1. CASE Dispatch(c)
      BY <2>1, ImmediateAnswers DEF Dispatch, ControlInv, TypeOK
    <2>2. CASE ReadDirFails(c)
      BY <2>2 DEF ReadDirFails, Fault, ControlInv, TypeOK
    <2>3. QED
      BY <2>1, <2>2
  <1>3. ClientTypeOK' /\ NothingBeforeOpening' /\ WholeFolder'
    BY DEF ClientTypeOK, NothingBeforeOpening, WholeFolder
  <1>4. AsksForTheRest' /\ OnlyGrew' /\ PagesFitTogether'
    BY <1>2 DEF AsksForTheRest, OnlyGrew, PagesFitTogether
  <1>5. PageFits'
    BY <1>2 DEF PageFits
  <1>6. QED
    BY <1>1, <1>3, <1>4, <1>5

(* ReadContainer sends a page, and it fits.                                *)
LEMMA PageStep ==
  ASSUME PagingInv, NEW c \in Clients, ReadContainer(c), UNCHANGED clientVars
  PROVE  PagingInv'
  <1> USE DEF PagingInv, clientVars
  <1>1. ControlInv'
    BY ReadContainerStep
  <1>2. UNCHANGED <<webdav, request>>
    BY DEF ReadContainer
  <1>3. ClientTypeOK' /\ NothingBeforeOpening' /\ WholeFolder'
    BY DEF ClientTypeOK, NothingBeforeOpening, WholeFolder
  <1>4. AsksForTheRest' /\ OnlyGrew' /\ PagesFitTogether'
    BY <1>2 DEF AsksForTheRest, OnlyGrew, PagesFitTogether
  <1>5. PageFits'
    <2>1. SUFFICES ASSUME NEW d \in Clients, NEW f \in folder[d], NEW p \in reply'[d],
                          p.kind = "page"
                   PROVE  /\ p.objs \in Seq(Entries)
                          /\ calm[d] => Fits(p, got[d], Objects(opening[d]), Objects(webdav[f]))
      BY <1>2 DEF PageFits
    <2>2. CASE d # c
      <3>1. p \in reply[d]
        BY <2>2 DEF ReadContainer, ControlInv, TypeOK
      <3>2. QED
        BY <2>1, <3>1 DEF PageFits
    <2>3. CASE d = c
      <3>1. PICK q \in request[c] : p = PageOf(webdav[q.id], q)
        <4> DEFINE page(r) == PageOf(webdav[r.id], r)
        <4> HIDE DEF page
        <4>1. reply' = [reply EXCEPT ![c] = {page(r) : r \in request[c]}]
          BY DEF ReadContainer, page
        <4>2. \E r \in request[c] : p = page(r)
          BY <2>3, <4>1 DEF ControlInv, TypeOK
        <4>3. QED
          BY <4>2 DEF page
      <3>2. q.id = f /\ q.start = Len(got[c]) /\ q.count \in Nat
        BY <2>3 DEF AsksForTheRest
      <3>3. f \in Folders /\ got[c] \in Seq(Entries) /\ opening[c] \in Seq(Entries)
        BY <2>3 DEF ClientTypeOK
      <3>4. /\ webdav[f] \in Seq(Entries)
            /\ Objects(webdav[f]) \in Seq(Entries)
            /\ Objects(opening[c]) \in Seq(Entries)
        BY <3>3, FoldersHoldSequences, ObjectsType DEF ControlInv
      <3>5. p = Page(Window(Objects(webdav[f]), Len(got[c]), q.count),
                     Len(Objects(webdav[f])))
        <4>1. q.start \in Nat /\ q.count \in Nat
          BY <3>2, <3>3
        <4>2. PageOf(webdav[f], q) =
                Page(Window(Objects(webdav[f]), q.start, q.count), Len(Objects(webdav[f])))
          BY <3>4, <4>1, PageAnswers
        <4>3. QED
          BY <3>1, <3>2, <4>2
      <3>6. p.objs \in Seq(Entries)
        <4>1. Window(Objects(webdav[f]), Len(got[c]), q.count) \in Seq(Entries)
          BY <3>2, <3>3, <3>4, WindowPage
        <4>2. QED
          BY <3>5, <4>1 DEF Page
      <3>7. ASSUME calm[c]
            PROVE  Fits(p, got[c], Objects(opening[c]), Objects(webdav[f]))
        <4>1. IsPrefix(got[c], Objects(webdav[f])) /\ IsPrefix(opening[c], webdav[f])
          BY <2>3, <3>7 DEF PagesFitTogether, OnlyGrew
        <4>2. IsPrefix(Objects(opening[c]), Objects(webdav[f]))
          BY <3>3, <3>4, <4>1, ObjectsPrefix
        <4>3. QED
          BY <3>2, <3>3, <3>4, <3>5, <4>1, <4>2, PageOfListingFits
      <3>8. QED
        BY <2>3, <3>6, <3>7
    <2>4. QED
      BY <2>2, <2>3
  <1>6. QED
    BY <1>1, <1>3, <1>4, <1>5

(* Other requests do not concern a client that reads no folder yet.        *)
LEMMA StrayStep ==
  ASSUME PagingInv, NEW c \in Clients, Stray(c)
  PROVE  PagingInv'
  <1> USE DEF PagingInv, Stray, clientVars
  <1>1. ControlInv'
    BY ReceiveStep, FinishStep, ServiceControlAssumption
  <1>2. /\ UNCHANGED webdav
        /\ \A d \in Clients \ {c} : request'[d] = request[d] /\ reply'[d] = reply[d]
    BY DEF Receive, Finish, ControlInv, TypeOK
  <1>3. ClientTypeOK' /\ NothingBeforeOpening' /\ WholeFolder'
    BY DEF ClientTypeOK, NothingBeforeOpening, WholeFolder
  <1>4. AsksForTheRest' /\ OnlyGrew' /\ PagesFitTogether'
    BY <1>2 DEF AsksForTheRest, OnlyGrew, PagesFitTogether
  <1>5. PageFits'
    BY <1>2 DEF PageFits
  <1>6. QED
    BY <1>1, <1>3, <1>4, <1>5

(* A client that opens a folder has nothing, and nothing is on its way.    *)
LEMMA OpenStep ==
  ASSUME PagingInv, NEW c \in Clients, NEW f \in Folders, Open(c, f)
  PROVE  PagingInv'
  <1> USE DEF PagingInv, Open
  <1>1. /\ UNCHANGED <<webdav, changes, stage, request, reply>>
        /\ request[c] = {} /\ reply[c] = {}
        /\ got[c] = <<>> /\ ~ whole[c]
    BY DEF vars, ControlInv, TypeOK, NothingBeforeOpening
  <1>2. ControlInv'
    BY <1>1 DEF ControlInv, TypeOK, ListingInv, LegalRequestsDoNotPanic
  <1>3. webdav[f] \in Seq(Entries)
    BY FoldersHoldSequences DEF ControlInv
  <1>4. ClientTypeOK'
    BY <1>3 DEF ClientTypeOK
  <1>5. AsksForTheRest' /\ NothingBeforeOpening'
    BY <1>1 DEF AsksForTheRest, NothingBeforeOpening, ClientTypeOK
  <1>6. OnlyGrew'
    BY <1>1, <1>3, PrefixReflexive DEF OnlyGrew, ClientTypeOK
  <1>7. PagesFitTogether'
    <2>1. IsPrefix(got[c], Objects(webdav[f]))
      BY <1>1, <1>3, ObjectsType, EmptyIsPrefix
    <2>2. QED
      BY <1>1, <2>1 DEF PagesFitTogether, ClientTypeOK
  <1>8. WholeFolder' /\ PageFits'
    BY <1>1 DEF WholeFolder, PageFits, ClientTypeOK
  <1>9. QED
    BY <1>2, <1>4, <1>5, <1>6, <1>7, <1>8

(* A page is asked for by a legal request, for what follows.               *)
LEMMA AskPageStep ==
  ASSUME PagingInv, NEW c \in Clients, NEW n \in PageSizes, AskPage(c, n)
  PROVE  PagingInv'
  <1> USE DEF PagingInv, AskPage, clientVars
  <1>1. PICK f \in folder[c] : Receive(c, Ask(f, Len(got[c]), n))
    OBVIOUS
  <1>2. Len(got[c]) \in Nat /\ n \in Nat
    BY PagingClientAssumption DEF ClientTypeOK
  <1> DEFINE q == Ask(f, Len(got[c]), n)
  <1>3. IsRequest(q) /\ q.id = f /\ q.start = Len(got[c]) /\ q.count \in Nat
    BY <1>2, AskIsRequest
  <1>4. Receive(c, q)
    BY <1>1
  <1> HIDE DEF q
  <1>5. ControlInv'
    BY <1>3, <1>4, ReceiveStep
  <1>6. UNCHANGED <<webdav, reply>> /\ request' = [request EXCEPT ![c] = {q}]
    BY <1>4 DEF Receive
  <1>7. ClientTypeOK' /\ NothingBeforeOpening' /\ WholeFolder'
    BY DEF ClientTypeOK, NothingBeforeOpening, WholeFolder
  <1>8. AsksForTheRest'
    BY <1>3, <1>6 DEF AsksForTheRest, ControlInv, TypeOK
  <1>9. OnlyGrew' /\ PagesFitTogether' /\ PageFits'
    BY <1>6 DEF OnlyGrew, PagesFitTogether, PageFits
  <1>10. QED
    BY <1>5, <1>7, <1>8, <1>9

(* A page that fits is taken.                                              *)
LEMMA TakePageStep ==
  ASSUME PagingInv, NEW c \in Clients, TakePage(c)
  PROVE  PagingInv'
  <1> USE DEF PagingInv
  <1>1. PICK p \in reply[c] :
          /\ p.kind = "page"
          /\ got' = [got EXCEPT ![c] = @ \o p.objs]
          /\ whole' = [whole EXCEPT ![c] = p.objs = <<>> \/ Len(got'[c]) >= p.total]
    BY DEF TakePage
  <1>2. Finish(c) /\ UNCHANGED <<folder, opening, calm>>
    BY DEF TakePage
  <1>3. /\ UNCHANGED webdav
        /\ request' = [request EXCEPT ![c] = {}]
        /\ reply' = [reply EXCEPT ![c] = {}]
    BY <1>2 DEF Finish
  <1>4. PICK f \in folder[c] : folder[c] = {f}
    BY DEF TakePage, AsksForTheRest
  <1>5. ControlInv'
    BY <1>2, FinishStep
  <1>6. p.objs \in Seq(Entries) /\ got[c] \in Seq(Entries)
    BY <1>1, <1>4 DEF PageFits, ClientTypeOK
  <1> DEFINE all == got[c] \o p.objs
             stop == p.objs = <<>> \/ Len(all) >= p.total
  <1>7. all \in Seq(Entries) /\ (p.objs = <<>> => all = got[c])
    BY <1>6, ConcatProperties, ConcatEmptySeq
  <1>8. calm[c] => /\ IsPrefix(all, Objects(webdav[f]))
                   /\ stop => IsPrefix(Objects(opening[c]), all)
    <2>1. calm[c] => Fits(p, got[c], Objects(opening[c]), Objects(webdav[f]))
      BY <1>1, <1>4 DEF PageFits
    <2>2. QED
      BY <1>7, <2>1 DEF Fits
  <1>9. got' = [got EXCEPT ![c] = all] /\ whole' = [whole EXCEPT ![c] = stop]
    BY <1>1 DEF ClientTypeOK
  <1>10. stop \in BOOLEAN
    BY Zenon
  <1> HIDE DEF all, stop
  <1>11. ClientTypeOK'
    <2>1. got' \in [Clients -> Seq(Entries)]
      BY <1>7, <1>9 DEF ClientTypeOK
    <2>2. whole' \in [Clients -> BOOLEAN]
      BY <1>9, <1>10 DEF ClientTypeOK
    <2>3. QED
      BY <1>2, <2>1, <2>2 DEF ClientTypeOK
  <1>12. AsksForTheRest'
    BY <1>2, <1>3, <1>9 DEF AsksForTheRest, ControlInv, TypeOK, ClientTypeOK
  <1>13. NothingBeforeOpening'
    BY <1>2, <1>4, <1>9 DEF NothingBeforeOpening, ClientTypeOK
  <1>14. OnlyGrew'
    BY <1>2, <1>3 DEF OnlyGrew
  <1>15. PagesFitTogether'
    BY <1>2, <1>3, <1>4, <1>8, <1>9 DEF PagesFitTogether, ClientTypeOK
  <1>16. WholeFolder'
    BY <1>2, <1>8, <1>9 DEF WholeFolder, ClientTypeOK
  <1>17. PageFits'
    BY <1>2, <1>3, <1>9 DEF PageFits, ControlInv, TypeOK, ClientTypeOK
  <1>18. QED
    BY <1>5, <1>11, <1>12, <1>13, <1>14, <1>15, <1>16, <1>17

(* A reply that is lost leaves nothing behind.                             *)
LEMMA LosePageStep ==
  ASSUME PagingInv, NEW c \in Clients, LosePage(c)
  PROVE  PagingInv'
  <1> USE DEF PagingInv
  <1>1. Finish(c) /\ UNCHANGED <<folder, got, whole, opening, calm>>
    BY DEF LosePage
  <1>2. /\ UNCHANGED webdav
        /\ request' = [request EXCEPT ![c] = {}]
        /\ reply' = [reply EXCEPT ![c] = {}]
    BY <1>1 DEF Finish
  <1>3. ControlInv'
    BY <1>1, FinishStep
  <1>4. ClientTypeOK' /\ NothingBeforeOpening' /\ WholeFolder'
    BY <1>1 DEF ClientTypeOK, NothingBeforeOpening, WholeFolder
  <1>5. AsksForTheRest' /\ PageFits'
    BY <1>1, <1>2 DEF AsksForTheRest, PageFits, ControlInv, TypeOK
  <1>6. OnlyGrew' /\ PagesFitTogether'
    BY <1>1, <1>2 DEF OnlyGrew, PagesFitTogether
  <1>7. QED
    BY <1>3, <1>4, <1>5, <1>6

(* A folder that grows at its end keeps every prefix of what it shows.     *)
LEMMA ChangeUnderStep ==
  ASSUME PagingInv, NEW f \in Folders, NEW l \in Listings, ChangeUnder(f, l)
  PROVE  PagingInv'
  <1> USE DEF PagingInv
  <1>1. /\ Change(f, l)
        /\ calm' = [c \in Clients |-> calm[c] /\
                      (f \in folder[c] => IsPrefix(webdav[f], l))]
        /\ UNCHANGED <<folder, got, whole, opening>>
    BY DEF ChangeUnder
  <1>2. webdav' = [webdav EXCEPT ![f] = l] /\ UNCHANGED <<request, reply>>
    BY <1>1 DEF Change
  <1>3. ControlInv'
    BY <1>1, ChangeStep
  <1>4. \A c \in Clients : calm'[c] => calm[c] /\ (f \in folder[c] => IsPrefix(webdav[f], l))
    BY <1>1
  <1>5. ClientTypeOK'
    <2>1. \A c \in Clients : (calm[c] /\ (f \in folder[c] => IsPrefix(webdav[f], l))) \in BOOLEAN
      BY Zenon
    <2>2. calm' \in [Clients -> BOOLEAN]
      BY <1>1, <2>1, Zenon
    <2>3. QED
      BY <1>1, <2>2 DEF ClientTypeOK
  <1>6. AsksForTheRest' /\ NothingBeforeOpening'
    BY <1>1, <1>2 DEF AsksForTheRest, NothingBeforeOpening
  <1>7. WholeFolder'
    BY <1>1, <1>4 DEF WholeFolder
  <1>8. \A g \in Folders : webdav[g] \in Seq(Entries) /\ webdav'[g] \in Seq(Entries)
    BY <1>3, FoldersHoldSequences, ServiceControlAssumption DEF ControlInv, TypeOK
  <1>9. ASSUME NEW c \in Clients, NEW g \in folder[c], calm'[c]
        PROVE  /\ IsPrefix(webdav[g], webdav'[g])
               /\ IsPrefix(Objects(webdav[g]), Objects(webdav'[g]))
               /\ Objects(webdav[g]) \in Seq(Entries)
               /\ Objects(webdav'[g]) \in Seq(Entries)
    <2>1. g \in Folders
      BY DEF ClientTypeOK
    <2>2. webdav[g] \in Seq(Entries) /\ webdav'[g] \in Seq(Entries)
      BY <1>8, <2>1
    <2>3. IsPrefix(webdav[g], webdav'[g])
      <3>1. CASE g = f
        <4>1. IsPrefix(webdav[f], l)
          BY <1>4, <1>9, <3>1
        <4>2. webdav'[g] = l
          BY <1>2, <2>1, <3>1 DEF ControlInv, TypeOK
        <4>3. QED
          BY <3>1, <4>1, <4>2
      <3>2. CASE g # f
        <4>1. webdav'[g] = webdav[g]
          BY <1>2, <2>1, <3>2 DEF ControlInv, TypeOK
        <4>2. QED
          BY <2>2, <4>1, PrefixReflexive
      <3>3. QED
        BY <3>1, <3>2
    <2>4. QED
      BY <2>2, <2>3, ObjectsPrefix, ObjectsType
  <1>10. OnlyGrew'
    <2>1. SUFFICES ASSUME NEW c \in Clients, NEW g \in folder[c], calm'[c]
                   PROVE  IsPrefix(opening[c], webdav'[g])
      BY <1>1 DEF OnlyGrew
    <2>2. g \in Folders /\ opening[c] \in Seq(Entries) /\ calm[c]
      BY <1>4, <2>1 DEF ClientTypeOK
    <2>3. IsPrefix(opening[c], webdav[g])
      BY <2>2 DEF OnlyGrew
    <2>4. IsPrefix(webdav[g], webdav'[g])
      BY <1>9, <2>1
    <2>5. QED
      BY <1>8, <2>2, <2>3, <2>4, PrefixTransitive
  <1>11. PagesFitTogether'
    <2>1. SUFFICES ASSUME NEW c \in Clients, NEW g \in folder[c], calm'[c]
                   PROVE  IsPrefix(got[c], Objects(webdav'[g]))
      BY <1>1 DEF PagesFitTogether
    <2>2. got[c] \in Seq(Entries) /\ IsPrefix(got[c], Objects(webdav[g]))
      BY <1>4, <2>1 DEF ClientTypeOK, PagesFitTogether
    <2>3. QED
      BY <1>9, <2>1, <2>2, PrefixTransitive
  <1>12. PageFits'
    <2>1. SUFFICES ASSUME NEW c \in Clients, NEW g \in folder[c], NEW p \in reply[c],
                          p.kind = "page"
                   PROVE  /\ p.objs \in Seq(Entries)
                          /\ calm'[c] => Fits(p, got[c], Objects(opening[c]), Objects(webdav'[g]))
      BY <1>1, <1>2 DEF PageFits
    <2>2. p.objs \in Seq(Entries) /\ got[c] \in Seq(Entries)
      BY <2>1 DEF PageFits, ClientTypeOK
    <2>3. ASSUME calm'[c]
          PROVE  Fits(p, got[c], Objects(opening[c]), Objects(webdav'[g]))
      <3>1. Fits(p, got[c], Objects(opening[c]), Objects(webdav[g]))
        BY <1>4, <2>1, <2>3 DEF PageFits
      <3>2. got[c] \o p.objs \in Seq(Entries)
        BY <2>2
      <3>3. IsPrefix(got[c] \o p.objs, Objects(webdav'[g]))
        <4>1. IsPrefix(got[c] \o p.objs, Objects(webdav[g]))
          BY <3>1 DEF Fits
        <4>2. QED
          BY <1>9, <2>3, <3>2, <4>1, PrefixTransitive
      <3>4. QED
        BY <3>1, <3>3 DEF Fits
    <2>4. QED
      BY <2>2, <2>3
  <1>13. QED
    BY <1>3, <1>5, <1>6, <1>7, <1>10, <1>11, <1>12

-----------------------------------------------------------------------------
LEMMA PagingInvStep == PagingInv /\ [PagingNext]_pagingVars => PagingInv'
  <1> SUFFICES ASSUME PagingInv, [PagingNext]_pagingVars PROVE PagingInv'
    OBVIOUS
  <1>1. ASSUME NEW c \in Clients, HandlerStep(c), UNCHANGED clientVars
        PROVE  PagingInv'
    BY <1>1, NoPageStep, PageStep DEF HandlerStep
  <1>2. ASSUME NEW c \in Clients, Stray(c) \/ TakePage(c) \/ LosePage(c)
        PROVE  PagingInv'
    BY <1>2, StrayStep, TakePageStep, LosePageStep
  <1>3. ASSUME NEW c \in Clients, NEW f \in Folders, Open(c, f)
        PROVE  PagingInv'
    BY <1>3, OpenStep
  <1>4. ASSUME NEW c \in Clients, NEW n \in PageSizes, AskPage(c, n)
        PROVE  PagingInv'
    BY <1>4, AskPageStep
  <1>5. ASSUME NEW f \in Folders, NEW l \in Listings, ChangeUnder(f, l)
        PROVE  PagingInv'
    BY <1>5, ChangeUnderStep
  <1>6. CASE UNCHANGED pagingVars
    <2>1. UNCHANGED <<webdav, changes, stage, request, reply, folder, got, whole,
                      opening, calm, retries>>
      BY <1>6 DEF pagingVars, vars, clientVars
    <2>2. ControlInv'
      BY <2>1 DEF PagingInv, ControlInv, TypeOK, ListingInv, LegalRequestsDoNotPanic
    <2>3. QED
      BY <2>1, <2>2 DEF PagingInv, ClientTypeOK, AsksForTheRest, NothingBeforeOpening,
                        OnlyGrew, PagesFitTogether, WholeFolder, PageFits
  <1>7. QED
    BY <1>1, <1>2, <1>3, <1>4, <1>5, <1>6 DEF PagingNext

LEMMA PagingInvariant == PagingSpec => []PagingInv
  BY PagingInvInit, PagingInvStep, PTL DEF PagingSpec

(* The handlers keep their types while clients page through folders.       *)
THEOREM ControlTypes == PagingSpec => []TypeOK
  <1>1. PagingInv => TypeOK
    BY DEF PagingInv, ControlInv
  <1>2. QED
    BY PagingInvariant, <1>1, PTL

(* No legal request of any client makes a handler panic: neither a page    *)
(* beyond the end of a folder that shrank, nor any other.                  *)
THEOREM PagingNeverPanics == PagingSpec => []LegalRequestsDoNotPanic
  <1>1. PagingInv => LegalRequestsDoNotPanic
    BY DEF PagingInv, ControlInv
  <1>2. QED
    BY PagingInvariant, <1>1, PTL

(* The pages of a folder that only grows at its end fit together, although *)
(* each is cut from a listing of its own and replies are lost.             *)
THEOREM PagesDoFitTogether == PagingSpec => []PagesFitTogether
  <1>1. PagingInv => PagesFitTogether
    BY DEF PagingInv
  <1>2. QED
    BY PagingInvariant, <1>1, PTL

(* A client that TotalMatches or an empty page told to stop has all that   *)
(* the folder showed when it began.                                        *)
THEOREM TheWholeFolderIsRead == PagingSpec => []WholeFolder
  <1>1. PagingInv => WholeFolder
    BY DEF PagingInv
  <1>2. QED
    BY PagingInvariant, <1>1, PTL
=============================================================================
