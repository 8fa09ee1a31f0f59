--------------------------- MODULE EventingProofs ----------------------------
(***************************************************************************)
(* The safety properties of Eventing for every set of goroutines, ids and  *)
(* timeouts, and every width of the integers.                              *)
(***************************************************************************)
EXTENDS Eventing, TLAPS

(* A quotient cut towards zero does not exceed what it is the quotient of. *)
LEMMA CutDown ==
  ASSUME NEW n \in Int, NEW left \in Int
  PROVE  /\ Seconds(n, left) \in Int
         /\ Seconds(n, left) > 0 => Seconds(n, left) * Second <= left
  BY EventingAssumption DEF Seconds

(* What is left is an integer, although the product may have wrapped.      *)
LEMMA LeftIsInt ==
  ASSUME NEW n \in Timeouts, NEW delay \in 0 .. MaxDelay
  PROVE  Left(n, delay) \in Int
  BY EventingAssumption DEF Left

(* The initial states satisfy the invariant.                               *)
LEMMA IInvInit == Init => IInv
  <1> SUFFICES ASSUME Init PROVE IInv
    OBVIOUS
  <1>1. Active = {}
    BY DEF Init, Active, Over
  <1>2. TypeOK
    <2>1. raced \in BOOLEAN
      BY Zenon DEF Init
    <2>2. QED
      BY <2>1 DEF Init, TypeOK, Over
  <1>3. QED
    BY <1>1, <1>2 DEF Init, IInv, MapInv, MeetInv, AloneInv,
                      GrantIsHonoured, Placed

(* The steps of Subscribe keep the types, and a writer has a map.          *)
LEMMA TypeOKStep == IInv /\ [Next]_vars => TypeOK'
  <1> SUFFICES ASSUME IInv, [Next]_vars PROVE TypeOK'
    OBVIOUS
  <1> USE DEF IInv, TypeOK, Over, Goto
  <1>1. ASSUME NEW t \in Threads, Call(t)
        PROVE  TypeOK'
    BY <1>1 DEF Call, Active
  <1>2. ASSUME NEW t \in Threads, Check(t) \/ TestNil(t) \/ Make(t)
        PROVE  TypeOK'
    BY <1>2 DEF Check, TestNil, Make
  <1>3. ASSUME NEW t \in Threads, Load(t)
        PROVE  TypeOK'
    BY <1>3 DEF Load, MapInv, Placed
  <1>4. ASSUME NEW t \in Threads, Store(t)
        PROVE  TypeOK'
    <2>1. maps' \in [Threads -> SUBSET Sids]
      <3>1. PICK m \in target[t] :
              \E left \in SUBSET (maps[m] \cup sid[t]) : maps' = [maps EXCEPT ![m] = left]
        BY <1>4 DEF Store
      <3>2. QED
        BY <3>1
    <2>2. raced' \in BOOLEAN
      BY <1>4, Zenon DEF Store
    <2>3. QED
      BY <1>4, <2>1, <2>2 DEF Store
  <1>5. ASSUME NEW t \in Threads, Grant(t)
        PROVE  TypeOK'
    <2>1. PICK n \in Timeouts, delay \in 0 .. MaxDelay :
            grant' = [grant EXCEPT ![t] = {[asked |-> n, left |-> Left(n, delay),
                                            told |-> Seconds(n, Left(n, delay))]}]
      BY <1>5 DEF Grant
    <2>2. /\ Left(n, delay) \in Int
          /\ Seconds(n, Left(n, delay)) \in Int
      BY CutDown, LeftIsInt, EventingAssumption
    <2>3. grant' \in [Threads -> SUBSET [asked : Timeouts, left : Int, told : Int]]
      BY <2>1, <2>2
    <2>4. QED
      BY <1>5, <2>3 DEF Grant
  <1>6. ASSUME NEW t \in Threads, RaceNoticed(t)
        PROVE  TypeOK'
    BY <1>6 DEF RaceNoticed
  <1>7. CASE UNCHANGED vars
    BY <1>7 DEF vars
  <1>8. QED
    BY <1>1, <1>2, <1>3, <1>4, <1>5, <1>6, <1>7 DEF Next, SubscribeStep

(* A map once made is never given up for nil.                              *)
LEMMA MapInvStep == IInv /\ [Next]_vars => MapInv'
  <1> SUFFICES ASSUME IInv, [Next]_vars PROVE MapInv'
    OBVIOUS
  <1> USE DEF IInv, TypeOK, MapInv, Placed, Goto
  <1>1. ASSUME NEW t \in Threads, Call(t) \/ SubscribeStep(t) \/ RaceNoticed(t)
        PROVE  MapInv'
    BY <1>1 DEF SubscribeStep, Call, Check, TestNil, Missing, Make, Load, Store,
                Grant, RaceNoticed
  <1>2. CASE UNCHANGED vars
    BY <1>2 DEF vars
  <1>3. QED
    BY <1>1, <1>2 DEF Next

(* A call meets all who are there, and they meet it.                       *)
LEMMA MeetInvStep == IInv /\ [Next]_vars => MeetInv'
  <1> SUFFICES ASSUME IInv, [Next]_vars PROVE MeetInv'
    OBVIOUS
  <1> USE DEF IInv, TypeOK, MeetInv, Active, Over, Goto
  <1>1. ASSUME NEW t \in Threads, Call(t)
        PROVE  MeetInv'
    BY <1>1 DEF Call
  <1>2. ASSUME NEW t \in Threads, SubscribeStep(t) \/ RaceNoticed(t)
        PROVE  MeetInv'
    <2>1. met' = met /\ Active' \subseteq Active
      BY <1>2 DEF SubscribeStep, Check, TestNil, Make, Load, Store, Grant, RaceNoticed
    <2>2. QED
      BY <2>1
  <1>3. CASE UNCHANGED vars
    BY <1>3 DEF vars
  <1>4. QED
    BY <1>1, <1>2, <1>3 DEF Next

(* Whoever is alone in Subscribe is there with nobody else.                *)
LEMMA AloneIsAlone ==
  ASSUME IInv, NEW t \in Active, met[t] = {}, NEW u \in Active
  PROVE  u = t
  BY DEF IInv, MeetInv

(* What is stored, unless two store together, is found, and stays.         *)
LEMMA StoreKeeps ==
  ASSUME IInv, NEW t \in Threads, Store(t), ~raced'
  PROVE  /\ Subscribers \subseteq Subscribers'
         /\ target[t] = subscribers => sid[t] \subseteq Subscribers'
  <1> USE DEF IInv, TypeOK, Subscribers
  <1>1. ~WritesTogether(t)
    BY DEF Store
  <1>2. PICK m \in target[t] : maps' = [maps EXCEPT ![m] = maps[m] \cup sid[t]]
    BY <1>1 DEF Store
  <1>3. subscribers' = subscribers /\ m \in Threads /\ target[t] = {m}
    BY DEF Store
  <1>4. QED
    BY <1>2, <1>3

(* The subscription of one that met nobody is safe from the others.        *)
LEMMA AloneInvStep == IInv /\ [Next]_vars => AloneInv'
  <1> SUFFICES ASSUME IInv, [Next]_vars,
                      NEW t \in Threads, met'[t] = {}, Placed(t)'
      PROVE  /\ \A u \in Threads : stage'[u] # "making"
             /\ stage'[t] = "writing" => target'[t] = subscribers'
             /\ stage'[t] \in {"granting", "accepted"} /\ ~raced' =>
                  sid'[t] \subseteq Subscribers'
    BY DEF AloneInv, Placed
  <1> USE DEF IInv, TypeOK, Placed, Goto
  <1>1. ASSUME NEW u \in Threads, Call(u)
        PROVE  Placed(t) /\ met[t] = {} /\ stage'[t] = stage[t]
               /\ (\A v \in Threads : stage'[v] = "making" => stage[v] = "making")
               /\ UNCHANGED <<target, subscribers, maps, raced>> /\ sid'[t] = sid[t]
    BY <1>1 DEF Call, Active, Over
  <1>2. CASE \E u \in Threads : Call(u)
    BY <1>1, <1>2 DEF AloneInv, Subscribers
  <1>3. ASSUME NEW u \in Threads \ {t}, SubscribeStep(u) \/ RaceNoticed(u)
        PROVE  /\ \A v \in Threads : stage'[v] # "making"
               /\ stage'[t] = "writing" => target'[t] = subscribers'
               /\ stage'[t] \in {"granting", "accepted"} /\ ~raced' =>
                    sid'[t] \subseteq Subscribers'
    <2>1. stage'[t] = stage[t] /\ sid'[t] = sid[t] /\ target'[t] = target[t] /\ met[t] = {}
      BY <1>3 DEF SubscribeStep, Check, TestNil, Make, Load, Store, Grant, RaceNoticed
    <2>2. /\ \A v \in Threads : stage[v] # "making"
          /\ stage[t] = "writing" => target[t] = subscribers
          /\ stage[t] \in {"granting", "accepted"} /\ ~raced => sid[t] \subseteq Subscribers
      BY <2>1 DEF AloneInv
    <2>3. ~Make(u) /\ subscribers # {}
      BY <2>1, <2>2 DEF Make, MapInv
    <2>4. CASE Store(u)
      <3>1. subscribers' = subscribers /\ (~raced' => ~raced)
            /\ \A v \in Threads : stage'[v] # "making"
        BY <2>2, <2>4 DEF Store
      <3>2. QED
        BY <2>1, <2>2, <2>4, <3>1, StoreKeeps
    <2>5. CASE Check(u) \/ TestNil(u) \/ Load(u) \/ Grant(u) \/ RaceNoticed(u)
      BY <2>1, <2>2, <2>3, <2>5
         DEF Check, TestNil, Missing, Load, Grant, RaceNoticed, Subscribers
    <2>6. QED
      BY <1>3, <2>3, <2>4, <2>5 DEF SubscribeStep
  <1>4. CASE SubscribeStep(t) \/ RaceNoticed(t)
    <2>1. t \in Active /\ met[t] = {}
      BY <1>4 DEF SubscribeStep, Check, TestNil, Make, Load, Store, Grant,
                  RaceNoticed, Active, Over
    <2>2. \A u \in Threads \ {t} : stage[u] # "making"
      BY <2>1, AloneIsAlone DEF Active, Over
    <2>3. CASE Check(t)
      BY <2>3 DEF Check
    <2>4. CASE TestNil(t) \/ Make(t)
      BY <2>2, <2>4 DEF TestNil, Make
    <2>5. CASE Load(t)
      BY <2>2, <2>5 DEF Load
    <2>6. CASE Store(t)
      <3>1. target[t] = subscribers
        BY <2>1, <2>6 DEF Store, AloneInv
      <3>2. sid'[t] = sid[t] /\ stage'[t] = "granting"
            /\ \A u \in Threads : stage'[u] # "making"
        BY <2>2, <2>6 DEF Store
      <3>3. QED
        BY <2>6, <3>1, <3>2, StoreKeeps
    <2>7. CASE Grant(t) \/ RaceNoticed(t)
      BY <2>1, <2>7 DEF Grant, RaceNoticed, AloneInv, Subscribers
    <2>8. QED
      BY <1>4, <2>3, <2>4, <2>5, <2>6, <2>7 DEF SubscribeStep
  <1>5. CASE UNCHANGED vars
    BY <1>5 DEF vars, AloneInv, Subscribers
  <1>6. QED
    BY <1>2, <1>3, <1>4, <1>5 DEF Next

(* What is granted is the quotient of what is left.                        *)
LEMMA GrantStep == IInv /\ [Next]_vars => GrantIsHonoured'
  <1> SUFFICES ASSUME IInv, [Next]_vars PROVE GrantIsHonoured'
    OBVIOUS
  <1> USE DEF IInv, TypeOK, GrantIsHonoured
  <1>1. ASSUME NEW t \in Threads, Grant(t)
        PROVE  GrantIsHonoured'
    <2>1. PICK n \in Timeouts, delay \in 0 .. MaxDelay :
            grant' = [grant EXCEPT ![t] = {[asked |-> n, left |-> Left(n, delay),
                                            told |-> Seconds(n, Left(n, delay))]}]
      BY <1>1 DEF Grant
    <2>2. Seconds(n, Left(n, delay)) > 0 =>
            Seconds(n, Left(n, delay)) * Second <= Left(n, delay)
      BY CutDown, LeftIsInt, EventingAssumption
    <2>3. QED
      BY <2>1, <2>2
  <1>2. CASE UNCHANGED grant
    BY <1>2
  <1>3. QED
    BY <1>1, <1>2 DEF Next, vars, SubscribeStep, Call, Check, TestNil, Make, Load,
                      Store, RaceNoticed

-----------------------------------------------------------------------------
(* The theorems.                                                           *)

(* The invariant holds in every reachable state.                           *)
THEOREM InductiveInvariant == Spec => []IInv
  <1>1. IInv /\ [Next]_vars => IInv'
    BY TypeOKStep, MapInvStep, MeetInvStep, AloneInvStep, GrantStep DEF IInv
  <1>2. QED
    BY <1>1, IInvInit, PTL DEF Spec

(* However Subscribe interleaves, nothing is written to a nil map.         *)
THEOREM TypeCorrect == Spec => []TypeOK
  <1>1. IInv => TypeOK
    BY DEF IInv
  <1>2. QED
    BY <1>1, InductiveInvariant, PTL

(* A subscriber that met nobody in Subscribe is not lost, as long as no    *)
(* two goroutines have written to one map together.                        *)
THEOREM LostByARace == Spec => []LostOnlyInARace
  <1>1. IInv => LostOnlyInARace
    BY DEF IInv, AloneInv, Placed, LostOnlyInARace
  <1>2. QED
    BY <1>1, InductiveInvariant, PTL

(* Under the same condition a later goroutine with its id is refused.      *)
THEOREM LaterOneIsRefused == Spec => LaterIsRefused
  <1> DEFINE Refused ==
        \A t, u \in Threads :
          /\ stage[t] = "accepted" /\ met[t] = {} /\ ~raced
          /\ stage[u] = "checking" /\ stage'[u] = "testing"
          => sid[t] # sid[u]
  <1>1. IInv /\ [Next]_vars => [Refused]_vars
    <2> SUFFICES ASSUME IInv, [Next]_vars, NEW t \in Threads, NEW u \in Threads,
                        stage[t] = "accepted", met[t] = {}, ~raced,
                        stage[u] = "checking", stage'[u] = "testing"
        PROVE  sid[t] # sid[u]
      OBVIOUS
    <2>1. sid[t] \subseteq Subscribers /\ sid[t] # {}
      BY DEF IInv, TypeOK, AloneInv, Placed
    <2>2. ~Taken(u)
      <3>1. ASSUME NEW v \in Threads, Check(v)
            PROVE  ~Taken(u)
        BY <3>1 DEF Check, Goto, IInv, TypeOK
      <3>2. ASSUME NEW v \in Threads, Call(v)
            PROVE  FALSE
        BY <3>2 DEF Call, Goto, IInv, TypeOK
      <3>3. ASSUME NEW v \in Threads,
                   TestNil(v) \/ Make(v) \/ Load(v) \/ Store(v) \/ Grant(v) \/ RaceNoticed(v)
            PROVE  FALSE
        BY <3>3 DEF TestNil, Make, Load, Store, Grant, RaceNoticed, Goto, IInv, TypeOK
      <3>4. CASE UNCHANGED vars
        BY <3>4 DEF vars
      <3>5. QED
        BY <3>1, <3>2, <3>3, <3>4 DEF Next, SubscribeStep
    <2>3. QED
      BY <2>1, <2>2 DEF Taken
  <1>2. QED
    BY <1>1, InductiveInvariant, PTL DEF Spec, LaterIsRefused

(* Nobody is told more time than is left of the subscription.              *)
THEOREM GrantsHonoured == Spec => []GrantIsHonoured
  <1>1. IInv => GrantIsHonoured
    BY DEF IInv
  <1>2. QED
    BY <1>1, InductiveInvariant, PTL
=============================================================================
