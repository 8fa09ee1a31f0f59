--------------------------- MODULE SsdpLeaseProofs ---------------------------
(***************************************************************************)
(* SsdpLease for every interval that is long enough for its max-age: half  *)
(* an interval must cover the second that is cut off, the jitter, and      *)
(* three delays (two of the sleeper, one of the datagram). main.go has     *)
(* five seconds.                                                           *)
(***************************************************************************)
EXTENDS SsdpLease, TLAPS

LongEnough == Interval >= 2 * (Second + Jitter + 3 * Slack)

(* What \div cuts off is less than the divisor.                            *)
LEMMA DivBound ==
  ASSUME NEW a \in Nat, NEW s \in Nat \ {0}
  PROVE  /\ a \div s \in Nat
         /\ (a \div s) * s \in Nat
         /\ (a \div s) * s > a - s
  OBVIOUS

LEMMA Quantities ==
  /\ Lease \in Nat
  /\ Period \in Nat
  /\ Period > 0
  /\ MaxFlight \in Nat
  BY SsdpLeaseAssumption, DivBound DEF Lease, MaxAge, Period, MaxFlight

(* The lease outlives two periods and the journey of an announcement.      *)
LEMMA LeaseOutlives == LongEnough => Lease > 2 * Period + MaxFlight
  <1> SUFFICES ASSUME LongEnough PROVE Lease > 2 * Period + MaxFlight
    OBVIOUS
  <1> DEFINE a == (5 * Interval) \div 2
  <1>1. a \in Nat /\ 2 * a >= 5 * Interval - 1
    BY SsdpLeaseAssumption
  <1>2. Lease > a - Second
    <2> HIDE DEF a
    <2>1. (a \div Second) * Second > a - Second
      BY <1>1, SsdpLeaseAssumption, DivBound
    <2>2. QED
      BY <2>1 DEF Lease, MaxAge, a
  <1> HIDE DEF a
  <1>3. QED
    BY <1>1, <1>2, SsdpLeaseAssumption, Quantities DEF LongEnough, Period, MaxFlight

LEMMA IInvInit == Init => IInv
  <1> SUFFICES ASSUME Init PROVE IInv
    OBVIOUS
  <1>1. lost \in BOOLEAN /\ heard \in BOOLEAN
    BY Zenon DEF Init
  <1>2. ~heard
    BY DEF Init
  <1>3. QED
    BY <1>1, <1>2, Quantities DEF Init, IInv, TypeOK, LeaseInv

(* The delays of the announcements and the lease, while heard.             *)
LEMMA TypeOKStep == TypeOK /\ [Next]_vars => TypeOK'
  <1> SUFFICES ASSUME TypeOK, [Next]_vars PROVE TypeOK'
    OBVIOUS
  <1> USE Quantities, SsdpLeaseAssumption DEF TypeOK
  <1>1. CASE Start
    <2>1. lost' \in BOOLEAN
      BY <1>1, Zenon DEF Start
    <2>2. nap' \in 0 .. Period
      BY <1>1 DEF Start, Period
    <2>3. QED
      BY <1>1, <2>1, <2>2 DEF Start
  <1>2. CASE Announce
    <2>1. lost' \in BOOLEAN
      BY <1>2, Zenon DEF Announce
    <2>2. flights' \in SUBSET (0 .. MaxFlight)
      <3>1. flights' \in {flights, flights \cup {0}}
        BY <1>2, Zenon DEF Announce
      <3>2. 0 \in 0 .. MaxFlight
        OBVIOUS
      <3>3. QED
        BY <3>1, <3>2
    <2>3. QED
      BY <1>2, <2>1, <2>2 DEF Announce
  <1>3. ASSUME NEW f \in flights, Arrive(f) PROVE TypeOK'
    <2>1. heard' \in BOOLEAN
      BY <1>3, Zenon DEF Arrive
    <2>2. QED
      BY <1>3, <2>1 DEF Arrive
  <1>4. CASE Close
    <2>1. heard' \in BOOLEAN
      BY <1>4, Zenon DEF Close
    <2>2. QED
      BY <1>4, <2>1 DEF Close
  <1>5. CASE Die
    <2>1. heard' \in BOOLEAN
      BY <1>5, Zenon DEF Die
    <2>2. QED
      BY <1>5, <2>1 DEF Die
  <1>6. CASE Tick
    <2>1. \A f \in flights : f + 1 \in 0 .. MaxFlight
      BY <1>6 DEF Tick
    <2>2. flights' \in SUBSET (0 .. MaxFlight)
      BY <1>6, <2>1 DEF Tick
    <2>3. nap' \in 0 .. Period /\ lease' \in 0 .. Lease
      BY <1>6 DEF Tick
    <2>4. QED
      BY <1>6, <2>2, <2>3 DEF Tick
  <1>7. CASE UNCHANGED vars
    BY <1>7 DEF vars
  <1>8. QED
    BY <1>1, <1>2, <1>3, <1>4, <1>5, <1>6, <1>7 DEF Next

(* While the listener has heard of the server, its lease reaches past the  *)
(* arrival of an announcement that is not lost.                            *)
LEMMA LeaseInvStep == LongEnough /\ IInv /\ [Next]_vars => LeaseInv'
  <1> SUFFICES ASSUME LongEnough, IInv, [Next]_vars PROVE LeaseInv'
    OBVIOUS
  <1> USE Quantities, SsdpLeaseAssumption DEF IInv, TypeOK
  <1>1. CASE Start
    BY <1>1 DEF Start, LeaseInv
  <1>2. CASE Announce
    <2> SUFFICES ASSUME heard PROVE LeaseInv'
      BY <1>2 DEF Announce, LeaseInv
    <2>1. server = "up" /\ Leaves
      BY DEF LeaseInv, Leaves
    <2>2. CASE flights' = flights /\ flights # {}
      BY <1>2, <2>1, <2>2 DEF Announce, LeaseInv
    <2>3. CASE flights' = flights /\ flights = {}
      <3>1. ~lost /\ lost' /\ nap' = 0 /\ lease' = lease /\ server' = "up" /\ heard'
        BY <1>2, <2>1, <2>3 DEF Announce
      <3>2. lease > (Period - nap) + Period + MaxFlight
        BY <2>3, <3>1 DEF LeaseInv, Wait
      <3>3. lease' > Wait'
        BY <3>1, <3>2 DEF Wait
      <3>4. QED
        BY <2>3, <3>1, <3>3 DEF LeaseInv
    <2>4. CASE flights' = flights \cup {0}
      <3>1. lease' = lease /\ server' = "up"
        BY <1>2, <2>1 DEF Announce
      <3>2. CASE flights = {}
        <4>1. lease > MaxFlight
          BY <3>2 DEF LeaseInv, Wait
        <4>2. QED
          BY <2>4, <3>1, <4>1 DEF LeaseInv
      <3>3. CASE flights # {}
        <4>1. PICK f \in flights : lease > MaxFlight - f
          BY <3>3 DEF LeaseInv
        <4>2. QED
          BY <2>4, <3>1, <4>1 DEF LeaseInv
      <3>4. QED
        BY <3>2, <3>3
    <2>5. QED
      BY <1>2, <2>1, <2>2, <2>3, <2>4 DEF Announce
  <1>3. ASSUME NEW f \in flights, Arrive(f) PROVE LeaseInv'
    <2>1. heard' => server' = "up"
      BY <1>3 DEF Arrive
    <2>2. lease' > Wait'
      BY <1>3, LeaseOutlives DEF Arrive, Wait
    <2>3. \A g \in flights' : lease' > MaxFlight - g
      BY <1>3, LeaseOutlives DEF Arrive
    <2>4. QED
      BY <2>1, <2>2, <2>3 DEF LeaseInv
  <1>4. CASE Close
    BY <1>4 DEF Close, LeaseInv
  <1>5. CASE Die
    BY <1>5 DEF Die, LeaseInv
  <1>6. CASE Tick
    <2> SUFFICES ASSUME heard PROVE LeaseInv'
      BY <1>6 DEF Tick, LeaseInv
    <2>1. server' = "up"
      BY <1>6 DEF Tick, LeaseInv
    <2>2. CASE flights = {}
      <3>1. lease > Wait /\ nap < Period
        BY <1>6, <2>2 DEF LeaseInv, Tick
      <3>2. lease' = lease - 1 /\ nap' = nap + 1 /\ lost' = lost /\ flights' = {}
        BY <1>6, <2>2, <3>1 DEF LeaseInv, Tick, Wait
      <3>3. lease' > Wait'
        BY <3>1, <3>2 DEF Wait
      <3>4. QED
        BY <2>1, <3>2, <3>3 DEF LeaseInv
    <2>3. CASE flights # {}
      <3>1. PICK f \in flights : lease > MaxFlight - f
        BY <2>3 DEF LeaseInv
      <3>2. f < MaxFlight /\ f + 1 \in flights' /\ lease' = lease - 1
        BY <1>6, <3>1 DEF Tick
      <3>3. lease' > MaxFlight - (f + 1)
        BY <3>1, <3>2
      <3>4. QED
        BY <2>1, <3>2, <3>3 DEF LeaseInv
    <2>4. QED
      BY <2>2, <2>3
  <1>7. CASE UNCHANGED vars
    BY <1>7 DEF vars, LeaseInv, Wait
  <1>8. QED
    BY <1>1, <1>2, <1>3, <1>4, <1>5, <1>6, <1>7 DEF Next

(* Every timer stays in its range.                                         *)
THEOREM TypeCorrect == Spec => []TypeOK
  <1>1. Init => TypeOK
    BY IInvInit DEF IInv
  <1>2. QED
    BY <1>1, TypeOKStep, PTL DEF Spec

(* A listener that has heard of a running server never takes it for gone:  *)
(* the max-age of the announcements of Serve, cut to whole seconds,        *)
(* outlives the loss of one of them and every delay.                       *)
THEOREM NeverForgottenHolds ==
  ASSUME LongEnough PROVE Spec => []NeverForgotten
  <1>1. IInv /\ [Next]_vars => IInv'
    BY TypeOKStep, LeaseInvStep DEF IInv
  <1>2. IInv => NeverForgotten
    <2> SUFFICES ASSUME IInv, heard PROVE lease > 0
      BY DEF NeverForgotten
    <2>1. CASE flights = {}
      BY <2>1, Quantities DEF IInv, TypeOK, LeaseInv, Wait
    <2>2. CASE flights # {}
      <3>1. PICK f \in flights : lease > MaxFlight - f
        BY <2>2 DEF IInv, LeaseInv
      <3>2. f \in 0 .. MaxFlight /\ lease \in 0 .. Lease
        BY DEF IInv, TypeOK
      <3>3. QED
        BY <3>1, <3>2, Quantities
    <2>3. QED
      BY <2>1, <2>2
  <1>3. QED
    BY <1>1, <1>2, IInvInit, PTL DEF Spec

(* A server that is closed or dead is forgotten within a max-age and the   *)
(* longest journey: what is left of the listener's belief never grows      *)
(* while the server is not up, and shrinks with time. No assumption on the *)
(* length of the interval is needed.                                       *)
THEOREM GoneServersFade == Spec => BeliefFades
  <1>1. ASSUME TypeOK, [Next]_vars, server # "up", NEW b \in Beliefs'
        PROVE  \E a \in Beliefs : b <= a /\ (Tick => b < a \/ b = 0)
    <2> USE Quantities, SsdpLeaseAssumption DEF TypeOK
    <2> DEFINE Left(f) == (MaxFlight - f) + Lease
    <2>1. b = lease' \/ \E g \in flights' : b = Left(g)
      BY <1>1 DEF Beliefs
    <2>2. lease \in Beliefs /\ \A f \in flights : Left(f) \in Beliefs
      BY DEF Beliefs
    <2>3. CASE Tick
      <3>1. lease' \in Nat /\ (lease' < lease \/ lease' = 0) /\ lease' <= lease
        BY <1>1, <2>3 DEF Tick
      <3>2. ASSUME NEW g \in flights', b = Left(g)
            PROVE  \E f \in flights : b < Left(f)
        <4>1. PICK f \in flights : g = f + 1
          BY <2>3, <3>2 DEF Tick
        <4>2. f \in Nat
          BY <1>1
        <4>3. QED
          BY <3>2, <4>1, <4>2
      <3>3. CASE b = lease'
        BY <1>1, <2>2, <3>1, <3>3
      <3>4. CASE \E g \in flights' : b = Left(g)
        <4>1. PICK f \in flights : b < Left(f)
          BY <3>2, <3>4
        <4>2. b \in Int /\ Left(f) \in Int
          <5>1. \A g \in flights' : g \in Int
            BY <1>1, <2>3 DEF Tick
          <5>2. QED
            BY <1>1, <3>4, <5>1
        <4>3. QED
          BY <2>2, <4>1, <4>2
      <3>5. QED
        BY <2>1, <3>3, <3>4
    <2>4. CASE ~Tick
      <3>1. flights' \in SUBSET flights
        BY <1>1, <2>4 DEF Next, Start, Announce, Leaves, Arrive, Close, Die, vars
      <3>2. lease' <= lease \/ \E f \in flights : lease' = Lease /\ lease' <= Left(f)
        BY <1>1, <2>4 DEF Next, Start, Announce, Arrive, Close, Die, vars
      <3>3. \A f \in flights : Left(f) <= Left(f)
        BY <1>1
      <3>4. QED
        BY <2>1, <2>2, <2>4, <3>1, <3>2, <3>3
    <2>5. QED
      BY <2>3, <2>4
  <1>2. TypeOK /\ [Next]_vars =>
          [server # "up" => \A b \in Beliefs' : \E a \in Beliefs :
             b <= a /\ (Tick => b < a \/ b = 0)]_vars
    BY <1>1
  <1>3. QED
    BY <1>2, TypeCorrect, PTL DEF Spec, BeliefFades
=============================================================================
