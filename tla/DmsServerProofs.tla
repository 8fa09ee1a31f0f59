--------------------------- MODULE DmsServerProofs ---------------------------
(***************************************************************************)
(* The safety properties of DmsServer for every finite set of interfaces   *)
(* and every set of closers. IInv is the inductive invariant; one lemma    *)
(* per conjunct shows that a step preserves it. At the end, how the        *)
(* program of main.go ends.                                                *)
(***************************************************************************)
EXTENDS DmsMain, FiniteSetTheorems, TLAPS

(* The initial values have their types.                                    *)
LEMMA TypeOKInit == Init => TypeOK
  <1> SUFFICES ASSUME Init PROVE TypeOK
    OBVIOUS
  <1>1. wg \in Nat
    BY DEF Init
  <1>2. acceptFailed \in BOOLEAN /\ stopped \in [Interfaces -> BOOLEAN]
    BY Zenon DEF Init
  <1>3. /\ iface \in [Interfaces -> IfaceStates]
        /\ sock \in [Interfaces -> {"none", "open", "closed"}]
        /\ close \in [Threads -> CloseStates]
    BY DEF Init, IfaceStates, CloseStates
  <1>4. QED
    BY <1>1, <1>2, <1>3 DEF Init, TypeOK, RunStates, ChanStates, SsdpStates

(* Interfaces is finite, and so is every set of its goroutines.            *)
LEMMA OutstandingFinite ==
  /\ IsFiniteSet(Outstanding)
  /\ Cardinality(Outstanding) \in Nat
  /\ Cardinality(Outstanding) = 0 => Outstanding = {}
  <1>1. Outstanding \in SUBSET Interfaces
    BY DEF Outstanding
  <1>2. IsFiniteSet(Outstanding)
    BY <1>1, FS_Subset, DmsServerAssumption
  <1>3. QED
    BY <1>2, FS_CardinalityType, FS_EmptySet

(* Every action keeps every variable in its type. A Done needs the counter *)
(* to be positive, which WaitInv gives.                                    *)
LEMMA TypeOKStep == IInv /\ [Next]_vars => TypeOK'
  <1> SUFFICES ASSUME IInv, [Next]_vars PROVE TypeOK'
    OBVIOUS
  <1>0. TypeOK /\ WaitInv
    BY DEF IInv
  <1> USE DEF TypeOK, RunStates, ChanStates, SsdpStates, IfaceStates,
              CloseStates, Threads, runVars, ssdpVars
  <1>1. CASE RunStep
    BY <1>0, <1>1 DEF RunStep, InitServer, StartRun, AcceptInterrupted,
                ReturnFromRun, RunVerdict
  <1>2. CASE SsdpStep
    BY <1>0, <1>2 DEF SsdpStep, Spawn, EndSpawn, WaitReturns, SignalSsdpStopped
  <1>3. ASSUME NEW t \in Threads, CloseStep(t)
        PROVE  TypeOK'
    <2>1. CASE CloseSignal(t)
      BY <1>0, <2>1 DEF CloseSignal, AfterSignal
    <2>2. CASE CloseListener(t)
      BY <1>0, <2>2 DEF CloseListener
    <2>3. CASE CloseAwait(t)
      BY <1>0, <2>3 DEF CloseAwait
    <2>4. CASE Crash(t)
      BY <1>0, <2>4 DEF Crash, SocketsClosed
    <2>5. QED
      BY <1>3, <2>1, <2>2, <2>3, <2>4 DEF CloseStep
  <1>4. ASSUME NEW i \in Interfaces, InterfaceStep(i)
        PROVE  TypeOK'
    <2>1. CASE SsdpInit(i)
      BY <1>0, <2>1 DEF SsdpInit
    <2>2. CASE InterfaceWakes(i)
      BY <1>0, <2>2 DEF InterfaceWakes
    <2>3. CASE InterfaceDone(i)
      <3>1. i \in Outstanding
        BY <2>3 DEF InterfaceDone, InterfaceOver, Outstanding
      <3>2. wg # 0
        BY <1>0, <3>1, OutstandingFinite DEF WaitInv
      <3>3. wg - 1 \in Nat
        BY <1>0, <3>2
      <3>4. QED
        BY <1>0, <2>3, <3>3 DEF InterfaceDone, Done
    <2>4. QED
      BY <1>4, <2>1, <2>2, <2>3 DEF InterfaceStep
  <1>5. CASE Environment
    <2>1. CASE AcceptFails
      <3>1. acceptFailed' \in BOOLEAN
        BY <1>0, <2>1, Zenon DEF AcceptFails
      <3>2. QED
        BY <1>0, <2>1, <3>1 DEF AcceptFails
    <2>2. ASSUME NEW i \in Interfaces, ServeFails(i)
          PROVE  TypeOK'
      <3>1. stopped' \in [Interfaces -> BOOLEAN]
        BY <1>0, <2>2 DEF ServeFails
      <3>2. QED
        BY <1>0, <2>2, <3>1 DEF ServeFails
    <2>3. ASSUME NEW c \in Closers, CallClose(c)
          PROVE  TypeOK'
      BY <1>0, <2>3 DEF CallClose
    <2>4. ASSUME NEW i \in Interfaces, SsdpPanics(i)
          PROVE  TypeOK'
      BY <1>0, <2>4 DEF SsdpPanics, SocketsClosed
    <2>5. QED
      BY <1>5, <2>1, <2>2, <2>3, <2>4 DEF Environment
  <1>6. CASE UNCHANGED vars
    BY <1>0, <1>6 DEF vars
  <1>7. QED
    BY <1>1, <1>2, <1>3, <1>4, <1>5, <1>6 DEF Next

-----------------------------------------------------------------------------
(* The inductive invariant.                                                *)

(* The initial states satisfy the invariant.                               *)
LEMMA IInvInit == Init => IInv
  <1> SUFFICES ASSUME Init PROVE IInv
    OBVIOUS
  <1>1. Outstanding = {}
    BY DEF Init, Outstanding
  <1>2. wg = Cardinality(Outstanding)
    BY <1>1, FS_EmptySet DEF Init
  <1>3. QED
    BY <1>2, TypeOKInit DEF Init, IInv, StartOrder, SignalInv, ListenerInv,
       WaitInv, SocketInv, InterfaceCloseNeverReturns, PastSignal, Threads

(* Close and doSSDP come after Init, interface goroutines after doSSDP.    *)
LEMMA StartOrderStep == IInv /\ [Next]_vars => StartOrder'
  <1> SUFFICES ASSUME IInv, [Next]_vars PROVE StartOrder'
    OBVIOUS
  <1> USE DEF IInv, TypeOK, StartOrder, Threads, runVars, ssdpVars
  <1>1. CASE RunStep
    BY <1>1 DEF RunStep, InitServer, StartRun, AcceptInterrupted,
                ReturnFromRun, RunVerdict
  <1>2. CASE SsdpStep
    BY <1>2 DEF SsdpStep, Spawn, EndSpawn, WaitReturns, SignalSsdpStopped
  <1>3. ASSUME NEW t \in Threads, CloseStep(t)
        PROVE  StartOrder'
    <2>1. CASE CloseSignal(t)
      BY <2>1 DEF CloseSignal, AfterSignal, SignalInv, PastSignal
    <2>2. CASE CloseListener(t)
      BY <2>2 DEF CloseListener
    <2>3. CASE CloseAwait(t)
      BY <2>3 DEF CloseAwait
    <2>4. CASE Crash(t)
      BY <2>4 DEF Crash
    <2>5. QED
      BY <1>3, <2>1, <2>2, <2>3, <2>4 DEF CloseStep
  <1>4. ASSUME NEW i \in Interfaces, InterfaceStep(i)
        PROVE  StartOrder'
    <2>1. CASE SsdpInit(i)
      BY <2>1 DEF SsdpInit
    <2>2. CASE InterfaceWakes(i)
      BY <2>2 DEF InterfaceWakes
    <2>3. CASE InterfaceDone(i)
      BY <2>3 DEF InterfaceDone, InterfaceOver, InterfaceCloseNeverReturns
    <2>4. QED
      BY <1>4, <2>1, <2>2, <2>3 DEF InterfaceStep
  <1>5. CASE Environment
    BY <1>5, DmsServerAssumption
       DEF Environment, AcceptFails, ServeFails, SsdpPanics,
       CallClose
  <1>6. CASE UNCHANGED vars
    BY <1>6 DEF vars
  <1>7. QED
    BY <1>1, <1>2, <1>3, <1>4, <1>5, <1>6 DEF Next

(* Sockets are opened by SsdpInit, and closed with the process.            *)
LEMMA SocketInvStep == IInv /\ [Next]_vars => SocketInv'
  <1> SUFFICES ASSUME IInv, [Next]_vars PROVE SocketInv'
    OBVIOUS
  <1> USE DEF IInv, TypeOK, SocketInv, Threads, runVars, ssdpVars
  <1>1. CASE RunStep
    BY <1>1 DEF RunStep, InitServer, StartRun, AcceptInterrupted, ReturnFromRun
  <1>2. CASE SsdpStep
    BY <1>2 DEF SsdpStep, Spawn, EndSpawn, WaitReturns, SignalSsdpStopped
  <1>3. ASSUME NEW t \in Threads, CloseStep(t)
        PROVE  SocketInv'
    BY <1>3 DEF CloseStep, CloseSignal, CloseListener, CloseAwait, Crash, SocketsClosed
  <1>4. ASSUME NEW i \in Interfaces, InterfaceStep(i)
        PROVE  SocketInv'
    BY <1>4 DEF InterfaceStep, SsdpInit, InterfaceWakes, InterfaceDone
  <1>5. CASE Environment
    BY <1>5 DEF Environment, AcceptFails, ServeFails, SsdpPanics, CallClose, SocketsClosed
  <1>6. CASE UNCHANGED vars
    BY <1>6 DEF vars
  <1>7. QED
    BY <1>1, <1>2, <1>3, <1>4, <1>5, <1>6 DEF Next

(* One thread closes s.closed, and the others that try panic.              *)
LEMMA SignalInvStep == IInv /\ [Next]_vars => SignalInv'
  <1> SUFFICES ASSUME IInv, [Next]_vars PROVE SignalInv'
    OBVIOUS
  <1> USE DEF IInv, TypeOK, SignalInv, PastSignal, Threads, runVars, ssdpVars
  <1>1. CASE InitServer
    BY <1>1 DEF InitServer, StartOrder
  <1>2. CASE (RunStep /\ ~InitServer) \/ SsdpStep
    <2>1. UNCHANGED <<closed, close>>
      BY <1>2 DEF RunStep, StartRun, AcceptInterrupted, ReturnFromRun,
                  SsdpStep, Spawn, EndSpawn, WaitReturns, SignalSsdpStopped
    <2>2. QED
      BY <2>1
  <1>3. ASSUME NEW t \in Threads, CloseStep(t)
        PROVE  SignalInv'
    <2>1. CASE CloseSignal(t)
      <3>1. closed \in {"open", "closed"}
        BY <2>1 DEF CloseSignal, StartOrder, ChanStates
      <3>2. QED
        BY <2>1, <3>1 DEF CloseSignal, AfterSignal
    <2>2. CASE CloseListener(t)
      BY <2>2 DEF CloseListener
    <2>3. CASE CloseAwait(t)
      BY <2>3 DEF CloseAwait
    <2>4. CASE Crash(t)
      BY <2>4 DEF Crash
    <2>5. QED
      BY <1>3, <2>1, <2>2, <2>3, <2>4 DEF CloseStep
  <1>4. ASSUME NEW i \in Interfaces, InterfaceStep(i)
        PROVE  SignalInv'
    <2>1. CASE SsdpInit(i)
      BY <2>1 DEF SsdpInit
    <2>2. CASE InterfaceWakes(i)
      BY <2>2 DEF InterfaceWakes, StartOrder
    <2>3. CASE InterfaceDone(i)
      BY <2>3 DEF InterfaceDone
    <2>4. QED
      BY <1>4, <2>1, <2>2, <2>3 DEF InterfaceStep
  <1>5. CASE Environment
    BY <1>5 DEF Environment, AcceptFails, ServeFails, SsdpPanics,
       CallClose
  <1>6. CASE UNCHANGED vars
    BY <1>6 DEF vars
  <1>7. QED
    BY <1>1, <1>2, <1>3, <1>4, <1>5, <1>6 DEF Next

(* Close closes the channel before the listener.                           *)
LEMMA ListenerInvStep == IInv /\ [Next]_vars => ListenerInv'
  <1> SUFFICES ASSUME IInv, [Next]_vars PROVE ListenerInv'
    OBVIOUS
  <1> USE DEF IInv, TypeOK, ListenerInv, Threads, runVars, ssdpVars
  <1>1. CASE RunStep
    BY <1>1 DEF RunStep, InitServer, StartRun, AcceptInterrupted,
                ReturnFromRun, RunVerdict, StartOrder
  <1>2. CASE SsdpStep
    BY <1>2 DEF SsdpStep, Spawn, EndSpawn, WaitReturns, SignalSsdpStopped
  <1>3. ASSUME NEW t \in Threads, CloseStep(t)
        PROVE  ListenerInv'
    BY <1>3 DEF CloseStep, CloseSignal, CloseListener, CloseAwait, Crash,
                SignalInv, PastSignal
  <1>4. ASSUME NEW i \in Interfaces, InterfaceStep(i)
        PROVE  ListenerInv'
    BY <1>4 DEF InterfaceStep, SsdpInit, InterfaceWakes, InterfaceDone
  <1>5. CASE Environment
    BY <1>5 DEF Environment, AcceptFails, ServeFails, SsdpPanics,
       CallClose
  <1>6. CASE UNCHANGED vars
    BY <1>6 DEF vars
  <1>7. QED
    BY <1>1, <1>2, <1>3, <1>4, <1>5, <1>6 DEF Next

(* A step that moves no interface goroutine in or out of Outstanding, and  *)
(* leaves the doSSDP goroutine where it is, preserves WaitInv.             *)
LEMMA WaitInvFrame ==
  ASSUME TypeOK, WaitInv, UNCHANGED <<ssdpStopped, ssdp, wg>>,
         \A i \in Interfaces : iface'[i] = iface[i] \/
            {iface[i], iface'[i]} \cap {"idle", "done"} = {}
  PROVE  WaitInv'
  <1>1. Outstanding' = Outstanding
    BY DEF Outstanding
  <1>2. QED
    BY <1>1 DEF WaitInv

(* The counter follows the goroutines, and Wait sees the last one done.    *)
LEMMA WaitInvStep == IInv /\ [Next]_vars => WaitInv'
  <1> SUFFICES ASSUME IInv, [Next]_vars PROVE WaitInv'
    OBVIOUS
  <1> USE DEF IInv, TypeOK, Threads, runVars, ssdpVars
  <1>1. CASE InitServer
    BY <1>1, WaitInvFrame DEF InitServer, WaitInv, StartOrder, Outstanding
  <1>2. CASE StartRun
    BY <1>2 DEF StartRun, WaitInv, StartOrder, Outstanding
  <1>3. CASE AcceptInterrupted \/ ReturnFromRun
    BY <1>3, WaitInvFrame DEF AcceptInterrupted, ReturnFromRun
  <1>4. ASSUME NEW i \in Interfaces, Spawn(i)
        PROVE  WaitInv'
    <2>1. Outstanding' = Outstanding \cup {i} /\ i \notin Outstanding
      BY <1>4 DEF Spawn, Outstanding
    <2>2. Cardinality(Outstanding') = Cardinality(Outstanding) + 1
      BY <2>1, OutstandingFinite, FS_AddElement
    <2>3. QED
      BY <1>4, <2>2 DEF Spawn, WaitInv
  <1>5. CASE EndSpawn
    BY <1>5 DEF EndSpawn, WaitInv, Outstanding
  <1>6. CASE WaitReturns
    <2>1. Outstanding = {}
      BY <1>6, OutstandingFinite DEF WaitReturns, WaitGroupDone, WaitInv
    <2>2. \A i \in Interfaces : iface[i] = "done"
      BY <1>6, <2>1 DEF WaitReturns, WaitInv, Outstanding
    <2>3. QED
      BY <1>6, <2>2 DEF WaitReturns, WaitInv, Outstanding
  <1>7. CASE SignalSsdpStopped
    BY <1>7 DEF SignalSsdpStopped, WaitInv, Outstanding
  <1>8. ASSUME NEW t \in Threads, CloseStep(t)
        PROVE  WaitInv'
    BY <1>8, WaitInvFrame
       DEF CloseStep, CloseSignal, CloseListener, CloseAwait, Crash
  <1>9. ASSUME NEW i \in Interfaces, SsdpInit(i) \/ InterfaceWakes(i)
        PROVE  WaitInv'
    BY <1>9, WaitInvFrame DEF SsdpInit, InterfaceWakes
  <1>10. ASSUME NEW i \in Interfaces, InterfaceDone(i)
         PROVE  WaitInv'
    <2>1. Outstanding' = Outstanding \ {i} /\ i \in Outstanding
      BY <1>10 DEF InterfaceDone, InterfaceOver, Outstanding
    <2>2. Cardinality(Outstanding') = Cardinality(Outstanding) - 1
      BY <2>1, OutstandingFinite, FS_RemoveElement
    <2>3. iface[i] # "done" /\ iface'[i] = "done"
      BY <1>10 DEF InterfaceDone, InterfaceOver
    <2>4. QED
      BY <1>10, <2>2, <2>3 DEF InterfaceDone, Done, WaitInv
  <1>11. CASE Environment
    BY <1>11, WaitInvFrame DEF Environment, AcceptFails, ServeFails, SsdpPanics,
       CallClose
  <1>12. CASE UNCHANGED vars
    BY <1>12, WaitInvFrame DEF vars
  <1>13. QED
    BY <1>1, <1>2, <1>3, <1>4, <1>5, <1>6, <1>7, <1>8, <1>9, <1>10, <1>11,
       <1>12 DEF Next, RunStep, SsdpStep, InterfaceStep

(* To return, the deferred Close of an interface needs s.ssdpStopped       *)
(* closed, hence its own goroutine done, while it is still closing.        *)
LEMMA InterfaceCloseStep ==
  IInv /\ [Next]_vars => (\A i \in Interfaces : close[i] # "returned")'
  <1> SUFFICES ASSUME IInv, [Next]_vars, NEW i \in Interfaces
               PROVE  close'[i] # "returned"
    OBVIOUS
  <1> USE DEF IInv, TypeOK, InterfaceCloseNeverReturns, Threads
  <1>1. ASSUME NEW t \in Threads, CloseAwait(t)
        PROVE  close'[i] # "returned"
    <2>1. t # i
      BY <1>1 DEF CloseAwait, WaitInv, StartOrder
    <2>2. QED
      BY <1>1, <2>1 DEF CloseAwait
  <1>2. CASE ~ \E t \in Threads : CloseAwait(t)
    BY <1>2 DEF Next, vars, RunStep, InitServer, StartRun, AcceptInterrupted,
       ReturnFromRun, SsdpStep, Spawn, EndSpawn, WaitReturns,
       SignalSsdpStopped, CloseStep, CloseSignal, CloseListener, AfterSignal,
       Crash, InterfaceStep, SsdpInit, InterfaceWakes, InterfaceDone,
       Environment, AcceptFails, ServeFails, SsdpPanics,
       CallClose
  <1>3. QED
    BY <1>1, <1>2

-----------------------------------------------------------------------------
(* The theorems.                                                           *)

(* Every step keeps the invariant.                                         *)
LEMMA IInvStep == IInv /\ [Next]_vars => IInv'
  <1> SUFFICES ASSUME IInv, [Next]_vars PROVE IInv'
    OBVIOUS
  <1>1. TypeOK' /\ StartOrder' /\ SignalInv' /\ ListenerInv' /\ WaitInv' /\ SocketInv'
    BY TypeOKStep, StartOrderStep, SignalInvStep, ListenerInvStep,
       WaitInvStep, SocketInvStep DEF IInv
  <1>2. InterfaceCloseNeverReturns'
    BY <1>1, InterfaceCloseStep
       DEF InterfaceCloseNeverReturns, StartOrder, WaitInv
  <1>3. QED
    BY <1>1, <1>2 DEF IInv

(* IInv is an invariant of the specification.                              *)
THEOREM InductiveInvariant == Spec => []IInv
  BY IInvInit, IInvStep, PTL DEF Spec

(* Type correctness: whatever the interfaces and the closers are, every    *)
(* variable of the server keeps its type.                                  *)
THEOREM TypeCorrect == Spec => []TypeOK
  <1>1. IInv => TypeOK
    BY DEF IInv
  <1>2. QED
    BY <1>1, InductiveInvariant, PTL

(* One caller of Close proceeds; a panic is that of a second caller.       *)
THEOREM CloseIsExclusive == Spec => []OneCloserProceeds
  <1>1. IInv => OneCloserProceeds
    BY DEF IInv, SignalInv, OneCloserProceeds, PastSignal
  <1>2. QED
    BY <1>1, InductiveInvariant, PTL

(* A Close never turns into an error of Run.                               *)
THEOREM RunErrorIsGenuine == Spec => []NoSpuriousRunError
  <1>1. IInv => NoSpuriousRunError
    BY DEF IInv, ListenerInv, NoSpuriousRunError
  <1>2. QED
    BY <1>1, InductiveInvariant, PTL

(* The end of SSDP is reported only when no interface goroutine is left.   *)
THEOREM SsdpStoppedIsTrue == Spec => []StoppedMeansQuiet
  <1>1. IInv => StoppedMeansQuiet
    BY DEF IInv, WaitInv, StoppedMeansQuiet
  <1>2. QED
    BY <1>1, InductiveInvariant, PTL

(* No interface goroutine gets past its deferred Close, with any number of *)
(* interfaces and of outside callers.                                      *)
THEOREM InterfaceCloseBlocks == Spec => []InterfaceCloseNeverReturns
  <1>1. IInv => InterfaceCloseNeverReturns
    BY DEF IInv
  <1>2. QED
    BY <1>1, InductiveInvariant, PTL

-----------------------------------------------------------------------------
(* Who waits for whom.                                                     *)

(* The goroutines came to where they wait in the order of the code.        *)
LEMMA WaitOrderStep == IInv /\ WaitOrder /\ [Next]_vars => WaitOrder'
  <1> SUFFICES ASSUME IInv, WaitOrder, [Next]_vars PROVE WaitOrder'
    OBVIOUS
  <1> USE DEF IInv, TypeOK, WaitOrder, Threads, runVars, ssdpVars
  <1>1. CASE InitServer
    BY <1>1 DEF InitServer, StartOrder
  <1>2. CASE RunStep /\ ~InitServer
    BY <1>2 DEF RunStep, StartRun, AcceptInterrupted, ReturnFromRun, RunVerdict
  <1>3. CASE SsdpStep
    BY <1>3 DEF SsdpStep, Spawn, EndSpawn, WaitReturns, SignalSsdpStopped
  <1>4. ASSUME NEW t \in Threads, CloseStep(t)
        PROVE  WaitOrder'
    BY <1>4 DEF CloseStep, CloseSignal, AfterSignal, CloseListener, CloseAwait, Crash
  <1>5. ASSUME NEW i \in Interfaces, InterfaceStep(i)
        PROVE  WaitOrder'
    BY <1>5 DEF InterfaceStep, SsdpInit, InterfaceWakes, InterfaceDone
  <1>6. CASE Environment
    BY <1>6, DmsServerAssumption
       DEF Environment, AcceptFails, ServeFails, SsdpPanics, CallClose
  <1>7. CASE UNCHANGED vars
    BY <1>7 DEF vars
  <1>8. QED
    BY <1>1, <1>2, <1>3, <1>4, <1>5, <1>6, <1>7 DEF Next

(* WaitOrder is an invariant next to IInv.                                 *)
LEMMA OrderInvariant == Spec => [](IInv /\ WaitOrder)
  <1>1. Init => IInv /\ WaitOrder
    BY IInvInit DEF Init, WaitOrder
  <1>2. IInv /\ WaitOrder /\ [Next]_vars => (IInv /\ WaitOrder)'
    BY IInvStep, WaitOrderStep
  <1>3. QED
    BY <1>1, <1>2, PTL DEF Spec

(* While a goroutine of the embedding program is in Close, doSSDP has ended *)
(* or has a goroutine left that can move: an interface that waits for its   *)
(* own end would be a second closer, and only one gets past the signal.     *)
LEMMA InterfacesMove ==
  ASSUME IInv, WaitOrder, ~Ready, NEW c \in Closers, PastSignal(c), ssdp # "idle"
  PROVE  ssdpStopped = "closed"
  <1>1. c \in Threads /\ closed = "closed"
    BY DEF Threads, IInv, SignalInv
  <1>2. ASSUME NEW i \in Interfaces PROVE i \notin Outstanding
    <2>1. ~PastSignal(i)
      BY <1>1, DmsServerAssumption DEF Threads, IInv, SignalInv
    <2>2. iface[i] \notin {"init", "serving", "returning"}
      BY <1>1 DEF Ready, InterfaceSelect, InterfaceOver
    <2>3. close[i] \in {"idle", "panic"}
      BY <2>1 DEF Ready, PastSignal, IInv, TypeOK, CloseStates, Threads
    <2>4. iface[i] # "closing"
      BY <2>3 DEF Ready, InterfaceOver, WaitOrder
    <2>5. QED
      BY <2>2, <2>4 DEF Outstanding, IInv, TypeOK, IfaceStates
  <1>3. wg = 0
    <2>1. Outstanding = {}
      BY <1>2 DEF Outstanding
    <2>2. QED
      BY <2>1, FS_EmptySet DEF IInv, WaitInv
  <1>4. ssdp = "done"
    BY <1>3 DEF Ready, WaitGroupDone, IInv, TypeOK, SsdpStates
  <1>5. QED
    BY <1>4 DEF WaitOrder

(* Once someone got past the signal the listener gets closed, and Run ends. *)
LEMMA ClosedRunEnds ==
  ASSUME IInv, WaitOrder, ~Ready, closed = "closed"
  PROVE  run \in {"nil", "error"}
  <1>1. PICK t \in Threads : PastSignal(t)
    BY DEF IInv, SignalInv
  <1>2. close[t] \in {"await", "returned"}
    BY <1>1 DEF PastSignal, Ready
  <1>3. httpConn = "closed" /\ run \notin {"new", "failed"}
    BY <1>1, <1>2 DEF WaitOrder, IInv, StartOrder
  <1>4. QED
    BY <1>3 DEF Ready, IInv, TypeOK, RunStates

(* No Close of the embedding program waits for ever, and no accept loop    *)
(* outlives a Close: when all goroutines of a closed server are blocked,   *)
(* the one that hangs is an interface, in its deferred Close.              *)
THEOREM NobodyElseHangs == Spec => []NoStandstill
  <1>1. IInv /\ WaitOrder => NoStandstill
    <2> SUFFICES ASSUME IInv, WaitOrder, proc = "up", ~Ready
                 PROVE  /\ \A c \in Closers : close[c] \in {"idle", "returned"}
                        /\ closed = "closed" => run \in {"nil", "error"}
      BY DEF NoStandstill
    <2>1. ASSUME NEW c \in Closers PROVE close[c] \in {"idle", "returned"}
      <3>1. c \in Threads /\ c \notin Interfaces
        BY DmsServerAssumption DEF Threads
      <3>2. close[c] \in {"idle", "await", "returned"}
        BY <3>1 DEF Ready, IInv, TypeOK, CloseStates
      <3>3. ASSUME close[c] = "await" PROVE FALSE
        <4>1. PastSignal(c)
          BY <3>3 DEF PastSignal
        <4>2. run \notin {"new", "failed"}
          BY <3>1, <3>3 DEF IInv, StartOrder
        <4>3. run \in {"serving", "nil", "error"}
          BY <4>2 DEF Ready, IInv, TypeOK, RunStates
        <4>4. ssdp # "idle"
          BY <4>3 DEF WaitOrder
        <4>5. ssdpStopped = "closed"
          BY <4>1, <4>4, InterfacesMove
        <4>6. QED
          BY <3>1, <3>3, <4>5 DEF Ready
      <3>4. QED
        BY <3>2, <3>3
    <2>2. closed = "closed" => run \in {"nil", "error"}
      BY ClosedRunEnds
    <2>3. QED
      BY <2>1, <2>2
  <1>2. QED
    BY <1>1, OrderInvariant, PTL

-----------------------------------------------------------------------------
(* The server implements ServerPromise.                                    *)

(* A step that leaves what the promise sees as it was is a stutter.        *)
LEMMA PromiseStutter ==
  ASSUME UNCHANGED <<run, acceptFailed, closed, ssdpStopped>>
  PROVE  UNCHANGED Promise!promiseVars
  BY DEF Promise!promiseVars, Phase, Verdict

(* Every step of the server maps to a step of the promise or to a stutter. *)
LEMMA PromiseStep ==
  ASSUME IInv, [Next]_vars
  PROVE  [Promise!Next]_(Promise!promiseVars)
  <1> DEFINE Goal == [Promise!Next]_(Promise!promiseVars)
  <1> USE DEF IInv, TypeOK, ChanStates, RunStates, runVars, ssdpVars
  <1>1. CASE InitServer
    <2>1. Phase = "new" /\ Phase' \in {"up", "failed"}
      BY <1>1 DEF InitServer, Phase, StartOrder
    <2>2. UNCHANGED <<acceptFailed, Verdict, ssdpStopped = "closed">>
      BY <1>1 DEF InitServer, Verdict, StartOrder, WaitInv
    <2>3. QED
      BY <2>1, <2>2 DEF Promise!Next, Promise!Start
  <1>2. CASE StartRun \/ AcceptInterrupted
    <2>1. UNCHANGED <<acceptFailed, closed, ssdpStopped>>
      BY <1>2 DEF StartRun, AcceptInterrupted
    <2>2. UNCHANGED <<Phase, Verdict>>
      BY <1>2 DEF StartRun, AcceptInterrupted, Phase, Verdict
    <2>3. QED
      BY <2>1, <2>2 DEF Promise!promiseVars
  <1>3. CASE ReturnFromRun
    <2>1. /\ Verdict = "none" /\ Verdict' = RunVerdict
          /\ UNCHANGED <<acceptFailed, closed, ssdpStopped, Phase>>
      BY <1>3 DEF ReturnFromRun, RunVerdict, Verdict, Phase
    <2>2. CASE closed = "closed"
      <3>1. Phase = "shut" /\ RunVerdict = "nil"
        BY <1>3, <2>2 DEF ReturnFromRun, RunVerdict, Phase
      <3>2. QED
        BY <2>1, <3>1 DEF Promise!Next, Promise!ReturnNil
    <2>3. CASE closed # "closed"
      <3>1. Phase = "up" /\ RunVerdict = "error" /\ acceptFailed
        BY <1>3, <2>3 DEF ReturnFromRun, RunVerdict, Phase, ListenerInv
      <3>2. QED
        BY <2>1, <3>1 DEF Promise!Next, Promise!ReturnError
    <2>4. QED
      BY <2>2, <2>3
  <1>4. CASE SsdpStep
    <2>1. CASE SignalSsdpStopped
      <3>1. /\ run \notin {"new", "failed"} /\ ssdpStopped # "closed"
            /\ ssdpStopped' = "closed" /\ UNCHANGED <<run, acceptFailed, closed>>
        BY <2>1 DEF SignalSsdpStopped, StartOrder, WaitInv
      <3>2. Phase \in {"up", "shut"} /\ UNCHANGED <<Phase, Verdict>>
        BY <3>1 DEF Phase, Verdict
      <3>3. QED
        BY <3>1, <3>2 DEF Promise!Next, Promise!Quieten
    <2>2. CASE ~ SignalSsdpStopped
      BY <1>4, <2>2, PromiseStutter DEF SsdpStep, Spawn, EndSpawn, WaitReturns
    <2>3. QED
      BY <2>1, <2>2
  <1>5. ASSUME NEW t \in Threads, CloseStep(t)
        PROVE  Goal
    <2>1. CASE CloseSignal(t) /\ closed = "open"
      <3>1. /\ run \notin {"new", "failed"} /\ closed' = "closed"
            /\ UNCHANGED <<run, acceptFailed, ssdpStopped>>
        BY <2>1 DEF CloseSignal, StartOrder
      <3>2. Phase = "up" /\ Phase' = "shut" /\ UNCHANGED Verdict
        BY <2>1, <3>1 DEF Phase, Verdict
      <3>3. QED
        BY <3>1, <3>2 DEF Promise!Next, Promise!Shut
    <2>2. CASE CloseSignal(t) /\ closed # "open"
      BY <2>2, PromiseStutter DEF CloseSignal, StartOrder
    <2>3. CASE ~ CloseSignal(t)
      BY <1>5, <2>3, PromiseStutter
         DEF CloseStep, CloseListener, CloseAwait, Crash
    <2>4. QED
      BY <2>1, <2>2, <2>3
  <1>6. ASSUME NEW i \in Interfaces, InterfaceStep(i)
        PROVE  Goal
    BY <1>6, PromiseStutter
       DEF InterfaceStep, SsdpInit, InterfaceWakes, InterfaceDone
  <1>7. CASE Environment
    <2>1. CASE AcceptFails
      <3>1. /\ run = "serving" /\ acceptFailed' = TRUE /\ run' = "returned"
            /\ UNCHANGED <<closed, ssdpStopped>>
        BY <2>1 DEF AcceptFails
      <3>2. /\ Phase \in {"up", "shut"} /\ Verdict = "none"
            /\ UNCHANGED <<Phase, Verdict>>
        BY <3>1 DEF Phase, Verdict
      <3>3. CASE acceptFailed
        BY <3>1, <3>2, <3>3 DEF Promise!promiseVars
      <3>4. CASE ~acceptFailed
        BY <3>1, <3>2, <3>4 DEF Promise!Next, Promise!Fault
      <3>5. QED
        BY <3>3, <3>4
    <2>2. CASE ~ AcceptFails
      BY <1>7, <2>2, PromiseStutter DEF Environment, ServeFails, SsdpPanics,
         CallClose
    <2>3. QED
      BY <2>1, <2>2
  <1>8. CASE UNCHANGED vars
    BY <1>8, PromiseStutter DEF vars
  <1>9. QED
    BY <1>1, <1>2, <1>3, <1>4, <1>5, <1>6, <1>7, <1>8 DEF Next, RunStep

(* The implementation theorem: the goroutines, the channels and the        *)
(* listener of the server implement its promise to the embedding program.  *)
THEOREM ServerKeepsPromise == Spec => KeepsPromise
  <1>1. Init => Promise!Init
    BY DEF Init, Promise!Init, Phase, Verdict
  <1>2. IInv /\ [Next]_vars => [Promise!Next]_(Promise!promiseVars)
    BY PromiseStep
  <1>3. QED
    BY <1>1, <1>2, InductiveInvariant, PTL DEF Spec, KeepsPromise, Promise!Spec

-----------------------------------------------------------------------------
(* The server uses each ssdp.Server as SsdpPromise allows.                 *)

(* A step that opens no socket, ends no Serve and no process is a stutter. *)
LEMMA SsdpStutter ==
  ASSUME NEW i \in Interfaces, UNCHANGED <<proc, sock, stopped>>
  PROVE  UNCHANGED Ssdp(i)!promiseVars
  BY DEF Ssdp!promiseVars

(* Every step of the server is one that the ssdp.Server of an interface    *)
(* allows, or none of its concern.                                         *)
LEMMA SsdpAllows ==
  ASSUME IInv, [Next]_vars, NEW i \in Interfaces
  PROVE  [Ssdp(i)!Next]_(Ssdp(i)!promiseVars)
  <1> USE DEF IInv, TypeOK, runVars, ssdpVars
  <1>1. CASE RunStep \/ SsdpStep \/ AcceptFails \/ UNCHANGED vars
    BY <1>1, SsdpStutter
       DEF RunStep, InitServer, StartRun, AcceptInterrupted, ReturnFromRun,
           SsdpStep, Spawn, EndSpawn, WaitReturns, SignalSsdpStopped,
           AcceptFails, vars
  <1>2. ASSUME NEW t \in Threads, CloseSignal(t) \/ CloseListener(t) \/ CloseAwait(t)
        PROVE  [Ssdp(i)!Next]_(Ssdp(i)!promiseVars)
    BY <1>2, SsdpStutter DEF CloseSignal, CloseListener, CloseAwait
  <1>3. ASSUME NEW c \in Closers, CallClose(c)
        PROVE  [Ssdp(i)!Next]_(Ssdp(i)!promiseVars)
    BY <1>3, SsdpStutter DEF CallClose
  <1>4. ASSUME proc = "up", proc' = "crashed", sock' = SocketsClosed, UNCHANGED stopped
        PROVE  [Ssdp(i)!Next]_(Ssdp(i)!promiseVars)
    BY <1>4 DEF SocketsClosed, Ssdp!Next, Ssdp!Die
  <1>5. ASSUME NEW t \in Threads, Crash(t)
        PROVE  [Ssdp(i)!Next]_(Ssdp(i)!promiseVars)
    BY <1>4, <1>5 DEF Crash
  <1>6. ASSUME NEW j \in Interfaces, SsdpPanics(j)
        PROVE  [Ssdp(i)!Next]_(Ssdp(i)!promiseVars)
    BY <1>4, <1>6 DEF SsdpPanics
  <1>7. ASSUME NEW j \in Interfaces, SsdpInit(j)
        PROVE  [Ssdp(i)!Next]_(Ssdp(i)!promiseVars)
    <2>1. CASE i = j
      BY <1>7, <2>1 DEF SsdpInit, SocketInv, Ssdp!Next, Ssdp!Open, Ssdp!promiseVars
    <2>2. CASE i # j
      BY <1>7, <2>2 DEF SsdpInit, Ssdp!promiseVars
    <2>3. QED
      BY <2>1, <2>2
  <1>8. ASSUME NEW j \in Interfaces, ServeFails(j)
        PROVE  [Ssdp(i)!Next]_(Ssdp(i)!promiseVars)
    <2>1. CASE i = j
      BY <1>8, <2>1 DEF ServeFails, Ssdp!Next, Ssdp!GiveUp
    <2>2. CASE i # j
      BY <1>8, <2>2 DEF ServeFails, Ssdp!promiseVars
    <2>3. QED
      BY <2>1, <2>2
  <1>9. ASSUME NEW j \in Interfaces, InterfaceWakes(j) \/ InterfaceDone(j)
        PROVE  [Ssdp(i)!Next]_(Ssdp(i)!promiseVars)
    BY <1>9, SsdpStutter DEF InterfaceWakes, InterfaceDone
  <1>10. QED
    BY <1>1, <1>2, <1>3, <1>5, <1>6, <1>7, <1>8, <1>9
       DEF Next, CloseStep, InterfaceStep, Environment

(* Whatever the goroutines of the server do, each ssdp.Server is opened at *)
(* most once and ended as SsdpPromise has it.                              *)
THEOREM SsdpServersUsedRightly == Spec => UsesSsdpServersRightly
  <1> DEFINE Allowed == \A i \in Interfaces : [Ssdp(i)!Next]_(Ssdp(i)!promiseVars)
  <1>1. Init => \A i \in Interfaces : Ssdp(i)!Init
    BY DEF Init, Ssdp!Init
  <1>2. IInv /\ [Next]_vars => [Allowed]_vars
    BY SsdpAllows
  <1>3. QED
    BY <1>1, <1>2, InductiveInvariant, PTL DEF Spec, UsesSsdpServersRightly

-----------------------------------------------------------------------------
(* The program of main.go, DmsMain.                                        *)

(* The initial states satisfy the invariant.                               *)
LEMMA MainInvInit == Init => MainInv
  BY IInvInit DEF MainInv, Init, CloseHasCause, ExitStatusExplained, Threads

(* A process that has ended does nothing more.                             *)
LEMMA OnlyWhenUp == Next => proc = "up" /\ proc' \in {"up", "crashed"}
  BY DEF Next, RunStep, InitServer, StartRun, AcceptInterrupted, ReturnFromRun,
         SsdpStep, Spawn, EndSpawn, WaitReturns, SignalSsdpStopped,
         CloseStep, CloseSignal, CloseListener, CloseAwait, Crash,
         InterfaceStep, SsdpInit, InterfaceWakes, InterfaceDone,
         Environment, AcceptFails, ServeFails, SsdpPanics, CallClose

(* Only a goroutine of an interface closes the server, and the first of    *)
(* them was woken by its announcer.                                        *)
LEMMA CloseHasCauseStep == IInv /\ CloseHasCause /\ Next => CloseHasCause'
  <1> SUFFICES ASSUME IInv, CloseHasCause, Next PROVE CloseHasCause'
    OBVIOUS
  <1> USE DmsMainAssumption DEF IInv, TypeOK, CloseHasCause, Threads, runVars, ssdpVars
  <1>1. CASE RunStep
    <2>1. CASE InitServer
      BY <2>1 DEF InitServer
    <2>2. CASE StartRun \/ AcceptInterrupted \/ ReturnFromRun
      BY <2>2 DEF StartRun, AcceptInterrupted, ReturnFromRun
    <2>3. QED
      BY <1>1, <2>1, <2>2 DEF RunStep
  <1>2. CASE SsdpStep
    BY <1>2 DEF SsdpStep, Spawn, EndSpawn, WaitReturns, SignalSsdpStopped
  <1>3. ASSUME NEW t \in Threads, CloseStep(t)
        PROVE  CloseHasCause'
    BY <1>3 DEF CloseStep, CloseSignal, CloseListener, CloseAwait, Crash
  <1>4. ASSUME NEW i \in Interfaces, InterfaceWakes(i)
        PROVE  CloseHasCause'
    BY <1>4 DEF InterfaceWakes, InterfaceSelect
  <1>5. ASSUME NEW i \in Interfaces, SsdpInit(i) \/ InterfaceDone(i)
        PROVE  CloseHasCause'
    BY <1>5 DEF SsdpInit, InterfaceDone
  <1>6. CASE Environment
    BY <1>6 DEF Environment, AcceptFails, ServeFails, SsdpPanics, CallClose
  <1>7. QED
    BY <1>1, <1>2, <1>3, <1>4, <1>5, <1>6 DEF Next, InterfaceStep

(* Run returns nil only when the server was closed, and an error only when *)
(* accepting failed.                                                       *)
LEMMA MainInvStep == MainInv /\ [MainNext]_vars => MainInv'
  <1> SUFFICES ASSUME MainInv, [MainNext]_vars PROVE MainInv'
    OBVIOUS
  <1>1. CASE Next
    <2>1. IInv'
      BY <1>1, OnlyWhenUp, IInvStep DEF MainInv
    <2>2. CloseHasCause'
      BY <1>1, OnlyWhenUp, CloseHasCauseStep DEF MainInv
    <2>3. QED
      BY <1>1, <2>1, <2>2, OnlyWhenUp DEF MainInv, ExitStatusExplained
  <1>2. CASE Exit
    <2>1. IInv
      BY <1>2 DEF Exit, MainInv
    <2>2. UNCHANGED <<run, acceptFailed, closed, close, stopped>>
      BY <1>2 DEF Exit, runVars
    <2>3. CloseHasCause'
      BY <2>2 DEF MainInv, CloseHasCause
    <2>4. proc' = ExitStatus /\ run \in {"failed", "nil", "error"}
      BY <1>2 DEF Exit
    <2>5. run = "nil" => \E i \in Interfaces : stopped[i]
      BY <2>1 DEF MainInv, CloseHasCause, IInv, ListenerInv
    <2>6. run = "error" => acceptFailed
      BY <2>1 DEF IInv, ListenerInv
    <2>7. QED
      BY <2>2, <2>3, <2>4, <2>5, <2>6 DEF MainInv, ExitStatusExplained, ExitStatus
  <1>3. CASE UNCHANGED vars
    BY <1>3, IInvStep DEF vars, runVars, ssdpVars, MainInv, CloseHasCause, ExitStatusExplained
  <1>4. QED
    BY <1>1, <1>2, <1>3 DEF MainNext

(* The program exits with 0 only after an announcer gave up, and with 1    *)
(* only when it could not listen or accepting failed.                      *)
THEOREM ExitStatusIsExplained == MainSpec => []ExitStatusExplained
  <1>1. MainInv => ExitStatusExplained
    BY DEF MainInv
  <1>2. QED
    BY <1>1, MainInvInit, MainInvStep, PTL DEF MainSpec

(* A failure reaches the goroutine that has to act on it, with the order   *)
(* of WaitOrder.                                                           *)
LEMMA FailureOrderStep ==
  IInv /\ WaitOrder /\ FailureOrder /\ Next => FailureOrder'
  <1> SUFFICES ASSUME IInv, WaitOrder, FailureOrder, Next PROVE FailureOrder'
    OBVIOUS
  <1> USE DEF IInv, TypeOK, WaitOrder, FailureOrder, Threads, runVars, ssdpVars
  <1>1. CASE RunStep
    BY <1>1 DEF RunStep, InitServer, StartRun, AcceptInterrupted, ReturnFromRun, RunVerdict
  <1>2. CASE SsdpStep
    BY <1>2 DEF SsdpStep, Spawn, EndSpawn, WaitReturns, SignalSsdpStopped
  <1>3. ASSUME NEW t \in Threads, CloseStep(t)
        PROVE  FailureOrder'
    BY <1>3 DEF CloseStep, CloseSignal, AfterSignal, CloseListener, CloseAwait,
                Crash, SocketsClosed
  <1>4. ASSUME NEW i \in Interfaces, InterfaceStep(i)
        PROVE  FailureOrder'
    BY <1>4 DEF InterfaceStep, SsdpInit, InterfaceWakes, InterfaceDone, InterfaceOver
  <1>5. CASE Environment
    BY <1>5, DmsMainAssumption
       DEF Environment, AcceptFails, ServeFails, SsdpPanics, CallClose, SocketsClosed
  <1>6. QED
    BY <1>1, <1>2, <1>3, <1>4, <1>5 DEF Next

(* Both orders hold until main exits.                                      *)
LEMMA FailureInvariant == MainSpec => [](MainInv /\ FailureInv)
  <1>1. Init => FailureInv
    BY DEF Init, FailureInv, WaitOrder, FailureOrder
  <1>2. MainInv /\ FailureInv /\ [MainNext]_vars => FailureInv'
    <2> SUFFICES ASSUME MainInv, FailureInv, [MainNext]_vars PROVE FailureInv'
      OBVIOUS
    <2>1. CASE Next
      <3>1. IInv /\ WaitOrder /\ FailureOrder
        BY <2>1, OnlyWhenUp DEF MainInv, FailureInv
      <3>2. QED
        BY <2>1, <3>1, WaitOrderStep, FailureOrderStep DEF FailureInv
    <2>2. CASE Exit
      BY <2>2 DEF Exit, ExitStatus, FailureInv
    <2>3. CASE UNCHANGED vars
      BY <2>3 DEF vars, runVars, ssdpVars, FailureInv, WaitOrder, FailureOrder
    <2>4. QED
      BY <2>1, <2>2, <2>3 DEF MainNext
  <1>3. QED
    BY <1>1, <1>2, MainInvInit, MainInvStep, PTL DEF MainSpec

(* One failing part stops the whole program: no failure is left that no    *)
(* goroutine is going to act on, with any number of interfaces.            *)
THEOREM NoFailureIsForgotten == MainSpec => []IdleMeansHealthy
  <1>1. MainInv /\ FailureInv => IdleMeansHealthy
    <2> SUFFICES ASSUME MainInv, FailureInv, proc = "up", ~Ready,
                        run \notin {"failed", "nil", "error"}
                 PROVE  ~acceptFailed /\ \A i \in Interfaces : ~stopped[i]
      BY DEF IdleMeansHealthy
    <2>1. IInv /\ WaitOrder /\ FailureOrder
      BY DEF MainInv, FailureInv
    <2>2. ~acceptFailed
      BY <2>1 DEF FailureOrder, Ready
    <2>3. ASSUME NEW i \in Interfaces, stopped[i] PROVE FALSE
      <3>1. i \in Threads /\ ~PastSignal(i)
        BY <2>1, ClosedRunEnds DEF Threads, IInv, SignalInv
      <3>2. iface[i] # "serving"
        BY <2>3 DEF Ready, InterfaceSelect
      <3>3. close[i] # "idle"
        BY <2>1, <2>3, <3>2 DEF FailureOrder, WaitOrder
      <3>4. close[i] = "panic"
        BY <2>1, <3>1, <3>3 DEF Ready, PastSignal, IInv, TypeOK, CloseStates
      <3>5. iface[i] \in {"closing", "done"}
        BY <2>1, <2>3, <3>2 DEF FailureOrder
      <3>6. QED
        BY <3>1, <3>4, <3>5 DEF Ready, InterfaceOver
    <2>4. QED
      BY <2>2, <2>3
  <1>2. QED
    BY <1>1, FailureInvariant, PTL
=============================================================================
