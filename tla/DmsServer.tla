------------------------------ MODULE DmsServer ------------------------------
(***************************************************************************)
(* The life cycle of dms.Server (dlna/dms/dms.go): Init, Run, the HTTP     *)
(* accept loop, the doSSDP goroutine with its WaitGroup, one ssdpInterface *)
(* goroutine per network interface, and Close.                             *)
(*                                                                         *)
(* Close is called by two kinds of goroutines: those of the embedding      *)
(* program (Closers) and the ssdpInterface goroutines themselves, whose    *)
(* deferred call names the dms.Server s and not the local ssdp.Server.     *)
(*                                                                         *)
(* A channel that is only ever closed, and never sent on, is its state:    *)
(* "nil" before it is made, then "open", then "closed".                    *)
(*                                                                         *)
(* The definitions named ...Slip are not the code: each is a mistake that  *)
(* the definition after it avoids, and that some property tells from it.   *)
(***************************************************************************)
EXTENDS Integers, FiniteSets

CONSTANTS
  Interfaces,   \* s.Interfaces: one ssdpInterface goroutine for each
  Closers       \* goroutines of the embedding program that may call Close

ASSUME DmsServerAssumption ==
  /\ IsFiniteSet(Interfaces)
  /\ Interfaces \cap Closers = {}

VARIABLES
  proc,         \* the process: "up", or "crashed" by a panic nothing recovers
  run,          \* the goroutine that calls Init, then Run
  acceptFailed, \* the accept loop met an error of its own (history)
  closed,       \* s.closed, a channel
  httpConn,     \* s.HTTPConn: "nil", "open" or "closed"
  ssdpStopped,  \* s.ssdpStopped, a channel
  ssdp,         \* the goroutine Run starts: doSSDP, then close(ssdpStopped)
  wg,           \* the counter of doSSDP's WaitGroup
  iface,        \* the ssdpInterface goroutine of each interface
  stopped,      \* stopped[i]: ssdp.Server.Serve has returned on interface i
  sock,         \* the UDP socket of the ssdp.Server of each interface
  close         \* where each thread is in Close

runVars  == <<run, acceptFailed>>
ssdpVars == <<ssdpStopped, ssdp>>
vars == <<proc, runVars, closed, httpConn, ssdpVars, wg, iface, stopped,
          sock, close>>

Threads == Interfaces \cup Closers

ChanStates  == {"nil", "open", "closed"}
RunStates   == {"new", "failed", "inited", "serving", "returned", "nil", "error"}
SsdpStates  == {"idle", "spawning", "waiting", "stopping", "done"}
IfaceStates == {"idle", "init", "serving", "closing", "returning", "done"}
CloseStates == {"idle", "signal", "listener", "await", "returned", "panic"}

(* The listener the caller passes may be missing: main.go passes nil when   *)
(* it could not listen on its port.                                        *)
Init ==
  /\ proc = "up"
  /\ run = "new"
  /\ acceptFailed = FALSE
  /\ closed = "nil"
  /\ httpConn \in {"nil", "open"}
  /\ ssdpStopped = "nil"
  /\ ssdp = "idle"
  /\ wg = 0
  /\ iface = [i \in Interfaces |-> "idle"]
  /\ stopped = [i \in Interfaces |-> FALSE]
  /\ sock = [i \in Interfaces |-> "none"]
  /\ close = [t \in Threads |-> "idle"]

-----------------------------------------------------------------------------
(* The goroutine that calls Init and Run.                                  *)

(* Server.Init: the channels are made around a Listen that can fail; it is *)
(* called only when the caller passed no listener.                         *)
InitServer ==
  /\ proc = "up"
  /\ run = "new"
  /\ closed' = "open"
  /\ \/ /\ httpConn' = "open"
        /\ ssdpStopped' = "open"
        /\ run' = "inited"
     \/ /\ httpConn = "nil"
        /\ run' = "failed"
        /\ UNCHANGED <<httpConn, ssdpStopped>>
  /\ UNCHANGED <<proc, acceptFailed, ssdp, wg, iface, stopped, sock, close>>

(* Server.Run: start the doSSDP goroutine and enter the accept loop.       *)
StartRun ==
  /\ proc = "up"
  /\ run = "inited"
  /\ run' = "serving"
  /\ ssdp' = "spawning"
  /\ UNCHANGED <<proc, acceptFailed, closed, httpConn, ssdpStopped, wg, iface,
                 stopped, sock, close>>

(* http.Server.Serve returns an error because the listener was closed.     *)
AcceptInterrupted ==
  /\ proc = "up"
  /\ run = "serving"
  /\ httpConn = "closed"
  /\ run' = "returned"
  /\ UNCHANGED <<proc, acceptFailed, closed, httpConn, ssdpVars, wg, iface,
                 stopped, sock, close>>

(* http.Server.Serve gives up on an accept error of its own; it closes the *)
(* listener it was given before it returns.                                *)
AcceptFails ==
  /\ proc = "up"
  /\ run = "serving"
  /\ httpConn = "open"
  /\ run' = "returned"
  /\ acceptFailed' = TRUE
  /\ httpConn' = "closed"
  /\ UNCHANGED <<proc, closed, ssdpVars, wg, iface, stopped, sock, close>>

(* serveHTTP drops the error when s.closed is closed, and returns it       *)
(* otherwise; Run returns the same.                                        *)
RunVerdictSlip == "error"  \* slip: return the error of Serve as it is

RunVerdict == IF closed = "closed" THEN "nil" ELSE "error"

ReturnFromRun ==
  /\ proc = "up"
  /\ run = "returned"
  /\ run' = RunVerdict
  /\ UNCHANGED <<proc, acceptFailed, closed, httpConn, ssdpVars, wg, iface,
                 stopped, sock, close>>

-----------------------------------------------------------------------------
(* The doSSDP goroutine.                                                   *)

(* One turn of doSSDP's loop: Add(1), then the go statement.               *)
Spawn(i) ==
  /\ proc = "up"
  /\ ssdp = "spawning"
  /\ iface[i] = "idle"
  /\ wg' = wg + 1
  /\ iface' = [iface EXCEPT ![i] = "init"]
  /\ UNCHANGED <<proc, runVars, closed, httpConn, ssdpVars, stopped, sock, close>>

(* The loop over s.Interfaces ends, and doSSDP calls wg.Wait.              *)
EndSpawn ==
  /\ proc = "up"
  /\ ssdp = "spawning"
  /\ \A i \in Interfaces : iface[i] # "idle"
  /\ ssdp' = "waiting"
  /\ UNCHANGED <<proc, runVars, closed, httpConn, ssdpStopped, wg, iface,
                 stopped, sock, close>>

(* wg.Wait returns when the counter is zero.                               *)
WaitGroupDoneSlip == TRUE  \* slip: no Wait after the loop

WaitGroupDone == wg = 0

WaitReturns ==
  /\ proc = "up"
  /\ ssdp = "waiting"
  /\ WaitGroupDone
  /\ ssdp' = "stopping"
  /\ UNCHANGED <<proc, runVars, closed, httpConn, ssdpStopped, wg, iface,
                 stopped, sock, close>>

(* close(s.ssdpStopped), after doSSDP has returned.                        *)
SignalSsdpStopped ==
  /\ proc = "up"
  /\ ssdp = "stopping"
  /\ ssdpStopped' = "closed"
  /\ ssdp' = "done"
  /\ UNCHANGED <<proc, runVars, closed, httpConn, wg, iface, stopped, sock, close>>

-----------------------------------------------------------------------------
(* The ssdpInterface goroutines.                                           *)

(* ssdp.Server.Init opens the multicast socket, or fails: every failure    *)
(* path returns before the deferred call is registered.                    *)
SsdpInit(i) ==
  /\ proc = "up"
  /\ iface[i] = "init"
  /\ \/ /\ sock' = [sock EXCEPT ![i] = "open"]
        /\ iface' = [iface EXCEPT ![i] = "serving"]
     \/ /\ iface' = [iface EXCEPT ![i] = "returning"]
        /\ UNCHANGED sock
  /\ UNCHANGED <<proc, runVars, closed, httpConn, ssdpVars, wg, stopped, close>>

(* ssdp.Server.Serve returns: it does so only when the interface can no    *)
(* longer list its addresses.                                              *)
ServeFailsSlip(i) ==  \* slip: Serve is called although Init has failed
  /\ proc = "up"
  /\ iface[i] \notin {"idle", "init"}
  /\ ~stopped[i]
  /\ stopped' = [stopped EXCEPT ![i] = TRUE]
  /\ UNCHANGED <<proc, runVars, closed, httpConn, ssdpVars, wg, iface, sock, close>>

ServeFails(i) ==
  /\ proc = "up"
  /\ sock[i] = "open"
  /\ ~stopped[i]
  /\ stopped' = [stopped EXCEPT ![i] = TRUE]
  /\ UNCHANGED <<proc, runVars, closed, httpConn, ssdpVars, wg, iface, sock, close>>

(* When the process dies the operating system closes what it held open.    *)
SocketsClosed == [i \in Interfaces |-> IF sock[i] = "open" THEN "closed" ELSE sock[i]]

(* A goroutine of the interface's ssdp.Server panics, and nothing recovers *)
(* it. SsdpServer says when: CrashExplained.                               *)
SsdpPanics(i) ==
  /\ proc = "up"
  /\ sock[i] = "open"
  /\ proc' = "crashed"
  /\ sock' = SocketsClosed
  /\ UNCHANGED <<runVars, closed, httpConn, ssdpVars, wg, iface, stopped, close>>

(* The select of ssdpInterface; returning runs the deferred s.Close().     *)
InterfaceSelectSlip(i) == closed = "closed"  \* slip: wait for s.closed alone

InterfaceSelect(i) == closed = "closed" \/ stopped[i]

InterfaceWakes(i) ==
  /\ proc = "up"
  /\ iface[i] = "serving"
  /\ InterfaceSelect(i)
  /\ iface' = [iface EXCEPT ![i] = "closing"]
  /\ close' = [close EXCEPT ![i] = "signal"]
  /\ UNCHANGED <<proc, runVars, closed, httpConn, ssdpVars, wg, stopped, sock>>

(* ssdpInterface has returned, or a panic in its deferred Close unwinds    *)
(* it: the deferred wg.Done of the goroutine runs either way.              *)
InterfaceOverSlip(i) ==  \* slip: Done when the select ends, before Close
  iface[i] \in {"returning", "closing"}

InterfaceOver(i) ==
  \/ iface[i] = "returning"
  \/ iface[i] = "closing" /\ close[i] \in {"returned", "panic"}

DoneSlip(i) ==           \* slip: no Done on the early returns
  IF iface[i] = "returning" THEN wg ELSE wg - 1

DoneTwiceSlip(i) ==      \* slip: also a Done after the deferred Close
  IF iface[i] = "closing" THEN wg - 2 ELSE wg - 1

Done(i) == wg - 1

InterfaceDone(i) ==
  /\ proc = "up"
  /\ InterfaceOver(i)
  /\ wg' = Done(i)
  /\ iface' = [iface EXCEPT ![i] = "done"]
  /\ UNCHANGED <<proc, runVars, closed, httpConn, ssdpVars, stopped, sock, close>>

-----------------------------------------------------------------------------
(* Server.Close, by any thread.                                            *)

(* The embedding program closes a server whose Init has succeeded.         *)
CallClose(c) ==
  /\ proc = "up"
  /\ run \notin {"new", "failed"}
  /\ close[c] = "idle"
  /\ close' = [close EXCEPT ![c] = "signal"]
  /\ UNCHANGED <<proc, runVars, closed, httpConn, ssdpVars, wg, iface, stopped, sock>>

(* close(s.closed): closing a closed channel panics. (So does closing the  *)
(* nil channel of a server without Init, which CallClose rules out.)       *)
AfterSignalSlip == "listener"  \* slip: a second caller goes on as the first

AfterSignal == IF closed = "open" THEN "listener" ELSE "panic"

CloseSignal(t) ==
  /\ proc = "up"
  /\ close[t] = "signal"
  /\ closed' = "closed"
  /\ close' = [close EXCEPT ![t] = AfterSignal]
  /\ UNCHANGED <<proc, runVars, httpConn, ssdpVars, wg, iface, stopped, sock>>

(* s.HTTPConn.Close().                                                     *)
CloseListenerSlip(t) ==        \* slip: wait for SSDP before the listener
  /\ proc = "up"
  /\ close[t] = "listener"
  /\ ssdpStopped = "closed"
  /\ httpConn' = "closed"
  /\ close' = [close EXCEPT ![t] = "await"]
  /\ UNCHANGED <<proc, runVars, closed, ssdpVars, wg, iface, stopped, sock>>

CloseListener(t) ==
  /\ proc = "up"
  /\ close[t] = "listener"
  /\ httpConn' = "closed"
  /\ close' = [close EXCEPT ![t] = "await"]
  /\ UNCHANGED <<proc, runVars, closed, ssdpVars, wg, iface, stopped, sock>>

(* <-s.ssdpStopped, and Close returns.                                     *)
CloseAwait(t) ==
  /\ proc = "up"
  /\ close[t] = "await"
  /\ ssdpStopped = "closed"
  /\ close' = [close EXCEPT ![t] = "returned"]
  /\ UNCHANGED <<proc, runVars, closed, httpConn, ssdpVars, wg, iface, stopped, sock>>

(* A goroutine whose panic has run its deferred calls takes the process    *)
(* down.                                                                   *)
Crash(t) ==
  /\ proc = "up"
  /\ close[t] = "panic"
  /\ t \in Interfaces => iface[t] = "done"
  /\ proc' = "crashed"
  /\ sock' = SocketsClosed
  /\ UNCHANGED <<runVars, closed, httpConn, ssdpVars, wg, iface, stopped, close>>

-----------------------------------------------------------------------------
RunStep == InitServer \/ StartRun \/ AcceptInterrupted \/ ReturnFromRun

SsdpStep ==
  \/ \E i \in Interfaces : Spawn(i)
  \/ EndSpawn
  \/ WaitReturns
  \/ SignalSsdpStopped

CloseStep(t) == CloseSignal(t) \/ CloseListener(t) \/ CloseAwait(t) \/ Crash(t)

InterfaceStep(i) == SsdpInit(i) \/ InterfaceWakes(i) \/ InterfaceDone(i)

(* What the network, the kernel and the embedding program do.              *)
Environment ==
  \/ AcceptFails
  \/ \E i \in Interfaces : ServeFails(i) \/ SsdpPanics(i)
  \/ \E c \in Closers : CallClose(c)

Next ==
  \/ RunStep
  \/ SsdpStep
  \/ \E t \in Threads : CloseStep(t)
  \/ \E i \in Interfaces : InterfaceStep(i)
  \/ Environment

(* Every goroutine that can run is eventually scheduled. Nothing is asked  *)
(* of the environment: errors and calls of Close may never come.           *)
Fairness ==
  /\ WF_vars(RunStep)
  /\ WF_vars(SsdpStep)
  /\ \A i \in Interfaces : WF_vars(InterfaceStep(i))
  /\ \A t \in Threads : WF_vars(CloseStep(t))

Spec == Init /\ [][Next]_vars

FairSpec == Spec /\ Fairness

-----------------------------------------------------------------------------
(* Properties.                                                             *)

(* Every variable holds a value of its type. For the counter of the        *)
(* WaitGroup this is a claim about the code: a Done too many would make it *)
(* negative, and sync.WaitGroup panics.                                    *)
TypeOK ==
  /\ proc \in {"up", "crashed"}
  /\ run \in RunStates
  /\ acceptFailed \in BOOLEAN
  /\ closed \in ChanStates
  /\ httpConn \in {"nil", "open", "closed"}
  /\ ssdpStopped \in ChanStates
  /\ ssdp \in SsdpStates
  /\ wg \in Nat
  /\ iface \in [Interfaces -> IfaceStates]
  /\ stopped \in [Interfaces -> BOOLEAN]
  /\ sock \in [Interfaces -> {"none", "open", "closed"}]
  /\ close \in [Threads -> CloseStates]

(* A thread that got past close(s.closed) in Close.                        *)
PastSignal(t) == close[t] \in {"listener", "await", "returned"}

(* The interfaces whose goroutine doSSDP has added and not seen done.      *)
Outstanding == {i \in Interfaces : iface[i] \notin {"idle", "done"}}

(* However many goroutines call Close, and in whatever order they reach    *)
(* close(s.closed), one of them goes on to close the listener and to wait; *)
(* a panic is always that of a second caller, who found the channel closed *)
(* by another thread.                                                      *)
OneCloserProceeds ==
  /\ \A t, u \in Threads : PastSignal(t) /\ PastSignal(u) => t = u
  /\ \A t \in Threads : close[t] = "panic" =>
       \E u \in Threads \ {t} : PastSignal(u)

(* Close closes s.closed before the listener, and serveHTTP looks at       *)
(* s.closed after Serve returned: an accept loop that a Close interrupted  *)
(* never makes Run return the resulting accept error.                      *)
NoSpuriousRunError == run = "error" => acceptFailed

(* s.ssdpStopped is closed only when every ssdpInterface goroutine that    *)
(* doSSDP ever starts has been started and has finished.                   *)
StoppedMeansQuiet ==
  ssdpStopped = "closed" => \A i \in Interfaces : iface[i] = "done"

(* The deferred s.Close() of ssdpInterface waits for s.ssdpStopped, which  *)
(* is closed only after the WaitGroup has seen that same goroutine done:   *)
(* an interface goroutine never returns from its deferred Close. Hence in  *)
(* a server that has stopped SSDP without a panic, no interface started.   *)
InterfaceCloseNeverReturns ==
  /\ \A i \in Interfaces : close[i] # "returned"
  /\ ssdpStopped = "closed" =>
       \A i \in Interfaces : close[i] \in {"idle", "panic"}

(* A goroutine of the server that is neither done nor blocked: by the      *)
(* guards of the steps that Fairness names. The rest waits for the         *)
(* environment.                                                            *)
Ready ==
  \/ run \in {"new", "inited", "returned"}
  \/ run = "serving" /\ httpConn = "closed"
  \/ ssdp \in {"spawning", "stopping"}
  \/ ssdp = "waiting" /\ WaitGroupDone
  \/ \E i \in Interfaces :
       \/ iface[i] = "init"
       \/ iface[i] = "serving" /\ InterfaceSelect(i)
       \/ InterfaceOver(i)
  \/ \E t \in Threads :
       \/ close[t] \in {"signal", "listener"}
       \/ close[t] = "await" /\ ssdpStopped = "closed"
       \/ close[t] = "panic" /\ (t \in Interfaces => iface[t] = "done")

(* The goroutines of a server that was closed wait for each other: a       *)
(* closer for doSSDP, doSSDP for the interfaces, the interfaces for their  *)
(* own Close. When none of them can move, no caller in the embedding       *)
(* program is left inside Close, and the accept loop has ended: whoever    *)
(* hangs for ever is an interface.                                         *)
NoStandstill ==
  proc = "up" /\ ~Ready =>
    /\ \A c \in Closers : close[c] \in {"idle", "returned"}
    /\ closed = "closed" => run \in {"nil", "error"}

(* A Close that the embedding program calls does not hang once Run has     *)
(* been called: it returns, or a panic ends the process.                   *)
ClosersResolve ==
  \A c \in Closers : close[c] = "signal" ~> close[c] = "returned" \/ proc = "crashed"

(* Once s.closed is closed the accept loop ends and Run returns, whoever   *)
(* closed it and even if that thread then waits for ever.                  *)
CloseEndsRun ==
  closed = "closed" ~> run \in {"nil", "error"} \/ proc = "crashed"

(* The comment in ssdpInterface: "Returning will close the server." An     *)
(* ssdp.Server whose interface goroutine is returning gets its socket      *)
(* closed.                                                                 *)
ReturningClosesServer ==
  \A i \in Interfaces : iface[i] = "closing" ~> sock[i] = "closed"

-----------------------------------------------------------------------------
(* The inductive invariant behind the properties above.                    *)

(* Who may have started: Close and doSSDP come after Init, the interface   *)
(* goroutines after doSSDP, and their deferred Close at their end.         *)
StartOrder ==
  /\ run = "new" <=> closed = "nil"
  /\ run \in {"new", "failed", "inited"} => ssdp = "idle"
  /\ ssdp = "idle" => \A i \in Interfaces : iface[i] = "idle"
  /\ \A t \in Threads : close[t] # "idle" => run \notin {"new", "failed"}
  /\ \A i \in Interfaces :
       close[i] # "idle" => iface[i] = "closing" \/
                            (iface[i] = "done" /\ close[i] \in {"returned", "panic"})

(* The channel s.closed is closed by exactly one thread.                   *)
SignalInv ==
  /\ \A t, u \in Threads : PastSignal(t) /\ PastSignal(u) => t = u
  /\ closed = "closed" <=> \E t \in Threads : PastSignal(t)
  /\ \A t \in Threads : close[t] = "panic" => closed = "closed"

(* A closed listener has a cause, and Run reports the right one.           *)
ListenerInv ==
  /\ httpConn = "closed" => closed = "closed" \/ acceptFailed
  /\ run = "returned" => httpConn = "closed"
  /\ run = "error" => acceptFailed
  /\ run = "nil" => closed = "closed"

(* The WaitGroup counts the outstanding goroutines, and the doSSDP         *)
(* goroutine has passed Wait only when there are none.                     *)
WaitInv ==
  /\ wg = Cardinality(Outstanding)
  /\ ssdp \in {"waiting", "stopping", "done"} => \A i \in Interfaces : iface[i] # "idle"
  /\ ssdp \in {"stopping", "done"} => \A i \in Interfaces : iface[i] = "done"
  /\ ssdpStopped = "closed" => ssdp = "done"

(* The goroutine of an interface opens its socket, after it was started.   *)
SocketInv == \A i \in Interfaces : iface[i] \in {"idle", "init"} => sock[i] = "none"

(* What each goroutine did before it came to wait: Run started doSSDP, a   *)
(* closer closed the listener, and an interface is in Close to the end.    *)
WaitOrder ==
  /\ run \in {"serving", "returned", "nil", "error"} => ssdp # "idle"
  /\ ssdp = "done" => ssdpStopped = "closed"
  /\ \A t \in Threads : close[t] \in {"await", "returned"} => httpConn = "closed"
  /\ \A i \in Interfaces : iface[i] = "closing" => close[i] # "idle"

IInv == TypeOK /\ StartOrder /\ SignalInv /\ ListenerInv /\ WaitInv
           /\ SocketInv /\ InterfaceCloseNeverReturns

(* The server keeps ServerPromise: the state of its channels, of its       *)
(* accept loop and of the goroutine in Run are those of the promise.       *)
Phase ==
  IF run \in {"new", "failed"} THEN run
  ELSE IF closed = "closed" THEN "shut" ELSE "up"

Verdict == IF run \in {"nil", "error"} THEN run ELSE "none"

Promise == INSTANCE ServerPromise
  WITH phase <- Phase, faulty <- acceptFailed, verdict <- Verdict,
       quiet <- (ssdpStopped = "closed")

(* Every step of the server is a step the promise allows, or none.         *)
KeepsPromise == Promise!Spec

(* What happens to the ssdp.Server of an interface here, whatever the      *)
(* other goroutines do, is what an ssdp.Server allows: it is opened once,  *)
(* Serve returns only from a server whose Init succeeded, and its socket   *)
(* outlives both Serve and the goroutine of its interface.                 *)
Ssdp(i) == INSTANCE SsdpPromise
  WITH socket <- sock[i], over <- stopped[i], alive <- (proc = "up")

UsesSsdpServersRightly ==
  /\ \A i \in Interfaces : Ssdp(i)!Init
  /\ [][\A i \in Interfaces : [Ssdp(i)!Next]_(Ssdp(i)!promiseVars)]_vars
=============================================================================
