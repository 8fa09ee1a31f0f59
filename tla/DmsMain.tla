------------------------------- MODULE DmsMain -------------------------------
(***************************************************************************)
(* The program of main.go: one dms.Server that no goroutine of the program *)
(* closes, and a process that ends as soon as Init fails or Run returns,   *)
(* with the exit status that the error decides.                            *)
(***************************************************************************)
EXTENDS DmsServer

(* main never calls Close: the only calls are the deferred ones.           *)
ASSUME DmsMainAssumption == Closers = {}

(* os.Exit(1) after a failed Init or Run; otherwise main returns. Either   *)
(* way every other goroutine stops where it is, and the operating system   *)
(* closes the sockets.                                                     *)
ExitStatusSlip == "exit0"  \* slip: log the error and return from main

ExitStatus == IF run = "nil" THEN "exit0" ELSE "exit1"

Exit ==
  /\ proc = "up"
  /\ run \in {"failed", "nil", "error"}
  /\ proc' = ExitStatus
  /\ sock' = SocketsClosed
  /\ UNCHANGED <<runVars, closed, httpConn, ssdpVars, wg, iface, stopped, close>>

MainNext == Next \/ Exit

MainSpec == Init /\ [][MainNext]_vars

MainFairSpec == MainSpec /\ Fairness /\ WF_vars(Exit)

-----------------------------------------------------------------------------
(* Properties.                                                             *)

(* Exit status 1 has a cause outside the shutdown: Init could not listen,  *)
(* or the accept loop failed. Exit status 0 has a cause too, and it is a   *)
(* failure: no signal handler closes the server, so a clean exit means     *)
(* that some interface's SSDP announcer gave up and closed everything.     *)
ExitStatusExplained ==
  /\ proc = "exit1" => run = "failed" \/ acceptFailed
  /\ proc = "exit0" => \E i \in Interfaces : stopped[i]

(* One failing part stops the whole program: when the announcer of a       *)
(* single interface gives up, or the accept loop fails, the process ends.  *)
AnyFailureEndsProcess ==
  acceptFailed \/ (\E i \in Interfaces : stopped[i]) ~> proc # "up"

(* While the process runs and no goroutine of it can move, main's included *)
(* (Exit), nothing has failed: the program serves, and no announcer or     *)
(* accept loop is dead behind it.                                          *)
IdleMeansHealthy ==
  proc = "up" /\ ~Ready /\ run \notin {"failed", "nil", "error"} =>
    ~acceptFailed /\ \A i \in Interfaces : ~stopped[i]

-----------------------------------------------------------------------------
(* The inductive invariants behind ExitStatusExplained and                 *)
(* IdleMeansHealthy.                                                       *)

(* A Close, or a goroutine on its way to one, goes back to an announcer    *)
(* that gave up.                                                           *)
CloseHasCause ==
  closed = "closed" \/ (\E i \in Interfaces : close[i] # "idle")
    => \E i \in Interfaces : stopped[i]

(* That of DmsServer holds until main exits.                               *)
MainInv ==
  /\ proc \in {"up", "crashed"} => IInv
  /\ CloseHasCause
  /\ ExitStatusExplained

(* A failure is met by the goroutine that has to act on it: the accept     *)
(* loop that failed has ended, and an interface that has a socket selects  *)
(* or is in its deferred Close.                                            *)
FailureOrder ==
  /\ acceptFailed => run \in {"returned", "nil", "error"}
  /\ \A i \in Interfaces :
       /\ stopped[i] => sock[i] # "none"
       /\ sock[i] # "none" => \/ iface[i] \in {"serving", "closing"}
                              \/ iface[i] = "done" /\ close[i] # "idle"

FailureInv == proc \in {"up", "crashed"} => WaitOrder /\ FailureOrder
=============================================================================
