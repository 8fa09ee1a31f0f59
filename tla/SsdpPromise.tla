----------------------------- MODULE SsdpPromise -----------------------------
(***************************************************************************)
(* What the ssdp.Server of one interface is to the dms.Server that runs    *)
(* it: a socket that is opened at most once, a Serve that may give up and  *)
(* leaves the socket to its owner, a Close for good, and a process that    *)
(* all goroutines share. SsdpServer implements it, and DmsServer is        *)
(* written against it: each interface there behaves like this.             *)
(***************************************************************************)
VARIABLES
  socket,  \* "none", "open" or "closed"
  over,    \* Serve has returned
  alive    \* the process is up

promiseVars == <<socket, over, alive>>

Init ==
  /\ socket = "none"
  /\ over = FALSE
  /\ alive = TRUE

Open ==
  /\ alive
  /\ socket = "none"
  /\ socket' = "open"
  /\ UNCHANGED <<over, alive>>

(* Serve returns. The socket stays as it is, and so do its readers.        *)
GiveUp ==
  /\ alive
  /\ socket # "none"
  /\ ~over
  /\ over' = TRUE
  /\ UNCHANGED <<socket, alive>>

Shut ==
  /\ alive
  /\ socket = "open"
  /\ socket' = "closed"
  /\ UNCHANGED <<over, alive>>

(* The process ends, whoever ends it, and no socket survives it.           *)
Die ==
  /\ alive
  /\ alive' = FALSE
  /\ socket' = IF socket = "open" THEN "closed" ELSE socket
  /\ UNCHANGED over

Next == Open \/ GiveUp \/ Shut \/ Die

Spec == Init /\ [][Next]_promiseVars
=============================================================================
