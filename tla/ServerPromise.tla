---------------------------- MODULE ServerPromise ----------------------------
(***************************************************************************)
(* What dms.Server promises to the program that embeds it, with no word on *)
(* goroutines, channels or sockets: it starts or does not, it is shut down *)
(* at most once and for good, and Run returns at most once, with nil only  *)
(* after a shutdown and with an error only after a fault of its own.       *)
(***************************************************************************)
VARIABLES
  phase,    \* "new", "failed" (Init gave up), "up" or "shut"
  faulty,   \* the accept loop has met an error that no shutdown caused
  verdict,  \* what Run returned: "none" yet, "nil" or "error"
  quiet     \* the SSDP side has reported that it is over

promiseVars == <<phase, faulty, verdict, quiet>>

Init ==
  /\ phase = "new"
  /\ faulty = FALSE
  /\ verdict = "none"
  /\ quiet = FALSE

Start ==
  /\ phase = "new"
  /\ phase' \in {"up", "failed"}
  /\ UNCHANGED <<faulty, verdict, quiet>>

Shut ==
  /\ phase = "up"
  /\ phase' = "shut"
  /\ UNCHANGED <<faulty, verdict, quiet>>

Fault ==
  /\ phase \in {"up", "shut"}
  /\ verdict = "none"
  /\ ~faulty
  /\ faulty' = TRUE
  /\ UNCHANGED <<phase, verdict, quiet>>

ReturnNil ==
  /\ phase = "shut"
  /\ verdict = "none"
  /\ verdict' = "nil"
  /\ UNCHANGED <<phase, faulty, quiet>>

ReturnError ==
  /\ phase = "up"
  /\ faulty
  /\ verdict = "none"
  /\ verdict' = "error"
  /\ UNCHANGED <<phase, faulty, quiet>>

Quieten ==
  /\ phase \in {"up", "shut"}
  /\ ~quiet
  /\ quiet' = TRUE
  /\ UNCHANGED <<phase, faulty, verdict>>

Next == Start \/ Shut \/ Fault \/ ReturnNil \/ ReturnError \/ Quieten

Spec == Init /\ [][Next]_promiseVars
=============================================================================
