------------------------------ MODULE SsdpLease ------------------------------
(***************************************************************************)
(* How long a listener on the network believes in a device: the            *)
(* announcements of ssdp.Server.Serve (ssdp/ssdp.go), each of which holds  *)
(* for its max-age, against the time that passes between two of them.      *)
(*                                                                         *)
(* One type on one address; the others are announced alike. Time is kept   *)
(* in timers that run relative to the present, and a Tick is possible only *)
(* when nothing is overdue. The listener and the loss of announcements are *)
(* those of the protocol, and not in the repository.                       *)
(***************************************************************************)
EXTENDS Integers

CONSTANTS
  Interval,  \* s.NotifyInterval
  Second,    \* time.Second, in the unit of the ticks
  Jitter,    \* 100 * time.Millisecond: notifyAll draws its delays below it
  Slack      \* how late a sleeper wakes up, or a datagram arrives, at most

ASSUME SsdpLeaseAssumption ==
  /\ Interval \in Nat \ {0}
  /\ Second \in Nat \ {0}
  /\ Jitter \in Nat \ {0}
  /\ Slack \in Nat

VARIABLES
  server,   \* "down", "up", or "closed" with its process still running
  nap,      \* how long the goroutine of Serve has slept
  flights,  \* the announcements on their way: how long each has been
  lost,     \* the last announcement was lost
  lease,    \* how long the listener will believe in the device
  heard     \* it has heard of the server since its start (history)

vars == <<server, nap, flights, lost, lease, heard>>

(* The max-age header of an announcement, and of an answer to a search.    *)
MaxAgeSlip == (2 * Interval) \div Second  \* slip: two intervals, cut

MaxAge == ((5 * Interval) \div 2) \div Second

Lease     == MaxAge * Second
Period    == Interval + Slack
MaxFlight == Jitter - 1 + Slack

Init ==
  /\ server = "down"
  /\ nap = 0
  /\ flights = {}
  /\ lost = FALSE
  /\ lease = 0
  /\ heard = FALSE

-----------------------------------------------------------------------------
(* The process starts, for the first time or again, and announces at once. *)
(* It takes longer than a goodbye of its predecessor needs to arrive.      *)
Start ==
  /\ server = "down"
  /\ server' = "up"
  /\ nap' = Interval
  /\ lost' = FALSE
  /\ UNCHANGED <<flights, lease, heard>>

(* A delayed announcement of a closed server is not sent: delayedSend sees *)
(* s.closed, or finds the socket closed.                                   *)
LeavesSlip == TRUE  \* slip: neither of the two is looked at

Leaves == server = "up"

(* One turn of the loop of Serve, which goes on when the server is closed. *)
(* The network loses no two announcements in a row.                        *)
Announce ==
  /\ server # "down"
  /\ nap >= Interval
  /\ nap' = 0
  /\ \/ /\ Leaves
        /\ flights' = flights \cup {0}
        /\ lost' = FALSE
     \/ /\ Leaves /\ ~lost
        /\ lost' = TRUE
        /\ UNCHANGED flights
     \/ /\ ~Leaves
        /\ UNCHANGED <<flights, lost>>
  /\ UNCHANGED <<server, lease, heard>>

(* An announcement reaches the listener, whose lease starts anew.          *)
Arrive(f) ==
  /\ f \in flights
  /\ flights' = flights \ {f}
  /\ lease' = Lease
  /\ heard' = (server = "up")
  /\ UNCHANGED <<server, nap, lost>>

(* Close: the goodbye arrives, or is lost. Of the announcements on their   *)
(* way those that wait for their timer are given up, and the others may    *)
(* arrive after the goodbye.                                               *)
Close ==
  /\ server = "up"
  /\ server' = "closed"
  /\ lease' \in {0, lease}
  /\ flights' \in SUBSET flights
  /\ heard' = FALSE
  /\ UNCHANGED <<nap, lost>>

(* The process ends, by a crash or an exit: no goodbye.                    *)
Die ==
  /\ server # "down"
  /\ server' = "down"
  /\ nap' = 0
  /\ flights' \in SUBSET flights
  /\ heard' = FALSE
  /\ UNCHANGED <<lost, lease>>

TickSlip ==  \* slip: a turn of the loop may last for ever
  /\ \A f \in flights : f < MaxFlight
  /\ nap' = IF server = "down" THEN 0 ELSE nap + 1
  /\ flights' = {f + 1 : f \in flights}
  /\ lease' = IF lease = 0 THEN 0 ELSE lease - 1
  /\ UNCHANGED <<server, lost, heard>>

Tick ==
  /\ server # "down" => nap < Period
  /\ \A f \in flights : f < MaxFlight
  /\ nap' = IF server = "down" THEN 0 ELSE nap + 1
  /\ flights' = {f + 1 : f \in flights}
  /\ lease' = IF lease = 0 THEN 0 ELSE lease - 1
  /\ UNCHANGED <<server, lost, heard>>

Next == Start \/ Announce \/ (\E f \in flights : Arrive(f)) \/ Close \/ Die \/ Tick

Spec == Init /\ [][Next]_vars

(* Time passes, sleepers wake up, and datagrams arrive or are lost; nobody *)
(* has to start, close or end the program.                                 *)
FairSpec == Spec /\ WF_vars(Announce \/ (\E f \in flights : Arrive(f)) \/ Tick)

-----------------------------------------------------------------------------
(* Properties.                                                             *)

(* Every timer stays in its range: nothing is ever overdue.                *)
TypeOK ==
  /\ server \in {"down", "up", "closed"}
  /\ nap \in 0 .. Period
  /\ flights \in SUBSET (0 .. MaxFlight)
  /\ lost \in BOOLEAN
  /\ lease \in 0 .. Lease
  /\ heard \in BOOLEAN

(* max-age, cut to whole seconds, outlives the loss of an announcement and *)
(* the jitter of the next: a listener that has heard of a running server   *)
(* never takes it for gone.                                                *)
NeverForgotten == server = "up" /\ heard => lease > 0

(* However a server went, with a goodbye that an announcement overtook or  *)
(* with none, and although Serve announces on after Close: the listener    *)
(* stops to believe in it, unless it comes back.                           *)
GoneIsForgotten ==
  <>[](server # "up") => <>[](lease = 0)

(* How long the listener may believe in a server that announces no more:   *)
(* by its lease, or by an announcement that is still to arrive.            *)
Beliefs == {lease} \cup {(MaxFlight - f) + Lease : f \in flights}

(* No step but a new start of the server makes the listener believe for    *)
(* longer, and time that passes always makes it believe for less: a server *)
(* that went, in whatever way, is forgotten after a max-age and the time   *)
(* that a datagram takes.                                                  *)
BeliefFades ==
  [][server # "up" =>
       \A b \in Beliefs' : \E a \in Beliefs : b <= a /\ (Tick => b < a \/ b = 0)]_vars

-----------------------------------------------------------------------------
(* The inductive invariant behind NeverForgotten.                          *)

(* The longest time until the next announcement that is not lost arrives,  *)
(* when none is on its way.                                                *)
Wait == (Period - nap) + (IF lost THEN 0 ELSE Period) + MaxFlight

LeaseInv ==
  heard =>
    /\ server = "up"
    /\ IF flights = {} THEN lease > Wait
       ELSE \E f \in flights : lease > MaxFlight - f

IInv == TypeOK /\ LeaseInv
=============================================================================
