------------------------------- MODULE Eventing ------------------------------
(***************************************************************************)
(* upnp.Eventing (upnp/eventing.go): goroutines that call Subscribe on the *)
(* same value, as an HTTP server would for the requests it gets. Subscribe *)
(* takes no lock, so its steps interleave, and it races for the map. No    *)
(* handler of the program calls it yet. Unsubscribe changes nothing.       *)
(*                                                                         *)
(* The definitions named ...Slip are not the code, see DmsServer.          *)
(***************************************************************************)
EXTENDS Integers

CONSTANTS
  Threads,   \* goroutines that call Subscribe, once each
  Sids,      \* subscription ids
  Timeouts,  \* values of timeoutSeconds
  Second,    \* time.Second, in units of time.Duration
  Half,      \* an int64 holds -Half .. Half - 1
  MaxDelay   \* bound: the time between the two calls of time.Now

ASSUME EventingAssumption ==
  /\ Timeouts \subseteq Int
  /\ Half \in Nat
  /\ Second \in 1 .. Half - 1
  /\ MaxDelay \in Nat

VARIABLES
  proc,         \* "up", or "dead" by a race that the runtime noticed
  subscribers,  \* e.subscribers: {} for nil, or {t} for the map that t made
  maps,         \* maps[t]: the keys in the map that t made
  stage,        \* where each goroutine is in Subscribe
  sid,          \* the id of each: a set of at most one
  target,       \* the map each is writing to: a set of at most one
  met,          \* the goroutines that were in Subscribe with it (history)
  raced,        \* two have written to one map, unnoticed (history)
  grant         \* what each returned: what is left, and what it was told

vars == <<proc, subscribers, maps, stage, sid, target, met, raced, grant>>

Init ==
  /\ proc = "up"
  /\ subscribers = {}
  /\ maps = [t \in Threads |-> {}]
  /\ stage = [t \in Threads |-> "idle"]
  /\ sid = [t \in Threads |-> {}]
  /\ target = [t \in Threads |-> {}]
  /\ met = [t \in Threads |-> {}]
  /\ raced = FALSE
  /\ grant = [t \in Threads |-> {}]

Subscribers == UNION {maps[m] : m \in subscribers}

Over == {"idle", "refused", "accepted"}

Active == {t \in Threads : stage[t] \notin Over}

Goto(t, s) == stage' = [stage EXCEPT ![t] = s]

-----------------------------------------------------------------------------
(* The steps of Subscribe.                                                 *)

(* The id is random; when rand.Reader fails, which nobody looks at, it is  *)
(* the same for all.                                                       *)
Call(t) ==
  /\ stage[t] = "idle"
  /\ Goto(t, "checking")
  /\ \E s \in Sids : sid' = [sid EXCEPT ![t] = {s}]
  /\ met' = [u \in Threads |->
               IF u = t THEN Active ELSE IF u \in Active THEN met[u] \cup {t} ELSE met[u]]
  /\ UNCHANGED <<proc, subscribers, maps, target, raced, grant>>

(* "already subscribed".                                                   *)
TakenSlip(t) == FALSE  \* slip: no look at the subscribers

Taken(t) == sid[t] \cap Subscribers # {}

Check(t) ==
  /\ stage[t] = "checking"
  /\ Goto(t, IF Taken(t) THEN "refused" ELSE "testing")
  /\ UNCHANGED <<proc, subscribers, maps, sid, target, met, raced, grant>>

MissingSlip == TRUE  \* slip: make a map for every subscriber

MissingNeverSlip == FALSE  \* slip: the map is never made

Missing == subscribers = {}

TestNil(t) ==
  /\ stage[t] = "testing"
  /\ Goto(t, IF Missing THEN "making" ELSE "loading")
  /\ UNCHANGED <<proc, subscribers, maps, sid, target, met, raced, grant>>

Make(t) ==
  /\ stage[t] = "making"
  /\ Goto(t, "loading")
  /\ subscribers' = {t}
  /\ UNCHANGED <<proc, maps, sid, target, met, raced, grant>>

(* The assignment e.subscribers[sid] = ssr, up to the map it goes into.    *)
Load(t) ==
  /\ stage[t] = "loading"
  /\ Goto(t, "writing")
  /\ target' = [target EXCEPT ![t] = subscribers]
  /\ UNCHANGED <<proc, subscribers, maps, sid, met, raced, grant>>

(* Another goroutine is writing, or is about to read, the map t writes to. *)
WritesTogether(t) ==
  \E u \in Threads \ {t} : stage[u] = "writing" /\ target[t] = target[u]

IsRead(t) ==
  target[t] = subscribers /\ \E u \in Threads : stage[u] = "checking"

(* What two writers leave in a map is anybody's guess.                     *)
Store(t) ==
  /\ stage[t] = "writing"
  /\ Goto(t, "granting")
  /\ target' = [target EXCEPT ![t] = {}]
  /\ raced' = (raced \/ WritesTogether(t))
  /\ \E m \in target[t] :
       LET whole == maps[m] \cup sid[t]
       IN \E left \in IF WritesTogether(t) THEN SUBSET whole ELSE {whole} :
            maps' = [maps EXCEPT ![m] = left]
  /\ UNCHANGED <<proc, subscribers, sid, met, grant>>

(* The runtime notices some races for a map, and ends the process.         *)
RaceNoticed(t) ==
  /\ stage[t] = "writing"
  /\ WritesTogether(t) \/ IsRead(t)
  /\ proc' = "dead"
  /\ UNCHANGED <<subscribers, maps, stage, sid, target, met, raced, grant>>

(* What is left of the subscription is a product in int64, less the time   *)
(* that has passed; the quotient of two Durations is cut towards zero.     *)
Left(n, delay) == ((n * Second + Half) % (2 * Half)) - Half - delay

SecondsSlip(n, left) == n  \* slip: tell the timeout that was asked for

Seconds(n, left) == IF left >= 0 THEN left \div Second ELSE -((-left) \div Second)

Grant(t) ==
  /\ stage[t] = "granting"
  /\ Goto(t, "accepted")
  /\ \E n \in Timeouts, delay \in 0 .. MaxDelay :
       LET left == Left(n, delay)
       IN grant' = [grant EXCEPT ![t] = {[asked |-> n, left |-> left, told |-> Seconds(n, left)]}]
  /\ UNCHANGED <<proc, subscribers, maps, sid, target, met, raced>>

SubscribeStep(t) ==
  \/ Check(t) \/ TestNil(t) \/ Make(t) \/ Load(t) \/ Store(t) \/ Grant(t)

Next ==
  /\ proc = "up"
  /\ \E t \in Threads : Call(t) \/ SubscribeStep(t) \/ RaceNoticed(t)

Spec == Init /\ [][Next]_vars

-----------------------------------------------------------------------------
(* Properties.                                                             *)

(* Every variable holds a value of its type. At most one map is current,   *)
(* and nothing is written to a nil map, which would panic.                 *)
TypeOK ==
  /\ proc \in {"up", "dead"}
  /\ raced \in BOOLEAN
  /\ subscribers \in {{}} \cup {{t} : t \in Threads}
  /\ maps \in [Threads -> SUBSET Sids]
  /\ stage \in [Threads -> Over \cup {"checking", "testing", "making", "loading",
                                     "writing", "granting"}]
  /\ sid \in [Threads -> {{}} \cup {{s} : s \in Sids}]
  /\ target \in [Threads -> {{}} \cup {{t} : t \in Threads}]
  /\ met \in [Threads -> SUBSET Threads]
  /\ grant \in [Threads -> SUBSET [asked : Timeouts, left : Int, told : Int]]
  /\ \A t \in Threads :
       /\ stage[t] = "idle" <=> sid[t] = {}
       /\ stage[t] = "writing" <=> target[t] # {}

(* Making the map twice harms only those who were there: whoever was in    *)
(* Subscribe with nobody else stays subscribed, whatever those do that     *)
(* come later, unless two of them write to one map together.               *)
LostOnlyInARace ==
  \A t \in Threads :
    stage[t] = "accepted" /\ met[t] = {} /\ ~raced => sid[t] \subseteq Subscribers

(* Whoever was in Subscribe with nobody else keeps its id to itself, even  *)
(* without random numbers: as long as no two goroutines have written to    *)
(* one map together, a later one that comes with the same id does not get  *)
(* past the check, whomever it meets.                                      *)
LaterIsRefused ==
  [][\A t, u \in Threads :
       /\ stage[t] = "accepted" /\ met[t] = {} /\ ~raced
       /\ stage[u] = "checking" /\ stage'[u] = "testing"
       => sid[t] # sid[u]]_vars

(* A subscriber is never told more time than it has left, although it asks *)
(* for more than a Duration can hold or the goroutine is held up.          *)
GrantIsHonoured ==
  \A t \in Threads : \A g \in grant[t] : g.told > 0 => g.told * Second <= g.left

-----------------------------------------------------------------------------
(* The inductive invariant behind the properties above.                    *)

Placed(t) == stage[t] \in {"loading", "writing", "granting", "accepted"}

(* Whoever is past the making of a map has one to write to.                *)
MapInv == \A t \in Threads : Placed(t) => subscribers # {}

(* Goroutines that are in Subscribe together have met.                     *)
MeetInv == \A t \in Active : Active \ {t} \subseteq met[t]

(* One that met nobody writes to the map that stays, and is found there.   *)
AloneInv ==
  \A t \in Threads : met[t] = {} /\ Placed(t) =>
    /\ \A u \in Threads : stage[u] # "making"
    /\ stage[t] = "writing" => target[t] = subscribers
    /\ stage[t] \in {"granting", "accepted"} /\ ~raced => sid[t] \subseteq Subscribers

IInv == TypeOK /\ MapInv /\ MeetInv /\ AloneInv /\ GrantIsHonoured
=============================================================================
