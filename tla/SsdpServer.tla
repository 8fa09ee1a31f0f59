----------------------------- MODULE SsdpServer ------------------------------
(***************************************************************************)
(* One ssdp.Server (ssdp/ssdp.go) on one network interface: the goroutine  *)
(* of serve, which reads searches from the multicast socket, the goroutine *)
(* of Serve, which announces the device every NotifyInterval, one          *)
(* goroutine for each search being handled and for each delayed datagram,  *)
(* and a goroutine that calls Close.                                       *)
(*                                                                         *)
(* Time is abstract: a delay is a step that may come at any moment. What   *)
(* the network does to a datagram that was written is left out. The        *)
(* definitions named ...Slip are not the code: each is a mistake that the  *)
(* definition after it avoids, and that some property tells from it.       *)
(***************************************************************************)
EXTENDS Integers, FiniteSets

CONSTANTS
  Types,      \* s.allTypes(): the root device, the UUID, devices, services
  Addrs,      \* the addresses of the interface
  LinkLocal,  \* those of them that are link-local
  Requests,   \* the datagrams that may arrive, see IsRequest
  Second,     \* time.Second, in units of time.Duration
  Half,       \* an int64 holds -Half .. Half - 1
  MaxRounds   \* bound: announcements made by Serve

All   == "ssdp:all"
NoMx  == -1   \* an mx header that strconv.ParseUint refuses

(* A datagram: whether ReadRequest parses it and it is an M-SEARCH for     *)
(* "ssdp:discover", its search target, whether its Host is the multicast   *)
(* address, its mx header, and the addresses whose network the sender is   *)
(* in. The id tells requests apart.                                        *)
IsRequest(r) ==
  /\ r.id \in Nat
  /\ r.search \in BOOLEAN
  /\ r.multicast \in BOOLEAN
  /\ r.mx \in {NoMx} \cup 0 .. (2 * Half - 1)
  /\ r.near \in SUBSET Addrs
  /\ DOMAIN r = {"id", "search", "st", "multicast", "mx", "near"}

ASSUME SsdpServerAssumption ==
  /\ IsFiniteSet(Types)
  /\ All \notin Types
  /\ LinkLocal \subseteq Addrs
  /\ Half \in Nat
  /\ Second \in 1 .. Half - 1
  /\ MaxRounds \in Nat
  /\ \A r \in Requests : IsRequest(r)

VARIABLES
  proc,        \* the process: "up" or "crashed"
  conn,        \* s.conn: "none", "open" or "closed"
  closed,      \* s.closed, a channel: "nil", "open" or "closed"
  reader,      \* the goroutine of serve
  received,    \* what ReadFromUDP gave the reader: a set of one request, or
               \* the empty set for an error
  readFailed,  \* a read failed while the socket was open (history)
  taken,       \* the requests read so far (history)
  handling,    \* the requests with a goroutine in handle
  announcer,   \* the goroutine of Serve
  rounds,      \* announcements made
  addrsFailed, \* the methods in which Interface.Addrs has failed (history)
  waiting,     \* datagrams whose goroutine is in the select of delayedSend
  firing,      \* datagrams whose goroutine has left that select to send
  closer,      \* the goroutine that calls Close
  wire         \* the datagrams written while the socket was open

readerVars == <<reader, received, readFailed, taken>>
serveVars  == <<announcer, rounds>>
sendVars   == <<waiting, firing>>
vars == <<proc, conn, closed, readerVars, handling, serveVars, addrsFailed,
          sendVars, closer, wire>>

(* A notification of round n, an answer to request r, a farewell. The      *)
(* first two carry the address a in LOCATION.                              *)
Alive(t, a, n)    == [kind |-> "alive", type |-> t, addr |-> a, key |-> n]
Response(t, a, r) == [kind |-> "response", type |-> t, addr |-> a, key |-> r.id]
ByeBye(t)         == [kind |-> "byebye", type |-> t]

Located ==
  {Alive(t, a, n) : t \in Types, a \in Addrs, n \in 0 .. MaxRounds - 1}
    \cup {Response(t, a, r) : t \in Types, a \in Addrs, r \in Requests}
Farewells == {ByeBye(t) : t \in Types}

(* The methods that list the addresses of the interface.                   *)
Listers == {"Serve", "handle"}

Init ==
  /\ proc = "up"
  /\ conn = "none"
  /\ closed = "nil"
  /\ reader = "idle"
  /\ received = {}
  /\ readFailed = FALSE
  /\ taken = {}
  /\ handling = {}
  /\ announcer = "idle"
  /\ rounds = 0
  /\ addrsFailed = {}
  /\ waiting = {}
  /\ firing = {}
  /\ closer = "idle"
  /\ wire = {}

-----------------------------------------------------------------------------
(* Server.Init: make s.closed, then open the multicast socket. A server    *)
(* whose Init failed is not used any further.                              *)
InitServer ==
  /\ proc = "up"
  /\ closed = "nil"
  /\ closed' = "open"
  /\ conn' \in {"none", "open"}
  /\ UNCHANGED <<proc, readerVars, handling, serveVars, addrsFailed, sendVars,
                 closer, wire>>

(* Serve starts the reader and enters its own loop.                        *)
Serve ==
  /\ proc = "up"
  /\ conn # "none"
  /\ announcer = "idle"
  /\ announcer' = "listing"
  /\ reader' = "reading"
  /\ UNCHANGED <<proc, conn, closed, received, readFailed, taken, handling,
                 rounds, addrsFailed, sendVars, closer, wire>>

-----------------------------------------------------------------------------
(* The reader: serve.                                                      *)

(* ReadFromUDP returns a datagram.                                         *)
ReadRequest(r) ==
  /\ proc = "up"
  /\ reader = "reading"
  /\ conn = "open"
  /\ r \notin taken
  /\ received' = {r}
  /\ taken' = taken \cup {r}
  /\ reader' = "checking"
  /\ UNCHANGED <<proc, conn, closed, readFailed, handling, serveVars,
                 addrsFailed, sendVars, closer, wire>>

(* ReadFromUDP returns an error: that of a closed socket, or another one.  *)
ReadError ==
  /\ proc = "up"
  /\ reader = "reading"
  /\ received' = {}
  /\ readFailed' = (readFailed \/ conn = "open")
  /\ reader' = "checking"
  /\ UNCHANGED <<proc, conn, closed, taken, handling, serveVars, addrsFailed,
                 sendVars, closer, wire>>

(* serve looks at s.closed first, then at the error, and otherwise starts  *)
(* a handler and reads on. After an error it reads no more.                *)
ReaderErrorFirstSlip ==  \* slip: look at the error first
  IF received = {} THEN "failed"
  ELSE IF closed = "closed" THEN "stopped" ELSE "reading"

ReaderRetriesSlip ==     \* slip: read on after an error, whatever it is
  "reading"

ReaderNext ==
  IF closed = "closed" THEN "stopped"
  ELSE IF received = {} THEN "failed" ELSE "reading"

(* Each read has a buffer of its own, and each request a goroutine.        *)
HandlersSlip == received  \* slip: one buffer for all reads

Handlers == handling \cup received

ReaderDecides ==
  /\ proc = "up"
  /\ reader = "checking"
  /\ reader' = ReaderNext
  /\ received' = {}
  /\ handling' = IF ReaderNext = "reading" THEN Handlers ELSE handling
  /\ UNCHANGED <<proc, conn, closed, readFailed, taken, serveVars, addrsFailed,
                 sendVars, closer, wire>>

-----------------------------------------------------------------------------
(* The handlers: handle.                                                   *)

(* The bound that handle passes to rand.Int63n, a product in int64.        *)
Mx(r) == IF r.multicast THEN r.mx ELSE 1

DelayBound(r) == ((Second * Mx(r) + Half) % (2 * Half)) - Half

(* handle goes on to answer only a search with a readable mx header.       *)
AcceptsSlip(r) == r.search  \* slip: no return after the parse error

Accepts(r) == r.search /\ Mx(r) # NoMx

TargetsEchoSlip(r) == {r.st}        \* slip: answer for st as it came

TargetsSlip(r) == Types \cap {r.st}  \* slip: ssdp:all matches nothing

Targets(r) == IF r.st = All THEN Types ELSE Types \cap {r.st}

Answers(r) == {Response(t, a, r) : t \in Targets(r), a \in r.near}

(* An accepted search gets one delayed answer for each target and each     *)
(* address near the sender. rand.Int63n panics on a bound that is not      *)
(* positive, and no handler recovers.                                      *)
Handle(r) ==
  /\ proc = "up"
  /\ r \in handling
  /\ handling' = handling \ {r}
  /\ IF Accepts(r) /\ Answers(r) # {} /\ DelayBound(r) <= 0
       THEN proc' = "crashed" /\ UNCHANGED waiting
       ELSE /\ waiting' = waiting \cup (IF Accepts(r) THEN Answers(r) ELSE {})
            /\ UNCHANGED proc
  /\ UNCHANGED <<conn, closed, readerVars, serveVars, addrsFailed, firing,
                 closer, wire>>

(* Interface.Addrs fails under handle, which panics.                       *)
HandleAddrsFails(r) ==
  /\ proc = "up"
  /\ r \in handling
  /\ Accepts(r)
  /\ handling' = handling \ {r}
  /\ addrsFailed' = addrsFailed \cup {"handle"}
  /\ proc' = "crashed"
  /\ UNCHANGED <<conn, closed, readerVars, serveVars, sendVars, closer, wire>>

-----------------------------------------------------------------------------
(* The announcer: Serve, notifyAll.                                        *)

(* One turn of the loop: a delayed notification of every type for every    *)
(* address, link-local ones left out. Nothing here looks at s.closed.      *)
Announce ==
  /\ proc = "up"
  /\ announcer = "listing"
  /\ rounds < MaxRounds
  /\ rounds' = rounds + 1
  /\ waiting' = waiting \cup
       {Alive(t, a, rounds) : t \in Types, a \in Addrs \ LinkLocal}
  /\ announcer' = "sleeping"
  /\ UNCHANGED <<proc, conn, closed, readerVars, handling, addrsFailed, firing,
                 closer, wire>>

(* time.Sleep(s.NotifyInterval) ends.                                      *)
WakeUp ==
  /\ proc = "up"
  /\ announcer = "sleeping"
  /\ announcer' = "listing"
  /\ UNCHANGED <<proc, conn, closed, readerVars, handling, rounds, addrsFailed,
                 sendVars, closer, wire>>

(* Interface.Addrs fails, and Serve returns the error.                     *)
ServeAddrsFailsSlip ==  \* slip: Serve closes the socket when it returns
  /\ proc = "up"
  /\ announcer = "listing"
  /\ announcer' = "returned"
  /\ addrsFailed' = addrsFailed \cup {"Serve"}
  /\ conn' = "closed"
  /\ UNCHANGED <<proc, closed, readerVars, handling, rounds, sendVars, closer,
                 wire>>

ServeAddrsPanicsSlip ==  \* slip: Serve panics, as handle does
  /\ proc = "up"
  /\ announcer = "listing"
  /\ addrsFailed' = addrsFailed \cup {"Serve"}
  /\ proc' = "crashed"
  /\ UNCHANGED <<conn, closed, readerVars, handling, serveVars, sendVars, closer,
                 wire>>

ServeAddrsFails ==
  /\ proc = "up"
  /\ announcer = "listing"
  /\ announcer' = "returned"
  /\ addrsFailed' = addrsFailed \cup {"Serve"}
  /\ UNCHANGED <<proc, conn, closed, readerVars, handling, rounds, sendVars,
                 closer, wire>>

-----------------------------------------------------------------------------
(* The goroutines of delayedSend.                                          *)

(* The timer of a datagram has run out when its select looks.              *)
Fire(m) ==
  /\ proc = "up"
  /\ m \in waiting
  /\ waiting' = waiting \ {m}
  /\ firing' = firing \cup {m}
  /\ UNCHANGED <<proc, conn, closed, readerVars, handling, serveVars,
                 addrsFailed, closer, wire>>

(* The select takes s.closed: when both are ready the choice is random.    *)
Cancel(m) ==
  /\ proc = "up"
  /\ m \in waiting
  /\ closed = "closed"
  /\ waiting' = waiting \ {m}
  /\ UNCHANGED <<proc, conn, closed, readerVars, handling, serveVars,
                 addrsFailed, firing, closer, wire>>

(* send: a write to a closed socket fails and is only logged. One to an    *)
(* open socket is taken to succeed.                                        *)
WrittenSlip(S) == S  \* slip: the socket is never closed

Written(S) == IF conn = "open" THEN S ELSE {}

Send(m) ==
  /\ proc = "up"
  /\ m \in firing
  /\ firing' = firing \ {m}
  /\ wire' = wire \cup Written({m})
  /\ UNCHANGED <<proc, conn, closed, readerVars, handling, serveVars,
                 addrsFailed, waiting, closer>>

-----------------------------------------------------------------------------
(* Close: close(s.closed), sendByeBye, s.conn.Close().                     *)

CloseSignal ==
  /\ proc = "up"
  /\ conn = "open"
  /\ closer = "idle"
  /\ closer' = "byebye"
  /\ closed' = "closed"
  /\ UNCHANGED <<proc, conn, readerVars, handling, serveVars, addrsFailed,
                 sendVars, wire>>

Unsaid == {t \in Types : ByeBye(t) \notin wire}

(* One turn of the loop of sendByeBye.                                     *)
SendByeBye(t) ==
  /\ proc = "up"
  /\ closer = "byebye"
  /\ t \in Unsaid
  /\ wire' = wire \cup Written({ByeBye(t)})
  /\ UNCHANGED <<proc, conn, closed, readerVars, handling, serveVars,
                 addrsFailed, sendVars, closer>>

CloseConnSlip ==  \* slip: the socket is closed before sendByeBye is over
  /\ proc = "up"
  /\ closer = "byebye"
  /\ conn' = "closed"
  /\ closer' = "done"
  /\ UNCHANGED <<proc, closed, readerVars, handling, serveVars, addrsFailed,
                 sendVars, wire>>

CloseConn ==
  /\ proc = "up"
  /\ closer = "byebye"
  /\ Unsaid = {}
  /\ conn' = "closed"
  /\ closer' = "done"
  /\ UNCHANGED <<proc, closed, readerVars, handling, serveVars, addrsFailed,
                 sendVars, wire>>

-----------------------------------------------------------------------------
ReaderStep == ReadError \/ ReaderDecides

AnnouncerStep == Announce \/ WakeUp

SenderStep(m) == Fire(m) \/ Cancel(m) \/ Send(m)

CloserStep == (\E t \in Types : SendByeBye(t)) \/ CloseConn

(* What the embedding program, the network and the kernel decide.          *)
Environment ==
  \/ InitServer
  \/ Serve
  \/ CloseSignal
  \/ ServeAddrsFails
  \/ \E r \in Requests : ReadRequest(r) \/ HandleAddrsFails(r)

Next ==
  \/ ReaderStep
  \/ \E r \in Requests : Handle(r)
  \/ AnnouncerStep
  \/ \E m \in Located : SenderStep(m)
  \/ CloserStep
  \/ Environment

(* Every goroutine that can run is eventually scheduled, timers run out,   *)
(* and a read of a closed socket returns. Requests, errors and calls of    *)
(* the embedding program may never come.                                   *)
Fairness ==
  /\ WF_vars(ReaderDecides)
  /\ WF_vars(conn = "closed" /\ ReadError)
  /\ \A r \in Requests : WF_vars(Handle(r))
  /\ WF_vars(AnnouncerStep)
  /\ \A m \in Located : WF_vars(SenderStep(m))
  /\ WF_vars(CloserStep)

Spec == Init /\ [][Next]_vars

FairSpec == Spec /\ Fairness

-----------------------------------------------------------------------------
(* Properties.                                                             *)

(* Every variable holds a value of its type.                               *)
TypeOK ==
  /\ proc \in {"up", "crashed"}
  /\ conn \in {"none", "open", "closed"}
  /\ closed \in {"nil", "open", "closed"}
  /\ reader \in {"idle", "reading", "checking", "stopped", "failed"}
  /\ received \in SUBSET taken
  /\ readFailed \in BOOLEAN
  /\ taken \in SUBSET Requests
  /\ handling \in SUBSET taken
  /\ announcer \in {"idle", "listing", "sleeping", "returned"}
  /\ rounds \in 0 .. MaxRounds
  /\ addrsFailed \in SUBSET Listers
  /\ waiting \in SUBSET Located
  /\ firing \in SUBSET Located
  /\ closer \in {"idle", "byebye", "done"}
  /\ wire \in SUBSET (Located \cup Farewells)

(* Close sends its farewells through the socket it closes last: whatever   *)
(* the other goroutines are doing, a server whose socket is closed has     *)
(* said goodbye for its root device, UUID, every device and every service. *)
EveryTypeSaysGoodbye == conn = "closed" => Farewells \subseteq wire

(* Once Close has returned no datagram leaves, although Serve still        *)
(* announces and goroutines of delayedSend that lost the race to s.closed  *)
(* still call send.                                                        *)
CloseIsQuiet == [][closer = "done" => wire' = wire]_vars

(* The reader calls a read a failure only when it failed with the server   *)
(* open: the error that Close causes is never reported as one.             *)
ReaderStopsCleanly == reader = "failed" => readFailed

(* The process dies in this code only because Interface.Addrs failed under *)
(* handle, or because handle drew a delay for a search whose mx header was *)
(* read and makes int64(time.Second) * int64(mx) zero or negative. A       *)
(* header that is not a number never does, nor does Interface.Addrs when   *)
(* it fails under Serve, which returns the error.                          *)
CrashExplained ==
  proc = "crashed" =>
    \/ "handle" \in addrsFailed
    \/ \E r \in taken :
         r.search /\ (r.multicast => r.mx # NoMx) /\ DelayBound(r) <= 0

(* A search that the reader got and that handle accepts is answered for    *)
(* every type it names, on every address near its sender, unless the       *)
(* server is closed or the process dies first.                             *)
SearchAnswered ==
  \A r \in Requests :
    (r \in handling /\ r.search /\ Mx(r) # NoMx) ~>
      \/ closed = "closed"
      \/ proc = "crashed"
      \/ \A t \in Types, a \in r.near :
           r.st \in {All, t} => Response(t, a, r) \in wire

(* No search is lost between the reader, the handlers and the delayed      *)
(* senders, and no answer is sent that no search asked for: while the      *)
(* server is open, each search that it has read and handled has every      *)
(* answer it is owed written or on its way, and each answer has its        *)
(* search, its type and an address near the sender.                        *)
AnswersMatchSearches ==
  LET answers == {m \in waiting \cup firing \cup wire : m.kind = "response"}
      searches == {r \in taken : r.search /\ Mx(r) # NoMx}
  IN /\ proc = "up" /\ closed # "closed" =>
          \A r \in searches \ (received \cup handling), t \in Types :
            r.st \in {All, t} => \A a \in r.near : Response(t, a, r) \in answers
     /\ \A m \in answers : \E r \in searches :
          m.key = r.id /\ m.addr \in r.near /\ r.st \in {All, m.type}

(* After Close the reader does not stay blocked in ReadFromUDP.            *)
ReaderEnds ==
  closer = "done" ~> reader \in {"idle", "stopped", "failed"} \/ proc = "crashed"

-----------------------------------------------------------------------------
(* The inductive invariant behind the safety properties above.             *)

(* Close closes the channel, says goodbye, and then closes the socket.     *)
CloseOrder ==
  /\ conn # "none" => closed # "nil"
  /\ closer # "idle" <=> closed = "closed"
  /\ closer = "done" <=> conn = "closed"
  /\ closer = "byebye" => conn = "open"
  /\ closer = "done" => Farewells \subseteq wire

(* The reader and the announcer have a socket, and an error in the hands   *)
(* of the reader is a failure or the work of Close.                        *)
ReaderInv ==
  /\ reader # "idle" \/ announcer # "idle" => conn # "none"
  /\ reader = "checking" /\ received = {} => readFailed \/ closed = "closed"
  /\ reader = "failed" => readFailed

(* Where a request that was read is, until its answers are under way.      *)
AnswersInv ==
  /\ taken # {} => conn # "none"
  /\ announcer = "idle" => reader = "idle"
  /\ reader # "checking" => received = {}
  /\ proc = "up" /\ closed # "closed" =>
       \A r \in taken \ (received \cup handling) :
         Accepts(r) => Answers(r) \subseteq waiting \cup firing \cup wire
  /\ \A m \in waiting \cup firing \cup wire : m.kind = "response" =>
       \E r \in taken : Accepts(r) /\ m \in Answers(r)

IInv == TypeOK /\ CloseOrder /\ ReaderInv /\ CrashExplained

(* The server is what dms.Server takes it for. An address that cannot be   *)
(* listed ends Serve but not the server: its reader reads on, its handlers *)
(* answer, and the socket is open until Close or the end of the process.   *)
Socket == IF proc = "up" \/ conn # "open" THEN conn ELSE "closed"

Promise == INSTANCE SsdpPromise
  WITH socket <- Socket,
       over <- (announcer = "returned"), alive <- (proc = "up")

KeepsPromise == Promise!Spec
=============================================================================
