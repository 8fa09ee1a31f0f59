-------------------------- MODULE SsdpServerProofs ---------------------------
(***************************************************************************)
(* The safety properties of SsdpServer for every set of types, addresses   *)
(* and requests, every width of the integers and every number of rounds.   *)
(***************************************************************************)
EXTENDS SsdpServer, TLAPS

(* An answer carries one of the device's types and one of its addresses.   *)
LEMMA AnswersLocated == \A r \in Requests : Answers(r) \in SUBSET Located
  <1> SUFFICES ASSUME NEW r \in Requests, NEW m \in Answers(r)
      PROVE  m \in Located
    OBVIOUS
  <1>1. r.near \in SUBSET Addrs
    BY SsdpServerAssumption DEF IsRequest
  <1>2. PICK t \in Targets(r), a \in r.near : m = Response(t, a, r)
    BY DEF Answers
  <1>3. t \in Types
    BY <1>2 DEF Targets
  <1>4. QED
    BY <1>1, <1>2, <1>3 DEF Located

(* What Serve announces in a round below the bound is located.             *)
LEMMA AnnouncementsLocated ==
  rounds \in 0 .. MaxRounds /\ rounds < MaxRounds =>
    {Alive(t, a, rounds) : t \in Types, a \in Addrs \ LinkLocal} \in SUBSET Located
  <1> SUFFICES ASSUME rounds \in 0 .. MaxRounds, rounds < MaxRounds,
                      NEW t \in Types, NEW a \in Addrs \ LinkLocal
      PROVE  Alive(t, a, rounds) \in Located
    OBVIOUS
  <1>1. rounds \in 0 .. MaxRounds - 1
    BY SsdpServerAssumption
  <1>2. QED
    BY <1>1 DEF Located

(* The initial values have their types.                                    *)
LEMMA TypeOKInit == Init => TypeOK
  <1> SUFFICES ASSUME Init PROVE TypeOK
    OBVIOUS
  <1>1. readFailed \in BOOLEAN
    BY Zenon DEF Init
  <1>2. rounds \in 0 .. MaxRounds
    BY SsdpServerAssumption DEF Init
  <1>3. QED
    BY <1>1, <1>2 DEF Init, TypeOK

(* Every action keeps every variable in its type.                          *)
LEMMA TypeOKStep == TypeOK /\ [Next]_vars => TypeOK'
  <1> SUFFICES ASSUME TypeOK, [Next]_vars PROVE TypeOK'
    OBVIOUS
  <1> USE DEF TypeOK, readerVars, serveVars, sendVars
  <1>1. CASE ReadError
    <2>1. readFailed' \in BOOLEAN
      BY <1>1, Zenon DEF ReadError
    <2>2. QED
      BY <1>1, <2>1 DEF ReadError
  <1>2. CASE ReaderDecides
    <2>1. CASE ReaderNext = "reading"
      BY <1>2, <2>1 DEF ReaderDecides, Handlers
    <2>2. CASE ReaderNext # "reading"
      BY <1>2, <2>2 DEF ReaderDecides, ReaderNext
    <2>3. QED
      BY <2>1, <2>2
  <1>3. ASSUME NEW r \in Requests, Handle(r)
        PROVE  TypeOK'
    BY <1>3, AnswersLocated DEF Handle
  <1>4. CASE Announce
    <2>1. waiting' \in SUBSET Located
      BY <1>4, AnnouncementsLocated DEF Announce
    <2>2. rounds' \in 0 .. MaxRounds
      BY <1>4, SsdpServerAssumption DEF Announce
    <2>3. QED
      BY <1>4, <2>1, <2>2 DEF Announce
  <1>5. CASE WakeUp
    BY <1>5 DEF WakeUp
  <1>6. ASSUME NEW m \in Located, SenderStep(m)
        PROVE  TypeOK'
    BY <1>6 DEF SenderStep, Fire, Cancel, Send, Written
  <1>7. CASE CloserStep
    BY <1>7 DEF CloserStep, SendByeBye, CloseConn, Written, Farewells
  <1>8. CASE Environment
    <2>1. CASE InitServer \/ Serve \/ CloseSignal
      BY <2>1 DEF InitServer, Serve, CloseSignal
    <2>2. CASE ServeAddrsFails
      BY <2>2 DEF ServeAddrsFails, Listers
    <2>3. ASSUME NEW r \in Requests, ReadRequest(r)
          PROVE  TypeOK'
      BY <2>3 DEF ReadRequest
    <2>4. ASSUME NEW r \in Requests, HandleAddrsFails(r)
          PROVE  TypeOK'
      BY <2>4 DEF HandleAddrsFails, Listers
    <2>5. QED
      BY <1>8, <2>1, <2>2, <2>3, <2>4 DEF Environment
  <1>9. CASE UNCHANGED vars
    BY <1>9 DEF vars
  <1>10. QED
    BY <1>1, <1>2, <1>3, <1>4, <1>5, <1>6, <1>7, <1>8, <1>9
       DEF Next, ReaderStep, AnnouncerStep

(* Type correctness of the SSDP server, whatever its constants.            *)
THEOREM TypeCorrect == Spec => []TypeOK
  BY TypeOKInit, TypeOKStep, PTL DEF Spec

-----------------------------------------------------------------------------
(* The inductive invariant.                                                *)

(* The initial states satisfy the invariant.                               *)
LEMMA IInvInit == Init => IInv
  BY TypeOKInit DEF Init, IInv, CloseOrder, ReaderInv, CrashExplained

(* Only Close touches the order of its steps, and what is on the wire      *)
(* stays there.                                                            *)
LEMMA CloseOrderStep == IInv /\ [Next]_vars => CloseOrder'
  <1> SUFFICES ASSUME IInv, [Next]_vars PROVE CloseOrder'
    OBVIOUS
  <1> USE DEF IInv, CloseOrder, readerVars, serveVars, sendVars, Farewells
  <1>1. CASE ReaderStep
    BY <1>1 DEF ReaderStep, ReadError, ReaderDecides
  <1>2. ASSUME NEW r \in Requests, Handle(r)
        PROVE  CloseOrder'
    BY <1>2 DEF Handle
  <1>3. CASE AnnouncerStep
    BY <1>3 DEF AnnouncerStep, Announce, WakeUp
  <1>4. ASSUME NEW m \in Located, SenderStep(m)
        PROVE  CloseOrder'
    BY <1>4 DEF SenderStep, Fire, Cancel, Send
  <1>5. CASE CloserStep
    <2>1. ASSUME NEW t \in Types, SendByeBye(t)
          PROVE  CloseOrder'
      BY <2>1 DEF SendByeBye
    <2>2. CASE CloseConn
      BY <2>2 DEF CloseConn, Unsaid
    <2>3. QED
      BY <1>5, <2>1, <2>2 DEF CloserStep
  <1>6. CASE Environment
    <2>1. CASE InitServer \/ Serve \/ CloseSignal \/ ServeAddrsFails
      BY <2>1 DEF InitServer, Serve, CloseSignal, ServeAddrsFails, TypeOK
    <2>2. ASSUME NEW r \in Requests, ReadRequest(r) \/ HandleAddrsFails(r)
          PROVE  CloseOrder'
      BY <2>2 DEF ReadRequest, HandleAddrsFails
    <2>3. QED
      BY <1>6, <2>1, <2>2 DEF Environment
  <1>7. CASE UNCHANGED vars
    BY <1>7 DEF vars
  <1>8. QED
    BY <1>1, <1>2, <1>3, <1>4, <1>5, <1>6, <1>7 DEF Next

(* A read that fails with the socket open is recorded, and a socket that   *)
(* is closed has its channel closed, which the reader looks at first.      *)
LEMMA ReaderInvStep == IInv /\ [Next]_vars => ReaderInv'
  <1> SUFFICES ASSUME IInv, [Next]_vars PROVE ReaderInv'
    OBVIOUS
  <1> USE DEF IInv, CloseOrder, ReaderInv, readerVars, serveVars, sendVars
  <1>1. CASE ReadError
    <2>1. CASE conn = "open"
      BY <1>1, <2>1 DEF ReadError
    <2>2. CASE conn = "closed"
      BY <1>1, <2>2 DEF ReadError
    <2>3. CASE conn = "none"
      BY <1>1, <2>3 DEF ReadError
    <2>4. QED
      BY <2>1, <2>2, <2>3 DEF TypeOK
  <1>2. CASE ReaderDecides
    BY <1>2 DEF ReaderDecides, ReaderNext
  <1>3. ASSUME NEW r \in Requests, Handle(r)
        PROVE  ReaderInv'
    BY <1>3 DEF Handle
  <1>4. CASE AnnouncerStep
    BY <1>4 DEF AnnouncerStep, Announce, WakeUp
  <1>5. ASSUME NEW m \in Located, SenderStep(m)
        PROVE  ReaderInv'
    BY <1>5 DEF SenderStep, Fire, Cancel, Send
  <1>6. CASE CloserStep
    BY <1>6 DEF CloserStep, SendByeBye, CloseConn
  <1>7. CASE Environment
    <2>1. CASE InitServer \/ Serve \/ CloseSignal \/ ServeAddrsFails
      BY <2>1 DEF InitServer, Serve, CloseSignal, ServeAddrsFails
    <2>2. ASSUME NEW r \in Requests, ReadRequest(r) \/ HandleAddrsFails(r)
          PROVE  ReaderInv'
      BY <2>2 DEF ReadRequest, HandleAddrsFails
    <2>3. QED
      BY <1>7, <2>1, <2>2 DEF Environment
  <1>8. CASE UNCHANGED vars
    BY <1>8 DEF vars
  <1>9. QED
    BY <1>1, <1>2, <1>3, <1>4, <1>5, <1>6, <1>7, <1>8 DEF Next, ReaderStep

(* Only handle ends the process, on a panic of rand.Int63n or of its own.  *)
LEMMA CrashExplainedStep == IInv /\ [Next]_vars => CrashExplained'
  <1> SUFFICES ASSUME IInv, [Next]_vars PROVE CrashExplained'
    OBVIOUS
  <1> USE DEF IInv, TypeOK, CrashExplained, readerVars, serveVars, sendVars
  <1>1. CASE ReaderStep
    BY <1>1 DEF ReaderStep, ReadError, ReaderDecides
  <1>2. ASSUME NEW r \in Requests, Handle(r)
        PROVE  CrashExplained'
    <2>1. CASE proc' = "crashed"
      <3>1. /\ r \in taken
            /\ r.search /\ Mx(r) # NoMx /\ DelayBound(r) <= 0
        BY <1>2, <2>1 DEF Handle, Accepts
      <3>2. r.multicast => r.mx # NoMx
        BY <3>1 DEF Mx
      <3>3. taken' = taken
        BY <1>2 DEF Handle
      <3>4. QED
        BY <3>1, <3>2, <3>3
    <2>2. CASE proc' # "crashed"
      BY <2>2
    <2>3. QED
      BY <2>1, <2>2
  <1>3. CASE AnnouncerStep
    BY <1>3 DEF AnnouncerStep, Announce, WakeUp
  <1>4. ASSUME NEW m \in Located, SenderStep(m)
        PROVE  CrashExplained'
    BY <1>4 DEF SenderStep, Fire, Cancel, Send
  <1>5. CASE CloserStep
    BY <1>5 DEF CloserStep, SendByeBye, CloseConn
  <1>6. CASE Environment
    <2>1. CASE InitServer \/ Serve \/ CloseSignal \/ ServeAddrsFails
      BY <2>1 DEF InitServer, Serve, CloseSignal, ServeAddrsFails
    <2>2. ASSUME NEW r \in Requests, ReadRequest(r) \/ HandleAddrsFails(r)
          PROVE  CrashExplained'
      BY <2>2 DEF ReadRequest, HandleAddrsFails
    <2>3. QED
      BY <1>6, <2>1, <2>2 DEF Environment
  <1>7. CASE UNCHANGED vars
    BY <1>7 DEF vars
  <1>8. QED
    BY <1>1, <1>2, <1>3, <1>4, <1>5, <1>6, <1>7 DEF Next

(* The invariant holds in every reachable state.                           *)
THEOREM InductiveInvariant == Spec => []IInv
  <1>1. IInv /\ [Next]_vars => IInv'
    BY TypeOKStep, CloseOrderStep, ReaderInvStep, CrashExplainedStep DEF IInv
  <1>2. QED
    BY <1>1, IInvInit, PTL DEF Spec

-----------------------------------------------------------------------------
(* The properties.                                                         *)

(* A closed socket means that every type has said goodbye.                 *)
THEOREM GoodbyeIsComplete == Spec => []EveryTypeSaysGoodbye
  <1>1. IInv => EveryTypeSaysGoodbye
    BY DEF IInv, CloseOrder, EveryTypeSaysGoodbye
  <1>2. QED
    BY <1>1, InductiveInvariant, PTL

(* The reader never takes the error that Close causes for a failure.       *)
THEOREM ReaderIsClean == Spec => []ReaderStopsCleanly
  <1>1. IInv => ReaderStopsCleanly
    BY DEF IInv, ReaderInv, ReaderStopsCleanly
  <1>2. QED
    BY <1>1, InductiveInvariant, PTL

(* A crash has one of the two causes CrashExplained names.                 *)
THEOREM CrashHasCause == Spec => []CrashExplained
  <1>1. IInv => CrashExplained
    BY DEF IInv
  <1>2. QED
    BY <1>1, InductiveInvariant, PTL

(* Nothing leaves after Close has returned.                                *)
THEOREM ClosedIsQuiet == Spec => CloseIsQuiet
  <1>1. IInv /\ [Next]_vars => [closer = "done" => wire' = wire]_vars
    <2> SUFFICES ASSUME IInv, [Next]_vars, closer = "done"
        PROVE  wire' = wire
      OBVIOUS
    <2> USE DEF IInv, CloseOrder, readerVars, serveVars, sendVars
    <2>1. CASE ReaderStep
      BY <2>1 DEF ReaderStep, ReadError, ReaderDecides
    <2>2. ASSUME NEW r \in Requests, Handle(r)
          PROVE  wire' = wire
      BY <2>2 DEF Handle
    <2>3. CASE AnnouncerStep
      BY <2>3 DEF AnnouncerStep, Announce, WakeUp
    <2>4. ASSUME NEW m \in Located, SenderStep(m)
          PROVE  wire' = wire
      BY <2>4 DEF SenderStep, Fire, Cancel, Send, Written
    <2>5. CASE CloserStep
      BY <2>5 DEF CloserStep, SendByeBye, CloseConn
    <2>6. CASE Environment
      BY <2>6 DEF Environment, InitServer, Serve, CloseSignal, ServeAddrsFails,
                  ReadRequest, HandleAddrsFails
    <2>7. CASE UNCHANGED vars
      BY <2>7 DEF vars
    <2>8. QED
      BY <2>1, <2>2, <2>3, <2>4, <2>5, <2>6, <2>7 DEF Next
  <1>2. QED
    BY <1>1, InductiveInvariant, PTL DEF Spec, CloseIsQuiet

-----------------------------------------------------------------------------
(* Searches and their answers.                                             *)

(* A step that takes no request, and neither drops a datagram nor adds an  *)
(* answer, keeps the answers in order.                                     *)
LEMMA AnswersFrame ==
  ASSUME TypeOK, AnswersInv, UNCHANGED <<received, handling, taken>>,
         taken # {} => conn' # "none",
         announcer' = "idle" => announcer = "idle" /\ reader' = reader,
         reader' # "checking" => reader # "checking" \/ received = {},
         proc' = "up" /\ closed' # "closed" => proc = "up" /\ closed # "closed",
         proc' = "up" /\ closed' # "closed" /\ taken # {} =>
           waiting \cup firing \cup wire \subseteq (waiting \cup firing \cup wire)',
         \A m \in (waiting \cup firing \cup wire)' :
           m \in waiting \cup firing \cup wire \/ m.kind # "response"
  PROVE  AnswersInv'
  <1> USE DEF AnswersInv
  <1>1. /\ (taken # {} => conn # "none")'
        /\ (announcer = "idle" => reader = "idle")'
        /\ (reader # "checking" => received = {})'
    OBVIOUS
  <1>2. ASSUME proc' = "up", closed' # "closed",
               NEW r \in taken \ (received \cup handling), Accepts(r)
        PROVE  Answers(r) \subseteq (waiting \cup firing \cup wire)'
    BY <1>2
  <1>3. \A m \in (waiting \cup firing \cup wire)' : m.kind = "response" =>
          \E r \in taken : Accepts(r) /\ m \in Answers(r)
    OBVIOUS
  <1>4. QED
    BY <1>1, <1>2, <1>3

(* A handler that goes on to answer leaves all its answers waiting, or     *)
(* takes the process down.                                                 *)
LEMMA AnswersHandled ==
  ASSUME TypeOK, AnswersInv, NEW r \in Requests, Handle(r)
  PROVE  AnswersInv'
  <1> USE DEF Handle, readerVars, serveVars
  <1>1. /\ (taken # {} => conn # "none")'
        /\ (announcer = "idle" => reader = "idle")'
        /\ (reader # "checking" => received = {})'
    BY DEF AnswersInv
  <1>2. ASSUME proc' = "up", closed' # "closed",
               NEW q \in taken \ (received \cup handling'), Accepts(q)
        PROVE  Answers(q) \subseteq (waiting \cup firing \cup wire)'
    <2>1. CASE q = r
      BY <1>2, <2>1
    <2>2. CASE q # r
      BY <1>2, <2>2 DEF AnswersInv
    <2>3. QED
      BY <2>1, <2>2
  <1>3. ASSUME NEW m \in (waiting \cup firing \cup wire)', m.kind = "response"
        PROVE  \E q \in taken : Accepts(q) /\ m \in Answers(q)
    <2>1. r \in taken
      BY DEF TypeOK
    <2>2. m \in waiting \cup firing \cup wire \/ (Accepts(r) /\ m \in Answers(r))
      OBVIOUS
    <2>3. QED
      BY <1>3, <2>1, <2>2 DEF AnswersInv
  <1>4. QED
    BY <1>1, <1>2, <1>3 DEF AnswersInv

(* Every step keeps the answers in order. A datagram that is dropped has   *)
(* met a closed channel, or a socket that was closed after it.             *)
LEMMA AnswersInvStep == IInv /\ AnswersInv /\ [Next]_vars => AnswersInv'
  <1> SUFFICES ASSUME IInv, AnswersInv, [Next]_vars PROVE AnswersInv'
    OBVIOUS
  <1> USE DEF IInv, CloseOrder, readerVars, serveVars, sendVars
  <1>1. CASE ReadError
    BY <1>1, AnswersFrame DEF ReadError, AnswersInv
  <1>2. CASE ReaderDecides
    <2>1. /\ (taken # {} => conn # "none")'
          /\ (announcer = "idle" => reader = "idle")'
          /\ (reader # "checking" => received = {})'
      BY <1>2 DEF ReaderDecides, AnswersInv
    <2>2. closed # "closed" => received' \cup handling' = received \cup handling
      <3>1. CASE received = {}
        BY <1>2, <3>1 DEF ReaderDecides, Handlers
      <3>2. CASE received # {}
        BY <1>2, <3>2 DEF ReaderDecides, ReaderNext, Handlers
      <3>3. QED
        BY <3>1, <3>2
    <2>3. UNCHANGED <<proc, closed, taken, waiting, firing, wire>>
      BY <1>2 DEF ReaderDecides
    <2>4. QED
      BY <2>1, <2>2, <2>3 DEF AnswersInv
  <1>3. ASSUME NEW r \in Requests, Handle(r)
        PROVE  AnswersInv'
    BY <1>3, AnswersHandled
  <1>4. CASE Announce
    <2>1. \A m \in waiting' : m \in waiting \/ m.kind # "response"
      BY <1>4 DEF Announce, Alive
    <2>2. QED
      BY <1>4, <2>1, AnswersFrame DEF Announce, AnswersInv
  <1>5. CASE WakeUp
    BY <1>5, AnswersFrame DEF WakeUp, AnswersInv
  <1>6. ASSUME NEW m \in Located, SenderStep(m)
        PROVE  AnswersInv'
    <2>1. CASE Fire(m)
      BY <2>1, AnswersFrame DEF Fire, AnswersInv
    <2>2. CASE Cancel(m)
      BY <2>2, AnswersFrame DEF Cancel, AnswersInv
    <2>3. CASE Send(m)
      <3>1. closed # "closed" /\ taken # {} => conn = "open"
        BY DEF TypeOK, AnswersInv
      <3>2. wire \cup {m} = wire' \/ wire' = wire
        BY <2>3 DEF Send, Written
      <3>3. closed # "closed" /\ taken # {} => wire' = wire \cup {m}
        BY <2>3, <3>1 DEF Send, Written
      <3>4. QED
        BY <2>3, <3>2, <3>3, AnswersFrame DEF Send, AnswersInv
    <2>4. QED
      BY <1>6, <2>1, <2>2, <2>3 DEF SenderStep
  <1>7. ASSUME NEW t \in Types, SendByeBye(t)
        PROVE  AnswersInv'
    <2>1. ByeBye(t).kind # "response"
      BY DEF ByeBye
    <2>2. QED
      BY <1>7, <2>1, AnswersFrame DEF SendByeBye, Written, AnswersInv
  <1>8. CASE CloseConn
    BY <1>8, AnswersFrame DEF CloseConn, AnswersInv
  <1>9. CASE InitServer \/ Serve \/ CloseSignal \/ ServeAddrsFails
    <2>1. CASE InitServer
      BY <2>1 DEF InitServer, AnswersInv
    <2>2. CASE Serve
      BY <2>2, AnswersFrame DEF Serve, AnswersInv, ReaderInv
    <2>3. CASE CloseSignal
      BY <2>3, AnswersFrame DEF CloseSignal, AnswersInv
    <2>4. CASE ServeAddrsFails
      BY <2>4, AnswersFrame DEF ServeAddrsFails, AnswersInv
    <2>5. QED
      BY <1>9, <2>1, <2>2, <2>3, <2>4
  <1>10. ASSUME NEW r \in Requests, ReadRequest(r)
         PROVE  AnswersInv'
    <2>1. received = {} /\ received' = {r} /\ taken' = taken \cup {r}
      BY <1>10 DEF ReadRequest, AnswersInv
    <2>2. /\ conn' = "open" /\ reader = "reading" /\ reader' = "checking"
          /\ announcer' = announcer
          /\ UNCHANGED <<proc, closed, handling, waiting, firing, wire>>
      BY <1>10 DEF ReadRequest
    <2>3. QED
      BY <2>1, <2>2 DEF AnswersInv
  <1>11. ASSUME NEW r \in Requests, HandleAddrsFails(r)
         PROVE  AnswersInv'
    BY <1>11 DEF HandleAddrsFails, AnswersInv
  <1>12. CASE UNCHANGED vars
    BY <1>12, AnswersFrame DEF vars, AnswersInv
  <1>13. QED
    BY <1>1, <1>2, <1>3, <1>4, <1>5, <1>6, <1>7, <1>8, <1>9, <1>10, <1>11, <1>12
       DEF Next, ReaderStep, AnnouncerStep, CloserStep, Environment

(* No search is lost and no answer is invented, however the goroutines of  *)
(* the reader, the handlers and the senders interleave.                    *)
THEOREM NoAnswerIsLost == Spec => []AnswersMatchSearches
  <1>1. Init => AnswersInv
    BY DEF Init, AnswersInv
  <1>2. IInv /\ AnswersInv => AnswersMatchSearches
    <2> SUFFICES ASSUME IInv, AnswersInv PROVE AnswersMatchSearches
      OBVIOUS
    <2> DEFINE sent == waiting \cup firing \cup wire
    <2>1. ASSUME proc = "up", closed # "closed",
                 NEW r \in taken \ (received \cup handling), r.search, Mx(r) # NoMx,
                 NEW t \in Types, r.st \in {All, t}, NEW a \in r.near
          PROVE  Response(t, a, r) \in sent /\ Response(t, a, r).kind = "response"
      <3>1. Answers(r) \subseteq sent
        BY <2>1 DEF AnswersInv, Accepts
      <3>2. t \in Targets(r)
        BY <2>1 DEF Targets
      <3>3. QED
        BY <3>1, <3>2 DEF Answers, Response
    <2>2. ASSUME NEW m \in sent, m.kind = "response"
          PROVE  \E r \in taken : /\ r.search /\ Mx(r) # NoMx
                                  /\ m.key = r.id /\ m.addr \in r.near
                                  /\ r.st \in {All, m.type}
      <3>1. PICK r \in taken : Accepts(r) /\ m \in Answers(r)
        BY <2>2 DEF AnswersInv
      <3>2. PICK t \in Targets(r), a \in r.near : m = Response(t, a, r)
        BY <3>1 DEF Answers
      <3>3. m.key = r.id /\ m.addr \in r.near /\ m.type = t
        BY <3>2 DEF Response
      <3>4. r.st \in {All, t}
        BY <3>2 DEF Targets
      <3>5. QED
        BY <3>1, <3>3, <3>4 DEF Accepts
    <2>3. QED
      BY <2>1, <2>2 DEF AnswersMatchSearches
  <1>3. QED
    BY <1>1, <1>2, AnswersInvStep, InductiveInvariant, PTL DEF Spec

-----------------------------------------------------------------------------
(* The server implements SsdpPromise.                                      *)

(* A step that leaves what the promise sees as it was is a stutter.        *)
LEMMA PromiseStutter ==
  ASSUME UNCHANGED <<proc, conn, announcer = "returned">>
  PROVE  UNCHANGED Promise!promiseVars
  BY DEF Promise!promiseVars, Socket

(* The end of the process is a step of the promise.                        *)
LEMMA PromiseDies ==
  ASSUME TypeOK, proc = "up", proc' = "crashed",
         UNCHANGED <<conn, announcer>>
  PROVE  Promise!Die
  BY DEF Promise!Die, Socket, TypeOK

(* Every step of the server maps to a step of the promise or to a stutter. *)
LEMMA PromiseStep ==
  ASSUME IInv, [Next]_vars
  PROVE  [Promise!Next]_(Promise!promiseVars)
  <1> USE DEF IInv, readerVars, serveVars, sendVars
  <1>1. CASE ReaderStep
    BY <1>1, PromiseStutter DEF ReaderStep, ReadError, ReaderDecides
  <1>2. ASSUME NEW r \in Requests, Handle(r)
        PROVE  [Promise!Next]_(Promise!promiseVars)
    <2>1. CASE UNCHANGED proc
      BY <1>2, <2>1, PromiseStutter DEF Handle
    <2>2. CASE proc' = "crashed"
      BY <1>2, <2>2, PromiseDies DEF Handle, Promise!Next
    <2>3. QED
      BY <1>2, <2>1, <2>2 DEF Handle
  <1>3. CASE AnnouncerStep
    BY <1>3, PromiseStutter DEF AnnouncerStep, Announce, WakeUp
  <1>4. ASSUME NEW m \in Located, SenderStep(m)
        PROVE  [Promise!Next]_(Promise!promiseVars)
    BY <1>4, PromiseStutter DEF SenderStep, Fire, Cancel, Send
  <1>5. ASSUME NEW t \in Types, SendByeBye(t)
        PROVE  [Promise!Next]_(Promise!promiseVars)
    BY <1>5, PromiseStutter DEF SendByeBye
  <1>6. CASE CloseConn
    <2>1. Promise!Shut
      BY <1>6 DEF CloseConn, CloseOrder, Promise!Shut, Socket
    <2>2. QED
      BY <2>1 DEF Promise!Next
  <1>7. CASE InitServer
    <2>1. conn = "none"
      BY <1>7 DEF InitServer, CloseOrder
    <2>2. CASE conn' = "none"
      BY <1>7, <2>1, <2>2, PromiseStutter DEF InitServer
    <2>3. CASE conn' = "open"
      BY <1>7, <2>1, <2>3 DEF InitServer, Promise!Open, Promise!Next, Socket
    <2>4. QED
      BY <1>7, <2>2, <2>3 DEF InitServer
  <1>8. CASE Serve \/ CloseSignal
    BY <1>8, PromiseStutter DEF Serve, CloseSignal
  <1>9. CASE ServeAddrsFails
    <2>1. Promise!GiveUp
      BY <1>9 DEF ServeAddrsFails, ReaderInv, Promise!GiveUp, Socket
    <2>2. QED
      BY <2>1 DEF Promise!Next
  <1>10. ASSUME NEW r \in Requests, ReadRequest(r)
         PROVE  [Promise!Next]_(Promise!promiseVars)
    BY <1>10, PromiseStutter DEF ReadRequest
  <1>11. ASSUME NEW r \in Requests, HandleAddrsFails(r)
         PROVE  [Promise!Next]_(Promise!promiseVars)
    BY <1>11, PromiseDies DEF HandleAddrsFails, Promise!Next
  <1>12. CASE UNCHANGED vars
    BY <1>12, PromiseStutter DEF vars
  <1>13. QED
    BY <1>1, <1>2, <1>3, <1>4, <1>5, <1>6, <1>7, <1>8, <1>9, <1>10, <1>11, <1>12
       DEF Next, CloserStep, Environment

(* The ssdp.Server is what dms.Server takes it for: a socket opened at     *)
(* most once, which the end of Serve leaves open.                          *)
THEOREM SsdpServerKeepsPromise == Spec => KeepsPromise
  <1>1. Init => Promise!Init
    BY DEF Init, Promise!Init, Socket
  <1>2. IInv /\ [Next]_vars => [Promise!Next]_(Promise!promiseVars)
    BY PromiseStep
  <1>3. QED
    BY <1>1, <1>2, InductiveInvariant, PTL DEF Spec, KeepsPromise, Promise!Spec
=============================================================================
