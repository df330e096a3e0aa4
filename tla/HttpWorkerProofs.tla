-------------------------- MODULE HttpWorkerProofs --------------------------
(***************************************************************************)
(* Proofs about HttpWorker, for every set of clients and every Timeout.    *)
(***************************************************************************)
EXTENDS HttpWorker, TLAPS

\* What ties the operations to the socket: the strengthening that makes the
\* safety properties inductive.
\*   - a completed accept, and only that, holds a connection not yet served;
\*   - while an accept is under way the socket is closed and _buffer empty;
\*   - a read or a write is in progress only on an open socket, and what is
\*     read, parsed and answered there is its client's;
\*   - a connection that waits, was handed over or is served and not yet
\*     written to is one connection of one client, without an answer.
Served == IF arrived # NoClient THEN arrived ELSE sock

Unanswered ==
    /\ \A i \in DOMAIN backlog :
          /\ backlog[i] # arrived /\ backlog[i] # sock
          /\ got[backlog[i]] = <<>>
          /\ \A j \in DOMAIN backlog : backlog[i] = backlog[j] => i = j
    /\ Served # NoClient /\ op["write"] # "ok" => got[Served] = <<>>

Coupling ==
    /\ op["accept"] = "ok" <=> arrived # NoClient
    /\ op["accept"] # "idle" => sock = NoClient /\ buffer = {}
    /\ \A o \in {"read", "write"} : op[o] = "started" => sock # NoClient
    /\ sock # NoClient => buffer \cup parser \subseteq {sock}
    /\ sock # NoClient /\ (handling \/ op["read"] = "ok") => parser = {sock}
    /\ op["write"] = "started" => response = {sock}

IInv == TypeOK /\ OneOperation /\ OneWait /\ Isolation /\ Covered /\ Coupling

\* What the refinement needs beside it.
SInv == IInv /\ Unanswered

\* The invariant holds when start() has run.
LEMMA InitIInv == Init => IInv
<1> SUFFICES ASSUME Init PROVE IInv
  OBVIOUS
<1> USE TimeoutAssumption DEF Init, Operations, OpStates
<1>1. /\ op["accept"] = "started"
      /\ op["read"] = "idle" /\ op["write"] = "idle"
      /\ op \in [Operations -> OpStates]
  OBVIOUS
<1>2. TypeOK
  <2>1. got \in [Clients -> Seq(SUBSET Clients)]  OBVIOUS
  <2>2. backlog \in Seq(Clients)  OBVIOUS
  <2>3. age \in 0..Timeout /\ left \in (0..Timeout) \cup {Never}  OBVIOUS
  <2>4. waits \in Nat /\ fired \in Nat /\ listening \in BOOLEAN /\ handling \in BOOLEAN
    OBVIOUS
  <2>5. buffer \subseteq Clients /\ parser \subseteq Clients /\ response \subseteq Clients
    OBVIOUS
  <2>6. arrived \in Clients \cup {NoClient} /\ sock \in Clients \cup {NoClient}
    OBVIOUS
  <2> HIDE DEF Init
  <2> QED  BY <1>1, <2>1, <2>2, <2>3, <2>4, <2>5, <2>6 DEF TypeOK
<1>3. OneOperation  BY <1>1 DEF OneOperation
<1>4. OneWait /\ Isolation /\ Covered  BY DEF OneWait, Isolation, Covered
<1>5. Coupling  BY <1>1 DEF Coupling
<1> QED  BY <1>2, <1>3, <1>4, <1>5 DEF IInv

\* A handler that had the only operation, and calls accept(), leaves an
\* accept as the only operation.
LEMMA AcceptOps ==
  ASSUME TypeOK, NEW o \in Operations, \A q \in Operations \ {o} : op[q] = "idle",
         Accept([op EXCEPT ![o] = "idle"])
  PROVE  /\ op' \in [Operations -> OpStates]
         /\ op'["accept"] \in {"started", "err"}
         /\ op'["read"] = "idle" /\ op'["write"] = "idle"
  BY DEF TypeOK, Accept, Closed, Operations, OpStates

\* accept(), called by the handler of the only operation, keeps the invariant.
LEMMA AcceptIInv ==
  ASSUME IInv, ~handling, arrived = NoClient,
         NEW o \in Operations, \A q \in Operations \ {o} : op[q] = "idle",
         Accept([op EXCEPT ![o] = "idle"]),
         UNCHANGED <<listening, backlog, arrived, age, waits, fired, left,
                     handling, parser, response, got>>
  PROVE  IInv'
<1> USE NoClientAssumption DEF IInv
<1>1. /\ op' \in [Operations -> OpStates]
      /\ op'["accept"] \in {"started", "err"}
      /\ op'["read"] = "idle" /\ op'["write"] = "idle"
  BY AcceptOps
<1>2. sock' = NoClient /\ buffer' = {}
  BY DEF Accept, Consumed
<1>3. TypeOK'  BY <1>1, <1>2 DEF TypeOK
<1>4. OneOperation'  BY <1>1 DEF OneOperation, Operations
<1>5. OneWait' /\ Isolation' /\ Covered'
  BY <1>2 DEF OneWait, Isolation, Covered
<1>6. Coupling'  BY <1>1, <1>2 DEF Coupling
<1> QED  BY <1>3, <1>4, <1>5, <1>6

\* Every step of the environment, the reactor and the handlers preserves it.
LEMMA NextIInv == IInv /\ [Next]_vars => IInv'
<1> SUFFICES ASSUME IInv, [Next]_vars PROVE IInv'
  OBVIOUS
<1> USE TimeoutAssumption, NoClientAssumption, NeverAssumption
<1> USE DEF IInv, TypeOK, OneOperation, OneWait, Isolation, Covered, Coupling,
            Operations, OpStates, net, timer, data
<1>1. ASSUME NEW c \in Clients, Connect(c) PROVE IInv'
  BY <1>1 DEF Connect, Queued
<1>2. CASE AcceptCompletes  BY <1>2 DEF AcceptCompletes
<1>3. CASE BytesArrive      BY <1>3 DEF BytesArrive
<1>4. CASE ReadCompletes    BY <1>4 DEF ReadCompletes
<1>5. ASSUME NEW o \in Operations, Fails(o) PROVE IInv'
  <2>1. /\ op' \in [Operations -> OpStates]
        /\ op'[o] = "err" /\ op[o] = "started"
        /\ \A q \in Operations \ {o} : op'[q] = op[q]
    BY <1>5 DEF Fails
  <2> QED  BY <1>5, <2>1 DEF Fails
<1>6. CASE WriteCompletes
  <2>1. sock \in Clients /\ response = {sock}
    BY <1>6 DEF WriteCompletes
  <2>2. got'[sock] = Append(got[sock], {sock})
    BY <1>6, <2>1 DEF WriteCompletes
  <2>3. \A c \in Clients \ {sock} : got'[c] = got[c]
    BY <1>6 DEF WriteCompletes
  <2>4. got' \in [Clients -> Seq(SUBSET Clients)]
    BY <1>6, <2>1 DEF WriteCompletes
  <2>5. Isolation'
    <3>1. \A i \in DOMAIN got'[sock] : got'[sock][i] \subseteq {sock}
      BY <2>1, <2>2
    <3> QED  BY <2>3, <3>1
  <2>6. op' \in [Operations -> OpStates] /\ op'["write"] = "ok" /\ op["write"] = "started"
        /\ \A o \in Operations \ {"write"} : op'[o] = op[o]
    BY <1>6 DEF WriteCompletes
  <2> QED  BY <1>6, <2>4, <2>5, <2>6 DEF WriteCompletes
<1>7. CASE Tick             BY <1>7 DEF Tick
<1>8. CASE TimerExpires    BY <1>8 DEF TimerExpires
<1>9. CASE HandleAccept
  <2>1. CASE op["accept"] = "err"
    BY <1>9, <2>1, AcceptIInv DEF HandleAccept
  <2>2. CASE op["accept"] = "ok"
    BY <1>9, <2>2 DEF HandleAccept, ExpiresAfter, Start
  <2> QED  BY <1>9, <2>1, <2>2 DEF HandleAccept
<1>10. CASE HandleRead
  <2>1. CASE op["read"] = "err"
    BY <1>10, <2>1, AcceptIInv DEF HandleRead
  <2>2. CASE op["read"] = "ok"
    BY <1>10, <2>2 DEF HandleRead
  <2> QED  BY <1>10, <2>1, <2>2 DEF HandleRead
<1>11. CASE Respond         BY <1>11 DEF Respond, Start
<1>12. CASE HandleWrite     BY <1>12, AcceptIInv DEF HandleWrite, Sent
<1>13. CASE CheckDeadline
  <2>1. CASE Passed
    <3>1. sock' = NoClient /\ left' = Never /\ fired' = 0 /\ waits' = 1
      BY <1>13, <2>1 DEF CheckDeadline
    <3>2. /\ op' \in [Operations -> OpStates]
          /\ \A o \in Operations : op'[o] = "idle" <=> op[o] = "idle"
          /\ op'["accept"] = op["accept"]
          /\ op'["read"] # "started" /\ op'["write"] # "started"
      BY <1>13, <2>1 DEF CheckDeadline, Closed
    <3>3. UNCHANGED <<listening, backlog, arrived, age, handling, buffer, parser,
                      response, got>>
      BY <1>13 DEF CheckDeadline
    <3>4. TypeOK'  BY <3>1, <3>2, <3>3
    <3>5. OneOperation'  BY <3>2, <3>3
    <3>6. OneWait' /\ Isolation' /\ Covered' /\ Coupling'
      BY <3>1, <3>2, <3>3
    <3> QED  BY <3>4, <3>5, <3>6
  <2>2. CASE ~Passed
    BY <1>13, <2>2 DEF CheckDeadline
  <2> QED  BY <2>1, <2>2
<1>14. CASE Shutdown
  <2>1. op["accept"] = "started" \/ UNCHANGED op
    BY <1>14 DEF Shutdown
  <2>2. op["accept"] = "started" => op' = [op EXCEPT !["accept"] = "err"]
    BY <1>14 DEF Shutdown
  <2>3. backlog' \in Seq(Clients) /\ listening' \in BOOLEAN
    <3>1. backlog' = <<>>  BY <1>14 DEF Shutdown
    <3>2. listening' = FALSE  BY <1>14 DEF Shutdown
    <3>3. <<>> \in Seq(Clients)  OBVIOUS
    <3> HIDE DEF IInv
    <3> QED  BY <3>1, <3>2, <3>3
  <2>4. /\ op' \in [Operations -> OpStates]
        /\ \A o \in Operations : op'[o] = "idle" <=> op[o] = "idle"
        /\ \A o \in Operations : op'[o] = "ok" <=> op[o] = "ok"
        /\ \A o \in Operations : op'[o] = "started" => op[o] = "started"
    BY <2>1, <2>2
  <2>5. OneOperation'
    BY <1>14, <2>4 DEF Shutdown
  <2>6. TypeOK'
    BY <1>14, <2>3, <2>4 DEF Shutdown
  <2>7. OneWait' /\ Isolation' /\ Covered' /\ Coupling'
    BY <1>14, <2>4 DEF Shutdown
  <2> QED  BY <2>5, <2>6, <2>7
<1>15. CASE UNCHANGED vars  BY <1>15 DEF vars
<1> HIDE DEF IInv
<1> QED
  BY <1>1, <1>2, <1>3, <1>4, <1>5, <1>6, <1>7, <1>8, <1>9, <1>10,
     <1>11, <1>12, <1>13, <1>14, <1>15 DEF Next, Reactor, Handlers

\* At the start nobody waits and nobody is answered.
LEMMA InitUnanswered == Init => Unanswered
  BY DEF Init, Unanswered, Served

\* A connection reaches the socket without an answer, and leaves it after one.
LEMMA NextUnanswered == SInv /\ [Next]_vars => Unanswered'
<1> SUFFICES ASSUME IInv, Unanswered, [Next]_vars PROVE Unanswered'
  BY DEF SInv
<1> USE NoClientAssumption DEF Unanswered, Served, net, timer, data
<1>0. /\ backlog \in Seq(Clients)
      /\ got \in [Clients -> Seq(SUBSET Clients)]
      /\ op \in [Operations -> OpStates]
      /\ arrived \in Clients \cup {NoClient} /\ sock \in Clients \cup {NoClient}
      /\ arrived # NoClient => op["accept"] = "ok" /\ op["write"] = "idle"
                                 /\ sock = NoClient
      /\ op["accept"] # "idle" => sock = NoClient
  BY DEF IInv, TypeOK, Coupling, OneOperation, Operations
<1>1. ASSUME NEW c \in Clients, Connect(c) PROVE Unanswered'
  <2>1. /\ backlog' = Append(backlog, c)
        /\ c # arrived /\ c # sock
        /\ \A i \in DOMAIN backlog : backlog[i] # c
        /\ got'[c] = <<>> /\ \A d \in Clients : got[d] = <<>> => got'[d] = <<>>
        /\ UNCHANGED <<arrived, sock, op>>
    BY <1>0, <1>1 DEF Connect, Queued
  <2> QED  BY <1>0, <2>1
<1>2. CASE AcceptCompletes
  <2>1. /\ backlog # <<>> /\ backlog' = Tail(backlog) /\ arrived' = backlog[1]
        /\ sock' = NoClient /\ got' = got /\ arrived' # NoClient
    BY <1>0, <1>2 DEF AcceptCompletes
  <2>2. \A i \in DOMAIN backlog' : i + 1 \in DOMAIN backlog /\ backlog'[i] = backlog[i + 1]
    BY <1>0, <2>1
  <2>3. DOMAIN backlog' \subseteq Nat \ {0} /\ 1 \in DOMAIN backlog
    BY <1>0, <2>1
  <2> QED  BY <1>0, <2>1, <2>2, <2>3
<1>3. CASE WriteCompletes
  <2>1. /\ \A d \in Clients \ {sock} : got'[d] = got[d]
        /\ op'["write"] = "ok"
        /\ UNCHANGED <<backlog, arrived, sock>>
    BY <1>0, <1>3 DEF WriteCompletes, Operations
  <2> QED  BY <1>0, <2>1
<1>4. CASE HandleAccept
  <2>1. CASE op["accept"] = "err"
    BY <1>0, <1>4, <2>1 DEF HandleAccept, Accept
  <2>2. CASE op["accept"] = "ok"
    <3>1. /\ sock' = arrived /\ arrived' = NoClient
          /\ UNCHANGED <<backlog, got>>
      BY <1>4, <2>2 DEF HandleAccept
    <3>2. sock = NoClient /\ arrived # NoClient /\ got[arrived] = <<>>
      BY <1>0, <2>2 DEF IInv, Coupling
    <3> QED  BY <1>0, <3>1, <3>2
  <2> QED  BY <1>4, <2>1, <2>2 DEF HandleAccept
<1>5. CASE HandleRead
  <2>1. op'["write"] = op["write"] \/ sock' = NoClient
    BY <1>0, <1>5 DEF HandleRead, Accept, Operations
  <2>2. arrived = NoClient
    BY <1>0, <1>5 DEF HandleRead, IInv, Coupling, OneOperation, Operations
  <2>3. sock' \in {sock, NoClient} /\ UNCHANGED <<backlog, arrived, got>>
    BY <1>5 DEF HandleRead, Accept
  <2> QED  BY <1>0, <2>1, <2>2, <2>3
<1>6. CASE Respond
  <2>1. op["write"] = "idle"
    BY <1>6 DEF Respond, IInv, OneOperation, Operations
  <2> QED  BY <1>0, <1>6, <2>1 DEF Respond
<1>7. CASE HandleWrite
  <2>1. arrived = NoClient
    BY <1>0, <1>7 DEF HandleWrite, Sent, IInv, Coupling, OneOperation, Operations
  <2> QED  BY <1>0, <1>7, <2>1 DEF HandleWrite, Accept
<1>8. CASE CheckDeadline
  <2>1. /\ sock' \in {sock, NoClient} /\ UNCHANGED <<backlog, arrived, got>>
        /\ sock' = NoClient \/ op' = op
    BY <1>8 DEF CheckDeadline
  <2> QED  BY <1>0, <2>1
<1>9. CASE Shutdown
  <2>1. backlog' = <<>> /\ op'["write"] = op["write"] /\ UNCHANGED <<arrived, sock, got>>
    BY <1>0, <1>9 DEF Shutdown, Operations
  <2> QED  BY <2>1
<1>10. ASSUME NEW o \in Operations, Fails(o) PROVE Unanswered'
  <2>1. op'["write"] = "ok" => op["write"] = "ok"
    BY <1>0, <1>10 DEF Fails, Operations
  <2>2. op["write"] = "ok" => op'["write"] = "ok"
    BY <1>0, <1>10 DEF Fails, Operations
  <2> QED  BY <1>10, <2>1, <2>2 DEF Fails
<1>11. CASE ReadCompletes
  BY <1>0, <1>11 DEF ReadCompletes, Operations
<1>12. CASE BytesArrive \/ Tick \/ TimerExpires \/ UNCHANGED vars
  BY <1>12 DEF BytesArrive, Tick, TimerExpires, vars
<1> QED
  BY <1>1, <1>2, <1>3, <1>4, <1>5, <1>6, <1>7, <1>8, <1>9, <1>10, <1>11, <1>12
  DEF Next, Reactor, Handlers

-----------------------------------------------------------------------------
\* The invariant holds for ever.
THEOREM Invariance == Spec => []IInv
  BY InitIInv, NextIInv, PTL DEF Spec

\* The variables keep their types.
THEOREM TypeCorrect == Spec => []TypeOK
<1>1. IInv => TypeOK  BY DEF IInv
<1> QED  BY <1>1, Invariance, PTL

\* Exactly one operation is under way: the callbacks neither fork nor stop.
THEOREM OneOperationAlways == Spec => []OneOperation
<1>1. IInv => OneOperation  BY DEF IInv
<1> QED  BY <1>1, Invariance, PTL

\* The deadline timer always has exactly one wait or queued handler.
THEOREM OneWaitAlways == Spec => []OneWait
<1>1. IInv => OneWait  BY DEF IInv
<1> QED  BY <1>1, Invariance, PTL

\* No client is ever sent the answer to another client's request.
THEOREM IsolationAlways == Spec => []Isolation
<1>1. IInv => Isolation  BY DEF IInv
<1> QED  BY <1>1, Invariance, PTL

\* The client on the socket is covered by a deadline of its own.
THEOREM CoveredAlways == Spec => []Covered
<1>1. IInv => Covered  BY DEF IInv
<1> QED  BY <1>1, Invariance, PTL

\* checkDeadline cuts off only a client that had all of its time: a handler
\* of the timer queued for an earlier connection harms nobody.
THEOREM NoEarlyAbort == Spec => AbortedInTime
<1> DEFINE Step == \A o \in {"read", "write"} :
                      op[o] = "started" /\ op'[o] = "err" /\ sock' = NoClient
                         => age = Timeout
<1>1. IInv /\ [Next]_vars => Step
  <2> SUFFICES ASSUME IInv, [Next]_vars, NEW o \in {"read", "write"},
                      op[o] = "started", op'[o] = "err", sock' = NoClient
               PROVE  age = Timeout
    OBVIOUS
  <2>1. sock # NoClient  BY DEF IInv, Coupling
  <2>2. op["accept"] = "idle" /\ ~handling
    BY DEF IInv, OneOperation, Operations
  <2>3. CheckDeadline /\ left = 0
    BY <2>1, <2>2
    DEF IInv, OneOperation, Operations, Next, Reactor, Handlers, vars, Connect,
        AcceptCompletes, BytesArrive, ReadCompletes, WriteCompletes, Fails, Tick,
        TimerExpires, HandleAccept, HandleRead, Respond, HandleWrite, Sent,
        CheckDeadline, Passed, Shutdown
  <2>4. left + age = Timeout  BY <2>1 DEF IInv, Covered
  <2> QED  BY <2>3, <2>4 DEF IInv, TypeOK
<1> QED  BY <1>1, Invariance, PTL DEF Spec, AbortedInTime
-----------------------------------------------------------------------------
\* The worker implements the service its clients see: one client at a time,
\* in order, each answered at most once and with its own answer.
THEOREM Refinement == Spec => ImplementsSession
<1>1. Init => Session!Init
  BY DEF Init, Session!Init
<1>2. SInv /\ [Next]_vars => [Session!Next]_(Session!vars)
  <2> SUFFICES ASSUME SInv, IInv, [Next]_vars PROVE [Session!Next]_(Session!vars)
    BY DEF SInv
  <2> USE NoClientAssumption DEF Session!vars, Session!Next, net, timer, data
  <2>1. ASSUME NEW c \in Clients, Connect(c) PROVE Session!Arrive(c)
    BY <2>1 DEF Connect, Queued, Session!Arrive
  <2>2. CASE AcceptCompletes
    <3>1. arrived = NoClient /\ sock = NoClient
      BY <2>2 DEF AcceptCompletes, IInv, Coupling
    <3>2. Head(backlog) \in Clients
      BY <2>2 DEF AcceptCompletes, IInv, TypeOK
    <3>3. Session!Serve
      BY <2>2, <3>1, <3>2 DEF AcceptCompletes, Session!Serve
    <3> QED  BY <3>3
  <2>3. CASE WriteCompletes
    <3>1. arrived = NoClient /\ sock \in Clients /\ response = {sock}
      BY <2>3 DEF WriteCompletes, SInv, IInv, Coupling, TypeOK, OneOperation, Operations
    <3>2. got[sock] = <<>>
      BY <2>3, <3>1 DEF WriteCompletes, SInv, Unanswered, Served
    <3>3. Append(got[sock], response) = <<{sock}>>
      BY <3>1, <3>2
    <3>4. got' = [got EXCEPT ![sock] = <<{sock}>>]
      BY <2>3, <3>3 DEF WriteCompletes
    <3> QED  BY <2>3, <3>1, <3>2, <3>4 DEF WriteCompletes, Session!Answer
  <2>4. CASE HandleAccept
    <3>1. sock = NoClient
      BY <2>4 DEF HandleAccept, IInv, Coupling
    <3>2. CASE op["accept"] = "ok"
      BY <2>4, <3>1, <3>2 DEF HandleAccept, IInv, Coupling
    <3>3. CASE op["accept"] = "err"
      BY <2>4, <3>1, <3>3 DEF HandleAccept, Accept, IInv, Coupling
    <3> QED  BY <2>4, <3>2, <3>3 DEF HandleAccept
  <2>5. CASE HandleRead
    <3>1. arrived = NoClient
      BY <2>5 DEF HandleRead, IInv, Coupling, OneOperation, Operations
    <3>2. CASE op["read"] = "err"
      BY <2>5, <3>1, <3>2 DEF HandleRead, Accept, Session!Finish
    <3>3. CASE op["read"] = "ok"
      BY <2>5, <3>3 DEF HandleRead
    <3> QED  BY <2>5, <3>2, <3>3 DEF HandleRead
  <2>6. CASE HandleWrite
    <3>1. arrived = NoClient
      BY <2>6 DEF HandleWrite, Sent, IInv, Coupling, OneOperation, Operations
    <3> QED  BY <2>6, <3>1 DEF HandleWrite, Accept, Session!Finish
  <2>7. CASE CheckDeadline
    <3>1. CASE sock = NoClient
      BY <2>7, <3>1 DEF CheckDeadline
    <3>2. CASE sock # NoClient
      <4>1. arrived = NoClient  BY <3>2 DEF IInv, Coupling
      <4> QED  BY <2>7, <4>1 DEF CheckDeadline, Session!Finish
    <3> QED  BY <3>1, <3>2
  <2>8. CASE Shutdown
    BY <2>8 DEF Shutdown, Session!Stop
  <2>9. CASE \/ BytesArrive \/ ReadCompletes \/ (\E o \in Operations : Fails(o))
             \/ Tick \/ TimerExpires \/ Respond \/ UNCHANGED vars
    BY <2>9 DEF BytesArrive, ReadCompletes, Fails, Tick, TimerExpires, Respond, vars
  <2> QED
    BY <2>1, <2>2, <2>3, <2>4, <2>5, <2>6, <2>7, <2>8, <2>9
    DEF Next, Reactor, Handlers
<1>3. Init => SInv  BY InitIInv, InitUnanswered DEF SInv
<1>4. SInv /\ [Next]_vars => SInv'  BY NextIInv, NextUnanswered DEF SInv
<1> QED
  BY <1>1, <1>2, <1>3, <1>4, PTL DEF Spec, ImplementsSession, Session!Spec
=============================================================================
