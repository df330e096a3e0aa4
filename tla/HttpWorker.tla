----------------------------- MODULE HttpWorker -----------------------------
(***************************************************************************)
(* The HTTP worker of the registry (src/registry/src/http/HttpWorker.cpp): *)
(* one acceptor, ONE client socket and one deadline timer, driven by the   *)
(* completion handlers that a single-threaded io_service runs.             *)
(*                                                                         *)
(* An asynchronous operation is "started" when the code initiates it, and  *)
(* the reactor turns it into "ok" or "err": its handler is then queued and *)
(* runs later, after any number of other events.  Closing the socket       *)
(* aborts a started operation, but cannot recall a handler that is already *)
(* queued: those are the races this module is about.                       *)
(*                                                                         *)
(* Time is kept relative, so that no clock grows without bound: `left' is  *)
(* the time to the expiry of the timer and `age' the time since the client *)
(* on the socket was accepted.                                             *)
(***************************************************************************)
EXTENDS Naturals, Sequences

CONSTANTS
    Clients,    \* the peers that connect to the server
    NoClient,   \* no client on the socket
    Timeout,    \* the 60 seconds of HttpWorker.cpp:50, in ticks
    Never       \* time_point::max(), the expiry of an unset deadline

ASSUME TimeoutAssumption == Timeout \in Nat \ {0}
ASSUME NeverAssumption == Never \notin Nat
ASSUME NoClientAssumption == NoClient \notin Clients

VARIABLES
    listening,  \* _acceptor is open
    backlog,    \* connections the kernel holds for the acceptor, in order
    arrived,    \* the connection a completed accept will move into _socket
    sock,       \* the client _socket is connected to, NoClient when closed
    age,        \* ticks since the client on _socket was accepted
    op,         \* the state of each asynchronous operation on the sockets
    waits,      \* async_wait operations of _requestDeadline still waiting
    fired,      \* handlers of checkDeadline queued to run
    left,       \* ticks until the expiry of _requestDeadline
    handling,   \* the request handler is running: it blocks the thread
    buffer,     \* whose bytes _buffer holds
    parser,     \* whose bytes _parser has consumed
    response,   \* whose request _response was computed from
    got         \* got[c]: the answers the connection of c has received, each
                \* with the clients whose bytes it was computed from

net      == <<listening, backlog>>
timer    == <<waits, fired, left>>
data     == <<buffer, parser, response>>
vars     == <<listening, backlog, arrived, sock, age, op, waits, fired, left,
              handling, buffer, parser, response, got>>

Operations == {"accept", "read", "write"}
OpStates   == {"idle", "started", "ok", "err"}

-----------------------------------------------------------------------------
(* Building blocks of the handlers.                                        *)

\* Mutant: closing the socket leaves what was started on it waiting.
ClosedWithoutAbort(ops) == ops

\* basic_socket::close: a started operation on the socket is aborted, a
\* queued handler stays as it is.
Closed(ops) ==
    [o \in Operations |->
        IF o # "accept" /\ ops[o] = "started" THEN "err" ELSE ops[o]]

\* _buffer.consume(_buffer.size()); the mutant consumes nothing.
NotConsumed == buffer
Consumed == {}

\* HttpWorker::accept, called by a handler that leaves the operations `ops':
\* close the previous connection, drop its bytes, wait for the next one.  On
\* a closed acceptor async_accept completes at once with an error.
Accept(ops) ==
    /\ sock' = NoClient
    /\ buffer' = Consumed
    /\ op' = [Closed(ops) EXCEPT !["accept"] =
                 IF listening THEN "started" ELSE "err"]

\* Initiating a read or a write on _socket, which fails at once if closed.
Start(o, ops) ==
    op' = [ops EXCEPT ![o] = IF sock' = NoClient THEN "err" ELSE "started"]

\* Mutants: the wait in progress survives; the expiry is not moved.
ExpiresAfterLeavesWait(ticks) ==
    /\ left' = ticks
    /\ fired' = fired + waits
    /\ waits' = waits

ExpiresAfterKeepsExpiry(ticks) ==
    /\ left' = left
    /\ fired' = fired + waits
    /\ waits' = 0

\* basic_waitable_timer::expires_after: waits in progress are cancelled and
\* their handlers queued.
ExpiresAfter(ticks) ==
    /\ left' = ticks
    /\ fired' = fired + waits
    /\ waits' = 0

-----------------------------------------------------------------------------
(* start(), called when the application has started, and the kernel side.  *)

Init ==
    /\ listening = TRUE
    /\ backlog = <<>>
    /\ arrived = NoClient
    /\ sock = NoClient
    /\ age = 0
    /\ op = [o \in Operations |-> IF o = "accept" THEN "started" ELSE "idle"]
    /\ waits = 1
    /\ fired = 0
    /\ left = Never
    /\ handling = FALSE
    /\ buffer = {}
    /\ parser = {}
    /\ response = {}
    /\ got = [c \in Clients |-> <<>>]

Queued(c) == \E i \in DOMAIN backlog : backlog[i] = c

\* A peer connects (again); the kernel queues the connection.
Connect(c) ==
    /\ listening
    /\ ~Queued(c) /\ c # arrived /\ c # sock
    /\ backlog' = Append(backlog, c)
    /\ got' = [got EXCEPT ![c] = <<>>]
    /\ UNCHANGED <<listening, arrived, sock, age, op, timer, handling, data>>

\* The reactor completes the accept with the oldest queued connection ...
AcceptCompletes ==
    /\ op["accept"] = "started"
    /\ backlog # <<>>
    /\ arrived' = Head(backlog)
    /\ backlog' = Tail(backlog)
    /\ op' = [op EXCEPT !["accept"] = "ok"]
    /\ UNCHANGED <<listening, sock, age, timer, handling, data, got>>

\* Bytes of the request come in: the parser takes some, the rest waits.
BytesArrive ==
    /\ op["read"] = "started"
    /\ \/ buffer' = buffer \cup {sock} /\ parser' = parser
       \/ buffer' = {} /\ parser' = parser \cup buffer \cup {sock}
    /\ UNCHANGED <<net, arrived, sock, age, op, timer, handling, response, got>>

\* The request is complete; bytes the client sent after it stay in _buffer.
ReadCompletes ==
    /\ op["read"] = "started"
    /\ parser' = parser \cup buffer \cup {sock}
    /\ buffer' \in {{}, {sock}}
    /\ op' = [op EXCEPT !["read"] = "ok"]
    /\ UNCHANGED <<net, arrived, sock, age, timer, handling, response, got>>

\* The serializer, which refers to _response, has been sent to the peer.
WriteCompletes ==
    /\ op["write"] = "started"
    /\ got' = [got EXCEPT ![sock] = Append(@, response)]
    /\ op' = [op EXCEPT !["write"] = "ok"]
    /\ UNCHANGED <<net, arrived, sock, age, timer, handling, data>>

\* An operation fails: the peer reset the connection, sent what is no HTTP
\* request, or no descriptor is free for another connection.
Fails(o) ==
    /\ op[o] = "started"
    /\ op' = [op EXCEPT ![o] = "err"]
    /\ UNCHANGED <<net, arrived, sock, age, timer, handling, data, got>>

\* Time passes, also while a request handler blocks the thread.
Tick ==
    /\ age < Timeout \/ left \notin {Never, 0}
    /\ age' = IF age < Timeout THEN age + 1 ELSE age
    /\ left' = IF left \in {Never, 0} THEN left ELSE left - 1
    /\ UNCHANGED <<net, arrived, sock, op, waits, fired, handling, data, got>>

\* The reactor finds the deadline passed and queues the timer's handler.
TimerExpires ==
    /\ waits > 0
    /\ left = 0
    /\ waits' = waits - 1
    /\ fired' = fired + 1
    /\ UNCHANGED <<net, arrived, sock, age, op, left, handling, data, got>>

-----------------------------------------------------------------------------
(* The completion handlers, one at a time on the thread of the io_service. *)

\* The handler of async_accept.
HandleAccept ==
    /\ ~handling
    /\ \/ /\ op["accept"] = "err"
          /\ Accept([op EXCEPT !["accept"] = "idle"])
          /\ UNCHANGED <<arrived, age, timer, parser>>
       \/ /\ op["accept"] = "ok"
          /\ sock' = arrived
          /\ arrived' = NoClient
          /\ age' = 0
          /\ ExpiresAfter(Timeout)
          /\ parser' = {}
          /\ Start("read", [op EXCEPT !["accept"] = "idle"])
          /\ UNCHANGED buffer
    /\ UNCHANGED <<net, handling, response, got>>

\* The handler of async_read: process() enters the request handler.
HandleRead ==
    /\ ~handling
    /\ \/ /\ op["read"] = "err"
          /\ Accept([op EXCEPT !["read"] = "idle"])
          /\ UNCHANGED handling
       \/ /\ op["read"] = "ok"
          /\ handling' = TRUE
          /\ op' = [op EXCEPT !["read"] = "idle"]
          /\ UNCHANGED <<sock, buffer>>
    /\ UNCHANGED <<net, arrived, age, timer, parser, response, got>>

\* Mutant: accept() at once instead of in the handler of the write.
RespondAndAccept ==
    /\ handling
    /\ handling' = FALSE
    /\ response' = parser
    /\ Accept([op EXCEPT !["write"] = "started"])
    /\ UNCHANGED <<net, arrived, age, timer, parser, got>>

\* The request handler returns or throws: each outcome replaces _response
\* (a string, a file, or an error text) and starts to send it.
Respond ==
    /\ handling
    /\ handling' = FALSE
    /\ response' = parser
    /\ sock' = sock
    /\ Start("write", op)
    /\ UNCHANGED <<net, arrived, age, timer, buffer, parser, got>>

\* The handler of async_write runs accept() whatever the outcome; the mutant
\* only after a complete write.
SentOnly == op["write"] = "ok"
Sent == op["write"] \in {"ok", "err"}

\* Mutant: after a complete write the next request is read from the same
\* connection, as keep_alive(true) (HttpWorker.cpp:87) lets the peer expect.
HandleWriteKeptAlive ==
    /\ ~handling
    /\ Sent
    /\ \/ /\ op["write"] = "ok"
          /\ sock' = sock
          /\ parser' = {}
          /\ Start("read", [op EXCEPT !["write"] = "idle"])
          /\ UNCHANGED buffer
       \/ /\ op["write"] = "err"
          /\ Accept([op EXCEPT !["write"] = "idle"])
          /\ UNCHANGED parser
    /\ UNCHANGED <<net, arrived, age, timer, handling, response, got>>

HandleWrite ==
    /\ ~handling
    /\ Sent
    /\ Accept([op EXCEPT !["write"] = "idle"])
    /\ UNCHANGED <<net, arrived, age, timer, handling, parser, response, got>>

\* "The deadline may have moved, so check it has really passed."; the mutant
\* does not check.
PassedUnchecked == TRUE
Passed == left = 0

\* checkDeadline, as the handler of async_wait.
CheckDeadline ==
    /\ ~handling
    /\ fired > 0
    /\ \/ /\ Passed
          /\ sock' = NoClient
          /\ op' = Closed(op)
          /\ left' = Never
          /\ fired' = (fired - 1) + waits
          /\ waits' = 1
       \/ /\ ~Passed
          /\ fired' = fired - 1
          /\ waits' = waits + 1
          /\ UNCHANGED <<sock, op, left>>
    /\ UNCHANGED <<net, arrived, age, handling, data, got>>

\* The subscriber of ApplicationCloseEvent (HttpService.cpp:66-71) closes the
\* acceptor at any time, also while a request handler runs: the event bus
\* need not wait for the io_service.  The kernel resets the connections it
\* still holds.
Shutdown ==
    /\ listening
    /\ listening' = FALSE
    /\ backlog' = <<>>
    /\ op' = [op EXCEPT !["accept"] = IF @ = "started" THEN "err" ELSE @]
    /\ UNCHANGED <<arrived, sock, age, timer, handling, data, got>>

Reactor == \/ AcceptCompletes \/ BytesArrive \/ ReadCompletes \/ WriteCompletes
           \/ (\E o \in Operations : Fails(o))
           \/ Tick \/ TimerExpires

Handlers == \/ HandleAccept \/ HandleRead \/ Respond \/ HandleWrite
            \/ CheckDeadline

Next == (\E c \in Clients : Connect(c)) \/ Reactor \/ Handlers \/ Shutdown

Spec == Init /\ [][Next]_vars

\* The io_service runs every queued handler, time passes, a request handler
\* returns, and accept errors do not repeat for ever.  Nothing is assumed of
\* the peers: a client may never send its request nor read its answer.
Fairness ==
    /\ WF_vars(HandleAccept)
    /\ WF_vars(HandleRead)
    /\ WF_vars(Respond)
    /\ WF_vars(HandleWrite)
    /\ SF_vars(CheckDeadline)
    /\ WF_vars(Tick)
    /\ WF_vars(TimerExpires)
    /\ SF_vars(AcceptCompletes)

FairSpec == Spec /\ Fairness

-----------------------------------------------------------------------------
(* Safety.                                                                 *)

\* The variables hold values of their kind.
TypeOK ==
    /\ listening \in BOOLEAN
    /\ backlog \in Seq(Clients)
    /\ arrived \in Clients \cup {NoClient}
    /\ sock \in Clients \cup {NoClient}
    /\ age \in 0..Timeout
    /\ op \in [Operations -> OpStates]
    /\ waits \in Nat
    /\ fired \in Nat
    /\ left \in (0..Timeout) \cup {Never}
    /\ handling \in BOOLEAN
    /\ buffer \subseteq Clients
    /\ parser \subseteq Clients
    /\ response \subseteq Clients
    /\ got \in [Clients -> Seq(SUBSET Clients)]

\* The worker always does exactly one thing: it runs a request handler, or
\* one accept, read or write is under way or has its handler queued.  Two
\* would share _socket, _buffer and _response; none would leave the server
\* deaf for ever (the callbacks of accept, readRequest, visit).
OneOperation ==
    IF handling
    THEN \A o \in Operations : op[o] = "idle"
    ELSE \E o \in Operations :
            /\ op[o] # "idle"
            /\ \A q \in Operations \ {o} : op[q] = "idle"

\* However often the deadline is moved, struck or cancelled, checkDeadline
\* has exactly one wait in progress or handler queued: the timer is neither
\* lost nor doubled (checkDeadline re-arming itself against expires_after).
OneWait == waits + fired = 1

\* A client is only ever sent the answer to its own request: no byte of an
\* earlier connection is left in _buffer, _parser or _response.
Isolation == \A c \in Clients : \A i \in DOMAIN got[c] : got[c][i] \subseteq {c}

\* The client on the socket is covered by a deadline of its own, set when it
\* was accepted: it strikes exactly Timeout after that, not with the
\* deadline of an earlier connection and not never.
Covered == sock # NoClient => left # Never /\ left + age = Timeout

-----------------------------------------------------------------------------
(* Action properties.                                                      *)

\* A read or write that checkDeadline cuts off had all of its Timeout: a
\* handler of the timer queued for an earlier connection cuts off nobody.
AbortedInTime ==
    [][\A o \in {"read", "write"} :
          op[o] = "started" /\ op'[o] = "err" /\ sock' = NoClient
              => age = Timeout]_vars

\* "Request must be fully processed within 60 seconds." (HttpWorker.cpp:49):
\* no answer goes out once the time is up.  What the code does differs: the
\* timer cannot interrupt a request handler, nor a write that follows it.
AnsweredInTime ==
    [][\A c \in Clients : got[c] = <<>> /\ got'[c] # <<>> => age < Timeout]_vars

-----------------------------------------------------------------------------
(* Liveness.                                                               *)

\* Nobody keeps the only socket: every accepted client is off it in the end,
\* even one that never sends its request or never reads its answer.
SocketFreed == \A c \in Clients : (sock = c) ~> (sock # c)

\* A waiting connection is accepted in the end, or reset by a shutdown: slow
\* and failing clients before it delay it but do not starve it.
BacklogMoves == \A c \in Clients : Queued(c) ~> ~Queued(c)

\* After shutdown the socket is closed in the end and stays closed.
DrainsAfterShutdown == ~listening ~> [](sock = NoClient)

-----------------------------------------------------------------------------
(* Refinement: a connection is being served from the moment the kernel     *)
(* hands it over until its socket is closed.                               *)

Session == INSTANCE HttpSession WITH
    open <- listening,
    queue <- backlog,
    current <- IF arrived # NoClient THEN arrived ELSE sock,
    answers <- got

\* The worker implements the service its clients see: one connection at a
\* time, in order of arrival, and no second answer on any of them, although
\* string answers announce keep-alive (HttpWorker.cpp:87).
ImplementsSession == Session!Spec
=============================================================================
