----------------------------- MODULE HttpSession ----------------------------
(***************************************************************************)
(* What the registry's HTTP worker promises its clients, with nothing of   *)
(* how it does it: connections are served one at a time and in the order   *)
(* they came, and a client is answered at most once per connection, with   *)
(* the answer to its own request.  A connection may end without an answer. *)
(***************************************************************************)
EXTENDS Sequences

CONSTANTS Clients, NoClient

VARIABLES
    open,      \* connections are taken
    queue,     \* the clients that wait, in order of arrival
    current,   \* the client being served
    answers    \* answers[c]: the answers c got on its latest connection

vars == <<open, queue, current, answers>>

Init ==
    /\ open = TRUE
    /\ queue = <<>>
    /\ current = NoClient
    /\ answers = [c \in Clients |-> <<>>]

Arrive(c) ==
    /\ open
    /\ c # current
    /\ \A i \in DOMAIN queue : queue[i] # c
    /\ queue' = Append(queue, c)
    /\ answers' = [answers EXCEPT ![c] = <<>>]
    /\ UNCHANGED <<open, current>>

Serve ==
    /\ current = NoClient
    /\ queue # <<>>
    /\ current' = Head(queue)
    /\ queue' = Tail(queue)
    /\ UNCHANGED <<open, answers>>

Answer ==
    /\ current \in Clients
    /\ answers[current] = <<>>
    /\ answers' = [answers EXCEPT ![current] = <<{current}>>]
    /\ UNCHANGED <<open, queue, current>>

Finish ==
    /\ current' = NoClient
    /\ UNCHANGED <<open, queue, answers>>

Stop ==
    /\ open
    /\ open' = FALSE
    /\ queue' = <<>>
    /\ UNCHANGED <<current, answers>>

Next == (\E c \in Clients : Arrive(c)) \/ Serve \/ Answer \/ Finish \/ Stop

Spec == Init /\ [][Next]_vars
=============================================================================
