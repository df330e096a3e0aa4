---------------------------- MODULE EditFormProofs --------------------------
(***************************************************************************)
(* What the forms never do, for any rows, any number of requests in flight *)
(* and any order of loading, changing, applying, closing and failing.      *)
(***************************************************************************)
EXTENDS EditForm, SequenceTheorems, TLAPS

\* A body that has not all the fields of a row: `meta' is never among them.
Incomplete(f) == "meta" \notin DOMAIN f

\* The loads that are in flight, and those whose form was left.
Get  == [op : {"get"}, id : Ids]
Left == [op : {"left"}]

\* Beside them there are only the requests of puts in flight, all refused.
InFlight(puts) ==
    /\ queue \in Seq(Get \cup Left \cup puts)
    /\ \A r \in puts : r.op = "put" /\ Incomplete(r.body)

\* Whatever is in flight is a load, one that was left, or a body that the server
\* refuses; and what the form holds now would make another such body.
FormInv == Incomplete(form) /\ \E puts : InFlight(puts)

\* A new form has the fields of initState (Registry.tsx:11-16).
LEMMA InitInv == Init => FormInv
  <1> SUFFICES ASSUME Init PROVE FormInv
    OBVIOUS
  <1>1. Incomplete(form)
    BY DEF Init, InitState, Incomplete
  <1>2. InFlight({})
    BY DEF Init, InFlight
  <1> QED
    BY <1>1, <1>2 DEF FormInv

\* What is loaded is the answer, {data: row}, and not the row (Registry.tsx:24).
LEMMA NextInv == FormInv /\ [Next]_vars => FormInv'
  <1> SUFFICES ASSUME FormInv, [Next]_vars PROVE FormInv'
    OBVIOUS
  <1>0. PICK puts : InFlight(puts)
    BY DEF FormInv
  <1>1. /\ queue \in Seq(Get \cup Left \cup puts)
        /\ \A r \in puts : r.op = "put" /\ Incomplete(r.body)
    BY <1>0 DEF InFlight
  <1> DEFINE Sent == Get \cup Left \cup puts
  <1>2. Incomplete(form)
    BY DEF FormInv
  <1>3. ASSUME UNCHANGED <<form, queue>> PROVE FormInv'
    BY <1>3 DEF FormInv, InFlight, Incomplete
  <1>4. ASSUME UNCHANGED form, queue # <<>>, queue' = Tail(queue) PROVE FormInv'
    <2>1. queue' \in Seq(Sent)
      BY <1>1, <1>4
    <2> QED
      BY <1>1, <1>2, <1>4, <2>1 DEF FormInv, InFlight, Incomplete
  <1>5. ASSUME NEW i \in Ids, Open(i) PROVE FormInv'
    <2>1. queue' \in Seq(Sent)
      BY <1>1, <1>5 DEF Open, Get
    <2>2. Incomplete(form')
      BY <1>5 DEF Open, Incomplete, InitState
    <2> QED
      BY <1>1, <2>1, <2>2 DEF FormInv, InFlight, Incomplete
  <1>6. ASSUME NEW s, ChangeStatus(s) PROVE FormInv'
    <2>1. Incomplete(form')
      BY <1>2, <1>6 DEF ChangeStatus, Incomplete
    <2> QED
      BY <1>1, <1>6, <2>1 DEF FormInv, InFlight, Incomplete, ChangeStatus
  <1>7. ASSUME Apply PROVE FormInv'
    <2> DEFINE put == [op |-> "put", body |-> form]
               more == puts \cup {put}
    <2>1. queue \in Seq(Get \cup Left \cup more)
      BY <1>1
    <2>2. queue' \in Seq(Get \cup Left \cup more)
      BY <1>7, <2>1 DEF Apply
    <2>3. \A r \in more : r.op = "put" /\ Incomplete(r.body)
      BY <1>1, <1>2
    <2> QED
      BY <1>2, <1>7, <2>2, <2>3 DEF FormInv, InFlight, Incomplete, Apply
  <1>8. ASSUME Close PROVE FormInv'
    <2>1. \A k \in DOMAIN queue : queue[k] \in Sent
      BY <1>1
    <2>2. queue' \in Seq(Sent)
      BY <1>1, <1>8, <2>1 DEF Close, Left
    <2> QED
      BY <1>1, <1>2, <1>8, <2>2 DEF FormInv, InFlight, Incomplete, Close
  <1>9. ASSUME LoadAnswered PROVE FormInv'
    <2>1. queue' \in Seq(Sent)
      BY <1>1, <1>9 DEF LoadAnswered
    <2>2. Incomplete(form')
      BY <1>9 DEF LoadAnswered, Incomplete
    <2> QED
      BY <1>1, <2>1, <2>2 DEF FormInv, InFlight, Incomplete
  <1>10. CASE SaveAnswered \/ LateAnswered \/ RequestFails
    BY <1>4, <1>10 DEF SaveAnswered, LateAnswered, RequestFails
  <1>11. CASE (\E i \in Ids, s \in Values : Elsewhere(i, s)) \/ UNCHANGED vars
    BY <1>3, <1>11 DEF Elsewhere, vars
  <1> QED
    BY <1>5, <1>6, <1>7, <1>8, <1>9, <1>10, <1>11 DEF Next, User

\* No form ever holds a row, and no body in flight has all the fields of one
\* (Registry.tsx:24, 33-53).
THEOREM Invariance == Spec => []FormInv
  BY InitInv, NextInv, PTL DEF Spec

\* Whatever is loaded, changed, applied, left and answered in whatever order, no
\* body that a form has sent changes a row on the server: Apply saves nothing
\* (Registry.tsx:55-60).
NothingSaved == [][SaveAnswered => UNCHANGED table]_vars

\* That AppliedIsSaved fails is not a matter of one unlucky order: nothing that is
\* applied is ever saved (Registry.tsx:55-60, JsonSupport.h:18).
THEOREM NothingSavedAlways == Spec => NothingSaved
  <1>1. FormInv /\ SaveAnswered => UNCHANGED table
    <2> SUFFICES ASSUME FormInv, SaveAnswered PROVE UNCHANGED table
      OBVIOUS
    <2>1. PICK puts : InFlight(puts)
      BY DEF FormInv
    <2>2. Head(queue) \in Get \cup Left \cup puts /\ Head(queue).op = "put"
      BY <2>1 DEF SaveAnswered, InFlight
    <2>3. Incomplete(Head(queue).body)
      BY <2>1, <2>2 DEF Get, Left, InFlight
    <2> QED
      BY <2>3 DEF SaveAnswered, Incomplete, Required
  <1> QED
    BY <1>1, Invariance, PTL DEF NothingSaved
=============================================================================
