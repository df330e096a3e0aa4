------------------------------ MODULE EditForm ------------------------------
(***************************************************************************)
(* The forms of the web application that edit one registry or one device:  *)
(* Registry.tsx and Device.tsx.  The form loads a row, keeps it in React   *)
(* state, changes its fields as the user types, and sends the whole state  *)
(* back.  What the form holds is a record whose fields may be missing: in  *)
(* JavaScript a missing field is undefined, in JSON it is left out.        *)
(***************************************************************************)
EXTENDS Naturals, Sequences

CONSTANTS
    Ids,       \* ids of rows
    Unknown,   \* not a status
    MaxQueue   \* bound on the requests in flight

VARIABLES
    table,    \* the server's rows
    open,     \* the row whose form is open, 0 for none
    form,     \* registry, or device: the state of the form
    updated,  \* the form has changes that have not been sent
    queue,    \* the requests in flight, answered in this order
    chosen,   \* history: the status of the row that was loaded, or what the
              \* user has chosen since
    applied   \* history: row and status that the user applied last, as long
              \* as the server is up and nobody else writes that row

vars == <<table, open, form, updated, queue, chosen, applied>>

\* Some of the columns: `meta' stands for createdAt and json_data.
Row(i, s) == [id |-> i, name |-> "n", status |-> s, meta |-> "m"]

\* The fields that the body of a PUT must have (NLOHMANN_DEFINE_TYPE).
Required == {"id", "name", "status", "meta"}

InitState == [id |-> 0, name |-> "", status |-> 0]
Values    == {0, 1}   \* statusOptions
Nothing   == [id |-> 0, status |-> Unknown]

Init ==
    /\ table = [i \in Ids |-> Row(i, 0)]
    /\ open = 0 /\ form = InitState /\ updated = FALSE
    /\ queue = <<>> /\ chosen = Unknown /\ applied = Nothing

-----------------------------------------------------------------------------
\* The form is mounted: its effect loads the row.
Open(i) ==
    /\ open = 0 /\ Len(queue) < MaxQueue
    /\ open' = i /\ form' = InitState /\ updated' = FALSE /\ chosen' = Unknown
    /\ queue' = Append(queue, [op |-> "get", id |-> i])
    /\ UNCHANGED <<table, applied>>

\* handleStatusChange; handleNameChange does the same to the name.
ChangeStatus(s) ==
    /\ open # 0
    /\ form' = [f \in DOMAIN form \cup {"status"} |->
                   IF f = "status" THEN s ELSE form[f]]
    /\ updated' = TRUE
    /\ chosen' = IF chosen = Unknown THEN Unknown ELSE s
    /\ UNCHANGED <<table, open, queue, applied>>

\* The button Apply of a form that is open.
ApplyEnabled == open # 0 /\ updated

\* handleOnApply: `updated' is cleared before the answer is known.
Apply ==
    /\ ApplyEnabled /\ Len(queue) < MaxQueue
    /\ queue' = Append(queue, [op |-> "put", body |-> form])
    /\ updated' = FALSE
    /\ applied' = IF chosen = Unknown THEN Nothing
                  ELSE [id |-> open, status |-> chosen]
    /\ UNCHANGED <<table, open, form, chosen>>

\* handleOnClose: nobody waits for the row any more.
Close ==
    /\ open # 0 /\ open' = 0
    /\ queue' = [k \in DOMAIN queue |->
                    IF queue[k].op = "get" THEN [op |-> "left"] ELSE queue[k]]
    /\ UNCHANGED <<table, form, updated, chosen, applied>>

-----------------------------------------------------------------------------
\* findOne answers {"data": row}; the form takes the whole answer for the row.
LoadAnswered ==
    /\ queue # <<>> /\ Head(queue).op = "get"
    /\ form' = [data |-> table[Head(queue).id]]
    /\ queue' = Tail(queue)
    /\ chosen' = table[Head(queue).id].status
    /\ UNCHANGED <<table, open, updated, applied>>

\* The answer to the request of a form that was left reaches nobody.
LateAnswered ==
    /\ queue # <<>> /\ Head(queue).op = "left"
    /\ queue' = Tail(queue)
    /\ UNCHANGED <<table, open, form, updated, chosen, applied>>

\* The controller of registries parses the body, whose id says which row is
\* updated; a body without all fields is answered 400.  (The controller of
\* devices answers 400 in any case, see RegistryStore.)
SaveAnswered ==
    /\ queue # <<>> /\ Head(queue).op = "put"
    /\ LET body == Head(queue).body
       IN  table' = IF Required \subseteq DOMAIN body /\ body.id \in Ids
                    THEN [table EXCEPT ![body.id] =
                             [@ EXCEPT !.name = body.name, !.status = body.status]]
                    ELSE table
    /\ queue' = Tail(queue)
    /\ UNCHANGED <<open, form, updated, chosen, applied>>

\* The server does not answer, or somebody else writes a row.
RequestFails ==
    /\ queue # <<>> /\ queue' = Tail(queue)
    /\ applied' = Nothing
    /\ UNCHANGED <<table, open, form, updated, chosen>>

Elsewhere(i, s) ==
    /\ table' = [table EXCEPT ![i].status = s]
    /\ applied' = IF i = applied.id THEN Nothing ELSE applied
    /\ UNCHANGED <<open, form, updated, queue, chosen>>

User == (\E s \in Values : ChangeStatus(s)) \/ Apply \/ Close

Next ==
    \/ (\E i \in Ids : Open(i)) \/ User
    \/ LoadAnswered \/ LateAnswered \/ SaveAnswered \/ RequestFails
    \/ \E i \in Ids, s \in Values : Elsewhere(i, s)

Spec == Init /\ [][Next]_vars

-----------------------------------------------------------------------------
\* What the user chooses in a loaded form and applies is saved: when the server
\* has answered everything, the row has that status (Registry.tsx:55-60).
AppliedIsSaved ==
    queue = <<>> /\ applied # Nothing =>
        table[applied.id].status = applied.status
=============================================================================
