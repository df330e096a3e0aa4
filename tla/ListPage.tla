------------------------------ MODULE ListPage ------------------------------
(***************************************************************************)
(* The list pages of the web application: DevicesPage, RegistryPage and    *)
(* DeviceTelemetry.  A page keeps its parameters and what it shows in      *)
(* React state; handlers and an effect send requests, and the answers set  *)
(* the state whenever they come.  The pages differ in their parameters and *)
(* in the dependencies of the effect.                                      *)
(*                                                                         *)
(* The registry's only HTTP worker serves one connection at a time in the  *)
(* order of the listen queue, so the requests of a page are a queue here.  *)
(* It answers a list request with two statements, the page and the count,  *)
(* between which others may change the table.                              *)
(***************************************************************************)
EXTENDS Naturals, Sequences, FiniteSets, SequencesExt

CONSTANTS
    SearchNames,      \* contents of the search field, among them "" (any name)
    Owners,           \* registries or devices to choose, among them 0 (any)
    Ids,              \* ids of the rows that the server may have
    Matches(_, _, _), \* row i matches a name and an owner
    PageSize,
    MaxQueue          \* bound on the requests in flight

ASSUME PageAssumption ==
    /\ "" \in SearchNames /\ 0 \in Owners
    /\ Ids \subseteq Nat /\ IsFiniteSet(Ids)
    /\ PageSize \in Nat \ {0} /\ MaxQueue \in Nat

VARIABLES
    kind,    \* which page it is, for good
    table,   \* the server's rows, by id
    params,  \* searchName, registryId (or deviceId) and page
    wanted,  \* history: the parameters when the user last asked for rows
    rows,    \* the rows shown
    count,   \* the number of pages offered
    shown,   \* history: the parameters of the answer that is shown
    failed,  \* history: the last list request failed
    queue,   \* the requests in flight
    fetched, \* <<>>, or <<page>> when the oldest request's page is queried
    steady   \* history: the table is still the one that `fetched' comes from

server == <<table, fetched, steady>>
vars == <<kind, server, params, wanted, rows, count, shown, failed, queue>>

Params == [name : SearchNames, owner : Owners, page : Nat \ {0}]

FirstPage == [name |-> "", owner |-> 0, page |-> 1]

List(p) == [op |-> "list", params |-> p]

\* The dependencies of the effect that sends the list request.
Deps == [registries |-> {"page"},
         devices    |-> {"name", "owner", "page"},
         telemetry  |-> {"owner", "page"}]

Init ==
    /\ kind \in DOMAIN Deps
    /\ table \in SUBSET Ids
    /\ \E o \in Owners :       \* telemetry has a device, from the address
          /\ o # 0 <=> kind = "telemetry"
          /\ params = [FirstPage EXCEPT !.owner = o]
    /\ wanted = params /\ shown = params
    /\ rows = <<>> /\ count = 0 /\ failed = FALSE
    /\ queue = <<List(params)>>          \* the effect of the first rendering
    /\ fetched = <<>> /\ steady = TRUE

-----------------------------------------------------------------------------
(* The user.                                                               *)

\* Mutant: the effect forgets that the page is one of its dependencies.
EffectWithoutPage(p) ==
    IF \E f \in Deps[kind] \ {"page"} : p[f] # params[f] THEN <<List(p)>> ELSE <<>>
\* Rendering with parameters p: the effect runs if a dependency has changed.
Effect(p) == IF \E f \in Deps[kind] : p[f] # params[f] THEN <<List(p)>> ELSE <<>>

\* A handler sends `direct', then sets parameters that the rendering sees.
Render(direct, p) ==
    /\ Len(queue) + 2 <= MaxQueue
    /\ queue' = queue \o direct \o Effect(p)
    /\ params' = p

\* onChangeSearchName.
Type(n) ==
    /\ n # params.name
    /\ Render(<<>>, [params EXCEPT !.name = n])
    /\ wanted' = IF "name" \in Deps[kind] THEN params' ELSE wanted
    /\ UNCHANGED <<kind, server, rows, count, shown, failed>>

\* findByName: setPage(1) is seen by the effect, the direct call still has
\* the page that was rendered last.
FindByName ==
    /\ Render(<<List(params)>>, [params EXCEPT !.page = 1])
    /\ wanted' = params'
    /\ UNCHANGED <<kind, server, rows, count, shown, failed>>

\* handleRegistryChange (the direct call, too, has the registry rendered
\* last), or navigation to the telemetry of another device (no such call).
Choose(o) ==
    /\ o # params.owner /\ (kind = "telemetry" => o # 0)
    /\ Render(IF kind = "devices" THEN <<List(params)>> ELSE <<>>,
              [params EXCEPT !.owner = o])
    /\ wanted' = params'
    /\ UNCHANGED <<kind, server, rows, count, shown, failed>>

\* The pages that the pagination offers: those that the last answer counted,
\* and the one before the present page, which may itself be beyond them.
Offered == 1..count \cup ({params.page - 1} \ {0})

\* handlePageChange: choosing the page that is shown changes nothing.
ChangePage(g) ==
    /\ g \in Offered /\ g # params.page
    /\ Render(<<>>, [params EXCEPT !.page = g])
    /\ wanted' = params'
    /\ UNCHANGED <<kind, server, rows, count, shown, failed>>

\* handleOnRefresh, a button of the telemetry page.
Refresh ==
    /\ Render(<<List(params)>>, params)
    /\ wanted' = params
    /\ UNCHANGED <<kind, server, rows, count, shown, failed>>

\* deleteDevice: the row is found by its index now and removed from the
\* table by that index when the answer comes.  `alone' is history.
DeleteRow(i) ==
    /\ i \in DOMAIN rows /\ Len(queue) < MaxQueue
    /\ queue' = Append(queue, [op |-> "delete", id |-> rows[i], index |-> i,
                               alone |-> queue = <<>>])
    /\ UNCHANGED <<kind, server, params, wanted, rows, count, shown, failed>>

\* The controls of each page; all have the pagination and a delete per row.
Pagination  == \E g \in Offered : ChangePage(g)
RowControls == \E i \in DOMAIN rows : DeleteRow(i)

Browse == Pagination \/ RowControls

RegistriesUser ==
    /\ kind = "registries"
    /\ (\E n \in SearchNames : Type(n)) \/ FindByName \/ Browse

DevicesUser ==
    /\ kind = "devices"
    /\ \/ (\E n \in SearchNames : Type(n)) \/ FindByName
       \/ (\E o \in Owners : Choose(o)) \/ Browse

TelemetryUser ==
    /\ kind = "telemetry"
    /\ (\E o \in Owners : Choose(o)) \/ Refresh \/ Browse

User == RegistriesUser \/ DevicesUser \/ TelemetryUser

-----------------------------------------------------------------------------
(* The server, and the answers.                                            *)

Matching(p) == {i \in table : Matches(i, p.name, p.owner)}

\* The rows that the server's order puts before row i: by id, telemetry the
\* newest first.
Before(p, i) == {j \in Matching(p) : IF kind = "telemetry" THEN j > i ELSE j < i}

\* DELETE of device 5 removes REGISTRY 5 (DeviceRepository.cpp:108).
Deleted(id) == IF kind = "devices" THEN table ELSE table \ {id}

\* Mutant: pages that overlap by a row.
RowsOverlapping(p) ==
    LET offset == PageSize * (p.page - 1)
    IN  [k \in {k \in 1..PageSize + 1 : offset + k <= Cardinality(Matching(p))} |->
            CHOOSE i \in Matching(p) : Cardinality(Before(p, i)) = offset + k - 1]

\* limit and offset: row k of the answer has offset + k - 1 rows before it.
Rows(p) ==
    LET offset == PageSize * (p.page - 1)
    IN  [k \in {k \in 1..PageSize : offset + k <= Cardinality(Matching(p))} |->
            CHOOSE i \in Matching(p) : Cardinality(Before(p, i)) = offset + k - 1]

\* Mutant: the last page is offered only when it is full.
PagesFull(p) == Cardinality(Matching(p)) \div PageSize
\* Math.ceil(total / pageSize).
Pages(p) == (Cardinality(Matching(p)) + PageSize - 1) \div PageSize

\* The registry answers the oldest request: first the query of the page ...
PageQueried ==
    /\ queue # <<>> /\ Head(queue).op = "list" /\ fetched = <<>>
    /\ fetched' = <<Rows(Head(queue).params)>>
    /\ UNCHANGED <<kind, table, params, wanted, rows, count, shown, failed, queue, steady>>

\* The next request is the oldest one now.
Served == queue' = Tail(queue) /\ fetched' = <<>> /\ steady' = TRUE

\* ... then that of the count, upon which
\* then((response) => { setDevices(..); setCount(..) }).
ListAnswered ==
    /\ queue # <<>> /\ Head(queue).op = "list" /\ fetched # <<>>
    /\ Served
    /\ rows' = fetched[1]
    /\ count' = Pages(Head(queue).params)
    /\ shown' = Head(queue).params
    /\ failed' = FALSE
    /\ UNCHANGED <<kind, table, params, wanted>>

\* Mutant: splice(rowIndex) removes the row and all after it.
RemoveAnsweredCutting ==
    /\ queue # <<>> /\ Head(queue).op = "delete"
    /\ Served
    /\ table' = Deleted(Head(queue).id)
    /\ rows' = SubSeq(rows, 1, Head(queue).index - 1)
    /\ UNCHANGED <<kind, params, wanted, count, shown, failed>>

\* splice(rowIndex, 1) of the rows shown now.
RemoveAnswered ==
    /\ queue # <<>> /\ Head(queue).op = "delete"
    /\ Served
    /\ table' = Deleted(Head(queue).id)
    /\ rows' = IF Head(queue).index \in DOMAIN rows
               THEN RemoveAt(rows, Head(queue).index) ELSE rows
    /\ UNCHANGED <<kind, params, wanted, count, shown, failed>>

\* catch((e) => console.log(e)): an error, or no answer at all.  A DELETE
\* may have been executed all the same.
Failed ==
    /\ queue # <<>>
    /\ Served
    /\ IF Head(queue).op = "list"
       THEN failed' = TRUE /\ UNCHANGED table
       ELSE /\ table' \in {table, Deleted(Head(queue).id)}
            /\ UNCHANGED failed
    /\ UNCHANGED <<kind, params, wanted, rows, count, shown>>

\* Somebody else adds or deletes rows.
OthersChange ==
    /\ \E i \in Ids : table' \in {table \cup {i}, table \ {i}} \ {table}
    /\ steady' = (fetched = <<>>)
    /\ UNCHANGED <<kind, params, wanted, rows, count, shown, failed, queue, fetched>>

Answer == PageQueried \/ ListAnswered \/ RemoveAnswered \/ Failed

Next == User \/ Answer \/ OthersChange

Spec == Init /\ [][Next]_vars

-----------------------------------------------------------------------------
IsPage(r) == r \in Seq(Ids) /\ IsInjective(r) /\ Len(r) <= PageSize

\* Types; the table shows no row twice and no more than a page.
TypeOK ==
    /\ table \subseteq Ids
    /\ {params, wanted, shown} \subseteq Params
    /\ IsPage(rows)
    /\ fetched # <<>> => Len(fetched) = 1 /\ IsPage(fetched[1])
    /\ count \in Nat
    /\ failed \in BOOLEAN /\ steady \in BOOLEAN
    /\ \A k \in DOMAIN queue : \/ queue[k].op = "list" /\ queue[k].params \in Params
                               \/ queue[k].op = "delete" /\ queue[k].id \in Ids

\* When nothing is in flight and the last list request did not fail, the
\* table shows what the user asked for last, although handlers also send
\* requests with the parameters of an older rendering.
Fresh == queue = <<>> /\ ~failed => shown = wanted

\* A row deleted while no other request is in flight is the row that
\* disappears, whatever the user does until the answer comes.
DeletedIsRemoved ==
    [][RemoveAnswered /\ Head(queue).alone =>
          /\ {rows'[i] : i \in DOMAIN rows'} =
                {rows[i] : i \in DOMAIN rows} \ {Head(queue).id}
          /\ Len(rows') = Len(rows) - 1]_vars

\* An empty table is shown exactly when the page asked for is not among those
\* offered with the answer, unless a row came or went between the two statements
\* of the server: a page can be left behind by a filter or a delete (setPage is
\* not called), but no page that is offered turns out empty, and none that has
\* rows is not offered.
EmptyOnlyBeyond ==
    [][ListAnswered /\ steady => (rows' = <<>> <=> shown'.page > count')]_vars
=============================================================================
