---------------------------- MODULE RegistryStore ---------------------------
(***************************************************************************)
(* The registry's data: the REST controllers and repositories that the     *)
(* HTTP thread runs, the subscriber that stores device telemetry, the      *)
(* PostgreSQL tables both work on, and the per-thread connection cache.    *)
(*                                                                         *)
(* A repository's query is one or more SQL statements, each its own        *)
(* transaction: between two of them the other thread, or an operator at    *)
(* the database, may commit.  Rows are abstracted to the columns that the  *)
(* filters and foreign keys look at; ids come from SERIAL columns, or from *)
(* the script that fills the tables, which gives them itself.              *)
(*                                                                         *)
(* A string is put between quotes as it is (SqlBuilder.h:37-49).  Raw      *)
(* stands for the strings that have an apostrophe, which ends the quotes:  *)
(* the statement is refused, or a condition selects other rows and a value *)
(* is another one.  Text that makes several rows or a different kind of    *)
(* statement of it is outside the model.                                   *)
(***************************************************************************)
EXTENDS Naturals, FiniteSets

CONSTANTS
    Names,      \* names of registries and devices, none with an apostrophe
    Raw,        \* a string with an apostrophe
    Script,     \* Script[t][id]: the rows that database.sql puts into table t
    Requests,   \* the requests considered, a subset of HttpRequests
    Malformed,  \* a body that is not JSON with every field of the row
    PageSize,   \* PageRequest.size
    MaxId       \* bound on the SERIAL ids

ASSUME BoundsAssumption == PageSize \in Nat \ {0} /\ MaxId \in Nat

VARIABLES
    db,        \* db[t][id]: the rows of table t
    serial,    \* serial[t]: the last id drawn for table t
    conn,      \* DataSource::_cache: conn[th] is th's connection
    http,      \* the request the HTTP worker is handling, or its last reply
    iot,       \* the telemetry event being handled
    disturbed  \* someone else committed since the request began

vars == <<db, serial, conn, http, iot, disturbed>>

Tables  == {"registry", "device", "telemetry"}
Threads == {"http", "iot"}
Ids     == 1..MaxId

\* database.sql: the columns a filter may name, and REFERENCES.
Columns == [registry  |-> {"id", "name"},
            device    |-> {"id", "name", "registry_id"},
            telemetry |-> {"id", "device_id"}]
References == {<<"device", "registry_id", "registry">>,
               <<"telemetry", "device_id", "device">>}

\* A device's `json' tells whether its json_data is there to be converted.
Row == [registry  |-> [name : Names],
        device    |-> [name : Names, registry_id : Ids, json : BOOLEAN],
        telemetry |-> [device_id : Ids, from : Names \cup {Raw}]]

\* The script fills registry and device, with ids of its own and under the keys.
ASSUME ScriptAssumption ==
    /\ DOMAIN Script = Tables /\ DOMAIN Script["telemetry"] = {}
    /\ \A t \in Tables : /\ DOMAIN Script[t] \subseteq Ids
                         /\ Script[t] \in [DOMAIN Script[t] -> Row[t]]
    /\ \A t \in {"registry", "device"} : \A i, j \in DOMAIN Script[t] :
          Script[t][i].name = Script[t][j].name => i = j
    /\ \A d \in DOMAIN Script["device"] :
          Script["device"][d].registry_id \in DOMAIN Script["registry"]

ASSUME RawAssumption == Raw \notin Names \cup Ids

\* A request: its parameters make up the Filter, `page' the PageRequest.
HttpRequests ==
    [verb : {"get", "put", "post", "delete"},
     path : {"registries", "devices", "devices-telemetry"},
     params : UNION {[C -> Ids \cup Names \cup {Raw}] :
                       C \in SUBSET {"id", "name", "device_id", "registry_id"}},
     page : Nat,
     body : [id : Ids, name : Names \cup {Raw}] \cup {Malformed}]

TableOf(path) ==
    IF path = "registries" THEN "registry"
    ELSE IF path = "devices" THEN "device" ELSE "telemetry"

ASSUME RequestsAssumption == Requests \subseteq HttpRequests

-----------------------------------------------------------------------------
(* SQL.                                                                    *)

Column(t, i, c) == IF c = "id" THEN i ELSE db[t][i][c]

\* Mutant: a filter that loses its conditions.
MatchingAll(t, filter) == DOMAIN db[t]

\* applyFilter: every field of the filter is one condition, joined by "and".
Matching(t, filter) ==
    {i \in DOMAIN db[t] : \A c \in DOMAIN filter : Column(t, i, c) = filter[c]}

\* No value ends its quotes early.
Plain(filter) == \A c \in DOMAIN filter : filter[c] # Raw

\* What a quoted value may be to PostgreSQL.
Literal(v) == IF v = Raw THEN Names ELSE {v}

\* The sets of rows that the conditions may select: with an apostrophe in one
\* of them, any.
Selected(t, filter) ==
    IF Plain(filter) THEN {Matching(t, filter)} ELSE SUBSET DOMAIN db[t]

\* The table has the columns, and what is compared with a number is one.
Legal(t, filter) ==
    Plain(filter) => /\ DOMAIN filter \subseteq Columns[t]
                     /\ \A c \in DOMAIN filter \ {"name"} : filter[c] \in Ids

\* When a statement with these conditions is, or may be, refused; when it runs.
Refused(th, t, filter) == conn[th] = "broken" \/ ~Legal(t, filter) \/ ~Plain(filter)
Runs(th, t, filter) == conn[th] # "broken" /\ Legal(t, filter)

\* A row is referenced by rows of other tables: it cannot be deleted.
Referenced(t, i) ==
    \E r \in References :
        r[3] = t /\ \E j \in DOMAIN db[r[1]] : db[r[1]][j][r[2]] = i

NameTaken(t, n, self) == \E i \in DOMAIN db[t] \ {self} : db[t][i].name = n

\* Mutant: a new row replaces the one that has its id.
StorableOver(t, i, row) ==
    /\ t = "device" => "registry_id" \in DOMAIN row
                       /\ row.registry_id \in DOMAIN db["registry"]
    /\ t = "telemetry" => row.device_id \in DOMAIN db["device"]
    /\ t # "telemetry" => ~NameTaken(t, row.name, i)

\* The table lets a new row in: PRIMARY KEY, NOT NULL and REFERENCES, UNIQUE.
Storable(t, i, row) ==
    /\ i \notin DOMAIN db[t]
    /\ t = "device" => "registry_id" \in DOMAIN row
                       /\ row.registry_id \in DOMAIN db["registry"]
    /\ t = "telemetry" => row.device_id \in DOMAIN db["device"]
    /\ t # "telemetry" => ~NameTaken(t, row.name, i)

Without(t, rows) ==
    [db EXCEPT ![t] = [i \in DOMAIN @ \ rows |-> @[i]]]

With(t, i, row) ==
    [db EXCEPT ![t] = [j \in DOMAIN @ \cup {i} |-> IF j = i THEN row ELSE @[j]]]

\* order by id, id DESC for telemetry; limit PageSize offset PageSize * page:
\* the rows with PageSize * page to PageSize * (page + 1) - 1 rows before them.
PageOf(t, filter, page) ==
    LET rows == Matching(t, filter)
        before(i) == {j \in rows : IF t = "telemetry" THEN j > i ELSE j < i}
    IN  {i \in rows : Cardinality(before(i)) \div PageSize = page}

\* The pages that a query may fetch.
Fetched(t, filter, page) ==
    IF Plain(filter) THEN {PageOf(t, filter, page)} ELSE SUBSET DOMAIN db[t]

\* A row whose json_data is NULL cannot be converted and fails the query.
Readable(t, rows) == t = "device" => \A i \in rows : db[t][i].json

-----------------------------------------------------------------------------
Idle == [pc |-> "idle", verb |-> "none", table |-> "none", params |-> <<>>,
         page |-> 0, body |-> Malformed,
         rows |-> {}, refs |-> {}, total |-> 0, reply |-> "none"]

\* The script has run; it names its ids, so that no sequence has advanced.  The
\* DataSource opens a connection for the thread that constructs it, which may
\* or may not be one of the two.
Init ==
    /\ db = Script
    /\ serial = [t \in Tables |-> 0]
    /\ \E constructor \in Threads \cup {"main"} :
          conn = [th \in Threads |-> IF th = constructor THEN "open" ELSE "none"]
    /\ http = Idle
    /\ iot = [pc |-> "idle"]
    /\ disturbed = FALSE

\* getConnection: a thread's cached connection, broken or not; a new one on
\* first use.
UseConnection(th) ==
    conn' = [conn EXCEPT ![th] = IF @ = "none" THEN "open" ELSE @]

\* Mutant: DELETE without an id handled like DELETE with one.
HandlerDeletingAll(req) ==
    IF req.path = "devices-telemetry" /\ req.verb \in {"put", "post"} THEN "notFound"
    ELSE IF req.verb = "delete" \/ "id" \in DOMAIN req.params
    THEN [get |-> "findOne", post |-> "insert", put |-> "update",
          delete |-> "deleteByFilter"][req.verb]
    ELSE IF req.verb = "get" THEN "findAll" ELSE "default"

\* addHandlers and HttpRestController::handle: an unknown route throws, a
\* handler that is not implemented leaves a message.
Handler(req) ==
    IF req.path = "devices-telemetry" /\ req.verb \in {"put", "post"} THEN "notFound"
    ELSE IF "id" \in DOMAIN req.params
    THEN [get |-> "findOne", post |-> "insert", put |-> "update",
          delete |-> "deleteByFilter"][req.verb]
    ELSE IF req.verb = "get" THEN "findAll" ELSE "default"

\* HttpRequestHandlerManager::process calls the handler of a request.
Receive(req) ==
    /\ http.pc = "idle"
    /\ http' = [Idle EXCEPT
                  !.verb = req.verb, !.table = TableOf(req.path),
                  !.params = req.params, !.page = req.page, !.body = req.body,
                  !.pc = IF Handler(req) \in {"notFound", "default"}
                         THEN "idle" ELSE Handler(req),
                  !.reply = IF Handler(req) = "notFound" THEN "404"
                            ELSE IF Handler(req) = "default" THEN "message"
                            ELSE "none"]
    /\ disturbed' = FALSE
    /\ UNCHANGED <<db, serial, conn, iot>>

Reply(r) == http' = [http EXCEPT !.pc = "idle", !.reply = r]

\* A statement that raises is answered 400 and changes nothing.
Raise ==
    /\ Reply("400")
    /\ UNCHANGED <<db, serial, iot, disturbed>>

\* findAll and findOne, first statement: the page, the first one of findOne.
QueryPage ==
    /\ http.pc \in {"findAll", "findOne"}
    /\ UseConnection("http")
    /\ \/ Refused("http", http.table, http.params) /\ Raise
       \/ /\ Runs("http", http.table, http.params)
          /\ \E rows \in Fetched(http.table, http.params,
                                IF http.pc = "findOne" THEN 0 ELSE http.page) :
                \/ ~Readable(http.table, rows) /\ Raise
                \/ /\ Readable(http.table, rows)
                   /\ http' = [http EXCEPT !.rows = rows,
                         !.refs = IF http.table = "telemetry"
                                  THEN {<<i, db["telemetry"][i].device_id>> : i \in rows}
                                  ELSE {},
                         !.pc = IF http.table = "telemetry" /\ rows # {} THEN "refs"
                                ELSE IF http.pc = "findAll" THEN "count" ELSE "answer"]
                   /\ UNCHANGED <<db, serial, iot, disturbed>>

\* The devices that the telemetry rows of the page name: a row whose device
\* is not found is answered without it.
QueryRefs ==
    /\ http.pc = "refs"
    /\ UseConnection("http")
    /\ LET found == {p \in http.refs : p[2] \in DOMAIN db["device"]}
       IN  IF conn["http"] = "broken" \/ ~Readable("device", {p[2] : p \in found})
           THEN Raise
           ELSE /\ http' = [http EXCEPT !.refs = found, !.pc =
                      IF "id" \in DOMAIN http.params THEN "answer" ELSE "count"]
                /\ UNCHANGED <<db, serial, iot, disturbed>>

\* Mutant: the count forgets the filter.
QueryCountOfAll ==
    /\ http.pc = "count"
    /\ UseConnection("http")
    /\ \/ Refused("http", http.table, http.params) /\ Raise
       \/ /\ Runs("http", http.table, http.params)
          /\ http' = [http EXCEPT !.pc = "answer",
                        !.total = Cardinality(DOMAIN db[http.table])]
          /\ UNCHANGED <<db, serial, iot, disturbed>>

\* PageRequest.hasCount: how many rows match, whatever the page.
QueryCount ==
    /\ http.pc = "count"
    /\ UseConnection("http")
    /\ \/ Refused("http", http.table, http.params) /\ Raise
       \/ /\ Runs("http", http.table, http.params)
          /\ \E rows \in Selected(http.table, http.params) :
                http' = [http EXCEPT !.pc = "answer", !.total = Cardinality(rows)]
          /\ UNCHANGED <<db, serial, iot, disturbed>>

Answer ==
    /\ http.pc = "answer"
    /\ Reply("data")
    /\ UNCHANGED <<db, serial, conn, iot, disturbed>>

\* Mutant: without worker.commit() the transaction is rolled back.
CommitForgotten(new, th, acked, failed) ==
    /\ UNCHANGED db
    /\ UseConnection(th) /\ acked

\* A pqxx::work of thread th commits `new'.  When the connection breaks while
\* it commits, the thread is told that it failed, and the rows are stored or not.
Commit(new, th, acked, failed) ==
    \/ db' = new /\ UseConnection(th) /\ acked
    \/ db' \in {new, db} /\ conn' = [conn EXCEPT ![th] = "broken"] /\ failed

\* Mutant: the id of the row is not the one that was drawn for it.
NewIdDrawnTwice(t) == serial[t] + 2

\* The id of a new row: the next of the table's sequence, which knows nothing
\* of the ids that the script gave.
NewId(t) == serial[t] + 1

\* insert: the id is drawn from the sequence, not taken from the request, and
\* lost when the row is refused.  A device's row lacks its registry_id.
Insert ==
    /\ http.pc = "insert"
    /\ \/ http.body = Malformed /\ Raise /\ UNCHANGED conn
       \/ /\ http.body # Malformed
          /\ conn["http"] = "broken" \/ http.body.name = Raw
          /\ Raise /\ UseConnection("http")
       \/ /\ http.body # Malformed /\ conn["http"] # "broken"
          /\ serial[http.table] < MaxId
          /\ serial' = [serial EXCEPT ![http.table] = @ + 1]
          /\ \E n \in Literal(http.body.name) :
                IF Storable(http.table, NewId(http.table), [name |-> n])
                THEN Commit(With(http.table, NewId(http.table), [name |-> n]),
                            "http", Reply("success"), Reply("400"))
                ELSE UseConnection("http") /\ Reply("400") /\ UNCHANGED db
          /\ UNCHANGED <<iot, disturbed>>

\* The rows that "where id = ..", the last line of the statement, may select.
Targets == {http.body.id} \cup IF http.body.name = Raw THEN DOMAIN db["registry"] ELSE {}

\* update: the row is the one the BODY names.  A device's update names a
\* column that the table lacks and is always refused.
Update ==
    /\ http.pc = "update"
    /\ \/ http.body = Malformed /\ Raise /\ UNCHANGED conn
       \/ /\ http.body # Malformed
          /\ conn["http"] = "broken" \/ http.table = "device" \/ http.body.name = Raw
          /\ Raise /\ UseConnection("http")
       \/ /\ http.body # Malformed /\ conn["http"] # "broken" /\ http.table # "device"
          /\ \E i \in Targets, n \in Literal(http.body.name) :
                \/ /\ i \in DOMAIN db["registry"] /\ NameTaken("registry", n, i)
                   /\ Raise /\ UseConnection("http")
                \/ /\ i \in DOMAIN db["registry"] => ~NameTaken("registry", n, i)
                   /\ Commit(IF i \in DOMAIN db["registry"]
                             THEN With("registry", i, [name |-> n]) ELSE db,
                             "http", Reply("success"), Reply("400"))
                   /\ UNCHANGED <<serial, iot, disturbed>>

\* The table of the DELETE statement: DeviceRepository, too, names "registry".
DeleteTable(t) == IF t = "device" THEN "registry" ELSE t

\* Mutant: the rows go, the foreign keys are not looked at.
DeletableAll(t, rows) == TRUE
Deletable(t, rows) == \A i \in rows : ~Referenced(t, i)

DeleteByFilter ==
    /\ http.pc = "deleteByFilter"
    /\ LET t == DeleteTable(http.table)
       IN  \/ Refused("http", t, http.params) /\ Raise /\ UseConnection("http")
           \/ /\ Runs("http", t, http.params)
              /\ \E rows \in Selected(t, http.params) :
                    \/ ~Deletable(t, rows) /\ Raise /\ UseConnection("http")
                    \/ /\ Deletable(t, rows)
                       /\ Commit(Without(t, rows),
                                 "http", Reply("success"), Reply("400"))
                       /\ UNCHANGED <<serial, iot, disturbed>>

-----------------------------------------------------------------------------
(* The IotTelemetry subscriber of RegistryApp::setup.                      *)

\* findOne by the name that the event gives as its deviceId.
FindDevice(n) ==
    /\ iot.pc = "idle"
    /\ UseConnection("iot")
    /\ \/ Refused("iot", "device", [name |-> n]) /\ UNCHANGED iot
       \/ /\ Runs("iot", "device", [name |-> n])
          /\ \E found \in Fetched("device", [name |-> n], 0) :
                IF found = {} \/ ~Readable("device", found)
                THEN UNCHANGED iot
                ELSE \E d \in found : iot' = [pc |-> "store", device |-> d, name |-> n]
    /\ UNCHANGED <<db, serial, http, disturbed>>

\* insert: refused by a broken connection or for an apostrophe in the message,
\* or, with its id drawn, when the device is gone by now.
StoreTelemetry ==
    /\ iot.pc = "store"
    /\ iot' = [pc |-> "idle"]
    /\ \/ UseConnection("iot") /\ UNCHANGED <<db, serial, disturbed>>
       \/ /\ conn["iot"] # "broken" /\ serial["telemetry"] < MaxId
          /\ serial' = [serial EXCEPT !["telemetry"] = @ + 1]
          /\ LET id  == NewId("telemetry")
                 row == [device_id |-> iot.device, from |-> iot.name]
             IN  IF Storable("telemetry", id, row)
                 THEN /\ Commit(With("telemetry", id, row), "iot", TRUE, TRUE)
                      /\ disturbed' = TRUE
                 ELSE UseConnection("iot") /\ UNCHANGED <<db, disturbed>>
    /\ UNCHANGED http

-----------------------------------------------------------------------------
(* The operator at the database, and the server's restarts.                *)

\* A row of the script is inserted again, "ON CONFLICT DO NOTHING": the only way
\* to a device.
Provision(t, i) ==
    /\ Storable(t, i, Script[t][i])
    /\ db' = With(t, i, Script[t][i])
    /\ disturbed' = TRUE
    /\ UNCHANGED <<serial, conn, http, iot>>

Decommission(d) ==
    /\ d \in DOMAIN db["device"] /\ Deletable("device", {d})
    /\ db' = Without("device", {d})
    /\ disturbed' = TRUE
    /\ UNCHANGED <<serial, conn, http, iot>>

Purge(i) ==
    /\ i \in DOMAIN db["telemetry"]
    /\ db' = Without("telemetry", {i})
    /\ disturbed' = TRUE
    /\ UNCHANGED <<serial, conn, http, iot>>

\* The database restarts: cached connections break and are never replaced.
Restart ==
    /\ \E th \in Threads : conn[th] = "open"
    /\ conn' = [th \in Threads |-> IF conn[th] = "open" THEN "broken" ELSE conn[th]]
    /\ UNCHANGED <<db, serial, http, iot, disturbed>>

Http == \/ \E req \in Requests : Receive(req)
        \/ QueryPage \/ QueryRefs \/ QueryCount \/ Answer
        \/ Insert \/ Update \/ DeleteByFilter

Iot == (\E n \in Names \cup {Raw} : FindDevice(n)) \/ StoreTelemetry

Operator ==
    \/ \E t \in Tables : \E i \in DOMAIN Script[t] : Provision(t, i)
    \/ \E i \in Ids : Decommission(i) \/ Purge(i)
    \/ Restart

Next == Http \/ Iot \/ Operator

Spec == Init /\ [][Next]_vars

-----------------------------------------------------------------------------
\* Types; the ids of telemetry were all drawn from its sequence, so that an id
\* drawn for an event is never taken.
TypeOK ==
    /\ DOMAIN db = Tables
    /\ \A t \in Tables : /\ DOMAIN db[t] \subseteq Ids
                         /\ db[t] \in [DOMAIN db[t] -> Row[t]]
    /\ serial \in [Tables -> 0..MaxId]
    /\ DOMAIN db["telemetry"] \subseteq 1..serial["telemetry"]
    /\ conn \in [Threads -> {"none", "open", "broken"}]
    /\ http.reply \in {"none", "data", "success", "message", "400", "404"}
    /\ disturbed \in BOOLEAN

\* A telemetry row belongs to an existing device, the one that had the name
\* in the event when the event was handled, although the look-up and the
\* insert are separate transactions (main.cpp:37-52).  Of an event whose name
\* has an apostrophe only the first is true.
Attribution ==
    \A i \in DOMAIN db["telemetry"] :
        LET row == db["telemetry"][i]
        IN  /\ row.device_id \in DOMAIN db["device"]
            /\ row.from # Raw => db["device"][row.device_id].name = row.from

\* A request without an apostrophe in its parameters removes at most the one
\* row whose id it names: the statement without conditions, which SqlBuilder
\* would build for an empty filter and which deletes the table, is never
\* reached over HTTP.
DeletesAtMostOne ==
    [][http' # http /\ Plain(http.params) =>
          \A t \in Tables : \A i \in DOMAIN db[t] \ DOMAIN db'[t] :
              "id" \in DOMAIN http.params /\ http.params["id"] = i]_vars

PlainRequest ==
    Plain(http.params) /\ (http.body = Malformed \/ http.body.name # Raw)

\* What a reply says is so: without an apostrophe in the request, "success"
\* means that the row is in the table, has its new name, or that no row is left
\* that fits the parameters (for DELETE on devices see DeviceDeleted); and any
\* other reply that the request changed nothing, except a 400 after the
\* connection broke in the middle of a commit.
ReplyIsTrue ==
    [][/\ http.reply = "none" /\ http'.reply = "success" /\ PlainRequest =>
            /\ http.verb = "post" =>
                   \E i \in DOMAIN db'[http.table] \ DOMAIN db[http.table] :
                       db'[http.table][i].name = http.body.name
            /\ http.verb = "put" /\ http.body.id \in DOMAIN db["registry"] =>
                   db'["registry"][http.body.id].name = http.body.name
            /\ http.verb = "delete" /\ http.table # "device" =>
                   Matching(http.table, http.params)' = {}
       /\ http' # http /\ http'.reply # "success" =>
            UNCHANGED db \/ (http'.reply = "400" /\ conn'["http"] = "broken")]_vars

\* A DELETE of a device that is answered "success" has deleted the device:
\* what the page's deleteById("/devices?id=..") and the repository's name say.
DeviceDeleted ==
    [][http.verb = "delete" /\ http.table = "device"
         /\ http.reply = "none" /\ http'.reply = "success" =>
       http.params["id"] \notin DOMAIN db'["device"]]_vars

\* A complete answer of findAll, to a request without an apostrophe during which
\* nobody else committed, is what one query over one state would give: the page,
\* the device of each row, and the number of all rows that match.
ListIsSnapshot ==
    http.reply = "data" /\ ~disturbed /\ "id" \notin DOMAIN http.params
      /\ Plain(http.params) =>
        /\ http.rows = PageOf(http.table, http.params, http.page)
        /\ http.table = "telemetry" => {p[1] : p \in http.refs} = http.rows
        /\ http.total = Cardinality(Matching(http.table, http.params))

\* Also when somebody did, a telemetry row listed without its device is no
\* longer in the table: the second query cannot miss a device otherwise.
NoDeviceMeansGone ==
    http.reply = "data" /\ http.table = "telemetry" =>
        \A i \in http.rows \ {p[1] : p \in http.refs} :
            i \notin DOMAIN db["telemetry"]

\* The tables as one set of rows.
TableRows ==
    UNION {{[table |-> t, id |-> i, cols |-> db[t][i]] : i \in DOMAIN db[t]} :
           t \in Tables}

Schema == INSTANCE RegistryTables WITH rows <- TableRows

\* Whatever the requests, the events and the operator do, in however many
\* statements, with whatever failures, apostrophes and ids that the script gave,
\* nobody ever sees the tables change but by one row that is added or renamed and
\* fits the others, or by rows that nothing refers to and that go
\* (HttpRequestHandler.h:28-77): no row is written over, added twice or left
\* without the row it names.
ImplementsTables == Schema!Spec
=============================================================================
