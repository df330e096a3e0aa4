------------------------- MODULE RegistryStoreProofs ------------------------
(***************************************************************************)
(* Types, attribution, answers and replies of RegistryStore, and that it   *)
(* implements RegistryTables, for any names, script, requests, size of a   *)
(* page and number of rows.                                                *)
(*                                                                         *)
(* Every action is first shown to be a Change of the tables; what all the  *)
(* theorems say of the tables is then shown of a Change, once.             *)
(***************************************************************************)
EXTENDS RegistryStore, TLAPS

\* What the HTTP thread is doing: insert and update are not called for
\* telemetry, and deleteByFilter not without an id.
HttpOK ==
    /\ DOMAIN http = DOMAIN Idle
    /\ http.pc \in {"idle", "findAll", "findOne", "refs", "count", "answer",
                    "insert", "update", "deleteByFilter"}
    /\ http.pc # "idle" => http.table \in Tables /\ http.reply = "none"
    /\ http.pc \in {"insert", "update"} => http.table # "telemetry"
    /\ http.pc = "deleteByFilter" => "id" \in DOMAIN http.params
    /\ http.body = Malformed \/ http.body \in [id : Ids, name : Names \cup {Raw}]
    /\ http.reply \in {"none", "data", "success", "message", "400", "404"}

ConnOK == conn \in [Threads -> {"none", "open", "broken"}]

DataOK ==
    /\ DOMAIN db = Tables
    /\ serial \in [Tables -> 0..MaxId]
    /\ \A t \in Tables : /\ DOMAIN db[t] \subseteq Ids
                         /\ db[t] \in [DOMAIN db[t] -> Row[t]]
    /\ DOMAIN db["telemetry"] \subseteq 1..serial["telemetry"]

\* Devices come from the script only, so that an id always means the same one.
FromScript ==
    \A i \in DOMAIN db["device"] :
        i \in DOMAIN Script["device"] /\ db["device"][i] = Script["device"][i]

\* The device found for an event is one of the script.  While the event is being
\* handled it may go and come back, but with no other name.
Held ==
    /\ iot.pc \in {"idle", "store"}
    /\ iot.pc = "store" =>
          /\ iot.device \in DOMAIN Script["device"] /\ iot.name \in Names \cup {Raw}
          /\ iot.name # Raw => Script["device"][iot.device].name = iot.name

Data == DataOK /\ FromScript /\ Attribution

IInv == HttpOK /\ ConnOK /\ disturbed \in BOOLEAN /\ Held /\ Data

-----------------------------------------------------------------------------
(* What a step may do to the tables.                                       *)

Draws(t) ==
    /\ t \in Tables /\ serial[t] < MaxId
    /\ serial' = [serial EXCEPT ![t] = @ + 1]

\* A row that the table lets in, with the id drawn for it or given with it; a
\* device is the script's, and a telemetry row tells the name of its device.
Adds(t, i, row) ==
    /\ t \in Tables /\ row \in Row[t] /\ Storable(t, i, row)
    /\ \/ Draws(t) /\ i = NewId(t)
       \/ t # "telemetry" /\ i \in Ids /\ UNCHANGED serial
    /\ t = "device" => i \in DOMAIN Script["device"] /\ row = Script["device"][i]
    /\ t = "telemetry" =>
          (row.from # Raw => Script["device"][row.device_id].name = row.from)
    /\ db' = With(t, i, row)

Renames(i, n) ==
    /\ i \in DOMAIN db["registry"] /\ n \in Names /\ ~NameTaken("registry", n, i)
    /\ db' = With("registry", i, [name |-> n])
    /\ UNCHANGED serial

Removes(t, rows) ==
    /\ t \in Tables /\ rows \subseteq DOMAIN db[t] /\ Deletable(t, rows)
    /\ db' = Without(t, rows)
    /\ UNCHANGED serial

Change ==
    \/ UNCHANGED <<db, serial>>
    \/ UNCHANGED db /\ \E t \in Tables : Draws(t)
    \/ \E t, i, row : Adds(t, i, row)
    \/ \E i, n : Renames(i, n)
    \/ \E t, rows : Removes(t, rows)

\* What With and Without do to the rows.
LEMMA WithShape ==
    ASSUME DOMAIN db = Tables, NEW t \in Tables, NEW i, NEW row, db' = With(t, i, row)
    PROVE  /\ DOMAIN db' = Tables
           /\ \A u \in Tables : u # t => db'[u] = db[u]
           /\ db'[t] =
                [j \in DOMAIN db[t] \cup {i} |-> IF j = i THEN row ELSE db[t][j]]
  BY DEF With

LEMMA WithoutShape ==
    ASSUME DOMAIN db = Tables, NEW t \in Tables, NEW rows, db' = Without(t, rows)
    PROVE  /\ DOMAIN db' = Tables
           /\ \A u \in Tables : u # t => db'[u] = db[u]
           /\ db'[t] = [i \in DOMAIN db[t] \ rows |-> db[t][i]]
  BY DEF Without

\* A row that is added or replaced takes none away.
LEMMA NoneLost ==
    ASSUME DOMAIN db = Tables, NEW t \in Tables, NEW i, NEW row, db' = With(t, i, row)
    PROVE  \A u \in Tables : DOMAIN db[u] \subseteq DOMAIN db'[u]
  <1>1. DOMAIN db'[t] = DOMAIN db[t] \cup {i}
    BY WithShape
  <1>2. \A u \in Tables : u # t => db'[u] = db[u]
    BY WithShape
  <1> QED
    BY <1>1, <1>2

\* Rows that are removed are the only ones that change.
LEMMA OthersStay ==
    ASSUME DOMAIN db = Tables, NEW t \in Tables, NEW rows, db' = Without(t, rows),
           NEW u \in Tables
    PROVE  /\ \A j \in DOMAIN db'[u] : j \in DOMAIN db[u] /\ db'[u][j] = db[u][j]
           /\ \A j \in DOMAIN db[u] \ DOMAIN db'[u] : u = t /\ j \in rows
  <1>1. CASE u = t
    <2>1. db'[u] = [i \in DOMAIN db[u] \ rows |-> db[u][i]]
      BY <1>1, WithoutShape
    <2> QED
      BY <1>1, <2>1
  <1>2. CASE u # t
    <2>1. db'[u] = db[u]
      BY <1>2, WithoutShape
    <2> QED
      BY <2>1
  <1> QED
    BY <1>1, <1>2

\* Drawing an id.
LEMMA Drawn ==
    ASSUME DataOK, NEW t, Draws(t)
    PROVE  /\ serial' \in [Tables -> 0..MaxId]
           /\ \A u \in Tables : 1..serial[u] \subseteq 1..serial'[u]
           /\ serial'[t] = NewId(t) /\ NewId(t) \in 1..serial'[t] /\ NewId(t) \in Ids
           /\ NewId(t) \notin 1..serial[t]
  BY BoundsAssumption DEF DataOK, NewId, Draws, Ids

\* Adding, or replacing, a row of the table's type.
LEMMA WithOK ==
    ASSUME DataOK, NEW t \in Tables, NEW i \in Ids, NEW row \in Row[t],
           db' = With(t, i, row), serial' \in [Tables -> 0..MaxId],
           \A u \in Tables : 1..serial[u] \subseteq 1..serial'[u],
           t = "telemetry" => i \in 1..serial'["telemetry"]
    PROVE  DataOK'
  <1>1. /\ DOMAIN db' = Tables
        /\ \A u \in Tables : u # t => db'[u] = db[u]
        /\ db'[t] =
             [j \in DOMAIN db[t] \cup {i} |-> IF j = i THEN row ELSE db[t][j]]
    <2>1. DOMAIN db = Tables
      BY DEF DataOK
    <2> QED
      BY <2>1, WithShape
  <1>2. DOMAIN db'[t] \subseteq Ids /\ db'[t] \in [DOMAIN db'[t] -> Row[t]]
    BY <1>1 DEF DataOK
  <1>3. ASSUME NEW u \in Tables \ {t}
        PROVE  DOMAIN db'[u] \subseteq Ids /\ db'[u] \in [DOMAIN db'[u] -> Row[u]]
    BY <1>1 DEF DataOK
  <1>4. DOMAIN db'["telemetry"] \subseteq 1..serial'["telemetry"]
    <2>1. 1..serial["telemetry"] \subseteq 1..serial'["telemetry"]
      BY DEF Tables
    <2>2. DOMAIN db'["telemetry"] \subseteq
             DOMAIN db["telemetry"] \cup IF t = "telemetry" THEN {i} ELSE {}
      BY <1>1 DEF Tables
    <2> QED
      BY <2>1, <2>2 DEF DataOK
  <1> QED
    BY <1>1, <1>2, <1>3, <1>4 DEF DataOK

LEMMA WithoutOK ==
    ASSUME DataOK, NEW t \in Tables, NEW rows, db' = Without(t, rows),
           UNCHANGED serial
    PROVE  DataOK'
  <1>1. /\ DOMAIN db' = Tables
        /\ \A u \in Tables : u # t => db'[u] = db[u]
        /\ db'[t] = [i \in DOMAIN db[t] \ rows |-> db[t][i]]
    <2>1. DOMAIN db = Tables
      BY DEF DataOK
    <2> QED
      BY <2>1, WithoutShape
  <1>2. DOMAIN db'[t] \subseteq Ids /\ db'[t] \in [DOMAIN db'[t] -> Row[t]]
    BY <1>1 DEF DataOK
  <1>3. DOMAIN db'["telemetry"] \subseteq DOMAIN db["telemetry"]
    BY <1>1 DEF Tables
  <1> QED
    BY <1>1, <1>2, <1>3 DEF DataOK

LEMMA ChangeTypes ==
    ASSUME DataOK, Change
    PROVE  DataOK'
  <1>1. CASE UNCHANGED <<db, serial>>
    BY <1>1 DEF DataOK
  <1>2. ASSUME NEW t, Draws(t), UNCHANGED db
        PROVE  DataOK'
    <2>1. "telemetry" \in Tables
      BY DEF Tables
    <2>2. 1..serial["telemetry"] \subseteq 1..serial'["telemetry"]
      BY <1>2, <2>1, Drawn
    <2> QED
      BY <1>2, <2>2, Drawn DEF DataOK
  <1>3. ASSUME NEW t, NEW i, NEW row, Adds(t, i, row)
        PROVE  DataOK'
    <2>1. t \in Tables /\ row \in Row[t] /\ db' = With(t, i, row)
      BY <1>3 DEF Adds
    <2>2. CASE Draws(t) /\ i = NewId(t)
      BY <2>1, <2>2, Drawn, WithOK
    <2>3. CASE t # "telemetry" /\ i \in Ids /\ UNCHANGED serial
      BY <2>1, <2>3, WithOK DEF DataOK
    <2> QED
      BY <1>3, <2>2, <2>3 DEF Adds
  <1>4. ASSUME NEW i, NEW n, Renames(i, n)
        PROVE  DataOK'
    <2>1. "registry" \in Tables /\ i \in Ids /\ [name |-> n] \in Row["registry"]
      BY <1>4 DEF Renames, DataOK, Tables, Row
    <2>2. serial' = serial /\ db' = With("registry", i, [name |-> n])
      BY <1>4 DEF Renames
    <2> HIDE DEF Row
    <2> QED
      BY <2>1, <2>2, WithOK DEF DataOK
  <1>5. ASSUME NEW t, NEW rows, Removes(t, rows)
        PROVE  DataOK'
    BY <1>5, WithoutOK DEF Removes
  <1> QED
    BY <1>1, <1>2, <1>3, <1>4, <1>5 DEF Change

\* Devices come and go as the script has them.
LEMMA ChangeDevices ==
    ASSUME DataOK, FromScript, Change
    PROVE  FromScript'
  <1>1. DOMAIN db = Tables /\ "device" \in Tables /\ "registry" \in Tables
    BY DEF DataOK, Tables
  <1>2. CASE UNCHANGED db
    BY <1>2 DEF FromScript
  <1>3. ASSUME NEW t, NEW i, NEW row, Adds(t, i, row)
        PROVE  FromScript'
    <2>1. /\ t \in Tables /\ db' = With(t, i, row)
          /\ t = "device" => i \in DOMAIN Script["device"] /\ row = Script["device"][i]
      BY <1>3 DEF Adds
    <2>2. CASE t = "device"
      <3>1. db'["device"] = [j \in DOMAIN db["device"] \cup {i} |->
                               IF j = i THEN row ELSE db["device"][j]]
        BY <1>1, <2>1, <2>2, WithShape
      <3> QED
        BY <2>1, <2>2, <3>1 DEF FromScript
    <2>3. CASE t # "device"
      <3>1. db'["device"] = db["device"]
        BY <1>1, <2>1, <2>3, WithShape
      <3> QED
        BY <3>1 DEF FromScript
    <2> QED
      BY <2>2, <2>3
  <1>4. ASSUME NEW i, NEW n, Renames(i, n)
        PROVE  FromScript'
    <2>1. db'["device"] = db["device"]
      BY <1>1, <1>4, WithShape DEF Renames
    <2> QED
      BY <2>1 DEF FromScript
  <1>5. ASSUME NEW t, NEW rows, Removes(t, rows)
        PROVE  FromScript'
    <2>1. \A j \in DOMAIN db'["device"] :
             j \in DOMAIN db["device"] /\ db'["device"][j] = db["device"][j]
      BY <1>1, <1>5, OthersStay DEF Removes
    <2> QED
      BY <2>1 DEF FromScript
  <1> QED
    BY <1>2, <1>3, <1>4, <1>5 DEF Change

\* A telemetry row comes under an id that was never there, and does not change.
LEMMA ChangeTelemetry ==
    ASSUME DataOK, Change
    PROVE  /\ 1..serial["telemetry"] \subseteq 1..serial'["telemetry"]
           /\ \A i \in DOMAIN db'["telemetry"] :
                 \/ /\ i \notin 1..serial["telemetry"]
                    /\ \E row : Adds("telemetry", i, row)
                 \/ i \in DOMAIN db["telemetry"] /\ db'["telemetry"][i] = db["telemetry"][i]
  <1> DEFINE Grown == 1..serial["telemetry"] \subseteq 1..serial'["telemetry"]
             Kept(i) == i \in DOMAIN db["telemetry"]
                        /\ db'["telemetry"][i] = db["telemetry"][i]
             New(i) == i \notin 1..serial["telemetry"] /\ \E row : Adds("telemetry", i, row)
  <1>1. DOMAIN db = Tables /\ "telemetry" \in Tables /\ "registry" \in Tables
    BY DEF DataOK, Tables
  <1>2. ASSUME UNCHANGED db
        PROVE  \A i \in DOMAIN db'["telemetry"] : Kept(i)
    BY <1>2
  <1>3. ASSUME NEW t, NEW i, NEW row, Adds(t, i, row)
        PROVE  Grown /\ \A j \in DOMAIN db'["telemetry"] : New(j) \/ Kept(j)
    <2>1. t \in Tables /\ db' = With(t, i, row)
      BY <1>3 DEF Adds
    <2>2. Grown
      BY <1>1, <1>3, Drawn DEF Adds
    <2>3. CASE t = "telemetry"
      <3>1. New(i)
        BY <1>3, <2>3, Drawn DEF Adds
      <3>2. db'["telemetry"] = [j \in DOMAIN db["telemetry"] \cup {i} |->
                                  IF j = i THEN row ELSE db["telemetry"][j]]
        BY <1>1, <2>1, <2>3, WithShape
      <3>3. \A j \in DOMAIN db'["telemetry"] : j = i \/ Kept(j)
        BY <3>2
      <3> QED
        BY <2>2, <3>1, <3>3
    <2>4. CASE t # "telemetry"
      <3>1. db'["telemetry"] = db["telemetry"]
        BY <1>1, <2>1, <2>4, WithShape
      <3> QED
        BY <2>2, <3>1
    <2> QED
      BY <2>3, <2>4
  <1>4. ASSUME NEW i, NEW n, Renames(i, n)
        PROVE  Grown /\ \A j \in DOMAIN db'["telemetry"] : Kept(j)
    <2>1. serial' = serial /\ db'["telemetry"] = db["telemetry"]
      BY <1>1, <1>4, WithShape DEF Renames
    <2> QED
      BY <2>1
  <1>5. ASSUME NEW t, NEW rows, Removes(t, rows)
        PROVE  Grown /\ \A j \in DOMAIN db'["telemetry"] : Kept(j)
    <2>1. serial' = serial /\ \A j \in DOMAIN db'["telemetry"] : Kept(j)
      BY <1>1, <1>5, OthersStay DEF Removes
    <2> QED
      BY <2>1
  <1>6. CASE UNCHANGED <<db, serial>>
    BY <1>2, <1>6
  <1>7. ASSUME NEW t, Draws(t), UNCHANGED db
        PROVE  Grown
    BY <1>1, <1>7, Drawn
  <1>8. Grown /\ \A i \in DOMAIN db'["telemetry"] : New(i) \/ Kept(i)
    <2>1. CASE UNCHANGED db /\ \E t \in Tables : Draws(t)
      BY <1>2, <1>7, <2>1
    <2>2. CASE \E t, i, row : Adds(t, i, row)
      BY <1>3, <2>2
    <2>3. CASE (\E i, n : Renames(i, n)) \/ (\E t, rows : Removes(t, rows))
      BY <1>4, <1>5, <2>3
    <2> QED
      BY <1>6, <2>1, <2>2, <2>3 DEF Change
  <1> QED
    BY <1>8 DEF Grown, Kept, New

\* A device with telemetry cannot be removed.
LEMMA ChangeAttribution ==
    ASSUME Data, Change
    PROVE  Attribution'
  <1>1. DataOK /\ FromScript /\ Attribution /\ FromScript'
    BY ChangeDevices DEF Data
  <1>2. DOMAIN db = Tables /\ "telemetry" \in Tables /\ "device" \in Tables
        /\ "registry" \in Tables
    BY <1>1 DEF DataOK, Tables
  <1>3. ASSUME NEW d \in DOMAIN db["device"] \ DOMAIN db'["device"],
               NEW j \in DOMAIN db["telemetry"]
        PROVE  db["telemetry"][j].device_id # d
    <2>1. ASSUME NEW t, NEW i, NEW row, Adds(t, i, row)
          PROVE  FALSE
      BY <1>2, <1>3, <2>1, NoneLost DEF Adds
    <2>2. ASSUME NEW i, NEW n, Renames(i, n)
          PROVE  FALSE
      BY <1>2, <1>3, <2>2, NoneLost DEF Renames
    <2>3. PICK t, rows : Removes(t, rows)
      BY <1>3, <2>1, <2>2 DEF Change
    <2>4. t = "device" /\ d \in rows
      BY <1>2, <1>3, <2>3, OthersStay DEF Removes
    <2>5. ~Referenced("device", d)
      BY <2>3, <2>4 DEF Removes, Deletable
    <2>6. <<"telemetry", "device_id", "device">> \in References
      BY DEF References
    <2>7. db["telemetry"][j]["device_id"] # d
      BY <2>5, <2>6 DEF Referenced
    <2> QED
      BY <2>7
  <1>4. ASSUME NEW i \in DOMAIN db["telemetry"],
               i \in DOMAIN db'["telemetry"],
               db'["telemetry"][i] = db["telemetry"][i]
        PROVE  LET row == db'["telemetry"][i]
               IN  /\ row.device_id \in DOMAIN db'["device"]
                   /\ row.from # Raw => db'["device"][row.device_id].name = row.from
    <2> DEFINE row == db["telemetry"][i]
    <2>1. /\ row.device_id \in DOMAIN db["device"]
          /\ row.from # Raw => db["device"][row.device_id].name = row.from
      BY <1>1 DEF Attribution
    <2>2. row.device_id \in DOMAIN db'["device"]
      BY <1>3, <2>1
    <2>3. db'["device"][row.device_id] = db["device"][row.device_id]
      BY <1>1, <2>1, <2>2 DEF FromScript
    <2> QED
      BY <1>4, <2>1, <2>2, <2>3
  <1>5. ASSUME NEW i, NEW row, Adds("telemetry", i, row)
        PROVE  LET new == db'["telemetry"][i]
               IN  /\ new.device_id \in DOMAIN db'["device"]
                   /\ new.from # Raw => db'["device"][new.device_id].name = new.from
    <2>1. db' = With("telemetry", i, row)
      BY <1>5 DEF Adds
    <2>d. db'["device"] = db["device"]
      BY <1>2, <2>1, WithShape
    <2>t. db'["telemetry"][i] = row
      <3>1. db'["telemetry"] = [j \in DOMAIN db["telemetry"] \cup {i} |->
                                  IF j = i THEN row ELSE db["telemetry"][j]]
        BY <1>2, <2>1, WithShape
      <3> QED
        BY <3>1
    <2>2. /\ row.device_id \in DOMAIN db["device"]
          /\ row.from # Raw => Script["device"][row.device_id].name = row.from
      BY <1>5 DEF Adds, Storable
    <2> QED
      BY <1>1, <2>d, <2>t, <2>2 DEF FromScript
  <1>6. \A i \in DOMAIN db'["telemetry"] :
           \/ \E row : Adds("telemetry", i, row)
           \/ i \in DOMAIN db["telemetry"] /\ db'["telemetry"][i] = db["telemetry"][i]
    BY <1>1, ChangeTelemetry
  <1> QED
    BY <1>4, <1>5, <1>6 DEF Attribution

LEMMA ChangeData ==
    ASSUME Data, Change
    PROVE  Data'
  BY ChangeTypes, ChangeDevices, ChangeAttribution DEF Data

-----------------------------------------------------------------------------
(* The HTTP thread.                                                        *)

Asks == \/ \E req \in Requests : Receive(req)
        \/ QueryPage \/ QueryRefs \/ QueryCount \/ Answer

Answered == \E r \in {"success", "400"} : Reply(r)

\* What became of a transaction.
Outcome(new) ==
    \/ db' = new /\ http'.reply = "success"
    \/ db' \in {new, db} /\ http'.reply = "400" /\ conn'["http"] = "broken"

LEMMA ReplyOK ==
    ASSUME HttpOK, NEW r \in {"data", "success", "400"}, Reply(r)
    PROVE  HttpOK' /\ http'.reply = r
  BY DEF HttpOK, Reply, Idle

LEMMA UseOK ==
    ASSUME ConnOK, NEW th \in Threads, UseConnection(th)
    PROVE  ConnOK'
  BY DEF ConnOK, UseConnection

\* A transaction succeeds or fails; either way the request is answered.
LEMMA CommitHttp ==
    ASSUME HttpOK, ConnOK, NEW new, Commit(new, "http", Reply("success"), Reply("400"))
    PROVE  HttpOK' /\ ConnOK' /\ Answered /\ Outcome(new)
  <1>1. CASE db' = new /\ UseConnection("http") /\ Reply("success")
    BY <1>1, ReplyOK, UseOK DEF Threads, Answered, Outcome
  <1>2. CASE /\ db' \in {new, db} /\ conn' = [conn EXCEPT !["http"] = "broken"]
             /\ Reply("400")
    <2>1. ConnOK' /\ conn'["http"] = "broken"
      BY <1>2 DEF ConnOK, Threads
    <2> QED
      BY <1>2, <2>1, ReplyOK DEF Answered, Outcome
  <1> QED
    BY <1>1, <1>2 DEF Commit

\* A statement that raises.
LEMMA RaiseDoes ==
    ASSUME HttpOK, ConnOK, Raise, UNCHANGED conn \/ UseConnection("http")
    PROVE  /\ HttpOK' /\ ConnOK' /\ Answered /\ http'.reply = "400"
           /\ UNCHANGED <<db, serial, iot, disturbed>>
  <1>1. ConnOK'
    BY UseOK DEF Threads, ConnOK
  <1> QED
    BY <1>1, ReplyOK DEF Raise, Answered

LEMMA ReceiveDoes ==
    ASSUME HttpOK, NEW req \in Requests, Receive(req)
    PROVE  /\ HttpOK' /\ UNCHANGED <<db, serial, conn, iot>>
           /\ disturbed' = FALSE /\ http'.reply \notin {"success", "data"}
  <1>1. /\ req.path \in {"registries", "devices", "devices-telemetry"}
        /\ req.verb \in {"get", "put", "post", "delete"}
        /\ req.body = Malformed \/ req.body \in [id : Ids, name : Names \cup {Raw}]
    BY RequestsAssumption DEF HttpRequests
  <1>2. /\ Handler(req) \in {"findAll", "findOne", "insert", "update",
                             "deleteByFilter", "notFound", "default"}
        /\ Handler(req) \in {"insert", "update"} => req.path # "devices-telemetry"
        /\ Handler(req) = "deleteByFilter" => "id" \in DOMAIN req.params
    BY <1>1 DEF Handler
  <1>3. /\ TableOf(req.path) \in Tables
        /\ req.path # "devices-telemetry" => TableOf(req.path) # "telemetry"
    BY <1>1 DEF TableOf, Tables
  <1>4. HttpOK'
    BY <1>1, <1>2, <1>3 DEF Receive, HttpOK, Idle
  <1> QED
    BY <1>4 DEF Receive, Idle

\* The statements that only read.
LEMMA QueryDoes ==
    ASSUME HttpOK, ConnOK, QueryPage \/ QueryRefs \/ QueryCount \/ Answer
    PROVE  /\ HttpOK' /\ ConnOK' /\ UNCHANGED <<db, serial, iot, disturbed>>
           /\ http'.reply # "success"
  <1>1. CASE Answer
    BY <1>1, ReplyOK DEF Answer, ConnOK
  <1>2. CASE QueryPage
    <2>1. UseConnection("http") /\ http.reply = "none"
      BY <1>2 DEF QueryPage, HttpOK
    <2>2. CASE Raise
      BY <2>1, <2>2, RaiseDoes
    <2>3. ASSUME NEW rows, NEW refs, NEW pc \in {"refs", "count", "answer"},
                 http' = [http EXCEPT !.rows = rows, !.refs = refs, !.pc = pc],
                 UNCHANGED <<db, serial, iot, disturbed>>
          PROVE  /\ HttpOK' /\ ConnOK' /\ UNCHANGED <<db, serial, iot, disturbed>>
                 /\ http'.reply # "success"
      BY <1>2, <2>1, <2>3, UseOK DEF QueryPage, HttpOK, Idle, Threads
    <2> DEFINE Refs(rows) ==
                 IF http.table = "telemetry"
                 THEN {<<i, db["telemetry"][i].device_id>> : i \in rows} ELSE {}
               Pc(rows) ==
                 IF http.table = "telemetry" /\ rows # {} THEN "refs"
                 ELSE IF http.pc = "findAll" THEN "count" ELSE "answer"
    <2>4. CASE ~Raise
      <3>1. \E rows : /\ http' = [http EXCEPT !.rows = rows, !.refs = Refs(rows),
                                              !.pc = Pc(rows)]
                      /\ UNCHANGED <<db, serial, iot, disturbed>>
        BY <1>2, <2>4 DEF QueryPage
      <3>2. \A rows : Pc(rows) \in {"refs", "count", "answer"}
        OBVIOUS
      <3> HIDE DEF Refs, Pc
      <3> QED
        BY <2>3, <3>1, <3>2
    <2> QED
      BY <2>2, <2>4
  <1>3. CASE QueryRefs
    <2>1. UseConnection("http") /\ http.reply = "none"
      BY <1>3 DEF QueryRefs, HttpOK
    <2>2. CASE Raise
      BY <2>1, <2>2, RaiseDoes
    <2>3. CASE ~Raise
      <3>1. PICK refs, pc :
                /\ http' = [http EXCEPT !.refs = refs, !.pc = pc]
                /\ pc = IF "id" \in DOMAIN http.params THEN "answer" ELSE "count"
                /\ UNCHANGED <<db, serial, iot, disturbed>>
        BY <1>3, <2>3 DEF QueryRefs
      <3> QED
        BY <1>3, <2>1, <3>1, UseOK DEF QueryRefs, HttpOK, Idle, Threads
    <2> QED
      BY <2>2, <2>3
  <1>4. CASE QueryCount
    <2>1. UseConnection("http") /\ http.reply = "none"
      BY <1>4 DEF QueryCount, HttpOK
    <2>2. CASE Raise
      BY <2>1, <2>2, RaiseDoes
    <2>3. CASE ~Raise
      <3>1. PICK n : /\ http' = [http EXCEPT !.pc = "answer", !.total = n]
                     /\ UNCHANGED <<db, serial, iot, disturbed>>
        BY <1>4, <2>3 DEF QueryCount
      <3> QED
        BY <1>4, <2>1, <3>1, UseOK DEF QueryCount, HttpOK, Idle, Threads
    <2> QED
      BY <2>2, <2>3
  <1> QED
    BY <1>1, <1>2, <1>3, <1>4

\* A name, as it may be read.
LEMMA LiteralNames ==
    ASSUME NEW v \in Names \cup {Raw}
    PROVE  /\ Literal(v) \subseteq Names
           /\ v # Raw => Literal(v) = {v}
  BY DEF Literal

\* insert, of a registry with the id drawn or of nothing: a device's row, without
\* its registry, is never let in.
Inserted(n) ==
    /\ http.table = "registry" /\ Draws("registry")
    /\ Storable("registry", NewId("registry"), [name |-> n])
    /\ Outcome(With("registry", NewId("registry"), [name |-> n]))

LEMMA InsertDoes ==
    ASSUME HttpOK, ConnOK, DataOK, Insert
    PROVE  /\ HttpOK' /\ ConnOK' /\ Answered /\ UNCHANGED <<iot, disturbed>>
           /\ \/ /\ http'.reply = "400" /\ UNCHANGED db
                 /\ UNCHANGED serial \/ Draws(http.table)
              \/ http.body # Malformed /\ \E n \in Literal(http.body.name) : Inserted(n)
  <1>1. http.table \in {"registry", "device"} /\ http.table \in Tables
    BY DEF Insert, HttpOK, Tables
  <1>2. CASE Raise /\ (UNCHANGED conn \/ UseConnection("http"))
    BY <1>2, RaiseDoes
  <1>3. ASSUME http.body # Malformed, Draws(http.table), UNCHANGED <<iot, disturbed>>,
               NEW n \in Literal(http.body.name),
               IF Storable(http.table, NewId(http.table), [name |-> n])
               THEN Commit(With(http.table, NewId(http.table), [name |-> n]),
                           "http", Reply("success"), Reply("400"))
               ELSE UseConnection("http") /\ Reply("400") /\ UNCHANGED db
        PROVE  /\ HttpOK' /\ ConnOK' /\ Answered
               /\ \/ http'.reply = "400" /\ UNCHANGED db
                  \/ Inserted(n)
    <2>1. CASE Storable(http.table, NewId(http.table), [name |-> n])
      <3>1. http.table = "registry"
        <4>1. "registry_id" \notin DOMAIN [name |-> n]
          OBVIOUS
        <4> QED
          BY <1>1, <2>1, <4>1 DEF Storable
      <3>2. Commit(With("registry", NewId("registry"), [name |-> n]),
                   "http", Reply("success"), Reply("400"))
        BY <1>3, <2>1, <3>1
      <3> QED
        BY <1>3, <2>1, <3>1, <3>2, CommitHttp DEF Inserted
    <2>2. CASE ~Storable(http.table, NewId(http.table), [name |-> n])
      BY <1>3, <2>2, ReplyOK, UseOK DEF Threads, Answered
    <2> QED
      BY <2>1, <2>2
  <1>4. CASE /\ http.body # Malformed /\ Draws(http.table) /\ UNCHANGED <<iot, disturbed>>
             /\ \E n \in Literal(http.body.name) :
                   IF Storable(http.table, NewId(http.table), [name |-> n])
                   THEN Commit(With(http.table, NewId(http.table), [name |-> n]),
                               "http", Reply("success"), Reply("400"))
                   ELSE UseConnection("http") /\ Reply("400") /\ UNCHANGED db
    BY <1>3, <1>4
  <1> QED
    BY <1>1, <1>2, <1>4 DEF Insert, Draws

\* update: only a registry's row is ever changed.
Updated(i, n) ==
    /\ i \in DOMAIN db["registry"] => ~NameTaken("registry", n, i)
    /\ Outcome(IF i \in DOMAIN db["registry"]
               THEN With("registry", i, [name |-> n]) ELSE db)

LEMMA UpdateDoes ==
    ASSUME HttpOK, ConnOK, Update
    PROVE  /\ HttpOK' /\ ConnOK' /\ Answered /\ UNCHANGED <<serial, iot, disturbed>>
           /\ \/ http'.reply = "400" /\ UNCHANGED db
              \/ http.body # Malformed
                 /\ \E i \in Targets, n \in Literal(http.body.name) : Updated(i, n)
  <1>1. CASE Raise /\ (UNCHANGED conn \/ UseConnection("http"))
    BY <1>1, RaiseDoes
  <1>2. ASSUME NEW i, NEW n,
               i \in DOMAIN db["registry"] => ~NameTaken("registry", n, i),
               Commit(IF i \in DOMAIN db["registry"]
                      THEN With("registry", i, [name |-> n]) ELSE db,
                      "http", Reply("success"), Reply("400"))
        PROVE  HttpOK' /\ ConnOK' /\ Answered /\ Updated(i, n)
    BY <1>2, CommitHttp DEF Updated
  <1> QED
    BY <1>1, <1>2 DEF Update

\* deleteByFilter removes registries or telemetry, never a device.
LEMMA DeleteDoes ==
    ASSUME HttpOK, ConnOK, DeleteByFilter
    PROVE  /\ HttpOK' /\ ConnOK' /\ Answered /\ UNCHANGED <<serial, iot, disturbed>>
           /\ "id" \in DOMAIN http.params
           /\ DeleteTable(http.table) \in {"registry", "telemetry"}
           /\ \/ http'.reply = "400" /\ UNCHANGED db
              \/ \E rows \in Selected(DeleteTable(http.table), http.params) :
                    /\ Deletable(DeleteTable(http.table), rows)
                    /\ Outcome(Without(DeleteTable(http.table), rows))
  <1> DEFINE t == DeleteTable(http.table)
  <1>1. "id" \in DOMAIN http.params /\ t \in {"registry", "telemetry"}
    BY DEF DeleteByFilter, HttpOK, DeleteTable, Tables
  <1> HIDE DEF t
  <1>2. CASE Raise /\ UseConnection("http")
    BY <1>1, <1>2, RaiseDoes DEF t
  <1>3. ASSUME NEW rows \in Selected(t, http.params), Deletable(t, rows),
               Commit(Without(t, rows), "http", Reply("success"), Reply("400")),
               UNCHANGED <<serial, iot, disturbed>>
        PROVE  HttpOK' /\ ConnOK' /\ Answered /\ Outcome(Without(t, rows))
    BY <1>3, CommitHttp
  <1> QED
    BY <1>1, <1>2, <1>3 DEF DeleteByFilter, t

LEMMA SelectedRows ==
    ASSUME NEW t, NEW filter, NEW rows \in Selected(t, filter)
    PROVE  rows \subseteq DOMAIN db[t] /\ (Plain(filter) => rows = Matching(t, filter))
  BY DEF Selected, Matching

\* A transaction of a request leaves what it should leave, or what was there.
LEMMA HttpChange ==
    ASSUME IInv, Http
    PROVE  HttpOK' /\ ConnOK' /\ disturbed' \in BOOLEAN /\ UNCHANGED iot /\ Change
  <1>1. HttpOK /\ ConnOK /\ DataOK /\ disturbed \in BOOLEAN /\ DOMAIN db = Tables
    BY DEF IInv, Data, DataOK
  <1>2. "registry" \in Tables /\ "telemetry" \in Tables
    BY DEF Tables
  <1>3. CASE Asks
    BY <1>1, <1>3, ReceiveDoes, QueryDoes DEF Asks, Change, ConnOK
  <1>4. CASE Insert
    <2>1. http.table \in Tables
      BY <1>1, <1>4 DEF Insert, HttpOK
    <2>2. ASSUME http.body # Malformed, NEW n \in Literal(http.body.name), Inserted(n)
          PROVE  Change
      <3>1. http.body.name \in Names \cup {Raw}
        BY <1>1, <2>2 DEF HttpOK
      <3>2. n \in Names
        BY <3>1, LiteralNames
      <3> DEFINE row == [name |-> n]
      <3>3. row \in Row["registry"]
        BY <3>2 DEF Row
      <3>4. /\ Draws("registry") /\ Storable("registry", NewId("registry"), row)
            /\ db' = With("registry", NewId("registry"), row) \/ UNCHANGED db
        BY <2>2 DEF Inserted, Outcome
      <3> HIDE DEF row
      <3>5. CASE db' = With("registry", NewId("registry"), row)
        <4>1. Adds("registry", NewId("registry"), row)
          BY <1>2, <3>3, <3>4, <3>5 DEF Adds
        <4> QED
          BY <4>1 DEF Change
      <3> QED
        BY <1>2, <3>4, <3>5 DEF Change
    <2> QED
      BY <1>1, <1>4, <2>1, <2>2, InsertDoes DEF Change
  <1>5. CASE Update
    <2>1. ASSUME http.body # Malformed, NEW i, NEW n \in Literal(http.body.name),
                 Updated(i, n), UNCHANGED serial
          PROVE  Change
      <3>1. http.body.name \in Names \cup {Raw}
        BY <1>1, <2>1 DEF HttpOK
      <3>2. n \in Names
        BY <3>1, LiteralNames
      <3>3. UNCHANGED db \/ Renames(i, n)
        BY <2>1, <3>2 DEF Updated, Outcome, Renames
      <3> QED
        BY <2>1, <3>3 DEF Change
    <2> QED
      BY <1>1, <1>5, <2>1, UpdateDoes DEF Change
  <1>6. CASE DeleteByFilter
    <2> DEFINE t == DeleteTable(http.table)
    <2>1. /\ HttpOK' /\ ConnOK' /\ UNCHANGED <<serial, iot, disturbed>>
          /\ t \in {"registry", "telemetry"}
          /\ \/ UNCHANGED db
             \/ \E rows \in Selected(t, http.params) :
                   Deletable(t, rows) /\ Outcome(Without(t, rows))
      BY <1>1, <1>6, DeleteDoes
    <2> HIDE DEF t
    <2>2. ASSUME NEW rows \in Selected(t, http.params),
                 Deletable(t, rows), Outcome(Without(t, rows))
          PROVE  UNCHANGED db \/ Removes(t, rows)
      BY <1>2, <2>1, <2>2, SelectedRows DEF Outcome, Removes
    <2> QED
      BY <1>1, <2>1, <2>2 DEF Change
  <1> QED
    BY <1>3, <1>4, <1>5, <1>6 DEF Http, Asks

-----------------------------------------------------------------------------
(* The telemetry thread and the operator.                                  *)

\* The device found is one of the script, with the name in the event.
LEMMA FindDeviceHeld ==
    ASSUME IInv, NEW n \in Names \cup {Raw}, FindDevice(n)
    PROVE  Held'
  <1>1. Held /\ DataOK /\ FromScript
    BY DEF IInv, Data
  <1>2. CASE UNCHANGED iot
    BY <1>1, <1>2 DEF Held
  <1>3. ASSUME NEW found \in Fetched("device", [name |-> n], 0), NEW d \in found,
               iot' = [pc |-> "store", device |-> d, name |-> n]
        PROVE  Held'
    <2>1. d \in DOMAIN db["device"]
      BY <1>3 DEF Fetched, PageOf, Matching
    <2>2. ASSUME n # Raw
          PROVE  db["device"][d].name = n
      <3>1. Plain([name |-> n])
        BY <2>2 DEF Plain
      <3>2. d \in Matching("device", [name |-> n])
        BY <1>3, <3>1 DEF Fetched, PageOf
      <3>3. Column("device", d, "name") = n
        BY <3>2 DEF Matching
      <3> QED
        BY <3>3 DEF Column
    <2>3. d \in DOMAIN Script["device"] /\ db["device"][d] = Script["device"][d]
      BY <1>1, <2>1 DEF FromScript
    <2> QED
      BY <1>3, <2>2, <2>3 DEF Held
  <1> QED
    BY <1>2, <1>3 DEF FindDevice

\* The row stored names a device that is there, by the name in the event.
LEMMA StoreTelemetryChange ==
    ASSUME IInv, StoreTelemetry
    PROVE  Held' /\ ConnOK' /\ disturbed' \in BOOLEAN /\ UNCHANGED http /\ Change
  <1>1. ConnOK /\ disturbed \in BOOLEAN /\ Held
    BY DEF IInv
  <1>2. iot.pc = "store" /\ iot' = [pc |-> "idle"] /\ UNCHANGED http /\ Held'
    BY DEF StoreTelemetry, Held
  <1>3. CASE UseConnection("iot") /\ UNCHANGED <<db, serial, disturbed>>
    BY <1>1, <1>2, <1>3, UseOK DEF Threads, Change
  <1> DEFINE id  == NewId("telemetry")
             row == [device_id |-> iot.device, from |-> iot.name]
  <1>4. row \in Row["telemetry"]
    <2>1. iot.device \in Ids /\ iot.name \in Names \cup {Raw}
      BY <1>1, <1>2, ScriptAssumption DEF Held, Tables
    <2> QED
      BY <2>1 DEF Row
  <1>5. row.device_id = iot.device /\ row.from = iot.name
    OBVIOUS
  <1>6. ASSUME Draws("telemetry"),
               IF Storable("telemetry", id, row)
               THEN /\ Commit(With("telemetry", id, row), "iot", TRUE, TRUE)
                    /\ disturbed' = TRUE
               ELSE UseConnection("iot") /\ UNCHANGED <<db, disturbed>>
        PROVE  ConnOK' /\ disturbed' \in BOOLEAN /\ Change
    <2> HIDE DEF row, id
    <2>1. CASE Storable("telemetry", id, row)
      <3>1. ConnOK' /\ (db' = With("telemetry", id, row) \/ UNCHANGED db)
        BY <1>1, <1>6, <2>1 DEF Commit, UseConnection, ConnOK, Threads
      <3>2. CASE db' = With("telemetry", id, row)
        <4>1. "telemetry" \in Tables
          BY DEF Tables
        <4>2. Adds("telemetry", id, row)
          BY <1>1, <1>2, <1>4, <1>5, <1>6, <2>1, <3>2, <4>1 DEF Adds, Held, id
        <4> QED
          BY <1>6, <2>1, <3>1, <4>2 DEF Change
      <3>3. CASE UNCHANGED db
        BY <1>6, <2>1, <3>1, <3>3 DEF Change, Draws
      <3> QED
        BY <3>1, <3>2, <3>3
    <2>2. CASE ~Storable("telemetry", id, row)
      BY <1>1, <1>6, <2>2, UseOK DEF Threads, Change, Draws
    <2> QED
      BY <2>1, <2>2
  <1>7. CASE ~(UseConnection("iot") /\ UNCHANGED <<db, serial, disturbed>>)
    <2>1. "telemetry" \in Tables
      BY DEF Tables
    <2> QED
      BY <1>2, <1>6, <1>7, <2>1 DEF StoreTelemetry, Draws
  <1> QED
    BY <1>3, <1>7

LEMMA IotChange ==
    ASSUME IInv, Iot
    PROVE  Held' /\ ConnOK' /\ disturbed' \in BOOLEAN /\ UNCHANGED http /\ Change
  <1>1. ASSUME NEW n \in Names \cup {Raw}, FindDevice(n)
        PROVE  Held' /\ ConnOK' /\ disturbed' \in BOOLEAN /\ UNCHANGED http /\ Change
    <2>1. /\ UNCHANGED <<db, serial, http, disturbed>> /\ UseConnection("iot")
      BY <1>1 DEF FindDevice
    <2> QED
      BY <1>1, <2>1, FindDeviceHeld, UseOK DEF IInv, Threads, Change
  <1> QED
    BY <1>1, StoreTelemetryChange DEF Iot

\* The operator's statements are single transactions.
LEMMA OperatorChange ==
    ASSUME IInv, Operator
    PROVE  ConnOK' /\ disturbed' \in BOOLEAN /\ UNCHANGED <<http, iot>> /\ Change
  <1>1. ConnOK /\ disturbed \in BOOLEAN
    BY DEF IInv
  <1>2. ASSUME NEW t \in Tables, NEW i \in DOMAIN Script[t], Provision(t, i)
        PROVE  ConnOK' /\ disturbed' \in BOOLEAN /\ UNCHANGED <<http, iot>> /\ Change
    <2>1. t # "telemetry" /\ i \in Ids /\ Script[t][i] \in Row[t]
      BY ScriptAssumption
    <2>2. Adds(t, i, Script[t][i])
      BY <1>2, <2>1 DEF Provision, Adds
    <2> QED
      BY <1>1, <1>2, <2>2 DEF Provision, ConnOK, Change
  <1>3. ASSUME NEW d, Decommission(d)
        PROVE  ConnOK' /\ disturbed' \in BOOLEAN /\ UNCHANGED <<http, iot>> /\ Change
    <2>1. Removes("device", {d})
      BY <1>3 DEF Decommission, Removes, Tables
    <2> QED
      BY <1>1, <1>3, <2>1 DEF Decommission, ConnOK, Change
  <1>4. ASSUME NEW i, Purge(i)
        PROVE  ConnOK' /\ disturbed' \in BOOLEAN /\ UNCHANGED <<http, iot>> /\ Change
    <2>1. Deletable("telemetry", {i})
      BY DEF Deletable, Referenced, References
    <2>2. Removes("telemetry", {i})
      BY <1>4, <2>1 DEF Purge, Removes, Tables
    <2> QED
      BY <1>1, <1>4, <2>2 DEF Purge, ConnOK, Change
  <1>5. CASE Restart
    BY <1>1, <1>5 DEF Restart, ConnOK, Change
  <1> QED
    BY <1>2, <1>3, <1>4, <1>5 DEF Operator

LEMMA NextChange == IInv /\ [Next]_vars => Change
  <1>1. UNCHANGED vars => Change
    BY DEF vars, Change
  <1> QED
    BY <1>1, HttpChange, IotChange, OperatorChange DEF Next

-----------------------------------------------------------------------------
(* The theorems.                                                           *)

LEMMA InitInv == Init => IInv
  <1> SUFFICES ASSUME Init PROVE IInv
    OBVIOUS
  <1>1. HttpOK
    BY DEF Init, HttpOK, Idle
  <1>2. ConnOK
    BY DEF Init, ConnOK
  <1>3. DataOK
    BY ScriptAssumption, BoundsAssumption DEF Init, DataOK, Tables
  <1>4. Held /\ FromScript
    BY DEF Init, Held, FromScript
  <1>5. Attribution
    BY ScriptAssumption DEF Init, Attribution
  <1> QED
    BY <1>1, <1>2, <1>3, <1>4, <1>5 DEF Init, IInv, Data

THEOREM Invariance == Spec => []IInv
  <1>1. IInv /\ [Next]_vars => IInv'
    <2>1. CASE UNCHANGED vars
      BY <2>1 DEF vars, IInv, HttpOK, ConnOK, Data, DataOK, FromScript, Held, Attribution
    <2>2. ASSUME IInv, [Next]_vars
          PROVE  Data'
      BY <2>2, NextChange, ChangeData DEF IInv
    <2>3. ASSUME IInv, Http
          PROVE  HttpOK' /\ ConnOK' /\ disturbed' \in BOOLEAN /\ Held'
      BY <2>3, HttpChange DEF IInv, Held
    <2>4. ASSUME IInv, Iot
          PROVE  HttpOK' /\ ConnOK' /\ disturbed' \in BOOLEAN /\ Held'
      BY <2>4, IotChange DEF IInv, HttpOK
    <2>5. ASSUME IInv, Operator
          PROVE  HttpOK' /\ ConnOK' /\ disturbed' \in BOOLEAN /\ Held'
      BY <2>5, OperatorChange DEF IInv, HttpOK, Held
    <2> QED
      BY <2>1, <2>2, <2>3, <2>4, <2>5 DEF Next, IInv
  <1> QED
    BY <1>1, InitInv, PTL DEF Spec

\* Every row has the columns of its table, whatever a value with an apostrophe is
\* read as; the ids of telemetry rows were drawn from their sequence, so that the
\* id drawn for an event is never taken (resources/database.sql:8-62).
THEOREM TypeCorrect == Spec => []TypeOK
  <1>1. IInv => TypeOK
    BY DEF IInv, HttpOK, ConnOK, Data, DataOK, TypeOK
  <1> QED
    BY <1>1, Invariance, PTL

\* A telemetry row belongs to an existing device, the one that had the name
\* in the event when it was handled, although the look-up and the insert are
\* separate transactions (main.cpp:37-52).
THEOREM AttributionAlways == Spec => []Attribution
  <1>1. IInv => Attribution
    BY DEF IInv, Data
  <1> QED
    BY <1>1, Invariance, PTL

\* A request without an apostrophe in its parameters removes at most the one row
\* whose id it names, whatever rows there are and whatever else it gives: the
\* DELETE without conditions is never reached (HttpRequestHandler.h:40-77).
THEOREM DeletesAtMostOneAlways == Spec => DeletesAtMostOne
  <1> DEFINE Lost(t) == DOMAIN db[t] \ DOMAIN db'[t]
             Named == \A t \in Tables : \A i \in Lost(t) :
                         "id" \in DOMAIN http.params /\ http.params["id"] = i
  <1>1. ASSUME IInv, [Next]_vars, http' # http, Plain(http.params)
        PROVE  Named
    <2>1. HttpOK /\ ConnOK /\ DataOK /\ DOMAIN db = Tables /\ "registry" \in Tables
      BY <1>1 DEF IInv, Data, DataOK, Tables
    <2>2. CASE UNCHANGED db
      BY <2>2
    <2>3. ASSUME NEW i, NEW row, db' = With("registry", i, row)
          PROVE  Named
      BY <2>1, <2>3, NoneLost
    <2>4. CASE Asks
      BY <2>1, <2>2, <2>4, ReceiveDoes, QueryDoes DEF Asks
    <2>5. CASE Insert
      BY <2>1, <2>2, <2>3, <2>5, InsertDoes DEF Inserted, Outcome
    <2>6. CASE Update
      BY <2>1, <2>2, <2>3, <2>6, UpdateDoes DEF Updated, Outcome
    <2>7. CASE DeleteByFilter
      <3> DEFINE t == DeleteTable(http.table)
      <3>1. /\ "id" \in DOMAIN http.params /\ t \in Tables
            /\ \/ UNCHANGED db
               \/ \E rows \in Selected(t, http.params) : Outcome(Without(t, rows))
        BY <2>1, <2>7, DeleteDoes DEF Tables
      <3> HIDE DEF t
      <3>2. ASSUME NEW rows \in Selected(t, http.params), db' = Without(t, rows)
            PROVE  Named
        <4>1. rows = Matching(t, http.params)
          BY <1>1, <3>2, SelectedRows
        <4>2. \A i \in rows : http.params["id"] = i
          BY <3>1, <4>1 DEF Matching, Column
        <4> QED
          BY <2>1, <3>1, <3>2, <4>2, OthersStay
      <3> QED
        BY <2>2, <3>1, <3>2 DEF Outcome
    <2> QED
      BY <1>1, <2>2, <2>4, <2>5, <2>6, <2>7, IotChange, OperatorChange
         DEF Next, vars, Http, Asks
  <1> QED
    BY <1>1, Invariance, PTL DEF Spec, DeletesAtMostOne

-----------------------------------------------------------------------------
(* The list of telemetry and the devices it names.                         *)

Listing ==
    /\ http.pc \in {"refs", "count", "answer"} \/ http.reply = "data"
    /\ http.table = "telemetry"

\* A row of the list that is still in its table has not been answered without
\* its device, and the device that was read for it is still its own.
Listed ==
    Listing =>
        /\ http.rows \subseteq 1..serial["telemetry"]
        /\ \A p \in http.refs :
              /\ p[1] \in http.rows
              /\ p[1] \in DOMAIN db["telemetry"] =>
                    db["telemetry"][p[1]].device_id = p[2]
        /\ \A i \in http.rows \cap DOMAIN db["telemetry"] :
              \E p \in http.refs : p[1] = i

LEMMA FetchedRows ==
    ASSUME NEW t, NEW filter, NEW page, NEW rows \in Fetched(t, filter, page)
    PROVE  /\ rows \subseteq DOMAIN db[t]
           /\ Plain(filter) => rows = PageOf(t, filter, page)
  BY DEF Fetched, PageOf, Matching

\* Whatever happens to the tables meanwhile: rows go, and those that come have
\* new ids.
LEMMA ListedElsewhere ==
    ASSUME Listed, DataOK, Change, UNCHANGED http
    PROVE  Listed'
  <1>1. 1..serial["telemetry"] \subseteq 1..serial'["telemetry"]
    BY ChangeTelemetry
  <1>2. \A i \in DOMAIN db'["telemetry"] :
           \/ i \notin 1..serial["telemetry"]
           \/ i \in DOMAIN db["telemetry"] /\ db'["telemetry"][i] = db["telemetry"][i]
    BY ChangeTelemetry
  <1> QED
    BY <1>1, <1>2 DEF Listed, Listing

LEMMA ListedNext == IInv /\ Listed /\ [Next]_vars => Listed'
  <1> SUFFICES ASSUME IInv, Listed, [Next]_vars PROVE Listed'
    OBVIOUS
  <1>1. HttpOK /\ ConnOK /\ DataOK /\ Attribution
    BY DEF IInv, Data
  <1>2. CASE UNCHANGED http
    BY <1>1, <1>2, NextChange, ListedElsewhere
  <1>3. CASE http'.reply # "data" /\ http'.pc \notin {"refs", "count", "answer"}
    BY <1>3 DEF Listed, Listing
  <1>4. CASE Answered
    BY <1>1, <1>3, <1>4 DEF Answered, Reply, HttpOK, Idle
  <1>5. ASSUME NEW req \in Requests, Receive(req)
        PROVE  Listed'
    <2>1. Handler(req) \notin {"refs", "count", "answer"}
      <3>1. req.verb \in {"get", "put", "post", "delete"}
        BY RequestsAssumption DEF HttpRequests
      <3> QED
        BY <3>1 DEF Handler
    <2>2. http'.pc \notin {"refs", "count", "answer"} /\ http'.reply # "data"
      BY <1>5, <2>1 DEF Receive, Idle
    <2> QED
      BY <1>3, <2>2
  <1>6. CASE QueryPage /\ ~Raise /\ http.table = "telemetry"
    <2> DEFINE page == IF http.pc = "findOne" THEN 0 ELSE http.page
               Pc(rows) == IF rows # {} THEN "refs"
                           ELSE IF http.pc = "findAll" THEN "count" ELSE "answer"
               Refs(rows) == {<<i, db["telemetry"][i].device_id>> : i \in rows}
    <2>1. PICK rows \in Fetched("telemetry", http.params, page) :
             /\ UNCHANGED <<db, serial>>
             /\ http' = [http EXCEPT !.rows = rows, !.refs = Refs(rows), !.pc = Pc(rows)]
      BY <1>6 DEF QueryPage
    <2>2. rows \subseteq DOMAIN db["telemetry"]
      BY FetchedRows
    <2> HIDE DEF Pc, page
    <2>3. http'.rows = rows /\ http'.refs = Refs(rows)
      BY <1>1, <2>1 DEF HttpOK, Idle
    <2>4. http'.rows \subseteq 1..serial'["telemetry"]
      BY <1>1, <2>1, <2>2, <2>3 DEF DataOK
    <2>5. ASSUME NEW p \in http'.refs
          PROVE  p[1] \in http'.rows /\ db["telemetry"][p[1]].device_id = p[2]
      BY <2>3
    <2>6. ASSUME NEW i \in http'.rows
          PROVE  \E p \in http'.refs : p[1] = i
      <3>1. <<i, db["telemetry"][i].device_id>> \in http'.refs
        BY <2>3
      <3> QED
        BY <3>1
    <2> QED
      BY <2>1, <2>4, <2>5, <2>6 DEF Listed
  <1>7. CASE (QueryPage \/ QueryRefs \/ QueryCount) /\ http.table # "telemetry"
    <2>1. http'.table = http.table
      BY <1>1, <1>7 DEF QueryPage, QueryRefs, QueryCount, Raise, Reply, HttpOK, Idle
    <2> QED
      BY <1>7, <2>1 DEF Listed, Listing
  <1>8. CASE QueryRefs /\ ~Raise /\ http.table = "telemetry"
    <2>1. /\ UNCHANGED <<db, serial>> /\ http'.rows = http.rows
          /\ http'.refs = {p \in http.refs : p[2] \in DOMAIN db["device"]}
      BY <1>1, <1>8 DEF QueryRefs, HttpOK, Idle
    <2>2. Listing
      BY <1>8 DEF QueryRefs, Listing
    <2>3. ASSUME NEW i \in http.rows \cap DOMAIN db["telemetry"]
          PROVE  \E p \in http'.refs : p[1] = i
      <3>1. PICK p \in http.refs : p[1] = i
        BY <2>2, <2>3 DEF Listed
      <3>2. db["telemetry"][i].device_id = p[2]
        BY <2>2, <2>3, <3>1 DEF Listed
      <3>3. p[2] \in DOMAIN db["device"]
        BY <1>1, <2>3, <3>2 DEF Attribution
      <3> QED
        BY <2>1, <3>1, <3>3
    <2> QED
      BY <2>1, <2>2, <2>3 DEF Listed
  <1>9. CASE ((QueryCount /\ ~Raise) \/ Answer) /\ http.table = "telemetry"
    <2>1. UNCHANGED <<db, serial>> /\ http'.rows = http.rows /\ http'.refs = http.refs
      BY <1>1, <1>9 DEF QueryCount, Answer, Reply, HttpOK, Idle
    <2>2. Listing
      BY <1>9 DEF QueryCount, Answer, Listing
    <2> QED
      BY <2>1, <2>2 DEF Listed
  <1>10. CASE Answer /\ http.table # "telemetry"
    <2>1. http'.table = http.table
      BY <1>1, <1>10 DEF Answer, Reply, HttpOK, Idle
    <2> QED
      BY <1>10, <2>1 DEF Listed, Listing
  <1>11. CASE Insert \/ Update \/ DeleteByFilter
    BY <1>1, <1>4, <1>11, InsertDoes, UpdateDoes, DeleteDoes
  <1>12. CASE Raise
    BY <1>4, <1>12 DEF Raise, Answered
  <1>13. CASE Http
    BY <1>5, <1>6, <1>7, <1>8, <1>9, <1>10, <1>11, <1>12, <1>13 DEF Http
  <1> QED
    BY <1>2, <1>13, IotChange, OperatorChange DEF Next, vars

\* A telemetry row that is listed without its device is no longer in the
\* table, although rows and devices are read in two transactions and others
\* commit in between (DeviceTelemetryRepository.cpp:8-69).
THEOREM NoDeviceMeansGoneAlways == Spec => []NoDeviceMeansGone
  <1>1. Init => Listed
    BY DEF Init, Idle, Listed, Listing
  <1>2. Listed => NoDeviceMeansGone
    BY DEF Listed, Listing, NoDeviceMeansGone
  <1> QED
    BY <1>1, <1>2, ListedNext, Invariance, PTL DEF Spec

-----------------------------------------------------------------------------
(* The answer to findAll as a snapshot.                                    *)

\* findOne is called with an id, findAll without.  A list in the making, or
\* answered, is the page that is in the tables, if nobody has committed since.
Snapshot ==
    /\ http.pc = "findAll" => "id" \notin DOMAIN http.params
    /\ http.pc = "findOne" => "id" \in DOMAIN http.params
    /\ /\ http.pc \in {"refs", "count", "answer"} \/ http.reply = "data"
       /\ ~disturbed /\ "id" \notin DOMAIN http.params /\ Plain(http.params)
       => /\ http.rows = PageOf(http.table, http.params, http.page)
          /\ http.pc \notin {"refs", "count"} =>
                http.total = Cardinality(Matching(http.table, http.params))

\* The tables, and the request, give the same page and the same count.
LEMMA SamePage ==
    ASSUME UNCHANGED db, http'.table = http.table, http'.params = http.params,
           http'.page = http.page
    PROVE  /\ UNCHANGED PageOf(http.table, http.params, http.page)
           /\ UNCHANGED Cardinality(Matching(http.table, http.params))
           /\ UNCHANGED Plain(http.params)
  BY DEF PageOf, Matching, Column, Plain

LEMMA SnapshotNext == IInv /\ Snapshot /\ [Next]_vars => Snapshot'
  <1> SUFFICES ASSUME IInv, Snapshot, [Next]_vars PROVE Snapshot'
    OBVIOUS
  <1>1. HttpOK /\ ConnOK /\ DataOK
    BY DEF IInv, Data
  <1>2. CASE UNCHANGED <<db, http, disturbed>>
    <2>1. /\ UNCHANGED PageOf(http.table, http.params, http.page)
          /\ UNCHANGED Cardinality(Matching(http.table, http.params))
          /\ UNCHANGED Plain(http.params)
      BY <1>2, SamePage
    <2> QED
      BY <1>2, <2>1 DEF Snapshot
  <1>3. CASE UNCHANGED http /\ disturbed' = TRUE
    BY <1>3 DEF Snapshot
  <1>4. CASE http'.pc = "idle" /\ http'.reply # "data"
    BY <1>4 DEF Snapshot
  <1>5. CASE Answered
    BY <1>1, <1>4, <1>5 DEF Answered, Reply, HttpOK, Idle
  <1>6. ASSUME NEW req \in Requests, Receive(req)
        PROVE  Snapshot'
    <2>1. req.verb \in {"get", "put", "post", "delete"}
      BY RequestsAssumption DEF HttpRequests
    <2>2. /\ Handler(req) \notin {"refs", "count", "answer"}
          /\ Handler(req) = "findAll" => "id" \notin DOMAIN req.params
          /\ Handler(req) = "findOne" => "id" \in DOMAIN req.params
      BY <2>1 DEF Handler
    <2> QED
      BY <1>6, <2>2 DEF Receive, Snapshot, Idle
  <1>7. ASSUME UNCHANGED db, UNCHANGED <<http.table, http.params, http.page>>
        PROVE  /\ UNCHANGED PageOf(http.table, http.params, http.page)
               /\ UNCHANGED Cardinality(Matching(http.table, http.params))
               /\ UNCHANGED Plain(http.params)
    BY <1>7, SamePage
  <1>8. CASE QueryPage /\ ~Raise
    <2> DEFINE page == IF http.pc = "findOne" THEN 0 ELSE http.page
               Refs(rows) ==
                 IF http.table = "telemetry"
                 THEN {<<i, db["telemetry"][i].device_id>> : i \in rows} ELSE {}
               Pc(rows) ==
                 IF http.table = "telemetry" /\ rows # {} THEN "refs"
                 ELSE IF http.pc = "findAll" THEN "count" ELSE "answer"
    <2>1. PICK rows \in Fetched(http.table, http.params, page) :
             /\ UNCHANGED <<db, disturbed>>
             /\ http' = [http EXCEPT !.rows = rows, !.refs = Refs(rows), !.pc = Pc(rows)]
      BY <1>8 DEF QueryPage
    <2>2. http.pc \in {"findAll", "findOne"}
      BY <1>8 DEF QueryPage
    <2>3. Plain(http.params) => rows = PageOf(http.table, http.params, page)
      BY FetchedRows
    <2>4. http.pc = "findAll" => Pc(rows) \in {"refs", "count"}
      OBVIOUS
    <2>5. Pc(rows) \in {"refs", "count", "answer"}
      OBVIOUS
    <2> HIDE DEF Refs, Pc
    <2>6. /\ http'.rows = rows /\ http'.pc = Pc(rows) /\ http'.reply = http.reply
          /\ UNCHANGED <<http.table, http.params, http.page>>
      BY <1>1, <2>1 DEF HttpOK, Idle
    <2>7. CASE http.pc = "findOne"
      BY <2>5, <2>6, <2>7 DEF Snapshot
    <2>8. CASE http.pc = "findAll"
      BY <1>7, <2>1, <2>3, <2>4, <2>6, <2>8 DEF Snapshot
    <2> QED
      BY <2>2, <2>7, <2>8
  <1>9. CASE QueryRefs /\ ~Raise
    <2>1. /\ UNCHANGED <<db, disturbed>> /\ http.pc = "refs"
          /\ UNCHANGED <<http.table, http.params, http.page, http.rows>>
          /\ http'.pc = IF "id" \in DOMAIN http.params THEN "answer" ELSE "count"
      BY <1>1, <1>9 DEF QueryRefs, HttpOK, Idle
    <2> QED
      BY <1>7, <2>1 DEF Snapshot
  <1>10. CASE QueryCount /\ ~Raise
    <2>1. PICK rows \in Selected(http.table, http.params) :
             /\ UNCHANGED <<db, disturbed>> /\ http.pc = "count"
             /\ UNCHANGED <<http.table, http.params, http.page, http.rows>>
             /\ http'.pc = "answer" /\ http'.total = Cardinality(rows)
      BY <1>1, <1>10 DEF QueryCount, HttpOK, Idle
    <2>2. Plain(http.params) => rows = Matching(http.table, http.params)
      BY SelectedRows
    <2> QED
      BY <1>7, <2>1, <2>2 DEF Snapshot
  <1>11. CASE Answer
    <2>1. /\ UNCHANGED <<db, disturbed>> /\ http.pc = "answer"
          /\ UNCHANGED <<http.table, http.params, http.page, http.rows, http.total>>
          /\ http'.pc = "idle"
      BY <1>1, <1>11 DEF Answer, Reply, HttpOK, Idle
    <2> QED
      BY <1>7, <2>1 DEF Snapshot
  <1>12. CASE Insert \/ Update \/ DeleteByFilter
    BY <1>1, <1>5, <1>12, InsertDoes, UpdateDoes, DeleteDoes
  <1>13. CASE Raise
    BY <1>5, <1>13 DEF Raise, Answered
  <1>14. CASE Http
    BY <1>6, <1>8, <1>9, <1>10, <1>11, <1>12, <1>13, <1>14 DEF Http
  <1>15. CASE Iot \/ Operator
    BY <1>2, <1>3, <1>15
       DEF Iot, FindDevice, StoreTelemetry, Operator, Provision, Decommission,
           Purge, Restart
  <1> QED
    BY <1>2, <1>14, <1>15 DEF Next, vars

\* A complete answer to findAll while nobody else commits is what one query
\* over one state would give, although it takes three transactions
\* (RegistryRepository.cpp:8-44, DeviceTelemetryRepository.cpp:8-69).
THEOREM ListIsSnapshotAlways == Spec => []ListIsSnapshot
  <1>1. Init => Listed /\ Snapshot
    BY DEF Init, Idle, Listed, Listing, Snapshot
  <1>2. IInv /\ Listed /\ Snapshot => ListIsSnapshot
    <2> SUFFICES ASSUME IInv, Listed, Snapshot, http.reply = "data", ~disturbed,
                        "id" \notin DOMAIN http.params, Plain(http.params)
                 PROVE  /\ http.rows = PageOf(http.table, http.params, http.page)
                        /\ http.table = "telemetry" =>
                              {p[1] : p \in http.refs} = http.rows
                        /\ http.total = Cardinality(Matching(http.table, http.params))
      BY DEF ListIsSnapshot
    <2>1. http.pc = "idle"
      BY DEF IInv, HttpOK
    <2>2. /\ http.rows = PageOf(http.table, http.params, http.page)
          /\ http.total = Cardinality(Matching(http.table, http.params))
      BY <2>1 DEF Snapshot
    <2>3. ASSUME http.table = "telemetry"
          PROVE  {p[1] : p \in http.refs} = http.rows
      <3>1. http.rows \subseteq DOMAIN db["telemetry"]
        BY <2>2, <2>3 DEF PageOf, Matching
      <3>2. \A p \in http.refs : p[1] \in http.rows
        BY <2>3 DEF Listed, Listing
      <3>3. \A i \in http.rows : \E p \in http.refs : p[1] = i
        BY <2>3, <3>1 DEF Listed, Listing
      <3> QED
        BY <3>2, <3>3
    <2> QED
      BY <2>2, <2>3
  <1> QED
    BY <1>1, <1>2, ListedNext, SnapshotNext, Invariance, PTL DEF Spec

-----------------------------------------------------------------------------
(* Replies.                                                                *)

\* The statement a request stands before is one of its verb.
VerbOK ==
    /\ http.pc = "insert" => http.verb = "post"
    /\ http.pc = "update" => http.verb = "put"
    /\ http.pc = "deleteByFilter" => http.verb = "delete"

LEMMA VerbNext == IInv /\ VerbOK /\ [Next]_vars => VerbOK'
  <1> SUFFICES ASSUME IInv, VerbOK, [Next]_vars PROVE VerbOK'
    OBVIOUS
  <1>1. HttpOK /\ ConnOK /\ DataOK
    BY DEF IInv, Data
  <1>2. CASE UNCHANGED http
    BY <1>2 DEF VerbOK
  <1>3. CASE http'.pc \notin {"insert", "update", "deleteByFilter"}
    BY <1>3 DEF VerbOK
  <1>4. ASSUME NEW req \in Requests, Receive(req)
        PROVE  VerbOK'
    <2>1. req.verb \in {"get", "put", "post", "delete"}
      BY RequestsAssumption DEF HttpRequests
    <2>2. /\ Handler(req) = "insert" => req.verb = "post"
          /\ Handler(req) = "update" => req.verb = "put"
          /\ Handler(req) = "deleteByFilter" => req.verb = "delete"
      BY <2>1 DEF Handler
    <2> QED
      BY <1>4, <2>2 DEF Receive, VerbOK, Idle
  <1>5. ASSUME NEW r, Reply(r)
        PROVE  VerbOK'
    BY <1>1, <1>3, <1>5 DEF Reply, HttpOK, Idle
  <1>6. CASE QueryPage \/ QueryRefs \/ QueryCount \/ Answer
    BY <1>1, <1>3, <1>5, <1>6
       DEF QueryPage, QueryRefs, QueryCount, Answer, Raise, HttpOK, Idle
  <1>7. CASE Insert \/ Update \/ DeleteByFilter
    BY <1>1, <1>5, <1>7, InsertDoes, UpdateDoes, DeleteDoes DEF Answered
  <1> QED
    BY <1>2, <1>4, <1>6, <1>7, IotChange, OperatorChange DEF Next, vars, Http

\* What a reply says is so, also when an access fails or the connection breaks
\* in the middle of a commit (RestRepositoryController.h:12-42).
THEOREM ReplyIsTrueAlways == Spec => ReplyIsTrue
  <1> DEFINE Posted == \E i \in DOMAIN db'[http.table] \ DOMAIN db[http.table] :
                          db'[http.table][i].name = http.body.name
             Put == http.body.id \in DOMAIN db["registry"] =>
                       db'["registry"][http.body.id].name = http.body.name
             Deleted == Matching(http.table, http.params)' = {}
             Done == /\ http.verb = "post" => Posted
                     /\ http.verb = "put" /\ http.body.id \in DOMAIN db["registry"] =>
                            db'["registry"][http.body.id].name = http.body.name
                     /\ http.verb = "delete" /\ http.table # "device" => Deleted
             Doubt == UNCHANGED db \/ (http'.reply = "400" /\ conn'["http"] = "broken")
             Sound == /\ http.reply = "none" /\ http'.reply = "success" /\ PlainRequest
                           => Done
                      /\ http' # http /\ http'.reply # "success" => Doubt
  <1>1. ASSUME IInv, VerbOK, [Next]_vars
        PROVE  Sound
    <2>1. HttpOK /\ ConnOK /\ DataOK /\ DOMAIN db = Tables /\ "registry" \in Tables
      BY <1>1 DEF IInv, Data, DataOK, Tables
    <2>2. CASE UNCHANGED http
      BY <2>1, <2>2 DEF HttpOK
    <2>3. CASE UNCHANGED db /\ http'.reply # "success"
      BY <2>3
    <2>4. CASE http'.reply = "400" /\ conn'["http"] = "broken"
      BY <2>4
    <2>5. ASSUME PlainRequest, http.body # Malformed, NEW n \in Literal(http.body.name)
          PROVE  n = http.body.name
      BY <2>1, <2>5, LiteralNames DEF PlainRequest, HttpOK
    <2>6. CASE Insert
      <3>1. http.verb = "post"
        BY <1>1, <2>6 DEF VerbOK, Insert
      <3>2. ASSUME http.body # Malformed, NEW n \in Literal(http.body.name),
                   Inserted(n), http'.reply = "success", PlainRequest
            PROVE  Posted
        <4> DEFINE i == NewId("registry")
        <4>1. /\ http.table = "registry" /\ i \notin DOMAIN db["registry"]
              /\ db' = With("registry", i, [name |-> n])
          BY <3>2 DEF Inserted, Storable, Outcome
        <4> HIDE DEF i
        <4>2. db'["registry"] = [j \in DOMAIN db["registry"] \cup {i} |->
                                   IF j = i THEN [name |-> n] ELSE db["registry"][j]]
          BY <2>1, <4>1, WithShape
        <4>3. i \in DOMAIN db'["registry"] /\ db'["registry"][i].name = n
          BY <4>2
        <4> QED
          BY <2>5, <3>2, <4>1, <4>3
      <3>3. CASE http'.reply = "400" /\ UNCHANGED db
        BY <3>3
      <3>4. CASE http.body # Malformed /\ \E n \in Literal(http.body.name) : Inserted(n)
        <4>1. http'.reply = "success" \/ (http'.reply = "400" /\ conn'["http"] = "broken")
          BY <3>4 DEF Inserted, Outcome
        <4> HIDE DEF Posted
        <4>2. http'.reply = "success" /\ PlainRequest => Posted
          BY <3>2, <3>4
        <4> QED
          BY <3>1, <4>1, <4>2
      <3> QED
        BY <2>1, <2>6, <3>3, <3>4, InsertDoes
    <2>7. CASE Update
      <3>1. http.verb = "put"
        BY <1>1, <2>7 DEF VerbOK, Update
      <3>2. ASSUME http.body # Malformed, NEW i \in Targets,
                   NEW n \in Literal(http.body.name), Updated(i, n),
                   http'.reply = "success", PlainRequest
            PROVE  Put
        <4>1. i = http.body.id /\ n = http.body.name
          BY <2>5, <3>2 DEF PlainRequest, Targets
        <4>2. CASE i \in DOMAIN db["registry"]
          <5>1. db' = With("registry", i, [name |-> n])
            BY <3>2, <4>2 DEF Updated, Outcome
          <5>2. db'["registry"] = [j \in DOMAIN db["registry"] \cup {i} |->
                                     IF j = i THEN [name |-> n] ELSE db["registry"][j]]
            BY <2>1, <5>1, WithShape
          <5>3. db'["registry"][i].name = n
            BY <5>2
          <5> QED
            BY <4>1, <5>3
        <4> QED
          BY <4>1, <4>2
      <3>3. CASE http'.reply = "400" /\ UNCHANGED db
        BY <3>3
      <3>4. CASE /\ http.body # Malformed
                 /\ \E i \in Targets, n \in Literal(http.body.name) : Updated(i, n)
        <4>1. http'.reply = "success" \/ (http'.reply = "400" /\ conn'["http"] = "broken")
          BY <3>4 DEF Updated, Outcome
        <4>2. http'.reply = "success" /\ PlainRequest => Put
          BY <3>2, <3>4
        <4> QED
          BY <3>1, <4>1, <4>2
      <3> QED
        BY <2>1, <2>7, <3>3, <3>4, UpdateDoes
    <2>8. CASE DeleteByFilter
      <3> DEFINE t == DeleteTable(http.table)
      <3>1. http.verb = "delete"
        BY <1>1, <2>8 DEF VerbOK, DeleteByFilter
      <3>2. /\ t \in Tables /\ Answered
            /\ \/ http'.reply = "400" /\ UNCHANGED db
               \/ \E rows \in Selected(t, http.params) : Outcome(Without(t, rows))
        BY <2>1, <2>8, DeleteDoes DEF Tables
      <3>3. http'.table = http.table /\ http'.params = http.params
        BY <2>1, <3>2 DEF Answered, Reply, HttpOK, Idle
      <3> HIDE DEF t
      <3>4. ASSUME NEW rows \in Selected(t, http.params), Outcome(Without(t, rows)),
                   http'.reply = "success", PlainRequest, http.table # "device"
            PROVE  Deleted
        <4>1. t = http.table /\ rows = Matching(http.table, http.params)
          BY <3>4, SelectedRows DEF t, DeleteTable, PlainRequest
        <4>2. db' = Without(http.table, rows)
          BY <3>4, <4>1 DEF Outcome
        <4>3. db'[http.table] = [i \in DOMAIN db[http.table] \ rows |-> db[http.table][i]]
          BY <2>1, <3>2, <4>1, <4>2, WithoutShape
        <4> QED
          BY <3>3, <4>1, <4>3 DEF Matching, Column
      <3>5. CASE \E rows \in Selected(t, http.params) : Outcome(Without(t, rows))
        <4>1. http'.reply = "success" \/ (http'.reply = "400" /\ conn'["http"] = "broken")
          BY <3>5 DEF Outcome
        <4> HIDE DEF Deleted
        <4>2. http'.reply = "success" /\ PlainRequest /\ http.table # "device" => Deleted
          BY <3>4, <3>5
        <4> QED
          BY <3>1, <4>1, <4>2
      <3> QED
        BY <2>3, <3>2, <3>5
    <2>9. CASE Asks
      BY <2>1, <2>3, <2>9, ReceiveDoes, QueryDoes DEF Asks
    <2> QED
      BY <1>1, <2>2, <2>6, <2>7, <2>8, <2>9, IotChange, OperatorChange
         DEF Next, vars, Http, Asks
  <1>2. Init => VerbOK
    BY DEF Init, Idle, VerbOK
  <1> QED
    BY <1>1, <1>2, VerbNext, Invariance, PTL DEF Spec, ReplyIsTrue

-----------------------------------------------------------------------------
(* The devices, which no request changes.                                  *)

\* No step of the HTTP thread changes the devices: PUT, POST and DELETE of
\* /api/devices (HttpService.cpp:32-34) are answered, the last one even with
\* "success", and do nothing to the table they name
\* (DeviceRepository.cpp:73-114).
DevicesUntouched == [][http' # http => db'["device"] = db["device"]]_vars

\* The INSERT lacks a column that may not be NULL, the UPDATE names one that is
\* not there, and the DELETE is one of registries: that DeviceDeleted fails is not
\* a matter of the requests, names and sizes of the run.
THEOREM DevicesUntouchedAlways == Spec => DevicesUntouched
  <1>1. ASSUME IInv, [Next]_vars, http' # http
        PROVE  db'["device"] = db["device"]
    <2>1. HttpOK /\ ConnOK /\ DataOK /\ DOMAIN db = Tables
          /\ "device" \in Tables /\ "registry" \in Tables
      BY <1>1 DEF IInv, Data, DataOK, Tables
    <2>2. CASE UNCHANGED db
      BY <2>2
    <2>3. ASSUME NEW i, NEW row, db' = With("registry", i, row)
          PROVE  db'["device"] = db["device"]
      BY <2>1, <2>3, WithShape
    <2>4. CASE Asks
      BY <2>1, <2>2, <2>4, ReceiveDoes, QueryDoes DEF Asks
    <2>5. CASE Insert
      BY <2>1, <2>2, <2>3, <2>5, InsertDoes DEF Inserted, Outcome
    <2>6. CASE Update
      BY <2>1, <2>2, <2>3, <2>6, UpdateDoes DEF Updated, Outcome
    <2>7. CASE DeleteByFilter
      <3> DEFINE t == DeleteTable(http.table)
      <3>1. /\ t \in {"registry", "telemetry"} /\ t \in Tables
            /\ UNCHANGED db \/ \E rows : db' = Without(t, rows)
        BY <2>1, <2>7, DeleteDoes DEF Tables, Outcome
      <3> HIDE DEF t
      <3> QED
        BY <2>1, <2>2, <3>1, WithoutShape
    <2> QED
      BY <1>1, <2>2, <2>4, <2>5, <2>6, <2>7, IotChange, OperatorChange
         DEF Next, vars, Http, Asks
  <1> QED
    BY <1>1, Invariance, PTL DEF Spec, DevicesUntouched

-----------------------------------------------------------------------------
(* The rows of all tables.                                                 *)

\* The row with id i of table t.
RowAt(t, i, cols) == [table |-> t, id |-> i, cols |-> cols]

\* What is in TableRows.
LEMMA RowsAre ==
    \A x : x \in TableRows <=>
             \E t \in Tables : \E i \in DOMAIN db[t] : x = RowAt(t, i, db[t][i])
  BY DEF TableRows, RowAt

\* A row and its parts.
LEMMA RowParts ==
    /\ \A t, i, c : /\ RowAt(t, i, c).table = t /\ RowAt(t, i, c).id = i
                    /\ RowAt(t, i, c).cols = c
    /\ \A t, i, c, u, j, d : RowAt(t, i, c) = RowAt(u, j, d) <=> t = u /\ i = j /\ c = d
  BY DEF RowAt

\* The parts of a row of the tables.
LEMMA RowIs ==
    ASSUME NEW x \in TableRows
    PROVE  x.table \in Tables /\ x.id \in DOMAIN db[x.table] /\ x.cols = db[x.table][x.id]
  <1>1. PICK u \in Tables : \E j \in DOMAIN db[u] : x = RowAt(u, j, db[u][j])
    BY RowsAre
  <1>2. PICK j \in DOMAIN db[u] : x = RowAt(u, j, db[u][j])
    BY <1>1
  <1> QED
    BY <1>2, RowParts

\* A row is known by its table and id.
LEMMA OneRow ==
    ASSUME NEW x \in TableRows, NEW y \in TableRows, x.table = y.table, x.id = y.id
    PROVE  x = y
  <1>1. \A z \in TableRows : z = RowAt(z.table, z.id, db[z.table][z.id])
    BY RowsAre, RowParts
  <1> QED
    BY <1>1

\* A row that is added or replaced.
LEMMA RowsWith ==
    ASSUME DOMAIN db = Tables, NEW t \in Tables, NEW i, NEW cols, db' = With(t, i, cols)
    PROVE  TableRows' =
             {x \in TableRows : ~(x.table = t /\ x.id = i)} \cup {RowAt(t, i, cols)}
  <1>1. /\ DOMAIN db' = Tables
        /\ \A u \in Tables : u # t => db'[u] = db[u]
        /\ db'[t] = [j \in DOMAIN db[t] \cup {i} |-> IF j = i THEN cols ELSE db[t][j]]
    BY WithShape
  <1>2. \A x : x \in TableRows' <=>
                 \E u \in Tables : \E j \in DOMAIN db'[u] : x = RowAt(u, j, db'[u][j])
    BY DEF TableRows, RowAt
  <1>3. ASSUME NEW x
        PROVE  x \in TableRows' <=>
                 \/ x = RowAt(t, i, cols)
                 \/ x \in TableRows /\ ~(x.table = t /\ x.id = i)
    <2>1. ASSUME x \in TableRows', x # RowAt(t, i, cols)
          PROVE  x \in TableRows /\ ~(x.table = t /\ x.id = i)
      <3>1. PICK u \in Tables : \E j \in DOMAIN db'[u] : x = RowAt(u, j, db'[u][j])
        BY <1>2, <2>1
      <3>j. PICK j \in DOMAIN db'[u] : x = RowAt(u, j, db'[u][j])
        BY <3>1
      <3>2. ~(u = t /\ j = i)
        BY <1>1, <2>1, <3>j
      <3>3. j \in DOMAIN db[u] /\ db'[u][j] = db[u][j]
        BY <1>1, <3>2
      <3> QED
        BY <3>j, <3>2, <3>3, RowsAre, RowParts
    <2>2. ASSUME x \in TableRows, ~(x.table = t /\ x.id = i)
          PROVE  x \in TableRows'
      <3>1. PICK u \in Tables : \E j \in DOMAIN db[u] : x = RowAt(u, j, db[u][j])
        BY <2>2, RowsAre
      <3>j. PICK j \in DOMAIN db[u] : x = RowAt(u, j, db[u][j])
        BY <3>1
      <3>2. ~(u = t /\ j = i)
        BY <2>2, <3>j, RowParts
      <3>3. j \in DOMAIN db'[u] /\ db'[u][j] = db[u][j]
        BY <1>1, <3>2
      <3> QED
        BY <1>2, <3>j, <3>3
    <2>3. RowAt(t, i, cols) \in TableRows'
      <3>1. i \in DOMAIN db'[t] /\ db'[t][i] = cols
        BY <1>1
      <3> QED
        BY <1>2, <3>1
    <2> QED
      BY <2>1, <2>2, <2>3
  <1> QED
    BY <1>3

\* Rows that go.
LEMMA RowsWithout ==
    ASSUME DOMAIN db = Tables, NEW t \in Tables, NEW ids, db' = Without(t, ids)
    PROVE  TableRows' = {x \in TableRows : ~(x.table = t /\ x.id \in ids)}
  <1>1. /\ DOMAIN db' = Tables
        /\ \A u \in Tables : u # t => db'[u] = db[u]
        /\ db'[t] = [i \in DOMAIN db[t] \ ids |-> db[t][i]]
    BY WithoutShape
  <1>2. \A x : x \in TableRows' <=>
                 \E u \in Tables : \E j \in DOMAIN db'[u] : x = RowAt(u, j, db'[u][j])
    BY DEF TableRows, RowAt
  <1>3. ASSUME NEW x \in TableRows'
        PROVE  x \in TableRows /\ ~(x.table = t /\ x.id \in ids)
    <2>1. PICK u \in Tables : \E j \in DOMAIN db'[u] : x = RowAt(u, j, db'[u][j])
      BY <1>2, <1>3
    <2>j. PICK j \in DOMAIN db'[u] : x = RowAt(u, j, db'[u][j])
      BY <2>1
    <2>2. j \in DOMAIN db[u] /\ db'[u][j] = db[u][j] /\ ~(u = t /\ j \in ids)
      BY <1>1
    <2> QED
      BY <2>j, <2>2, RowsAre, RowParts
  <1>4. ASSUME NEW x \in TableRows, ~(x.table = t /\ x.id \in ids)
        PROVE  x \in TableRows'
    <2>1. PICK u \in Tables : \E j \in DOMAIN db[u] : x = RowAt(u, j, db[u][j])
      BY <1>4, RowsAre
    <2>j. PICK j \in DOMAIN db[u] : x = RowAt(u, j, db[u][j])
      BY <2>1
    <2>2. ~(u = t /\ j \in ids)
      BY <1>4, <2>j, RowParts
    <2>3. j \in DOMAIN db'[u] /\ db'[u][j] = db[u][j]
      BY <1>1, <2>2
    <2> QED
      BY <1>2, <2>j, <2>3
  <1> QED
    BY <1>3, <1>4

-----------------------------------------------------------------------------
(* The steps of the abstract tables.                                       *)

\* An id that is drawn for a row that is refused.
LEMMA RefuseStep ==
    ASSUME DataOK, NEW t, Draws(t), UNCHANGED db
    PROVE  Schema!Next
  <1>1. t \in DOMAIN serial /\ UNCHANGED TableRows
    BY DEF DataOK, TableRows, Draws
  <1> QED
    BY <1>1 DEF Schema!Next, Schema!Refuse, Schema!Draw, Draws

\* A new row that the table lets in fits the others.
LEMMA InsertStep ==
    ASSUME DataOK, NEW t, NEW i, NEW cols, Adds(t, i, cols)
    PROVE  Schema!Next
  <1> DEFINE r == RowAt(t, i, cols)
  <1>1. t \in Tables /\ DOMAIN db = Tables /\ db' = With(t, i, cols)
        /\ Storable(t, i, cols) /\ i \notin DOMAIN db[t]
    BY DEF DataOK, Adds, Storable
  <1>2. r.table = t /\ r.id = i /\ r.cols = cols
    BY RowParts
  <1>w. TableRows' = {x \in TableRows : ~(x.table = t /\ x.id = i)} \cup {r}
    BY <1>1, RowsWith
  <1> HIDE DEF r
  <1>3. \A x \in TableRows : ~(x.table = t /\ x.id = i)
    BY <1>1, RowIs
  <1>4. TableRows' = TableRows \cup {r} /\ r \in TableRows' /\ r \notin TableRows
    BY <1>2, <1>3, <1>w
  <1>5. Schema!Fits(r, TableRows)
    <2>1. ASSUME t # "telemetry", NEW x \in TableRows, x.table = t
          PROVE  x.cols.name # cols.name
      <3>1. x.id \in DOMAIN db[t] \ {i} /\ x.cols = db[t][x.id]
        BY <1>3, <2>1, RowIs
      <3> QED
        BY <1>1, <2>1, <3>1 DEF Storable, NameTaken
    <2>2. ASSUME t = "device"
          PROVE  \E x \in TableRows : Schema!RefersTo(r, x)
      <3> DEFINE k == cols.registry_id
                 x == RowAt("registry", k, db["registry"][k])
      <3>1. k \in DOMAIN db["registry"]
        BY <1>1, <2>2 DEF Storable
      <3>2. x \in TableRows /\ x.table = "registry" /\ x.id = k
        BY <3>1, RowsAre, RowParts DEF Tables
      <3> HIDE DEF x
      <3>3. Schema!RefersTo(r, x)
        BY <1>2, <2>2, <3>2 DEF Schema!RefersTo
      <3> QED
        BY <3>2, <3>3
    <2>3. ASSUME t = "telemetry"
          PROVE  \E x \in TableRows : Schema!RefersTo(r, x)
      <3> DEFINE k == cols.device_id
                 x == RowAt("device", k, db["device"][k])
      <3>1. k \in DOMAIN db["device"]
        BY <1>1, <2>3 DEF Storable
      <3>2. x \in TableRows /\ x.table = "device" /\ x.id = k
        BY <3>1, RowsAre, RowParts DEF Tables
      <3> HIDE DEF x
      <3>3. Schema!RefersTo(r, x)
        BY <1>2, <2>3, <3>2 DEF Schema!RefersTo
      <3> QED
        BY <3>2, <3>3
    <2> QED
      BY <1>1, <1>2, <1>3, <2>1, <2>2, <2>3 DEF Schema!Fits, Tables
  <1>6. \/ Schema!Draw(t) /\ i = serial'[t]
        \/ t \in {"registry", "device"} /\ UNCHANGED serial
    <2>1. CASE Draws(t) /\ i = NewId(t)
      BY <1>1, <2>1, Drawn DEF Schema!Draw, Draws, DataOK
    <2>2. CASE t # "telemetry" /\ UNCHANGED serial
      BY <1>1, <2>2 DEF Tables
    <2> QED
      BY <2>1, <2>2 DEF Adds
  <1>7. Schema!Insert(r)
    BY <1>2, <1>4, <1>5, <1>6 DEF Schema!Insert
  <1> QED
    BY <1>4, <1>7 DEF Schema!Next

\* A registry that gets another name, or its own again.
LEMMA RenameStep ==
    ASSUME DataOK, NEW i, NEW n, Renames(i, n)
    PROVE  Schema!Next \/ UNCHANGED <<TableRows, serial>>
  <1> DEFINE t == "registry"
             cols == [name |-> n]
             old == RowAt(t, i, db[t][i])
             new == RowAt(t, i, cols)
  <1>1. /\ t \in Tables /\ DOMAIN db = Tables /\ i \in DOMAIN db[t]
        /\ ~NameTaken(t, n, i) /\ db' = With(t, i, cols) /\ UNCHANGED serial
    BY DEF Tables, DataOK, Renames
  <1>2. cols.name = n
    OBVIOUS
  <1> HIDE DEF cols
  <1>3. /\ old.table = t /\ old.id = i /\ new.table = t /\ new.id = i /\ new.cols = cols
        /\ old \in TableRows
    BY <1>1, RowsAre, RowParts
  <1>4. TableRows' = {x \in TableRows : ~(x.table = t /\ x.id = i)} \cup {new}
    BY <1>1, RowsWith
  <1> HIDE DEF old, new
  <1>5. \A x \in TableRows : x.table = t /\ x.id = i => x = old
    BY <1>3, OneRow
  <1>6. Schema!Fits(new, TableRows \ {old})
    <2>1. ASSUME NEW x \in TableRows \ {old}, x.table = t
          PROVE  x.cols.name # cols.name /\ x.id # i
      <3>1. x.id \in DOMAIN db[t] \ {i} /\ x.cols = db[t][x.id]
        BY <1>5, <2>1, RowIs
      <3> QED
        BY <1>1, <1>2, <3>1 DEF NameTaken
    <2> QED
      BY <1>3, <2>1 DEF Schema!Fits
  <1>7. TableRows' = (TableRows \ {old}) \cup {new}
    BY <1>3, <1>4, <1>5
  <1>8. CASE new = old
    BY <1>1, <1>3, <1>7, <1>8
  <1>9. CASE new # old
    <2>1. new \notin TableRows
      BY <1>3, <1>5, <1>9
    <2>2. old \in TableRows \ TableRows' /\ new \in TableRows' \ TableRows
      BY <1>3, <1>7, <1>9, <2>1
    <2>3. Schema!Rename(old, new)
      BY <1>1, <1>3, <1>6, <1>7 DEF Schema!Rename
    <2> QED
      BY <2>2, <2>3 DEF Schema!Next
  <1> QED
    BY <1>8, <1>9

\* No row goes that another one refers to.
LEMMA RemoveStep ==
    ASSUME DataOK, NEW t, NEW ids, Removes(t, ids)
    PROVE  Schema!Next \/ UNCHANGED <<TableRows, serial>>
  <1> DEFINE gone == TableRows \ TableRows'
  <1>1. /\ t \in Tables /\ DOMAIN db = Tables /\ db' = Without(t, ids)
        /\ Deletable(t, ids) /\ UNCHANGED serial
    BY DEF DataOK, Removes
  <1>2. TableRows' = {x \in TableRows : ~(x.table = t /\ x.id \in ids)}
    BY <1>1, RowsWithout
  <1>3. \A r \in gone : r \in TableRows /\ r.table = t /\ r.id \in ids
    BY <1>2
  <1>4. TableRows' = TableRows \ gone
    BY <1>2
  <1> HIDE DEF gone
  <1>5. ASSUME NEW r \in gone, NEW s \in TableRows, Schema!RefersTo(s, r)
        PROVE  FALSE
    <2>1. s.table \in Tables /\ s.id \in DOMAIN db[s.table] /\ s.cols = db[s.table][s.id]
      BY RowIs
    <2>2. \/ s.table = "device" /\ t = "registry"
             /\ db["device"][s.id]["registry_id"] = r.id
          \/ s.table = "telemetry" /\ t = "device"
             /\ db["telemetry"][s.id]["device_id"] = r.id
      BY <1>3, <1>5, <2>1 DEF Schema!RefersTo
    <2>3. /\ <<"device", "registry_id", "registry">> \in References
          /\ <<"telemetry", "device_id", "device">> \in References
      BY DEF References
    <2>4. Referenced(t, r.id)
      BY <2>1, <2>2, <2>3 DEF Referenced
    <2> QED
      BY <1>1, <1>3, <2>4 DEF Deletable
  <1>6. Schema!Remove(gone)
    BY <1>1, <1>3, <1>4, <1>5 DEF Schema!Remove
  <1>7. CASE TableRows' # TableRows
    BY <1>6, <1>7 DEF gone, Schema!Next
  <1> QED
    BY <1>1, <1>7

-----------------------------------------------------------------------------
(* The refinement.                                                         *)

\* The rows of the script are under the keys.
LEMMA InitTables == Init => Schema!Init
  <1> SUFFICES ASSUME Init PROVE Schema!Init
    OBVIOUS
  <1>1. db = Script /\ serial = [t \in Tables |-> 0]
    BY DEF Init
  <1>2. ASSUME NEW r \in TableRows
        PROVE  r.table \in {"registry", "device"} /\ r.id \in DOMAIN Script[r.table]
               /\ r.cols = Script[r.table][r.id]
    <2>1. r.table \in Tables /\ r.id \in DOMAIN Script[r.table]
          /\ r.cols = Script[r.table][r.id]
      BY <1>1, RowIs
    <2> QED
      BY <2>1, ScriptAssumption DEF Tables
  <1>3. ASSUME NEW r \in TableRows
        PROVE  Schema!Fits(r, TableRows \ {r})
    <2>1. ASSUME NEW s \in TableRows \ {r}, s.table = r.table
          PROVE  s.id # r.id /\ s.cols.name # r.cols.name
      <3>1. s.id # r.id
        BY <2>1, OneRow
      <3>2. Script[r.table][s.id].name # Script[r.table][r.id].name
        BY <1>2, <2>1, <3>1, ScriptAssumption
      <3> QED
        BY <1>2, <2>1, <3>1, <3>2
    <2>2. ASSUME r.table = "device"
          PROVE  \E s \in TableRows \ {r} : Schema!RefersTo(r, s)
      <3> DEFINE k == r.cols.registry_id
                 s == RowAt("registry", k, db["registry"][k])
      <3>1. k \in DOMAIN db["registry"]
        BY <1>1, <1>2, <2>2, ScriptAssumption
      <3>2. s \in TableRows /\ s.table = "registry" /\ s.id = k
        BY <3>1, RowsAre, RowParts DEF Tables
      <3> HIDE DEF s
      <3>3. Schema!RefersTo(r, s) /\ s # r
        BY <2>2, <3>2 DEF Schema!RefersTo
      <3> QED
        BY <3>2, <3>3
    <2> QED
      BY <1>2, <2>1, <2>2 DEF Schema!Fits
  <1>4. Schema!Integrity
    BY <1>1, <1>2, <1>3 DEF Schema!Integrity, Tables
  <1> QED
    BY <1>1, <1>4 DEF Schema!Init, Tables

\* Steps are steps or stutter.
LEMMA StepTables == IInv /\ [Next]_vars => [Schema!Next]_(Schema!vars)
  <1> SUFFICES ASSUME IInv, [Next]_vars
               PROVE  Schema!Next \/ UNCHANGED <<TableRows, serial>>
    BY DEF Schema!vars
  <1>1. DataOK /\ Change
    BY NextChange DEF IInv, Data
  <1>2. CASE UNCHANGED <<db, serial>>
    BY <1>2 DEF TableRows
  <1> QED
    BY <1>1, <1>2, RefuseStep, InsertStep, RenameStep, RemoveStep DEF Change

\* Whatever is committed between the statements of a request, whatever breaks and
\* whatever a value with an apostrophe is read as, each transaction
\* (HttpRequestHandler.h:28-77, main.cpp:37-52) refuses, adds or renames one row
\* that fits the others, or removes rows that nothing refers to, and the rest do
\* nothing.
THEOREM Refinement == Spec => ImplementsTables
  BY InitTables, StepTables, Invariance, PTL DEF Spec, ImplementsTables, Schema!Spec

-----------------------------------------------------------------------------
(* The integrity of the tables.                                            *)

\* Whatever fitted still fits; a telemetry row's id was drawn.
LEMMA InsertKeeps ==
    ASSUME Schema!Integrity, serial \in [Tables -> Nat], NEW r, r.table \in Tables,
           Schema!Insert(r)
    PROVE  Schema!Integrity'
  <1>1. /\ Schema!Fits(r, TableRows) /\ TableRows' = TableRows \cup {r}
        /\ \A s \in TableRows : ~(s.table = r.table /\ s.id = r.id)
    BY DEF Schema!Insert, Schema!Fits
  <1>2. /\ DOMAIN serial' = Tables
        /\ 1..serial["telemetry"] \subseteq 1..serial'["telemetry"]
        /\ r.table = "telemetry" => r.id \in 1..serial'["telemetry"]
    <2>0. "telemetry" \in Tables
      BY DEF Tables
    <2>1. CASE UNCHANGED serial /\ r.table # "telemetry"
      BY <2>1
    <2>2. CASE serial' = [serial EXCEPT ![r.table] = @ + 1] /\ r.id = serial'[r.table]
      <3>1. serial["telemetry"] \in Nat
        BY <2>0
      <3>2. CASE r.table = "telemetry"
        <4>1. serial'["telemetry"] = serial["telemetry"] + 1
          BY <2>0, <2>2, <3>2
        <4> QED
          BY <2>2, <3>1, <3>2, <4>1
      <3>3. CASE r.table # "telemetry"
        <4>1. serial'["telemetry"] = serial["telemetry"]
          BY <2>0, <2>2, <3>3
        <4> QED
          BY <2>2, <3>3, <4>1
      <3> QED
        BY <3>2, <3>3
    <2> QED
      BY <2>1, <2>2 DEF Schema!Insert, Schema!Draw
  <1>3. ASSUME NEW s \in TableRows'
        PROVE  /\ s.table \in DOMAIN serial'
               /\ Schema!Fits(s, TableRows' \ {s})
               /\ s.table = "telemetry" => s.id \in 1..serial'["telemetry"]
    <2>1. CASE s = r
      <3>1. TableRows' \ {s} = TableRows
        BY <1>1, <2>1
      <3> QED
        BY <1>1, <1>2, <2>1, <3>1
    <2>2. CASE s \in TableRows /\ s # r
      <3>1. TableRows' \ {s} = (TableRows \ {s}) \cup {r}
        BY <1>1, <2>2
      <3>2. s.table = r.table => s.id # r.id
                /\ (s.table # "telemetry" => s.cols.name # r.cols.name)
        BY <1>1, <2>2 DEF Schema!Fits
      <3>3. /\ s.table \in DOMAIN serial /\ Schema!Fits(s, TableRows \ {s})
            /\ s.table = "telemetry" => s.id \in 1..serial["telemetry"]
        BY <2>2 DEF Schema!Integrity
      <3>4. Schema!Fits(s, (TableRows \ {s}) \cup {r})
        BY <3>2, <3>3 DEF Schema!Fits
      <3> QED
        BY <1>2, <3>1, <3>3, <3>4
    <2> QED
      BY <1>1, <2>1, <2>2
  <1> QED
    BY <1>3 DEF Schema!Integrity

\* A foreign key is an id, which a row keeps when it is renamed.
LEMMA RenameKeeps ==
    ASSUME Schema!Integrity, NEW r \in TableRows, NEW s, Schema!Rename(r, s)
    PROVE  Schema!Integrity'
  <1>1. /\ r.table = "registry" /\ s.table = "registry" /\ s.id = r.id
        /\ Schema!Fits(s, TableRows \ {r})
        /\ TableRows' = (TableRows \ {r}) \cup {s}
        /\ serial' = serial
    BY DEF Schema!Rename
  <1>2. \A x \in TableRows : /\ x.table \in DOMAIN serial
                             /\ Schema!Fits(x, TableRows \ {x})
                             /\ x.table = "telemetry" => x.id \in 1..serial["telemetry"]
    BY DEF Schema!Integrity
  <1>3. s \notin TableRows \ {r}
    BY <1>1 DEF Schema!Fits
  <1>4. ASSUME NEW x \in TableRows \ {r}, x # s
        PROVE  Schema!Fits(x, TableRows' \ {x})
    <2>1. Schema!Fits(x, TableRows \ {x})
      BY <1>2
    <2>2. TableRows' \ {x} = (TableRows \ {x, r}) \cup {s}
      BY <1>1, <1>4
    <2>3. Schema!RefersTo(x, r) => Schema!RefersTo(x, s)
      BY <1>1 DEF Schema!RefersTo
    <2>4. x.table # "registry" => \E y \in TableRows' \ {x} : Schema!RefersTo(x, y)
      BY <2>1, <2>2, <2>3 DEF Schema!Fits
    <2>5. x.table = "registry" => s.cols.name # x.cols.name /\ s.id # x.id
      BY <1>1 DEF Schema!Fits
    <2>6. \A y \in TableRows' \ {x} : y.table = x.table =>
             y.id # x.id /\ (x.table # "telemetry" => y.cols.name # x.cols.name)
      BY <1>1, <2>1, <2>2, <2>5 DEF Schema!Fits
    <2> QED
      BY <2>4, <2>6 DEF Schema!Fits
  <1>5. Schema!Fits(s, TableRows' \ {s})
    <2>1. TableRows' \ {s} = TableRows \ {r}
      BY <1>1, <1>3
    <2> QED
      BY <1>1, <2>1
  <1>6. ASSUME NEW x \in TableRows'
        PROVE  /\ x.table \in DOMAIN serial' /\ Schema!Fits(x, TableRows' \ {x})
               /\ x.table = "telemetry" => x.id \in 1..serial'["telemetry"]
    BY <1>1, <1>2, <1>4, <1>5
  <1> QED
    BY <1>6 DEF Schema!Integrity

\* No row that stays referred to one that goes.
LEMMA RemoveKeeps ==
    ASSUME Schema!Integrity, NEW gone, Schema!Remove(gone)
    PROVE  Schema!Integrity'
  <1>1. /\ \A r \in gone, s \in TableRows \ gone : ~Schema!RefersTo(s, r)
        /\ TableRows' = TableRows \ gone /\ serial' = serial
    BY DEF Schema!Remove
  <1>2. ASSUME NEW x \in TableRows'
        PROVE  /\ x.table \in DOMAIN serial' /\ Schema!Fits(x, TableRows' \ {x})
               /\ x.table = "telemetry" => x.id \in 1..serial'["telemetry"]
    <2>1. /\ x.table \in DOMAIN serial /\ Schema!Fits(x, TableRows \ {x})
          /\ x.table = "telemetry" => x.id \in 1..serial["telemetry"]
      BY <1>1 DEF Schema!Integrity
    <2>2. TableRows' \ {x} = (TableRows \ {x}) \ gone /\ x \in TableRows \ gone
      BY <1>1
    <2>3. Schema!Fits(x, TableRows' \ {x})
      BY <1>1, <2>1, <2>2 DEF Schema!Fits
    <2> QED
      BY <1>1, <2>1, <2>3
  <1> QED
    BY <1>2 DEF Schema!Integrity

\* Ids that were drawn stay drawn.
LEMMA RefuseKeeps ==
    ASSUME Schema!Integrity, serial \in [Tables -> Nat], NEW t, Schema!Refuse(t)
    PROVE  Schema!Integrity'
  <1>1. /\ DOMAIN serial = Tables /\ DOMAIN serial' = Tables
        /\ 1..serial["telemetry"] \subseteq 1..serial'["telemetry"]
        /\ TableRows' = TableRows
    <2>1. /\ t \in Tables /\ serial' = [serial EXCEPT ![t] = @ + 1]
          /\ serial["telemetry"] \in Nat /\ "telemetry" \in Tables
      BY DEF Schema!Refuse, Schema!Draw, Tables
    <2>2. serial'["telemetry"] \in {serial["telemetry"], serial["telemetry"] + 1}
      BY <2>1
    <2> QED
      BY <2>1, <2>2 DEF Schema!Refuse
  <1>2. \A x \in TableRows' :
           /\ x.table \in DOMAIN serial' /\ Schema!Fits(x, TableRows' \ {x})
           /\ x.table = "telemetry" => x.id \in 1..serial'["telemetry"]
    BY <1>1 DEF Schema!Integrity
  <1> QED
    BY <1>2 DEF Schema!Integrity

\* Every step of the abstract tables keeps their integrity.
LEMMA IntegrityNext ==
    ASSUME Schema!Integrity, serial \in [Tables -> Nat],
           \A r \in TableRows' : r.table \in Tables,
           [Schema!Next]_(Schema!vars)
    PROVE  Schema!Integrity'
  <1>1. CASE UNCHANGED Schema!vars
    <2>1. TableRows' = TableRows /\ serial' = serial
      BY <1>1 DEF Schema!vars
    <2> QED
      BY <2>1 DEF Schema!Integrity
  <1>2. CASE Schema!Next
    BY <1>2, RefuseKeeps, InsertKeeps, RenameKeeps, RemoveKeeps DEF Schema!Next
  <1> QED
    BY <1>1, <1>2

\* The tables never lose their integrity: ids are unique, also beside those that
\* the script gave, the names of registries and of devices are unique, a device's
\* registry and the device of a telemetry row exist (database.sql:8-85), although
\* the checks, deletions and insertions of two threads and an operator interleave.
\* Shown of the abstract tables, and true here because they are implemented.
THEOREM IntegrityAlways == Spec => []Schema!Integrity
  <1>1. Init => Schema!Integrity
    BY InitTables DEF Schema!Init
  <1>2. IInv /\ IInv' /\ Schema!Integrity /\ [Next]_vars => Schema!Integrity'
    <2>1. IInv => serial \in [Tables -> Nat]
      BY BoundsAssumption DEF IInv, Data, DataOK
    <2>2. \A r \in TableRows' : r.table \in Tables
      BY DEF TableRows
    <2> QED
      BY <2>1, <2>2, StepTables, IntegrityNext
  <1> QED
    BY <1>1, <1>2, Invariance, PTL DEF Spec
=============================================================================
