---------------------------- MODULE RegistryTables --------------------------
(***************************************************************************)
(* What the registry's tables are to everybody who uses them, with nothing *)
(* of the statements, threads, connections and failures behind it: sets of *)
(* rows of which one at a time is added or renamed, or some are removed,   *)
(* always under the keys of database.sql.  Ids are drawn in turn or, for   *)
(* the rows of the script, given with the row.                             *)
(***************************************************************************)
EXTENDS Naturals

VARIABLES
    rows,   \* the rows of all tables
    serial  \* serial[t]: the last id drawn for table t

vars == <<rows, serial>>

\* r's foreign key is the id of s.
RefersTo(r, s) ==
    \/ r.table = "device" /\ s.table = "registry" /\ r.cols.registry_id = s.id
    \/ r.table = "telemetry" /\ s.table = "device" /\ r.cols.device_id = s.id

\* r can stand beside the others: its id and its name are not taken, and its
\* foreign key is the id of one of them.
Fits(r, others) ==
    /\ \A s \in others : s.table = r.table => s.id # r.id
    /\ r.table # "registry" => \E s \in others : RefersTo(r, s)
    /\ r.table # "telemetry" =>
          \A s \in others : s.table = r.table => s.cols.name # r.cols.name

\* Primary keys, unique names, foreign keys; the ids of telemetry were drawn.
Integrity ==
    \A r \in rows :
        /\ r.table \in DOMAIN serial
        /\ Fits(r, rows \ {r})
        /\ r.table = "telemetry" => r.id \in 1..serial["telemetry"]

Init ==
    /\ serial = [t \in {"registry", "device", "telemetry"} |-> 0]
    /\ Integrity

Draw(t) == t \in DOMAIN serial /\ serial' = [serial EXCEPT ![t] = @ + 1]

\* The row is refused, or its transaction is lost: the id is gone.
Refuse(t) == Draw(t) /\ UNCHANGED rows

\* A row with an id that was drawn, or one of the script with its own.
Insert(r) ==
    /\ \/ Draw(r.table) /\ r.id = serial'[r.table]
       \/ r.table \in {"registry", "device"} /\ UNCHANGED serial
    /\ Fits(r, rows)
    /\ rows' = rows \cup {r}

\* Only registries are ever renamed.
Rename(r, s) ==
    /\ r.table = "registry" /\ s.table = r.table /\ s.id = r.id
    /\ Fits(s, rows \ {r})
    /\ rows' = (rows \ {r}) \cup {s}
    /\ UNCHANGED serial

\* Rows of one table go; nothing that stays refers to them.
Remove(gone) ==
    /\ \A r, s \in gone : r.table = s.table
    /\ \A r \in gone, s \in rows \ gone : ~RefersTo(s, r)
    /\ rows' = rows \ gone
    /\ UNCHANGED serial

Next ==
    \/ \E t \in DOMAIN serial : Refuse(t)
    \/ /\ rows' # rows
       /\ \/ \E r \in rows' \ rows :
                Insert(r) \/ \E gone \in rows \ rows' : Rename(gone, r)
          \/ Remove(rows \ rows')

Spec == Init /\ [][Next]_vars
=============================================================================
