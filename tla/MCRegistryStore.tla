--------------------------- MODULE MCRegistryStore --------------------------
(* RegistryStore for TLC: one request of each kind that the pages send, and *)
(* the odd ones (no id, wrong column, malformed body, an apostrophe); not   *)
(* POST of a device, which is always refused and only draws ids.            *)
EXTENDS RegistryStore, TLC

CONSTANTS n1, n2

Req(verb, path, params, page, body) ==
    [verb |-> verb, path |-> path, params |-> params, page |-> page, body |-> body]

MCRequests ==
    {Req("get", p, <<>>, 0, Malformed) :
        p \in {"registries", "devices", "devices-telemetry"}}
    \cup {Req("get", "devices-telemetry", <<>>, 1, Malformed),
          Req("get", "devices", [name |-> n1], 0, Malformed),
          Req("get", "devices-telemetry", [name |-> n1], 0, Malformed),
          Req("get", "devices-telemetry", [device_id |-> 1], 0, Malformed),
          Req("get", "registries", [name |-> Raw], 0, Malformed),
          Req("get", "devices-telemetry", [id |-> 1], 0, Malformed)}
    \cup {Req("post", p, [id |-> 2], 0, [id |-> 2, name |-> n2]) :
        p \in {"registries", "devices-telemetry"}}
    \cup {Req("post", "registries", [id |-> 2], 0, [id |-> 2, name |-> Raw]),
          Req("put", "devices", [id |-> 1], 0, [id |-> 1, name |-> n2])}
    \cup {Req("put", "registries", [id |-> 1], 0, b) :
        b \in {Malformed, [id |-> 1, name |-> n1], [id |-> 2, name |-> n2],
               [id |-> 2, name |-> Raw]}}
    \cup {Req("delete", p, [id |-> 1], 0, Malformed) :
        p \in {"registries", "devices", "devices-telemetry"}}
    \cup {Req("delete", "devices-telemetry", q, 0, Malformed) :
        q \in {<<>>, [id |-> Raw]}}

\* As in database.sql the devices belong to registry 2; one of them cannot be
\* converted.
MCScript ==
    [registry  |-> 2 :> [name |-> n1],
     device    |-> 1 :> [name |-> n1, registry_id |-> 2, json |-> TRUE]
                   @@ 2 :> [name |-> n2, registry_id |-> 2, json |-> FALSE],
     telemetry |-> <<>>]
=============================================================================
