------------------------------- MODULE MCServing -------------------------------
(* A server with one request slot, two clients and a readiness probe, before a *)
(* center that replaces its key.                                               *)
EXTENDS Serving

CONSTANTS r1, r2, p1, k1, k2

MCKeySets == {{k1}, {k2}}

Msg(route, ingests, approves, contributes) ==
  [route |-> route, kid |-> k1, bearer |-> TRUE, claims |-> TRUE,
   mind |-> TRUE, ingest |-> ingests, scope |-> approves,
   reads |-> TRUE, contributes |-> contributes, formed |-> TRUE]

MCTraffic ==
  { Msg("approve", FALSE, TRUE, TRUE),
    Msg("ingestScope", TRUE, FALSE, TRUE),
    Msg("ingest", TRUE, FALSE, TRUE),
    Msg("ingest", TRUE, FALSE, FALSE) }
================================================================================
