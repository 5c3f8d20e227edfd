---------------------------- MODULE MCVssService ----------------------------
(***************************************************************************)
(* The dispatcher with two connections over keys {a, gvk}: a put that      *)
(* inserts, a conditional put that conflicts on an empty store, an         *)
(* oversized put, an unconditional and a conditional delete, a get and a   *)
(* first-page list; every endpoint, the test endpoint, an unknown path and *)
(* a path without /vss.                                                    *)
(***************************************************************************)
EXTENDS VssService

CONSTANTS a, gvk

MCKeys == {a, gvk}

KV(k, v) == [key |-> k, version |-> v]

MCRequests ==
    { [op |-> "put", txn |-> <<KV(a, 0)>>, del |-> <<>>, gv |-> None],
      [op |-> "put", txn |-> <<KV(a, 1)>>, del |-> <<>>, gv |-> None],
      [op |-> "put", txn |-> <<KV(a, 0)>>, del |-> <<KV(a, -1)>>, gv |-> None],
      [op |-> "delete", kv |-> KV(a, -1)],
      [op |-> "delete", kv |-> KV(a, 1)],
      [op |-> "get", key |-> a],
      [op |-> "list", first |-> TRUE] }

MCPaths ==
    {<<"/vss", "/getObject">>, <<"/vss", "/putObjects">>, <<"/vss", "/deleteObject">>,
     <<"/vss", "/listKeyVersions">>, <<"/vss", "/testSentry">>, <<"/vss", "/other">>,
     <<"/api", "/putObjects">>}

MCI64Max == 2147483647
=============================================================================
