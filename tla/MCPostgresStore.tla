--------------------------- MODULE MCPostgresStore ---------------------------
(* PostgresStore instantiated for TLC: two concurrent requests, one data    *)
(* key beside the reserved global version key, and batches of at most one *)
(* item (MAX_PUT_REQUEST_ITEM_COUNT scaled from 1000 to 1, so that a       *)
(* two-item batch is the oversized one).                                   *)
EXTENDS PostgresStore

CONSTANTS a, gvk

MCKeys == {a, gvk}

\* Versions a request may carry: the unconditional sentinel, insert, and
\* the versions stored rows reach.
MCVersions == {-1, 0, 1}

KV(k, v) == [key |-> k, version |-> v]

OneOrNone(S) == {<<>>} \cup {<<x>> : x \in S}

\* Batches write the data key and the global version, in both orders
\* (transaction_items before the global version record, and the global
\* version record before delete_items), so that two batches can wait on
\* each other.
MCRequests ==
    [op : {"put"}, txn : OneOrNone({KV(a, v) : v \in MCVersions}),
     del : OneOrNone({KV(a, -1), KV(a, 1), KV(gvk, 1)}), gv : {None, 0, 1}]
    \cup [op : {"delete"}, kv : {KV(a, -1), KV(a, 1), None}]
    \cup [op : {"get"}, key : MCKeys]
    \cup [op : {"list"}, first : BOOLEAN]

\* Two batches that lock the data key and the global version key in
\* opposite orders once both rows exist, and a first-page list.
LivenessRequests ==
    {[op |-> "put", txn |-> <<KV(a, 0)>>, del |-> <<>>, gv |-> 0],
     [op |-> "put", txn |-> <<KV(a, 1)>>, del |-> <<>>, gv |-> 1],
     [op |-> "put", txn |-> <<>>, del |-> <<KV(a, -1)>>, gv |-> -1],
     [op |-> "list", first |-> TRUE]}

\* Batches that follow the client convention of spec.md 3: every write of
\* the data key bumps the global version in the same batch.
ConventionRequests ==
    {[op |-> "put", txn |-> <<KV(a, v)>>, del |-> <<>>, gv |-> v] : v \in {0, 1}}
    \cup {[op |-> "list", first |-> TRUE]}

\* The largest integer TLC represents stands for i64::MAX.
MCI64Max == 2147483647
=============================================================================
