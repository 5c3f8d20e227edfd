----------------------------- MODULE KvStoreOps -----------------------------
(***************************************************************************)
(* The data of the VSS storage engine (impls/src/postgres_store.rs) and    *)
(* the meaning of each SQL statement it issues.  One (user_token,          *)
(* store_id) namespace is modelled: every statement of the engine filters  *)
(* by both, so namespaces never interact.  A record is abstracted to its   *)
(* version; the value bytes are opaque to every check the engine makes.   *)
(***************************************************************************)
EXTENDS Integers, Sequences, SequencesExt

CONSTANTS
    Keys,                       \* record keys of the namespace
    GLOBAL_VERSION_KEY,         \* the reserved key "vss_global_version"
    INITIAL_RECORD_VERSION,     \* api::kv_store::INITIAL_RECORD_VERSION
    I64_MAX,                    \* the largest version the column holds
    MAX_PUT_REQUEST_ITEM_COUNT, \* bound on items of one PutObjectRequest
    Absent,                     \* no row for the key
    None                        \* an absent optional field

ASSUME GLOBAL_VERSION_KEY \in Keys

KeyValue == [key : Keys, version : Int]

PutObjectRequest ==
    [op : {"put"}, txn : Seq(KeyValue), del : Seq(KeyValue), gv : Int \cup {None}]
DeleteObjectRequest == [op : {"delete"}, kv : KeyValue \cup {None}]
GetObjectRequest == [op : {"get"}, key : Keys]
\* first: the request carries no page_token, so the global version is read.
ListKeyVersionsRequest == [op : {"list"}, first : BOOLEAN]

(***************************************************************************)
(* A statement of the write set: an upsert/insert/update ("put") or a      *)
(* delete, with the version the request carried.                           *)
(***************************************************************************)
VssDbRecord == [kind : {"put", "delete"}, key : Keys, version : Int]

build_vss_record(kind, kv) == [kind |-> kind, key |-> kv.key, version |-> kv.version]

\* put: an oversized batch is refused before any statement runs.
TooManyItems(r) == Len(r.txn) + Len(r.del) > MAX_PUT_REQUEST_ITEM_COUNT

\* put: transaction_items, then the global version record, then delete_items.
PutStatements(r) ==
    [i \in 1..Len(r.txn) |-> build_vss_record("put", r.txn[i])]
    \o (IF r.gv = None THEN <<>>
        ELSE <<build_vss_record("put", [key |-> GLOBAL_VERSION_KEY, version |-> r.gv])>>)
    \o [i \in 1..Len(r.del) |-> build_vss_record("delete", r.del[i])]

\* The statements a put or delete request runs in its transaction.
Statements(r) ==
    IF r.op = "put" THEN PutStatements(r) ELSE <<build_vss_record("delete", r.kv)>>

\* The order spec.md 4.1 states: transaction_items, delete_items, then the
\* global version record.
SpecStatements(r) ==
    IF r.op = "put"
      THEN [i \in 1..Len(r.txn) |-> build_vss_record("put", r.txn[i])]
           \o [i \in 1..Len(r.del) |-> build_vss_record("delete", r.del[i])]
           \o (IF r.gv = None THEN <<>>
               ELSE <<build_vss_record("put", [key |-> GLOBAL_VERSION_KEY, version |-> r.gv])>>)
      ELSE Statements(r)

InvalidRequest(r) ==
    \/ r.op = "put" /\ TooManyItems(r)
    \/ r.op = "delete" /\ r.kv = None

(***************************************************************************)
(* One statement against the row it sees (a version or Absent): the rows  *)
(* affected and the row afterwards.                                        *)
(***************************************************************************)
NoRow(v) == [rows |-> 0, row |-> v]
Wrote(v) == [rows |-> 1, row |-> v]

saturating_add_one(v) == IF v = I64_MAX THEN v ELSE v + 1

\* Mutant: the upsert stores the version the request carried.
execute_put_object_query_request_version(s, v) ==
    CASE s.version = -1 -> Wrote(s.version)
      [] s.version = 0  -> IF v = Absent THEN Wrote(INITIAL_RECORD_VERSION) ELSE NoRow(v)
      [] OTHER          -> IF v = s.version THEN Wrote(saturating_add_one(s.version))
                                            ELSE NoRow(v)

\* Mutant: the insert of version 0 upserts (ON CONFLICT DO UPDATE).
execute_put_object_query_insert_upsert(s, v) ==
    CASE s.version = -1 -> Wrote(INITIAL_RECORD_VERSION)
      [] s.version = 0  -> Wrote(INITIAL_RECORD_VERSION)
      [] OTHER          -> IF v = s.version THEN Wrote(saturating_add_one(s.version))
                                            ELSE NoRow(v)

execute_put_object_query(s, v) ==
    CASE s.version = -1 -> Wrote(INITIAL_RECORD_VERSION)
      [] s.version = 0  -> IF v = Absent THEN Wrote(INITIAL_RECORD_VERSION) ELSE NoRow(v)
      [] OTHER          -> IF v = s.version THEN Wrote(saturating_add_one(s.version))
                                            ELSE NoRow(v)

execute_delete_object_query(s, v) ==
    IF v # Absent /\ (s.version = -1 \/ v = s.version) THEN Wrote(Absent) ELSE NoRow(v)

Execute(s, v) ==
    IF s.kind = "put" THEN execute_put_object_query(s, v)
                      ELSE execute_delete_object_query(s, v)

\* Statements that insert (and so wait on an uncommitted row of the key).
IsInsert(s) == s.kind = "put" /\ s.version \in {-1, 0}

(***************************************************************************)
(* The whole write set run in order against one state of the table: the    *)
(* table afterwards and whether every statement affected a row.            *)
(***************************************************************************)
RunBatch(table, stmts) ==
    LET step(acc, s) ==
            LET e == Execute(s, acc.table[s.key])
            IN  [table |-> [acc.table EXCEPT ![s.key] = e.row],
                 ok    |-> acc.ok /\ e.rows = 1]
    IN  FoldLeft(step, [table |-> table, ok |-> TRUE], stmts)

\* get: a missing global version key reads as version 0.
GetResult(v, key) ==
    CASE v # Absent                -> [status |-> "Ok", data |-> [version |-> v]]
      [] key = GLOBAL_VERSION_KEY  -> [status |-> "Ok", data |-> [version |-> 0]]
      [] OTHER                     -> [status |-> "NoSuchKey", data |-> None]

\* list: every key but the reserved one, with its version (Absent: not listed).
ListedVersions(table) == [k \in Keys \ {GLOBAL_VERSION_KEY} |-> table[k]]

Reply(status) == [status |-> status, data |-> None]
=============================================================================
