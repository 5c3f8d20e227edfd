---------------------------- MODULE PostgresStore ----------------------------
(***************************************************************************)
(* PostgresBackendImpl (impls/src/postgres_store.rs) serving concurrent    *)
(* requests.  Each client is one request future of the server; its steps  *)
(* are the awaits of the handler: taking a pooled connection, BEGIN, each  *)
(* statement, COMMIT or ROLLBACK, and the queries of get and list.         *)
(*                                                                         *)
(* The database is PostgreSQL at READ COMMITTED, its default:              *)
(*   - committed holds the committed table; writes[c] the rows c's open    *)
(*     transaction wrote, each of which it holds a row lock on;            *)
(*   - a statement on a key another open transaction holds waits for that  *)
(*     transaction to end, and then runs against the newest row; an UPDATE *)
(*     or DELETE of a key with no committed row does not see the other's   *)
(*     uncommitted insert and affects no row without waiting;              *)
(*   - a wait cycle is broken by the deadlock detector, which fails the    *)
(*     statement of one transaction in it.                                 *)
(* Any await may also fail (connection, statement or commit error), and   *)
(* the caller may drop the request future, which rolls the transaction     *)
(* back (tokio_postgres::Transaction rolls back on drop).                  *)
(***************************************************************************)
EXTENDS KvStoreOps, FiniteSets, Relation

CONSTANTS Clients, Requests, NoReq, PoolSize

VARIABLES
    committed, \* the committed table: Keys -> version or Absent
    pc,        \* where each request future is suspended
    req,       \* its request, or NoReq
    rows,      \* batch_results: rows affected by each statement run so far
    writes,    \* rows written by its open transaction: Keys -> row or None
    txn,       \* state of its database transaction
    held,      \* clients holding a pooled connection
    gvRead,    \* list: the global version read for the first page
    resp       \* its response, or None

vars == <<committed, pc, req, rows, writes, txn, held, gvRead, resp>>

PCs == {"idle", "acquire", "begin", "exec", "finish", "query",
        "gv_acquire", "gv_query", "done"}

NoWrites == [k \in Keys |-> None]

\* Stored rows only ever hold versions from INITIAL_RECORD_VERSION up.
IsRow(v) == v = Absent \/ v \in INITIAL_RECORD_VERSION..I64_MAX

TypeOK ==
    /\ DOMAIN committed = Keys /\ \A k \in Keys : IsRow(committed[k])
    /\ pc \in [Clients -> PCs]
    /\ req \in [Clients -> Requests \cup {NoReq}]
    /\ rows \in [Clients -> Seq({0, 1})]
    /\ DOMAIN writes = Clients /\ \A c \in Clients : DOMAIN writes[c] = Keys
    /\ \A c \in Clients, k \in Keys : writes[c][k] = None \/ IsRow(writes[c][k])
    /\ txn \in [Clients -> {"none", "open", "committed", "aborted"}]
    /\ held \subseteq Clients
    /\ gvRead \in [Clients -> Int \cup {None}]
    /\ resp \in [Clients -> {None} \cup [status : {"Ok", "Conflict", "NoSuchKey",
                    "InvalidRequest", "InternalServerError"},
                    data : {None} \cup [version : Int] \cup [gv : Int \cup {None},
                                  kv : [Keys \ {GLOBAL_VERSION_KEY} -> Int \cup {Absent}]]]]

Init ==
    /\ committed = [k \in Keys |-> Absent]
    /\ pc = [c \in Clients |-> "idle"]
    /\ req = [c \in Clients |-> NoReq]
    /\ rows = [c \in Clients |-> <<>>]
    /\ writes = [c \in Clients |-> NoWrites]
    /\ txn = [c \in Clients |-> "none"]
    /\ held = {}
    /\ gvRead = [c \in Clients |-> None]
    /\ resp = [c \in Clients |-> None]

-----------------------------------------------------------------------------
(* Row visibility and locking.                                             *)

\* The row of k as c's transaction sees it.
View(c, k) == IF writes[c][k] # None THEN writes[c][k] ELSE committed[k]

NextStatement(c) == Statements(req[c])[Len(rows[c]) + 1]

LockedByOther(c, k) == \E u \in Clients \ {c} : writes[u][k] # None

\* An UPDATE or DELETE finds no committed row: it does not wait.
RowInvisible(c, s) == ~IsInsert(s) /\ View(c, s.key) = Absent

Blocked(c) ==
    /\ pc[c] = "exec"
    /\ LockedByOther(c, NextStatement(c).key)
    /\ ~RowInvisible(c, NextStatement(c))

WaitsFor == [p \in Clients \X Clients |->
                Blocked(p[1]) /\ p[1] # p[2] /\ writes[p[2]][NextStatement(p[1]).key] # None]

InWaitCycle(c) == TransitiveClosure(WaitsFor, Clients)[c, c]

\* Mutant: only the last statement's row count is checked.
ConflictedLastOnly(c) == Len(rows[c]) > 0 /\ rows[c][Len(rows[c])] = 0

\* The zero-rows check of put (and of delete) over batch_results.
Conflicted(c) == \E i \in 1..Len(rows[c]) : rows[c][i] = 0

\* Mutant: a transaction that does not commit keeps its connection.
EndTransactionLeakingConnection(c, outcome) ==
    /\ writes' = [writes EXCEPT ![c] = NoWrites]
    /\ txn' = [txn EXCEPT ![c] = outcome]
    /\ held' = IF outcome = "committed" THEN held \ {c} ELSE held

\* The transaction ends: its row locks are released, its connection returned.
EndTransaction(c, outcome) ==
    /\ writes' = [writes EXCEPT ![c] = NoWrites]
    /\ txn' = [txn EXCEPT ![c] = outcome]
    /\ held' = held \ {c}

Answer(c, r) ==
    /\ resp' = [resp EXCEPT ![c] = r]
    /\ pc' = [pc EXCEPT ![c] = "done"]

-----------------------------------------------------------------------------
(* Steps of a request future.                                              *)

\* The handler is called: the synchronous checks before its first await.
Invoke(c, r) ==
    /\ pc[c] = "idle"
    /\ req' = [req EXCEPT ![c] = r]
    /\ IF InvalidRequest(r)
         THEN Answer(c, Reply("InvalidRequest"))
         ELSE /\ pc' = [pc EXCEPT ![c] = IF r.op = "list" /\ r.first
                                           THEN "gv_acquire" ELSE "acquire"]
              /\ UNCHANGED resp
    /\ UNCHANGED <<committed, rows, writes, txn, held, gvRead>>

\* self.pool.get().await
Acquire(c) ==
    /\ pc[c] \in {"acquire", "gv_acquire"}
    /\ Cardinality(held) < PoolSize
    /\ held' = held \cup {c}
    /\ pc' = [pc EXCEPT ![c] = CASE pc[c] = "gv_acquire"            -> "gv_query"
                                 [] req[c].op \in {"put", "delete"} -> "begin"
                                 [] OTHER                           -> "query"]
    /\ UNCHANGED <<committed, req, rows, writes, txn, gvRead, resp>>

\* The pool gives up (connection_timeout) or cannot connect.
PoolError(c) ==
    /\ pc[c] \in {"acquire", "gv_acquire"}
    /\ Answer(c, Reply("InternalServerError"))
    /\ UNCHANGED <<committed, req, rows, writes, txn, held, gvRead>>

\* conn.transaction().await
Begin(c) ==
    /\ pc[c] = "begin"
    /\ txn' = [txn EXCEPT ![c] = "open"]
    /\ pc' = [pc EXCEPT ![c] = IF Statements(req[c]) = <<>> THEN "finish" ELSE "exec"]
    /\ UNCHANGED <<committed, req, rows, writes, held, gvRead, resp>>

BeginError(c) ==
    /\ pc[c] = "begin"
    /\ held' = held \ {c}
    /\ Answer(c, Reply("InternalServerError"))
    /\ UNCHANGED <<committed, req, rows, writes, txn, gvRead>>

\* One execute_*_query(...).await of the batch, once no lock holds it up.
ExecStmt(c) ==
    /\ pc[c] = "exec"
    /\ ~Blocked(c)
    /\ LET s == NextStatement(c)
           e == Execute(s, View(c, s.key))
       IN  /\ rows' = [rows EXCEPT ![c] = Append(@, e.rows)]
           /\ writes' = IF e.rows = 1 THEN [writes EXCEPT ![c][s.key] = e.row]
                                      ELSE writes
    /\ pc' = [pc EXCEPT ![c] = IF Len(rows[c]) + 1 = Len(Statements(req[c]))
                                 THEN "finish" ELSE "exec"]
    /\ UNCHANGED <<committed, req, txn, held, gvRead, resp>>

\* A statement fails ('?' returns the error); dropping the transaction
\* rolls it back.
StmtError(c) ==
    /\ pc[c] = "exec"
    /\ EndTransaction(c, "aborted")
    /\ Answer(c, Reply("InternalServerError"))
    /\ UNCHANGED <<committed, req, rows, gvRead>>

\* The deadlock detector fails the waiting statement of one transaction
\* of a wait cycle.
DeadlockAbort(c) ==
    /\ Blocked(c)
    /\ InWaitCycle(c)
    /\ EndTransaction(c, "aborted")
    /\ Answer(c, Reply("InternalServerError"))
    /\ UNCHANGED <<committed, req, rows, gvRead>>

\* transaction.commit().await: every statement affected a row.  The commit
\* may take effect and its acknowledgement still be lost.
Commit(c) ==
    /\ pc[c] = "finish"
    /\ ~Conflicted(c)
    /\ committed' = [k \in Keys |-> View(c, k)]
    /\ EndTransaction(c, "committed")
    /\ \E s \in {"Ok", "InternalServerError"} : Answer(c, Reply(s))
    /\ UNCHANGED <<req, rows, gvRead>>

\* The COMMIT never reaches the server.
CommitError(c) ==
    /\ pc[c] = "finish"
    /\ ~Conflicted(c)
    /\ EndTransaction(c, "aborted")
    /\ Answer(c, Reply("InternalServerError"))
    /\ UNCHANGED <<committed, req, rows, gvRead>>

\* transaction.rollback().await after a zero-row statement: put answers
\* ConflictError, delete answers Ok; a rollback error answers
\* InternalServerError.
Rollback(c) ==
    /\ pc[c] = "finish"
    /\ Conflicted(c)
    /\ EndTransaction(c, "aborted")
    /\ \E s \in IF req[c].op = "put" THEN {"Conflict", "InternalServerError"}
                                      ELSE {"Ok", "InternalServerError"} :
          Answer(c, Reply(s))
    /\ UNCHANGED <<committed, req, rows, gvRead>>

\* get: the SELECT of the row; the connection is dropped on return.
GetQuery(c) ==
    /\ pc[c] = "query" /\ req[c].op = "get"
    /\ held' = held \ {c}
    /\ Answer(c, GetResult(committed[req[c].key], req[c].key))
    /\ UNCHANGED <<committed, req, rows, writes, txn, gvRead>>

\* list: the key query, without the reserved key.
ListQuery(c) ==
    /\ pc[c] = "query" /\ req[c].op = "list"
    /\ held' = held \ {c}
    /\ Answer(c, [status |-> "Ok",
                  data   |-> [gv |-> gvRead[c], kv |-> ListedVersions(committed)]])
    /\ UNCHANGED <<committed, req, rows, writes, txn, gvRead>>

\* list, first page: self.get(GLOBAL_VERSION_KEY) before the key query.
GlobalVersionQuery(c) ==
    /\ pc[c] = "gv_query"
    /\ gvRead' = [gvRead EXCEPT ![c] = GetResult(committed[GLOBAL_VERSION_KEY],
                                                 GLOBAL_VERSION_KEY).data.version]
    /\ held' = held \ {c}
    /\ pc' = [pc EXCEPT ![c] = "acquire"]
    /\ UNCHANGED <<committed, req, rows, writes, txn, resp>>

QueryError(c) ==
    /\ pc[c] \in {"query", "gv_query"}
    /\ held' = held \ {c}
    /\ Answer(c, Reply("InternalServerError"))
    /\ UNCHANGED <<committed, req, rows, writes, txn, gvRead>>

\* The response is written and the future completes.
Return(c) ==
    /\ pc[c] = "done"
    /\ pc' = [pc EXCEPT ![c] = "idle"]
    /\ req' = [req EXCEPT ![c] = NoReq]
    /\ rows' = [rows EXCEPT ![c] = <<>>]
    /\ txn' = [txn EXCEPT ![c] = "none"]
    /\ gvRead' = [gvRead EXCEPT ![c] = None]
    /\ resp' = [resp EXCEPT ![c] = None]
    /\ UNCHANGED <<committed, writes, held>>

\* The connection goes away and hyper drops the future at an await.
Cancel(c) ==
    /\ pc[c] \notin {"idle", "done"}
    /\ EndTransaction(c, "none")
    /\ pc' = [pc EXCEPT ![c] = "idle"]
    /\ req' = [req EXCEPT ![c] = NoReq]
    /\ rows' = [rows EXCEPT ![c] = <<>>]
    /\ gvRead' = [gvRead EXCEPT ![c] = None]
    /\ UNCHANGED <<committed, resp>>

Next ==
    \E c \in Clients :
        \/ \E r \in Requests : Invoke(c, r)
        \/ Acquire(c) \/ PoolError(c)
        \/ Begin(c) \/ BeginError(c)
        \/ ExecStmt(c) \/ StmtError(c) \/ DeadlockAbort(c)
        \/ Commit(c) \/ CommitError(c) \/ Rollback(c)
        \/ GetQuery(c) \/ ListQuery(c) \/ GlobalVersionQuery(c) \/ QueryError(c)
        \/ Return(c) \/ Cancel(c)

(***************************************************************************)
(* Fairness.  Every await but an error or a cancellation completes: the    *)
(* pool and PostgreSQL's lock queue serve waiters in turn (strong          *)
(* fairness for the steps that wait), the deadlock detector runs after     *)
(* deadlock_timeout, and the server writes every response.  A client need *)
(* never send another request.                                             *)
(***************************************************************************)
Fairness ==
    \A c \in Clients :
        /\ SF_vars(Acquire(c)) /\ SF_vars(ExecStmt(c))
        /\ WF_vars(Begin(c)) /\ WF_vars(DeadlockAbort(c))
        /\ WF_vars(Commit(c)) /\ WF_vars(Rollback(c))
        /\ WF_vars(GetQuery(c)) /\ WF_vars(ListQuery(c))
        /\ WF_vars(GlobalVersionQuery(c))
        /\ WF_vars(Return(c))

Spec == Init /\ [][Next]_vars
FairSpec == Spec /\ Fairness

-----------------------------------------------------------------------------
(* Properties.                                                             *)

(* How far each request is linearized, as VssStore sees it: a committed    *)
(* transaction has taken effect; a zero-row statement has rejected the     *)
(* batch.                                                                   *)
AbsOut(c) ==
    CASE req[c] = NoReq                                       -> None
      [] InvalidRequest(req[c])                               -> "invalid"
      [] txn[c] = "committed"                                 -> "applied"
      [] req[c].op \in {"put", "delete"} /\ Conflicted(c)     -> "rejected"
      [] OTHER                                                -> "pending"

Abs == INSTANCE VssStore WITH store <- committed, out <- [c \in Clients |-> AbsOut(c)],
                          gvSeen <- gvRead, WriteSet <- Statements

\* VssStore with each batch in the order spec.md 4.1 states.
AbsSpecOrder == INSTANCE VssStore WITH store <- committed, out <- [c \in Clients |-> AbsOut(c)],
                                   gvSeen <- gvRead, WriteSet <- SpecStatements

(* Serving requests concurrently at READ COMMITTED, with row locks,        *)
(* deadlocks, errors at every await and dropped futures, the engine        *)
(* behaves as VssStore: every put (and delete) takes effect atomically as  *)
(* its statements run in order against one state of the table, a Conflict *)
(* answer means the batch was rejected against some state and nothing of *)
(* it was written, and get and list read committed states only.            *)
Linearizable == Abs!Spec

(* spec.md 4.1 runs delete_items before the global version record and     *)
(* allows another order only if it is equivalent.  The engine, which runs  *)
(* the global version record between transaction_items and delete_items,  *)
(* behaves as VssStore with batches in the spec's order.                  *)
LinearizableInSpecOrder == AbsSpecOrder!Spec

(* Every request the server starts is eventually answered (or dropped by   *)
(* its caller): no put or delete waits forever on row locks, because the   *)
(* deadlock detector breaks every wait cycle that two batches locking      *)
(* keys in opposite orders can form.                                       *)
EveryRequestAnswered == \A c \in Clients : pc[c] # "idle" ~> pc[c] \in {"idle", "done"}

(* spec.md 8, property 5: every key returned on a first page of           *)
(* list_key_versions has a version at most the returned global_version.    *)
FirstPageWithinGlobalVersion ==
    \A c \in Clients :
        (resp[c] # None /\ req[c].op = "list" /\ req[c].first /\ resp[c].status = "Ok")
            => \A k \in DOMAIN resp[c].data.kv :
                    resp[c].data.kv[k] # Absent => resp[c].data.kv[k] <= resp[c].data.gv

GlobalVersionOf(table) ==
    IF table[GLOBAL_VERSION_KEY] = Absent THEN 0 ELSE table[GLOBAL_VERSION_KEY]

(* spec.md glossary: global_version is a monotonic counter of the store.   *)
(* No committed transaction lowers the version of the reserved key as get  *)
(* reports it (a missing row reads as 0).                                  *)
GlobalVersionNeverDecreases ==
    [][GlobalVersionOf(committed') >= GlobalVersionOf(committed)]_committed
=============================================================================
