# TLA+ models of vss-server

Models of the Versioned Storage Service (VSS) server, checked with TLC. The
repository's code is under `src/rust/`; the spec is `spec.md`.

## 1. Inventory

### Components

| component | source | state | operations |
|---|---|---|---|
| Storage engine `PostgresBackendImpl` | `impls/src/postgres_store.rs` | none in memory but the bb8 pool handle; all data is in the `vss_db` table (user_token, store_id, key, value, version, timestamps) | `get`, `put`, `delete`, `list_key_versions`, plus the per-statement helpers `execute_*` |
| Request dispatcher `VssService` / `handle_request` | `server/src/vss_service.rs` | none (shared `Arc` to store and authorizer) | route by path, authorize, read the body, decode, call the engine, encode or map the error |
| Error mapper | `server/src/vss_service.rs` 299-358 | none | `get_error_status_code`, `build_error_response` |
| Authorization gate `Authorizer` | chosen in `server/src/main.rs` 97-133; verifiers are not in `src/` | immutable | `verify(headers)` |
| Connection acceptor | `server/src/main.rs` 176-206 | listener; one spawned task per connection | accept, spawn `serve_connection`, stop on SIGINT/SIGTERM, reopen log on SIGHUP |
| Configuration | `server/src/util/config.rs` | parsed once at startup | `load_config`, env overrides |
| Start-up | `server/src/main.rs` 37-174, 215-250 | the loaded config, the Sentry guard, the verifier and the backend | argument check, config, Sentry, address, runtime, signal streams, verifier choice, backend, bind; each failure exits |

### How they interact

The acceptor spawns one task per TCP connection; hyper calls `VssService::call`
for each request, which returns a future. `handle_request` awaits the
authorizer, then the body, decodes it and awaits the engine. Every engine
operation awaits a pooled connection, and `put`/`delete` run their statements
in one PostgreSQL transaction. Requests interact only through the database
table (row locks, committed rows) and the shared connection pool. If the
client goes away, hyper drops the future at whatever await it is suspended
on; a dropped `tokio_postgres::Transaction` rolls back.

### What is hard

- Concurrent `put` batches at READ COMMITTED: atomicity and optimistic
  concurrency rest on row locks and on the zero-rows-affected check at the
  end of the batch, not on isolation.
- Row-lock waits between batches that touch the same keys in different
  orders (the global version record sits between transaction_items and
  delete_items), broken only by PostgreSQL's deadlock detector.
- Failures at every await (pool, BEGIN, each statement, COMMIT, ROLLBACK),
  a COMMIT whose acknowledgement is lost, and futures dropped mid-transaction.
- `list_key_versions` is two reads on two connections (global version, then
  keys): it is not a snapshot.
- Pagination: LIMIT is applied before the reserved key is filtered out; the
  prefix goes into a LIKE pattern unescaped.
- Client retries: neither the engine nor the dispatcher retries, so a
  client resends after a 500 that may hide a committed write. A resent
  conditional put or delete is harmless unless another client deleted and
  re-inserted the key meanwhile: an insert restarts at version 1, so the
  version the retry expects is back (ABA).

### What makes each component correct

- Engine: every put is all-or-nothing and equivalent to running its
  statements in order against one state of the table; Conflict means nothing
  was written; delete is idempotent at the response; get and list read
  committed data only; the reserved key is never listed and reads as version
  0 when missing; versions stored are at least INITIAL_RECORD_VERSION; every
  request is eventually answered.
- Dispatcher and error mapper: each error kind gets its status and wire code;
  internal errors never leak their message; an auth failure never reaches
  the engine.
- Acceptor: a slow request never blocks acceptance; shutdown stops accepting.

The hazards these properties are aimed at are listed, each at its line, in
`PROJECT.json` under `hazards`.

## 2. Plan

In order of importance:

1. **KvStoreOps** (done): the request shapes, the write set `put` builds
   (`PutStatements`: transaction_items, global version record, delete_items)
   and the effect and row count of each SQL statement.
2. **VssStore** (done): the abstract store: each put/delete applied atomically
   (`RunBatch`), get and list reading committed states, errors and
   abandonment without effect.
3. **PostgresStore** (done): the engine statement by statement, with
   PostgreSQL row locks, the deadlock detector, the pool, errors at every
   await and dropped futures; shown to refine VssStore.
4. **ListPaging** (done): keys as byte strings with byte-wise order
   (RECURSIVE `LexLess`, checked along every behaviour against the reference
   `LexLessRef`), LIKE matching, LIMIT, the post-LIMIT filter of the reserved
   key and the page token; a client paging through while others commit.
5. **Batch order** (done): a violation run of PostgresStore against VssStore ordered
   as spec.md 4.1 states (delete_items before the global version record).
6. **VssService** (done): path routing, the authorizer outcome, body decoding, the
   error mapper; composes PostgresStore's responses into HTTP statuses.
7. **Server** (done): the accept loop and signal handling composing VssService.
8. **Startup** and **Main** (done): main's start-up sequence with its exits,
   the verifier choice and Sentry's environment overrides, composed with the
   dispatcher so that the verifier start-up chose is the one requests meet.
9. **ListPaging liveness** (done): a listing ends, under fair retries.
10. **Retry client** (done): Main's clients resend a put or delete after an
    InternalServerError or no answer, and the number of times the engine
    applied it is counted; the span status of `handle_request` is modelled.

Left for later work:

- the answer to a negative page_size (InternalServerError where spec.md 7
  suggests InvalidRequest), as a property rather than a hazard;
- the NoopAuthorizer fallback of a noop_authorizer build against spec.md
  4.3 (no configured verifier fails start-up), which needs a run of its own;
- the verifiers behind the authorizer (not under `src/`).

## 3. Modules and how they map to the code

### KvStoreOps

Constants: `Keys` (with `GLOBAL_VERSION_KEY` among them),
`INITIAL_RECORD_VERSION`, `I64_MAX`, `MAX_PUT_REQUEST_ITEM_COUNT`, sentinels
`Absent` and `None`. One (user_token, store_id) namespace is modelled: every
statement filters by both and they form the primary key with `key`, so
namespaces never interact. A row is abstracted to its version.

- `execute_put_object_query` / `execute_delete_object_query`: the five SQL
  statements (upsert, insert ON CONFLICT DO NOTHING, conditional UPDATE,
  DELETE, conditional DELETE) as (rows affected, row afterwards).
- `PutStatements`: `put`'s `vss_put_records` then `vss_delete_records`, with
  the global version record pushed onto `vss_put_records`.
- `RunBatch`: the write set run in order against one table, and whether every
  statement affected a row.

### VssStore (abstract)

Variables `store`, `req`, `out` (pending / applied / rejected / invalid),
`gvSeen`, `resp`. `Apply` linearizes a put or delete in one step; `Read`,
`ReadGlobalVersion`, `ListKeys` read the store; `Respond` gives the answers
allowed without a further effect; `Return` and `Abandon` end a request.

### PostgresStore (detailed)

Variables: `committed` (the table), and per client `pc` (the await it is
suspended on), `req`, `rows` (`batch_results`), `writes` (rows of its open
transaction, each holding a row lock), `txn`, `gvRead`, `resp`; `held` is the
set of clients holding a pooled connection.

| action | code |
|---|---|
| `Invoke` | the handler's synchronous part: size check of put, missing key_value of delete |
| `Acquire`, `PoolError` | `self.pool.get().await` |
| `Begin`, `BeginError` | `conn.transaction().await` |
| `ExecStmt`, `StmtError`, `DeadlockAbort` | one `execute_*_query(...).await` of the loops at lines 286-294 |
| `Commit`, `CommitError`, `Rollback` | the zero-rows check and `commit()`/`rollback()` (put 296-310, delete 334-344) |
| `GetQuery`, `GlobalVersionQuery`, `ListQuery`, `QueryError` | the SELECTs of `get` and `list_key_versions` |
| `Return` | the response is written |
| `Cancel` | hyper drops the future; the transaction rolls back on drop |

PostgreSQL at READ COMMITTED is modelled by its row locks: a statement on a
key another open transaction wrote waits until that transaction ends and
then runs on the newest row; an UPDATE or DELETE of a key with no committed
row sees no row without waiting (the other's insert is invisible to it);
inserts wait. A wait cycle is broken by `DeadlockAbort`.

The refinement mapping (`Abs`): `store <- committed`, `gvSeen <- gvRead`,
`WriteSet <- Statements` (VssStore takes the batch order as a constant
operator; `AbsSpecOrder` substitutes spec.md's order), and `out` is derived: a committed transaction is "applied", a batch with a
zero-row statement is "rejected" from that statement on.

### ListPaging

Keys are byte strings (sequences of byte values); the model keys are "a",
"ab", "v", "w" and the real reserved key "vss_global_version", so keys sort
on both sides of it and one key is a prefix of another. Variables: `table`
(keys with a committed row), `writes`, and for one paging client `pc`,
`prefix`, `pageSize`, `token` (the page_token sent), `resp`, `seen` (every
key received, in order) and `stable` (keys with the prefix present since the
listing began).

| definition | code (`postgres_store.rs`) |
|---|---|
| `LexLess`, `Like` | `key > $3 ... ORDER BY key`, `key LIKE $4` of the statement at 377 (byte order; `%`, `_`) |
| `key_like`, `limit` | `format!("{}%", ...)` at 379; `min(page_size.unwrap_or(i32::MAX), 100)` at 353/369 |
| `KeyQuery` | the SELECT at 371-387 |
| `key_versions`, `next_page_token` | the filter of the reserved key at 389-397, the token at 399-402 |
| `ListKeyVersions`, `ListError` | the whole handler, 347-405, and its failures (the global-version get, the pool, the query, a negative LIMIT) |
| `Write` | a put or delete of another request committing (atomic, as PostgresStore shows) |
| `Start`, `NextPage`, `Retry` | the client protocol of spec.md 4.1: stop on an empty token or one equal to the one sent |

The global version's value is not modelled here (PostgresStore checks it);
a response records only whether it carries one.

### VssService

Composes the dispatcher with the engine: `E == INSTANCE VssStore`, the engine
variables shared, so the dispatcher's steps interleave with engine steps of
other requests. Per connection: `stage` (the await of `handle_request`),
`route` (the path without `/vss`), `authed`, `http` (the response written).

| action | code (`vss_service.rs`) |
|---|---|
| `Call` | `VssService::call`: strip `/vss`, match the four endpoints, `/testSentry` (200, no auth), anything else 400 |
| `Authorize`, `AuthFail` | `authorizer.verify(...).await`, an AuthError answered by `build_error_response` |
| `ReadBody`, `BodyError` | `body.collect().await?` and `T::decode`: the engine is invoked, or 400 "Error parsing request", or the hyper error closes the connection |
| `EngineStep` | the engine operation (VssStore's steps) |
| `Encode` | the handler's result encoded (200) or mapped by `build_error_response`; the span records 200 or `get_error_status_code` |
| `handle_test_sentry_request` | the test endpoint's 200 |
| `Cancel` | hyper dropping the future at verify, the body read or the engine |
| `NextRequest` | the connection's next request |

A response carries `traced`, the `http.status_code` `handle_request` records
on the request span (`Traced`; 400 for an undecodable body, none for the
paths that record none). A body is a request message of some operation, or `Garbage`; a message of
another operation sent to an endpoint is treated as undecodable.

### Startup

One variable per piece of state main builds before the accept loop:
`phase` (the next call), `exitCode`, `build` (the features and cfg flags of
the binary, chosen in `StartupInit`), `conf`, `sentry` (the client options of
the guard, or None), `authorizer`, `backend`. `Try(from, ok, next, code)` is
main's pattern of a fallible call followed by `std::process::exit(code)` on
failure; `ExitStatus` is the status the OS reports (`code % 256`, so -1 is 255).

| definition | code |
|---|---|
| `Config`, `SentryConfig`, `load_config` | `config.rs` 12-17, 113-137, 156-160: the sections main reads; a file that cannot be read or parsed |
| `get_dsn`, `get_environment`, `get_sample_rate`, `EnvOr` | `config.rs` 20-34: the environment first (even when empty), the f32 parse of the rate falling back to the file, then 1.0 |
| `initialize_sentry` | `main.rs` 215-250: no guard without a section or with an absent or empty DSN |
| `CheckArgs`, `LoadConfig`, `InitializeSentry`, `ParseAddr`, `BuildRuntime`, `RegisterSignals` | `main.rs` 38-95 |
| `configured_authorizer`, `SelectAuthorizer` | `main.rs` 97-133: JWT if the jwt feature has an RSA key, else signatures, else the NoopAuthorizer in a noop_authorizer build, else exit |
| `StartBackend`, `Bind` | `main.rs` 135-174 |

`main.rs` as written reads fields (`config.rsa_pem`, `config.tls_config`,
`config.bind_address`, `config.postgresql_prefix`) that `Config` does not
declare after destructuring it; the model reads the sections of `Config` that
carry them (`jwt_auth_config.rsa_pem`, `postgresql_config.tls`,
`server_config.host`). The Datadog getters and `to_postgresql_endpoint` are
not called by main.

### Main

EXTENDS VssService and instantiates Startup on its own variables. Requests
are dispatched only once `phase = "listening"`; `Dispatch` is `Serve` with
the verifier start-up chose, where the NoopAuthorizer (not under `src/`;
it accepts every request) never fails. An exited process stutters (`Exited`).

The clients of spec.md 4.1 and 4.3 retry: `pending` is the request a client
is sending (kept across a 500 or a dropped connection, cleared on any other
answer), `applies` counts the times the engine applied it (capped at
`MaxApplies` = 2), and `recreated` records that another client's step took a
key of it from present to absent, or back, meanwhile. `Send` and `SendBody` resend the
pending request, `Engine` is an engine step with those counters, `Finish`
the client seeing the answer. A lost commit acknowledgement (VssStore's
`Apply` answering 500) followed by a retry is the case this exercises. A
delete that affects no row is answered Ok but counts as not applied.

### Server

EXTENDS VssService with `running` and `conns`: `Accept` spawns a task per
connection, `Task` runs one step of a connection's pipeline, `Shutdown`
(SIGINT/SIGTERM) breaks the loop; `main` then returns and no task runs again.

## 4. Runs

| run | cfg | expect | what it shows |
|---|---|---|---|
| linearizable | `MCPostgresStore.cfg` | pass | `TypeOK` and `Linearizable` (refinement of VssStore) over 2 clients, pool of 2, keys {a, gvk}, request versions {-1, 0, 1}, global_version {none, 0, 1}, batches of up to one transaction item and one delete item (two-item batches are the oversized ones), all errors and cancellations: about 1.2M states |
| answered | `MCPostgresStoreLive.cfg` | pass | `EveryRequestAnswered` under `FairSpec`, with two batches that lock a and gvk in opposite orders and a list; deadlocks occur and are broken |
| first_page_bound | `MCPostgresStoreListBound.cfg` | violation | spec.md 8.5 fails: a convention-following put commits between list's two reads |
| global_version_monotonic | `MCPostgresStoreGlobalVersion.cfg` | violation | the global version goes from 1 to 0 through delete_items |
| batch_order | `MCPostgresStoreSpecOrder.cfg` | violation | `LinearizableInSpecOrder`: the engine against VssStore with batches in spec.md's order (`SpecStatements`); put {delete_items: [gvk@1], global_version: 0} commits in the code and conflicts in the spec |
| dispatcher | `MCMain.cfg` | pass | `MainTypeOK`, `AuthGate`, `WireAnswerMatchesOutcome`, `FailedStartupExitsNonZero`, `RetriedWriteAppliesOnce` (a retried conditional put or delete is applied twice only if another client deleted or re-created its key in between: version 0 is an insert, version N a compare-and-set; the ABA case is reachable for both), `TracedStatusMatchesResponse` (the span's status is the response's): start-up under builds {jwt}, {sigs, noop_authorizer}, {noop_authorizer}, with an unreadable, a malformed and three valid configs (JWT key over TLS with Sentry; a hostname; no key and an empty DSN), one or two arguments, three Sentry environments and every call failing or not; then two connections, every path kind, undecodable bodies, auth failures, body errors and cancellation, with puts that apply, conflict or are oversized, unconditional and conditional deletes, and clients that retry after a 500 or a dropped connection: about 2.3M states, 90 s |
| test_endpoint_unauthenticated | `MCVssServiceAuth.cfg` | violation | `/vss/testSentry` answers 200 without the authorizer |
| shutdown_drain | `MCServer.cfg` | violation | shutdown ends the process with a request in flight (`CHECK_DEADLOCK FALSE`: the process really stops) |
| list_paging | `MCListPaging.cfg` | pass | `TypeOK`, `ListedInOrder`, `OnlyRequestedKeys`, `PagingComplete` and, under `FairSpec`, `ListingEnds` for prefixes "", "a", "vs", absent; page sizes 0, 2, 3, -1, absent (the maximum scaled from 100 to 2); first token absent or ""; any initial table and two concurrent commits: about 65k states |
| list_page_size_one | `MCListPagingPageSizeOne.cfg` | violation | with page_size 1 the page holding only the reserved key is empty with token "", and "w" is never listed |
| list_prefix_wildcard | `MCListPagingWildcard.cfg` | violation | prefix "a_" lists "ab" |
| list_empty_token | `MCListPagingEmptyToken.cfg` | violation | `FirstPageCarriesGlobalVersion`: a first request with page_token "" is answered without global_version (spec.md 4.1 counts an empty token as a first page) |

Bounds: two clients are enough for every pairwise interleaving of two
requests, and two keys (one data key, the reserved key) are what the
deadlock and the global-version properties need; versions {-1, 0, 1} cover
each statement kind and a conditional update of a row that exists;
ListPaging's page maximum is scaled from 100 to 2 so that page sizes below,
at and above it (2, 3, absent) are all tried against five keys, which makes
three-page listings; `MAX_PUT_REQUEST_ITEM_COUNT` is scaled from 1000 to 1 so the oversized-batch
path is reachable. `I64_MAX` stands for i64::MAX as TLC's largest integer.
The pool has as many connections as there are clients (`PoolSize = 2`), so
no request ever waits for an exhausted pool: a pool of 1 rules out the
deadlock of two open transactions, and a third client puts the liveness run
past five minutes. `EveryRequestAnswered` still catches a connection that
is not returned (the pool then runs dry for the next request).

Fairness (`FairSpec`): strong fairness for the two steps that wait (pool
acquisition; a statement waiting on a row lock), since bb8 and PostgreSQL's
lock queue serve waiters in turn; weak fairness for BEGIN, COMMIT, ROLLBACK,
the queries, writing the response and the deadlock detector (it runs after
`deadlock_timeout`). Errors, cancellation and new requests get no fairness.

ListPaging's `FairSpec`: weak fairness for the client's retry and its next
page (the client keeps paging), strong fairness for the key query, which an
error disables until the retry: database errors are transient, so a query
retried forever eventually runs. Commits of others are bounded by `MaxWrites`.

## 5. Findings

See `PROJECT.json` `findings`: the first-page global_version is a lower
bound, not the upper bound spec.md 8.5 states; and the global version can
decrease through ordinary items. In listing: page_size 1 stops paging at the
reserved key; key_prefix is not escaped for LIKE; a page_token of "" gets
a first page without global_version, where spec.md 4.1 counts an empty
token as a first page. (put accepts the empty key, which spec.md 3 rules
out and which listing never returns; see the hazards.) The
batch order differs from spec.md's in outcome, not only in order. The test
endpoint is unauthenticated, and shutdown does not drain in-flight requests.

## 6. Not modelled

- Values and timestamps of rows (opaque to every check the engine makes).
- Multiple tenants and stores (disjoint key spaces of the primary key).
- The Datadog configuration and `to_postgresql_endpoint` (main calls
  neither); TOML syntax (a file parses or not); Sentry events, log lines
  and span fields other than `http.status_code` (the server never reads
  their state back). Startup keeps the Sentry client options main builds,
  though no property reads them.
- The JWT and signature verifiers (not under `src/`): `verify` is a
  nondeterministic accept or AuthError.
- SIGHUP (reopens the log file only).
- The bounded-body TODO of `handle_request` (memory, out of TLC's reach).
