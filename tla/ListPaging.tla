----------------------------- MODULE ListPaging -----------------------------
(***************************************************************************)
(* Key listing of the VSS storage engine, list_key_versions of             *)
(* impls/src/postgres_store.rs, and a client paging through it with        *)
(* next_page_token while other requests commit puts and deletes.           *)
(*                                                                         *)
(* Keys are byte strings, sequences of byte values.  The query             *)
(*   SELECT key, version FROM vss_db WHERE ... AND key > $3                *)
(*   AND key LIKE $4 ORDER BY key LIMIT $5                                 *)
(* is one statement, so it reads one committed state of the table.  The    *)
(* order is byte order (the C collation); the engine needs only that       *)
(* "key > $3" and ORDER BY use the same total order.  Versions and the     *)
(* global version's value are left out (PostgresStore models them); a      *)
(* response records only whether it carries a global_version.  Commits of  *)
(* other requests are atomic steps, as PostgresStore shows against         *)
(* VssStore.                                                               *)
(***************************************************************************)
EXTENDS Integers, Sequences, SequencesExt, FiniteSets

CONSTANTS
    Keys,               \* the byte strings a record's key may be
    GLOBAL_VERSION_KEY, \* the reserved key, as bytes
    LIST_KEY_VERSIONS_MAX_PAGE_SIZE,
    I32_MAX,            \* page_size.unwrap_or(i32::MAX)
    KeyPrefixes,           \* key_prefix values a client sends (None: absent)
    PageSizes,          \* page_size values a client sends (None: absent)
    FirstTokens,        \* page_token of a first page: None or <<>> ("")
    MaxWrites,          \* bound on commits by other requests
    None

ASSUME GLOBAL_VERSION_KEY \in Keys

PERCENT == 37      \* '%'
UNDERSCORE == 95   \* '_'

unwrap_or(x, d) == IF x = None THEN d ELSE x

(***************************************************************************)
(* PostgreSQL's order on keys: byte-wise lexicographic.                    *)
(***************************************************************************)
RECURSIVE LexLess(_, _)
LexLess(a, b) ==
    CASE b = <<>>           -> FALSE
      [] a = <<>>           -> TRUE
      [] Head(a) # Head(b)  -> Head(a) < Head(b)
      [] OTHER              -> LexLess(Tail(a), Tail(b))

\* Reference: a is a proper prefix of b, or they first differ where a is smaller.
LexLessRef(a, b) ==
    \/ IsStrictPrefix(a, b)
    \/ \E i \in 1..Min({Len(a), Len(b)}) :
          /\ SubSeq(a, 1, i - 1) = SubSeq(b, 1, i - 1)
          /\ a[i] < b[i]

(***************************************************************************)
(* PostgreSQL LIKE: '%' matches any string, '_' any one byte, other bytes  *)
(* themselves.  (The escape byte '\' is not in the modelled alphabet.)     *)
(***************************************************************************)
RECURSIVE Like(_, _)
Like(p, s) ==
    CASE p = <<>>              -> s = <<>>
      [] Head(p) = PERCENT     -> Like(Tail(p), s) \/ (s # <<>> /\ Like(p, Tail(s)))
      [] s = <<>>              -> FALSE
      [] Head(p) = UNDERSCORE  -> Like(Tail(p), Tail(s))
      [] OTHER                 -> Head(p) = Head(s) /\ Like(Tail(p), Tail(s))

\* format!("{}%", key_prefix.unwrap_or(""))
key_like(prefix) == unwrap_or(prefix, <<>>) \o <<PERCENT>>

\* Mutant: an absent page_size defaults to 0.
limit_default_zero(ps) == Min({unwrap_or(ps, 0), LIST_KEY_VERSIONS_MAX_PAGE_SIZE})

\* Mutant: an absent page_size defaults to -1, read as "no limit".
limit_absent_unlimited(ps) == Min({unwrap_or(ps, -1), LIST_KEY_VERSIONS_MAX_PAGE_SIZE})

\* min(page_size.unwrap_or(i32::MAX), LIST_KEY_VERSIONS_MAX_PAGE_SIZE)
limit(ps) == Min({unwrap_or(ps, I32_MAX), LIST_KEY_VERSIONS_MAX_PAGE_SIZE})

\* Mutant: "key >= $3".
KeyQueryInclusive(tbl, after, pattern, lim) ==
    LET sorted == SetToSortSeq({k \in tbl : ~LexLess(k, after) /\ Like(pattern, k)}, LexLess)
    IN  SubSeq(sorted, 1, Min({lim, Len(sorted)}))

\* The rows of the SELECT: keys after the token matching the pattern, in order, limited.
KeyQuery(tbl, after, pattern, lim) ==
    LET sorted == SetToSortSeq({k \in tbl : LexLess(after, k) /\ Like(pattern, k)}, LexLess)
    IN  SubSeq(sorted, 1, Min({lim, Len(sorted)}))

\* Mutant: the reserved key is not filtered out.
key_versions_unfiltered(rows) == rows

\* The reserved key is dropped from the rows, after the LIMIT.
key_versions(rows) == SelectSeq(rows, LAMBDA k : k # GLOBAL_VERSION_KEY)

\* Mutant: an empty page carries no token.
next_page_token_none(kvs) == IF kvs = <<>> THEN None ELSE Last(kvs)

next_page_token(kvs) == IF kvs = <<>> THEN <<>> ELSE Last(kvs)

-----------------------------------------------------------------------------
VARIABLES
    table,    \* keys with a committed row
    writes,   \* commits by other requests so far
    pc,       \* the paging client: "idle", "listing" or "done"
    prefix,   \* its key_prefix
    pageSize, \* its page_size
    token,    \* page_token of its request in flight
    resp,     \* the response to it, or None
    seen,     \* keys of every page it has received, in order
    stable    \* keys with the prefix present since paging began

vars == <<table, writes, pc, prefix, pageSize, token, resp, seen, stable>>

\* The keys a client asks for: those beginning with the prefix.
Wanted(p, k) == IsPrefix(unwrap_or(p, <<>>), k) /\ k # GLOBAL_VERSION_KEY

Page == [status : {"Ok"}, key_versions : Seq(Keys),
         next_page_token : Keys \cup {<<>>}, global_version : BOOLEAN]

InternalServerError == [status |-> "InternalServerError"]

TypeOK ==
    /\ table \subseteq Keys
    /\ writes \in 0..MaxWrites
    /\ pc \in {"idle", "listing", "done"}
    /\ prefix \in KeyPrefixes \cup {None}
    /\ pageSize \in PageSizes \cup {None}
    /\ token \in FirstTokens \cup Keys
    /\ resp \in Page \cup {InternalServerError, None}
    /\ seen \in Seq(Keys)
    /\ stable \subseteq Keys

Init ==
    /\ table \in SUBSET Keys
    /\ writes = 0
    /\ pc = "idle"
    /\ prefix = None /\ pageSize = None /\ token = None
    /\ resp = None
    /\ seen = <<>>
    /\ stable = {}

\* A client sends the first page request of a listing.
Start(p, ps, t) ==
    /\ pc \in {"idle", "done"}
    /\ pc' = "listing"
    /\ prefix' = p /\ pageSize' = ps /\ token' = t
    /\ seen' = <<>>
    /\ stable' = {k \in table : Wanted(p, k)}
    /\ UNCHANGED <<table, writes, resp>>

(***************************************************************************)
(* list_key_versions: the global version is read when page_token is None   *)
(* (its value is not modelled), then the key query runs, the reserved key  *)
(* is filtered out and next_page_token is the last key left, or "".  A     *)
(* negative LIMIT is refused by PostgreSQL and so never succeeds.          *)
(***************************************************************************)
ListKeyVersions ==
    /\ pc = "listing" /\ resp = None
    /\ limit(pageSize) >= 0
    /\ LET rows == KeyQuery(table, unwrap_or(token, <<>>), key_like(prefix), limit(pageSize))
           kvs  == key_versions(rows)
       IN  resp' = [status          |-> "Ok",
                    key_versions    |-> kvs,
                    next_page_token |-> next_page_token(kvs),
                    global_version  |-> token = None]
    /\ UNCHANGED <<table, writes, pc, prefix, pageSize, token, seen, stable>>

\* The global version read, the pool or the query fails.
ListError ==
    /\ pc = "listing" /\ resp = None
    /\ resp' = InternalServerError
    /\ UNCHANGED <<table, writes, pc, prefix, pageSize, token, seen, stable>>

\* The client retries a failed page with the same token.
Retry ==
    /\ resp = InternalServerError
    /\ resp' = None
    /\ UNCHANGED <<table, writes, pc, prefix, pageSize, token, seen, stable>>

(***************************************************************************)
(* The client takes a page: an empty token, or one equal to the token it   *)
(* sent, ends the listing; otherwise it asks for the page after it.        *)
(***************************************************************************)
NextPage ==
    /\ resp \in Page
    /\ seen' = seen \o resp.key_versions
    /\ IF resp.next_page_token \in {<<>>, token}
         THEN pc' = "done" /\ UNCHANGED token
         ELSE token' = resp.next_page_token /\ UNCHANGED pc
    /\ resp' = None
    /\ UNCHANGED <<table, writes, prefix, pageSize, stable>>

\* Another request commits a put or delete of key k.
Write(k) ==
    /\ writes < MaxWrites
    /\ table' = IF k \in table THEN table \ {k} ELSE table \cup {k}
    /\ writes' = writes + 1
    /\ stable' = stable \ {k}
    /\ UNCHANGED <<pc, prefix, pageSize, token, resp, seen>>

Next ==
    \/ \E p \in KeyPrefixes \cup {None}, ps \in PageSizes \cup {None}, t \in FirstTokens :
          Start(p, ps, t)
    \/ ListKeyVersions \/ ListError \/ Retry \/ NextPage
    \/ \E k \in Keys : Write(k)

Spec == Init /\ [][Next]_vars

(***************************************************************************)
(* The client keeps retrying and paging (weak fairness).  A database error *)
(* disables the query until the retry, so the query needs strong fairness: *)
(* errors are transient, and a query retried forever eventually runs.      *)
(* Other requests commit at most MaxWrites times.                          *)
(***************************************************************************)
Fairness == WF_vars(Retry) /\ WF_vars(NextPage) /\ SF_vars(ListKeyVersions)

FairSpec == Spec /\ Fairness
-----------------------------------------------------------------------------
(***************************************************************************)
(* Invariant: the keys a client collects over all its pages are strictly  *)
(* ascending in byte order, by the reference definition LexLessRef rather *)
(* than the recursive LexLess the query uses; so no page repeats a key of *)
(* an earlier page, whatever commits happen between pages.  It rests on    *)
(* the "key > page_token" cursor of the key query, ORDER BY key, and       *)
(* next_page_token taken from the last key of a page.                      *)
(***************************************************************************)
ListedInOrder == IsSorted(seen, LexLessRef)

(***************************************************************************)
(* Invariant: every key listed begins with key_prefix and is not the       *)
(* reserved key: the LIKE pattern list builds from key_prefix, and the     *)
(* filter of vss_global_version after the LIMIT.                           *)
(***************************************************************************)
OnlyRequestedKeys == \A i \in 1..Len(seen) : Wanted(prefix, seen[i])

(***************************************************************************)
(* Invariant: a client that pages with a page_size of at least one, passing *)
(* each next_page_token back until the token says there are no more pages, *)
(* has seen every key with the prefix that was present throughout          *)
(* (spec.md 4.1: a short page still has more pages and clients pass the   *)
(* last key forward).  It rests on LIMIT, the post-LIMIT filter of the     *)
(* reserved key and the empty next_page_token of an empty page together.   *)
(***************************************************************************)
PagingComplete ==
    pc = "done" /\ unwrap_or(pageSize, I32_MAX) >= 1 => stable \subseteq ToSet(seen)

(***************************************************************************)
(* Liveness: a listing with page_size absent or at least zero ends.  Each  *)
(* page's next_page_token is a key after the token sent (key > page_token *)
(* with ORDER BY key), so tokens climb through finitely many keys until an *)
(* empty or repeated token stops the client.  It rests on LIMIT never      *)
(* being negative for such a page_size; a negative page_size makes every   *)
(* query fail, and that listing never ends.                                *)
(***************************************************************************)
ListingEnds ==
    pc = "listing" /\ (pageSize = None \/ pageSize >= 0) ~> pc = "done"

(***************************************************************************)
(* Invariant (spec.md 4.1): a first page, one whose page_token is absent   *)
(* or empty, is answered with the store's global_version, read before the *)
(* key query.  list_key_versions reads it only when page_token is None.   *)
(***************************************************************************)
FirstPageCarriesGlobalVersion ==
    resp \in Page /\ token \in {None, <<>>} => resp.global_version
=============================================================================
