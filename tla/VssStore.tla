------------------------------ MODULE VssStore ------------------------------
(***************************************************************************)
(* What the KvStore of VSS promises its callers, with each request served  *)
(* in atomic steps:                                                        *)
(*   - a put or delete takes effect at one instant, all of its statements  *)
(*     run in order against one state of the table, and either all of     *)
(*     them affect a row and all their effects appear, or nothing does;    *)
(*   - a get reads one state;                                              *)
(*   - a first-page list reads the global version in one step and the      *)
(*     keys in a later one (it is not a snapshot);                         *)
(*   - any request may instead fail with InternalServerError, or be        *)
(*     abandoned by its caller, without effect; a commit whose            *)
(*     acknowledgement is lost takes effect and answers InternalServerError.*)
(***************************************************************************)
EXTENDS KvStoreOps, FiniteSets

CONSTANTS Clients, Requests, NoReq,
          WriteSet(_)  \* the statements a put or delete runs, in order

VARIABLES
    store,  \* the committed table: Keys -> version or Absent
    req,    \* the request each client has in flight, or NoReq
    out,    \* how far its request has been linearized
    gvSeen, \* list: the global version read for its first page, or None
    resp    \* the response given to it, or None

vars == <<store, req, out, gvSeen, resp>>

Init ==
    /\ store = [k \in Keys |-> Absent]
    /\ req = [c \in Clients |-> NoReq]
    /\ out = [c \in Clients |-> None]
    /\ gvSeen = [c \in Clients |-> None]
    /\ resp = [c \in Clients |-> None]

Invoke(c, r) ==
    /\ req[c] = NoReq
    /\ req' = [req EXCEPT ![c] = r]
    /\ IF InvalidRequest(r)
         THEN /\ out' = [out EXCEPT ![c] = "invalid"]
              /\ resp' = [resp EXCEPT ![c] = Reply("InvalidRequest")]
         ELSE /\ out' = [out EXCEPT ![c] = "pending"]
              /\ UNCHANGED resp
    /\ UNCHANGED <<store, gvSeen>>

\* A put or delete takes effect, or is rejected, at one instant.
Apply(c) ==
    /\ out[c] = "pending"
    /\ req[c].op \in {"put", "delete"}
    /\ LET b == RunBatch(store, WriteSet(req[c]))
       IN  IF b.ok
             THEN /\ store' = b.table
                  /\ out' = [out EXCEPT ![c] = "applied"]
                  /\ \E s \in {"Ok", "InternalServerError"} :
                        resp' = [resp EXCEPT ![c] = Reply(s)]
             ELSE /\ out' = [out EXCEPT ![c] = "rejected"]
                  /\ UNCHANGED <<store, resp>>
    /\ UNCHANGED <<req, gvSeen>>

Read(c) ==
    /\ out[c] = "pending" /\ resp[c] = None
    /\ req[c].op = "get"
    /\ resp' = [resp EXCEPT ![c] = GetResult(store[req[c].key], req[c].key)]
    /\ UNCHANGED <<store, req, out, gvSeen>>

ReadGlobalVersion(c) ==
    /\ out[c] = "pending" /\ resp[c] = None
    /\ req[c].op = "list" /\ req[c].first /\ gvSeen[c] = None
    /\ gvSeen' = [gvSeen EXCEPT ![c] = GetResult(store[GLOBAL_VERSION_KEY],
                                                 GLOBAL_VERSION_KEY).data.version]
    /\ UNCHANGED <<store, req, out, resp>>

ListKeys(c) ==
    /\ out[c] = "pending" /\ resp[c] = None
    /\ req[c].op = "list"
    /\ req[c].first => gvSeen[c] # None
    /\ resp' = [resp EXCEPT ![c] =
                  [status |-> "Ok", data |-> [gv |-> gvSeen[c], kv |-> ListedVersions(store)]]]
    /\ UNCHANGED <<store, req, out, gvSeen>>

\* The answers a request may get without a further step on the table.
Allowed(r, o) ==
    CASE o = "rejected" /\ r.op = "put"    -> {"Conflict", "InternalServerError"}
      [] o = "rejected" /\ r.op = "delete" -> {"Ok", "InternalServerError"}
      [] OTHER                             -> {"InternalServerError"}

Respond(c) ==
    /\ req[c] # NoReq /\ resp[c] = None
    /\ out[c] # "applied"
    /\ \E s \in Allowed(req[c], out[c]) : resp' = [resp EXCEPT ![c] = Reply(s)]
    /\ UNCHANGED <<store, req, out, gvSeen>>

Return(c) ==
    /\ resp[c] # None
    /\ req' = [req EXCEPT ![c] = NoReq]
    /\ out' = [out EXCEPT ![c] = None]
    /\ gvSeen' = [gvSeen EXCEPT ![c] = None]
    /\ resp' = [resp EXCEPT ![c] = None]
    /\ UNCHANGED store

\* The caller goes away before an answer; nothing takes effect.
Abandon(c) ==
    /\ req[c] # NoReq /\ resp[c] = None
    /\ out[c] # "invalid"
    /\ req' = [req EXCEPT ![c] = NoReq]
    /\ out' = [out EXCEPT ![c] = None]
    /\ gvSeen' = [gvSeen EXCEPT ![c] = None]
    /\ UNCHANGED <<store, resp>>

Next ==
    \E c \in Clients :
        \/ \E r \in Requests : Invoke(c, r)
        \/ Apply(c) \/ Read(c) \/ ReadGlobalVersion(c) \/ ListKeys(c)
        \/ Respond(c) \/ Return(c) \/ Abandon(c)

Spec == Init /\ [][Next]_vars
=============================================================================
