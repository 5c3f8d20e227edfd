------------------------------- MODULE Main --------------------------------
(***************************************************************************)
(* The server process: main's start-up (Startup) and then the dispatcher   *)
(* (VssService) of the connections it accepts.  VssService::new receives   *)
(* the verifier start-up selected; the NoopAuthorizer accepts every        *)
(* request, so with it verification never fails.                          *)
(***************************************************************************)
EXTENDS VssService

CONSTANTS Builds, ArgCounts, ConfigFiles, Envs, IpLiterals, ParsedF32,
          Unreadable, Malformed, Unset

VARIABLES phase, exitCode, build, conf, sentry, authorizer, backend

(***************************************************************************)
(* The client of each connection.  spec.md 4.1 and 4.3: neither the engine *)
(* nor the dispatcher retries, so a client that gets a 500, or loses the   *)
(* connection without an answer, sends the same request again.  The       *)
(* client's request and two history variables about it:                    *)
(***************************************************************************)
VARIABLES
    pending,   \* the body of the client's request until it has an answer
    applies,   \* how often its batch took effect, counted up to MaxApplies
    recreated  \* another request deleted or re-created a key of it after
               \* it took effect

client == <<pending, applies, recreated>>

MaxApplies == 2   \* "more than once"

S == INSTANCE Startup

startup == <<phase, exitCode, build, conf, sentry, authorizer, backend>>

\* The keys a put or delete writes.
KeysOf(r) == {Statements(r)[i].key : i \in DOMAIN Statements(r)}

\* A put or delete all of whose statements are conditional (version 0 or N).
ConditionalWrite(r) ==
    r \in Requests /\ r.op \in {"put", "delete"} /\ ~InvalidRequest(r)
    /\ \A i \in DOMAIN Statements(r) : Statements(r)[i].version >= 0

\* The client sends a request on path p, or resends its pending one.
Send(c) ==
    /\ \E p \in Paths :
          /\ Call(c, p)
          /\ pending[c] \in Requests =>
                /\ strip_prefix(p) \in DOMAIN Endpoint
                /\ Endpoint[strip_prefix(p)] = pending[c].op
    /\ UNCHANGED client

SendBody(c) ==
    /\ \E b \in Requests \cup {Garbage} :
          /\ ReadBody(c, b)
          /\ pending[c] # None => b = pending[c]
          /\ pending' = [pending EXCEPT ![c] = b]
    /\ UNCHANGED <<applies, recreated>>

\* An engine step, with the history of which batches took effect.
Engine(c) ==
    /\ EngineStep(c)
    /\ applies' = [applies EXCEPT ![c] =
                      IF out[c] = "pending" /\ out'[c] = "applied"
                        THEN IF @ < MaxApplies THEN @ + 1 ELSE @ ELSE @]
    /\ recreated' = [d \in Clients |->
                      \/ recreated[d]
                      \/ /\ d # c /\ applies[d] >= 1 /\ pending[d] \in Requests
                         /\ pending[d].op # "get" /\ pending[d].op # "list"
                         /\ \E k \in KeysOf(pending[d]) : (store[k] = Absent) # (store'[k] = Absent)]
    /\ UNCHANGED pending

\* The connection's next request: the pending one again after a 500 or no
\* answer at all, else a new one.
Finish(c) ==
    /\ NextRequest(c)
    /\ IF (http[c] = None \/ http[c].status = 500) /\ pending[c] \in Requests
         THEN UNCHANGED client
         ELSE /\ pending' = [pending EXCEPT ![c] = None]
              /\ applies' = [applies EXCEPT ![c] = 0]
              /\ recreated' = [recreated EXCEPT ![c] = FALSE]

\* A step of handle_request with the verifier start-up selected.
Dispatch(c) ==
    \/ Send(c)
    \/ Authorize(c) /\ UNCHANGED client
    \/ authorizer # "noop" /\ AuthFail(c) /\ UNCHANGED client
    \/ SendBody(c)
    \/ (BodyError(c) \/ Encode(c) \/ Cancel(c)) /\ UNCHANGED client
    \/ Engine(c)
    \/ Finish(c)

\* The process has exited: nothing happens any more.
Exited == phase = "exited" /\ UNCHANGED <<vars, startup, client>>

MainInit ==
    /\ S!StartupInit /\ Init
    /\ pending = [c \in Clients |-> None]
    /\ applies = [c \in Clients |-> 0]
    /\ recreated = [c \in Clients |-> FALSE]

MainNext ==
    \/ S!StartupNext /\ UNCHANGED <<vars, client>>
    \/ phase = "listening" /\ \E c \in Clients : Dispatch(c) /\ UNCHANGED startup
    \/ Exited

MainSpec == MainInit /\ [][MainNext]_<<vars, startup, client>>

MainTypeOK ==
    /\ TypeOK /\ S!StartupTypeOK
    /\ pending \in [Clients -> Requests \cup {Garbage, None}]
    /\ applies \in [Clients -> 0..MaxApplies]
    /\ recreated \in [Clients -> BOOLEAN]

\* Start-up's properties, stated in Startup.
FailedStartupExitsNonZero == S!FailedStartupExitsNonZero

(***************************************************************************)
(* Invariant: a conditional put or delete that the client resends after a *)
(* 500 (its commit acknowledgement lost) or a dropped connection takes     *)
(* effect a second time only if another request deleted or re-created one *)
(* of its keys after the first time.  Retries are safe because the insert  *)
(* (version 0), the update (version N) of execute_put_object_query and the *)
(* conditional DELETE (version N) affect no row once the first attempt     *)
(* committed; a delete and re-insert by someone else (ABA) is the only way *)
(* back to the version the request expects.  (A delete that affects no row *)
(* is answered Ok but has not taken effect.)                               *)
(***************************************************************************)
RetriedWriteAppliesOnce ==
    \A c \in Clients :
        ConditionalWrite(pending[c]) /\ applies[c] >= 2 => recreated[c]
=============================================================================
