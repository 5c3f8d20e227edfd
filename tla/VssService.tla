----------------------------- MODULE VssService -----------------------------
(***************************************************************************)
(* The request dispatcher of server/src/vss_service.rs (VssService::call,  *)
(* handle_request and the error mapper) composed with the storage engine.  *)
(* The engine is the atomic VssStore, which PostgresStore is checked to    *)
(* refine; the dispatcher's steps run between the engine's.  One           *)
(* namespace is modelled, so the user_token the authorizer returns is not  *)
(* kept, only whether verification succeeded.                              *)
(***************************************************************************)
EXTENDS KvStoreOps, FiniteSets

CONSTANTS
    Clients,     \* concurrent HTTP requests
    Requests,    \* request messages a body may encode
    NoReq,
    Paths,       \* request paths: <<prefix, rest>>
    Garbage      \* a body that does not decode

VARIABLES
    store, req, out, gvSeen, resp,  \* the engine (VssStore)
    stage,  \* where handle_request is: idle, auth, body, engine, sent, closed
    route,  \* the path with BASE_PATH_PREFIX stripped
    authed, \* the authorizer accepted the request's headers
    http    \* the HTTP response written, or None

engine == <<store, req, out, gvSeen, resp>>
dispatcher == <<stage, route, authed, http>>
vars == <<engine, dispatcher>>

E == INSTANCE VssStore WITH WriteSet <- Statements

BASE_PATH_PREFIX == "/vss"

\* path.strip_prefix(BASE_PATH_PREFIX).unwrap_or_default()
strip_prefix(p) == IF p[1] = BASE_PATH_PREFIX THEN p[2] ELSE ""

\* The engine operation of each endpoint.
Endpoint == "/getObject" :> "get" @@ "/putObjects" :> "put"
            @@ "/deleteObject" :> "delete" @@ "/listKeyVersions" :> "list"

\* A response, and the http.status_code handle_request records on the
\* request's span (traced; None where it records none).
Wire(status, code, msg) == [status |-> status, code |-> code, msg |-> msg, traced |-> None]
Traced(w, s) == [w EXCEPT !.traced = s]

\* A protobuf response message, or a plain-text body.
Success == Wire(200, "none", "message")
PlainText(status) == Wire(status, "none", "text")

\* The test endpoint: Sentry events and 200 "Sentry test events sent".
handle_test_sentry_request == PlainText(200)

\* Mutant: a Conflict is traced as 400.
get_error_status_code_conflict_400(e) ==
    CASE e = "NoSuchKey" -> 404 [] e = "Conflict" -> 400 [] e = "InvalidRequest" -> 400
      [] e = "Auth" -> 401 [] e = "InternalServerError" -> 500

\* The status recorded on the span for an engine error.
get_error_status_code(e) ==
    CASE e = "NoSuchKey" -> 404 [] e = "Conflict" -> 409 [] e = "InvalidRequest" -> 400
      [] e = "Auth" -> 401 [] e = "InternalServerError" -> 500

\* Mutant: an internal error is answered 503.
build_error_response_internal_503(e) ==
    CASE e = "NoSuchKey"      -> Wire(404, "NoSuchKeyException", "detail")
      [] e = "Conflict"       -> Wire(409, "ConflictException", "detail")
      [] e = "InvalidRequest" -> Wire(400, "InvalidRequestException", "detail")
      [] e = "Auth"           -> Wire(401, "AuthException", "detail")
      [] OTHER                -> Wire(503, "InternalServerException",
                                      "Unknown Server Error occurred.")

\* Mutant: a Conflict is mapped as an invalid request.
build_error_response_conflict_as_invalid(e) ==
    CASE e = "NoSuchKey"      -> Wire(404, "NoSuchKeyException", "detail")
      [] e = "Conflict"       -> Wire(400, "InvalidRequestException", "detail")
      [] e = "InvalidRequest" -> Wire(400, "InvalidRequestException", "detail")
      [] e = "Auth"           -> Wire(401, "AuthException", "detail")
      [] OTHER                -> Wire(500, "InternalServerException",
                                      "Unknown Server Error occurred.")

\* The error mapper: status, error_code and message of each VssError.
build_error_response(e) ==
    CASE e = "NoSuchKey"      -> Wire(404, "NoSuchKeyException", "detail")
      [] e = "Conflict"       -> Wire(409, "ConflictException", "detail")
      [] e = "InvalidRequest" -> Wire(400, "InvalidRequestException", "detail")
      [] e = "Auth"           -> Wire(401, "AuthException", "detail")
      [] OTHER                -> Wire(500, "InternalServerException",
                                      "Unknown Server Error occurred.")

TypeOK ==
    /\ stage \in [Clients -> {"idle", "auth", "body", "engine", "sent", "closed"}]
    /\ authed \in [Clients -> BOOLEAN]
    /\ \A c \in Clients : http[c] = None \/ http[c].status \in {200, 400, 401, 404, 409, 500}
    /\ \A c \in Clients : stage[c] \in {"auth", "body", "engine"} => route[c] \in DOMAIN Endpoint

Init ==
    /\ E!Init
    /\ stage = [c \in Clients |-> "idle"]
    /\ route = [c \in Clients |-> ""]
    /\ authed = [c \in Clients |-> FALSE]
    /\ http = [c \in Clients |-> None]

\* VssService::call: route on the path; the test endpoint and unknown
\* paths are answered at once.
Call(c, p) ==
    /\ stage[c] = "idle"
    /\ route' = [route EXCEPT ![c] = strip_prefix(p)]
    /\ CASE strip_prefix(p) \in DOMAIN Endpoint ->
              stage' = [stage EXCEPT ![c] = "auth"] /\ UNCHANGED http
         [] strip_prefix(p) = "/testSentry" ->
              /\ stage' = [stage EXCEPT ![c] = "sent"]
              /\ http' = [http EXCEPT ![c] = handle_test_sentry_request]
         [] OTHER ->
              /\ stage' = [stage EXCEPT ![c] = "sent"]
              /\ http' = [http EXCEPT ![c] = PlainText(400)]
    /\ UNCHANGED <<engine, authed>>

\* authorizer.verify(&headers_map).await succeeds.
Authorize(c) ==
    /\ stage[c] = "auth"
    /\ stage' = [stage EXCEPT ![c] = "body"]
    /\ authed' = [authed EXCEPT ![c] = TRUE]
    /\ UNCHANGED <<engine, route, http>>

\* Mutant: an authorization failure is logged and the request goes on.
AuthFailContinue(c) ==
    /\ stage[c] = "auth"
    /\ stage' = [stage EXCEPT ![c] = "body"]
    /\ UNCHANGED <<engine, route, authed, http>>

\* verify fails: the AuthError is answered through the error mapper.
AuthFail(c) ==
    /\ stage[c] = "auth"
    /\ stage' = [stage EXCEPT ![c] = "sent"]
    /\ http' = [http EXCEPT ![c] = build_error_response("Auth")]
    /\ UNCHANGED <<engine, route, authed>>

\* The body is read and decoded as the endpoint's message and handed to the
\* engine; a body that does not decode is answered 400 in plain text.
ReadBody(c, b) ==
    /\ stage[c] = "body"
    /\ IF b # Garbage /\ b.op = Endpoint[route[c]]
         THEN /\ E!Invoke(c, b)
              /\ stage' = [stage EXCEPT ![c] = "engine"]
              /\ UNCHANGED http
         ELSE /\ stage' = [stage EXCEPT ![c] = "sent"]
              /\ http' = [http EXCEPT ![c] = Traced(PlainText(400), 400)]
              /\ UNCHANGED engine
    /\ UNCHANGED <<route, authed>>

\* body.collect().await fails: '?' returns the hyper::Error and no response
\* is written.
BodyError(c) ==
    /\ stage[c] = "body"
    /\ stage' = [stage EXCEPT ![c] = "closed"]
    /\ UNCHANGED <<engine, route, authed, http>>

\* An engine step for a request in flight.
EngineStep(c) ==
    /\ \/ E!Apply(c) \/ E!Read(c) \/ E!ReadGlobalVersion(c)
       \/ E!ListKeys(c) \/ E!Respond(c)
    /\ UNCHANGED dispatcher

\* The handler's future returns: its result is encoded, or its error mapped.
Encode(c) ==
    /\ stage[c] = "engine"
    /\ E!Return(c)
    /\ http' = [http EXCEPT ![c] =
                   IF resp[c].status = "Ok" THEN Traced(Success, 200)
                   ELSE Traced(build_error_response(resp[c].status),
                               get_error_status_code(resp[c].status))]
    /\ stage' = [stage EXCEPT ![c] = "sent"]
    /\ UNCHANGED <<route, authed>>

\* hyper drops the future at an await: verify, the body, or the engine.
Cancel(c) ==
    /\ stage[c] \in {"auth", "body", "engine"}
    /\ IF stage[c] = "engine" THEN E!Abandon(c) ELSE UNCHANGED engine
    /\ stage' = [stage EXCEPT ![c] = "closed"]
    /\ UNCHANGED <<route, authed, http>>

\* The connection takes its next request.
NextRequest(c) ==
    /\ stage[c] \in {"sent", "closed"}
    /\ stage' = [stage EXCEPT ![c] = "idle"]
    /\ route' = [route EXCEPT ![c] = ""]
    /\ authed' = [authed EXCEPT ![c] = FALSE]
    /\ http' = [http EXCEPT ![c] = None]
    /\ UNCHANGED engine

\* Every step of the request pipeline of connection c.
Serve(c) ==
    \/ \E p \in Paths : Call(c, p)
    \/ Authorize(c) \/ AuthFail(c)
    \/ \E b \in Requests \cup {Garbage} : ReadBody(c, b)
    \/ BodyError(c) \/ EngineStep(c) \/ Encode(c) \/ Cancel(c)
    \/ NextRequest(c)

Next == \E c \in Clients : Serve(c)

Spec == Init /\ [][Next]_vars

-----------------------------------------------------------------------------
(***************************************************************************)
(* Invariant: the engine only ever holds a request whose headers the       *)
(* authorizer accepted.  handle_request returns the AuthError response     *)
(* before it reads the body, so no unauthenticated request reaches get,    *)
(* put, delete or list, whatever the other requests do meanwhile.          *)
(***************************************************************************)
AuthGate == \A c \in Clients : req[c] # NoReq => authed[c]

(***************************************************************************)
(* Action property: the HTTP answer handle_request writes for an engine    *)
(* request agrees with what the engine did: 200 to a put only when its     *)
(* batch was applied, 409 only for a put whose batch was rejected, and an  *)
(* InvalidRequestException only for a request the engine refused before    *)
(* running it.                                                             *)
(***************************************************************************)
WireAnswerMatchesOutcome ==
    [][\A c \in Clients :
          (stage[c] = "engine" /\ stage'[c] = "sent") =>
             /\ http'[c].status = 200 /\ req[c].op = "put" => out[c] = "applied"
             /\ http'[c].status = 409 => req[c].op = "put" /\ out[c] = "rejected"
             /\ http'[c].code = "InvalidRequestException" => out[c] = "invalid"
      ]_vars

(***************************************************************************)
(* Invariant (spec.md 4.2): every request answered 200 was authorized      *)
(* first; the endpoints are the four engine operations and other paths    *)
(* get 400.                                                                *)
(***************************************************************************)
SuccessOnlyAuthorized ==
    \A c \in Clients : http[c] # None /\ http[c].status = 200 => authed[c]

(***************************************************************************)
(* Invariant: the http.status_code handle_request records on the request   *)
(* span is the status of the response it writes.  For an engine error the *)
(* span's status comes from get_error_status_code and the response's from *)
(* build_error_response, two separate matches over VssError; a decode     *)
(* error records 400 beside its own 400 response.                          *)
(***************************************************************************)
TracedStatusMatchesResponse ==
    \A c \in Clients : http[c] # None /\ http[c].traced # None => http[c].traced = http[c].status
=============================================================================
