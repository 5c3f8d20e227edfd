------------------------------ MODULE Startup ------------------------------
(***************************************************************************)
(* Start-up of the server binary: main of server/src/main.rs up to the     *)
(* accept loop, with load_config and the Sentry getters of                 *)
(* server/src/util/config.rs.  Each step is one fallible call of main, in  *)
(* main's order; a failure prints and calls std::process::exit.  Strings   *)
(* of the configuration and the environment are members of small sets:    *)
(* only whether a value is set, empty or parses matters to main.           *)
(***************************************************************************)
EXTENDS Integers

CONSTANTS
    Builds,       \* the features and cfg flags a binary may be built with
    ArgCounts,    \* std::env::args().len()
    ConfigFiles,  \* the config file: Unreadable, Malformed or a Config
    Envs,         \* the environment, a function of variable names
    IpLiterals,   \* host strings that parse as an IP address
    ParsedF32,    \* the strings str::parse::<f32> accepts, to their value
    Unreadable, Malformed, Unset, None

VARIABLES
    phase,       \* the next call of main, "listening", or "exited"
    exitCode,    \* the argument of std::process::exit, or None
    build,       \* the features the binary was built with
    conf,        \* the loaded Config, kept while main reads it
    sentry,      \* the Sentry client options, or None (no guard)
    authorizer,  \* the verifier handed to VssService::new
    backend      \* the PostgreSQL backend variant

startupVars == <<phase, exitCode, build, conf, sentry, authorizer, backend>>

\* The sections of Config main reads: server_config's host (its port always
\* forms a valid address), jwt_auth_config's rsa_pem, whether
\* postgresql_config has a tls section, and sentry_config.
SentryConfig == [dsn : STRING \cup {None}, environment : STRING \cup {None},
                 sample_rate : Nat \cup {None}]
Config == [host : STRING, rsa_pem : STRING \cup {None}, tls : BOOLEAN,
           sentry_config : SentryConfig \cup {None}]

\* read_to_string and toml::from_str: None when either fails.
load_config(f) == IF f \in {Unreadable, Malformed} THEN None ELSE f

\* std::env::var(name).ok().or_else(|| fallback)
EnvOr(env, name, fallback) == IF env[name] # Unset THEN env[name] ELSE fallback

get_dsn(sc, env) == EnvOr(env, "SENTRY_DSN", sc.dsn)
get_environment(sc, env) == EnvOr(env, "SENTRY_ENVIRONMENT", sc.environment)

\* The env value if it parses as f32, else the file's, else 1.0.  Rates are
\* in tenths (ParsedF32 maps "0.5" to 5), so 1.0 is 10.
get_sample_rate(sc, env) ==
    LET s == env["SENTRY_SAMPLE_RATE"]
    IN  IF s # Unset /\ s \in DOMAIN ParsedF32 THEN ParsedF32[s]
        ELSE IF sc.sample_rate # None THEN sc.sample_rate ELSE 10

\* No guard without a sentry_config section or with an absent or empty DSN.
initialize_sentry(sc, env) ==
    IF sc = None \/ get_dsn(sc, env) \in {None, ""} THEN None
    ELSE [environment |-> get_environment(sc, env),
          sample_rate |-> get_sample_rate(sc, env)]

\* The process exit status of std::process::exit(code).
ExitStatus(code) == code % 256

\* The verifier main's cfg blocks select: JWT when the jwt feature has an
\* RSA key, else the signature verifier, else the NoopAuthorizer.
configured_authorizer(b, rsaPem) ==
    CASE "jwt" \in b /\ rsaPem # None -> "jwt"
      [] "sigs" \in b                  -> "sigs"
      [] "noop_authorizer" \in b       -> "noop"
      [] OTHER                         -> None

StartupTypeOK ==
    /\ phase \in {"args", "config", "sentry", "addr", "runtime", "signals",
                  "authorizer", "store", "bind", "listening", "exited"}
    /\ exitCode \in Int \cup {None}
    /\ build \in Builds
    /\ conf \in Config \cup {None}
    /\ sentry \in [environment : STRING \cup {None}, sample_rate : Nat] \cup {None}
    /\ authorizer \in {"jwt", "sigs", "noop", None}
    /\ backend \in {"tls", "plaintext", None}

StartupInit ==
    /\ phase = "args"
    /\ exitCode = None
    /\ build \in Builds
    /\ conf = None /\ sentry = None /\ authorizer = None /\ backend = None

\* eprintln! or error! and std::process::exit(code).
Exit(code) == phase' = "exited" /\ exitCode' = code

\* A call of main that succeeds (ok) and moves on to next, or exits.
Try(from, ok, next, code) ==
    /\ phase = from
    /\ IF ok THEN phase' = next /\ UNCHANGED exitCode ELSE Exit(code)

\* Exactly one argument, the config file path.
CheckArgs ==
    /\ \E n \in ArgCounts : Try("args", n = 2, "config", 1)
    /\ UNCHANGED <<build, conf, sentry, authorizer, backend>>

\* load_config: read_to_string and toml::from_str, either may fail.
LoadConfig ==
    /\ \E f \in ConfigFiles :
          /\ Try("config", load_config(f) # None, "sentry", 1)
          /\ conf' = load_config(f)
    /\ UNCHANGED <<build, sentry, authorizer, backend>>

\* initialize_sentry, before the runtime; it cannot fail.
InitializeSentry ==
    /\ Try("sentry", TRUE, "addr", -1)
    /\ \E env \in Envs : sentry' = initialize_sentry(conf.sentry_config, env)
    /\ UNCHANGED <<build, conf, authorizer, backend>>

\* format!("{}:{}", host, port).parse::<SocketAddr>() needs an IP literal.
ParseAddr ==
    /\ Try("addr", conf.host \in IpLiterals, "runtime", -1)
    /\ UNCHANGED <<build, conf, sentry, authorizer, backend>>

\* The tokio runtime, then the SIGHUP and SIGTERM streams.
BuildRuntime ==
    /\ \E ok \in BOOLEAN : Try("runtime", ok, "signals", -1)
    /\ UNCHANGED <<build, conf, sentry, authorizer, backend>>

RegisterSignals ==
    /\ \E hup, term \in BOOLEAN : Try("signals", hup /\ term, "authorizer", -1)
    /\ UNCHANGED <<build, conf, sentry, authorizer, backend>>

\* The verifier; JWTAuthorizer::new may fail, and no verifier exits.
SelectAuthorizer ==
    /\ LET a == configured_authorizer(build, conf.rsa_pem)
       IN  \E ok \in BOOLEAN :
              /\ Try("authorizer", a # None /\ (ok \/ a # "jwt"), "store", -1)
              /\ authorizer' = IF phase' = "store" THEN a ELSE None
    /\ UNCHANGED <<build, conf, sentry, backend>>

\* The TLS backend when the PostgreSQL config has a tls section, else the
\* plaintext one; connecting and creating the table may fail.
StartBackend ==
    /\ \E ok \in BOOLEAN :
          /\ Try("store", ok, "bind", -1)
          /\ backend' = IF ok THEN (IF conf.tls THEN "tls" ELSE "plaintext") ELSE None
    /\ UNCHANGED <<build, conf, sentry, authorizer>>

\* Mutant: a bind failure returns from the async block, so main returns.
Bind_return ==
    /\ \E ok \in BOOLEAN : Try("bind", ok, "listening", 0)
    /\ UNCHANGED <<build, conf, sentry, authorizer, backend>>

\* TcpListener::bind; then the accept loop runs.
Bind ==
    /\ \E ok \in BOOLEAN : Try("bind", ok, "listening", -1)
    /\ UNCHANGED <<build, conf, sentry, authorizer, backend>>

StartupNext ==
    \/ CheckArgs \/ LoadConfig \/ InitializeSentry \/ ParseAddr
    \/ BuildRuntime \/ RegisterSignals \/ SelectAuthorizer \/ StartBackend \/ Bind
-----------------------------------------------------------------------------
(***************************************************************************)
(* Invariant (spec.md 3.3, 4.5): every start-up that stops, for a missing  *)
(* argument, an unreadable or malformed config, an address that is not an *)
(* IP literal, the runtime, the signal streams, the verifier, the backend  *)
(* or the bind, ends with a non-zero exit status (exit(-1) is status 255). *)
(***************************************************************************)
FailedStartupExitsNonZero == phase = "exited" => ExitStatus(exitCode) # 0

====
