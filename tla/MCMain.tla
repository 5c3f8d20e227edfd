------------------------------- MODULE MCMain -------------------------------
(***************************************************************************)
(* The server process with the dispatcher instance of MCVssService, three  *)
(* builds (jwt only; sigs with the noop fallback; noop only), a config     *)
(* file that is unreadable, malformed, or one of three Configs, and three  *)
(* environments for the Sentry variables.                                  *)
(***************************************************************************)
EXTENDS Main, MCVssService

MCBuilds == {{"jwt"}, {"sigs", "noop_authorizer"}, {"noop_authorizer"}}

Sentry(dsn, env, rate) == [dsn |-> dsn, environment |-> env, sample_rate |-> rate]

\* A JWT key over TLS with Sentry; a hostname; neither key nor Sentry DSN.
MCConfigFiles ==
    {Unreadable, Malformed,
     [host |-> "127.0.0.1", rsa_pem |-> "pem", tls |-> TRUE,
      sentry_config |-> Sentry("dsn", "production", None)],
     [host |-> "localhost", rsa_pem |-> "pem", tls |-> FALSE,
      sentry_config |-> None],
     [host |-> "0.0.0.0", rsa_pem |-> None, tls |-> FALSE,
      sentry_config |-> Sentry("", None, None)]}

Env(dsn, env, rate) ==
    [SENTRY_DSN |-> dsn, SENTRY_ENVIRONMENT |-> env, SENTRY_SAMPLE_RATE |-> rate]

\* Nothing set; an empty DSN and a rate that parses; a DSN and one that does not.
MCEnvs == {Env(Unset, Unset, Unset), Env("", Unset, "0.5"), Env("dsn", "staging", "x")}

MCIpLiterals == {"127.0.0.1", "0.0.0.0"}

\* Sample rates in tenths.
MCParsedF32 == "0.5" :> 5

MCArgCounts == {1, 2}
=============================================================================
