------------------------------- MODULE Server -------------------------------
(***************************************************************************)
(* The connection acceptor of server/src/main.rs: the accept loop spawns   *)
(* one task per connection, which serves its requests through VssService;  *)
(* SIGINT or SIGTERM breaks the loop, block_on returns and main returns,   *)
(* which ends the process and every task with it.  SIGHUP only reopens    *)
(* the log file.                                                           *)
(***************************************************************************)
EXTENDS VssService

VARIABLES
    running,  \* the accept loop has not been broken
    conns     \* connections accepted, each served by its own task

serverVars == <<running, conns>>
allVars == <<vars, serverVars>>

ServerInit ==
    /\ Init
    /\ running = TRUE
    /\ conns = {}

\* rest_svc_listener.accept() returns a connection; a task is spawned for it.
Accept(c) ==
    /\ running
    /\ c \notin conns
    /\ conns' = conns \cup {c}
    /\ UNCHANGED <<vars, running>>

\* A spawned task runs a step of its connection.
Task(c) ==
    /\ running
    /\ c \in conns
    /\ Serve(c)
    /\ UNCHANGED serverVars

\* ctrl_c() or a SIGTERM: the loop breaks and the process ends; nothing of
\* any task runs afterwards.
Shutdown ==
    /\ running
    /\ running' = FALSE
    /\ UNCHANGED <<vars, conns>>

ServerNext ==
    \/ \E c \in Clients : Accept(c) \/ Task(c)
    \/ Shutdown

ServerSpec == ServerInit /\ [][ServerNext]_allVars

(***************************************************************************)
(* Invariant (spec.md 4.5): shutdown stops accepting and lets in-flight    *)
(* requests drain, so once the loop is broken no accepted request is left  *)
(* waiting on verify, its body or the engine.                              *)
(***************************************************************************)
InFlightDrained ==
    ~running => \A c \in conns : stage[c] \notin {"auth", "body", "engine"}
=============================================================================
