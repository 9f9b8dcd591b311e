------------------------- MODULE ServerLifecycle -------------------------
(***************************************************************************)
(* How the one server process starts and stops: run_all_servers_async      *)
(* starts the API task and the vLLM task and ends both as soon as one      *)
(* ends; the vLLM task spawns the engine process, waits for its answer on  *)
(* the data socket, serves, and in its finally clause takes the engine     *)
(* process down with it.  A worker loop that finds the engine dead kills   *)
(* the container.                                                          *)
(*                                                                         *)
(* The data socket: each setup() opens a DEALER socket, sends one request  *)
(* and closes the socket, linger=0, when no answer came in time.  The      *)
(* engine binds its ROUTER once the model is loaded, answers one request   *)
(* and closes it.  Of the requests that reached the ROUTER at most the     *)
(* last comes from a socket that is still open ("live"); the answer to any *)
(* other goes nowhere.                                                     *)
(***************************************************************************)
EXTENDS Naturals, Sequences

CONSTANT MaxInbox    \* bound on requests the ROUTER holds unread

ASSUME MaxInboxOK == MaxInbox \in Nat \ {0}

VARIABLES
    main,       \* run_all_servers_async: "wait", "cancelled", "exited"
    api,        \* create_api: "none" when not asked for, "running", "done"
    vllm,       \* run_server: "none", "create", "setup", "serving", "finally", "join", "done"
    engine,     \* the engine process: "none", "loading", "startup", "loop", "exited"
    inbox,      \* requests read by nobody yet in the ROUTER
    pending,    \* the open DEALER's request has not reached a ROUTER yet
    reply,      \* answer under way to the open DEALER: "none", "ready", "error"
    errored,    \* the engine client holds the engine for dead
    built       \* the engine client has been built (history)

serverVars == <<main, api, vllm, engine, inbox, pending, reply, errored, built>>

ServerTypeOK ==
    /\ main \in {"wait", "cancelled", "exited"}
    /\ api \in {"none", "running", "done"}
    /\ vllm \in {"none", "create", "setup", "serving", "finally", "join", "done"}
    /\ engine \in {"none", "loading", "startup", "loop", "exited"}
    /\ {pending, errored, built} \subseteq BOOLEAN
    /\ inbox \in Seq({"live", "stale"}) /\ Len(inbox) <= MaxInbox
    /\ \A i \in DOMAIN inbox : inbox[i] = "live" => i = Len(inbox) /\ ~pending
    /\ reply \in {"none", "ready", "error"}

\* start_cray_server has created the tasks the configuration asks for (the
\* deployments run the API server and vLLM in containers of their own, the
\* default is both in one), and the vLLM task has started the engine process.
ServerInit ==
    /\ main = "wait"
    /\ \E server_list \in {"api", "vllm", "all"} :
          /\ api = IF server_list \in {"api", "all"} THEN "running" ELSE "none"
          /\ vllm = IF server_list \in {"vllm", "all"} THEN "create" ELSE "none"
    /\ engine = IF vllm = "create" THEN "loading" ELSE "none"
    /\ pending = FALSE /\ built = FALSE
    /\ inbox = <<>> /\ reply = "none"
    /\ errored = FALSE

-----------------------------------------------------------------------------
(* The engine process *)

\* run_startup_loop binds the ROUTER: the model has been loaded.
EngineBinds ==
    /\ engine = "loading"
    /\ engine' = "startup"
    /\ UNCHANGED <<main, api, vllm, inbox, pending, reply, errored, built>>

\* The open DEALER's request reaches the bound ROUTER.
RequestArrives ==
    /\ pending /\ engine = "startup" /\ Len(inbox) < MaxInbox
    /\ inbox' = Append(inbox, "live")
    /\ pending' = FALSE
    /\ UNCHANGED <<main, api, vllm, engine, reply, errored, built>>

\* recv, answer, close: the answer is the configuration or the exception that
\* asking the LLMEngine for it raised.  What else the ROUTER held is dropped.
EngineAnswers ==
    /\ engine = "startup" /\ inbox # <<>>
    /\ engine' = "loop"
    /\ \E answer \in {"ready", "error"} :
          reply' = IF Head(inbox) = "live" THEN answer ELSE reply
    /\ inbox' = <<>>
    /\ UNCHANGED <<main, api, vllm, pending, errored, built>>

\* The process ends: the model does not load, the loop raised, it was killed,
\* or SIGTERM's handler raised KeyboardInterrupt.
EngineExits ==
    /\ engine \notin {"none", "exited"}
    /\ engine' = "exited"
    /\ inbox' = <<>>
    /\ UNCHANGED <<main, api, vllm, pending, reply, errored, built>>

-----------------------------------------------------------------------------
(* The vLLM task *)

\* The engine's configuration is read again and MQLLMEngineClient built, and
\* the first setup() sends its request.
ClientBuilt ==
    /\ vllm = "create"
    /\ vllm' = "setup"
    /\ built' = TRUE
    /\ pending' = TRUE
    /\ UNCHANGED <<main, api, engine, inbox, reply, errored>>

\* Either of them raises: the try block that ends in the finally clause has
\* not been entered yet.
ClientRaises ==
    /\ vllm = "create"
    /\ vllm' = "done"
    /\ UNCHANGED <<main, api, engine, inbox, pending, reply, errored, built>>

\* setup() returns, or raises what it was answered with.
SetupAnswered ==
    /\ vllm = "setup" /\ reply # "none"
    /\ vllm' = IF reply = "ready" THEN "serving" ELSE "finally"
    /\ reply' = "none"
    /\ UNCHANGED <<main, api, engine, inbox, pending, errored, built>>

\* No answer within VLLM_RPC_TIMEOUT: the socket is closed, and unless the
\* engine process has ended setup() is called again, with a new socket.
SetupTimeout ==
    /\ vllm = "setup" /\ reply = "none"
    /\ inbox' = [i \in DOMAIN inbox |-> "stale"]
    /\ \/ /\ engine = "exited"
          /\ vllm' = "finally"
          /\ pending' = FALSE
       \/ /\ engine # "exited"
          /\ vllm' = vllm
          /\ pending' = TRUE
    /\ UNCHANGED <<main, api, engine, reply, errored, built>>

\* The heartbeat loop started by setup() hears nothing, or bad news, from the
\* engine: certain once the process has ended, possible while it lives.
EngineLost ==
    /\ vllm = "serving" /\ ~errored
    /\ errored' = TRUE
    /\ UNCHANGED <<main, api, vllm, engine, inbox, pending, reply, built>>

\* serve_http returns: an exception handler saw the dead engine and set
\* should_exit, or the HTTP server stopped for a reason of its own.
ServeEnds ==
    /\ vllm = "serving"
    /\ vllm' = "finally"
    /\ UNCHANGED <<main, api, engine, inbox, pending, reply, errored, built>>

\* The finally clause of build_async_engine_client_from_engine_args.
Terminate ==
    /\ vllm = "finally"
    /\ vllm' = "join"
    /\ pending' = FALSE /\ reply' = "none"
    /\ inbox' = [i \in DOMAIN inbox |-> "stale"]
    /\ UNCHANGED <<main, api, engine, errored, built>>

\* The mutant gives up after the four seconds of join.
MutJoin ==
    /\ vllm = "join"
    /\ vllm' = "done"
    /\ UNCHANGED <<main, api, engine, inbox, pending, reply, errored, built>>

\* join(4): a process that has not ended by then is killed.
Join ==
    /\ vllm = "join"
    /\ vllm' = "done"
    /\ engine' = "exited"
    /\ inbox' = <<>>
    /\ UNCHANGED <<main, api, pending, reply, errored, built>>

\* get_work finds the engine dead (check_health raises) and kills every
\* Python process of the container: the engine and this process.
KillContainer ==
    /\ vllm = "serving" /\ errored
    /\ main' = "exited" /\ vllm' = "done"
    /\ api' = IF api = "none" THEN "none" ELSE "done"
    /\ engine' = "exited"
    /\ UNCHANGED <<inbox, pending, reply, errored, built>>

-----------------------------------------------------------------------------
(* The API task and the main coroutine *)

\* The other tasks of the event loop do not run while the client is built.
ApiEnds ==
    /\ api = "running" /\ vllm # "create"
    /\ api' = "done"
    /\ UNCHANGED <<main, vllm, engine, inbox, pending, reply, errored, built>>

\* The mutant leaves the other task to itself.
MutCancelPending ==
    /\ main = "wait" /\ (api = "done" \/ vllm = "done")
    /\ main' = "cancelled"
    /\ UNCHANGED <<api, vllm, engine, inbox, pending, reply, errored, built>>

\* The first task has ended: the other is cancelled.  The cancellation makes
\* the vLLM task leave setup or serve_http through its finally clause.
CancelPending ==
    /\ main = "wait" /\ (api = "done" \/ vllm = "done")
    /\ main' = "cancelled"
    /\ api' = IF api = "none" THEN "none" ELSE "done"
    /\ vllm' = IF vllm \in {"setup", "serving"} THEN "finally" ELSE vllm
    /\ UNCHANGED <<engine, inbox, pending, reply, errored, built>>

\* asyncio.run returns when both tasks are through.
MainExits ==
    /\ main = "cancelled" /\ api \in {"none", "done"} /\ vllm \in {"none", "done"}
    /\ main' = "exited"
    /\ UNCHANGED <<api, vllm, engine, inbox, pending, reply, errored, built>>

-----------------------------------------------------------------------------

EngineNext == EngineBinds \/ EngineAnswers \/ EngineExits
VllmNext   == ClientBuilt \/ ClientRaises \/ SetupAnswered \/ SetupTimeout \/ EngineLost \/ ServeEnds
              \/ Terminate \/ Join \/ KillContainer
MainNext   == ApiEnds \/ CancelPending \/ MainExits

ServerNext == EngineNext \/ RequestArrives \/ VllmNext \/ MainNext

ServerSpec == ServerInit /\ [][ServerNext]_serverVars

\* The model loads or fails to, the startup loop answers, messages arrive,
\* timeouts pass and tasks that are ready run; nothing need ever end by itself.
ServerFairness ==
    /\ WF_serverVars(EngineBinds) /\ WF_serverVars(EngineAnswers) /\ WF_serverVars(RequestArrives)
    /\ WF_serverVars(ClientBuilt \/ ClientRaises) /\ WF_serverVars(SetupAnswered)
    /\ WF_serverVars(EngineLost /\ engine = "exited")
    /\ WF_serverVars(SetupTimeout)
    /\ WF_serverVars(Terminate) /\ WF_serverVars(Join) /\ WF_serverVars(KillContainer)
    /\ WF_serverVars(CancelPending) /\ WF_serverVars(MainExits)

-----------------------------------------------------------------------------

\* The engine process, and with it the GPU memory, never outlives the server:
\* when the vLLM task is through, in whatever way it came to its end, the
\* engine process has ended (api_server.py: "Ensures everything is shutdown
\* and cleaned up on error/exit").
NoOrphanEngine == vllm = "done" \/ main = "exited" => engine \in {"none", "exited"}

\* The same for every end the server comes to once its client is built.
EngineIsReaped == built => NoOrphanEngine

\* One part that ends takes the whole server with it, and none
\* is left to answer alone: the API task, the vLLM task or the engine process
\* (main.py: "Another service died, server is shutting down").
OneDownAllDown ==
    (api = "done" \/ vllm = "done" \/ engine = "exited") ~> main = "exited"

\* The server's tasks and processes are in step, and a server that has built its
\* client never ends without its engine process.
ServerIsConsistent ==
    /\ ServerTypeOK
    /\ EngineIsReaped
=============================================================================
