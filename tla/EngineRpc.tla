---------------------------- MODULE EngineRpc ----------------------------
(***************************************************************************)
(* The two ends of vLLM's multiprocessing engine                           *)
(* (vllm/engine/multiprocessing): MQLLMEngineClient, which lives in the    *)
(* asyncio thread of the API server, and MQLLMEngine, a process of its     *)
(* own with a main loop and a heartbeat thread.  Three one way ZeroMQ      *)
(* channels join them: input (client to engine), output and heartbeat      *)
(* (engine to client).  They are FIFO and lose nothing while both ends     *)
(* live; an engine that closes its context with linger=0, or is killed,    *)
(* takes the messages it had not flushed with it.                          *)
(*                                                                         *)
(* An action of the client is the code between two awaits.  What the       *)
(* engine computes is abstracted to "every request it holds gets one more  *)
(* output per step, the last one marked finished"; its own scheduling is   *)
(* in Scheduler.  The environment decides which of Faults may happen.      *)
(***************************************************************************)
EXTENDS Naturals, FiniteSets, Sequences, SequencesExt

CONSTANTS
    Requests,     \* request ids
    Guided,       \* those whose sampling parameters ask for guided decoding
    NumOutputs,   \* how many outputs a request is answered with
    MaxBeats,     \* bound on heartbeats in flight
    Faults        \* what the environment may do to the engine

ASSUME ConstantsOK ==
    /\ Guided \subseteq Requests
    /\ NumOutputs \in Nat \ {0} /\ MaxBeats \in Nat \ {0}
    /\ Faults \subseteq {"reject", "frame", "step", "hang", "kill", "health", "late"}

VARIABLES
    req,          \* where each call of _process_request is
    output_queues,\* what the output loop has put in each request's queue
    got,          \* number of the last output the caller was given
    errored,      \* the client's _errored_with is not None
    output_loop,  \* run_output_handler_loop still runs
    health_loop,  \* run_heartbeat_loop still runs
    input,        \* channel client -> engine
    output,       \* channel engine -> client: outputs and RPCErrors
    heartbeat,    \* channel engine -> client: TRUE healthy, FALSE unhealthy
    loop,         \* where the engine's main loop is
    engine_errored,     \* the engine's _errored_with is not None
    running,      \* requests the LLMEngine holds, with the outputs made so far
    rejected      \* requests add_request raised for (history)

client  == <<req, output_queues, got, errored, output_loop, health_loop>>
engine  == <<loop, engine_errored, running, rejected>>
vars    == <<client, engine, input, output, heartbeat>>

\* Requests with an entry in the dict output_queues.
Registered == {r \in Requests : req[r] = "waiting"}

Items    == [n : 0..NumOutputs, error : BOOLEAN]
Error    == [n |-> 0, error |-> TRUE]

Outputs(S)       == [toks |-> S, to |-> {}, fatal |-> FALSE]
RPCError(S, fat) == [toks |-> <<>>, to |-> S, fatal |-> fat]

TypeOK ==
    /\ req \in [Requests -> {"new", "guided", "waiting", "done", "failed", "cancelled"}]
    /\ output_queues \in [Requests -> Seq(Items)]
    /\ got \in [Requests -> 0..NumOutputs]
    /\ {errored, output_loop, health_loop, engine_errored} \subseteq BOOLEAN
    /\ input \in Seq([kind : {"process", "abort"}, id : Requests])
    /\ \A i \in DOMAIN output :
          /\ DOMAIN output[i].toks \subseteq Requests
          /\ output[i].to \subseteq Requests
    /\ heartbeat \in Seq(BOOLEAN) /\ Len(heartbeat) <= MaxBeats + 1
    /\ loop \in {"poll", "input", "step", "hung", "raised", "dead"}
    /\ DOMAIN running \subseteq Requests
    /\ \A r \in DOMAIN running : running[r] \in 0..(NumOutputs - 1)
    /\ rejected \subseteq Requests

Init ==
    /\ req = [r \in Requests |-> "new"]
    /\ output_queues = [r \in Requests |-> <<>>]
    /\ got = [r \in Requests |-> 0]
    /\ errored = FALSE /\ output_loop = TRUE /\ health_loop = TRUE
    /\ input = <<>> /\ output = <<>> /\ heartbeat = <<>>
    /\ loop = "poll" /\ engine_errored = FALSE
    /\ running = <<>> /\ rejected = {}

-----------------------------------------------------------------------------
(* The client: _process_request *)

\* Create the output queue, then send the request: there is no await between
\* the two that lets another coroutine run.
Send(r) ==
    /\ req' = [req EXCEPT ![r] = "waiting"]
    /\ input' = Append(input, [kind |-> "process", id |-> r])

\* The finally clauses: a request given up before it finished is aborted in
\* the engine, unless the engine is known to be dead; its queue is popped.
Leave(r, how) ==
    /\ req' = [req EXCEPT ![r] = how]
    /\ output_queues' = [output_queues EXCEPT ![r] = <<>>]
    /\ input' = IF how # "done" /\ ~errored
                THEN Append(input, [kind |-> "abort", id |-> r]) ELSE input

Generate(r) ==
    /\ req[r] = "new"
    /\ \/ /\ errored
          /\ req' = [req EXCEPT ![r] = "failed"]
          /\ UNCHANGED input
       \/ /\ ~errored /\ r \in Guided
          /\ req' = [req EXCEPT ![r] = "guided"]
          /\ UNCHANGED input
       \/ /\ ~errored /\ r \notin Guided
          /\ Send(r)
    /\ UNCHANGED <<output_queues, got, errored, output_loop, health_loop,
                   engine, output, heartbeat>>

\* build_guided_decoding_logits_processor_async has returned.  _errored_with
\* is not looked at again.
GuideBuilt(r) ==
    /\ req[r] = "guided"
    /\ Send(r)
    /\ UNCHANGED <<output_queues, got, errored, output_loop, health_loop,
                   engine, output, heartbeat>>

\* queue.get() returns: an exception is raised to the caller, the finished
\* output ends the stream, any other is yielded.
QueueGet(r) ==
    /\ req[r] = "waiting" /\ output_queues[r] # <<>>
    /\ LET item == Head(output_queues[r]) IN
       \/ /\ item.error
          /\ Leave(r, "failed")
          /\ UNCHANGED got
       \/ /\ ~item.error /\ item.n = NumOutputs
          /\ Leave(r, "done")
          /\ got' = [got EXCEPT ![r] = item.n]
       \/ /\ ~item.error /\ item.n < NumOutputs
          /\ got' = [got EXCEPT ![r] = item.n]
          /\ output_queues' = [output_queues EXCEPT ![r] = Tail(@)]
          /\ UNCHANGED <<req, input>>
    /\ UNCHANGED <<errored, output_loop, health_loop, engine, output, heartbeat>>

\* The caller closes the generator, or its task is cancelled, while it waits.
\* While the guide is built nothing has been registered yet.
Cancel(r) ==
    /\ \/ /\ req[r] = "guided"
          /\ req' = [req EXCEPT ![r] = "cancelled"]
          /\ UNCHANGED <<output_queues, input>>
       \/ /\ req[r] = "waiting"
          /\ Leave(r, "cancelled")
    /\ UNCHANGED <<got, errored, output_loop, health_loop, engine, output, heartbeat>>

-----------------------------------------------------------------------------
(* The client: its two background loops *)

\* Put its item into the queue of every request addressed that still has one.
Deliver(items) ==
    output_queues' = [r \in Requests |->
        IF r \in DOMAIN items \cap Registered THEN Append(output_queues[r], items[r])
        ELSE output_queues[r]]

\* One message of the output socket.
OutputArrives ==
    /\ output_loop /\ output # <<>>
    /\ output' = Tail(output)
    /\ LET m == Head(output) IN
       \/ /\ m.to # {}
          /\ errored' = (errored \/ m.fatal)
          /\ Deliver([r \in m.to |-> Error])
       \/ /\ m.to = {}
          /\ errored' = errored
          /\ Deliver([r \in DOMAIN m.toks |-> [n |-> m.toks[r], error |-> FALSE]])
    /\ UNCHANGED <<req, got, output_loop, health_loop, engine, input, heartbeat>>

\* The mutant returns without telling the requests that wait.
MutOutputTimeout ==
    /\ output_loop /\ output = <<>> /\ errored
    /\ output_loop' = FALSE
    /\ UNCHANGED <<req, output_queues, got, errored, health_loop, engine, input, output, heartbeat>>

\* VLLM_RPC_TIMEOUT passes with nothing on the output socket: once the client
\* is errored every waiting request is told and the loop returns.
OutputTimeout ==
    /\ output_loop /\ output = <<>> /\ errored
    /\ Deliver([r \in Requests |-> Error])
    /\ output_loop' = FALSE
    /\ UNCHANGED <<req, got, errored, health_loop, engine, input, output, heartbeat>>

\* One message of the heartbeat socket: an unhealthy one is raised by
\* _check_success and ends the loop.
BeatArrives ==
    /\ health_loop /\ heartbeat # <<>>
    /\ heartbeat' = Tail(heartbeat)
    /\ errored' = (errored \/ ~Head(heartbeat))
    /\ health_loop' = Head(heartbeat)
    /\ UNCHANGED <<req, output_queues, got, output_loop, engine, input, output>>

\* No heartbeat within VLLM_RPC_TIMEOUT: certain when the engine is gone, and
\* possible ("late") when it lives.
BeatTimeout ==
    /\ health_loop /\ heartbeat = <<>>
    /\ loop = "dead" \/ "late" \in Faults
    /\ errored' = TRUE
    /\ health_loop' = FALSE
    /\ UNCHANGED <<req, output_queues, got, output_loop, engine, input, output, heartbeat>>

-----------------------------------------------------------------------------
(* The engine: run_engine_loop *)

\* With nothing unfinished the loop polls until there is input.
PollInput ==
    /\ loop = "poll"
    /\ running # <<>> \/ input # <<>>
    /\ loop' = "input"
    /\ UNCHANGED <<client, input, output, heartbeat, engine_errored, running, rejected>>

Without(f, r) == [x \in DOMAIN f \ {r} |-> f[x]]

\* _handle_process_request.  An errored engine sends the error and adds the
\* request all the same; add_request may raise for reasons of the request's
\* own, which is reported to that request alone.
HandleProcess(r) ==
    LET dead == IF engine_errored THEN Append(output, RPCError({r}, TRUE)) ELSE output
    IN  \/ /\ running' = [x \in DOMAIN running \cup {r} |->
                             IF x = r THEN 0 ELSE running[x]]
           /\ output' = dead
           /\ rejected' = rejected
        \/ /\ "reject" \in Faults
           /\ output' = Append(dead, RPCError({r}, engine_errored))
           /\ running' = Without(running, r)
           /\ rejected' = rejected \cup {r}

\* One turn of the loop of handle_new_input.
HandleInput ==
    /\ loop = "input" /\ input # <<>>
    /\ input' = Tail(input)
    /\ LET m == Head(input) IN
       \/ /\ m.kind = "process"
          /\ HandleProcess(m.id)
       \/ /\ m.kind = "abort"
          /\ running' = Without(running, m.id)
          /\ UNCHANGED <<output, rejected>>
    /\ UNCHANGED <<client, heartbeat, loop, engine_errored>>

\* A message that cannot be unpickled or is of no known type.
HandleInputRaises ==
    /\ "frame" \in Faults
    /\ loop = "input" /\ input # <<>>
    /\ input' = Tail(input)
    /\ engine_errored' = TRUE
    /\ heartbeat' = Append(heartbeat, FALSE)
    /\ loop' = "raised"
    /\ UNCHANGED <<client, output, running, rejected>>

InputDrained ==
    /\ loop = "input" /\ input = <<>>
    /\ loop' = "step"
    /\ UNCHANGED <<client, input, output, heartbeat, engine_errored, running, rejected>>

\* engine_step and _send_outputs.
EngineStep ==
    /\ loop = "step"
    /\ loop' = "poll"
    /\ LET made == [r \in DOMAIN running |-> running[r] + 1]
           left == {r \in DOMAIN running : made[r] < NumOutputs}
       IN  /\ running' = [r \in left |-> made[r]]
           /\ output' = IF running = <<>> THEN output
                        ELSE Append(output, Outputs(made))
    /\ UNCHANGED <<client, input, heartbeat, engine_errored, rejected>>

\* engine.step() raises: request_id None addresses every request.
EngineStepRaises ==
    /\ "step" \in Faults
    /\ loop = "step"
    /\ engine_errored' = TRUE
    /\ output' = Append(output, RPCError(Requests, TRUE))
    /\ loop' = "raised"
    /\ UNCHANGED <<client, input, heartbeat, running, rejected>>

\* engine.step() does not return, for longer than last_alive_threshold.
EngineStepHangs ==
    /\ "hang" \in Faults
    /\ loop = "step"
    /\ loop' = "hung"
    /\ UNCHANGED <<client, input, output, heartbeat, engine_errored, running, rejected>>

\* What the engine had not flushed is lost with its sockets.
Vanish ==
    /\ loop' = "dead"
    /\ running' = <<>>
    /\ \E k \in 0..Len(output) : output' = SubSeq(output, 1, k)
    /\ \E k \in 0..Len(heartbeat) : heartbeat' = SubSeq(heartbeat, 1, k)
    /\ UNCHANGED <<client, input, engine_errored, rejected>>

\* start() caught the exception: cleanup() destroys the context, linger=0.
Cleanup ==
    /\ loop = "raised"
    /\ Vanish

Killed ==
    /\ "kill" \in Faults
    /\ loop # "dead"
    /\ Vanish

\* The mutant reports a main loop that is stuck as healthy.
MutHeartbeat ==
    /\ loop # "dead" /\ Len(heartbeat) < MaxBeats
    /\ heartbeat' = Append(heartbeat, ~engine_errored)
    /\ UNCHANGED <<client, input, output, loop, engine_errored, running, rejected>>

\* _heartbeat, in the heartbeat thread: unhealthy when the engine is errored,
\* when the main loop has not been seen alive for too long (a step that is
\* merely slow looks the same), or when check_health raises.
Heartbeat ==
    /\ loop # "dead" /\ Len(heartbeat) < MaxBeats
    /\ \/ /\ engine_errored \/ loop = "hung" \/ (loop = "step" /\ "late" \in Faults)
          /\ heartbeat' = Append(heartbeat, FALSE)
          /\ UNCHANGED engine_errored
       \/ /\ ~engine_errored /\ loop # "hung"
          /\ heartbeat' = Append(heartbeat, TRUE)
          /\ UNCHANGED engine_errored
       \/ /\ ~engine_errored /\ loop # "hung" /\ "health" \in Faults
          /\ heartbeat' = Append(heartbeat, FALSE)
          /\ engine_errored' = TRUE
    /\ UNCHANGED <<client, input, output, loop, running, rejected>>

-----------------------------------------------------------------------------

ClientNext == \/ \E r \in Requests : Generate(r) \/ GuideBuilt(r) \/ QueueGet(r) \/ Cancel(r)
              \/ OutputArrives \/ OutputTimeout \/ BeatArrives \/ BeatTimeout

MainLoop == PollInput \/ HandleInput \/ HandleInputRaises \/ InputDrained
            \/ EngineStep \/ EngineStepRaises \/ EngineStepHangs \/ Cleanup

EngineNext == MainLoop \/ Heartbeat \/ Killed

Next == ClientNext \/ EngineNext

Spec == Init /\ [][Next]_vars

\* asyncio runs every coroutine that is ready, poll timeouts pass, the
\* engine's main loop and heartbeat thread run while the process lives and a
\* guide is built in finite time.  Nothing makes a caller call or give up.
Fairness ==
    /\ \A r \in Requests : WF_vars(GuideBuilt(r)) /\ WF_vars(QueueGet(r))
    /\ WF_vars(OutputArrives) /\ WF_vars(OutputTimeout)
    /\ WF_vars(BeatArrives) /\ WF_vars(BeatTimeout)
    /\ WF_vars(MainLoop) /\ WF_vars(Heartbeat)

FairSpec == Spec /\ Fairness

-----------------------------------------------------------------------------

\* The numbered outputs of request r that wait in its queue, and those that are
\* under way to it.
Known(r)  == {i \in DOMAIN output_queues[r] : ~output_queues[r][i].error}
Sent(r)   == {i \in DOMAIN output : r \in DOMAIN output[i].toks}
Unread(r) == {output_queues[r][i].n : i \in Known(r)} \cup {output[i].toks[r] : i \in Sent(r)}

\* Each stream is whole: the outputs in a caller's queue, and after them those
\* under way, are in order and follow what the caller has been given without a
\* gap, so that a stream that ends as finished has had every output (client.py,
\* output_loop and _process_request; the queue is created before the request is
\* sent).
StreamIsWhole ==
    \A r \in Registered :
        /\ \A i, j \in Known(r) : i < j => output_queues[r][i].n < output_queues[r][j].n
        /\ \A i, j \in Sent(r) : i < j => output[i].toks[r] < output[j].toks[r]
        /\ \A i \in Known(r), j \in Sent(r) : output_queues[r][i].n < output[j].toks[r]
        /\ \A n \in Unread(r) : got[r] < n /\ (got[r] + 1) .. n \subseteq Unread(r)

\* No request generates for nobody: while the client holds the engine for
\* healthy and the engine's loop runs, a request it works on either has a
\* caller waiting for it or an abort for it is on its way (client.py: "Request
\* was canceled by the client").
NoWorkForNobody ==
    ~errored /\ loop # "raised" =>
        \A r \in DOMAIN running :
            \/ req[r] = "waiting"
            \/ \E i \in DOMAIN input : input[i] = [kind |-> "abort", id |-> r]

\* A request fails only when the client knows the engine to be broken, or when
\* the engine refused this very request: the refusal of one never fails
\* another (engine.py: "the error is due to an issue adding this request to
\* the engine, rather than an issue with the engine itself").
FailuresAreOwn ==
    \A r \in Requests : req[r] = "failed" => errored \/ r \in rejected

\* A request told that its engine is dead is never left waiting behind it:
\* once the output loop has returned, every request still waiting has an
\* error at the end of its queue.  (Not so one whose guide was being built.)
NobodyIsLeftBehind ==
    ~output_loop => \A r \in Registered \ Guided :
                        \E i \in DOMAIN output_queues[r] : output_queues[r][i].error

\* Every request that waits for the engine ends, whatever the engine does and
\* whatever becomes of the others.  (A request whose guide was being built when
\* the output loop returned does not.)
EveryRequestEnds ==
    \A r \in Requests \ Guided : req[r] = "waiting" ~> req[r] # "waiting"

\* An engine that died or hangs is noticed, and noticed as such by the client
\* (check_health then makes the worker loop kill the container).
DeathIsNoticed == (loop \in {"dead", "hung"}) ~> errored

\* Whatever becomes of the engine, the client notices it and its callers are
\* answered or told.
ClientGoesOn == EveryRequestEnds /\ DeathIsNoticed

\* Client and engine agree on who waits for what: the engine works for nobody
\* who has left, a stream has no gap, a request fails with the engine or for a
\* reason of its own, and no request is left waiting when the output loop has
\* returned.
RequestsAreTracked ==
    /\ TypeOK
    /\ StreamIsWhole
    /\ NoWorkForNobody
    /\ FailuresAreOwn
    /\ NobodyIsLeftBehind
=============================================================================
