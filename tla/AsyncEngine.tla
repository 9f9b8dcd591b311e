---------------------------- MODULE AsyncEngine ----------------------------
(***************************************************************************)
(* AsyncLLMEngine, the engine in the server's own process: its             *)
(* RequestTracker and the streams of its callers, the background loop, and *)
(* the task of one engine_step.  The server uses it when the engine is not *)
(* put into a process of its own.  One virtual engine.                     *)
(*                                                                         *)
(* An action is what runs between two awaits.  The step task is created by *)
(* the loop but is not part of it: a loop that gives up on a step leaves   *)
(* the step running.  What the engine computes is abstracted as in         *)
(* EngineRpc: one more output per step for every request it holds.         *)
(***************************************************************************)
EXTENDS Integers, Sequences, SequencesExt

CONSTANTS
    Calls,          \* requests, each with an id of its own
    NumItems,       \* outputs that a request is answered with
    MaxTroubles     \* bound: steps that raise or take too long

ASSUME AsyncAssumption == NumItems \in Nat \ {0} /\ MaxTroubles \in Nat

VARIABLES
    call,           \* the caller: where he is in his generator
    queue,          \* AsyncStream._queue of each request
    received,       \* outputs that the caller was given
    streams,        \* RequestTracker._request_streams
    new_requests,   \* _new_requests
    aborted,        \* _aborted_requests
    event,          \* new_requests_event
    strays,         \* open requests of a tracker that was replaced
    bg_loop,        \* the background loop
    callbacks,      \* done callbacks of loops that have not run yet
    engine_step,    \* the task of engine_step
    to_add,         \* its new_requests; the engine holds them in no order
    to_abort,       \* its aborted_requests
    core,           \* what the LLMEngine holds: outputs made for each
    died,           \* _errored_with is set
    troubles        \* counter for the bound

callerVars == <<call, queue, received>>
trackerVars == <<streams, new_requests, aborted, event, strays>>
stepVars == <<engine_step, to_add, to_abort, core>>
loopVars == <<bg_loop, callbacks, died, troubles>>
asyncVars == <<callerVars, trackerVars, stepVars, loopVars>>

(* Items of a stream: an output by its number, or how it ends. *)
STOP_ITERATION == 0
Exception == -1
CancelledError == -2
Ends == {STOP_ITERATION, Exception, CancelledError}

(* Types of the streams, the tracker, the loop and the step. *)
AsyncTypeOK ==
    /\ call \in [Calls -> {"new", "open", "done", "failed", "left"}]
    /\ queue \in [Calls -> Seq((1 .. NumItems) \cup Ends)]
    /\ received \in [Calls -> 0 .. NumItems]
    /\ new_requests \in Seq(Calls)
    /\ streams \cup aborted \cup strays \subseteq Calls
    /\ to_add \cup to_abort \cup DOMAIN core \subseteq Calls
    /\ core \in [DOMAIN core -> 0 .. NumItems - 1]
    /\ bg_loop \in {"none", "idle", "wait", "dead"}
    /\ engine_step \in {"none", "begin", "adding", "model", "unfinished", "finished", "raised"}
    /\ callbacks \in 0 .. MaxTroubles /\ troubles \in 0 .. MaxTroubles
    /\ event \in BOOLEAN /\ died \in BOOLEAN

AsyncInit ==
    /\ call = [r \in Calls |-> "new"]
    /\ queue = [r \in Calls |-> <<>>]
    /\ received = [r \in Calls |-> 0]
    /\ streams = {} /\ new_requests = <<>> /\ aborted = {} /\ event = FALSE /\ strays = {}
    /\ bg_loop = "none" /\ callbacks = 0 /\ died = FALSE /\ troubles = 0
    /\ engine_step = "none" /\ to_add = {} /\ to_abort = {}
    /\ core = <<>>

-----------------------------------------------------------------------------
(* AsyncStream.put and finish, of every stream that items has something    *)
(* for: nothing follows what finished a stream.                            *)
IsFinished(r) ==
    call[r] \in {"done", "failed"} \/ ToSet(queue[r]) \cap Ends # {}

Put(items) ==
    queue' = [r \in Calls |-> IF r \in DOMAIN items /\ ~IsFinished(r)
                              THEN queue[r] \o items[r] ELSE queue[r]]

FinishAll(S, how) == Put([r \in S |-> <<how>>])

(* RequestTracker.abort_request: told to the engine in the next step, and  *)
(* to the caller if the loop has taken the request.                        *)
AbortRequests(S, how) ==
    /\ aborted' = aborted \cup S
    /\ streams' = streams \ S
    /\ FinishAll(S \cap streams, how)

IsRunning == bg_loop \in {"idle", "wait"}

(* generate and encode, up to add_request's return.  A loop that is not    *)
(* running is started, with a new tracker, unless the engine has died.     *)
AddRequest(r) ==
    /\ call[r] = "new"
    /\ IF IsRunning
       THEN /\ call' = [call EXCEPT ![r] = "open"]
            /\ new_requests' = Append(new_requests, r) /\ event' = TRUE
            /\ UNCHANGED <<streams, aborted, strays, bg_loop>>
       ELSE IF died
       THEN call' = [call EXCEPT ![r] = "failed"] /\ UNCHANGED <<trackerVars, bg_loop>>
       ELSE /\ call' = [call EXCEPT ![r] = "open"]
            /\ new_requests' = <<r>> /\ event' = TRUE
            /\ streams' = {} /\ aborted' = {}
            /\ strays' = strays \cup streams \cup ToSet(new_requests)
            /\ bg_loop' = "idle"
    /\ UNCHANGED <<queue, received, stepVars, callbacks, died, troubles>>

(* The caller's generator goes on. *)
NextItem(r) ==
    /\ call[r] = "open" /\ queue[r] # <<>>
    /\ queue' = [queue EXCEPT ![r] = Tail(@)]
    /\ IF Head(queue[r]) \in Ends
       THEN /\ call' = [call EXCEPT ![r] = IF Head(queue[r]) = STOP_ITERATION THEN "done" ELSE "failed"]
            /\ UNCHANGED received
       ELSE received' = [received EXCEPT ![r] = Head(queue[r])] /\ UNCHANGED call
    /\ UNCHANGED <<trackerVars, stepVars, loopVars>>

(* The generator is closed at its yield: GeneratorExit aborts the request, *)
(* with the tracker that it was added to.                                  *)
CloseStream(r) ==
    /\ call[r] = "open" /\ received[r] > 0
    /\ call' = [call EXCEPT ![r] = "left"]
    /\ IF r \in strays
       THEN strays' = strays \ {r} /\ UNCHANGED <<aborted, streams, queue>>
       ELSE AbortRequests({r}, STOP_ITERATION) /\ UNCHANGED strays
    /\ UNCHANGED <<received, new_requests, event, stepVars, loopVars>>

(* The caller is cancelled while he waits in queue.get: that is no         *)
(* GeneratorExit, and nobody aborts his request.                           *)
CancelGet(r) ==
    /\ call[r] = "open" /\ queue[r] = <<>>
    /\ call' = [call EXCEPT ![r] = "left"]
    /\ UNCHANGED <<queue, received, trackerVars, stepVars, loopVars>>

(* AsyncLLMEngine.abort. *)
Abort(r) ==
    /\ call[r] = "open"
    /\ IsRunning
    /\ AbortRequests({r}, CancelledError)
    /\ UNCHANGED <<call, received, new_requests, event, strays, stepVars, loopVars>>

-----------------------------------------------------------------------------
(* run_engine_loop waits for requests, and begins a step. *)
WakeUp ==
    /\ bg_loop = "idle"
    /\ new_requests # <<>> \/ event
    /\ event' = FALSE
    /\ bg_loop' = "wait"
    /\ engine_step' = "begin"
    /\ UNCHANGED <<callerVars, streams, new_requests, aborted, strays,
                   to_add, to_abort, core, callbacks, died, troubles>>

MutantGetNewAndAborted ==
    /\ to_add' = ToSet(new_requests)
    /\ to_abort' = aborted
    /\ streams' = streams \cup ToSet(new_requests)
    /\ UNCHANGED queue

(* get_new_and_aborted_requests: a request that was aborted before the     *)
(* loop took it is told so, and never reaches the engine.                  *)
GetNewAndAborted ==
    /\ to_add' = ToSet(new_requests) \ aborted
    /\ to_abort' = aborted \ ToSet(new_requests)
    /\ streams' = streams \cup (ToSet(new_requests) \ aborted)
    /\ FinishAll(aborted \cap ToSet(new_requests), CancelledError)

BeginEngineStep ==
    /\ engine_step = "begin"
    /\ GetNewAndAborted
    /\ new_requests' = <<>> /\ aborted' = {}
    /\ engine_step' = "adding"
    /\ UNCHANGED <<call, received, event, strays, core, loopVars>>

(* add_request_async of one of them, which may refuse it. *)
AddToEngine(r) ==
    /\ engine_step = "adding" /\ r \in to_add
    /\ to_add' = to_add \ {r}
    /\ \/ /\ core' = [s \in DOMAIN core \cup {r} |-> IF s \in DOMAIN core THEN core[s] ELSE 0]
          /\ UNCHANGED <<queue, aborted, streams>>
       \/ AbortRequests({r}, Exception) /\ UNCHANGED core
    /\ UNCHANGED <<call, received, new_requests, event, strays, engine_step, to_abort, loopVars>>

(* The aborts, and the begin of step_async. *)
ExecuteStep ==
    /\ engine_step = "adding" /\ to_add = {}
    /\ core' = [r \in DOMAIN core \ to_abort |-> core[r]]
    /\ to_abort' = {}
    /\ engine_step' = "model"
    /\ UNCHANGED <<callerVars, trackerVars, to_add, loopVars>>

(* process_request_outputs: an output whose stream is gone is dropped, and *)
(* the last output ends its stream.                                        *)
LastOutput(r) == core[r] + 1 = NumItems

EndEngineStep ==
    /\ engine_step = "model"
    /\ LET over == {r \in DOMAIN core : LastOutput(r)}
       IN  /\ Put([r \in DOMAIN core \cap streams |->
                     IF r \in over THEN <<NumItems, STOP_ITERATION>> ELSE <<core[r] + 1>>])
           /\ streams' = streams \ over
           /\ core' = [r \in DOMAIN core \ over |-> core[r] + 1]
           /\ engine_step' = IF over = DOMAIN core THEN "finished" ELSE "unfinished"
    /\ UNCHANGED <<call, received, new_requests, aborted, event, strays, to_add, to_abort, loopVars>>

(* An exception of the executor, or of add_request, that is no ValueError. *)
StepRaises ==
    /\ engine_step \in {"adding", "model"}
    /\ troubles < MaxTroubles
    /\ troubles' = troubles + 1
    /\ engine_step' = "raised"
    /\ UNCHANGED <<callerVars, trackerVars, to_add, to_abort, core, bg_loop, callbacks, died>>

(* The loop after a step: another one while a request is in progress. *)
NextIteration ==
    /\ bg_loop = "wait"
    /\ engine_step \in {"finished", "unfinished"}
    /\ IF engine_step = "unfinished" \/ core # <<>>
       THEN engine_step' = "begin" /\ UNCHANGED bg_loop
       ELSE engine_step' = "none" /\ bg_loop' = "idle"
    /\ UNCHANGED <<callerVars, trackerVars, to_add, to_abort, core, callbacks, died, troubles>>

(* The step's exception ends the loop; who is told, is left to the task's  *)
(* callback, which the event loop runs later.                              *)
LoopRaises ==
    /\ bg_loop = "wait" /\ engine_step = "raised"
    /\ bg_loop' = "dead"
    /\ callbacks' = callbacks + 1
    /\ engine_step' = "none" /\ to_add' = {} /\ to_abort' = {}
    /\ UNCHANGED <<callerVars, trackerVars, core, died, troubles>>

(* ENGINE_ITERATION_TIMEOUT_S: the step goes on without its loop. *)
LoopTimesOut ==
    /\ bg_loop = "wait" /\ engine_step \in {"adding", "model"}
    /\ troubles < MaxTroubles
    /\ troubles' = troubles + 1
    /\ bg_loop' = "dead"
    /\ died' = TRUE
    /\ callbacks' = callbacks + 1
    /\ UNCHANGED <<callerVars, trackerVars, stepVars>>

MutantErrorCallback ==
    /\ callbacks > 0
    /\ callbacks' = callbacks - 1
    /\ died' = TRUE
    /\ UNCHANGED <<callerVars, trackerVars, stepVars, bg_loop, troubles>>

(* _log_task_completion and _error_callback: everyone in _request_streams  *)
(* of the tracker of the day gets the exception.                           *)
ErrorCallback ==
    /\ callbacks > 0
    /\ callbacks' = callbacks - 1
    /\ died' = TRUE
    /\ AbortRequests(streams, Exception)
    /\ UNCHANGED <<call, received, new_requests, event, strays, stepVars, bg_loop, troubles>>

-----------------------------------------------------------------------------
AsyncTasks ==
    \/ WakeUp \/ BeginEngineStep \/ (\E r \in to_add : AddToEngine(r))
    \/ ExecuteStep \/ EndEngineStep \/ NextIteration \/ LoopRaises \/ ErrorCallback

AsyncNext ==
    \/ \E r \in Calls : AddRequest(r) \/ NextItem(r) \/ CloseStream(r)
                          \/ CancelGet(r) \/ Abort(r)
    \/ AsyncTasks \/ StepRaises \/ LoopTimesOut

AsyncSpec == AsyncInit /\ [][AsyncNext]_asyncVars

(* asyncio runs what is ready, and a caller goes on reading; nobody need   *)
(* call, close or abort.                                                   *)
AsyncFairness ==
    /\ WF_asyncVars(AsyncTasks)
    /\ \A r \in Calls : WF_asyncVars(NextItem(r))

-----------------------------------------------------------------------------
(* Streams are whole: what the caller was given and what waits in his      *)
(* queue are the outputs from the first on, nothing follows the end of a   *)
(* stream, and a stream that stops by itself has had all of them.          *)
StreamsAreWhole ==
    \A r \in Calls :
        LET q == queue[r]
        IN  /\ \A i \in DOMAIN q : IF q[i] \in Ends THEN i = Len(q)
                                                   ELSE q[i] = received[r] + i
            /\ call[r] = "open" /\ q # <<>> /\ q[Len(q)] = STOP_ITERATION =>
                  received[r] + Len(q) - 1 = NumItems
            /\ call[r] = "done" => received[r] = NumItems

(* While a loop runs, a caller who waits has something that will answer:   *)
(* his request is yet to be taken, about to be added, in the engine, or    *)
(* the end of his stream is in his queue.  No order of aborts, refusals    *)
(* and outputs makes it fall between these; only a tracker that was        *)
(* replaced does.                                                          *)
InEngine(r) == r \in to_add \cup DOMAIN core

SomebodyAnswers ==
    IsRunning =>
        \A r \in Calls \ strays : call[r] = "open" =>
            \/ IsFinished(r)
            \/ r \in ToSet(new_requests)
            \/ r \in streams /\ InEngine(r)
            \/ engine_step = "raised"

(* The engine works for somebody: what it holds has a stream, which may be *)
(* that of a caller who was cancelled, or is on the way to be aborted,     *)
(* unless its loop has died before.                                        *)
SomebodyListens ==
    callbacks = 0 /\ ~died /\ strays = {} =>
        \A r \in Calls : InEngine(r) => r \in streams \cup aborted \cup to_abort

\* The tracker's queues, the streams and the engine agree on every request, in
\* whatever order it is added, aborted, refused, answered and given up.
AsyncIsTracked ==
    /\ AsyncTypeOK
    /\ StreamsAreWhole
    /\ SomebodyAnswers
    /\ SomebodyListens

\* Every caller's stream ends, also when a step raises or takes too long:
\* except for those whose requests the dead loop had not taken yet, and those of
\* a tracker that a new loop replaced before the old one's callback ran.
EveryStreamEnds ==
    \A r \in Calls :
        call[r] = "open" ~> \/ call[r] # "open"
                            \/ r \in strays
                            \/ ~IsRunning /\ r \in ToSet(new_requests)
=============================================================================
