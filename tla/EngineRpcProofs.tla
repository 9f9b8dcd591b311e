-------------------------- MODULE EngineRpcProofs --------------------------
(***************************************************************************)
(* Proofs about EngineRpc, for any requests, any number of outputs and     *)
(* heartbeats and every set of faults: client and engine agree on who      *)
(* waits for what, whatever dies, is refused, given up or late.            *)
(***************************************************************************)
EXTENDS EngineRpc, SequenceTheorems, TLAPS

USE ConstantsOK

-----------------------------------------------------------------------------
(* The inductive invariant *)

Messages ==
    [toks : UNION {[S -> 0 .. NumOutputs] : S \in SUBSET Requests},
     to : SUBSET Requests, fatal : BOOLEAN]

(* A message of the engine either numbers outputs or tells of an error,    *)
(* which is the engine's or that of a request it has refused.  Every       *)
(* heartbeat but the last one of a loop that has raised is within bounds.  *)
ChannelInv ==
    /\ output \in Seq(Messages)
    /\ \A i \in DOMAIN output :
          output[i].to # {} =>
              /\ DOMAIN output[i].toks = {}
              /\ \A r \in output[i].to : output[i].fatal \/ r \in rejected
    /\ loop \in {"poll", "input", "step", "hung"} => Len(heartbeat) <= MaxBeats

(* Nothing is known of a request that has not been sent. *)
FreshInv ==
    \A r \in Requests : req[r] \in {"new", "guided"} =>
        /\ req[r] = "guided" => r \in Guided
        /\ output_queues[r] = <<>> /\ got[r] = 0
        /\ Sent(r) = {}
        /\ r \notin DOMAIN running
        /\ \A i \in DOMAIN input : input[i].id # r

Begin(r) == [kind |-> "process", id |-> r]
Abort(r) == [kind |-> "abort", id |-> r]

(* Message i sends r: it is the only one, r has no output before it        *)
(* arrives, and is aborted behind it when its caller leaves.               *)
SendsOnce(i, r) ==
    /\ r \notin DOMAIN running
    /\ \A j \in DOMAIN input : input[j] = Begin(r) => j = i
    /\ req[r] = "waiting" => got[r] = 0 /\ Unread(r) = {}
    /\ ~errored => \/ req[r] = "waiting"
                   \/ \E j \in DOMAIN input : i < j /\ input[j] = Abort(r)

ProcessInv ==
    \A r \in Requests : \A i \in DOMAIN input : input[i] = Begin(r) => SendsOnce(i, r)

(* What the engine has made of a request is what its caller has been given *)
(* and what is on the way, and a dead engine makes nothing.                *)
RunInv ==
    /\ loop = "dead" => DOMAIN running = {}
    /\ \A r \in DOMAIN running : req[r] = "waiting" =>
          /\ \A n \in Unread(r) : n <= running[r]
          /\ running[r] = got[r] \/ running[r] \in Unread(r)

(* An error in a queue, and the end of the output loop, have a reason.     *)
ErrorInv ==
    /\ ~output_loop => errored
    /\ \A r \in Requests : \A i \in DOMAIN output_queues[r] :
          output_queues[r][i].error => errored \/ r \in rejected

RpcInv ==
    /\ TypeOK /\ ChannelInv
    /\ FreshInv /\ ProcessInv /\ RunInv /\ StreamIsWhole /\ NoWorkForNobody
    /\ ErrorInv /\ FailuresAreOwn /\ NobodyIsLeftBehind

-----------------------------------------------------------------------------
(* Channels *)

(* A queue that has lost its first element.                                *)
LEMMA Shifted ==
    ASSUME NEW S, NEW s \in Seq(S), s # <<>>
    PROVE  /\ Tail(s) \in Seq(S) /\ Len(s) \in Nat \ {0} /\ DOMAIN s = 1 .. Len(s)
           /\ Len(Tail(s)) = Len(s) - 1 /\ DOMAIN Tail(s) = 1 .. Len(s) - 1
           /\ \A i \in 1 .. Len(s) - 1 : Tail(s)[i] = s[i + 1]
           /\ Head(s) = s[1] /\ s[1] \in S
  OBVIOUS

(* A queue that has got another one.                                       *)
LEMMA Extended ==
    ASSUME NEW S, NEW s \in Seq(S), NEW x \in S
    PROVE  /\ Append(s, x) \in Seq(S) /\ Len(s) \in Nat /\ DOMAIN s = 1 .. Len(s)
           /\ Len(Append(s, x)) = Len(s) + 1
           /\ DOMAIN Append(s, x) = 1 .. Len(s) + 1
           /\ \A i \in 1 .. Len(s) : Append(s, x)[i] = s[i]
           /\ Append(s, x)[Len(s) + 1] = x
  OBVIOUS

(* What is left of a channel whose end has died.                           *)
LEMMA Flushed ==
    ASSUME NEW S, NEW s \in Seq(S), NEW k \in 0 .. Len(s)
    PROVE  /\ SubSeq(s, 1, k) \in Seq(S) /\ Len(s) \in Nat /\ DOMAIN s = 1 .. Len(s)
           /\ Len(SubSeq(s, 1, k)) = k /\ DOMAIN SubSeq(s, 1, k) = 1 .. k
           /\ \A i \in 1 .. k : SubSeq(s, 1, k)[i] = s[i]
  OBVIOUS

(* The messages of the engine.                                             *)
LEMMA ErrorMessage ==
    ASSUME NEW S \in SUBSET Requests, NEW fat \in BOOLEAN
    PROVE  /\ RPCError(S, fat) \in Messages
           /\ RPCError(S, fat).to = S /\ RPCError(S, fat).fatal = fat
           /\ DOMAIN RPCError(S, fat).toks = {}
<1>1. <<>> \in [{} -> 0 .. NumOutputs] /\ DOMAIN <<>> = {}
  OBVIOUS
<1>2. <<>> \in UNION {[T -> 0 .. NumOutputs] : T \in SUBSET Requests}
  <2>1. {} \in SUBSET Requests
    OBVIOUS
  <2> QED
    BY <1>1, <2>1, Zenon
<1> QED
  BY <1>1, <1>2 DEF RPCError, Messages

(* Its outputs, addressed by their numbers.                               *)
LEMMA OutputMessage ==
    ASSUME NEW S \in SUBSET Requests, NEW f \in [S -> 0 .. NumOutputs]
    PROVE  /\ Outputs(f) \in Messages
           /\ Outputs(f).to = {} /\ Outputs(f).toks = f
<1>1. f \in UNION {[T -> 0 .. NumOutputs] : T \in SUBSET Requests}
  BY Zenon
<1> QED
  BY <1>1 DEF Outputs, Messages

(* A message numbers outputs of requests.                                  *)
LEMMA MessageOf ==
    ASSUME NEW m \in Messages
    PROVE  /\ m.to \in SUBSET Requests /\ m.fatal \in BOOLEAN
           /\ DOMAIN m.toks \subseteq Requests
           /\ \A r \in DOMAIN m.toks : m.toks[r] \in 0 .. NumOutputs
<1>1. PICK T \in SUBSET Requests : m.toks \in [T -> 0 .. NumOutputs]
  <2>1. m.toks \in UNION {[T -> 0 .. NumOutputs] : T \in SUBSET Requests}
    BY DEF Messages
  <2> QED
    BY <2>1, Zenon
<1> QED
  BY <1>1 DEF Messages

-----------------------------------------------------------------------------
(* Types and channels *)

ReqStates == {"new", "guided", "waiting", "done", "failed", "cancelled"}
Inputs == [kind : {"process", "abort"}, id : Requests]

(* The types, a variable at a time.                                        *)
LEMMA Types ==
    ASSUME TypeOK
    PROVE  /\ req \in [Requests -> ReqStates]
           /\ output_queues \in [Requests -> Seq(Items)]
           /\ got \in [Requests -> 0 .. NumOutputs]
           /\ errored \in BOOLEAN /\ output_loop \in BOOLEAN
           /\ health_loop \in BOOLEAN /\ engine_errored \in BOOLEAN
           /\ input \in Seq(Inputs)
           /\ heartbeat \in Seq(BOOLEAN) /\ Len(heartbeat) <= MaxBeats + 1
           /\ loop \in {"poll", "input", "step", "hung", "raised", "dead"}
           /\ DOMAIN running \subseteq Requests
           /\ \A r \in DOMAIN running : running[r] \in 0 .. (NumOutputs - 1)
           /\ rejected \subseteq Requests
  BY DEF TypeOK, ReqStates, Inputs

(* Messages that are typed make the rest of TypeOK.                        *)
LEMMA OutputTypes ==
    ASSUME output \in Seq(Messages)
    PROVE  \A i \in DOMAIN output :
              /\ DOMAIN output[i].toks \subseteq Requests
              /\ output[i].to \subseteq Requests
<1> SUFFICES ASSUME NEW i \in DOMAIN output
             PROVE  DOMAIN output[i].toks \subseteq Requests /\ output[i].to \subseteq Requests
  OBVIOUS
<1>1. output[i] \in Messages
  OBVIOUS
<1> QED
  BY <1>1, MessageOf

TypeInv == TypeOK /\ ChannelInv

(* Which messages ChannelInv lets pass. *)
Fits(m, refused) ==
    m.to # {} => /\ DOMAIN m.toks = {}
                 /\ \A r \in m.to : m.fatal \/ r \in refused

(* One message more.                                                       *)
LEMMA OneMessageMore ==
    ASSUME TypeInv, NEW m \in Messages, NEW refused, rejected \subseteq refused,
           Fits(m, refused)
    PROVE  /\ Append(output, m) \in Seq(Messages)
           /\ \A i \in DOMAIN Append(output, m) : Fits(Append(output, m)[i], refused)
<1>1. output \in Seq(Messages) /\ \A i \in DOMAIN output : Fits(output[i], refused)
  BY DEF TypeInv, ChannelInv, Fits
<1> HIDE DEF TypeInv
<1>2. /\ Append(output, m) \in Seq(Messages) /\ Len(output) \in Nat
      /\ DOMAIN output = 1 .. Len(output)
      /\ DOMAIN Append(output, m) = 1 .. Len(output) + 1
      /\ \A i \in 1 .. Len(output) : Append(output, m)[i] = output[i]
      /\ Append(output, m)[Len(output) + 1] = m
  BY <1>1, Extended
<1> DEFINE o == Append(output, m)
<1> HIDE DEF o
<1>3. ASSUME NEW i \in DOMAIN o PROVE Fits(o[i], refused)
  <2>1. CASE i \in 1 .. Len(output)
    BY <1>1, <1>2, <2>1 DEF o
  <2>2. CASE i = Len(output) + 1
    BY <1>2, <2>2 DEF o
  <2> QED
    BY <1>2, <1>3, <2>1, <2>2 DEF o
<1> QED
  BY <1>2, <1>3 DEF o

(* The client's calls keep the types. *)
LEMMA CallTypes ==
    ASSUME TypeInv, NEW r \in Requests, Generate(r) \/ GuideBuilt(r) \/ QueueGet(r) \/ Cancel(r)
    PROVE  TypeInv'
<1> USE DEF TypeInv
<1>t. /\ req \in [Requests -> ReqStates]
      /\ output_queues \in [Requests -> Seq(Items)]
      /\ got \in [Requests -> 0 .. NumOutputs]
      /\ input \in Seq(Inputs)
  BY Types
<1>1. UNCHANGED <<errored, output_loop, health_loop, engine, output, heartbeat>>
  BY DEF Generate, GuideBuilt, QueueGet, Cancel
<1>2. \A k \in {"process", "abort"} : Append(input, [kind |-> k, id |-> r]) \in Seq(Inputs)
  <2> SUFFICES ASSUME NEW k \in {"process", "abort"}
               PROVE  Append(input, [kind |-> k, id |-> r]) \in Seq(Inputs)
    OBVIOUS
  <2>1. [kind |-> k, id |-> r] \in Inputs
    BY DEF Inputs
  <2> QED
    BY <1>t, <2>1, Extended
<1>3. input' \in Seq(Inputs)
  BY <1>t, <1>2 DEF Generate, GuideBuilt, QueueGet, Cancel, Send, Leave
<1>4. req' \in [Requests -> ReqStates]
  BY <1>t DEF Generate, GuideBuilt, QueueGet, Cancel, Send, Leave, ReqStates
<1>5. output_queues' \in [Requests -> Seq(Items)]
  <2>1. <<>> \in Seq(Items)
    OBVIOUS
  <2>2. ASSUME output_queues[r] # <<>> PROVE Tail(output_queues[r]) \in Seq(Items)
    BY <1>t, <2>2, Shifted
  <2>3. \/ output_queues' = output_queues
        \/ output_queues' = [output_queues EXCEPT ![r] = <<>>]
        \/ /\ output_queues[r] # <<>>
           /\ output_queues' = [output_queues EXCEPT ![r] = Tail(@)]
    BY DEF Generate, GuideBuilt, QueueGet, Cancel, Send, Leave
  <2> QED
    BY <1>t, <2>1, <2>2, <2>3
<1>6. got' \in [Requests -> 0 .. NumOutputs]
  <2>1. ASSUME output_queues[r] # <<>> PROVE Head(output_queues[r]).n \in 0 .. NumOutputs
    <3>1. output_queues[r] \in Seq(Items)
      BY <1>t
    <3>2. Head(output_queues[r]) \in Items
      BY <2>1, <3>1, Shifted
    <3> QED
      BY <3>2 DEF Items
  <2>2. \/ got' = got
        \/ /\ output_queues[r] # <<>>
           /\ got' = [got EXCEPT ![r] = Head(output_queues[r]).n]
    BY DEF Generate, GuideBuilt, QueueGet, Cancel, Send, Leave
  <2> QED
    BY <1>t, <2>1, <2>2
<1>7. TypeOK'
  BY <1>1, <1>3, <1>4, <1>5, <1>6 DEF TypeOK, ReqStates, Inputs, engine
<1>8. ChannelInv'
  BY <1>1 DEF ChannelInv, engine
<1> QED
  BY <1>7, <1>8

(* So do its two loops.                                                    *)
LEMMA LoopTypes ==
    ASSUME TypeInv, OutputArrives \/ OutputTimeout \/ BeatArrives \/ BeatTimeout
    PROVE  TypeInv'
<1> USE DEF TypeInv
<1>t. /\ output_queues \in [Requests -> Seq(Items)]
      /\ errored \in BOOLEAN /\ output \in Seq(Messages)
      /\ heartbeat \in Seq(BOOLEAN) /\ Len(heartbeat) <= MaxBeats + 1
  BY Types DEF ChannelInv
<1>1. ASSUME NEW items, Deliver(items), \A r \in DOMAIN items : items[r] \in Items
      PROVE  output_queues' \in [Requests -> Seq(Items)]
  BY <1>t, <1>1, Extended DEF Deliver
<1>2. Error \in Items
  BY DEF Error, Items
<1>3. ASSUME OutputArrives PROVE TypeInv'
  <2>1. /\ output # <<>> /\ output' = Tail(output)
        /\ UNCHANGED <<req, got, output_loop, health_loop, engine, input, heartbeat>>
    BY <1>3 DEF OutputArrives
  <2>2. /\ output' \in Seq(Messages) /\ Head(output) \in Messages
        /\ \A i \in DOMAIN output' : i + 1 \in DOMAIN output /\ output'[i] = output[i + 1]
    <3> DEFINE T == Tail(output)
    <3>1. /\ T \in Seq(Messages) /\ Len(output) \in Nat \ {0}
          /\ DOMAIN output = 1 .. Len(output) /\ DOMAIN T = 1 .. Len(output) - 1
          /\ \A i \in 1 .. Len(output) - 1 : T[i] = output[i + 1]
          /\ Head(output) = output[1] /\ output[1] \in Messages
      BY <1>t, <2>1, Shifted
    <3> HIDE DEF T
    <3>2. output' = T
      BY <2>1 DEF T
    <3> QED
      BY <3>1, <3>2
  <2>3. errored' \in BOOLEAN
    BY <1>t, <1>3, <2>2, MessageOf DEF OutputArrives
  <2>4. output_queues' \in [Requests -> Seq(Items)]
    <3> DEFINE m == Head(output)
    <3>1. \/ Deliver([r \in m.to |-> Error])
          \/ Deliver([r \in DOMAIN m.toks |-> [n |-> m.toks[r], error |-> FALSE]])
      BY <1>3 DEF OutputArrives
    <3>2. \A r \in DOMAIN m.toks : [n |-> m.toks[r], error |-> FALSE] \in Items
      BY <2>2, MessageOf DEF Items
    <3> HIDE DEF m
    <3>3. CASE Deliver([r \in m.to |-> Error])
      BY <1>1, <1>2, <3>3
    <3>4. CASE Deliver([r \in DOMAIN m.toks |-> [n |-> m.toks[r], error |-> FALSE]])
      BY <1>1, <3>2, <3>4
    <3> QED
      BY <3>1, <3>3, <3>4
  <2>5. \A i \in DOMAIN output' :
           /\ DOMAIN output'[i].toks \subseteq Requests
           /\ output'[i].to \subseteq Requests
    BY <2>2, OutputTypes DEF ChannelInv
  <2>6. TypeOK'
    BY <2>1, <2>3, <2>4, <2>5 DEF TypeOK, engine
  <2>7. ChannelInv'
    BY <2>1, <2>2 DEF ChannelInv, engine
  <2> QED
    BY <2>6, <2>7
<1>4. ASSUME OutputTimeout PROVE TypeInv'
  <2>1. output_queues' \in [Requests -> Seq(Items)]
    BY <1>1, <1>2, <1>4 DEF OutputTimeout
  <2> QED
    BY <1>4, <2>1 DEF OutputTimeout, TypeOK, ChannelInv, engine
<1>5. ASSUME BeatArrives PROVE TypeInv'
  <2>1. /\ heartbeat # <<>> /\ heartbeat' = Tail(heartbeat)
        /\ errored' = (errored \/ ~Head(heartbeat)) /\ health_loop' = Head(heartbeat)
        /\ UNCHANGED <<req, output_queues, got, output_loop, engine, input, output>>
    BY <1>5 DEF BeatArrives
  <2>s. /\ Tail(heartbeat) \in Seq(BOOLEAN) /\ Len(heartbeat) \in Nat \ {0}
        /\ Len(Tail(heartbeat)) = Len(heartbeat) - 1
        /\ Head(heartbeat) = heartbeat[1] /\ heartbeat[1] \in BOOLEAN
    BY <1>t, <2>1, Shifted
  <2>2. /\ Tail(heartbeat) \in Seq(BOOLEAN) /\ Len(heartbeat) \in Nat \ {0}
        /\ Len(Tail(heartbeat)) = Len(heartbeat) - 1 /\ Head(heartbeat) \in BOOLEAN
    BY <2>s, Zenon
  <2> DEFINE T == Tail(heartbeat)
             h == Head(heartbeat)
  <2> HIDE DEF T, h
  <2>3. /\ heartbeat' \in Seq(BOOLEAN) /\ Len(heartbeat') = Len(heartbeat) - 1
        /\ health_loop' \in BOOLEAN /\ errored' = (errored \/ ~h)
    BY <2>1, <2>2 DEF T, h
  <2>4. errored' \in BOOLEAN
    BY <2>3
  <2>5. heartbeat' \in Seq(BOOLEAN) /\ Len(heartbeat') <= MaxBeats + 1
    BY <1>t, <2>2, <2>3
  <2>6. (loop \in {"poll", "input", "step", "hung"} => Len(heartbeat') <= MaxBeats)
    BY <2>2, <2>3 DEF ChannelInv
  <2> HIDE DEF T
  <2>7. TypeOK'
    BY <2>1, <2>3, <2>4, <2>5 DEF TypeOK, engine
  <2>8. ChannelInv'
    BY <2>1, <2>6 DEF ChannelInv, engine
  <2> QED
    BY <2>7, <2>8
<1>6. ASSUME BeatTimeout PROVE TypeInv'
  BY <1>6 DEF BeatTimeout, TypeOK, ChannelInv, engine
<1> QED
  BY <1>3, <1>4, <1>5, <1>6

(* A heartbeat more, or fewer. *)
LEMMA BeatTypes ==
    ASSUME heartbeat \in Seq(BOOLEAN), NEW b \in BOOLEAN
    PROVE  /\ Append(heartbeat, b) \in Seq(BOOLEAN)
           /\ Len(Append(heartbeat, b)) = Len(heartbeat) + 1 /\ Len(heartbeat) \in Nat
  BY Extended

(* What _handle_process_request answers and adds is typed.                 *)
LEMMA ProcessTypes ==
    ASSUME TypeInv, NEW r \in Requests, HandleProcess(r)
    PROVE  /\ output' \in Seq(Messages)
           /\ \A i \in DOMAIN output' : Fits(output'[i], rejected')
           /\ DOMAIN running' \subseteq Requests
           /\ \A x \in DOMAIN running' : running'[x] \in 0 .. (NumOutputs - 1)
           /\ rejected' \subseteq Requests /\ rejected \subseteq rejected'
<1> DEFINE dead == IF engine_errored THEN Append(output, RPCError({r}, TRUE)) ELSE output
<1>t. /\ output \in Seq(Messages) /\ engine_errored \in BOOLEAN
      /\ DOMAIN running \subseteq Requests /\ rejected \subseteq Requests
      /\ \A x \in DOMAIN running : running[x] \in 0 .. (NumOutputs - 1)
      /\ \A i \in DOMAIN output : Fits(output[i], rejected)
  BY Types DEF TypeInv, ChannelInv, Fits
<1>0. {r} \in SUBSET Requests
  OBVIOUS
<1>1. dead \in Seq(Messages) /\ \A i \in DOMAIN dead : Fits(dead[i], rejected)
  <2>1. RPCError({r}, TRUE) \in Messages /\ Fits(RPCError({r}, TRUE), rejected)
    BY <1>0, ErrorMessage DEF Fits
  <2>2. /\ Append(output, RPCError({r}, TRUE)) \in Seq(Messages)
        /\ \A i \in DOMAIN Append(output, RPCError({r}, TRUE)) :
              Fits(Append(output, RPCError({r}, TRUE))[i], rejected)
    BY <2>1, OneMessageMore
  <2> QED
    BY <1>t, <2>2
<1> HIDE DEF dead
<1>2. CASE /\ running' = [x \in DOMAIN running \cup {r} |->
                             IF x = r THEN 0 ELSE running[x]]
           /\ output' = dead
           /\ rejected' = rejected
  BY <1>t, <1>1, <1>2
<1>3. CASE /\ output' = Append(dead, RPCError({r}, engine_errored))
           /\ running' = Without(running, r)
           /\ rejected' = rejected \cup {r}
  <2> DEFINE m == RPCError({r}, engine_errored)
  <2>1. m \in Messages /\ Fits(m, rejected')
    <3>1. engine_errored \in BOOLEAN
      BY <1>t
    <3>2. m \in Messages /\ m.to = {r} /\ DOMAIN m.toks = {}
      BY <1>0, <3>1, ErrorMessage, Zenon
    <3>3. r \in rejected'
      BY <1>3
    <3> HIDE DEF m
    <3> QED
      BY <3>2, <3>3 DEF Fits
  <2>2. \A i \in DOMAIN dead : Fits(dead[i], rejected')
    BY <1>1, <1>3 DEF Fits
  <2> HIDE DEF m
  <2>3. /\ Append(dead, m) \in Seq(Messages) /\ Len(dead) \in Nat
        /\ DOMAIN dead = 1 .. Len(dead)
        /\ DOMAIN Append(dead, m) = 1 .. Len(dead) + 1
        /\ \A i \in 1 .. Len(dead) : Append(dead, m)[i] = dead[i]
        /\ Append(dead, m)[Len(dead) + 1] = m
    BY <1>1, <2>1, Extended
  <2>4. output' = Append(dead, m)
    BY <1>3 DEF m
  <2>5. \A i \in DOMAIN output' : i \in DOMAIN dead \/ i = Len(dead) + 1
    BY <2>3, <2>4
  <2>6. \A i \in DOMAIN output' : Fits(output'[i], rejected')
    BY <2>1, <2>2, <2>3, <2>4, <2>5
  <2>7. /\ DOMAIN running' \subseteq Requests
        /\ \A x \in DOMAIN running' : running'[x] \in 0 .. (NumOutputs - 1)
    BY <1>t, <1>3 DEF Without
  <2> QED
    BY <1>t, <1>3, <2>3, <2>4, <2>6, <2>7
<1> QED
  BY <1>2, <1>3 DEF HandleProcess, dead

(* The variables of the engine's side, primed, and those it leaves alone.  *)
LEMMA EngineTypeOK ==
    ASSUME TypeInv, UNCHANGED client,
           input' \in Seq(Inputs),
           output' \in Seq(Messages), \A i \in DOMAIN output' : Fits(output'[i], rejected'),
           heartbeat' \in Seq(BOOLEAN), Len(heartbeat') <= MaxBeats + 1,
           loop' \in {"poll", "input", "step", "hung", "raised", "dead"},
           loop' \in {"poll", "input", "step", "hung"} => Len(heartbeat') <= MaxBeats,
           engine_errored' \in BOOLEAN, DOMAIN running' \subseteq Requests,
           \A r \in DOMAIN running' : running'[r] \in 0 .. (NumOutputs - 1),
           rejected' \subseteq Requests
    PROVE  TypeInv'
<1>1. \A i \in DOMAIN output' :
         /\ DOMAIN output'[i].toks \subseteq Requests
         /\ output'[i].to \subseteq Requests
  <2> SUFFICES ASSUME NEW i \in DOMAIN output'
               PROVE  DOMAIN output'[i].toks \subseteq Requests /\ output'[i].to \subseteq Requests
    OBVIOUS
  <2>1. output'[i] \in Messages
    OBVIOUS
  <2> QED
    BY <2>1, MessageOf
<1>2. TypeOK'
  BY <1>1 DEF TypeInv, TypeOK, client, Inputs
<1>3. ChannelInv'
  BY DEF ChannelInv, Fits
<1> QED
  BY <1>2, <1>3 DEF TypeInv

(* The engine keeps the types. *)
LEMMA EngineTypes ==
    ASSUME TypeInv, EngineNext
    PROVE  TypeInv'
<1>t. /\ input \in Seq(Inputs) /\ output \in Seq(Messages)
      /\ heartbeat \in Seq(BOOLEAN) /\ Len(heartbeat) <= MaxBeats + 1
      /\ Len(heartbeat) \in Nat /\ MaxBeats \in Nat
      /\ loop \in {"poll", "input", "step", "hung", "raised", "dead"}
      /\ loop \in {"poll", "input", "step", "hung"} => Len(heartbeat) <= MaxBeats
      /\ engine_errored \in BOOLEAN
      /\ DOMAIN running \subseteq Requests /\ rejected \subseteq Requests
      /\ \A x \in DOMAIN running : running[x] \in 0 .. (NumOutputs - 1)
      /\ \A i \in DOMAIN output : Fits(output[i], rejected)
  BY Types, SMTT(30) DEF TypeInv, ChannelInv, Fits
<1>p. \A i \in DOMAIN output' : output' = output /\ rejected' = rejected => Fits(output'[i], rejected')
  BY <1>t
<1>1. CASE PollInput \/ InputDrained \/ EngineStepHangs
  <2>1. /\ UNCHANGED <<client, input, output, heartbeat, engine_errored, running, rejected>>
        /\ loop \in {"poll", "input", "step"} /\ loop' \in {"input", "step", "hung"}
    BY <1>1 DEF PollInput, InputDrained, EngineStepHangs
  <2> QED
    BY <1>t, <1>p, <2>1, EngineTypeOK
<1>2. CASE HandleInput
  <2>1. /\ loop = "input" /\ input # <<>> /\ input' = Tail(input)
        /\ UNCHANGED <<client, heartbeat, loop, engine_errored>>
    BY <1>2 DEF HandleInput
  <2>2. input' \in Seq(Inputs) /\ Head(input) \in Inputs
    BY <1>t, <2>1, Shifted
  <2>3. CASE HandleProcess(Head(input).id)
    <3>1. Head(input).id \in Requests
      BY <2>2 DEF Inputs
    <3> QED
      BY <1>t, <2>1, <2>2, <2>3, <3>1, ProcessTypes, EngineTypeOK
  <2>4. CASE running' = Without(running, Head(input).id) /\ UNCHANGED <<output, rejected>>
    <3>1. /\ DOMAIN running' \subseteq Requests
          /\ \A x \in DOMAIN running' : running'[x] \in 0 .. (NumOutputs - 1)
      BY <1>t, <2>4 DEF Without
    <3> QED
      BY <1>t, <1>p, <2>1, <2>2, <2>4, <3>1, EngineTypeOK
  <2> QED
    BY <1>2, <2>3, <2>4 DEF HandleInput
<1>3. CASE HandleInputRaises
  <2>1. /\ loop = "input" /\ input # <<>> /\ input' = Tail(input)
        /\ engine_errored' = TRUE /\ heartbeat' = Append(heartbeat, FALSE)
        /\ loop' = "raised"
        /\ UNCHANGED <<client, output, running, rejected>>
    BY <1>3 DEF HandleInputRaises
  <2>2. input' \in Seq(Inputs)
    BY <1>t, <2>1, Shifted
  <2>3. heartbeat' \in Seq(BOOLEAN) /\ Len(heartbeat') <= MaxBeats + 1
    BY <1>t, <2>1, BeatTypes
  <2> QED
    BY <1>t, <1>p, <2>1, <2>2, <2>3, EngineTypeOK
<1>4. CASE EngineStep
  <2> DEFINE made == [r \in DOMAIN running |-> running[r] + 1]
             left == {r \in DOMAIN running : made[r] < NumOutputs}
  <2>1. /\ loop = "step" /\ loop' = "poll"
        /\ running' = [r \in left |-> made[r]]
        /\ output' = IF running = <<>> THEN output ELSE Append(output, Outputs(made))
        /\ UNCHANGED <<client, input, heartbeat, engine_errored, rejected>>
    BY <1>4 DEF EngineStep
  <2>2. made \in [DOMAIN running -> 0 .. NumOutputs]
    BY <1>t
  <2>3. /\ DOMAIN running' \subseteq Requests
        /\ \A x \in DOMAIN running' : running'[x] \in 0 .. (NumOutputs - 1)
    BY <1>t, <2>1
  <2> HIDE DEF made, left
  <2>4. Outputs(made) \in Messages /\ Fits(Outputs(made), rejected)
    BY <1>t, <2>2, OutputMessage DEF Fits
  <2>5. /\ Append(output, Outputs(made)) \in Seq(Messages)
        /\ \A i \in DOMAIN Append(output, Outputs(made)) :
              Fits(Append(output, Outputs(made))[i], rejected)
    BY <2>4, OneMessageMore
  <2>6. output' \in Seq(Messages) /\ \A i \in DOMAIN output' : Fits(output'[i], rejected')
    BY <1>t, <2>1, <2>5
  <2> QED
    BY <1>t, <2>1, <2>3, <2>6, EngineTypeOK
<1>5. CASE EngineStepRaises
  <2> DEFINE m == RPCError(Requests, TRUE)
  <2>1. m \in Messages /\ Fits(m, rejected)
    BY ErrorMessage DEF Fits
  <2>2. /\ loop = "step" /\ loop' = "raised" /\ engine_errored' = TRUE
        /\ output' = Append(output, m)
        /\ UNCHANGED <<client, input, heartbeat, running, rejected>>
    BY <1>5 DEF EngineStepRaises
  <2> HIDE DEF m
  <2>3. /\ Append(output, m) \in Seq(Messages)
        /\ \A i \in DOMAIN Append(output, m) : Fits(Append(output, m)[i], rejected)
    BY <2>1, OneMessageMore
  <2> QED
    BY <1>t, <2>2, <2>3, EngineTypeOK
<1>6. CASE Cleanup \/ Killed
  <2>1. /\ loop' = "dead" /\ running' = <<>>
        /\ \E k \in 0..Len(output) : output' = SubSeq(output, 1, k)
        /\ \E k \in 0..Len(heartbeat) : heartbeat' = SubSeq(heartbeat, 1, k)
        /\ UNCHANGED <<client, input, engine_errored, rejected>>
    BY <1>6 DEF Cleanup, Killed, Vanish
  <2>2. output' \in Seq(Messages) /\ \A i \in DOMAIN output' : Fits(output'[i], rejected')
    <3>1. PICK k \in 0 .. Len(output) : output' = SubSeq(output, 1, k)
      BY <2>1
    <3>2. /\ SubSeq(output, 1, k) \in Seq(Messages) /\ DOMAIN output = 1 .. Len(output)
          /\ DOMAIN SubSeq(output, 1, k) = 1 .. k /\ Len(output) \in Nat
          /\ \A i \in 1 .. k : SubSeq(output, 1, k)[i] = output[i]
      BY <1>t, Flushed
    <3> QED
      BY <1>t, <2>1, <3>1, <3>2
  <2>3. heartbeat' \in Seq(BOOLEAN) /\ Len(heartbeat') <= MaxBeats + 1
    <3>1. PICK k \in 0 .. Len(heartbeat) : heartbeat' = SubSeq(heartbeat, 1, k)
      BY <2>1
    <3>2. SubSeq(heartbeat, 1, k) \in Seq(BOOLEAN) /\ Len(SubSeq(heartbeat, 1, k)) = k
      BY <1>t, Flushed
    <3> QED
      BY <1>t, <3>1, <3>2
  <2>4. DOMAIN running' = {}
    BY <2>1
  <2> QED
    BY <1>t, <2>1, <2>2, <2>3, <2>4, EngineTypeOK
<1>7. CASE Heartbeat
  <2>1. /\ Len(heartbeat) < MaxBeats
        /\ \E b \in BOOLEAN : heartbeat' = Append(heartbeat, b)
        /\ engine_errored' \in BOOLEAN
        /\ UNCHANGED <<client, input, output, loop, running, rejected>>
    BY <1>t, <1>7 DEF Heartbeat
  <2>2. PICK b \in BOOLEAN : heartbeat' = Append(heartbeat, b)
    BY <2>1, Zenon
  <2>3. /\ Append(heartbeat, b) \in Seq(BOOLEAN)
        /\ Len(Append(heartbeat, b)) = Len(heartbeat) + 1
    BY <1>t, BeatTypes
  <2>4. /\ heartbeat' \in Seq(BOOLEAN) /\ Len(heartbeat') <= MaxBeats
        /\ Len(heartbeat') <= MaxBeats + 1
    BY <1>t, <2>1, <2>2, <2>3
  <2> QED
    BY <1>t, <1>p, <2>1, <2>4, EngineTypeOK
<1> QED
  BY <1>1, <1>2, <1>3, <1>4, <1>5, <1>6, <1>7 DEF EngineNext, MainLoop

(* Every step keeps the types. *)
LEMMA TypeStep ==
    ASSUME TypeInv, [Next]_vars
    PROVE  TypeInv'
<1>1. CASE UNCHANGED vars
  BY <1>1 DEF TypeInv, TypeOK, ChannelInv, vars, client, engine
<1>2. CASE ClientNext
  BY <1>2, CallTypes, LoopTypes DEF ClientNext
<1> QED
  BY <1>1, <1>2, EngineTypes DEF Next

-----------------------------------------------------------------------------
(* Errors have a reason *)

FaultInv == ErrorInv /\ FailuresAreOwn /\ NobodyIsLeftBehind

(* Where neither a request nor its queue changes, an error may only get    *)
(* another reason.                                                         *)
LEMMA FaultStutter ==
    ASSUME FaultInv, UNCHANGED <<req, output_queues, output_loop>>,
           errored => errored', rejected \subseteq rejected'
    PROVE  FaultInv'
<1>1. ErrorInv'
  BY DEF FaultInv, ErrorInv
<1>2. FailuresAreOwn'
  BY DEF FaultInv, FailuresAreOwn
<1>3. NobodyIsLeftBehind'
  BY DEF FaultInv, NobodyIsLeftBehind, Registered
<1> QED
  BY <1>1, <1>2, <1>3 DEF FaultInv

(* A call that begins or leaves.                                           *)
LEMMA FaultCalls ==
    ASSUME TypeInv, FaultInv, FreshInv, NEW r \in Requests,
           Generate(r) \/ GuideBuilt(r) \/ Cancel(r)
    PROVE  FaultInv'
<1>t. /\ req \in [Requests -> ReqStates]
      /\ output_queues \in [Requests -> Seq(Items)]
  BY Types DEF TypeInv
<1>1. UNCHANGED <<errored, output_loop, rejected>>
  BY DEF Generate, GuideBuilt, Cancel, engine
<1>2. /\ \A x \in Requests : x # r => req'[x] = req[x] /\ output_queues'[x] = output_queues[x]
      /\ output_queues'[r] = output_queues[r] \/ output_queues'[r] = <<>>
      /\ req'[r] = "failed" => errored
      /\ req'[r] = "waiting" => r \in Guided \/ ~errored
  BY <1>t DEF Generate, GuideBuilt, Cancel, Send, Leave, FreshInv, ReqStates
<1>3. \A x \in Requests : \A i \in DOMAIN output_queues'[x] :
         i \in DOMAIN output_queues[x] /\ output_queues'[x][i] = output_queues[x][i]
  <2>1. DOMAIN <<>> = {}
    OBVIOUS
  <2> QED
    BY <1>2, <2>1
<1>4. ErrorInv'
  BY <1>1, <1>3 DEF FaultInv, ErrorInv
<1>5. FailuresAreOwn'
  BY <1>1, <1>2 DEF FaultInv, FailuresAreOwn
<1>6. NobodyIsLeftBehind'
  BY <1>1, <1>2 DEF FaultInv, ErrorInv, NobodyIsLeftBehind, Registered
<1> QED
  BY <1>4, <1>5, <1>6 DEF FaultInv

(* A caller is given what is first in its queue.                           *)
LEMMA FaultGet ==
    ASSUME TypeInv, FaultInv, NEW r \in Requests, QueueGet(r)
    PROVE  FaultInv'
<1>t. /\ req \in [Requests -> ReqStates]
      /\ output_queues \in [Requests -> Seq(Items)]
  BY Types DEF TypeInv
<1>1. UNCHANGED <<errored, output_loop, rejected>> /\ output_queues[r] # <<>>
      /\ req[r] = "waiting"
  BY DEF QueueGet, engine
<1>2. /\ Len(output_queues[r]) \in Nat \ {0}
      /\ DOMAIN output_queues[r] = 1 .. Len(output_queues[r])
      /\ Head(output_queues[r]) = output_queues[r][1]
      /\ DOMAIN Tail(output_queues[r]) = 1 .. Len(output_queues[r]) - 1
      /\ \A i \in 1 .. Len(output_queues[r]) - 1 :
            Tail(output_queues[r])[i] = output_queues[r][i + 1]
  BY <1>t, <1>1, Shifted
<1>3. \/ /\ output_queues[r][1].error
         /\ req' = [req EXCEPT ![r] = "failed"]
         /\ output_queues' = [output_queues EXCEPT ![r] = <<>>]
      \/ /\ req' = [req EXCEPT ![r] = "done"]
         /\ output_queues' = [output_queues EXCEPT ![r] = <<>>]
      \/ /\ ~output_queues[r][1].error
         /\ req' = req
         /\ output_queues' = [output_queues EXCEPT ![r] = Tail(output_queues[r])]
  BY <1>2 DEF QueueGet, Leave
<1>4. CASE /\ output_queues' = [output_queues EXCEPT ![r] = <<>>]
           /\ \/ req' = [req EXCEPT ![r] = "failed"] /\ output_queues[r][1].error
              \/ req' = [req EXCEPT ![r] = "done"]
  <2>1. /\ \A x \in Requests : x # r => req'[x] = req[x] /\ output_queues'[x] = output_queues[x]
        /\ DOMAIN output_queues'[r] = {} /\ req'[r] # "waiting"
        /\ req'[r] = "failed" => output_queues[r][1].error
    BY <1>t, <1>4
  <2>2. ErrorInv'
    BY <1>1, <2>1 DEF FaultInv, ErrorInv
  <2>3. req'[r] = "failed" => errored \/ r \in rejected
    BY <1>2, <2>1 DEF FaultInv, ErrorInv
  <2>4. FailuresAreOwn'
    BY <1>1, <2>1, <2>3 DEF FaultInv, FailuresAreOwn
  <2>5. NobodyIsLeftBehind'
    BY <1>1, <2>1 DEF FaultInv, NobodyIsLeftBehind, Registered
  <2> QED
    BY <2>2, <2>4, <2>5 DEF FaultInv
<1>5. CASE /\ ~output_queues[r][1].error
           /\ req' = req
           /\ output_queues' = [output_queues EXCEPT ![r] = Tail(output_queues[r])]
  <2> DEFINE q == output_queues[r]
             u == output_queues'[r]
  <2>1. /\ \A x \in Requests : x # r => output_queues'[x] = output_queues[x]
        /\ u = Tail(q)
    BY <1>t, <1>5
  <2>2. \A i \in DOMAIN u : i + 1 \in DOMAIN q /\ u[i] = q[i + 1]
    BY <1>2, <2>1
  <2>3. \A i \in DOMAIN q : i # 1 => i - 1 \in DOMAIN u /\ u[i - 1] = q[i]
    BY <1>2, <2>1
  <2> HIDE DEF q, u
  <2>4. ErrorInv'
    <3>1. \A i \in DOMAIN u : u[i].error => errored \/ r \in rejected
      <4>1. \A i \in DOMAIN q : q[i].error => errored \/ r \in rejected
        BY DEF FaultInv, ErrorInv, q
      <4> QED
        BY <2>2, <4>1
    <3>2. \A x \in Requests : x # r => \A i \in DOMAIN output_queues'[x] :
             output_queues'[x][i].error => errored \/ x \in rejected
      BY <2>1 DEF FaultInv, ErrorInv
    <3>3. \A x \in Requests : \A i \in DOMAIN output_queues'[x] :
             output_queues'[x][i].error => errored \/ x \in rejected
      BY <3>1, <3>2 DEF u
    <3> QED
      BY <1>1, <3>3 DEF FaultInv, ErrorInv
  <2>5. FailuresAreOwn'
    BY <1>1, <1>5 DEF FaultInv, FailuresAreOwn
  <2>6. ASSUME \E i \in DOMAIN q : q[i].error PROVE \E i \in DOMAIN u : u[i].error
    BY <1>5, <2>3, <2>6 DEF q
  <2>7. NobodyIsLeftBehind'
    BY <1>1, <1>5, <2>1, <2>6 DEF FaultInv, NobodyIsLeftBehind, Registered, q, u
  <2> QED
    BY <2>4, <2>5, <2>7 DEF FaultInv
<1> QED
  BY <1>3, <1>4, <1>5

(* What Deliver leaves in a queue: what was there, and perhaps one item.   *)
LEMMA Delivered ==
    ASSUME TypeInv, NEW items, Deliver(items), \A r \in DOMAIN items : items[r] \in Items,
           NEW r \in Requests
    PROVE  LET n == Len(output_queues[r]) IN
           /\ n \in Nat /\ DOMAIN output_queues[r] = 1 .. n
           /\ \A i \in 1 .. n : i \in DOMAIN output_queues'[r]
                                /\ output_queues'[r][i] = output_queues[r][i]
           /\ IF req[r] = "waiting" /\ r \in DOMAIN items
              THEN /\ DOMAIN output_queues'[r] = 1 .. n + 1
                   /\ output_queues'[r][n + 1] = items[r]
              ELSE output_queues'[r] = output_queues[r]
<1>1. output_queues[r] \in Seq(Items)
  BY Types DEF TypeInv
<1>2. CASE req[r] = "waiting" /\ r \in DOMAIN items
  <2>1. output_queues'[r] = Append(output_queues[r], items[r]) /\ items[r] \in Items
    BY <1>2 DEF Deliver, Registered
  <2> QED
    BY <1>1, <1>2, <2>1, Extended
<1>3. CASE ~(req[r] = "waiting" /\ r \in DOMAIN items)
  <2>1. output_queues'[r] = output_queues[r]
    BY <1>3 DEF Deliver, Registered
  <2> QED
    BY <1>1, <1>3, <2>1
<1> QED
  BY <1>2, <1>3

(* A message of the engine arrives.                                        *)
LEMMA FaultArrives ==
    ASSUME TypeInv, FaultInv, OutputArrives
    PROVE  FaultInv'
<1> DEFINE m == Head(output)
<1>1. output \in Seq(Messages) /\ output # <<>>
  BY DEF TypeInv, ChannelInv, OutputArrives
<1>2. m \in Messages /\ m = output[1] /\ 1 \in DOMAIN output
  BY <1>1, Shifted
<1>3. /\ UNCHANGED <<req, output_loop, rejected>> /\ output_loop
      /\ errored => errored'
  <2>1. UNCHANGED <<req, output_loop, rejected>> /\ output_loop
    BY DEF OutputArrives, engine
  <2>2. errored' = errored \/ errored' = (errored \/ m.fatal)
    BY DEF OutputArrives
  <2> HIDE DEF m
  <2>3. errored => errored'
    BY <2>2, Zenon
  <2> QED
    BY <2>1, <2>3
<1>4. CASE m.to = {} /\ Deliver([r \in DOMAIN m.toks |-> [n |-> m.toks[r], error |-> FALSE]])
  <2> DEFINE items == [r \in DOMAIN m.toks |-> [n |-> m.toks[r], error |-> FALSE]]
  <2>1. \A r \in DOMAIN items : items[r] \in Items /\ ~items[r].error
    BY <1>2, MessageOf DEF Items
  <2>i. Deliver(items)
    BY <1>4
  <2> HIDE DEF items, m
  <2>2. \A r \in Requests : \A i \in DOMAIN output_queues'[r] :
           output_queues'[r][i].error =>
              i \in DOMAIN output_queues[r] /\ output_queues[r][i].error
    <3> SUFFICES ASSUME NEW r \in Requests, NEW i \in DOMAIN output_queues'[r],
                        output_queues'[r][i].error
                 PROVE  i \in DOMAIN output_queues[r] /\ output_queues[r][i].error
      OBVIOUS
    <3> DEFINE n == Len(output_queues[r])
    <3>1. /\ n \in Nat /\ DOMAIN output_queues[r] = 1 .. n
          /\ \A k \in 1 .. n : output_queues'[r][k] = output_queues[r][k]
          /\ IF req[r] = "waiting" /\ r \in DOMAIN items
             THEN /\ DOMAIN output_queues'[r] = 1 .. n + 1
                  /\ output_queues'[r][n + 1] = items[r]
             ELSE output_queues'[r] = output_queues[r]
      BY <2>i, <2>1, Delivered
    <3> HIDE DEF n
    <3> QED
      BY <2>1, <3>1
  <2>3. ErrorInv'
    BY <1>3, <2>2 DEF FaultInv, ErrorInv
  <2>4. FailuresAreOwn' /\ NobodyIsLeftBehind'
    BY <1>3 DEF FaultInv, FailuresAreOwn, NobodyIsLeftBehind
  <2> QED
    BY <2>3, <2>4 DEF FaultInv
<1>5. CASE m.to # {} /\ errored' = (errored \/ m.fatal) /\ Deliver([r \in m.to |-> Error])
  <2>1. \A r \in m.to : m.fatal \/ r \in rejected
    BY <1>2, <1>5 DEF TypeInv, ChannelInv
  <2>2. \A r \in m.to : [x \in m.to |-> Error][r] \in Items
    BY DEF Error, Items
  <2>3. \A r \in Requests : \A i \in DOMAIN output_queues'[r] :
           output_queues'[r][i].error =>
              \/ i \in DOMAIN output_queues[r] /\ output_queues[r][i].error
              \/ r \in m.to
    <3> SUFFICES ASSUME NEW r \in Requests, NEW i \in DOMAIN output_queues'[r],
                        output_queues'[r][i].error, r \notin m.to
                 PROVE  i \in DOMAIN output_queues[r] /\ output_queues[r][i].error
      OBVIOUS
    <3>1. output_queues'[r] = output_queues[r]
      BY <1>5 DEF Deliver
    <3> QED
      BY <3>1
  <2> HIDE DEF m
  <2>4. ErrorInv'
    BY <1>3, <1>5, <2>1, <2>3 DEF FaultInv, ErrorInv
  <2>5. FailuresAreOwn' /\ NobodyIsLeftBehind'
    BY <1>3 DEF FaultInv, FailuresAreOwn, NobodyIsLeftBehind
  <2> QED
    BY <2>4, <2>5 DEF FaultInv
<1> QED
  BY <1>4, <1>5 DEF OutputArrives

(* The output loop returns, and everybody is told.                         *)
LEMMA FaultTimeout ==
    ASSUME TypeInv, FaultInv, OutputTimeout
    PROVE  FaultInv'
<1> DEFINE items == [r \in Requests |-> Error]
<1>1. /\ errored /\ errored' = errored /\ Deliver(items)
      /\ UNCHANGED <<req, rejected>>
  BY DEF OutputTimeout, engine
<1>2. \A r \in DOMAIN items : items[r] \in Items /\ items[r].error
  BY DEF Error, Items
<1> HIDE DEF items
<1>3. ErrorInv'
  BY <1>1 DEF ErrorInv
<1>4. FailuresAreOwn'
  BY <1>1 DEF FailuresAreOwn
<1>5. NobodyIsLeftBehind'
  <2> SUFFICES ASSUME NEW r \in Requests, req[r] = "waiting"
               PROVE  \E i \in DOMAIN output_queues'[r] : output_queues'[r][i].error
    BY <1>1 DEF NobodyIsLeftBehind, Registered
  <2> DEFINE n == Len(output_queues[r])
  <2>0. r \in DOMAIN items
    BY DEF items
  <2>1. /\ n \in Nat
        /\ IF req[r] = "waiting" /\ r \in DOMAIN items
           THEN /\ DOMAIN output_queues'[r] = 1 .. n + 1
                /\ output_queues'[r][n + 1] = items[r]
           ELSE output_queues'[r] = output_queues[r]
    BY <1>1, <1>2, Delivered
  <2> HIDE DEF n
  <2> QED
    BY <1>2, <2>0, <2>1
<1> QED
  BY <1>3, <1>4, <1>5 DEF FaultInv

(* Every step keeps them. *)
LEMMA FaultStep ==
    ASSUME TypeInv, FaultInv, FreshInv, [Next]_vars
    PROVE  FaultInv'
<1>1. CASE UNCHANGED vars
  BY <1>1, FaultStutter DEF vars, client, engine
<1>2. CASE ClientNext
  <2>1. CASE BeatArrives \/ BeatTimeout
    BY <2>1, FaultStutter DEF BeatArrives, BeatTimeout, engine
  <2> QED
    BY <1>2, <2>1, FaultCalls, FaultGet, FaultArrives, FaultTimeout DEF ClientNext
<1>3. CASE EngineNext
  <2>1. UNCHANGED client
    BY <1>3 DEF EngineNext, MainLoop, PollInput, HandleInput, HandleInputRaises,
       InputDrained, EngineStep, EngineStepRaises, EngineStepHangs, Cleanup, Killed,
       Vanish, Heartbeat
  <2>2. rejected \subseteq rejected'
    BY <1>3 DEF EngineNext, MainLoop, PollInput, HandleInput, HandleProcess,
       HandleInputRaises, InputDrained, EngineStep, EngineStepRaises, EngineStepHangs,
       Cleanup, Killed, Vanish, Heartbeat
  <2> QED
    BY <2>1, <2>2, FaultStutter DEF client
<1> QED
  BY <1>1, <1>2, <1>3 DEF Next

-----------------------------------------------------------------------------
(* Streams are whole, and nobody works for nobody *)

TrackInv == FreshInv /\ ProcessInv /\ RunInv /\ StreamIsWhole /\ NoWorkForNobody

(* What StreamIsWhole says of one request. *)
Whole(r) ==
    /\ \A i, j \in Known(r) : i < j => output_queues[r][i].n < output_queues[r][j].n
    /\ \A i, j \in Sent(r) : i < j => output[i].toks[r] < output[j].toks[r]
    /\ \A i \in Known(r), j \in Sent(r) : output_queues[r][i].n < output[j].toks[r]
    /\ \A n \in Unread(r) : got[r] < n /\ (got[r] + 1) .. n \subseteq Unread(r)

(* The streams of those who wait.                                          *)
LEMMA WholeStreams == StreamIsWhole <=> \A r \in Registered : Whole(r)
  BY DEF StreamIsWhole, Whole

(* Numbers and positions are numbers. *)
LEMMA StreamTypes ==
    ASSUME TypeInv, NEW r \in Requests
    PROVE  /\ Known(r) \subseteq Nat /\ Sent(r) \subseteq Nat /\ got[r] \in Nat
           /\ \A i \in Known(r) : output_queues[r][i].n \in Nat
           /\ \A i \in Sent(r) : output[i].toks[r] \in Nat
           /\ Unread(r) \subseteq Nat
<1>1. /\ output_queues[r] \in Seq(Items) /\ got[r] \in 0 .. NumOutputs
      /\ output \in Seq(Messages)
  BY Types DEF TypeInv, ChannelInv
<1>2. got[r] \in Nat
  BY <1>1
<1>3. Known(r) \subseteq Nat /\ \A i \in Known(r) : output_queues[r][i].n \in Nat
  <2>1. \A i \in DOMAIN output_queues[r] : i \in Nat /\ output_queues[r][i] \in Items
    BY <1>1
  <2> QED
    BY <2>1 DEF Known, Items
<1>4. Sent(r) \subseteq Nat /\ \A i \in Sent(r) : output[i].toks[r] \in Nat
  <2>1. \A i \in DOMAIN output : i \in Nat /\ output[i] \in Messages
    BY <1>1
  <2>2. \A i \in Sent(r) : output[i].toks[r] \in 0 .. NumOutputs
    BY <2>1, MessageOf DEF Sent
  <2> QED
    BY <2>1, <2>2 DEF Sent
<1> QED
  BY <1>2, <1>3, <1>4 DEF Unread

(* The elements of Unread. *)
LEMMA UnreadIs ==
    ASSUME NEW r, NEW n
    PROVE  n \in Unread(r) <=> \/ \E i \in Known(r) : n = output_queues[r][i].n
                               \/ \E i \in Sent(r) : n = output[i].toks[r]
  BY DEF Unread

(* The same positions with the same numbers are the same stream. *)
LEMMA SameStream ==
    ASSUME NEW r, Known(r)' = Known(r), Sent(r)' = Sent(r),
           \A i \in Known(r) : output_queues'[r][i].n = output_queues[r][i].n,
           \A i \in Sent(r) : output'[i].toks[r] = output[i].toks[r]
    PROVE  /\ Unread(r)' = Unread(r)
           /\ got'[r] = got[r] /\ Whole(r) => Whole(r)'
<1>1. Unread(r)' = Unread(r)
  BY DEF Unread
<1> QED
  BY <1>1 DEF Whole

(* Where requests and inputs stay, and every stream that is waited for too. *)
LEMMA TrackKeeps ==
    ASSUME TrackInv, TypeOK, UNCHANGED <<req, got, input, running>>,
           \A r \in Requests : req[r] = "waiting" =>
              Unread(r)' = Unread(r) /\ (Whole(r) => Whole(r)'),
           \A r \in Requests : req[r] \in {"new", "guided"} =>
              output_queues'[r] = output_queues[r] /\ Sent(r)' = {},
           errored => errored', loop' = "dead" => loop = "dead",
           loop' # "raised" => loop # "raised"
    PROVE  TrackInv'
<1> USE DEF TrackInv
<1>t. /\ DOMAIN running \subseteq Requests
      /\ \A i \in DOMAIN input : input[i].id \in Requests
  <2>1. DOMAIN running \subseteq Requests /\ input \in Seq(Inputs)
    BY Types
  <2>2. \A i \in DOMAIN input : input[i] \in Inputs
    BY <2>1
  <2> QED
    BY <2>1, <2>2 DEF Inputs
<1>2. FreshInv'
  BY DEF FreshInv
<1>3. ProcessInv'
  <2> SUFFICES ASSUME NEW r \in Requests, NEW i \in DOMAIN input, input[i] = Begin(r)
               PROVE  SendsOnce(i, r)'
    BY DEF ProcessInv, Begin
  <2>1. SendsOnce(i, r)
    BY DEF ProcessInv
  <2> QED
    BY <2>1 DEF SendsOnce, Begin, Abort
<1>4. RunInv'
  BY <1>t DEF RunInv
<1>5. StreamIsWhole'
  BY WholeStreams DEF Registered, StreamIsWhole, Whole
<1>6. NoWorkForNobody'
  BY DEF NoWorkForNobody
<1> QED
  BY <1>2, <1>3, <1>4, <1>5, <1>6

(* The same with no number moved at all. *)
LEMMA TrackStutter ==
    ASSUME TrackInv, TypeOK, UNCHANGED <<req, got, input, running>>,
           \A r \in Requests : Known(r)' = Known(r) /\ Sent(r)' = Sent(r),
           \A r \in Requests : \A i \in Known(r) :
              output_queues'[r][i].n = output_queues[r][i].n,
           \A r \in Requests : \A i \in Sent(r) : output'[i].toks[r] = output[i].toks[r],
           \A r \in Requests : req[r] \in {"new", "guided"} =>
              output_queues'[r] = output_queues[r],
           errored => errored', loop' = "dead" => loop = "dead",
           loop' # "raised" => loop # "raised"
    PROVE  TrackInv'
<1>1. \A r \in Requests : Unread(r)' = Unread(r) /\ (Whole(r) => Whole(r)')
  BY SameStream
<1>2. \A r \in Requests : req[r] \in {"new", "guided"} => Sent(r)' = {}
  BY DEF TrackInv, FreshInv
<1> QED
  BY <1>1, <1>2, TrackKeeps

(* A message that numbers nothing leaves every stream as it is.            *)
LEMMA ErrorsNumberNothing ==
    ASSUME TypeInv, NEW m \in Messages, DOMAIN m.toks = {}, output' = Append(output, m),
           NEW r
    PROVE  Sent(r)' = Sent(r) /\ \A i \in Sent(r) : output'[i].toks[r] = output[i].toks[r]
<1>1. output \in Seq(Messages)
  BY DEF TypeInv, ChannelInv
<1>2. /\ DOMAIN output = 1 .. Len(output) /\ Len(output) \in Nat
      /\ DOMAIN output' = 1 .. Len(output) + 1
      /\ \A i \in 1 .. Len(output) : output'[i] = output[i]
      /\ output'[Len(output) + 1] = m
  BY <1>1, Extended
<1>3. Len(output) + 1 \notin Sent(r)'
  BY <1>2 DEF Sent
<1> QED
  BY <1>2, <1>3 DEF Sent

(* The steps that touch no request. *)
LEMMA TrackQuiet ==
    ASSUME TypeInv, TrackInv,
           \/ PollInput \/ InputDrained \/ EngineStepHangs \/ Heartbeat
           \/ BeatArrives \/ BeatTimeout \/ EngineStepRaises
    PROVE  TrackInv'
<1>1. UNCHANGED <<req, output_queues, got, input, running>>
  BY DEF PollInput, InputDrained, EngineStepHangs, Heartbeat, BeatArrives, BeatTimeout,
     EngineStepRaises, client, engine
<1>2. \A r \in Requests : Known(r)' = Known(r)
  BY <1>1 DEF Known
<1>3. \A r \in Requests :
         Sent(r)' = Sent(r) /\ \A i \in Sent(r) : output'[i].toks[r] = output[i].toks[r]
  <2>1. CASE output' = output
    BY <2>1 DEF Sent
  <2>2. CASE output' = Append(output, RPCError(Requests, TRUE))
    <3>1. RPCError(Requests, TRUE) \in Messages /\ DOMAIN RPCError(Requests, TRUE).toks = {}
      BY ErrorMessage
    <3> QED
      BY <2>2, <3>1, ErrorsNumberNothing
  <2> QED
    BY <2>1, <2>2 DEF PollInput, InputDrained, EngineStepHangs, Heartbeat, BeatArrives,
       BeatTimeout, EngineStepRaises
<1>4. errored => errored'
  <2>1. CASE BeatArrives
    <3>1. errored' = (errored \/ ~Head(heartbeat))
      BY <2>1 DEF BeatArrives
    <3> QED
      BY <3>1, Zenon
  <2> QED
    BY <2>1 DEF PollInput, InputDrained, EngineStepHangs, Heartbeat, BeatTimeout,
       EngineStepRaises, client
<1>5. (loop' = "dead" => loop = "dead") /\ (loop' # "raised" => loop # "raised")
  BY DEF PollInput, InputDrained, EngineStepHangs, Heartbeat, BeatArrives, BeatTimeout,
     EngineStepRaises, client, engine
<1>6. TypeOK
  BY DEF TypeInv
<1> QED
  BY <1>1, <1>2, <1>3, <1>4, <1>5, <1>6, TrackStutter

(* An error in a queue is no number. *)
LEMMA ErrorsAreNotKnown ==
    ASSUME TypeInv, NEW items, Deliver(items),
           \A x \in DOMAIN items : items[x] = Error, NEW r \in Requests
    PROVE  Known(r)' = Known(r)
           /\ \A i \in Known(r) : output_queues'[r][i].n = output_queues[r][i].n
<1> DEFINE n == Len(output_queues[r])
<1>0. Error \in Items /\ Error.error
  BY DEF Error, Items
<1>1. \A x \in DOMAIN items : items[x] \in Items /\ items[x].error
  BY <1>0
<1>2. /\ n \in Nat /\ DOMAIN output_queues[r] = 1 .. n
      /\ \A i \in 1 .. n : i \in DOMAIN output_queues'[r]
                           /\ output_queues'[r][i] = output_queues[r][i]
      /\ IF req[r] = "waiting" /\ r \in DOMAIN items
         THEN /\ DOMAIN output_queues'[r] = 1 .. n + 1
              /\ output_queues'[r][n + 1] = items[r]
         ELSE output_queues'[r] = output_queues[r]
  BY <1>1, Delivered
<1> HIDE DEF n
<1>3. CASE req[r] = "waiting" /\ r \in DOMAIN items
  <2>1. /\ DOMAIN output_queues'[r] = 1 .. n + 1 /\ output_queues'[r][n + 1].error
    BY <1>1, <1>2, <1>3
  <2> QED
    BY <1>2, <2>1 DEF Known
<1>4. CASE output_queues'[r] = output_queues[r]
  BY <1>4 DEF Known
<1> QED
  BY <1>2, <1>3, <1>4

(* The output loop returns. *)
LEMMA TrackTimeout ==
    ASSUME TypeInv, TrackInv, OutputTimeout
    PROVE  TrackInv'
<1> DEFINE items == [r \in Requests |-> Error]
<1>1. /\ Deliver(items) /\ \A x \in DOMAIN items : items[x] = Error
      /\ UNCHANGED <<req, got, input, output, running, errored, loop>>
  BY DEF OutputTimeout, engine
<1> HIDE DEF items
<1>2. \A r \in Requests :
         /\ Known(r)' = Known(r)
         /\ \A i \in Known(r) : output_queues'[r][i].n = output_queues[r][i].n
  BY <1>1, ErrorsAreNotKnown
<1>3. \A r \in Requests : Sent(r)' = Sent(r)
  BY <1>1 DEF Sent
<1>4. \A r \in Requests : req[r] \in {"new", "guided"} => output_queues'[r] = output_queues[r]
  BY <1>1 DEF Deliver, Registered
<1>5. TypeOK
  BY DEF TypeInv
<1> QED
  BY <1>1, <1>2, <1>3, <1>4, <1>5, TrackStutter

(* The first message leaves the channel. *)
LEMMA SentShifts ==
    ASSUME TypeInv, output # <<>>, output' = Tail(output), NEW r
    PROVE  /\ \A i : i \in Sent(r)' => i + 1 \in Sent(r) /\ i + 1 # 1 /\ i \in Nat
                        /\ output'[i].toks[r] = output[i + 1].toks[r]
           /\ \A i \in Sent(r) : i # 1 => i - 1 \in Sent(r)' /\ i \in Nat
                        /\ output'[i - 1].toks[r] = output[i].toks[r]
           /\ 1 \in Sent(r) <=> r \in DOMAIN Head(output).toks
           /\ Head(output) = output[1] /\ Head(output) \in Messages /\ 1 \in DOMAIN output
<1>1. output \in Seq(Messages)
  BY DEF TypeInv, ChannelInv
<1>2. /\ Len(output) \in Nat \ {0} /\ DOMAIN output = 1 .. Len(output)
      /\ DOMAIN output' = 1 .. Len(output) - 1
      /\ \A i \in 1 .. Len(output) - 1 : output'[i] = output[i + 1]
      /\ Head(output) = output[1] /\ output[1] \in Messages
  BY <1>1, Shifted
<1>3. \A i : i \in Sent(r)' => i + 1 \in Sent(r) /\ i + 1 # 1 /\ i \in Nat
                /\ output'[i].toks[r] = output[i + 1].toks[r]
  BY <1>2 DEF Sent
<1>4. \A i \in Sent(r) : i # 1 => i - 1 \in Sent(r)' /\ i \in Nat
                /\ output'[i - 1].toks[r] = output[i].toks[r]
  BY <1>2 DEF Sent
<1> QED
  BY <1>2, <1>3, <1>4 DEF Sent

(* A message that numbers an output of r moves it to the end of r's queue. *)
LEMMA NumberMoves ==
    ASSUME TypeInv, NEW r \in Requests, 1 \in Sent(r), NEW n \in Nat,
           \A i : i \in Sent(r)' => i + 1 \in Sent(r) /\ i + 1 # 1 /\ i \in Nat
                     /\ output'[i].toks[r] = output[i + 1].toks[r],
           \A i \in Sent(r) : i # 1 => i - 1 \in Sent(r)' /\ i \in Nat
                     /\ output'[i - 1].toks[r] = output[i].toks[r],
           \A i \in Known(r) : i \in 1 .. n /\ i \in Known(r)'
                               /\ output_queues'[r][i].n = output_queues[r][i].n,
           \A i \in Known(r)' : i \in Known(r) \/ i = n + 1,
           n + 1 \in Known(r)', output_queues'[r][n + 1].n = output[1].toks[r],
           got'[r] = got[r]
    PROVE  Unread(r)' = Unread(r) /\ (Whole(r) => Whole(r)')
<1>t. /\ Sent(r) \subseteq Nat /\ got[r] \in Nat
      /\ \A i \in Known(r) : output_queues[r][i].n \in Nat
      /\ \A i \in Sent(r) : output[i].toks[r] \in Nat
      /\ \A i \in Sent(r) : i >= 1
  <2>1. \A i \in Sent(r) : i >= 1
    <3>1. output \in Seq(Messages)
      BY DEF TypeInv, ChannelInv
    <3> QED
      BY <3>1 DEF Sent
  <2> QED
    BY <2>1, StreamTypes
<1>1. Unread(r)' \subseteq Unread(r)
  <2> SUFFICES ASSUME NEW x \in Unread(r)' PROVE x \in Unread(r)
    OBVIOUS
  <2>1. \/ \E i \in Known(r)' : x = output_queues'[r][i].n
        \/ \E i \in Sent(r)' : x = output'[i].toks[r]
    BY DEF Unread
  <2>2. \/ \E i \in Known(r) : x = output_queues[r][i].n
        \/ \E i \in Sent(r) : x = output[i].toks[r]
    BY <2>1
  <2> QED
    BY <2>2, UnreadIs
<1>2. Unread(r) \subseteq Unread(r)'
  <2> SUFFICES ASSUME NEW x \in Unread(r) PROVE x \in Unread(r)'
    OBVIOUS
  <2>1. \/ \E i \in Known(r) : x = output_queues[r][i].n
        \/ \E i \in Sent(r) : x = output[i].toks[r]
    BY UnreadIs
  <2>2. \/ \E i \in Known(r)' : x = output_queues'[r][i].n
        \/ \E i \in Sent(r)' : x = output'[i].toks[r]
    BY <2>1
  <2> QED
    BY <2>2 DEF Unread
<1>3. Unread(r)' = Unread(r)
  BY <1>1, <1>2
<1>4. ASSUME Whole(r) PROVE Whole(r)'
  <2>1. \A i, j \in Known(r)' : i < j => output_queues'[r][i].n < output_queues'[r][j].n
    BY <1>t, <1>4 DEF Whole
  <2>2. \A i, j \in Sent(r)' : i < j => output'[i].toks[r] < output'[j].toks[r]
    BY <1>t, <1>4 DEF Whole
  <2>3. \A i \in Known(r)', j \in Sent(r)' : output_queues'[r][i].n < output'[j].toks[r]
    BY <1>t, <1>4 DEF Whole
  <2>4. \A x \in Unread(r)' : got'[r] < x /\ (got'[r] + 1) .. x \subseteq Unread(r)'
    BY <1>3, <1>4 DEF Whole
  <2> QED
    BY <2>1, <2>2, <2>3, <2>4 DEF Whole
<1> QED
  BY <1>3, <1>4

(* One that numbers none of r's shifts what is under way.                  *)
LEMMA OthersMove ==
    ASSUME TypeInv, NEW r \in Requests, 1 \notin Sent(r),
           \A i : i \in Sent(r)' => i + 1 \in Sent(r) /\ i + 1 # 1 /\ i \in Nat
                     /\ output'[i].toks[r] = output[i + 1].toks[r],
           \A i \in Sent(r) : i # 1 => i - 1 \in Sent(r)' /\ i \in Nat
                     /\ output'[i - 1].toks[r] = output[i].toks[r],
           Known(r)' = Known(r),
           \A i \in Known(r) : output_queues'[r][i].n = output_queues[r][i].n,
           got'[r] = got[r]
    PROVE  Unread(r)' = Unread(r) /\ (Whole(r) => Whole(r)')
<1>t. Sent(r) \subseteq Nat
  BY StreamTypes
<1>1. Unread(r)' = Unread(r)
  <2>1. ASSUME NEW x \in Unread(r)' PROVE x \in Unread(r)
    <3>1. \/ \E i \in Known(r)' : x = output_queues'[r][i].n
          \/ \E i \in Sent(r)' : x = output'[i].toks[r]
      BY <2>1 DEF Unread
    <3> QED
      BY <3>1, UnreadIs
  <2>2. ASSUME NEW x \in Unread(r) PROVE x \in Unread(r)'
    <3>1. \/ \E i \in Known(r) : x = output_queues[r][i].n
          \/ \E i \in Sent(r) : x = output[i].toks[r]
      BY <2>2, UnreadIs
    <3>2. \/ \E i \in Known(r)' : x = output_queues'[r][i].n
          \/ \E i \in Sent(r)' : x = output'[i].toks[r]
      BY <3>1
    <3> QED
      BY <3>2 DEF Unread
  <2> QED
    BY <2>1, <2>2
<1>2. ASSUME Whole(r) PROVE Whole(r)'
  <2>1. \A i, j \in Known(r)' : i < j => output_queues'[r][i].n < output_queues'[r][j].n
    BY <1>2 DEF Whole
  <2>2. \A i, j \in Sent(r)' : i < j => output'[i].toks[r] < output'[j].toks[r]
    BY <1>t, <1>2 DEF Whole
  <2>3. \A i \in Known(r)', j \in Sent(r)' : output_queues'[r][i].n < output'[j].toks[r]
    BY <1>t, <1>2 DEF Whole
  <2>4. \A x \in Unread(r)' : got'[r] < x /\ (got'[r] + 1) .. x \subseteq Unread(r)'
    BY <1>1, <1>2 DEF Whole
  <2> QED
    BY <2>1, <2>2, <2>3, <2>4 DEF Whole
<1> QED
  BY <1>1, <1>2

(* A message of the engine arrives. *)
LEMMA TrackArrives ==
    ASSUME TypeInv, TrackInv, OutputArrives
    PROVE  TrackInv'
<1> DEFINE m == Head(output)
<1>1. /\ output # <<>> /\ output' = Tail(output)
      /\ UNCHANGED <<req, got, input, running, loop>>
  BY DEF OutputArrives, engine
<1>2. errored => errored'
  <2>1. errored' = errored \/ errored' = (errored \/ m.fatal)
    BY DEF OutputArrives
  <2> HIDE DEF m
  <2> QED
    BY <2>1, Zenon
<1>3. m \in Messages /\ m = output[1] /\ 1 \in DOMAIN output
  BY <1>1, SentShifts
<1>4. \A r \in Requests : req[r] = "waiting" =>
         Unread(r)' = Unread(r) /\ (Whole(r) => Whole(r)')
  <2> SUFFICES ASSUME NEW r \in Requests, req[r] = "waiting"
               PROVE  Unread(r)' = Unread(r) /\ (Whole(r) => Whole(r)')
    OBVIOUS
  <2>1. /\ \A i : i \in Sent(r)' => i + 1 \in Sent(r) /\ i + 1 # 1 /\ i \in Nat
                     /\ output'[i].toks[r] = output[i + 1].toks[r]
        /\ \A i \in Sent(r) : i # 1 => i - 1 \in Sent(r)' /\ i \in Nat
                     /\ output'[i - 1].toks[r] = output[i].toks[r]
        /\ 1 \in Sent(r) <=> r \in DOMAIN m.toks
    BY <1>1, SentShifts
  <2>2. CASE m.to # {} /\ Deliver([x \in m.to |-> Error])
    <3> DEFINE items == [x \in m.to |-> Error]
    <3>1. \A x \in DOMAIN items : items[x] = Error
      OBVIOUS
    <3>2. Deliver(items)
      BY <2>2
    <3> HIDE DEF items
    <3>3. /\ Known(r)' = Known(r)
          /\ \A i \in Known(r) : output_queues'[r][i].n = output_queues[r][i].n
      BY <3>1, <3>2, ErrorsAreNotKnown
    <3>4. DOMAIN m.toks = {}
      BY <1>3, <2>2 DEF TypeInv, ChannelInv
    <3> QED
      BY <1>1, <2>1, <3>3, <3>4, OthersMove
  <2>3. CASE Deliver([x \in DOMAIN m.toks |-> [n |-> m.toks[x], error |-> FALSE]])
    <3> DEFINE items == [x \in DOMAIN m.toks |-> [n |-> m.toks[x], error |-> FALSE]]
               n == Len(output_queues[r])
    <3>1. /\ \A x \in DOMAIN items : items[x] \in Items /\ ~items[x].error
          /\ \A x \in DOMAIN items : items[x].n = m.toks[x]
          /\ DOMAIN items = DOMAIN m.toks
      BY <1>3, MessageOf DEF Items
    <3>2. Deliver(items)
      BY <2>3
    <3> HIDE DEF items, m
    <3>3. /\ n \in Nat /\ DOMAIN output_queues[r] = 1 .. n
          /\ \A i \in 1 .. n : i \in DOMAIN output_queues'[r]
                               /\ output_queues'[r][i] = output_queues[r][i]
          /\ IF req[r] = "waiting" /\ r \in DOMAIN items
             THEN /\ DOMAIN output_queues'[r] = 1 .. n + 1
                  /\ output_queues'[r][n + 1] = items[r]
             ELSE output_queues'[r] = output_queues[r]
      BY <3>1, <3>2, Delivered
    <3> HIDE DEF n
    <3>4. CASE r \in DOMAIN m.toks
      <4>1. /\ DOMAIN output_queues'[r] = 1 .. n + 1
            /\ output_queues'[r][n + 1] = items[r]
        BY <3>1, <3>3, <3>4
      <4>2. /\ \A i \in Known(r) : i \in 1 .. n /\ i \in Known(r)'
                               /\ output_queues'[r][i].n = output_queues[r][i].n
            /\ \A i \in Known(r)' : i \in Known(r) \/ i = n + 1
        BY <3>3, <4>1 DEF Known
      <4>3. n + 1 \in Known(r)' /\ output_queues'[r][n + 1].n = output[1].toks[r]
        BY <1>3, <3>1, <3>3, <3>4, <4>1 DEF Known
      <4> QED
        BY <1>1, <2>1, <3>3, <3>4, <4>2, <4>3, NumberMoves
    <3>5. CASE r \notin DOMAIN m.toks
      <4>1. output_queues'[r] = output_queues[r]
        BY <3>1, <3>3, <3>5
      <4>2. /\ Known(r)' = Known(r)
            /\ \A i \in Known(r) : output_queues'[r][i].n = output_queues[r][i].n
        BY <4>1 DEF Known
      <4> QED
        BY <1>1, <2>1, <3>5, <4>2, OthersMove
    <3> QED
      BY <3>4, <3>5
  <2> QED
    BY <2>2, <2>3 DEF OutputArrives
<1>5. \A r \in Requests : req[r] \in {"new", "guided"} =>
         output_queues'[r] = output_queues[r] /\ Sent(r)' = {}
  <2> SUFFICES ASSUME NEW r \in Requests, req[r] \in {"new", "guided"}
               PROVE  output_queues'[r] = output_queues[r] /\ Sent(r)' = {}
    OBVIOUS
  <2>1. output_queues'[r] = output_queues[r]
    BY DEF OutputArrives, Deliver, Registered
  <2>2. Sent(r) = {}
    BY DEF TrackInv, FreshInv
  <2>3. \A i : i \in Sent(r)' => i + 1 \in Sent(r)
    BY <1>1, SentShifts
  <2>4. Sent(r)' = {}
    BY <2>2, <2>3
  <2> QED
    BY <2>1, <2>4
<1>6. TypeOK
  BY DEF TypeInv
<1> QED
  BY <1>1, <1>2, <1>4, <1>5, <1>6, TrackKeeps

(* A message more for the engine. *)
LEMMA InputGrows ==
    ASSUME TypeInv, NEW m \in Inputs, input' = Append(input, m)
    PROVE  LET n == Len(input) IN
           /\ n \in Nat /\ DOMAIN input = 1 .. n /\ DOMAIN input' = 1 .. n + 1
           /\ \A i \in 1 .. n : input'[i] = input[i]
           /\ input'[n + 1] = m
<1>1. input \in Seq(Inputs)
  BY Types DEF TypeInv
<1> QED
  BY <1>1, Extended

(* Where the numbers of all others stay, their part of TrackInv does.      *)
LEMMA StreamsStay ==
    ASSUME TypeInv, UNCHANGED output, NEW r \in Requests,
           \A x \in Requests : x # r => got'[x] = got[x] /\ output_queues'[x] = output_queues[x]
    PROVE  /\ \A x : Sent(x)' = Sent(x)
           /\ \A x \in Requests : x # r =>
                 /\ Unread(x)' = Unread(x) /\ (Whole(x) => Whole(x)')
<1>1. \A x : Sent(x)' = Sent(x)
  BY DEF Sent
<1>2. \A x \in Requests : x # r => Known(x)' = Known(x)
  BY DEF Known
<1> QED
  BY <1>1, <1>2, SameStream

(* A call that begins, fails at once, or is given up while the guide is    *)
(* built: nobody else knows of it.                                         *)
LEMMA TrackBegins ==
    ASSUME TypeInv, TrackInv, NEW r \in Requests, NEW s \in {"guided", "failed", "cancelled"},
           req[r] \in {"new", "guided"}, s = "guided" => r \in Guided,
           req' = [req EXCEPT ![r] = s],
           UNCHANGED <<output_queues, got, errored, input, output, running, loop>>
    PROVE  TrackInv'
<1> USE DEF TrackInv
<1>t. req \in [Requests -> ReqStates]
      /\ DOMAIN running \subseteq Requests /\ input \in Seq(Inputs)
  BY Types DEF TypeInv
<1>1. \A x \in Requests : x # r => req'[x] = req[x]
  BY <1>t
<1>2. req'[r] = s
  BY <1>t
<1>3. /\ output_queues[r] = <<>> /\ got[r] = 0 /\ Sent(r) = {} /\ r \notin DOMAIN running
      /\ \A i \in DOMAIN input : input[i].id # r
  BY DEF FreshInv
<1>4. \A x \in Requests : Known(x)' = Known(x) /\ Sent(x)' = Sent(x) /\ Unread(x)' = Unread(x)
  BY DEF Known, Sent, Unread
<1>5. FreshInv'
  BY <1>1, <1>2, <1>3, <1>4 DEF FreshInv
<1>6. ProcessInv'
  <2> SUFFICES ASSUME NEW x \in Requests, NEW i \in DOMAIN input, input[i] = Begin(x)
               PROVE  SendsOnce(i, x)'
    BY DEF ProcessInv, Begin
  <2>1. SendsOnce(i, x) /\ x # r
    BY <1>3 DEF ProcessInv, Begin
  <2> QED
    BY <1>1, <1>4, <2>1 DEF SendsOnce, Begin, Abort
<1>7. RunInv'
  BY <1>t, <1>1, <1>3, <1>4 DEF RunInv
<1>8. StreamIsWhole'
  <2>1. \A x \in Requests : x # r => (Whole(x) => Whole(x)')
    BY <1>4, SameStream
  <2>2. \A x \in Requests : req'[x] = "waiting" => x # r /\ req[x] = "waiting"
    BY <1>1, <1>2
  <2>3. \A x \in Requests : req'[x] = "waiting" => Whole(x)'
    BY <2>1, <2>2, WholeStreams DEF Registered
  <2> QED
    BY <2>3 DEF StreamIsWhole, Whole, Registered
<1>9. NoWorkForNobody'
  BY <1>t, <1>1, <1>3 DEF NoWorkForNobody
<1> QED
  BY <1>5, <1>6, <1>7, <1>8, <1>9

(* A request is sent. *)
LEMMA TrackSends ==
    ASSUME TypeInv, TrackInv, NEW r \in Requests, req[r] \in {"new", "guided"}, Send(r),
           UNCHANGED <<output_queues, got, errored, output, running, loop>>
    PROVE  TrackInv'
<1> USE DEF TrackInv
<1> DEFINE n == Len(input)
<1>t. /\ req \in [Requests -> ReqStates] /\ DOMAIN running \subseteq Requests
      /\ input \in Seq(Inputs)
  BY Types DEF TypeInv
<1>1. /\ \A x \in Requests : x # r => req'[x] = req[x]
      /\ req'[r] = "waiting" /\ input' = Append(input, Begin(r))
  BY <1>t DEF Send, Begin
<1>2. /\ n \in Nat /\ DOMAIN input = 1 .. n /\ DOMAIN input' = 1 .. n + 1
      /\ \A i \in 1 .. n : input'[i] = input[i]
      /\ input'[n + 1] = Begin(r)
  <2>1. Begin(r) \in Inputs
    BY DEF Inputs, Begin
  <2> QED
    BY <1>1, <2>1, InputGrows
<1>3. /\ output_queues[r] = <<>> /\ got[r] = 0 /\ Sent(r) = {} /\ r \notin DOMAIN running
      /\ \A i \in DOMAIN input : input[i].id # r
  BY DEF FreshInv
<1>4. \A x \in Requests : Known(x)' = Known(x) /\ Sent(x)' = Sent(x) /\ Unread(x)' = Unread(x)
  BY DEF Known, Sent, Unread
<1>5. Known(r) = {} /\ Unread(r) = {}
  BY <1>3 DEF Known, Unread
<1> HIDE DEF n
<1>6. /\ Begin(r).id = r /\ \A x \in Requests : Begin(r) = Begin(x) => x = r
      /\ \A x \in Requests : Begin(r) # Abort(x)
  BY DEF Begin, Abort
<1>7. \A i \in 1 .. n : input[i] # Begin(r)
  BY <1>2, <1>3, <1>6
<1>8. FreshInv'
  BY <1>1, <1>2, <1>4, <1>6 DEF FreshInv
<1>10. ProcessInv'
  <2> SUFFICES ASSUME NEW x \in Requests, NEW i \in DOMAIN input', input'[i] = Begin(x)
               PROVE  SendsOnce(i, x)'
    BY DEF ProcessInv, Begin
  <2> HIDE DEF TrackInv
  <2>1. CASE i = n + 1
    <3>1. x = r
      BY <1>2, <1>6, <2>1
    <3>2. \A j \in DOMAIN input' : input'[j] = Begin(r) => j = i
      BY <1>2, <1>7, <2>1
    <3>3. got'[r] = 0 /\ r \notin DOMAIN running' /\ Unread(r)' = {}
      BY <1>3, <1>4, <1>5
    <3>4. SendsOnce(i, r)'
      BY <1>1, <3>2, <3>3 DEF SendsOnce, Begin, Abort
    <3> QED
      BY <3>1, <3>4
  <2>2. CASE i \in 1 .. n
    <3>1. SendsOnce(i, x) /\ x # r
      BY <1>2, <1>7, <2>2 DEF ProcessInv, TrackInv
    <3>2. \A j \in DOMAIN input' : input'[j] = Begin(x) => j = i
      BY <1>2, <1>6, <3>1 DEF SendsOnce
    <3>3. ~errored' => \/ req'[x] = "waiting"
                       \/ \E j \in DOMAIN input' : i < j /\ input'[j] = Abort(x)
      BY <1>1, <1>2, <3>1 DEF SendsOnce
    <3>4. /\ x \notin DOMAIN running'
          /\ req'[x] = "waiting" => got'[x] = 0 /\ Unread(x)' = {}
      BY <1>1, <1>4, <3>1 DEF SendsOnce
    <3> QED
      BY <3>2, <3>3, <3>4 DEF SendsOnce, Begin, Abort
  <2> QED
    BY <1>2, <2>1, <2>2
<1>11. RunInv'
  BY <1>t, <1>1, <1>3, <1>4 DEF RunInv
<1>12. StreamIsWhole'
  <2>1. \A x \in Requests : Whole(x) => Whole(x)'
    BY <1>4, SameStream
  <2>2. Whole(r)
    BY <1>3, <1>5 DEF Whole
  <2>3. \A x \in Requests : req'[x] = "waiting" => Whole(x)'
    BY <1>1, <2>1, <2>2, WholeStreams DEF Registered
  <2> QED
    BY <2>3 DEF StreamIsWhole, Whole, Registered
<1>13. NoWorkForNobody'
  <2> SUFFICES ASSUME ~errored, loop # "raised", NEW x \in DOMAIN running
               PROVE  \/ req'[x] = "waiting"
                      \/ \E i \in DOMAIN input' : input'[i] = [kind |-> "abort", id |-> x]
    BY DEF NoWorkForNobody
  <2>1. \/ req[x] = "waiting"
        \/ \E i \in DOMAIN input : input[i] = [kind |-> "abort", id |-> x]
    BY DEF NoWorkForNobody
  <2> QED
    BY <1>t, <1>1, <1>2, <1>3, <2>1
<1> QED
  BY <1>8, <1>10, <1>11, <1>12, <1>13

(* A caller leaves: with its last output, with an error, or because it     *)
(* gives up.                                                               *)
LEMMA TrackLeaves ==
    ASSUME TypeInv, TrackInv, NEW r \in Requests, req[r] = "waiting",
           NEW how \in {"done", "failed", "cancelled"}, Leave(r, how),
           \A x \in Requests : x # r => got'[x] = got[x],
           how = "done" => /\ r \notin DOMAIN running
                           /\ \A i \in DOMAIN input : input[i] # Begin(r),
           UNCHANGED <<errored, output, running, loop>>
    PROVE  TrackInv'
<1> USE DEF TrackInv
<1> DEFINE n == Len(input)
<1>t. /\ req \in [Requests -> ReqStates] /\ DOMAIN running \subseteq Requests
      /\ output_queues \in [Requests -> Seq(Items)] /\ input \in Seq(Inputs)
  BY Types DEF TypeInv
<1>1. /\ \A x \in Requests : x # r => req'[x] = req[x] /\ output_queues'[x] = output_queues[x]
      /\ req'[r] = how
  BY <1>t DEF Leave
<1>2. /\ n \in Nat /\ DOMAIN input = 1 .. n
      /\ DOMAIN input' = 1 .. n \/ DOMAIN input' = 1 .. n + 1
      /\ \A i \in 1 .. n : i \in DOMAIN input' /\ input'[i] = input[i]
      /\ n + 1 \in DOMAIN input' => input'[n + 1] = Abort(r)
      /\ how # "done" /\ ~errored => n + 1 \in DOMAIN input'
  <2>1. n \in Nat /\ DOMAIN input = 1 .. n
    BY <1>t
  <2>2. CASE how # "done" /\ ~errored
    <3>1. input' = Append(input, Abort(r)) /\ Abort(r) \in Inputs
      BY <2>2 DEF Leave, Abort, Inputs
    <3> QED
      BY <2>1, <3>1, InputGrows
  <2>3. CASE input' = input /\ ~(how # "done" /\ ~errored)
    BY <2>1, <2>3
  <2> QED
    BY <2>2, <2>3 DEF Leave
<1>4. \A x \in Requests : x # r => Unread(x)' = Unread(x) /\ (Whole(x) => Whole(x)')
  BY <1>1, StreamsStay
<1>5. \A x : Sent(x)' = Sent(x)
  BY DEF Sent
<1> HIDE DEF n
<1>6. /\ Abort(r).id = r /\ \A x \in Requests : Abort(r) # Begin(x)
  BY DEF Begin, Abort
<1>7. FreshInv'
  BY <1>1, <1>2, <1>5, <1>6, SMTT(30) DEF FreshInv
<1>8. ProcessInv'
  <2> SUFFICES ASSUME NEW x \in Requests, NEW i \in DOMAIN input', input'[i] = Begin(x)
               PROVE  SendsOnce(i, x)'
    BY DEF ProcessInv, Begin
  <2>1. i \in 1 .. n /\ input[i] = Begin(x) /\ i \in DOMAIN input
    BY <1>2, <1>6
  <2>2. SendsOnce(i, x)
    BY <2>1 DEF ProcessInv
  <2>3. \A j \in DOMAIN input' : input'[j] = Begin(x) => j = i
    BY <1>2, <1>6, <2>1, <2>2 DEF SendsOnce
  <2>4. ~errored' => \/ req'[x] = "waiting"
                     \/ \E j \in DOMAIN input' : i < j /\ input'[j] = Abort(x)
    <3>1. CASE x # r
      BY <1>1, <1>2, <2>2, <3>1 DEF SendsOnce
    <3>2. CASE x = r /\ ~errored
      <4>1. how # "done"
        BY <2>1, <3>2
      <4>2. n + 1 \in DOMAIN input' /\ input'[n + 1] = Abort(x) /\ i < n + 1
        BY <1>2, <2>1, <3>2, <4>1
      <4> QED
        BY <4>2
    <3> QED
      BY <3>1, <3>2
  <2>5. x \notin DOMAIN running'
    BY <2>2 DEF SendsOnce
  <2>6. req'[x] = "waiting" => got'[x] = 0 /\ Unread(x)' = {}
    <3>1. req'[x] = "waiting" => x # r /\ req[x] = "waiting"
      BY <1>1
    <3> QED
      BY <1>4, <2>2, <3>1 DEF SendsOnce
  <2> QED
    BY <2>3, <2>4, <2>5, <2>6 DEF SendsOnce, Begin, Abort
<1>9. \A x \in Requests : req'[x] = "waiting" => x # r /\ req[x] = "waiting"
  BY <1>1
<1>10. RunInv'
  BY <1>t, <1>4, <1>9 DEF RunInv
<1>11. StreamIsWhole'
  <2>1. \A x \in Requests : req'[x] = "waiting" => Whole(x)'
    BY <1>4, <1>9, WholeStreams DEF Registered
  <2> QED
    BY <2>1 DEF StreamIsWhole, Whole, Registered
<1>12. NoWorkForNobody'
  <2> SUFFICES ASSUME ~errored, loop # "raised", NEW x \in DOMAIN running
               PROVE  \/ req'[x] = "waiting"
                      \/ \E i \in DOMAIN input' : input'[i] = Abort(x)
    BY DEF NoWorkForNobody, Abort
  <2>1. \/ req[x] = "waiting"
        \/ \E i \in DOMAIN input : input[i] = Abort(x)
    BY DEF NoWorkForNobody, Abort
  <2>2. CASE x = r
    BY <1>2, <2>2
  <2>3. CASE x # r
    BY <1>t, <1>1, <1>2, <2>1, <2>3
  <2> QED
    BY <2>2, <2>3
<1> QED
  BY <1>7, <1>8, <1>10, <1>11, <1>12

(* A caller is given the first of what waits for it. *)
LEMMA TrackGets ==
    ASSUME TypeInv, TrackInv, NEW r \in Requests, QueueGet(r)
    PROVE  TrackInv'
<1> DEFINE q == output_queues[r]
           k == q[1].n
<1>t. /\ req \in [Requests -> ReqStates] /\ DOMAIN running \subseteq Requests
      /\ output_queues \in [Requests -> Seq(Items)]
      /\ got \in [Requests -> 0 .. NumOutputs]
      /\ \A x \in DOMAIN running : running[x] \in 0 .. (NumOutputs - 1)
      /\ NumOutputs \in Nat
  BY Types DEF TypeInv
<1>1. /\ req[r] = "waiting" /\ q # <<>>
      /\ UNCHANGED <<errored, output, running, loop>>
  BY DEF QueueGet, engine
<1>2. /\ Tail(q) \in Seq(Items) /\ Len(q) \in Nat \ {0} /\ DOMAIN q = 1 .. Len(q)
      /\ DOMAIN Tail(q) = 1 .. Len(q) - 1
      /\ \A i \in 1 .. Len(q) - 1 : Tail(q)[i] = q[i + 1]
      /\ Head(q) = q[1] /\ q[1] \in Items
  BY <1>t, <1>1, Shifted
<1>3. \/ q[1].error /\ Leave(r, "failed") /\ got' = got
      \/ /\ ~q[1].error /\ k = NumOutputs /\ Leave(r, "done")
         /\ got' = [got EXCEPT ![r] = k]
      \/ /\ ~q[1].error /\ got' = [got EXCEPT ![r] = k]
         /\ output_queues' = [output_queues EXCEPT ![r] = Tail(q)]
         /\ UNCHANGED <<req, input>>
  BY <1>2 DEF QueueGet
<1>4. CASE q[1].error /\ Leave(r, "failed") /\ got' = got
  BY <1>1, <1>4, TrackLeaves
<1>5. ASSUME ~q[1].error
      PROVE  /\ k \in Unread(r) /\ 1 \in Known(r) /\ k \in Nat
             /\ \A i \in DOMAIN input : input[i] # Begin(r)
             /\ r \in DOMAIN running => k <= running[r]
             /\ Whole(r) /\ got[r] < k
  <2>1. 1 \in Known(r) /\ k \in Unread(r)
    BY <1>2, <1>5 DEF Known, Unread
  <2>2. k \in Nat
    BY <1>2 DEF Items
  <2>3. Whole(r)
    BY <1>1, WholeStreams DEF TrackInv, Registered
  <2>4. got[r] < k
    BY <2>1, <2>3 DEF Whole
  <2>5. \A i \in DOMAIN input : input[i] # Begin(r)
    BY <1>1, <2>1 DEF TrackInv, ProcessInv, SendsOnce
  <2>6. r \in DOMAIN running => k <= running[r]
    BY <1>1, <2>1 DEF TrackInv, RunInv
  <2> QED
    BY <2>1, <2>2, <2>3, <2>4, <2>5, <2>6
<1>6. CASE /\ ~q[1].error /\ k = NumOutputs /\ Leave(r, "done")
           /\ got' = [got EXCEPT ![r] = k]
  <2>1. r \notin DOMAIN running
    <3>1. r \in DOMAIN running => NumOutputs <= running[r] /\ running[r] \in 0 .. (NumOutputs - 1)
      BY <1>t, <1>5, <1>6
    <3> HIDE DEF q, k
    <3> QED
      BY <1>t, <3>1
  <2>2. \A x \in Requests : x # r => got'[x] = got[x]
    BY <1>t, <1>6
  <2>3. \A i \in DOMAIN input : input[i] # Begin(r)
    BY <1>5, <1>6
  <2> QED
    BY <1>1, <1>6, <2>1, <2>2, <2>3, TrackLeaves
<1>7. CASE /\ ~q[1].error /\ got' = [got EXCEPT ![r] = k]
           /\ output_queues' = [output_queues EXCEPT ![r] = Tail(q)]
           /\ UNCHANGED <<req, input>>
  <2> DEFINE u == output_queues'[r]
  <2>1. /\ \A x \in Requests : x # r => got'[x] = got[x] /\ output_queues'[x] = output_queues[x]
        /\ got'[r] = k /\ u = Tail(q)
    BY <1>t, <1>7
  <2>2. /\ \A i \in Known(r)' : i \in Nat \ {0} /\ i + 1 \in Known(r) /\ u[i] = q[i + 1]
        /\ \A i \in Known(r) : i # 1 => i - 1 \in Known(r)' /\ u[i - 1] = q[i]
    BY <1>2, <2>1, SMTT(30) DEF Known
  <2>3. /\ k \in Unread(r) /\ 1 \in Known(r) /\ k \in Nat
        /\ \A i \in DOMAIN input : input[i] # Begin(r)
        /\ r \in DOMAIN running => k <= running[r]
        /\ Whole(r) /\ got[r] < k
    BY <1>5, <1>7
  <2>4. \A x : Sent(x)' = Sent(x)
    BY <1>1 DEF Sent
  <2>s. /\ Known(r) \subseteq Nat /\ Sent(r) \subseteq Nat /\ got[r] \in Nat
        /\ \A i \in Known(r) : q[i].n \in Nat
        /\ \A i \in Sent(r) : output[i].toks[r] \in Nat
        /\ Unread(r) \subseteq Nat
        /\ \A i \in Known(r) : i >= 1
    <3>1. \A i \in Known(r) : i >= 1
      BY <1>2 DEF Known
    <3> QED
      BY <3>1, StreamTypes
  <2>5. \A x \in Requests : x # r => Unread(x)' = Unread(x) /\ (Whole(x) => Whole(x)')
    BY <1>1, <2>1, StreamsStay
  <2> DEFINE first == q[1]
  <2>f. first.n = k /\ q[1] = first
    OBVIOUS
  <2> HIDE DEF q, u, k, first
  <2>w. /\ \A i, j \in Known(r) : i < j => q[i].n < q[j].n
        /\ \A i, j \in Sent(r) : i < j => output[i].toks[r] < output[j].toks[r]
        /\ \A i \in Known(r), j \in Sent(r) : q[i].n < output[j].toks[r]
        /\ \A x \in Unread(r) : got[r] < x /\ (got[r] + 1) .. x \subseteq Unread(r)
    BY <2>3 DEF Whole, q
  <2>6. Unread(r)' = {x \in Unread(r) : x > k}
    <3>1. ASSUME NEW x \in Unread(r)' PROVE x \in Unread(r) /\ x > k
      <4>1. \/ \E i \in Known(r)' : x = u[i].n
            \/ \E i \in Sent(r) : x = output[i].toks[r]
        BY <1>1, <2>4, <3>1 DEF Unread, u
      <4>2. \/ \E i \in Known(r) : i # 1 /\ x = q[i].n
            \/ \E i \in Sent(r) : x = output[i].toks[r]
        BY <2>2, <4>1
      <4>3. x > k
        BY <2>3, <2>f, <2>s, <2>w, <4>2
      <4> QED
        BY <4>2, <4>3, UnreadIs DEF q
    <3>2. ASSUME NEW x \in Unread(r), x > k PROVE x \in Unread(r)'
      <4>1. \/ \E i \in Known(r) : x = q[i].n
            \/ \E i \in Sent(r) : x = output[i].toks[r]
        BY <3>2, UnreadIs DEF q
      <4>2. \/ \E i \in Known(r) : i # 1 /\ x = q[i].n
            \/ \E i \in Sent(r) : x = output[i].toks[r]
        BY <2>3, <2>f, <3>2, <4>1
      <4>3. \/ \E i \in Known(r)' : x = u[i].n
            \/ \E i \in Sent(r)' : x = output'[i].toks[r]
        BY <1>1, <2>2, <2>4, <4>2
      <4> QED
        BY <4>3 DEF Unread, u
    <3> QED
      BY <3>1, <3>2
  <2>7. Whole(r)'
    <3>1. \A i, j \in Known(r)' : i < j => u[i].n < u[j].n
      BY <2>2, <2>s, <2>w
    <3>2. \A i, j \in Sent(r) : i < j => output'[i].toks[r] < output'[j].toks[r]
      BY <1>1, <2>w
    <3>3. \A i \in Known(r)', j \in Sent(r) : u[i].n < output'[j].toks[r]
      BY <1>1, <2>2, <2>w
    <3>4. ASSUME NEW x \in Unread(r)' PROVE k < x /\ (k + 1) .. x \subseteq Unread(r)'
      BY <2>3, <2>6, <2>s, <2>w, <3>4
    <3> QED
      BY <2>1, <2>4, <3>1, <3>2, <3>3, <3>4 DEF Whole, u
  <2>8. StreamIsWhole'
    <3>1. \A x \in Requests : req'[x] = "waiting" => Whole(x)'
      BY <1>7, <2>5, <2>7, WholeStreams DEF Registered, TrackInv
    <3> QED
      BY <3>1 DEF StreamIsWhole, Whole, Registered
  <2>9. FreshInv'
    BY <1>1, <1>7, <2>1, <2>4 DEF FreshInv, TrackInv
  <2>10. ProcessInv'
    <3> SUFFICES ASSUME NEW x \in Requests, NEW i \in DOMAIN input', input'[i] = Begin(x)
                 PROVE  SendsOnce(i, x)'
      BY DEF ProcessInv, Begin
    <3>1. i \in DOMAIN input /\ input[i] = Begin(x) /\ x # r
      BY <1>7, <2>3
    <3>2. SendsOnce(i, x)
      BY <3>1 DEF ProcessInv, TrackInv
    <3> QED
      BY <1>1, <1>7, <2>1, <2>5, <3>1, <3>2 DEF SendsOnce, Begin, Abort
  <2>11. RunInv'
    <3>1. loop' = "dead" => DOMAIN running' = {}
      BY <1>1 DEF RunInv, TrackInv
    <3>2. ASSUME NEW x \in DOMAIN running, req[x] = "waiting"
          PROVE  /\ \A m \in Unread(x)' : m <= running[x]
                 /\ running[x] = got'[x] \/ running[x] \in Unread(x)'
      <4>1. /\ \A m \in Unread(x) : m <= running[x]
            /\ running[x] = got[x] \/ running[x] \in Unread(x)
        BY <3>2 DEF RunInv, TrackInv
      <4>2. CASE x # r
        BY <1>t, <2>1, <2>5, <4>1, <4>2
      <4>3. CASE x = r
        <5>1. running[r] \in Nat
          BY <1>t, <4>3
        <5>2. running[r] = k \/ (running[r] > k /\ running[r] \in Unread(r))
          BY <2>3, <2>s, <4>1, <4>3, <5>1
        <5> QED
          BY <2>1, <2>6, <4>1, <4>3, <5>2
      <4> QED
        BY <4>2, <4>3
    <3> QED
      BY <1>1, <1>7, <3>1, <3>2 DEF RunInv
  <2>12. NoWorkForNobody'
    BY <1>1, <1>7 DEF NoWorkForNobody, TrackInv
  <2> QED
    BY <2>8, <2>9, <2>10, <2>11, <2>12 DEF TrackInv
<1> QED
  BY <1>3, <1>4, <1>6, <1>7

(* The engine takes its first message. *)
LEMMA InputShifts ==
    ASSUME TypeInv, input # <<>>, input' = Tail(input)
    PROVE  /\ \A i \in DOMAIN input' : i \in Nat \ {0} /\ i + 1 \in DOMAIN input
                                       /\ input'[i] = input[i + 1]
           /\ \A i \in DOMAIN input : i # 1 => i - 1 \in DOMAIN input'
                                               /\ input'[i - 1] = input[i]
           /\ \A i \in DOMAIN input : i \in Nat
           /\ Head(input) = input[1] /\ input[1] \in Inputs /\ 1 \in DOMAIN input
<1>1. input \in Seq(Inputs)
  BY Types DEF TypeInv
<1>2. /\ Len(input) \in Nat \ {0} /\ DOMAIN input = 1 .. Len(input)
      /\ DOMAIN input' = 1 .. Len(input) - 1
      /\ \A i \in 1 .. Len(input) - 1 : input'[i] = input[i + 1]
      /\ Head(input) = input[1] /\ input[1] \in Inputs
  BY <1>1, Shifted
<1> QED
  BY <1>2

(* What is still to be sent moves up with the queue.                       *)
LEMMA ProcessShifts ==
    ASSUME TypeInv, ProcessInv, input # <<>>, input' = Tail(input),
           UNCHANGED <<req, got, errored>>, \A x \in Requests : Unread(x)' = Unread(x),
           \A x \in Requests : x \in DOMAIN running' => x \in DOMAIN running \/ input[1] = Begin(x)
    PROVE  ProcessInv'
<1> SUFFICES ASSUME NEW x \in Requests, NEW i \in DOMAIN input', input'[i] = Begin(x)
             PROVE  SendsOnce(i, x)'
  BY DEF ProcessInv, Begin
<1>s. /\ \A j \in DOMAIN input' : j \in Nat \ {0} /\ j + 1 \in DOMAIN input
                                  /\ input'[j] = input[j + 1]
      /\ \A j \in DOMAIN input : j # 1 => j - 1 \in DOMAIN input'
                                          /\ input'[j - 1] = input[j]
      /\ \A j \in DOMAIN input : j \in Nat
      /\ 1 \in DOMAIN input
  BY InputShifts
<1>1. i + 1 \in DOMAIN input /\ input[i + 1] = Begin(x) /\ i \in Nat \ {0}
  BY <1>s
<1>2. SendsOnce(i + 1, x)
  BY <1>1 DEF ProcessInv
<1>3. \A j \in DOMAIN input' : input'[j] = Begin(x) => j = i
  BY <1>s, <1>1, <1>2 DEF SendsOnce
<1>4. x \notin DOMAIN running'
  BY <1>s, <1>1, <1>2 DEF SendsOnce
<1>5. ~errored' => \/ req'[x] = "waiting"
                   \/ \E j \in DOMAIN input' : i < j /\ input'[j] = Abort(x)
  <2> SUFFICES ASSUME ~errored, req[x] # "waiting"
               PROVE  \E j \in DOMAIN input' : i < j /\ input'[j] = Abort(x)
    OBVIOUS
  <2>1. PICK j \in DOMAIN input : i + 1 < j /\ input[j] = Abort(x)
    BY <1>2 DEF SendsOnce
  <2>2. j \in Nat /\ j # 1 /\ i < j - 1
    BY <1>s, <1>1, <2>1
  <2>3. j - 1 \in DOMAIN input' /\ input'[j - 1] = Abort(x)
    BY <1>s, <2>1, <2>2
  <2> QED
    BY <2>2, <2>3
<1>6. req'[x] = "waiting" => got'[x] = 0 /\ Unread(x)' = {}
  BY <1>2 DEF SendsOnce
<1> QED
  BY <1>3, <1>4, <1>5, <1>6 DEF SendsOnce, Begin, Abort

(* What the engine does with its input, or fails to.                       *)
LEMMA TrackInput ==
    ASSUME TypeInv, TrackInv, HandleInput \/ HandleInputRaises
    PROVE  TrackInv'
<1>1. /\ input # <<>> /\ input' = Tail(input) /\ loop = "input"
      /\ UNCHANGED <<req, output_queues, got, errored>>
      /\ loop' \in {"input", "raised"}
  BY DEF HandleInput, HandleInputRaises, client
<1>s. /\ \A i \in DOMAIN input' : i \in Nat \ {0} /\ i + 1 \in DOMAIN input
                                  /\ input'[i] = input[i + 1]
      /\ \A i \in DOMAIN input : i # 1 => i - 1 \in DOMAIN input'
                                          /\ input'[i - 1] = input[i]
      /\ Head(input) = input[1] /\ input[1] \in Inputs /\ 1 \in DOMAIN input
  BY <1>1, InputShifts
<1> DEFINE r == input[1].id
<1>r. r \in Requests /\ (input[1] = Begin(r) \/ input[1] = Abort(r))
  BY <1>s DEF Inputs, Begin, Abort
<1>t. DOMAIN running \subseteq Requests
  BY Types DEF TypeInv
<1>2. \/ /\ input[1] = Begin(r) /\ loop' = "input"
         /\ running' = [x \in DOMAIN running \cup {r} |-> IF x = r THEN 0 ELSE running[x]]
      \/ running' = Without(running, r) /\ loop' = "input"
      \/ running' = running /\ loop' = "raised"
  <2>1. CASE HandleInput
    <3>1. loop' = "input"
      BY <1>1, <2>1 DEF HandleInput
    <3>2. \/ input[1].kind = "process" /\ HandleProcess(r)
          \/ running' = Without(running, r)
      BY <1>s, <2>1 DEF HandleInput
    <3>3. input[1].kind = "process" => input[1] = Begin(r)
      <4>1. Abort(r).kind # "process"
        BY DEF Abort
      <4> HIDE DEF r
      <4> QED
        BY <1>r, <4>1
    <3>4. HandleProcess(r) =>
             \/ running' = [x \in DOMAIN running \cup {r} |-> IF x = r THEN 0 ELSE running[x]]
             \/ running' = Without(running, r)
      BY DEF HandleProcess
    <3> HIDE DEF r
    <3> QED
      BY <3>1, <3>2, <3>3, <3>4
  <2> QED
    BY <2>1 DEF HandleInputRaises
<1>3. \A x \in Requests : Sent(x)' = Sent(x)
                          /\ \A i \in Sent(x) : output'[i].toks[x] = output[i].toks[x]
  <2>1. CASE output' = output
    BY <2>1 DEF Sent
  <2>2. CASE HandleInput /\ HandleProcess(r)
    <3> SUFFICES ASSUME NEW x \in Requests
                 PROVE  Sent(x)' = Sent(x)
                        /\ \A i \in Sent(x) : output'[i].toks[x] = output[i].toks[x]
      OBVIOUS
    <3> DEFINE m == RPCError({r}, TRUE)
               k == RPCError({r}, engine_errored)
    <3>1. engine_errored \in BOOLEAN /\ {r} \in SUBSET Requests
      BY <1>r, Types DEF TypeInv
    <3>e. ASSUME NEW b \in BOOLEAN
          PROVE  RPCError({r}, b) \in Messages /\ DOMAIN RPCError({r}, b).toks = {}
      <4>1. {r} \in SUBSET Requests
        BY <3>1
      <4> QED
        BY <4>1, ErrorMessage, ZenonT(60)
    <3>2. m \in Messages /\ DOMAIN m.toks = {}
      BY <3>e
    <3>3. k \in Messages /\ DOMAIN k.toks = {}
      <4>1. engine_errored \in BOOLEAN
        BY <3>1
      <4> QED
        BY <3>e, <4>1, Zenon
    <3>4. \/ output' = output \/ output' = Append(output, m) \/ output' = Append(output, k)
          \/ output' = Append(Append(output, m), k)
      BY <2>2 DEF HandleProcess
    <3> HIDE DEF m, k
    <3>5. output \in Seq(Messages)
      BY DEF TypeInv, ChannelInv
    <3>6. /\ \A i \in DOMAIN output : i \in DOMAIN output' /\ output'[i] = output[i]
          /\ \A i \in DOMAIN output' : i \in DOMAIN output \/ DOMAIN output'[i].toks = {}
      <4>1. CASE output' = output
        BY <4>1
      <4>2. ASSUME NEW e \in {m, k}, output' = Append(output, e)
            PROVE  /\ \A i \in DOMAIN output : i \in DOMAIN output' /\ output'[i] = output[i]
                   /\ \A i \in DOMAIN output' : i \in DOMAIN output \/ DOMAIN output'[i].toks = {}
        BY <3>2, <3>3, <3>5, <4>2, Extended
      <4>3. CASE output' = Append(Append(output, m), k)
        <5> DEFINE o == Append(output, m)
        <5>1. /\ o \in Seq(Messages) /\ Len(output) \in Nat /\ DOMAIN output = 1 .. Len(output)
              /\ Len(o) = Len(output) + 1 /\ DOMAIN o = 1 .. Len(output) + 1
              /\ \A i \in 1 .. Len(output) : o[i] = output[i]
              /\ o[Len(output) + 1] = m
          BY <3>2, <3>5, Extended
        <5> HIDE DEF o
        <5>2. output' = Append(o, k)
          BY <4>3 DEF o
        <5>3. /\ DOMAIN output' = 1 .. Len(o) + 1
              /\ \A i \in 1 .. Len(o) : output'[i] = o[i]
              /\ output'[Len(o) + 1] = k
          BY <3>3, <5>1, <5>2, Extended
        <5>4. ASSUME NEW i \in DOMAIN output'
              PROVE  i \in DOMAIN output \/ DOMAIN output'[i].toks = {}
          <6>1. i \in 1 .. Len(output) \/ i = Len(output) + 1 \/ i = Len(output) + 2
            BY <5>1, <5>3
          <6> QED
            BY <3>2, <3>3, <5>1, <5>3, <6>1
        <5> QED
          BY <5>1, <5>3, <5>4
      <4> QED
        BY <3>4, <4>1, <4>2, <4>3
    <3> QED
      BY <3>6 DEF Sent
  <2> QED
    BY <1>s, <2>1, <2>2 DEF HandleInput, HandleInputRaises
<1> HIDE DEF r
<1>4. \A x \in Requests : Known(x)' = Known(x)
  BY <1>1 DEF Known
<1>5. \A x \in Requests : Unread(x)' = Unread(x) /\ (Whole(x) => Whole(x)')
  BY <1>1, <1>3, <1>4, SameStream
<1>6. \A x \in DOMAIN running' : /\ x \in DOMAIN running \/ (x = r /\ input[1] = Begin(r))
                                 /\ x # r => x \in DOMAIN running /\ running'[x] = running[x]
                                 /\ x = r => \/ running'[x] = 0 /\ input[1] = Begin(r)
                                             \/ running' = running /\ loop' = "raised"
  BY <1>2 DEF Without
<1>7. FreshInv'
  <2>1. \A x \in Requests : req[x] \in {"new", "guided"} => x # r
    BY <1>s DEF TrackInv, FreshInv, r
  <2> QED
    BY <1>1, <1>s, <1>3, <1>6, <2>1 DEF TrackInv, FreshInv
<1>8. ProcessInv'
  BY <1>1, <1>5, <1>6, ProcessShifts DEF TrackInv
<1>9. input[1] = Begin(r) => SendsOnce(1, r)
  BY <1>s, <1>r DEF TrackInv, ProcessInv
<1>10. RunInv'
  <2>1. ASSUME NEW x \in DOMAIN running', req[x] = "waiting"
        PROVE  /\ \A m \in Unread(x) : m <= running'[x]
               /\ running'[x] = got[x] \/ running'[x] \in Unread(x)
    <3>1. CASE x \in DOMAIN running /\ running'[x] = running[x]
      BY <2>1, <3>1 DEF TrackInv, RunInv
    <3>2. CASE x = r /\ running'[x] = 0 /\ input[1] = Begin(r)
      BY <1>9, <2>1, <3>2 DEF SendsOnce
    <3> QED
      BY <1>6, <3>1, <3>2
  <2>2. DOMAIN running' \subseteq Requests
    BY <1>r, <1>t, <1>6
  <2> QED
    BY <1>1, <1>5, <2>1, <2>2 DEF RunInv
<1>11. StreamIsWhole'
  <2>1. \A x \in Requests : req'[x] = "waiting" => Whole(x)'
    BY <1>1, <1>5, WholeStreams DEF Registered, TrackInv
  <2> QED
    BY <2>1 DEF StreamIsWhole, Whole, Registered
<1>12. NoWorkForNobody'
  <2> SUFFICES ASSUME ~errored, loop' # "raised", NEW x \in DOMAIN running', req[x] # "waiting"
               PROVE  \E i \in DOMAIN input' : input'[i] = Abort(x)
    BY <1>1 DEF NoWorkForNobody, Abort
  <2>1. CASE x # r
    <3>1. PICK i \in DOMAIN input : input[i] = Abort(x)
      BY <1>1, <1>6, <2>1 DEF TrackInv, NoWorkForNobody, Abort
    <3>2. i # 1
      BY <1>r, <1>t, <1>6, <2>1, <3>1 DEF Begin, Abort
    <3> QED
      BY <1>s, <3>1, <3>2
  <2>2. CASE x = r
    <3>1. input[1] = Begin(r)
      BY <1>6, <2>2
    <3>2. PICK i \in DOMAIN input : 1 < i /\ input[i] = Abort(r)
      BY <1>9, <2>2, <3>1 DEF SendsOnce
    <3> QED
      BY <1>s, <2>2, <3>2
  <2> QED
    BY <2>1, <2>2
<1> QED
  BY <1>7, <1>8, <1>10, <1>11, <1>12 DEF TrackInv

(* A stream gets the next output of a request that runs. *)
LEMMA StreamGrows ==
    ASSUME TypeInv, NEW r \in Requests, Whole(r), UNCHANGED <<output_queues, got>>,
           NEW n \in Nat, NEW made \in Nat,
           Sent(r)' = Sent(r) \cup {n + 1},
           \A i \in Sent(r) : i \in 1 .. n /\ output'[i].toks[r] = output[i].toks[r],
           output'[n + 1].toks[r] = made + 1,
           \A m \in Unread(r) : m <= made,
           made = got[r] \/ made \in Unread(r)
    PROVE  Whole(r)' /\ Unread(r)' = Unread(r) \cup {made + 1}
<1>t. /\ Known(r) \subseteq Nat /\ Sent(r) \subseteq Nat /\ got[r] \in Nat
      /\ \A i \in Known(r) : output_queues[r][i].n \in Nat
      /\ \A i \in Sent(r) : output[i].toks[r] \in Nat
      /\ Unread(r) \subseteq Nat
  BY StreamTypes
<1>1. Known(r)' = Known(r)
  BY DEF Known
<1>2. Unread(r)' = Unread(r) \cup {made + 1}
  <2>1. ASSUME NEW x PROVE x \in Unread(r)' <=> x \in Unread(r) \cup {made + 1}
    <3>1. x \in Unread(r)' <=> \/ \E i \in Known(r)' : x = output_queues'[r][i].n
                               \/ \E i \in Sent(r)' : x = output'[i].toks[r]
      BY DEF Unread
    <3>2. (\E i \in Sent(r)' : x = output'[i].toks[r])
             <=> ((\E i \in Sent(r) : x = output[i].toks[r]) \/ x = made + 1)
      OBVIOUS
    <3> QED
      BY <1>1, <3>1, <3>2, UnreadIs
  <2> QED
    BY <2>1
<1>w. /\ \A i, j \in Known(r) : i < j => output_queues[r][i].n < output_queues[r][j].n
      /\ \A i, j \in Sent(r) : i < j => output[i].toks[r] < output[j].toks[r]
      /\ \A i \in Known(r), j \in Sent(r) : output_queues[r][i].n < output[j].toks[r]
      /\ \A m \in Unread(r) : got[r] < m /\ (got[r] + 1) .. m \subseteq Unread(r)
  BY DEF Whole
<1>u. /\ \A i \in Known(r) : output_queues[r][i].n <= made
      /\ \A i \in Sent(r) : output[i].toks[r] <= made
  BY UnreadIs
<1>3. \A i, j \in Sent(r)' : i < j => output'[i].toks[r] < output'[j].toks[r]
  BY <1>t, <1>w, <1>u
<1>4. \A i \in Known(r), j \in Sent(r)' : output_queues[r][i].n < output'[j].toks[r]
  BY <1>t, <1>w, <1>u
<1>5. got[r] < made + 1 /\ (got[r] + 1) .. (made + 1) \subseteq Unread(r) \cup {made + 1}
  <2>1. CASE made = got[r]
    BY <1>t, <2>1
  <2>2. CASE made \in Unread(r)
    <3>1. got[r] < made /\ (got[r] + 1) .. made \subseteq Unread(r)
      BY <1>w, <2>2
    <3> QED
      BY <1>t, <3>1
  <2> QED
    BY <2>1, <2>2
<1>6. \A m \in Unread(r)' : got[r] < m /\ (got[r] + 1) .. m \subseteq Unread(r)'
  BY <1>2, <1>5, <1>w
<1> QED
  BY <1>1, <1>2, <1>w, <1>3, <1>4, <1>6 DEF Whole

(* Every request the engine holds gets one more output. *)
LEMMA TrackStep ==
    ASSUME TypeInv, TrackInv, EngineStep
    PROVE  TrackInv'
<1> DEFINE made == [r \in DOMAIN running |-> running[r] + 1]
           n == Len(output)
<1>t. /\ DOMAIN running \subseteq Requests
      /\ \A r \in DOMAIN running : running[r] \in Nat
      /\ output \in Seq(Messages) /\ input \in Seq(Inputs)
  <2>1. /\ DOMAIN running \subseteq Requests
        /\ \A r \in DOMAIN running : running[r] \in 0 .. (NumOutputs - 1)
    BY Types DEF TypeInv
  <2> QED
    BY <2>1, Types DEF TypeInv, ChannelInv
<1>1. /\ UNCHANGED <<req, output_queues, got, errored, input>>
      /\ loop' = "poll" /\ loop = "step"
      /\ running' = [r \in {x \in DOMAIN running : made[x] < NumOutputs} |-> made[r]]
      /\ output' = IF running = <<>> THEN output ELSE Append(output, Outputs(made))
  BY DEF EngineStep, client
<1>2. \A r \in DOMAIN running' : r \in DOMAIN running /\ running'[r] = running[r] + 1
  BY <1>1
<1>3. \A r \in Requests : Known(r)' = Known(r)
  BY <1>1 DEF Known
<1>4. /\ n \in Nat /\ DOMAIN output = 1 .. n
      /\ \A i \in 1 .. n : i \in DOMAIN output' /\ output'[i] = output[i]
      /\ \A i \in DOMAIN output' : i \in 1 .. n \/ i = n + 1
      /\ DOMAIN running # {} => n + 1 \in DOMAIN output'
      /\ n + 1 \in DOMAIN output' => /\ DOMAIN output'[n + 1].toks = DOMAIN running
                                     /\ \A r \in DOMAIN running :
                                           output'[n + 1].toks[r] = running[r] + 1
  <2>1. n \in Nat /\ DOMAIN output = 1 .. n /\ n + 1 \notin 1 .. n
    BY <1>t
  <2>2. CASE running = <<>>
    <3>1. output' = output /\ DOMAIN running = {}
      BY <1>1, <2>2
    <3> QED
      BY <2>1, <3>1
  <2>3. CASE running # <<>>
    <3>1. made \in [DOMAIN running -> 0 .. NumOutputs]
      BY Types DEF TypeInv
    <3>2. Outputs(made) \in Messages /\ Outputs(made).toks = made
      BY <1>t, <3>1, OutputMessage
    <3>3. /\ DOMAIN output' = 1 .. n + 1
          /\ \A i \in 1 .. n : output'[i] = output[i]
          /\ output'[n + 1] = Outputs(made)
      BY <1>t, <1>1, <2>3, <3>2, Extended
    <3>4. DOMAIN made = DOMAIN running /\ \A r \in DOMAIN running : made[r] = running[r] + 1
      OBVIOUS
    <3> HIDE DEF made, n
    <3>5. output'[n + 1].toks = made
      BY <3>2, <3>3
    <3> QED
      BY <2>1, <3>3, <3>4, <3>5
  <2> QED
    BY <2>2, <2>3
<1> HIDE DEF made, n
<1>5. ASSUME NEW r \in Requests, r \notin DOMAIN running
      PROVE  Sent(r)' = Sent(r) /\ Unread(r)' = Unread(r) /\ (Whole(r) => Whole(r)')
  <2>1. Sent(r)' = Sent(r) /\ \A i \in Sent(r) : output'[i].toks[r] = output[i].toks[r]
    BY <1>4, <1>5 DEF Sent
  <2> QED
    BY <1>1, <1>3, <2>1, SameStream
<1>6. ASSUME NEW r \in DOMAIN running, req[r] = "waiting"
      PROVE  Whole(r)' /\ Unread(r)' = Unread(r) \cup {running[r] + 1}
  <2>1. r \in Requests /\ running[r] \in Nat
    BY <1>t
  <2>2. /\ \A m \in Unread(r) : m <= running[r]
        /\ running[r] = got[r] \/ running[r] \in Unread(r)
    BY <1>6 DEF TrackInv, RunInv
  <2>3. Whole(r)
    BY <1>6, <2>1, WholeStreams DEF TrackInv, Registered
  <2>4. Sent(r)' = Sent(r) \cup {n + 1}
    BY <1>4 DEF Sent
  <2>5. /\ \A i \in Sent(r) : i \in 1 .. n /\ output'[i].toks[r] = output[i].toks[r]
        /\ output'[n + 1].toks[r] = running[r] + 1
    BY <1>4 DEF Sent
  <2> QED
    BY <1>1, <1>4, <2>1, <2>2, <2>3, <2>4, <2>5, StreamGrows
<1>7. FreshInv'
  <2>1. \A r \in Requests : req[r] \in {"new", "guided"} => r \notin DOMAIN running /\ Sent(r) = {}
    BY DEF TrackInv, FreshInv
  <2>2. \A r \in Requests : req[r] \in {"new", "guided"} => r \notin DOMAIN running' /\ Sent(r)' = {}
    BY <1>2, <1>5, <2>1
  <2> QED
    BY <1>1, <2>2 DEF TrackInv, FreshInv
<1>8. ProcessInv'
  <2> SUFFICES ASSUME NEW r \in Requests, NEW i \in DOMAIN input, input[i] = Begin(r)
               PROVE  SendsOnce(i, r)'
    BY <1>1 DEF ProcessInv, Begin
  <2>1. SendsOnce(i, r)
    BY DEF TrackInv, ProcessInv
  <2>2. r \notin DOMAIN running /\ r \notin DOMAIN running'
    BY <1>2, <2>1 DEF SendsOnce
  <2>3. Unread(r)' = Unread(r)
    BY <1>5, <2>2
  <2> QED
    BY <1>1, <2>1, <2>2, <2>3 DEF SendsOnce, Begin, Abort
<1>9. RunInv'
  <2>1. ASSUME NEW r \in DOMAIN running', req[r] = "waiting"
        PROVE  /\ \A m \in Unread(r)' : m <= running'[r]
               /\ running'[r] \in Unread(r)'
    <3>1. /\ r \in DOMAIN running /\ running'[r] = running[r] + 1 /\ running[r] \in Nat
          /\ Unread(r)' = Unread(r) \cup {running[r] + 1}
          /\ \A m \in Unread(r) : m <= running[r]
      BY <1>2, <1>6, <1>t, <2>1 DEF TrackInv, RunInv
    <3>2. Unread(r) \subseteq Nat
      BY <1>t, <3>1, StreamTypes
    <3> QED
      BY <3>1, <3>2
  <2> QED
    BY <1>1, <2>1 DEF RunInv
<1>10. StreamIsWhole'
  <2>1. \A r \in Requests : req[r] = "waiting" => Whole(r)'
    <3> SUFFICES ASSUME NEW r \in Requests, req[r] = "waiting" PROVE Whole(r)'
      OBVIOUS
    <3>1. Whole(r)
      BY WholeStreams DEF TrackInv, Registered
    <3> QED
      BY <1>5, <1>6, <3>1
  <2> QED
    BY <1>1, <2>1 DEF StreamIsWhole, Whole, Registered
<1>11. NoWorkForNobody'
  BY <1>1, <1>2 DEF TrackInv, NoWorkForNobody
<1> QED
  BY <1>7, <1>8, <1>9, <1>10, <1>11 DEF TrackInv

(* What is left of a stream when the end of the channel is lost. *)
LEMMA StreamIsCut ==
    ASSUME TypeInv, NEW r \in Requests, UNCHANGED <<output_queues, got>>, NEW k \in Nat,
           Sent(r)' = {i \in Sent(r) : i <= k},
           \A i \in Sent(r)' : output'[i].toks[r] = output[i].toks[r]
    PROVE  Unread(r)' \subseteq Unread(r) /\ (Whole(r) => Whole(r)')
<1>t. /\ Known(r) \subseteq Nat /\ Sent(r) \subseteq Nat /\ got[r] \in Nat
      /\ \A i \in Known(r) : output_queues[r][i].n \in Nat
      /\ \A i \in Sent(r) : output[i].toks[r] \in Nat
      /\ Unread(r) \subseteq Nat
  BY StreamTypes
<1>1. Known(r)' = Known(r)
  BY DEF Known
<1>2. \A x : x \in Unread(r)' <=> \/ \E i \in Known(r) : x = output_queues[r][i].n
                                  \/ \E i \in Sent(r) : i <= k /\ x = output[i].toks[r]
  <2> TAKE x
  <2>1. x \in Unread(r)' <=> \/ \E i \in Known(r)' : x = output_queues'[r][i].n
                             \/ \E i \in Sent(r)' : x = output'[i].toks[r]
    BY DEF Unread
  <2> QED
    BY <1>1, <2>1
<1>3. Unread(r)' \subseteq Unread(r)
  BY <1>2, UnreadIs
<1>4. ASSUME Whole(r) PROVE Whole(r)'
  <2>w. /\ \A i, j \in Known(r) : i < j => output_queues[r][i].n < output_queues[r][j].n
        /\ \A i, j \in Sent(r) : i < j => output[i].toks[r] < output[j].toks[r]
        /\ \A i \in Known(r), j \in Sent(r) : output_queues[r][i].n < output[j].toks[r]
        /\ \A m \in Unread(r) : got[r] < m /\ (got[r] + 1) .. m \subseteq Unread(r)
    BY <1>4 DEF Whole
  <2>1. ASSUME NEW n \in Unread(r)', NEW m \in (got[r] + 1) .. n PROVE m \in Unread(r)'
    <3>1. m \in Unread(r) /\ n \in Nat /\ m \in Nat /\ m <= n
      BY <1>3, <1>t, <2>w
    <3>2. CASE \E i \in Known(r) : m = output_queues[r][i].n
      BY <1>2, <3>2
    <3>3. ASSUME NEW j \in Sent(r), m = output[j].toks[r] PROVE j <= k
      <4>1. CASE \E i \in Known(r) : n = output_queues[r][i].n
        BY <1>t, <2>w, <3>1, <3>3, <4>1
      <4>2. ASSUME NEW i \in Sent(r), i <= k, n = output[i].toks[r] PROVE j <= k
        <5>1. ~(i < j)
          BY <1>t, <2>w, <3>1, <3>3, <4>2
        <5> QED
          BY <1>t, <4>2, <5>1
      <4> QED
        BY <1>2, <4>1, <4>2
    <3> QED
      BY <1>2, <3>1, <3>2, <3>3, UnreadIs
  <2>2. \A n \in Unread(r)' : got[r] < n /\ (got[r] + 1) .. n \subseteq Unread(r)'
    BY <1>3, <2>1, <2>w
  <2>3. \A i, j \in Sent(r)' : i < j => output'[i].toks[r] < output'[j].toks[r]
    BY <2>w
  <2>4. \A i \in Known(r), j \in Sent(r)' : output_queues[r][i].n < output'[j].toks[r]
    BY <2>w
  <2> QED
    BY <1>1, <2>w, <2>2, <2>3, <2>4 DEF Whole
<1> QED
  BY <1>3, <1>4

(* The engine dies, and what it had not flushed with it. *)
LEMMA TrackVanish ==
    ASSUME TypeInv, TrackInv, Vanish
    PROVE  TrackInv'
<1>1. /\ UNCHANGED <<req, output_queues, got, errored, input>>
      /\ loop' = "dead" /\ DOMAIN running' = {}
  BY DEF Vanish, client
<1>2. PICK k \in 0 .. Len(output) : output' = SubSeq(output, 1, k)
  BY DEF Vanish
<1>3. output \in Seq(Messages)
  BY DEF TypeInv, ChannelInv
<1>4. /\ Len(output) \in Nat /\ DOMAIN output = 1 .. Len(output)
      /\ DOMAIN output' = 1 .. k /\ \A i \in 1 .. k : output'[i] = output[i]
  BY <1>2, <1>3, Flushed
<1>5. \A r \in Requests : /\ Sent(r)' = {i \in Sent(r) : i <= k}
                          /\ \A i \in Sent(r)' : output'[i].toks[r] = output[i].toks[r]
  BY <1>4 DEF Sent
<1>6. \A r \in Requests : Unread(r)' \subseteq Unread(r) /\ (Whole(r) => Whole(r)')
  <2>1. k \in Nat
    BY <1>4
  <2> QED
    BY <1>1, <1>5, <2>1, StreamIsCut
<1>7. FreshInv'
  BY <1>1, <1>5 DEF TrackInv, FreshInv
<1>8. ProcessInv'
  <2> SUFFICES ASSUME NEW r \in Requests, NEW i \in DOMAIN input, input[i] = Begin(r)
               PROVE  SendsOnce(i, r)'
    BY <1>1 DEF ProcessInv, Begin
  <2>1. SendsOnce(i, r)
    BY DEF TrackInv, ProcessInv
  <2>2. req[r] = "waiting" => got[r] = 0 /\ Unread(r)' = {}
    BY <1>6, <2>1 DEF SendsOnce
  <2> QED
    BY <1>1, <2>1, <2>2 DEF SendsOnce, Begin, Abort
<1>9. RunInv'
  BY <1>1 DEF RunInv
<1>10. StreamIsWhole'
  <2>1. \A r \in Requests : req[r] = "waiting" => Whole(r)'
    BY <1>6, WholeStreams DEF TrackInv, Registered
  <2> QED
    BY <1>1, <2>1 DEF StreamIsWhole, Whole, Registered
<1>11. NoWorkForNobody'
  BY <1>1 DEF NoWorkForNobody
<1> QED
  BY <1>7, <1>8, <1>9, <1>10, <1>11 DEF TrackInv

(* What a caller does. *)
LEMMA TrackCalls ==
    ASSUME TypeInv, TrackInv, NEW r \in Requests,
           Generate(r) \/ GuideBuilt(r) \/ QueueGet(r) \/ Cancel(r)
    PROVE  TrackInv'
<1>1. CASE Generate(r)
  <2>1. /\ req[r] = "new"
        /\ UNCHANGED <<output_queues, got, errored, output, running, loop>>
    BY <1>1 DEF Generate, engine
  <2>2. CASE req' = [req EXCEPT ![r] = "failed"] /\ UNCHANGED input
    BY <2>1, <2>2, TrackBegins
  <2>3. CASE r \in Guided /\ req' = [req EXCEPT ![r] = "guided"] /\ UNCHANGED input
    BY <2>1, <2>3, TrackBegins
  <2>4. CASE Send(r)
    BY <2>1, <2>4, TrackSends
  <2> QED
    BY <1>1, <2>2, <2>3, <2>4 DEF Generate
<1>2. CASE GuideBuilt(r)
  <2>1. /\ req[r] = "guided" /\ Send(r)
        /\ UNCHANGED <<output_queues, got, errored, output, running, loop>>
    BY <1>2 DEF GuideBuilt, engine
  <2> QED
    BY <2>1, TrackSends
<1>3. CASE Cancel(r)
  <2>1. UNCHANGED <<got, errored, output, running, loop>>
    BY <1>3 DEF Cancel, engine
  <2>2. CASE /\ req[r] = "guided" /\ req' = [req EXCEPT ![r] = "cancelled"]
             /\ UNCHANGED <<output_queues, input>>
    BY <2>1, <2>2, TrackBegins
  <2>3. CASE req[r] = "waiting" /\ Leave(r, "cancelled")
    BY <2>1, <2>3, TrackLeaves
  <2> QED
    BY <1>3, <2>2, <2>3 DEF Cancel
<1> QED
  BY <1>1, <1>2, <1>3, TrackGets

(* Every step keeps the streams and the work. *)
LEMMA TrackNext ==
    ASSUME TypeInv, TrackInv, [Next]_vars
    PROVE  TrackInv'
<1>1. CASE UNCHANGED vars
  <2>1. /\ UNCHANGED <<req, output_queues, got, errored, input, output, running, loop>>
        /\ TypeOK
    BY <1>1 DEF vars, client, engine, TypeInv
  <2>2. \A r \in Requests : Known(r)' = Known(r) /\ Sent(r)' = Sent(r)
    BY <2>1 DEF Known, Sent
  <2> QED
    BY <2>1, <2>2, TrackStutter
<1>2. CASE ClientNext
  BY <1>2, TrackCalls, TrackArrives, TrackTimeout, TrackQuiet DEF ClientNext
<1>3. CASE EngineNext
  BY <1>3, TrackQuiet, TrackInput, TrackStep, TrackVanish
     DEF EngineNext, MainLoop, Cleanup, Killed
<1> QED
  BY <1>1, <1>2, <1>3 DEF Next

-----------------------------------------------------------------------------
(* The theorems *)

(* At the start nobody has called. *)
LEMMA RpcStarts ==
    ASSUME Init
    PROVE  TypeInv /\ TrackInv /\ FaultInv
<1>1. /\ \A r \in Requests : req[r] = "new" /\ output_queues[r] = <<>> /\ got[r] = 0
      /\ input = <<>> /\ output = <<>> /\ heartbeat = <<>> /\ running = <<>>
      /\ DOMAIN input = {} /\ DOMAIN output = {} /\ DOMAIN running = {}
      /\ loop = "poll" /\ output_loop = TRUE
  BY DEF Init
<1>2. TypeInv
  <2>1. /\ req \in [Requests -> {"new", "guided", "waiting", "done", "failed", "cancelled"}]
        /\ output_queues \in [Requests -> Seq(Items)]
        /\ got \in [Requests -> 0 .. NumOutputs]
    BY DEF Init
  <2>2. {errored, output_loop, health_loop, engine_errored} \subseteq BOOLEAN
    BY DEF Init
  <2>3. heartbeat \in Seq(BOOLEAN) /\ Len(heartbeat) = 0 /\ MaxBeats \in Nat
    BY <1>1
  <2>4. /\ input \in Seq([kind : {"process", "abort"}, id : Requests])
        /\ output \in Seq(Messages)
    BY <1>1
  <2>5. rejected \subseteq Requests
    BY DEF Init
  <2>6. TypeOK
    BY <1>1, <2>1, <2>2, <2>3, <2>4, <2>5 DEF TypeOK
  <2>7. ChannelInv
    BY <1>1, <2>3, <2>4 DEF ChannelInv
  <2> QED
    BY <2>6, <2>7 DEF TypeInv
<1>3. TrackInv
  <2>1. FreshInv
    BY <1>1 DEF FreshInv, Sent
  <2> QED
    BY <1>1, <2>1 DEF TrackInv, ProcessInv, RunInv, StreamIsWhole, NoWorkForNobody, Registered
<1>4. FaultInv
  BY <1>1 DEF FaultInv, ErrorInv, FailuresAreOwn, NobodyIsLeftBehind
<1> QED
  BY <1>2, <1>3, <1>4

(* RpcInv always holds: with any requests, guided or not, any number of    *)
(* outputs and heartbeats, and whatever dies, hangs, raises, is refused,   *)
(* lost or late, client and engine stay in step (client.py, engine.py).    *)
THEOREM RpcInvariance == Spec => []RpcInv
<1> DEFINE Inv == TypeInv /\ TrackInv /\ FaultInv
<1>1. Init => Inv
  BY RpcStarts
<1>2. Inv /\ [Next]_vars => Inv'
  <2> SUFFICES ASSUME Inv, [Next]_vars PROVE Inv'
    OBVIOUS
  <2>1. FreshInv
    BY DEF TrackInv
  <2> QED
    BY <2>1, TypeStep, TrackNext, FaultStep
<1>3. Inv => RpcInv
  BY DEF TypeInv, TrackInv, FaultInv, RpcInv
<1> QED
  BY <1>1, <1>2, <1>3, PTL DEF Spec

(* Client and engine agree on who waits for what: no request is worked on  *)
(* for nobody, streams have no gap, failures have a cause, and nobody is   *)
(* left waiting behind the output loop (client.py, engine.py).             *)
THEOREM RequestsStayTracked == Spec => []RequestsAreTracked
<1>1. RpcInv => RequestsAreTracked
  BY DEF RpcInv, RequestsAreTracked
<1> QED
  BY <1>1, RpcInvariance, PTL
=============================================================================
