--------------------------- MODULE ContainerProofs ---------------------------
(***************************************************************************)
(* Proofs about the parts of the container that MCContainer checks on a    *)
(* small instance: the server's tasks and processes (ServerLifecycle), the *)
(* files of slurm and the jobs that fit them (SlurmJobs), the uploads that *)
(* meet in the temp directory (Upload), the registration of trained models *)
(* with vLLM (ModelRegistry) and the engine that runs in the server's own  *)
(* process (AsyncEngine).  They share no variable; each has an inductive   *)
(* invariant of its own.                                                   *)
(***************************************************************************)
EXTENDS ServerLifecycle, SlurmJobs, Upload, ModelRegistry, AsyncEngine, SequenceTheorems,
        FiniteSetTheorems, TLAPS

-----------------------------------------------------------------------------
(* The server's tasks and processes *)

(* What the end of the server rests on: the engine process exists before   *)
(* the client is built and a request is sent only by a client; the vLLM    *)
(* task of a server that has built its client comes to its end through the *)
(* join, or with the whole container, and the main coroutine after it.     *)
ReapInv ==
    /\ vllm = "create" => ~built /\ ~pending /\ inbox = <<>>
    /\ vllm = "none" => ~built
    /\ vllm = "done" /\ built => engine = "exited"
    /\ main = "exited" => vllm \in {"none", "done"}

ServerInv == ServerTypeOK /\ ReapInv

(* The requests in the ROUTER after the socket of the last one is closed.  *)
LEMMA StaleInbox ==
    ASSUME ServerTypeOK
    PROVE  /\ [i \in DOMAIN inbox |-> "stale"] \in Seq({"live", "stale"})
           /\ Len([i \in DOMAIN inbox |-> "stale"]) <= MaxInbox
           /\ \A i \in DOMAIN [j \in DOMAIN inbox |-> "stale"] :
                 [j \in DOMAIN inbox |-> "stale"][i] # "live"
<1> DEFINE t == [j \in DOMAIN inbox |-> "stale"]
<1>1. inbox \in Seq({"live", "stale"}) /\ Len(inbox) <= MaxInbox
  BY DEF ServerTypeOK
<1>2. DOMAIN inbox = 1 .. Len(inbox) /\ Len(inbox) \in Nat
  BY <1>1
<1>3. t \in [1 .. Len(inbox) -> {"live", "stale"}]
  BY <1>2
<1>4. t \in Seq({"live", "stale"}) /\ Len(t) = Len(inbox)
  BY <1>2, <1>3
<1>5. \A i \in DOMAIN t : t[i] = "stale"
  OBVIOUS
<1> QED
  BY <1>1, <1>4, <1>5

(* Every step of the server's tasks and processes keeps the invariant.     *)
LEMMA ServerStep == ServerInv /\ [ServerNext]_serverVars => ServerInv'
<1> SUFFICES ASSUME ServerInv, [ServerNext]_serverVars PROVE ServerInv'
  OBVIOUS
<1> USE DEF ServerInv
<1>m. MaxInbox \in Nat \ {0}
  BY MaxInboxOK
<1>t. /\ main \in {"wait", "cancelled", "exited"}
      /\ api \in {"none", "running", "done"}
      /\ vllm \in {"none", "create", "setup", "serving", "finally", "join", "done"}
      /\ engine \in {"none", "loading", "startup", "loop", "exited"}
      /\ pending \in BOOLEAN /\ errored \in BOOLEAN /\ built \in BOOLEAN
      /\ reply \in {"none", "ready", "error"}
  BY DEF ServerTypeOK
<1>b. /\ inbox \in Seq({"live", "stale"}) /\ Len(inbox) <= MaxInbox
      /\ \A i \in DOMAIN inbox : inbox[i] = "live" => i = Len(inbox) /\ ~pending
  BY DEF ServerTypeOK
<1>e. <<>> \in Seq({"live", "stale"}) /\ Len(<<>>) <= MaxInbox
      /\ \A i \in DOMAIN <<>> : <<>>[i] # "live"
  BY <1>m
<1>1. CASE EngineBinds
  BY <1>1, <1>t, <1>b DEF EngineBinds, ServerTypeOK, ReapInv
<1>2. CASE RequestArrives
  <2>1. Len(inbox) \in Nat /\ DOMAIN inbox = 1 .. Len(inbox)
    BY <1>b
  <2>2. pending /\ engine = "startup" /\ Len(inbox) < MaxInbox /\ inbox' = Append(inbox, "live")
        /\ pending' = FALSE
        /\ UNCHANGED <<main, api, vllm, engine, reply, errored, built>>
    BY <1>2 DEF RequestArrives
  <2>3. inbox' \in Seq({"live", "stale"}) /\ Len(inbox') = Len(inbox) + 1
        /\ \A i \in 1 .. Len(inbox) : inbox'[i] = inbox[i]
    BY <1>b, <2>2
  <2>4. \A i \in 1 .. Len(inbox) : inbox[i] # "live"
    BY <1>b, <2>1, <2>2
  <2>5. DOMAIN inbox' = 1 .. (Len(inbox) + 1)
    BY <2>1, <2>3
  <2>6. \A i \in DOMAIN inbox' : inbox'[i] = "live" => i = Len(inbox')
    BY <2>1, <2>3, <2>4, <2>5
  <2>7. Len(inbox') <= MaxInbox
    BY <2>1, <2>2, <2>3, <1>m
  <2>8. ServerTypeOK'
    BY <1>t, <2>2, <2>3, <2>6, <2>7 DEF ServerTypeOK
  <2> QED
    BY <2>2, <2>8, <1>t DEF ReapInv
<1>3. CASE EngineAnswers
  <2>1. ServerTypeOK'
    BY <1>3, <1>t, <1>e DEF EngineAnswers, ServerTypeOK
  <2> QED
    BY <1>3, <2>1, <1>t DEF EngineAnswers, ReapInv
<1>4. CASE EngineExits
  <2>1. ServerTypeOK'
    BY <1>4, <1>t, <1>e DEF EngineExits, ServerTypeOK
  <2> QED
    BY <1>4, <2>1, <1>t DEF EngineExits, ReapInv
<1>5. CASE ClientBuilt
  <2>1. inbox = <<>>
    BY <1>5 DEF ClientBuilt, ReapInv
  <2>2. ServerTypeOK'
    BY <1>5, <1>t, <1>e, <2>1 DEF ClientBuilt, ServerTypeOK
  <2> QED
    BY <1>5, <2>2, <1>t DEF ClientBuilt, ReapInv
<1>6. CASE ClientRaises
  BY <1>6, <1>t, <1>b DEF ClientRaises, ServerTypeOK, ReapInv
<1>7. CASE SetupAnswered
  BY <1>7, <1>t, <1>b DEF SetupAnswered, ServerTypeOK, ReapInv
<1>8. CASE SetupTimeout
  <2>1. ServerTypeOK'
    BY <1>8, <1>t, StaleInbox DEF SetupTimeout, ServerTypeOK
  <2> QED
    BY <1>8, <2>1, <1>t DEF SetupTimeout, ReapInv
<1>9. CASE EngineLost
  BY <1>9, <1>t, <1>b DEF EngineLost, ServerTypeOK, ReapInv
<1>10. CASE ServeEnds
  BY <1>10, <1>t, <1>b DEF ServeEnds, ServerTypeOK, ReapInv
<1>11. CASE Terminate
  <2>1. ServerTypeOK'
    BY <1>11, <1>t, StaleInbox DEF Terminate, ServerTypeOK
  <2> QED
    BY <1>11, <2>1, <1>t DEF Terminate, ReapInv
<1>12. CASE Join
  <2>1. ServerTypeOK'
    BY <1>12, <1>t, <1>e DEF Join, ServerTypeOK
  <2> QED
    BY <1>12, <2>1, <1>t DEF Join, ReapInv
<1>13. CASE KillContainer
  BY <1>13, <1>t, <1>b DEF KillContainer, ServerTypeOK, ReapInv
<1>14. CASE ApiEnds
  BY <1>14, <1>t, <1>b DEF ApiEnds, ServerTypeOK, ReapInv
<1>15. CASE CancelPending
  BY <1>15, <1>t, <1>b DEF CancelPending, ServerTypeOK, ReapInv
<1>16. CASE MainExits
  BY <1>16, <1>t, <1>b DEF MainExits, ServerTypeOK, ReapInv
<1>17. CASE UNCHANGED serverVars
  BY <1>17, <1>t, <1>b DEF serverVars, ServerTypeOK, ReapInv
<1> QED
  BY <1>1, <1>2, <1>3, <1>4, <1>5, <1>6, <1>7, <1>8, <1>9, <1>10, <1>11, <1>12,
     <1>13, <1>14, <1>15, <1>16, <1>17
  DEF ServerNext, EngineNext, VllmNext, MainNext

(* The server's tasks and the engine process keep ServerInv, whatever      *)
(* the number of requests that the engine's ROUTER holds unread.           *)
THEOREM ServerInvariance == ServerSpec => []ServerInv
<1>1. ASSUME ServerInit PROVE ServerInv
  <2>1. MaxInbox \in Nat /\ inbox = <<>> /\ main = "wait"
        /\ pending = FALSE /\ built = FALSE /\ errored = FALSE /\ reply = "none"
    BY <1>1, MaxInboxOK DEF ServerInit
  <2>2. inbox \in Seq({"live", "stale"}) /\ Len(inbox) <= MaxInbox
        /\ \A i \in DOMAIN inbox : inbox[i] # "live"
    BY <2>1
  <2>3. api \in {"none", "running", "done"} /\ vllm \in {"none", "create"}
        /\ engine \in {"none", "loading"}
    BY <1>1 DEF ServerInit
  <2> QED
    BY <2>1, <2>2, <2>3 DEF ServerInv, ServerTypeOK, ReapInv
<1> QED
  BY <1>1, ServerStep, PTL DEF ServerSpec

(* A server that has built its engine client never ends, and its vLLM task *)
(* never ends, without the engine process having ended: the finally clause *)
(* of build_async_engine_client_from_engine_args and the kill of the       *)
(* container are the only ways out, after answers that are late, lost or   *)
(* errors and after cancellation at any await.                             *)
THEOREM EngineIsReapedAlways == ServerSpec => []ServerIsConsistent
<1>1. ServerInv => ServerIsConsistent
  BY DEF ServerInv, ServerIsConsistent, EngineIsReaped, NoOrphanEngine, ReapInv
<1> QED
  BY <1>1, ServerInvariance, PTL

-----------------------------------------------------------------------------
(* The uploads *)

(* What an upload has written to its file so far. *)
Part(u) == [k \in 1 .. sent[u] |-> <<u, k>>]

(* Two requests that receive at one time both know of it, so that one that *)
(* was alone since it began has the file at the path to itself: its own    *)
(* chunks up to the last one received, and nothing of whoever left a file  *)
(* there before.                                                           *)
QuietInv ==
    \A u \in Uploads : ~overlapped[u] /\ upc[u] = "receiving" =>
            /\ Receiving = {u}
            /\ path # 0 /\ handle[u] = path /\ content[path] = Part(u)

FreshInv == \A u \in Uploads : upc[u] = "new" => sent[u] = 0

UploadInv == UploadTypeOK /\ FreshInv /\ QuietInv /\ QuietUploadIsKept

(* A write into a file, at its end or not, leaves a file of chunks.        *)
LEMMA WriteAtType ==
    ASSUME NEW c \in Seq(Chunks), NEW k \in 1 .. MaxChunks, NEW u \in Uploads
    PROVE  WriteAt(c, k, <<u, k>>) \in Seq(Chunks)
<1> DEFINE n == IF k > Len(c) THEN k ELSE Len(c)
<1>1. Len(c) \in Nat /\ MaxChunks \in Nat /\ k \in Nat
  BY UploadAssumption
<1>2. n \in Nat
  BY <1>1
<1>3. <<u, k>> \in Chunks /\ <<Hole, 0>> \in Chunks
  BY <1>1 DEF Chunks
<1>4. \A i \in 1 .. Len(c) : c[i] \in Chunks
  OBVIOUS
<1>5. WriteAt(c, k, <<u, k>>) \in [1 .. n -> Chunks]
  BY <1>1, <1>2, <1>3, <1>4 DEF WriteAt
<1> HIDE DEF n
<1> QED
  BY <1>2, <1>5

(* A write behind the last own chunk makes the own file one chunk longer.  *)
LEMMA WriteAtEnd ==
    ASSUME NEW u \in Uploads, NEW n \in Nat
    PROVE  WriteAt([k \in 1 .. n |-> <<u, k>>], n + 1, <<u, n + 1>>)
             = [k \in 1 .. n + 1 |-> <<u, k>>]
<1> DEFINE c == [k \in 1 .. n |-> <<u, k>>]
<1>1. c \in Seq({u} \X Nat) /\ Len(c) = n
  OBVIOUS
<1>2. (IF n + 1 > Len(c) THEN n + 1 ELSE Len(c)) = n + 1
  BY <1>1
<1>3. \A i \in 1 .. n + 1 : (IF i = n + 1 THEN <<u, n + 1>>
                              ELSE IF i <= Len(c) THEN c[i] ELSE <<Hole, 0>>) = <<u, i>>
  BY <1>1
<1> HIDE DEF c
<1>4. WriteAt(c, n + 1, <<u, n + 1>>) = [k \in 1 .. n + 1 |-> <<u, k>>]
  BY <1>2, <1>3 DEF WriteAt
<1> QED
  BY <1>4 DEF c

(* FileTarget's open: the path names an empty file.                        *)
LEMMA OpenedFile ==
    ASSUME UploadTypeOK, get_temp_filepath
    PROVE  /\ inodes' \in Nat /\ inodes <= inodes'
           /\ path' \in 1 .. inodes'
           /\ content' \in [1 .. inodes' -> Seq(Chunks)]
           /\ content'[path'] = <<>>
<1>1. inodes \in Nat /\ path \in 0 .. inodes /\ content \in [1 .. inodes -> Seq(Chunks)]
  BY DEF UploadTypeOK
<1>2. <<>> \in Seq(Chunks)
  OBVIOUS
<1>3. CASE path = 0
  <2>1. path' = inodes + 1 /\ inodes' = inodes + 1 /\ content' = Append(content, <<>>)
    BY <1>3 DEF get_temp_filepath
  <2>2. content \in Seq(Seq(Chunks)) /\ Len(content) = inodes
    BY <1>1
  <2>3. content' \in Seq(Seq(Chunks)) /\ Len(content') = inodes + 1
        /\ content'[inodes + 1] = <<>>
    BY <2>1, <2>2, <1>2
  <2>4. content' \in [1 .. inodes + 1 -> Seq(Chunks)]
    BY <2>3, <1>1
  <2> QED
    BY <1>1, <2>1, <2>3, <2>4
<1>4. CASE path # 0
  <2>1. content' = [content EXCEPT ![path] = <<>>] /\ path' = path /\ inodes' = inodes
    BY <1>4 DEF get_temp_filepath
  <2>2. path \in 1 .. inodes
    BY <1>1, <1>4
  <2>3. content' \in [1 .. inodes -> Seq(Chunks)] /\ content'[path] = <<>>
    BY <1>1, <1>2, <2>1, <2>2
  <2> QED
    BY <1>1, <2>1, <2>2, <2>3
<1> QED
  BY <1>3, <1>4

(* A request that begins finds the path alone, or all that receive know.   *)
LEMMA UploadBeginsStep ==
    ASSUME UploadInv, NEW u \in Uploads, UploadBegins(u) PROVE UploadInv'
<1>1. /\ upc[u] = "new" /\ upc' = [upc EXCEPT ![u] = "receiving"]
      /\ get_temp_filepath
      /\ handle' = [handle EXCEPT ![u] = path']
      /\ overlapped' = [v \in Uploads |-> \/ overlapped[v] \/ v \in Receiving
                                          \/ v = u /\ Receiving # {}]
      /\ sent' = sent /\ dataset' = dataset
  BY DEF UploadBegins
<1>2. UploadTypeOK /\ FreshInv /\ QuietInv /\ QuietUploadIsKept
  BY DEF UploadInv
<1>3. /\ inodes' \in Nat /\ inodes <= inodes' /\ path' \in 1 .. inodes'
      /\ content' \in [1 .. inodes' -> Seq(Chunks)] /\ content'[path'] = <<>>
  BY <1>1, <1>2, OpenedFile
<1>4. inodes \in Nat
  BY <1>2 DEF UploadTypeOK
<1>5. \A v \in Uploads : handle'[v] \in 0 .. inodes'
  BY <1>1, <1>2, <1>3, <1>4 DEF UploadTypeOK
<1>6. UploadTypeOK'
  <2>1. upc' \in [Uploads -> {"new", "receiving", "accepted", "too_large",
                              "disconnected", "error"}]
    BY <1>1, <1>2 DEF UploadTypeOK
  <2>2. handle' \in [Uploads -> 0 .. inodes']
    BY <1>1, <1>2, <1>5 DEF UploadTypeOK
  <2>3. overlapped' \in [Uploads -> BOOLEAN]
    BY <1>1, <1>2 DEF UploadTypeOK
  <2>4. path' \in 0 .. inodes'
    BY <1>3
  <2> QED
    BY <1>1, <1>2, <1>3, <2>1, <2>2, <2>3, <2>4 DEF UploadTypeOK
<1>7. DOMAIN upc = Uploads /\ DOMAIN handle = Uploads
  BY <1>2 DEF UploadTypeOK
<1>8. FreshInv'
  BY <1>1, <1>2, <1>7 DEF FreshInv
<1>9. ASSUME NEW v \in Uploads, ~overlapped'[v]
      PROVE  /\ ~overlapped[v] /\ v \notin Receiving
             /\ v = u => Receiving = {}
  BY <1>1, <1>9
<1>10. QuietInv'
  <2> SUFFICES ASSUME NEW v \in Uploads, ~overlapped'[v], upc'[v] = "receiving"
               PROVE  /\ Receiving' = {v}
                      /\ path' # 0 /\ handle'[v] = path' /\ content'[path'] = Part(v)'
    BY DEF QuietInv
  <2>1. v = u
    BY <1>1, <1>7, <1>9 DEF Receiving
  <2>2. Receiving = {}
    BY <1>9, <2>1
  <2>3. Receiving' = {v}
    BY <1>1, <1>7, <2>1, <2>2 DEF Receiving
  <2>4. sent'[v] = 0
    BY <1>1, <1>2, <2>1 DEF FreshInv
  <2>5. Part(v)' = <<>>
    BY <2>4 DEF Part
  <2> QED
    BY <1>1, <1>3, <1>4, <1>7, <2>1, <2>3, <2>4, <2>5
<1>11. QuietUploadIsKept'
  <2> SUFFICES ASSUME NEW v \in Uploads, ~overlapped'[v]
               PROVE  /\ upc'[v] # "error"
                      /\ upc'[v] = "accepted" => dataset'[v] = OwnFile(v)'
    BY DEF QuietUploadIsKept
  <2>1. upc[v] # "error" /\ (upc[v] = "accepted" => dataset[v] = OwnFile(v))
    BY <1>2, <1>9 DEF QuietUploadIsKept
  <2> QED
    BY <1>1, <1>7, <2>1 DEF OwnFile
<1> QED
  BY <1>6, <1>8, <1>10, <1>11 DEF UploadInv

(* A chunk goes where the request before it ended.                         *)
LEMMA ReceiveChunkStep ==
    ASSUME UploadInv, NEW u \in Uploads, ReceiveChunk(u) PROVE UploadInv'
<1>1. /\ upc[u] = "receiving" /\ sent[u] < SizeOf[u] /\ ~MaxBodySizeExceeded(u)
      /\ content' = [content EXCEPT ![handle[u]] =
                        WriteAt(content[handle[u]], sent[u] + 1, <<u, sent[u] + 1>>)]
      /\ sent' = [sent EXCEPT ![u] = sent[u] + 1]
      /\ UNCHANGED <<upc, handle, path, inodes, dataset, overlapped>>
  BY DEF ReceiveChunk
<1>2. UploadTypeOK /\ FreshInv /\ QuietInv /\ QuietUploadIsKept
  BY DEF UploadInv
<1>3. MaxChunks \in Nat /\ sent \in [Uploads -> 0 .. MaxChunks] /\ inodes \in Nat
      /\ content \in [1 .. inodes -> Seq(Chunks)] /\ handle[u] \in 0 .. inodes
  BY <1>2, UploadAssumption DEF UploadTypeOK
<1>4. sent[u] + 1 \in 1 .. MaxChunks
  BY <1>1, <1>3 DEF MaxBodySizeExceeded
<1>5. sent' \in [Uploads -> 0 .. MaxChunks]
  BY <1>1, <1>3, <1>4
<1>6. content' \in [1 .. inodes -> Seq(Chunks)]
  <2>1. CASE handle[u] \in 1 .. inodes
    <3>1. WriteAt(content[handle[u]], sent[u] + 1, <<u, sent[u] + 1>>) \in Seq(Chunks)
      BY <1>3, <1>4, <2>1, WriteAtType
    <3> QED
      BY <1>1, <1>3, <2>1, <3>1
  <2>2. CASE handle[u] \notin 1 .. inodes
    BY <1>1, <1>3, <2>2
  <2> QED
    BY <2>1, <2>2
<1>7. UploadTypeOK'
  BY <1>1, <1>2, <1>5, <1>6 DEF UploadTypeOK
<1>8. FreshInv'
  BY <1>1, <1>2, <1>3 DEF FreshInv
<1>9. QuietInv'
  <2> SUFFICES ASSUME NEW v \in Uploads, ~overlapped[v], upc[v] = "receiving"
               PROVE  /\ Receiving = {v}
                      /\ path # 0 /\ handle[v] = path /\ content'[path] = Part(v)'
    BY <1>1 DEF QuietInv, Receiving
  <2>1. Receiving = {v} /\ path # 0 /\ handle[v] = path /\ content[path] = Part(v)
    BY <1>2 DEF QuietInv
  <2>2. v = u
    BY <1>1, <2>1 DEF Receiving
  <2>3. path \in 1 .. inodes
    BY <1>2, <2>1 DEF UploadTypeOK
  <2>4. content'[path] = WriteAt(Part(u), sent[u] + 1, <<u, sent[u] + 1>>)
    BY <1>1, <1>3, <2>1, <2>2, <2>3
  <2>5. Part(u)' = [k \in 1 .. sent[u] + 1 |-> <<u, k>>]
    BY <1>1, <1>3 DEF Part
  <2>6. sent[u] \in Nat
    BY <1>3
  <2>7. content'[path] = Part(u)'
    BY <2>4, <2>5, <2>6, WriteAtEnd DEF Part
  <2> QED
    BY <2>1, <2>2, <2>7
<1>10. QuietUploadIsKept'
  BY <1>1, <1>2 DEF QuietUploadIsKept, OwnFile
<1> QED
  BY <1>7, <1>8, <1>9, <1>10 DEF UploadInv

(* The handler is left: the requests that are still receiving are fewer.   *)
LEMMA LeaveStep ==
    ASSUME UploadInv, NEW u \in Uploads, upc[u] = "receiving",
           NEW how \in {"too_large", "disconnected", "error"},
           how = "error" => overlapped[u],
           Leave(u, how)
    PROVE  UploadInv'
<1>1. /\ upc' = [upc EXCEPT ![u] = how]
      /\ UNCHANGED <<sent, handle, path, inodes, content, dataset, overlapped>>
  BY DEF Leave
<1>2. UploadTypeOK /\ FreshInv /\ QuietInv /\ QuietUploadIsKept
  BY DEF UploadInv
<1>3. UploadTypeOK'
  BY <1>1, <1>2 DEF UploadTypeOK
<1>4. DOMAIN upc = Uploads
  BY <1>2 DEF UploadTypeOK
<1>5. FreshInv'
  BY <1>1, <1>2, <1>4 DEF FreshInv
<1>6. QuietInv'
  <2> SUFFICES ASSUME NEW v \in Uploads, ~overlapped[v], upc'[v] = "receiving"
               PROVE  /\ Receiving' = {v}
                      /\ path # 0 /\ handle[v] = path /\ content[path] = Part(v)'
    BY <1>1 DEF QuietInv
  <2>1. v # u /\ upc[v] = "receiving"
    BY <1>1, <1>4
  <2>2. Receiving = {v}
    BY <1>2, <2>1 DEF QuietInv
  <2> QED
    BY <2>1, <2>2 DEF Receiving
<1>7. QuietUploadIsKept'
  BY <1>1, <1>2, <1>4 DEF QuietUploadIsKept, OwnFile
<1> QED
  BY <1>3, <1>5, <1>6, <1>7 DEF UploadInv

(* The file of a request that was alone is its own, once it has arrived.   *)
LEMMA ArrivedFile ==
    ASSUME UploadInv, NEW u \in Uploads, Arrived(u), ~overlapped[u]
    PROVE  path # 0 /\ content[path] = OwnFile(u)
BY DEF UploadInv, QuietInv, Arrived, Part, OwnFile

(* The request that was alone is given its own file.                       *)
LEMMA UploadEndsStep ==
    ASSUME UploadInv, NEW u \in Uploads, UploadEnds(u) PROVE UploadInv'
<1>1. /\ upc[u] = "receiving" /\ Arrived(u) /\ path # 0
      /\ dataset' = [dataset EXCEPT ![u] = content[path]]
      /\ path' = 0
      /\ upc' = [upc EXCEPT ![u] = "accepted"]
      /\ UNCHANGED <<sent, handle, inodes, content, overlapped>>
  BY DEF UploadEnds, Arrived
<1>2. UploadTypeOK /\ FreshInv /\ QuietInv /\ QuietUploadIsKept
  BY DEF UploadInv
<1>3. inodes \in Nat /\ path \in 1 .. inodes /\ content[path] \in Seq(Chunks)
  BY <1>1, <1>2 DEF UploadTypeOK
<1>4. DOMAIN upc = Uploads /\ DOMAIN dataset = Uploads
  BY <1>2 DEF UploadTypeOK
<1>5. UploadTypeOK'
  <2>1. path' \in 0 .. inodes'
    BY <1>1, <1>3
  <2>2. dataset' \in [Uploads -> Seq(Chunks)]
    BY <1>1, <1>2, <1>3 DEF UploadTypeOK
  <2>3. upc' \in [Uploads -> {"new", "receiving", "accepted", "too_large",
                              "disconnected", "error"}]
    BY <1>1, <1>2 DEF UploadTypeOK
  <2> QED
    BY <1>1, <1>2, <2>1, <2>2, <2>3 DEF UploadTypeOK
<1>6. FreshInv'
  BY <1>1, <1>2, <1>4 DEF FreshInv
<1>7. QuietInv'
  <2> SUFFICES ASSUME NEW v \in Uploads, ~overlapped[v], upc'[v] = "receiving"
               PROVE  FALSE
    BY <1>1 DEF QuietInv
  <2>1. v # u /\ upc[v] = "receiving"
    BY <1>1, <1>4
  <2>2. Receiving = {v}
    BY <1>2, <2>1 DEF QuietInv
  <2> QED
    BY <1>1, <2>1, <2>2 DEF Receiving
<1>8. QuietUploadIsKept'
  <2> SUFFICES ASSUME NEW v \in Uploads, ~overlapped[v]
               PROVE  /\ upc'[v] # "error"
                      /\ upc'[v] = "accepted" => dataset'[v] = OwnFile(v)
    BY <1>1 DEF QuietUploadIsKept, OwnFile
  <2>1. CASE v = u
    BY <1>1, <1>4, <2>1, ArrivedFile
  <2>2. CASE v # u
    BY <1>1, <1>2, <1>4, <2>2 DEF QuietUploadIsKept
  <2> QED
    BY <2>1, <2>2
<1> QED
  BY <1>5, <1>6, <1>7, <1>8 DEF UploadInv

(* Every step of the uploads keeps the invariant.                          *)
LEMMA UploadStep == UploadInv /\ [UploadNext]_uploadVars => UploadInv'
<1> SUFFICES ASSUME UploadInv, [UploadNext]_uploadVars PROVE UploadInv'
  OBVIOUS
<1>1. ASSUME NEW u \in Uploads, TooLarge(u) PROVE UploadInv'
  BY <1>1, LeaveStep DEF TooLarge
<1>2. ASSUME NEW u \in Uploads, Disconnect(u) PROVE UploadInv'
  BY <1>2, LeaveStep DEF Disconnect
<1>3. ASSUME NEW u \in Uploads, UploadRaises(u) PROVE UploadInv'
  <2>1. Arrived(u) /\ upc[u] = "receiving" /\ Leave(u, "error")
        /\ (path = 0 \/ content[path] \notin {OwnFile(v) : v \in Uploads})
    BY <1>3 DEF UploadRaises, Arrived
  <2>2. overlapped[u]
    BY <2>1, ArrivedFile
  <2> QED
    BY <2>1, <2>2, LeaveStep
<1>4. CASE UNCHANGED uploadVars
  BY <1>4 DEF uploadVars, UploadInv, UploadTypeOK, FreshInv, QuietInv, QuietUploadIsKept,
              Receiving, Part, OwnFile
<1> QED
  BY <1>1, <1>2, <1>3, <1>4, UploadBeginsStep, ReceiveChunkStep, UploadEndsStep
  DEF UploadNext

(* The uploads keep UploadInv, for any requests, of any size.              *)
THEOREM UploadInvariance == UploadSpec => []UploadInv
<1>1. ASSUME UploadInit PROVE UploadInv
  <2>1. <<>> \in Seq(Chunks) /\ content = <<>> /\ inodes = 0 /\ path = 0
        /\ upc = [u \in Uploads |-> "new"] /\ sent = [u \in Uploads |-> 0]
        /\ handle = [u \in Uploads |-> 0] /\ dataset = [u \in Uploads |-> <<>>]
        /\ overlapped = [u \in Uploads |-> FALSE]
    BY <1>1 DEF UploadInit
  <2>2. content \in [1 .. inodes -> Seq(Chunks)]
    BY <2>1
  <2>3. MaxChunks \in Nat
    BY UploadAssumption
  <2>4. UploadTypeOK
    BY <2>1, <2>2, <2>3 DEF UploadTypeOK
  <2> QED
    BY <2>1, <2>4 DEF UploadInv, FreshInv, QuietInv, QuietUploadIsKept
<1> QED
  BY <1>1, UploadStep, PTL DEF UploadSpec

(* An upload that no other overlaps is unpacked as it was sent, and never  *)
(* ends in an internal error, whatever the uploads before it left at the   *)
(* one temp path that all of them use (get_temp_filepath).                 *)
THEOREM QuietUploadsAreKept == UploadSpec => []UploadsAreKept
<1>1. UploadInv => UploadsAreKept
  BY DEF UploadInv, UploadsAreKept
<1> QED
  BY <1>1, UploadInvariance, PTL

-----------------------------------------------------------------------------
(* The registration of models *)

(* Adapters that vLLM has loaded. *)
Loaded == ToSet(completion)

(* What a tick skips is what vLLM has: while the directories are visited,  *)
(* an adapter that is loaded was listed at the begin of the tick, or the   *)
(* tick has been there; a death of vLLM only empties the lists.  The list  *)
(* of the API is what vLLM had when it was read.                           *)
RegisterInv ==
    /\ stage = "register" => Loaded \subseteq registered \cup visited
    /\ \A j \in Loaded : directory[j].ckpt

RegistryInv ==
    /\ RegistryTypeOK /\ OfferedIsServed /\ RegisteredOnce /\ OfferedHasCheckpoint
    /\ RegisterInv

(* The elements of a sequence, and of one behind a first element.         *)
LEMMA ElementsOf ==
    ASSUME NEW S, NEW s \in Seq(S), NEW x \in S
    PROVE  /\ ToSet(s) = {s[i] : i \in 1 .. Len(s)} /\ ToSet(s) \subseteq S
           /\ ToSet(<<x>> \o s) = ToSet(s) \cup {x}
<1>1. DOMAIN s = 1 .. Len(s) /\ Len(s) \in Nat
  OBVIOUS
<1>2. ToSet(s) = {s[i] : i \in 1 .. Len(s)} /\ ToSet(s) \subseteq S
  BY <1>1 DEF ToSet
<1>3. ToSet(<<x>> \o s) = ToSet(s) \cup {x}
  <2> DEFINE t == <<x>> \o s
  <2>0. <<x>> \in Seq(S) /\ Len(<<x>>) = 1 /\ <<x>>[1] = x
    OBVIOUS
  <2>1. /\ t \in Seq(S) /\ Len(t) = 1 + Len(s)
        /\ \A i \in 1 .. 1 + Len(s) : t[i] = IF i <= 1 THEN <<x>>[i] ELSE s[i - 1]
    BY <2>0, ConcatProperties
  <2> HIDE DEF t
  <2>2. DOMAIN t = 1 .. (1 + Len(s))
    BY <2>1, <1>1
  <2>3. 1 \in DOMAIN t /\ t[1] = x
    BY <1>1, <2>0, <2>1, <2>2
  <2>4. \A i \in 1 .. Len(s) : i + 1 \in DOMAIN t /\ t[i + 1] = s[i]
    BY <1>1, <2>1, <2>2
  <2>5. ASSUME NEW i \in DOMAIN t PROVE t[i] \in ToSet(s) \cup {x}
    <3>1. CASE i = 1
      BY <2>3, <3>1
    <3>2. CASE i # 1
      <4>1. i - 1 \in 1 .. Len(s) /\ t[i] = s[i - 1]
        BY <1>1, <2>1, <2>2, <3>2
      <4> QED
        BY <1>1, <4>1 DEF ToSet
    <3> QED
      BY <3>1, <3>2
  <2>6. ToSet(s) \subseteq ToSet(t)
    BY <1>1, <2>4 DEF ToSet
  <2>7. x \in ToSet(t)
    BY <2>3 DEF ToSet
  <2>8. ToSet(t) \subseteq ToSet(s) \cup {x}
    BY ONLY <2>5 DEF ToSet
  <2> QED
    BY <2>6, <2>7, <2>8 DEF t
<1> QED
  BY <1>2, <1>3

(* The elements of a sequence that is longer by one.                       *)
LEMMA OneMore ==
    ASSUME NEW S, NEW s \in Seq(S), NEW x \in S
    PROVE  ToSet(Append(s, x)) = ToSet(s) \cup {x}
<1>0. DOMAIN s = 1 .. Len(s) /\ Len(s) \in Nat
  OBVIOUS
<1> DEFINE t == Append(s, x)
<1>1. /\ t \in Seq(S) /\ Len(t) = Len(s) + 1 /\ t[Len(s) + 1] = x
      /\ \A i \in 1 .. Len(s) : t[i] = s[i]
  BY AppendProperties
<1> HIDE DEF t
<1>2. DOMAIN t = 1 .. (Len(s) + 1)
  BY <1>1, <1>0
<1>3. ASSUME NEW i \in 1 .. (Len(s) + 1) PROVE t[i] \in ToSet(s) \cup {x}
  <2>1. CASE i = Len(s) + 1
    BY <1>1, <2>1
  <2>2. CASE i # Len(s) + 1
    <3>1. i \in 1 .. Len(s)
      BY <1>0, <2>2
    <3> QED
      BY <1>0, <1>1, <3>1 DEF ToSet
  <2> QED
    BY <2>1, <2>2
<1>4. ToSet(s) \subseteq ToSet(t)
  BY <1>0, <1>1, <1>2 DEF ToSet
<1>5. Len(s) + 1 \in DOMAIN t
  BY <1>0, <1>2
<1>6. x \in ToSet(t)
  BY <1>1, <1>5 DEF ToSet
<1>7. ToSet(t) \subseteq ToSet(s) \cup {x}
  BY ONLY <1>2, <1>3 DEF ToSet
<1> QED
  BY <1>4, <1>6, <1>7 DEF t

(* The lists of vLLM, and that of the API, of the right type.              *)
LEMMA ListTypes ==
    ASSUME RegistryTypeOK
    PROVE  /\ chat \in Seq(Jobs) /\ completion \in Seq(Jobs)
           /\ models \in Seq(Jobs \cup {Base})
           /\ Loaded \subseteq Jobs
BY DEF RegistryTypeOK, ToSet, Loaded

(* What happens to the directories: a checkpoint that was there stays.     *)
LEMMA DirectoryStep ==
    ASSUME RegistryInv,
           directory' \in [Jobs -> [status: Statuses, history: BOOLEAN, ckpt: BOOLEAN]],
           \A j \in Jobs : directory[j].ckpt => directory'[j].ckpt,
           torn' \in 0 .. MaxTorn,
           UNCHANGED <<up, serving, models, stage, registered, visited, current,
                       conflict, deaths>>
    PROVE  RegistryInv'
<1>1. Loaded \subseteq Jobs
  BY ListTypes DEF RegistryInv
<1>2. Loaded' = Loaded /\ chat' = chat /\ completion' = completion
  BY DEF Loaded, serving
<1>3. RegistryTypeOK'
  BY <1>2 DEF RegistryInv, RegistryTypeOK
<1>4. OfferedIsServed' /\ RegisteredOnce'
  BY <1>2 DEF RegistryInv, OfferedIsServed, RegisteredOnce, Offered
<1>5. OfferedHasCheckpoint'
  BY <1>2 DEF RegistryInv, OfferedHasCheckpoint, Offered
<1>6. RegisterInv'
  BY <1>1, <1>2 DEF RegistryInv, RegisterInv
<1> QED
  BY <1>3, <1>4, <1>5, <1>6 DEF RegistryInv

(* A step of the tick that leaves the lists of vLLM and of the API alone.  *)
LEMMA StageStep ==
    ASSUME RegistryInv,
           stage' \in {"sleep", "models", "restart", "clear"},
           UNCHANGED <<directory, up, serving, models, registered, current, conflict, counters>>,
           visited' \in SUBSET Jobs
    PROVE  RegistryInv'
<1>1. UNCHANGED <<directory, up, chat, completion, models, registered, current,
                  conflict, deaths, torn>>
  BY DEF serving, counters
<1>2. Loaded' = Loaded
  BY <1>1 DEF Loaded
<1>3. RegistryTypeOK'
  BY <1>1 DEF RegistryInv, RegistryTypeOK
<1>4. OfferedIsServed' /\ RegisteredOnce' /\ OfferedHasCheckpoint'
  BY <1>1 DEF RegistryInv, OfferedIsServed, RegisteredOnce, OfferedHasCheckpoint, Offered
<1>5. RegisterInv'
  BY <1>1, <1>2 DEF RegistryInv, RegisterInv
<1> QED
  BY <1>3, <1>4, <1>5 DEF RegistryInv

(* vLLM goes: its lists are empty, and the API knows nothing of it.        *)
LEMMA VllmDiesStep == ASSUME RegistryInv, VllmDies PROVE RegistryInv'
<1>1. /\ deaths < MaxDeaths /\ up' = FALSE /\ chat' = <<>> /\ completion' = <<>>
      /\ current' = FALSE /\ deaths' = deaths + 1
      /\ UNCHANGED <<directory, models, stage, registered, visited, conflict, torn>>
  BY DEF VllmDies
<1>2. Loaded' = {}
  BY <1>1 DEF Loaded, ToSet
<1>3. deaths' \in 0 .. MaxDeaths
  BY <1>1, RegistryAssumption DEF RegistryInv, RegistryTypeOK
<1>4. RegistryTypeOK'
  <2>1. chat' \in Seq(Jobs) /\ completion' \in Seq(Jobs)
    BY <1>1
  <2> QED
    BY <1>1, <1>3, <2>1 DEF RegistryInv, RegistryTypeOK
<1>5. OfferedIsServed' /\ RegisteredOnce' /\ OfferedHasCheckpoint'
  BY <1>1 DEF RegistryInv, OfferedIsServed, RegisteredOnce, OfferedHasCheckpoint, Offered
<1> QED
  BY <1>1, <1>2, <1>4, <1>5 DEF RegistryInv, RegisterInv

(* vLLM comes back, with the empty lists it died with.                     *)
LEMMA VllmStartsStep == ASSUME RegistryInv, VllmStarts PROVE RegistryInv'
<1>1. up' = TRUE /\ UNCHANGED <<directory, chat, completion, models, stage, registered,
                                visited, current, conflict, deaths, torn>>
  BY DEF VllmStarts, serving, counters
<1>2. Loaded' = Loaded
  BY <1>1 DEF Loaded
<1>3. RegistryTypeOK'
  BY <1>1 DEF RegistryInv, RegistryTypeOK
<1>4. OfferedIsServed' /\ RegisteredOnce' /\ OfferedHasCheckpoint'
  BY <1>1 DEF RegistryInv, OfferedIsServed, RegisteredOnce, OfferedHasCheckpoint, Offered
<1> QED
  BY <1>1, <1>2, <1>3, <1>4 DEF RegistryInv, RegisterInv

(* The API reads the list of vLLM: what it offers is served, and nothing   *)
(* that is loaded is missing from what it has read.                        *)
LEMMA GetModelsStep == ASSUME RegistryInv, GetModels PROVE RegistryInv'
<1>1. /\ models' = <<Base>> \o completion
      /\ registered' = {Base} \cup Loaded
      /\ current' = TRUE /\ visited' = {} /\ stage' = "register"
      /\ UNCHANGED <<directory, up, chat, completion, conflict, deaths, torn>>
  BY DEF GetModels, get_registered_models, Loaded, serving, counters
<1>2. Loaded' = Loaded
  BY <1>1 DEF Loaded
<1>3. completion \in Seq(Jobs) /\ Loaded \subseteq Jobs
  BY ListTypes DEF RegistryInv
<1>4. completion \in Seq(Jobs \cup {Base})
  BY <1>3
<1>5. models' \in Seq(Jobs \cup {Base})
  BY <1>1, <1>4
<1>6. ToSet(models)' = Loaded \cup {Base}
  BY <1>1, <1>4, ElementsOf DEF Loaded
<1>7. RegistryTypeOK'
  BY <1>1, <1>3, <1>5 DEF RegistryInv, RegistryTypeOK
<1>8. \A j \in Jobs : Offered(j)' <=> j \in Loaded
  BY <1>6, RegistryAssumption DEF Offered
<1>9. chat = completion
  BY DEF RegistryInv, RegisteredOnce
<1>10. OfferedIsServed'
  BY <1>1, <1>8, <1>9 DEF OfferedIsServed, Loaded
<1>11. RegisteredOnce'
  BY <1>1 DEF RegistryInv, RegisteredOnce
<1>12. OfferedHasCheckpoint'
  BY <1>1, <1>8 DEF RegistryInv, RegisterInv, OfferedHasCheckpoint
<1>13. RegisterInv'
  BY <1>1, <1>2 DEF RegistryInv, RegisterInv
<1> QED
  BY <1>7, <1>10, <1>11, <1>12, <1>13 DEF RegistryInv

(* The loop over the directories: an adapter that is missing from what the *)
(* tick has read, and whose directory it has not been in, is not loaded,   *)
(* so that vLLM does not refuse it and both servers take it.               *)
LEMMA VisitDirectoryStep ==
    ASSUME RegistryInv, NEW j \in Jobs, VisitDirectory(j) PROVE RegistryInv'
<1>1. /\ stage = "register" /\ j \notin visited /\ visited' = visited \cup {j}
      /\ UNCHANGED <<directory, up, models, registered, current, counters>>
  BY DEF VisitDirectory
<1>2. visited' \in SUBSET Jobs
  BY <1>1 DEF RegistryInv, RegistryTypeOK
<1>3. CASE ~Missing(j)
  <2>1. UNCHANGED <<directory, up, chat, completion, models, stage, registered, current,
                    conflict, deaths, torn>>
    BY <1>1, <1>3 DEF VisitDirectory, serving, counters
  <2>2. Loaded' = Loaded
    BY <2>1 DEF Loaded
  <2>3. RegistryTypeOK'
    BY <1>2, <2>1 DEF RegistryInv, RegistryTypeOK
  <2>4. OfferedIsServed' /\ RegisteredOnce' /\ OfferedHasCheckpoint'
    BY <2>1 DEF RegistryInv, OfferedIsServed, RegisteredOnce, OfferedHasCheckpoint, Offered
  <2>5. RegisterInv'
    BY <1>1, <2>1, <2>2 DEF RegistryInv, RegisterInv
  <2> QED
    BY <2>3, <2>4, <2>5 DEF RegistryInv
<1>4. CASE Missing(j) /\ ~up
  <2>1. stage' = "sleep" /\ UNCHANGED <<serving, conflict>>
    BY <1>4 DEF VisitDirectory, AfterRaise
  <2> QED
    BY <1>1, <1>2, <2>1, StageStep
<1>5. CASE Missing(j) /\ up
  <2>1. completion \in Seq(Jobs) /\ Loaded \subseteq Jobs /\ chat = completion
        /\ Len(completion) \in Nat
    BY ListTypes DEF RegistryInv, RegisteredOnce
  <2>2. j \notin Loaded /\ directory[j].ckpt
    BY <1>1, <1>5 DEF RegistryInv, RegisterInv, Missing
  <2>3. j \notin ToSet(chat) /\ j \notin ToSet(completion) /\ ~Refused(j)
    BY <2>1, <2>2 DEF Loaded, Refused
  <2>4. /\ chat' = Append(chat, j) /\ completion' = Append(completion, j)
        /\ conflict' = conflict /\ stage' = stage
        /\ UNCHANGED <<directory, up, models, registered, current, deaths, torn>>
    <3>1. load_lora_adapter(j) /\ conflict' = (conflict \/ Refused(j)) /\ stage' = stage
      BY <1>5, <2>3 DEF VisitDirectory
    <3>2. conflict \in BOOLEAN
      BY DEF RegistryInv, RegistryTypeOK
    <3>3. conflict' = conflict
      BY <2>3, <3>1, <3>2
    <3> QED
      BY <1>1, <2>3, <3>1, <3>3 DEF load_lora_adapter, counters
  <2>5. Loaded' = Loaded \cup {j}
    <3>1. completion \in Seq(Jobs)
      BY <2>1
    <3>2. ToSet(Append(completion, j)) = ToSet(completion) \cup {j}
      BY <3>1, OneMore
    <3> QED
      BY <2>4, <3>2 DEF Loaded
  <2>6. chat' \in Seq(Jobs) /\ completion' \in Seq(Jobs)
    BY <2>1, <2>4
  <2>7. RegistryTypeOK'
    BY <1>2, <2>4, <2>6 DEF RegistryInv, RegistryTypeOK
  <2>8. OfferedIsServed'
    <3> SUFFICES ASSUME current', NEW i \in Jobs, Offered(i)'
                 PROVE  i \in ToSet(completion)' /\ i \in ToSet(chat)'
      BY DEF OfferedIsServed
    <3>1. current /\ Offered(i)
      BY <2>4 DEF Offered
    <3>2. i \in Loaded
      BY <3>1 DEF RegistryInv, OfferedIsServed, Loaded
    <3>3. i \in Loaded'
      BY <3>2, <2>5
    <3> QED
      BY <3>3, <2>1, <2>4 DEF Loaded
  <2>9. RegisteredOnce'
    <3>1. chat' = completion' /\ ~conflict'
      BY <2>1, <2>4 DEF RegistryInv, RegisteredOnce
    <3>2. /\ DOMAIN completion' = 1 .. Len(completion) + 1
          /\ completion'[Len(completion) + 1] = j
          /\ \A i \in 1 .. Len(completion) : completion'[i] = completion[i]
                                             /\ completion[i] # j
      <4>1. \A i \in 1 .. Len(completion) : completion[i] \in Loaded
        BY <2>1 DEF Loaded, ToSet
      <4> QED
        BY <2>1, <2>2, <2>4, <4>1
    <3>3. \A i, k \in 1 .. Len(completion) : completion[i] = completion[k] => i = k
      BY <2>1 DEF RegistryInv, RegisteredOnce
    <3>4. ASSUME NEW i \in 1 .. Len(completion) + 1, NEW k \in 1 .. Len(completion) + 1,
                 completion'[i] = completion'[k]
          PROVE  i = k
      <4>1. CASE i \in 1 .. Len(completion) /\ k \in 1 .. Len(completion)
        BY <3>2, <3>3, <3>4, <4>1
      <4>2. CASE i = Len(completion) + 1 \/ k = Len(completion) + 1
        BY <2>1, <3>2, <3>4, <4>2
      <4> QED
        BY <2>1, <4>1, <4>2
    <3> QED
      BY <3>1, <3>2, <3>4 DEF RegisteredOnce
  <2>10. OfferedHasCheckpoint'
    BY <2>4 DEF RegistryInv, OfferedHasCheckpoint, Offered
  <2>11. RegisterInv'
    BY <1>1, <2>2, <2>4, <2>5 DEF RegistryInv, RegisterInv
  <2> QED
    BY <2>7, <2>8, <2>9, <2>10, <2>11 DEF RegistryInv
<1> QED
  BY <1>3, <1>4, <1>5

(* Every step of the tick, of vLLM and of the jobs keeps the invariant.    *)
LEMMA RegistryStep == RegistryInv /\ [RegistryNext]_registryVars => RegistryInv'
<1> SUFFICES ASSUME RegistryInv, [RegistryNext]_registryVars PROVE RegistryInv'
  OBVIOUS
<1>t. /\ directory \in [Jobs -> [status: Statuses, history: BOOLEAN, ckpt: BOOLEAN]]
      /\ torn \in 0 .. MaxTorn /\ MaxTorn \in Nat /\ visited \in SUBSET Jobs
  BY RegistryAssumption DEF RegistryInv, RegistryTypeOK
<1>1. ASSUME NEW j \in Jobs, NEW from, NEW to \in Statuses, Directory(j, from, to),
             torn' \in 0 .. MaxTorn
      PROVE  RegistryInv'
  <2>1. directory' = [directory EXCEPT ![j].status = to]
        /\ UNCHANGED <<up, serving, models, stage, registered, visited, current,
                       conflict, deaths>>
    BY <1>1 DEF Directory
  <2>2. directory' \in [Jobs -> [status: Statuses, history: BOOLEAN, ckpt: BOOLEAN]]
    BY <1>t, <1>1, <2>1
  <2>3. \A i \in Jobs : directory'[i].ckpt = directory[i].ckpt
    BY <1>t, <2>1
  <2> QED
    BY <1>1, <2>1, <2>2, <2>3, DirectoryStep
<1>2. ASSUME NEW j \in Jobs,
             Upload(j) \/ WriteStatus(j) \/ CloseStatus(j)
      PROVE  RegistryInv'
  BY <1>1, <1>2, <1>t DEF Upload, WriteStatus, CloseStatus, Statuses
<1>3. ASSUME NEW j \in Jobs, OpenStatus(j) PROVE RegistryInv'
  BY <1>1, <1>3, <1>t DEF OpenStatus, Statuses
<1>4. ASSUME NEW j \in Jobs, Train(j) PROVE RegistryInv'
  <2>1. UNCHANGED <<up, serving, models, stage, registered, visited, current,
                    conflict, deaths, torn>>
    BY <1>4 DEF Train, counters
  <2>2. directory' = [directory EXCEPT ![j].history = TRUE]
        \/ directory' = [directory EXCEPT ![j].ckpt = TRUE]
    BY <1>4 DEF Train
  <2>3. directory' \in [Jobs -> [status: Statuses, history: BOOLEAN, ckpt: BOOLEAN]]
    BY <1>t, <2>2
  <2>4. \A i \in Jobs : directory[i].ckpt => directory'[i].ckpt
    BY <1>t, <2>2
  <2> QED
    BY <1>t, <2>1, <2>3, <2>4, DirectoryStep
<1>5. CASE Tick \/ GetModelsFails \/ RegisterEnds \/ RestartJobs \/ ClearAcked
  <2>1. stage' \in {"sleep", "models", "restart", "clear"}
    BY <1>5 DEF Tick, GetModelsFails, RegisterEnds, RestartJobs, ClearAcked, AfterRaise
  <2>2. UNCHANGED <<directory, up, serving, models, registered, visited, current,
                    conflict, counters>>
    BY <1>5 DEF Tick, GetModelsFails, RegisterEnds, RestartJobs, ClearAcked
  <2> QED
    BY <1>t, <2>1, <2>2, StageStep
<1>6. CASE UNCHANGED registryVars
  <2>1. UNCHANGED <<directory, up, chat, completion, models, stage, registered, visited,
                    current, conflict, deaths, torn>>
    BY <1>6 DEF registryVars
  <2> QED
    BY <2>1 DEF RegistryInv, RegistryTypeOK, OfferedIsServed, RegisteredOnce,
                OfferedHasCheckpoint, RegisterInv, Offered, Loaded
<1> QED
  BY <1>2, <1>3, <1>4, <1>5, <1>6, VllmDiesStep, VllmStartsStep, GetModelsStep,
     VisitDirectoryStep
  DEF RegistryNext, TickStep

(* The registration keeps RegistryInv, for any jobs, deaths and torn files.*)
THEOREM RegistryInvariance == RegistrySpec => []RegistryInv
<1>1. ASSUME RegistryInit PROVE RegistryInv
  <2>1. /\ directory = [j \in Jobs |-> [status |-> "absent", history |-> FALSE, ckpt |-> FALSE]]
        /\ up = FALSE /\ chat = <<>> /\ completion = <<>> /\ models = <<>>
        /\ stage = "sleep" /\ registered = {} /\ visited = {}
        /\ current = TRUE /\ conflict = FALSE /\ deaths = 0 /\ torn = 0
    BY <1>1 DEF RegistryInit
  <2>2. ToSet(<<>>) = {}
    BY DEF ToSet
  <2>3. directory \in [Jobs -> [status: Statuses, history: BOOLEAN, ckpt: BOOLEAN]]
    BY <2>1 DEF Statuses
  <2>4. RegistryTypeOK
    <3>1. /\ chat \in Seq(Jobs) /\ completion \in Seq(Jobs)
          /\ models \in Seq(Jobs \cup {Base})
          /\ deaths \in 0 .. MaxDeaths /\ torn \in 0 .. MaxTorn
      BY <2>1, RegistryAssumption
    <3> QED
      BY <2>1, <2>3, <3>1 DEF RegistryTypeOK
  <2>5. RegisteredOnce
    BY <2>1 DEF RegisteredOnce
  <2> QED
    BY <2>1, <2>2, <2>4, <2>5
    DEF RegistryInv, OfferedIsServed, OfferedHasCheckpoint, RegisterInv, Offered, Loaded
<1> QED
  BY <1>1, RegistryStep, PTL DEF RegistrySpec

(* A model on offer has a checkpoint; as long as vLLM lives both its       *)
(* servers know it, once each and in the same order; and the tick never    *)
(* asks vLLM for a name it already has, which would raise and cost the     *)
(* tick its other tasks: also when vLLM dies and comes back between any    *)
(* two steps of the tick.                                                  *)
THEOREM ModelsAreServedAlways == RegistrySpec => []ModelsAreServed
<1>1. RegistryInv => ModelsAreServed
  BY DEF RegistryInv, ModelsAreServed
<1> QED
  BY <1>1, RegistryInvariance, PTL

-----------------------------------------------------------------------------
(* The engine in the server's process *)

(* A request before its caller asks, and one that waits for its first step.*)
Untouched(r) ==
    /\ queue[r] = <<>> /\ received[r] = 0
    /\ r \notin streams \cup to_add \cup DOMAIN core

NewInv ==
    /\ \A r \in Calls : call[r] = "new" =>
          Untouched(r) /\ r \notin ToSet(new_requests) \cup aborted \cup strays
    /\ \A r \in ToSet(new_requests) : Untouched(r) /\ call[r] \in {"open", "left"}

(* The streams that the tracker holds are open, nobody is about to abort   *)
(* their requests, and what each was given is what the engine has made; a  *)
(* caller who waits and is not held has an end in his queue.               *)
TrackInv ==
    /\ to_add \cap DOMAIN core = {}
    /\ streams \cap (aborted \cup to_abort) = {}
    /\ \A r \in streams : ~IsFinished(r)
    /\ \A r \in Calls : call[r] \in {"done", "failed"} => queue[r] = <<>>
    /\ \A r \in streams \cap DOMAIN core : core[r] = received[r] + Len(queue[r])
    /\ \A r \in to_add : received[r] = 0 /\ (queue[r] # <<>> => queue[r][1] \in Ends)
    /\ \A r \in Calls \ strays : call[r] = "open" =>
          IsFinished(r) \/ r \in ToSet(new_requests) \cup streams
    /\ IsRunning /\ engine_step # "raised" => streams \subseteq to_add \cup DOMAIN core

(* The loop and its step: a loop that died without a word has a callback   *)
(* to come, and every callback is one of the troubles.                     *)
BgInv ==
    /\ bg_loop \in {"none", "idle"} => engine_step = "none"
    /\ bg_loop = "dead" /\ ~died => engine_step = "none"
    /\ bg_loop = "dead" => callbacks > 0 \/ died
    /\ strays # {} => callbacks > 0 \/ died
    /\ bg_loop = "none" => /\ callbacks = 0 /\ ~died
                           /\ \A r \in Calls : call[r] = "new"
    /\ engine_step \notin {"adding", "raised"} => to_add \cup to_abort = {}
    /\ callbacks + (IF bg_loop = "wait" /\ engine_step = "raised" THEN 1 ELSE 0) <= troubles

AsyncInv ==
    /\ AsyncTypeOK /\ StreamsAreWhole /\ SomebodyListens
    /\ NewInv /\ TrackInv /\ BgInv

(* StreamsAreWhole of one stream, whose caller is at c and was given n.    *)
Items == (1 .. NumItems) \cup Ends
Closed(q) == \E i \in DOMAIN q : q[i] \in Ends
Whole(q, n, c) ==
    /\ \A i \in DOMAIN q : IF q[i] \in Ends THEN i = Len(q) ELSE q[i] = n + i
    /\ c = "open" /\ q # <<>> /\ q[Len(q)] = STOP_ITERATION => n + Len(q) - 1 = NumItems
    /\ c = "done" => n = NumItems

(* The invariant by streams.                                               *)
LEMMA ByStream ==
    /\ StreamsAreWhole <=> \A r \in Calls : Whole(queue[r], received[r], call[r])
    /\ \A r : IsFinished(r) <=> call[r] \in {"done", "failed"} \/ Closed(queue[r])
<1>1. StreamsAreWhole <=> \A r \in Calls : Whole(queue[r], received[r], call[r])
  BY DEF StreamsAreWhole, Whole
<1>2. ASSUME NEW r PROVE ToSet(queue[r]) \cap Ends # {} <=> Closed(queue[r])
  BY DEF ToSet, Closed
<1> QED
  BY <1>1, <1>2 DEF IsFinished

(* The same of the state after a step.                                     *)
LEMMA StreamsNext ==
    /\ StreamsAreWhole' <=> \A r \in Calls : Whole(queue'[r], received'[r], call'[r])
    /\ \A r : IsFinished(r)' <=> call'[r] \in {"done", "failed"} \/ Closed(queue'[r])
<1>1. StreamsAreWhole' <=> \A r \in Calls : Whole(queue'[r], received'[r], call'[r])
  BY DEF StreamsAreWhole, Whole
<1>2. ASSUME NEW r PROVE ToSet(queue'[r]) \cap Ends # {} <=> Closed(queue'[r])
  BY DEF ToSet, Closed
<1> QED
  BY <1>1, <1>2 DEF IsFinished

(* A sequence and one more behind it.                                      *)
LEMMA Lengthened ==
    ASSUME NEW S, NEW s \in Seq(S), NEW x \in S
    PROVE  /\ s \o <<x>> \in Seq(S) /\ Len(s \o <<x>>) = Len(s) + 1 /\ Len(s) \in Nat
           /\ DOMAIN s = 1 .. Len(s) /\ DOMAIN (s \o <<x>>) = 1 .. Len(s) + 1
           /\ \A i \in 1 .. Len(s) : (s \o <<x>>)[i] = s[i]
           /\ (s \o <<x>>)[Len(s) + 1] = x
<1>1. /\ DOMAIN s = 1 .. Len(s) /\ Len(s) \in Nat
      /\ <<x>> \in Seq(S) /\ Len(<<x>>) = 1 /\ <<x>>[1] = x
  OBVIOUS
<1> DEFINE u == <<x>>
           t == s \o u
<1>2. /\ t \in Seq(S) /\ Len(t) = Len(s) + 1
      /\ \A i \in 1 .. Len(s) + 1 : t[i] = IF i <= Len(s) THEN s[i] ELSE u[i - Len(s)]
  <2>1. u \in Seq(S) /\ Len(u) = 1
    BY <1>1
  <2> HIDE DEF u
  <2>2. /\ s \o u \in Seq(S) /\ Len(s \o u) = Len(s) + Len(u)
        /\ \A i \in 1 .. Len(s) + Len(u) :
              (s \o u)[i] = IF i <= Len(s) THEN s[i] ELSE u[i - Len(s)]
    BY ONLY s \in Seq(S), <2>1, ConcatProperties
  <2> QED
    BY <2>1, <2>2
<1> HIDE DEF t
<1>3. DOMAIN t = 1 .. Len(s) + 1
  BY <1>1, <1>2
<1>4. \A i \in 1 .. Len(s) : t[i] = s[i]
  BY <1>1, <1>2
<1>5. t[Len(s) + 1] = x
  BY <1>1, <1>2
<1> QED
  BY <1>1, <1>2, <1>3, <1>4, <1>5 DEF t

(* One more output in a stream that is open.                               *)
LEMMA WithOutput ==
    ASSUME NEW q \in Seq(Items), NEW n \in Nat, NEW c, Whole(q, n, c), ~Closed(q),
           NEW k \in 1 .. NumItems, k = n + Len(q) + 1
    PROVE  /\ q \o <<k>> \in Seq(Items) /\ Len(q \o <<k>>) = Len(q) + 1
           /\ Whole(q \o <<k>>, n, c) /\ ~Closed(q \o <<k>>)
<1> DEFINE t == q \o <<k>>
<1>1. k \in Items /\ k \notin Ends /\ k # STOP_ITERATION
  BY AsyncAssumption DEF Items, Ends, STOP_ITERATION, Exception, CancelledError
<1>2. /\ t \in Seq(Items) /\ Len(t) = Len(q) + 1 /\ Len(q) \in Nat
      /\ DOMAIN q = 1 .. Len(q) /\ DOMAIN t = 1 .. Len(q) + 1
      /\ \A i \in 1 .. Len(q) : t[i] = q[i]
      /\ t[Len(q) + 1] = k
  BY <1>1, Lengthened
<1> HIDE DEF t
<1>3. \A i \in DOMAIN t : i \in DOMAIN q \/ i = Len(q) + 1
  BY <1>2
<1>4. \A i \in DOMAIN t : t[i] \notin Ends /\ t[i] = n + i
  BY <1>1, <1>2, <1>3 DEF Closed, Whole
<1>5. Whole(t, n, c)
  BY <1>1, <1>2, <1>4 DEF Whole
<1>6. ~Closed(t)
  BY <1>4 DEF Closed
<1> QED
  BY <1>2, <1>5, <1>6 DEF t

(* The end of a stream that is open.                                       *)
LEMMA WithEnd ==
    ASSUME NEW q \in Seq(Items), NEW n \in Nat, NEW c, Whole(q, n, c), ~Closed(q),
           NEW how \in Ends, how = STOP_ITERATION /\ c = "open" => n + Len(q) = NumItems
    PROVE  /\ q \o <<how>> \in Seq(Items)
           /\ Whole(q \o <<how>>, n, c) /\ Closed(q \o <<how>>)
           /\ q = <<>> => (q \o <<how>>)[1] \in Ends
<1> DEFINE t == q \o <<how>>
<1>1. how \in Items
  BY DEF Items
<1>2. /\ t \in Seq(Items) /\ Len(t) = Len(q) + 1 /\ Len(q) \in Nat
      /\ DOMAIN q = 1 .. Len(q) /\ DOMAIN t = 1 .. Len(q) + 1
      /\ \A i \in 1 .. Len(q) : t[i] = q[i]
      /\ t[Len(q) + 1] = how
  BY <1>1, Lengthened
<1>z. q = <<>> => Len(q) = 0
  OBVIOUS
<1> HIDE DEF t
<1>3. \A i \in DOMAIN t : i \in DOMAIN q \/ i = Len(q) + 1
  BY <1>2
<1>4. \A i \in DOMAIN t : IF t[i] \in Ends THEN i = Len(t) ELSE t[i] = n + i
  BY <1>2, <1>3 DEF Closed, Whole
<1>5. Whole(t, n, c)
  BY <1>2, <1>4 DEF Whole
<1>6. Closed(t)
  BY <1>2 DEF Closed
<1> QED
  BY <1>2, <1>5, <1>6, <1>z DEF t

(* Two sequences of one make one of two.                                   *)
LEMMA Together ==
    ASSUME NEW S, NEW x \in S, NEW y \in S
    PROVE  <<x>> \o <<y>> = <<x, y>>
<1>1. <<x>> \in Seq(S) /\ Len(<<x>>) = 1 /\ <<x>>[1] = x
  OBVIOUS
<1> DEFINE u == <<x>>
           t == u \o <<y>>
           p == <<x, y>>
<1>2. p \in Seq(S) /\ Len(p) = 2 /\ p[1] = x /\ p[2] = y
  OBVIOUS
<1>3. u \in Seq(S) /\ Len(u) = 1 /\ u[1] = x
  BY <1>1
<1> HIDE DEF u
<1>4. /\ t \in Seq(S) /\ Len(t) = 2
      /\ \A i \in 1 .. 1 : t[i] = u[i]
      /\ t[2] = y
  <2>0. u \in Seq(S) /\ y \in S
    BY <1>3
  <2>1. /\ u \o <<y>> \in Seq(S) /\ Len(u \o <<y>>) = Len(u) + 1 /\ Len(u) \in Nat
        /\ DOMAIN u = 1 .. Len(u) /\ DOMAIN (u \o <<y>>) = 1 .. Len(u) + 1
        /\ \A i \in 1 .. Len(u) : (u \o <<y>>)[i] = u[i]
        /\ (u \o <<y>>)[Len(u) + 1] = y
    BY ONLY <2>0, Lengthened
  <2>2. Len(u) + 1 = 2 /\ Len(u) = 1
    BY <1>3
  <2>3. Len(t) = 2 /\ t[2] = y
    BY ONLY <2>1, <2>2
  <2>4. \A i \in 1 .. 1 : t[i] = u[i]
    BY ONLY <2>1, <2>2
  <2> QED
    BY ONLY <2>1, <2>3, <2>4
<1> HIDE DEF t, p
<1>5. \A i \in 1 .. Len(t) : t[i] = p[i]
  BY <1>2, <1>3, <1>4
<1>6. t = p
  BY <1>2, <1>4, <1>5, SeqEqual
<1> QED
  BY <1>6 DEF t, p, u

(* The last output and the end, put together.                              *)
LEMMA WithLast ==
    ASSUME NEW q \in Seq(Items), NEW n \in Nat, NEW c, Whole(q, n, c), ~Closed(q),
           n + Len(q) + 1 = NumItems
    PROVE  /\ q \o <<NumItems, STOP_ITERATION>> \in Seq(Items)
           /\ Whole(q \o <<NumItems, STOP_ITERATION>>, n, c)
           /\ Closed(q \o <<NumItems, STOP_ITERATION>>)
<1> DEFINE t == q \o <<NumItems>>
<1>1. NumItems \in 1 .. NumItems /\ STOP_ITERATION \in Ends
  BY AsyncAssumption DEF Ends
<1>2. /\ t \in Seq(Items) /\ Len(t) = Len(q) + 1
      /\ Whole(t, n, c) /\ ~Closed(t)
  BY <1>1, WithOutput
<1>3. Len(q) \in Nat
  OBVIOUS
<1>4. t \o <<STOP_ITERATION>> = q \o <<NumItems, STOP_ITERATION>>
  <2>1. <<NumItems>> \in Seq(Items) /\ <<STOP_ITERATION>> \in Seq(Items)
    BY <1>1 DEF Items
  <2>2. t \o <<STOP_ITERATION>> = q \o (<<NumItems>> \o <<STOP_ITERATION>>)
    BY <2>1, ConcatAssociative
  <2>3. <<NumItems>> \o <<STOP_ITERATION>> = <<NumItems, STOP_ITERATION>>
    BY <1>1, Together DEF Items
  <2> QED
    BY <2>2, <2>3
<1>5. n + Len(t) = NumItems
  BY <1>2, <1>3
<1> HIDE DEF t
<1>6. /\ t \o <<STOP_ITERATION>> \in Seq(Items)
      /\ Whole(t \o <<STOP_ITERATION>>, n, c) /\ Closed(t \o <<STOP_ITERATION>>)
  BY <1>1, <1>2, <1>5, WithEnd
<1> QED
  BY <1>4, <1>6

(* What the caller's generator takes, and what it leaves.                  *)
LEMMA WithoutFirst ==
    ASSUME NEW q \in Seq(Items), NEW n \in Nat, NEW c, Whole(q, n, c), q # <<>>
    PROVE  /\ Tail(q) \in Seq(Items) /\ Head(q) = q[1] /\ Head(q) \in Items
           /\ Len(q) \in Nat \ {0} /\ Len(Tail(q)) = Len(q) - 1
           /\ Head(q) \in Ends => Tail(q) = <<>> /\ Closed(q)
           /\ Head(q) \notin Ends =>
                 /\ Head(q) = n + 1 /\ Head(q) \in 1 .. NumItems
                 /\ Whole(Tail(q), n + 1, c) \/ c = "done"
                 /\ Closed(q) <=> Closed(Tail(q))
<1> DEFINE t == Tail(q)
<1>1. /\ DOMAIN q = 1 .. Len(q) /\ Len(q) \in Nat \ {0}
      /\ Head(q) = q[1] /\ Head(q) \in Items
  BY EmptySeq DEF Items
<1>2. /\ t \in Seq(Items) /\ Len(t) = Len(q) - 1
      /\ \A i \in 1 .. Len(t) : t[i] = q[i + 1]
  BY HeadTailProperties
<1> HIDE DEF t
<1>3. DOMAIN t = 1 .. Len(q) - 1
  BY <1>1, <1>2
<1>4. \A i \in 1 .. Len(q) - 1 : t[i] = q[i + 1] /\ i + 1 \in DOMAIN q
  BY <1>1, <1>2
<1>5. CASE q[1] \in Ends
  <2>1. Len(q) = 1
    BY <1>1, <1>5 DEF Whole
  <2>2. t = <<>>
    BY <2>1, <1>2
  <2>3. Closed(q)
    BY <1>1, <1>5 DEF Closed
  <2> QED
    BY <1>1, <1>2, <1>5, <2>2, <2>3 DEF t
<1>6. CASE q[1] \notin Ends
  <2>1. q[1] = n + 1
    BY <1>1, <1>6 DEF Whole
  <2>2. q[1] \in 1 .. NumItems
    BY <1>1, <1>6 DEF Items
  <2>3. \A i \in DOMAIN t : IF t[i] \in Ends THEN i = Len(t) ELSE t[i] = (n + 1) + i
    <3> TAKE i \in DOMAIN t
    <3>1. t[i] = q[i + 1] /\ i + 1 \in DOMAIN q /\ i \in Nat
      BY <1>3, <1>4
    <3>2. IF q[i + 1] \in Ends THEN i + 1 = Len(q) ELSE q[i + 1] = n + (i + 1)
      BY <3>1 DEF Whole
    <3>3. CASE t[i] \in Ends
      BY <1>1, <1>2, <3>1, <3>2, <3>3
    <3>4. CASE t[i] \notin Ends
      <4>1. q[i + 1] = n + (i + 1)
        BY <3>1, <3>2, <3>4
      <4>2. n + (i + 1) = (n + 1) + i
        BY <3>1
      <4> QED
        BY <3>1, <3>4, <4>1, <4>2
    <3> QED
      BY <3>3, <3>4
  <2>4. c = "open" /\ t # <<>> /\ t[Len(t)] = STOP_ITERATION => (n + 1) + Len(t) - 1 = NumItems
    <3> HAVE c = "open" /\ t # <<>> /\ t[Len(t)] = STOP_ITERATION
    <3>1. Len(t) \in 1 .. Len(q) - 1
      BY <1>1, <1>2, EmptySeq
    <3>2. q[Len(q)] = STOP_ITERATION
      BY <1>1, <1>2, <1>4, <3>1
    <3> QED
      BY <1>1, <1>2, <3>2 DEF Whole
  <2>5. Whole(t, n + 1, c) \/ c = "done"
    BY <2>3, <2>4 DEF Whole
  <2>6. Closed(q) => Closed(t)
    <3> SUFFICES ASSUME NEW i \in DOMAIN q, q[i] \in Ends PROVE Closed(t)
      BY DEF Closed
    <3>1. i # 1
      BY <1>6
    <3>2. i - 1 \in DOMAIN t /\ t[i - 1] = q[i]
      BY <1>1, <1>3, <1>4, <3>1
    <3> QED
      BY <3>2 DEF Closed
  <2>7. Closed(t) => Closed(q)
    BY <1>3, <1>4 DEF Closed
  <2> QED
    BY <1>1, <1>2, <1>6, <2>1, <2>2, <2>5, <2>6, <2>7 DEF t
<1> QED
  BY <1>5, <1>6

(* The streams, when no caller goes on and nothing is put.                 *)
LEMMA SameCallers ==
    ASSUME AsyncInv, UNCHANGED callerVars
    PROVE  StreamsAreWhole' /\ \A r : IsFinished(r)' <=> IsFinished(r)
<1>1. UNCHANGED <<call, queue, received>>
  BY DEF callerVars
<1>2. StreamsAreWhole'
  BY <1>1 DEF AsyncInv, StreamsAreWhole
<1> QED
  BY <1>1, <1>2 DEF IsFinished

(* The streams, when those of S are finished: an end goes behind what a    *)
(* stream has, unless there is one, and the other streams keep what they   *)
(* have; STOP_ITERATION only goes to callers who have left.                *)
LEMMA Finishing ==
    ASSUME AsyncInv, NEW S \in SUBSET Calls, NEW how \in Ends, FinishAll(S, how),
           UNCHANGED received,
           \A r \in Calls : call'[r] = call[r] \/ call'[r] = "left",
           how = STOP_ITERATION => \A r \in S : call'[r] # "open"
    PROVE  /\ queue' \in [Calls -> Seq(Items)] /\ StreamsAreWhole'
           /\ \A r \in Calls : r \notin S \/ IsFinished(r) => queue'[r] = queue[r]
           /\ \A r \in Calls : call'[r] = call[r] /\ (r \in S \/ IsFinished(r)) => IsFinished(r)'
           /\ \A r \in Calls \ S : call'[r] = call[r] => (IsFinished(r)' <=> IsFinished(r))
           /\ \A r \in Calls : (queue[r] # <<>> => queue[r][1] \in Ends)
                                  => (queue'[r] # <<>> => queue'[r][1] \in Ends)
<1>1. queue' = [r \in Calls |-> IF r \in S /\ ~IsFinished(r) THEN queue[r] \o <<how>> ELSE queue[r]]
  <2> DEFINE items == [r \in S |-> <<how>>]
  <2>1. DOMAIN items = S /\ \A r \in S : items[r] = <<how>>
    OBVIOUS
  <2>2. queue' = [r \in Calls |-> IF r \in DOMAIN items /\ ~IsFinished(r)
                                  THEN queue[r] \o items[r] ELSE queue[r]]
    BY DEF FinishAll, Put
  <2> HIDE DEF items
  <2> QED
    BY <2>1, <2>2
<1>2. \A r \in Calls : queue[r] \in Seq(Items) /\ received[r] \in Nat
  BY AsyncAssumption DEF AsyncInv, AsyncTypeOK, Items
<1>3. \A r \in Calls : Whole(queue[r], received[r], call[r])
  BY ByStream DEF AsyncInv
<1>4. ASSUME NEW r \in Calls
      PROVE  /\ queue'[r] \in Seq(Items) /\ Whole(queue'[r], received[r], call'[r])
             /\ r \notin S \/ IsFinished(r) => queue'[r] = queue[r]
             /\ r \in S => Closed(queue'[r]) \/ IsFinished(r)
             /\ (queue[r] # <<>> => queue[r][1] \in Ends)
                    => (queue'[r] # <<>> => queue'[r][1] \in Ends)
  <2>1. Whole(queue[r], received[r], call'[r])
    <3>1. call'[r] = call[r] \/ call'[r] = "left"
      OBVIOUS
    <3> QED
      BY <1>3, <3>1 DEF Whole
  <2>2. CASE r \in S /\ ~IsFinished(r)
    <3>1. queue'[r] = queue[r] \o <<how>>
      BY <1>1, <2>2
    <3>2. ~Closed(queue[r])
      BY <2>2, ByStream
    <3>3. how = STOP_ITERATION => call'[r] # "open"
      BY <2>2
    <3>4. /\ queue[r] \o <<how>> \in Seq(Items)
          /\ Whole(queue[r] \o <<how>>, received[r], call'[r])
          /\ Closed(queue[r] \o <<how>>)
          /\ queue[r] = <<>> => (queue[r] \o <<how>>)[1] \in Ends
      BY <1>2, <2>1, <3>2, <3>3, WithEnd
    <3>5. queue[r] # <<>> => queue[r][1] \notin Ends
      <4>1. queue[r] # <<>> => 1 \in DOMAIN queue[r]
        BY <1>2, EmptySeq
      <4> QED
        BY <4>1, <3>2 DEF Closed
    <3> QED
      BY <2>2, <3>1, <3>4, <3>5
  <2>3. CASE ~(r \in S /\ ~IsFinished(r))
    <3>1. queue'[r] = queue[r]
      BY <1>1, <2>3
    <3> QED
      BY <1>2, <2>1, <2>3, <3>1
  <2> QED
    BY <2>2, <2>3
<1>5. \A r : IsFinished(r)' <=> call'[r] \in {"done", "failed"} \/ Closed(queue'[r])
  BY StreamsNext
<1>6. queue' \in [Calls -> Seq(Items)]
  BY <1>1, <1>4
<1>7. StreamsAreWhole'
  <2>1. \A r \in Calls : Whole(queue'[r], received'[r], call'[r])
    BY <1>4
  <2>2. StreamsAreWhole' <=> \A r \in Calls : Whole(queue'[r], received'[r], call'[r])
    BY StreamsNext
  <2> QED
    BY <2>1, <2>2
<1>8. ASSUME NEW r \in Calls, call'[r] = call[r]
      PROVE  /\ r \in S \/ IsFinished(r) => IsFinished(r)'
             /\ r \notin S => (IsFinished(r)' <=> IsFinished(r))
  <2>1. IsFinished(r) <=> call[r] \in {"done", "failed"} \/ Closed(queue[r])
    BY ByStream
  <2> QED
    BY <1>4, <1>5, <1>8, <2>1
<1> QED
  BY <1>4, <1>6, <1>7, <1>8

(* The loop takes up work: nothing of an earlier step is left.             *)
LEMMA WakeUpStep ==
    ASSUME AsyncInv, WakeUp
    PROVE  AsyncInv'
<1> USE DEF AsyncInv
<1>1. UNCHANGED callerVars /\ UNCHANGED <<call, queue, received>>
  BY DEF WakeUp, callerVars
<1>2. StreamsAreWhole' /\ \A r : IsFinished(r)' <=> IsFinished(r)
  BY <1>1, SameCallers
<1>3. AsyncTypeOK'
  BY <1>1, AsyncAssumption DEF WakeUp, AsyncTypeOK, BgInv, trackerVars, stepVars, loopVars
<1>4. SomebodyListens'
  BY <1>1 DEF WakeUp, SomebodyListens, InEngine, BgInv, trackerVars, stepVars, loopVars
<1>5. NewInv'
  BY <1>1 DEF WakeUp, NewInv, Untouched, trackerVars, stepVars, loopVars
<1>6. TrackInv'
  BY <1>1, <1>2 DEF WakeUp, TrackInv, BgInv, IsRunning, trackerVars, stepVars, loopVars
<1>7. BgInv'
  BY <1>1 DEF WakeUp, BgInv, AsyncTypeOK, trackerVars, stepVars, loopVars
<1> QED
  BY <1>2, <1>3, <1>4, <1>5, <1>6, <1>7

(* The loop goes on to its next step, or to sleep.                         *)
LEMMA NextIterationStep ==
    ASSUME AsyncInv, NextIteration
    PROVE  AsyncInv'
<1> USE DEF AsyncInv
<1>1. UNCHANGED callerVars /\ UNCHANGED <<call, queue, received>>
  BY DEF NextIteration, callerVars
<1>2. StreamsAreWhole' /\ \A r : IsFinished(r)' <=> IsFinished(r)
  BY <1>1, SameCallers
<1>3. AsyncTypeOK'
  BY <1>1, AsyncAssumption DEF NextIteration, AsyncTypeOK, BgInv, trackerVars, stepVars, loopVars
<1>4. SomebodyListens'
  BY <1>1 DEF NextIteration, SomebodyListens, InEngine, BgInv, trackerVars, stepVars, loopVars
<1>5. NewInv'
  BY <1>1 DEF NextIteration, NewInv, Untouched, trackerVars, stepVars, loopVars
<1>6. TrackInv'
  BY <1>1, <1>2 DEF NextIteration, TrackInv, BgInv, IsRunning, trackerVars, stepVars, loopVars
<1>7. BgInv'
  BY <1>1 DEF NextIteration, BgInv, AsyncTypeOK, trackerVars, stepVars, loopVars
<1> QED
  BY <1>2, <1>3, <1>4, <1>5, <1>6, <1>7

(* The loop dies of its step, with a callback to come.                     *)
LEMMA LoopRaisesStep ==
    ASSUME AsyncInv, LoopRaises
    PROVE  AsyncInv'
<1> USE DEF AsyncInv
<1>1. UNCHANGED callerVars /\ UNCHANGED <<call, queue, received>>
  BY DEF LoopRaises, callerVars
<1>2. StreamsAreWhole' /\ \A r : IsFinished(r)' <=> IsFinished(r)
  BY <1>1, SameCallers
<1>3. AsyncTypeOK'
  BY <1>1, AsyncAssumption DEF LoopRaises, AsyncTypeOK, BgInv, trackerVars, stepVars, loopVars
<1>4. SomebodyListens'
  BY <1>1, AsyncAssumption DEF LoopRaises, SomebodyListens, AsyncTypeOK
<1>5. NewInv'
  BY <1>1 DEF LoopRaises, NewInv, Untouched, trackerVars, stepVars, loopVars
<1>6. TrackInv'
  BY <1>1, <1>2 DEF LoopRaises, TrackInv, BgInv, IsRunning, trackerVars, stepVars, loopVars
<1>7. BgInv'
  BY <1>1 DEF LoopRaises, BgInv, AsyncTypeOK, trackerVars, stepVars, loopVars
<1> QED
  BY <1>2, <1>3, <1>4, <1>5, <1>6, <1>7

(* The loop gives up on its step, which goes on.                           *)
LEMMA LoopTimesOutStep ==
    ASSUME AsyncInv, LoopTimesOut
    PROVE  AsyncInv'
<1> USE DEF AsyncInv
<1>1. UNCHANGED callerVars /\ UNCHANGED <<call, queue, received>>
  BY DEF LoopTimesOut, callerVars
<1>2. StreamsAreWhole' /\ \A r : IsFinished(r)' <=> IsFinished(r)
  BY <1>1, SameCallers
<1>3. AsyncTypeOK'
  BY <1>1, AsyncAssumption DEF LoopTimesOut, AsyncTypeOK, BgInv, trackerVars, stepVars, loopVars
<1>4. SomebodyListens'
  BY <1>1 DEF LoopTimesOut, SomebodyListens, InEngine, BgInv, trackerVars, stepVars, loopVars
<1>5. NewInv'
  BY <1>1 DEF LoopTimesOut, NewInv, Untouched, trackerVars, stepVars, loopVars
<1>6. TrackInv'
  BY <1>1, <1>2 DEF LoopTimesOut, TrackInv, BgInv, IsRunning, trackerVars, stepVars, loopVars
<1>7. BgInv'
  BY <1>1 DEF LoopTimesOut, BgInv, AsyncTypeOK, trackerVars, stepVars, loopVars
<1> QED
  BY <1>2, <1>3, <1>4, <1>5, <1>6, <1>7

(* The step raises: one trouble more, for the callback of its loop.        *)
LEMMA StepRaisesStep ==
    ASSUME AsyncInv, StepRaises
    PROVE  AsyncInv'
<1> USE DEF AsyncInv
<1>1. UNCHANGED callerVars /\ UNCHANGED <<call, queue, received>>
  BY DEF StepRaises, callerVars
<1>2. StreamsAreWhole' /\ \A r : IsFinished(r)' <=> IsFinished(r)
  BY <1>1, SameCallers
<1>3. AsyncTypeOK'
  BY <1>1, AsyncAssumption DEF StepRaises, AsyncTypeOK, BgInv, trackerVars, stepVars, loopVars
<1>4. SomebodyListens'
  BY <1>1 DEF StepRaises, SomebodyListens, InEngine, BgInv, trackerVars, stepVars, loopVars
<1>5. NewInv'
  BY <1>1 DEF StepRaises, NewInv, Untouched, trackerVars, stepVars, loopVars
<1>6. TrackInv'
  BY <1>1, <1>2 DEF StepRaises, TrackInv, BgInv, IsRunning, trackerVars, stepVars, loopVars
<1>7. BgInv'
  BY <1>1 DEF StepRaises, BgInv, AsyncTypeOK, trackerVars, stepVars, loopVars
<1> QED
  BY <1>2, <1>3, <1>4, <1>5, <1>6, <1>7

(* The aborts: the tracker has no stream of theirs.                        *)
LEMMA ExecuteStepStep ==
    ASSUME AsyncInv, ExecuteStep
    PROVE  AsyncInv'
<1> USE DEF AsyncInv
<1>1. UNCHANGED callerVars /\ UNCHANGED <<call, queue, received>>
  BY DEF ExecuteStep, callerVars
<1>2. StreamsAreWhole' /\ \A r : IsFinished(r)' <=> IsFinished(r)
  BY <1>1, SameCallers
<1>3. AsyncTypeOK'
  BY <1>1, AsyncAssumption DEF ExecuteStep, AsyncTypeOK, BgInv, trackerVars, stepVars, loopVars
<1>4. SomebodyListens'
  BY <1>1 DEF ExecuteStep, SomebodyListens, InEngine, BgInv, trackerVars, stepVars, loopVars
<1>5. NewInv'
  BY <1>1 DEF ExecuteStep, NewInv, Untouched, trackerVars, stepVars, loopVars
<1>6. TrackInv'
  BY <1>1, <1>2 DEF ExecuteStep, TrackInv, BgInv, IsRunning, trackerVars, stepVars, loopVars
<1>7. BgInv'
  BY <1>1 DEF ExecuteStep, BgInv, AsyncTypeOK, trackerVars, stepVars, loopVars
<1> QED
  BY <1>2, <1>3, <1>4, <1>5, <1>6, <1>7

(* A request asked for: with a loop it waits for the next step; without    *)
(* one there is a new loop and tracker, and what the old one had strays;   *)
(* once the engine has died it fails.                                      *)
LEMMA AddRequestStep ==
    ASSUME AsyncInv, NEW r \in Calls, AddRequest(r)
    PROVE  AsyncInv'
<1> USE DEF AsyncInv
<1>1. /\ UNCHANGED <<queue, received>> /\ call[r] = "new"
      /\ UNCHANGED <<engine_step, to_add, to_abort, core, callbacks, died, troubles>>
      /\ call \in [Calls -> {"new", "open", "done", "failed", "left"}]
      /\ new_requests \in Seq(Calls)
  BY DEF AddRequest, AsyncTypeOK, stepVars
<1>2. /\ Untouched(r) /\ r \notin ToSet(new_requests) \cup aborted \cup strays
      /\ queue[r] = <<>> /\ received[r] = 0
      /\ r \notin streams \cup to_add \cup DOMAIN core
  BY <1>1 DEF NewInv, Untouched
<1>3. /\ call' \in [Calls -> {"new", "open", "done", "failed", "left"}]
      /\ call'[r] \in {"open", "failed"}
      /\ \A s \in Calls \ {r} : call'[s] = call[s]
  BY <1>1 DEF AddRequest
<1>4. /\ \A s \in Calls \ {r} : IsFinished(s)' <=> IsFinished(s)
      /\ StreamsAreWhole'
  <2>1. \A s \in Calls \ {r} : IsFinished(s)' <=> IsFinished(s)
    BY <1>1, <1>3, ByStream, StreamsNext
  <2>2. Whole(queue'[r], received'[r], call'[r])
    <3>1. DOMAIN queue'[r] = {} /\ queue'[r] = <<>>
      BY <1>1, <1>2
    <3> QED
      BY <1>3, <3>1 DEF Whole
  <2>3. \A s \in Calls \ {r} : Whole(queue'[s], received'[s], call'[s])
    BY <1>1, <1>3, ByStream
  <2>4. \A s \in Calls : Whole(queue'[s], received'[s], call'[s])
    BY <2>2, <2>3
  <2> QED
    BY <2>1, <2>4, StreamsNext
<1>s. ToSet(new_requests) \cup streams \cup to_add \cup DOMAIN core \subseteq Calls
  BY <1>1, ElementsOf DEF AsyncTypeOK
<1>5. CASE IsRunning
  <2>1. /\ call'[r] = "open" /\ UNCHANGED <<streams, aborted, strays, bg_loop>>
        /\ new_requests' = Append(new_requests, r) /\ event' = TRUE
    BY <1>1, <1>5 DEF AddRequest
  <2>2. ToSet(new_requests') = ToSet(new_requests) \cup {r} /\ new_requests' \in Seq(Calls)
    BY <1>1, <2>1, OneMore
  <2>3. AsyncTypeOK'
    BY <1>1, <1>3, <2>1, <2>2 DEF AsyncTypeOK
  <2>4. SomebodyListens'
    BY <1>1, <2>1 DEF SomebodyListens, InEngine
  <2>5. NewInv'
    BY <1>1, <1>2, <1>3, <1>s, <2>1, <2>2 DEF NewInv, Untouched
  <2>6. TrackInv'
    BY <1>1, <1>2, <1>3, <1>4, <1>s, <2>1, <2>2 DEF TrackInv, IsRunning
  <2>7. BgInv'
    BY <1>1, <1>5, <2>1 DEF BgInv, IsRunning
  <2> QED
    BY <1>4, <2>3, <2>4, <2>5, <2>6, <2>7
<1>6. CASE ~IsRunning /\ died
  <2>1. /\ call'[r] = "failed"
        /\ UNCHANGED <<streams, aborted, strays, bg_loop, new_requests, event>>
    BY <1>1, <1>6 DEF AddRequest, trackerVars
  <2>3. AsyncTypeOK'
    BY <1>1, <1>3, <2>1 DEF AsyncTypeOK
  <2>4. SomebodyListens'
    BY <1>1, <2>1 DEF SomebodyListens, InEngine
  <2>5. NewInv'
    BY <1>1, <1>2, <1>3, <1>s, <2>1 DEF NewInv, Untouched
  <2>6. TrackInv'
    BY <1>1, <1>2, <1>3, <1>4, <1>s, <2>1 DEF TrackInv, IsRunning
  <2>7. BgInv'
    BY <1>1, <1>6, <2>1 DEF BgInv
  <2> QED
    BY <1>4, <2>3, <2>4, <2>5, <2>6, <2>7
<1>7. CASE ~IsRunning /\ ~died
  <2>1. /\ call'[r] = "open" /\ streams' = {} /\ aborted' = {} /\ event' = TRUE
        /\ strays' = strays \cup streams \cup ToSet(new_requests)
        /\ bg_loop' = "idle" /\ new_requests' = <<r>>
    BY <1>1, <1>7 DEF AddRequest
  <2>2. ToSet(new_requests') = {r} /\ new_requests' \in Seq(Calls)
    BY <2>1 DEF ToSet
  <2>3. ToSet(new_requests) \subseteq Calls
    BY <1>1, ElementsOf
  <2>4. /\ bg_loop \in {"none", "dead"} /\ engine_step = "none"
        /\ bg_loop = "none" => \A s \in Calls : call[s] = "new"
    BY <1>7 DEF BgInv, IsRunning, AsyncTypeOK
  <2>5. AsyncTypeOK'
    BY <1>1, <1>3, <2>1, <2>2, <2>3 DEF AsyncTypeOK
  <2>6. bg_loop = "none" => /\ \A s \in Calls : ~InEngine(s)
                            /\ streams = {} /\ ToSet(new_requests) = {}
    <3>1. bg_loop = "none" => \A s \in Calls : s \notin streams \cup to_add \cup DOMAIN core
                                                      \cup ToSet(new_requests)
      BY <2>4 DEF NewInv, Untouched
    <3> QED
      BY <2>3, <3>1 DEF InEngine, AsyncTypeOK
  <2>7. SomebodyListens'
    BY <1>1, <1>7, <2>1, <2>4, <2>6 DEF SomebodyListens, InEngine, BgInv
  <2>8. NewInv'
    BY <1>1, <1>2, <1>3, <2>1, <2>2 DEF NewInv, Untouched
  <2>9. TrackInv'
    BY <1>1, <1>2, <1>3, <1>4, <2>1, <2>2 DEF TrackInv
  <2>10. BgInv'
    BY <1>1, <2>1, <2>4, <2>6 DEF BgInv
  <2> QED
    BY <1>4, <2>5, <2>7, <2>8, <2>9, <2>10
<1> QED
  BY <1>5, <1>6, <1>7

(* A caller who waits is cancelled: nobody is told.                        *)
LEMMA CancelGetStep ==
    ASSUME AsyncInv, NEW r \in Calls, CancelGet(r)
    PROVE  AsyncInv'
<1> USE DEF AsyncInv
<1>1. /\ UNCHANGED <<queue, received, streams, new_requests, aborted, event, strays>>
      /\ UNCHANGED <<engine_step, to_add, to_abort, core, bg_loop, callbacks, died, troubles>>
      /\ call[r] = "open" /\ call' = [call EXCEPT ![r] = "left"]
      /\ call \in [Calls -> {"new", "open", "done", "failed", "left"}]
  BY DEF CancelGet, AsyncTypeOK, trackerVars, stepVars, loopVars
<1>2. /\ call' \in [Calls -> {"new", "open", "done", "failed", "left"}]
      /\ call'[r] = "left" /\ \A s \in Calls \ {r} : call'[s] = call[s]
  BY <1>1
<1>3. \A s \in Calls : IsFinished(s)' <=> IsFinished(s)
  BY <1>1, <1>2, ByStream, StreamsNext
<1>4. StreamsAreWhole'
  <2>1. \A s \in Calls : Whole(queue[s], received[s], call[s])
    BY ByStream
  <2>2. ASSUME NEW s \in Calls PROVE Whole(queue'[s], received'[s], call'[s])
    <3>1. Whole(queue[s], received[s], call[s]) /\ call'[s] \in {call[s], "left"}
      BY <1>2, <2>1
    <3> QED
      BY <1>1, <3>1 DEF Whole
  <2> QED
    BY <2>2, StreamsNext
<1>s. streams \cup to_add \subseteq Calls
  BY DEF AsyncTypeOK
<1>5. AsyncTypeOK'
  BY <1>1, <1>2 DEF AsyncTypeOK
<1>6. SomebodyListens'
  BY <1>1 DEF SomebodyListens, InEngine
<1>7. NewInv'
  BY <1>1, <1>2 DEF NewInv, Untouched
<1>8. TrackInv'
  BY <1>1, <1>2, <1>3, <1>s DEF TrackInv, IsRunning
<1>9. BgInv'
  BY <1>1, <1>2 DEF BgInv
<1> QED
  BY <1>4, <1>5, <1>6, <1>7, <1>8, <1>9

(* A caller takes what his stream has next: also the last he will be given.*)
LEMMA NextItemStep ==
    ASSUME AsyncInv, NEW r \in Calls, NextItem(r)
    PROVE  AsyncInv'
<1> USE DEF AsyncInv
<1>1. /\ UNCHANGED <<streams, new_requests, aborted, event, strays>>
      /\ UNCHANGED <<engine_step, to_add, to_abort, core, bg_loop, callbacks, died, troubles>>
      /\ call[r] = "open" /\ queue[r] # <<>> /\ queue' = [queue EXCEPT ![r] = Tail(@)]
      /\ call \in [Calls -> {"new", "open", "done", "failed", "left"}]
      /\ queue \in [Calls -> Seq(Items)] /\ received \in [Calls -> 0 .. NumItems]
  BY DEF NextItem, AsyncTypeOK, Items, trackerVars, stepVars, loopVars
<1>w. \A s \in Calls : Whole(queue[s], received[s], call[s])
  BY ByStream
<1>s. ToSet(new_requests) \cup streams \cup to_add \cup DOMAIN core \subseteq Calls
  BY ElementsOf DEF AsyncTypeOK
<1> DEFINE q == queue[r]
<1>2. /\ Tail(q) \in Seq(Items) /\ Head(q) = q[1] /\ Head(q) \in Items
      /\ Len(q) \in Nat \ {0} /\ Len(Tail(q)) = Len(q) - 1
      /\ Head(q) \in Ends => Tail(q) = <<>> /\ Closed(q)
      /\ Head(q) \notin Ends =>
            /\ Head(q) = received[r] + 1 /\ Head(q) \in 1 .. NumItems
            /\ Whole(Tail(q), received[r] + 1, call[r]) \/ call[r] = "done"
            /\ Closed(q) <=> Closed(Tail(q))
  <2>1. q \in Seq(Items) /\ received[r] \in Nat /\ q # <<>> /\ Whole(q, received[r], call[r])
    BY <1>1, <1>w, AsyncAssumption
  <2> HIDE DEF q
  <2> QED
    BY <2>1, WithoutFirst
<1>3. /\ queue'[r] = Tail(q) /\ queue' \in [Calls -> Seq(Items)]
      /\ \A s \in Calls \ {r} : queue'[s] = queue[s]
  BY <1>1, <1>2
<1>n. r \notin ToSet(new_requests)
  BY <1>1 DEF NewInv, Untouched
<1>f. IsFinished(r) <=> Closed(q)
  BY <1>1, ByStream
<1> HIDE DEF q
<1>4. CASE Head(q) \in Ends
  <2>1. /\ call' = [call EXCEPT ![r] = IF Head(q) = STOP_ITERATION THEN "done" ELSE "failed"]
        /\ UNCHANGED received
    BY <1>4 DEF NextItem, q
  <2>2. /\ call' \in [Calls -> {"new", "open", "done", "failed", "left"}]
        /\ call'[r] \in {"done", "failed"} /\ \A s \in Calls \ {r} : call'[s] = call[s]
        /\ call'[r] = "done" => Head(q) = STOP_ITERATION
    BY <1>1, <2>1
  <2>3. queue'[r] = <<>> /\ IsFinished(r) /\ IsFinished(r)'
    BY <1>2, <1>3, <1>4, <1>f, <2>2 DEF IsFinished
  <2>4. \A s \in Calls \ {r} : IsFinished(s)' <=> IsFinished(s)
    BY <1>3, <2>2, ByStream, StreamsNext
  <2>5. StreamsAreWhole'
    <3>1. call'[r] = "done" => received[r] = NumItems
      <4>1. Len(q) = 1
        BY <1>2, <1>4, EmptySeq
      <4>2. Whole(q, received[r], "open")
        BY <1>1, <1>w DEF q
      <4>3. call'[r] = "done" => q[1] = STOP_ITERATION
        BY <1>2, <2>2
      <4>4. call'[r] = "done" => received[r] + 1 - 1 = NumItems
        BY <1>1, <4>1, <4>2, <4>3 DEF Whole, q
      <4> QED
        BY <1>1, <4>4
    <3>2. Whole(queue'[r], received'[r], call'[r])
      <4>1. DOMAIN queue'[r] = {} /\ queue'[r] = <<>>
        BY <2>3
      <4> QED
        BY <2>1, <2>2, <3>1, <4>1 DEF Whole
    <3>3. \A s \in Calls \ {r} : Whole(queue'[s], received'[s], call'[s])
      BY <1>3, <1>w, <2>1, <2>2
    <3> QED
      BY <3>2, <3>3, StreamsNext
  <2>6. AsyncTypeOK'
    BY <1>1, <1>3, <2>1, <2>2 DEF AsyncTypeOK, Items
  <2>7. SomebodyListens'
    BY <1>1 DEF SomebodyListens, InEngine
  <2>8. NewInv'
    BY <1>1, <1>3, <1>n, <1>s, <2>1, <2>2 DEF NewInv, Untouched
  <2>9. TrackInv'
    BY <1>1, <1>3, <1>s, <2>1, <2>2, <2>3, <2>4 DEF TrackInv, IsRunning
  <2>10. BgInv'
    BY <1>1, <2>2 DEF BgInv
  <2> QED
    BY <2>5, <2>6, <2>7, <2>8, <2>9, <2>10
<1>5. CASE Head(q) \notin Ends
  <2>1. received' = [received EXCEPT ![r] = Head(q)] /\ UNCHANGED call
    BY <1>5 DEF NextItem, q
  <2>2. /\ received' \in [Calls -> 0 .. NumItems] /\ received'[r] = received[r] + 1
        /\ \A s \in Calls \ {r} : received'[s] = received[s]
    BY <1>1, <1>2, <1>5, <2>1, AsyncAssumption
  <2>3. \A s \in Calls : IsFinished(s)' <=> IsFinished(s)
    BY <1>1, <1>2, <1>3, <1>5, <1>f, <2>1, ByStream, StreamsNext
  <2>4. StreamsAreWhole'
    <3>1. Whole(queue'[r], received'[r], call'[r])
      BY <1>1, <1>2, <1>3, <1>5, <2>1, <2>2
    <3>2. \A s \in Calls \ {r} : Whole(queue'[s], received'[s], call'[s])
      BY <1>3, <1>w, <2>1, <2>2
    <3> QED
      BY <3>1, <3>2, StreamsNext
  <2>5. r \notin to_add
    BY <1>1, <1>2, <1>5 DEF TrackInv, q
  <2>6. AsyncTypeOK'
    BY <1>1, <1>3, <2>1, <2>2 DEF AsyncTypeOK, Items
  <2>7. SomebodyListens'
    BY <1>1 DEF SomebodyListens, InEngine
  <2>8. NewInv'
    BY <1>1, <1>3, <1>n, <1>s, <2>1, <2>2 DEF NewInv, Untouched
  <2>9. TrackInv'
    <3>1. received[r] + Len(q) = received'[r] + Len(queue'[r])
      BY <1>1, <1>2, <1>3, <2>2
    <3>2. \A s \in streams \cap DOMAIN core : core[s] = received'[s] + Len(queue'[s])
      BY <1>1, <1>3, <1>s, <2>2, <3>1 DEF TrackInv, q
    <3> QED
      BY <1>1, <1>3, <1>s, <2>1, <2>2, <2>3, <2>5, <3>2 DEF TrackInv, IsRunning
  <2>10. BgInv'
    BY <1>1, <2>1 DEF BgInv
  <2> QED
    BY <2>4, <2>6, <2>7, <2>8, <2>9, <2>10
<1> QED
  BY <1>4, <1>5

(* A caller leaves, or anybody aborts a request: the tracker lets go of    *)
(* its stream, which has its end, and will tell the engine.                *)
LEMMA AbortStep ==
    ASSUME AsyncInv, NEW r \in Calls, CloseStream(r) \/ Abort(r)
    PROVE  AsyncInv'
<1> USE DEF AsyncInv
<1>1. /\ UNCHANGED <<received, new_requests, event>>
      /\ UNCHANGED <<engine_step, to_add, to_abort, core, bg_loop, callbacks, died, troubles>>
      /\ call[r] = "open" /\ call' \in {call, [call EXCEPT ![r] = "left"]}
      /\ call \in [Calls -> {"new", "open", "done", "failed", "left"}]
  BY DEF CloseStream, Abort, AsyncTypeOK, stepVars, loopVars
<1>2. /\ call' \in [Calls -> {"new", "open", "done", "failed", "left"}]
      /\ call'[r] \in {"open", "left"} /\ \A s \in Calls \ {r} : call'[s] = call[s]
  BY <1>1
<1>s. /\ ToSet(new_requests) \cup streams \cup to_add \cup DOMAIN core \subseteq Calls
      /\ queue \in [Calls -> Seq(Items)]
  BY ElementsOf DEF AsyncTypeOK, Items
<1>b. BgInv'
  <2>1. bg_loop # "none"
    BY <1>1 DEF BgInv
  <2>2. strays' \subseteq strays
    BY DEF CloseStream, Abort
  <2> QED
    BY <1>1, <2>1, <2>2 DEF BgInv
<1>3. CASE r \in strays /\ CloseStream(r)
  <2>1. /\ UNCHANGED <<queue, streams, aborted>> /\ strays' = strays \ {r}
        /\ call'[r] = "left"
    BY <1>1, <1>3 DEF CloseStream
  <2>2. \A s \in Calls : IsFinished(s)' <=> IsFinished(s)
    BY <1>1, <1>2, <2>1, ByStream, StreamsNext
  <2>3. StreamsAreWhole'
    <3>1. \A s \in Calls : Whole(queue[s], received[s], call[s])
      BY ByStream
    <3>2. ASSUME NEW s \in Calls PROVE Whole(queue'[s], received'[s], call'[s])
      <4>1. Whole(queue[s], received[s], call[s]) /\ call'[s] \in {call[s], "left"}
        BY <1>2, <2>1, <3>1
      <4> QED
        BY <1>1, <2>1, <4>1 DEF Whole
    <3> QED
      BY <3>2, StreamsNext
  <2>4. AsyncTypeOK'
    BY <1>1, <1>2, <2>1 DEF AsyncTypeOK
  <2>5. SomebodyListens'
    <3>1. callbacks > 0 \/ died
      BY <1>3 DEF BgInv
    <3>2. callbacks \in Nat
      BY AsyncAssumption DEF AsyncTypeOK
    <3> QED
      BY <1>1, <3>1, <3>2 DEF SomebodyListens
  <2>6. NewInv'
    BY <1>1, <1>2, <1>s, <2>1 DEF NewInv, Untouched
  <2>7. TrackInv'
    BY <1>1, <1>2, <1>s, <2>1, <2>2 DEF TrackInv, IsRunning
  <2> QED
    BY <1>b, <2>3, <2>4, <2>5, <2>6, <2>7
<1>4. CASE ~(r \in strays /\ CloseStream(r))
  <2> DEFINE S == {r} \cap streams
  <2>1. /\ aborted' = aborted \cup {r} /\ streams' = streams \ {r} /\ UNCHANGED strays
        /\ \E how \in {STOP_ITERATION, CancelledError} :
              /\ FinishAll(S, how)
              /\ how = STOP_ITERATION => call'[r] # "open"
    <3>1. CASE CloseStream(r)
      <4>1. call'[r] = "left" /\ AbortRequests({r}, STOP_ITERATION) /\ UNCHANGED strays
        BY <1>1, <1>4, <3>1 DEF CloseStream
      <4> QED
        BY <4>1 DEF AbortRequests
    <3>2. CASE Abort(r)
      <4>1. CancelledError # STOP_ITERATION
        BY DEF CancelledError, STOP_ITERATION
      <4> QED
        BY <3>2, <4>1 DEF Abort, AbortRequests
    <3> QED
      BY <3>1, <3>2
  <2>2. /\ queue' \in [Calls -> Seq(Items)] /\ StreamsAreWhole'
        /\ \A s \in Calls : s \notin S \/ IsFinished(s) => queue'[s] = queue[s]
        /\ \A s \in Calls : call'[s] = call[s] /\ (s \in S \/ IsFinished(s)) => IsFinished(s)'
        /\ \A s \in Calls \ S : call'[s] = call[s] => (IsFinished(s)' <=> IsFinished(s))
        /\ \A s \in Calls : (queue[s] # <<>> => queue[s][1] \in Ends)
                               => (queue'[s] # <<>> => queue'[s][1] \in Ends)
    <3>1. PICK how \in {STOP_ITERATION, CancelledError} :
              FinishAll(S, how) /\ (how = STOP_ITERATION => call'[r] # "open")
      BY <2>1
    <3>2. how \in Ends
      BY DEF Ends
    <3>3. S \in SUBSET Calls /\ \A s \in S : s = r
      OBVIOUS
    <3>4. \A s \in Calls : call'[s] = call[s] \/ call'[s] = "left"
      BY <1>1, <1>2
    <3>5. how = STOP_ITERATION => \A s \in S : call'[s] # "open"
      BY <3>1, <3>3
    <3> HIDE DEF S
    <3> QED
      BY <1>1, <3>1, <3>2, <3>3, <3>4, <3>5, Finishing
  <2>s. S = {r} \cap streams
    OBVIOUS
  <2> HIDE DEF S
  <2>3. AsyncTypeOK'
    BY <1>1, <1>2, <2>1, <2>2 DEF AsyncTypeOK, Items
  <2>4. SomebodyListens'
    BY <1>1, <2>1 DEF SomebodyListens, InEngine
  <2>5. NewInv'
    <3>1. \A s \in Calls : s \notin streams => queue'[s] = queue[s]
      BY <2>2, <2>s
    <3> QED
      BY <1>1, <1>2, <1>s, <2>1, <3>1 DEF NewInv, Untouched
  <2>6. TrackInv'
    <3>1. /\ to_add' \cap DOMAIN core' = {}
          /\ streams' \cap (aborted' \cup to_abort') = {}
          /\ IsRunning' /\ engine_step' # "raised" => streams' \subseteq to_add' \cup DOMAIN core'
      BY <1>1, <2>1 DEF TrackInv, IsRunning
    <3>2. \A s \in streams' : ~IsFinished(s)'
      BY <1>2, <1>s, <2>1, <2>2, <2>s DEF TrackInv
    <3>3. \A s \in Calls : call'[s] \in {"done", "failed"} => queue'[s] = <<>>
      BY <1>2, <2>2, <2>s DEF TrackInv
    <3>4. \A s \in streams' \cap DOMAIN core' : core'[s] = received'[s] + Len(queue'[s])
      BY <1>1, <1>s, <2>1, <2>2, <2>s DEF TrackInv
    <3>5. \A s \in to_add' : received'[s] = 0 /\ (queue'[s] # <<>> => queue'[s][1] \in Ends)
      BY <1>1, <1>s, <2>2 DEF TrackInv
    <3>6. \A s \in Calls \ strays' : call'[s] = "open" =>
              IsFinished(s)' \/ s \in ToSet(new_requests') \cup streams'
      BY <1>1, <1>2, <2>1, <2>2, <2>s DEF TrackInv
    <3> QED
      BY <3>1, <3>2, <3>3, <3>4, <3>5, <3>6 DEF TrackInv
  <2> QED
    BY <1>b, <2>2, <2>3, <2>4, <2>5, <2>6
<1> QED
  BY <1>3, <1>4

(* What a sequence holds.                                                  *)
LEMMA ToSetIn ==
    ASSUME NEW S, NEW s \in Seq(S)
    PROVE  ToSet(s) \subseteq S
<1>1. \A i \in DOMAIN s : s[i] \in S
  OBVIOUS
<1> QED
  BY <1>1 DEF ToSet

(* A step begins: what is new gets a stream, unless it was aborted before. *)
LEMMA BeginStep ==
    ASSUME AsyncInv, BeginEngineStep
    PROVE  AsyncInv'
<1> USE DEF AsyncInv
<1>1. /\ UNCHANGED <<call, received, event, strays, core, bg_loop, callbacks, died, troubles>>
      /\ engine_step = "begin" /\ engine_step' = "adding"
      /\ new_requests' = <<>> /\ aborted' = {}
      /\ to_add' = ToSet(new_requests) \ aborted /\ to_abort' = aborted \ ToSet(new_requests)
      /\ streams' = streams \cup (ToSet(new_requests) \ aborted)
  BY DEF BeginEngineStep, GetNewAndAborted, loopVars
<1> DEFINE N == ToSet(new_requests)
           S == aborted \cap N
<1>s. /\ N \cup streams \cup DOMAIN core \cup aborted \subseteq Calls
      /\ queue \in [Calls -> Seq(Items)]
  <2>1. new_requests \in Seq(Calls)
    BY DEF AsyncTypeOK
  <2>2. ToSet(new_requests) \subseteq Calls
    BY <2>1, ToSetIn
  <2> QED
    BY <2>2 DEF AsyncTypeOK, Items
<1>2. /\ queue' \in [Calls -> Seq(Items)] /\ StreamsAreWhole'
      /\ \A s \in Calls : s \notin S \/ IsFinished(s) => queue'[s] = queue[s]
      /\ \A s \in Calls : call'[s] = call[s] /\ (s \in S \/ IsFinished(s)) => IsFinished(s)'
      /\ \A s \in Calls \ S : call'[s] = call[s] => (IsFinished(s)' <=> IsFinished(s))
      /\ \A s \in Calls : (queue[s] # <<>> => queue[s][1] \in Ends)
                             => (queue'[s] # <<>> => queue'[s][1] \in Ends)
  <2>1. FinishAll(S, CancelledError) /\ S \in SUBSET Calls
    BY <1>s DEF BeginEngineStep, GetNewAndAborted
  <2>2. CancelledError \in Ends /\ CancelledError # STOP_ITERATION
    BY DEF Ends, CancelledError, STOP_ITERATION
  <2> HIDE DEF S
  <2> QED
    BY <1>1, <2>1, <2>2, Finishing
<1>3. /\ \A s \in N : queue[s] = <<>> /\ received[s] = 0 /\ call[s] \in {"open", "left"}
      /\ \A s \in N : s \notin streams \cup DOMAIN core
  BY DEF NewInv, Untouched
<1>4. \A s \in N : ~IsFinished(s)
  <2> SUFFICES ASSUME NEW s \in N PROVE ~IsFinished(s)
    OBVIOUS
  <2>1. queue[s] = <<>> /\ call[s] \in {"open", "left"}
    BY <1>3
  <2>2. DOMAIN queue[s] = {}
    BY <2>1
  <2> QED
    BY <2>1, <2>2, ByStream DEF Closed
<1>5. to_add = {} /\ to_abort = {}
  BY <1>1 DEF BgInv
<1>6. S = aborted \cap N /\ ToSet(<<>>) = {}
  BY DEF ToSet
<1>c. \A s \in Calls : call[s] = "new" => s \notin N \cup aborted
  BY DEF NewInv
<1> HIDE DEF S, N
<1>7. AsyncTypeOK'
  BY <1>1, <1>2, <1>s DEF AsyncTypeOK, Items, N
<1>8. SomebodyListens'
  BY <1>1, <1>3, <1>5, <1>s DEF SomebodyListens, InEngine, N
<1>9. NewInv'
  <2>1. ToSet(new_requests') = {}
    BY <1>1, <1>6
  <2>2. ASSUME NEW s \in Calls, call'[s] = "new"
        PROVE  Untouched(s)' /\ s \notin ToSet(new_requests') \cup aborted' \cup strays'
    <3>1. /\ s \notin N \cup aborted \cup strays \cup streams \cup DOMAIN core
          /\ queue[s] = <<>> /\ received[s] = 0
      BY <1>1, <1>c, <2>2 DEF NewInv, Untouched
    <3>2. queue'[s] = <<>>
      BY <1>2, <1>6, <3>1
    <3> QED
      BY <1>1, <2>1, <3>1, <3>2 DEF Untouched, N
  <2> QED
    BY <2>1, <2>2 DEF NewInv
<1>10. TrackInv'
  <2>1. /\ to_add' \cap DOMAIN core' = {}
        /\ streams' \cap (aborted' \cup to_abort') = {}
        /\ IsRunning' /\ engine_step' # "raised" => streams' \subseteq to_add' \cup DOMAIN core'
    BY <1>1, <1>3, <1>5 DEF TrackInv, IsRunning, N
  <2>s. \A s \in streams \cup (N \ aborted) : s \notin S /\ s \in Calls /\ ~IsFinished(s)
    BY <1>3, <1>4, <1>6, <1>s DEF TrackInv
  <2>2. \A s \in streams' : ~IsFinished(s)'
    BY <1>1, <1>2, <2>s DEF N
  <2>3. \A s \in Calls : call'[s] \in {"done", "failed"} => queue'[s] = <<>>
    BY <1>1, <1>2, <1>3, <1>6 DEF TrackInv
  <2>4. \A s \in streams' \cap DOMAIN core' : core'[s] = received'[s] + Len(queue'[s])
    BY <1>1, <1>2, <1>3, <2>s DEF TrackInv, N
  <2>5. \A s \in to_add' : received'[s] = 0 /\ (queue'[s] # <<>> => queue'[s][1] \in Ends)
    BY <1>1, <1>2, <1>3, <2>s DEF N
  <2>6. \A s \in Calls \ strays' : call'[s] = "open" =>
            IsFinished(s)' \/ s \in ToSet(new_requests') \cup streams'
    BY <1>1, <1>2, <1>6 DEF TrackInv, N
  <2> QED
    BY <2>1, <2>2, <2>3, <2>4, <2>5, <2>6 DEF TrackInv
<1>11. BgInv'
  BY <1>1 DEF BgInv
<1> QED
  BY <1>2, <1>7, <1>8, <1>9, <1>10, <1>11

(* A request reaches the engine, or is refused and aborted.                *)
LEMMA AddToEngineStep ==
    ASSUME AsyncInv, NEW r \in Calls, AddToEngine(r)
    PROVE  AsyncInv'
<1> USE DEF AsyncInv
<1>1. /\ UNCHANGED <<call, received, new_requests, event, strays, engine_step, to_abort>>
      /\ UNCHANGED <<bg_loop, callbacks, died, troubles>>
      /\ engine_step = "adding" /\ r \in to_add /\ to_add' = to_add \ {r}
  BY DEF AddToEngine, loopVars
<1>s. /\ ToSet(new_requests) \cup streams \cup to_add \cup DOMAIN core \subseteq Calls
      /\ queue \in [Calls -> Seq(Items)]
  <2>1. new_requests \in Seq(Calls)
    BY DEF AsyncTypeOK
  <2>2. ToSet(new_requests) \subseteq Calls
    BY <2>1, ToSetIn
  <2> QED
    BY <2>2 DEF AsyncTypeOK, Items
<1>2. /\ received[r] = 0 /\ r \notin DOMAIN core /\ call[r] # "new"
      /\ r \notin ToSet(new_requests)
  BY <1>1 DEF TrackInv, NewInv, Untouched
<1>3. r \in streams => queue[r] = <<>> /\ Len(queue[r]) = 0
  <2> SUFFICES ASSUME r \in streams PROVE queue[r] = <<>>
    OBVIOUS
  <2>1. ~Closed(queue[r])
    BY ByStream DEF TrackInv
  <2>2. queue[r] # <<>> => 1 \in DOMAIN queue[r]
    BY <1>s, EmptySeq
  <2> QED
    BY <1>1, <2>1, <2>2 DEF TrackInv, Closed
<1>b. BgInv'
  BY <1>1 DEF BgInv
<1>4. CASE /\ core' = [s \in DOMAIN core \cup {r} |-> IF s \in DOMAIN core THEN core[s] ELSE 0]
           /\ UNCHANGED <<queue, aborted, streams>>
  <2>1. /\ DOMAIN core' = DOMAIN core \cup {r} /\ core'[r] = 0
        /\ \A s \in DOMAIN core : core'[s] = core[s]
    BY <1>2, <1>4
  <2>2. StreamsAreWhole' /\ \A s : IsFinished(s)' <=> IsFinished(s)
    BY <1>1, <1>4, SameCallers DEF callerVars
  <2>3. AsyncTypeOK'
    <3>1. core' \in [DOMAIN core' -> 0 .. NumItems - 1]
      BY <1>2, <1>4, AsyncAssumption DEF AsyncTypeOK
    <3> QED
      BY <1>1, <1>4, <1>s, <2>1, <3>1 DEF AsyncTypeOK
  <2>4. SomebodyListens'
    BY <1>1, <1>4, <2>1 DEF SomebodyListens, InEngine
  <2>5. NewInv'
    BY <1>1, <1>2, <1>4, <1>s, <2>1 DEF NewInv, Untouched
  <2>6. TrackInv'
    <3>1. \A s \in streams' \cap DOMAIN core' : core'[s] = received'[s] + Len(queue'[s])
      BY <1>1, <1>2, <1>3, <1>4, <2>1 DEF TrackInv
    <3> QED
      BY <1>1, <1>4, <2>1, <2>2, <3>1 DEF TrackInv, IsRunning
  <2> QED
    BY <1>b, <2>2, <2>3, <2>4, <2>5, <2>6
<1>5. CASE AbortRequests({r}, Exception) /\ UNCHANGED core
  <2> DEFINE S == {r} \cap streams
  <2>1. /\ aborted' = aborted \cup {r} /\ streams' = streams \ {r}
        /\ FinishAll(S, Exception)
    BY <1>5 DEF AbortRequests
  <2>2. /\ queue' \in [Calls -> Seq(Items)] /\ StreamsAreWhole'
        /\ \A s \in Calls : s \notin S \/ IsFinished(s) => queue'[s] = queue[s]
        /\ \A s \in Calls : call'[s] = call[s] /\ (s \in S \/ IsFinished(s)) => IsFinished(s)'
        /\ \A s \in Calls \ S : call'[s] = call[s] => (IsFinished(s)' <=> IsFinished(s))
        /\ \A s \in Calls : (queue[s] # <<>> => queue[s][1] \in Ends)
                               => (queue'[s] # <<>> => queue'[s][1] \in Ends)
    <3>1. Exception \in Ends /\ Exception # STOP_ITERATION /\ S \in SUBSET Calls
      BY DEF Ends, Exception, STOP_ITERATION
    <3> HIDE DEF S
    <3> QED
      BY <1>1, <2>1, <3>1, Finishing
  <2>s. S = {r} \cap streams
    OBVIOUS
  <2> HIDE DEF S
  <2>3. AsyncTypeOK'
    BY <1>1, <1>5, <2>1, <2>2 DEF AsyncTypeOK, Items
  <2>4. SomebodyListens'
    BY <1>1, <1>2, <1>5, <2>1 DEF SomebodyListens, InEngine
  <2>5. NewInv'
    <3>1. \A s \in Calls : s \notin streams => queue'[s] = queue[s]
      BY <2>2, <2>s
    <3> QED
      BY <1>1, <1>2, <1>5, <1>s, <2>1, <3>1 DEF NewInv, Untouched
  <2>6. TrackInv'
    <3>1. /\ to_add' \cap DOMAIN core' = {}
          /\ streams' \cap (aborted' \cup to_abort') = {}
          /\ IsRunning' /\ engine_step' # "raised" => streams' \subseteq to_add' \cup DOMAIN core'
      BY <1>1, <1>5, <2>1 DEF TrackInv, IsRunning
    <3>2. \A s \in streams' : ~IsFinished(s)'
      BY <1>1, <1>s, <2>1, <2>2, <2>s DEF TrackInv
    <3>3. \A s \in Calls : call'[s] \in {"done", "failed"} => queue'[s] = <<>>
      BY <1>1, <2>2, <2>s, ByStream DEF TrackInv
    <3>4. \A s \in streams' \cap DOMAIN core' : core'[s] = received'[s] + Len(queue'[s])
      BY <1>1, <1>5, <1>s, <2>1, <2>2, <2>s DEF TrackInv
    <3>5. \A s \in to_add' : received'[s] = 0 /\ (queue'[s] # <<>> => queue'[s][1] \in Ends)
      BY <1>1, <1>s, <2>2 DEF TrackInv
    <3>6. \A s \in Calls \ strays' : call'[s] = "open" =>
              IsFinished(s)' \/ s \in ToSet(new_requests') \cup streams'
      BY <1>1, <2>1, <2>2, <2>s DEF TrackInv
    <3> QED
      BY <3>1, <3>2, <3>3, <3>4, <3>5, <3>6 DEF TrackInv
  <2> QED
    BY <1>b, <2>2, <2>3, <2>4, <2>5, <2>6
<1> QED
  BY <1>4, <1>5 DEF AddToEngine

(* The callback of a loop that died: everyone whom the tracker of the day  *)
(* knows is told.                                                          *)
LEMMA ErrorCallbackStep ==
    ASSUME AsyncInv, ErrorCallback
    PROVE  AsyncInv'
<1> USE DEF AsyncInv
<1>1. /\ UNCHANGED <<call, received, new_requests, event, strays, bg_loop, troubles>>
      /\ UNCHANGED <<engine_step, to_add, to_abort, core>>
      /\ callbacks > 0 /\ callbacks' = callbacks - 1 /\ died' = TRUE
      /\ aborted' = aborted \cup streams /\ streams' = {}
      /\ FinishAll(streams, Exception)
  <2>1. streams \ streams = {} /\ streams \cap streams = streams
    OBVIOUS
  <2> QED
    BY <2>1 DEF ErrorCallback, AbortRequests, stepVars
<1>s. ToSet(new_requests) \cup streams \cup to_add \cup DOMAIN core \subseteq Calls
  <2>1. new_requests \in Seq(Calls)
    BY DEF AsyncTypeOK
  <2>2. ToSet(new_requests) \subseteq Calls
    BY <2>1, ToSetIn
  <2> QED
    BY <2>2 DEF AsyncTypeOK
<1>2. /\ queue' \in [Calls -> Seq(Items)] /\ StreamsAreWhole'
      /\ \A s \in Calls : s \notin streams \/ IsFinished(s) => queue'[s] = queue[s]
      /\ \A s \in Calls : call'[s] = call[s] /\ (s \in streams \/ IsFinished(s)) => IsFinished(s)'
      /\ \A s \in Calls \ streams : call'[s] = call[s] => (IsFinished(s)' <=> IsFinished(s))
      /\ \A s \in Calls : (queue[s] # <<>> => queue[s][1] \in Ends)
                             => (queue'[s] # <<>> => queue'[s][1] \in Ends)
  <2>1. Exception \in Ends /\ Exception # STOP_ITERATION /\ streams \in SUBSET Calls
    BY <1>s DEF Ends, Exception, STOP_ITERATION
  <2> QED
    BY <1>1, <2>1, Finishing
<1>3. AsyncTypeOK'
  BY <1>1, <1>2, AsyncAssumption DEF AsyncTypeOK, Items
<1>4. SomebodyListens'
  BY <1>1 DEF SomebodyListens
<1>5. NewInv'
  BY <1>1, <1>2, <1>s DEF NewInv, Untouched
<1>6. TrackInv'
  <2>1. \A s \in Calls : call'[s] \in {"done", "failed"} => queue'[s] = <<>>
    BY <1>1, <1>2, ByStream DEF TrackInv
  <2>2. \A s \in to_add' : received'[s] = 0 /\ (queue'[s] # <<>> => queue'[s][1] \in Ends)
    BY <1>1, <1>2, <1>s DEF TrackInv
  <2>3. \A s \in Calls \ strays' : call'[s] = "open" =>
            IsFinished(s)' \/ s \in ToSet(new_requests') \cup streams'
    <3> SUFFICES ASSUME NEW s \in Calls \ strays, call[s] = "open"
                 PROVE  IsFinished(s)' \/ s \in ToSet(new_requests')
      BY <1>1
    <3>1. IsFinished(s) \/ s \in ToSet(new_requests) \/ s \in streams
      BY DEF TrackInv
    <3>2. s \in streams \/ IsFinished(s) => IsFinished(s)'
      BY <1>1, <1>2
    <3> QED
      BY <1>1, <3>1, <3>2
  <2> QED
    BY <1>1, <2>1, <2>2, <2>3 DEF TrackInv, IsRunning
<1>7. BgInv'
  BY <1>1, AsyncAssumption DEF BgInv, AsyncTypeOK
<1> QED
  BY <1>2, <1>3, <1>4, <1>5, <1>6, <1>7

(* A step ends: every stream that the tracker holds gets the output that   *)
(* the engine made for it, and the last output ends it.                    *)
LEMMA EndStep ==
    ASSUME AsyncInv, EndEngineStep
    PROVE  AsyncInv'
<1> USE DEF AsyncInv
<1> DEFINE over == {r \in DOMAIN core : LastOutput(r)}
           told == DOMAIN core \cap streams
           items == [r \in told |-> IF r \in over THEN <<NumItems, STOP_ITERATION>>
                                                  ELSE <<core[r] + 1>>]
<1>1. /\ UNCHANGED <<call, received, new_requests, aborted, event, strays, to_add, to_abort>>
      /\ UNCHANGED <<bg_loop, callbacks, died, troubles>>
      /\ engine_step = "model" /\ engine_step' \in {"finished", "unfinished"}
      /\ streams' = streams \ over
      /\ core' = [r \in DOMAIN core \ over |-> core[r] + 1]
      /\ Put(items)
  BY DEF EndEngineStep, loopVars
<1>s. /\ ToSet(new_requests) \cup streams \cup DOMAIN core \subseteq Calls
      /\ queue \in [Calls -> Seq(Items)] /\ received \in [Calls -> 0 .. NumItems]
      /\ core \in [DOMAIN core -> 0 .. NumItems - 1]
  <2>1. new_requests \in Seq(Calls)
    BY DEF AsyncTypeOK
  <2>2. ToSet(new_requests) \subseteq Calls
    BY <2>1, ToSetIn
  <2> QED
    BY <2>2 DEF AsyncTypeOK, Items
<1>2. /\ \A r \in over : r \in DOMAIN core /\ core[r] + 1 = NumItems
      /\ \A r \in DOMAIN core \ over : core[r] + 1 # NumItems
      /\ told = DOMAIN core \cap streams
      /\ DOMAIN items = told
      /\ \A r \in told \cap over : items[r] = <<NumItems, STOP_ITERATION>>
      /\ \A r \in told \ over : items[r] = <<core[r] + 1>>
  BY DEF LastOutput
<1> HIDE DEF over, told, items
<1>3. queue' = [r \in Calls |-> IF r \in told /\ ~IsFinished(r) THEN queue[r] \o items[r]
                                                              ELSE queue[r]]
  BY <1>1, <1>2 DEF Put
<1>4. to_add = {} /\ to_abort = {}
  BY <1>1 DEF BgInv
<1>5. DOMAIN core' = DOMAIN core \ over /\ \A r \in DOMAIN core' : core'[r] = core[r] + 1
  BY <1>1
<1>w. \A r \in Calls : Whole(queue[r], received[r], call[r])
  BY ByStream
<1>6. \A r \in Calls \ told : queue'[r] = queue[r]
  BY <1>3
<1>7. ASSUME NEW r \in told
      PROVE  /\ queue'[r] \in Seq(Items) /\ Whole(queue'[r], received[r], call[r])
             /\ r \in over => Closed(queue'[r])
             /\ r \notin over => /\ ~Closed(queue'[r])
                                /\ core[r] + 1 = received[r] + Len(queue'[r])
  <2>1. /\ r \in Calls /\ r \in streams /\ r \in DOMAIN core /\ ~IsFinished(r)
        /\ core[r] = received[r] + Len(queue[r]) /\ core[r] \in 0 .. NumItems - 1
        /\ queue[r] \in Seq(Items) /\ received[r] \in Nat
    BY <1>s, <1>2, AsyncAssumption DEF TrackInv
  <2>2. ~Closed(queue[r]) /\ Whole(queue[r], received[r], call[r])
    BY <1>w, <2>1, ByStream
  <2>3. queue'[r] = queue[r] \o items[r] /\ Len(queue[r]) \in Nat
    <3>1. queue'[r] = queue[r] \o items[r]
      BY <1>3, <2>1
    <3>2. Len(queue[r]) \in Nat
      BY <2>1
    <3> QED
      BY <3>1, <3>2
  <2>4. CASE r \in over
    <3>1. received[r] + Len(queue[r]) + 1 = NumItems
      BY <1>2, <2>1, <2>4
    <3>2. queue'[r] = queue[r] \o <<NumItems, STOP_ITERATION>>
      BY <1>2, <2>3, <2>4
    <3>3. /\ queue[r] \o <<NumItems, STOP_ITERATION>> \in Seq(Items)
          /\ Whole(queue[r] \o <<NumItems, STOP_ITERATION>>, received[r], call[r])
          /\ Closed(queue[r] \o <<NumItems, STOP_ITERATION>>)
      BY <2>1, <2>2, <3>1, WithLast
    <3> QED
      BY <2>4, <3>2, <3>3
  <2>5. CASE r \notin over
    <3> DEFINE k == core[r] + 1
    <3>1. k \in 1 .. NumItems /\ k = received[r] + Len(queue[r]) + 1
      BY <2>1, <2>3, AsyncAssumption
    <3>2. queue'[r] = queue[r] \o <<k>>
      BY <1>2, <2>3, <2>5
    <3> HIDE DEF k
    <3>3. /\ queue[r] \o <<k>> \in Seq(Items) /\ Len(queue[r] \o <<k>>) = Len(queue[r]) + 1
          /\ Whole(queue[r] \o <<k>>, received[r], call[r]) /\ ~Closed(queue[r] \o <<k>>)
      BY <2>1, <2>2, <3>1, WithOutput
    <3>4. core[r] + 1 = received[r] + Len(queue'[r])
      BY <2>1, <2>3, <3>2, <3>3
    <3> QED
      BY <2>5, <3>2, <3>3, <3>4
  <2> QED
    BY <2>4, <2>5
<1>8. StreamsAreWhole'
  <2>1. ASSUME NEW r \in Calls PROVE Whole(queue'[r], received'[r], call'[r])
    <3>1. CASE r \in told
      BY <1>1, <1>7, <3>1
    <3>2. CASE r \notin told
      BY <1>1, <1>6, <1>w, <3>2
    <3> QED
      BY <3>1, <3>2
  <2> QED
    BY <2>1, StreamsNext
<1>9. /\ \A r \in Calls \ told : IsFinished(r)' <=> IsFinished(r)
      /\ \A r \in told \cap over : IsFinished(r)'
      /\ \A r \in told \ over : ~IsFinished(r)'
  <2>1. ASSUME NEW r \in Calls \ told PROVE IsFinished(r)' <=> IsFinished(r)
    BY <1>1, <1>6, ByStream, StreamsNext
  <2>2. ASSUME NEW r \in told \cap over PROVE IsFinished(r)'
    BY <1>7, StreamsNext
  <2>3. ASSUME NEW r \in told \ over PROVE ~IsFinished(r)'
    <3>1. ~IsFinished(r) /\ ~Closed(queue'[r])
      BY <1>2, <1>7 DEF TrackInv
    <3> QED
      BY <1>1, <3>1, ByStream, StreamsNext
  <2> QED
    BY <2>1, <2>2, <2>3
<1>10. AsyncTypeOK'
  <2>1. queue' \in [Calls -> Seq(Items)]
    <3>1. \A r \in Calls : queue'[r] \in Seq(Items)
      BY <1>6, <1>7, <1>s
    <3> QED
      BY <1>3, <3>1
  <2>2. core' \in [DOMAIN core' -> 0 .. NumItems - 1]
    <3>1. \A r \in DOMAIN core' : core'[r] \in 0 .. NumItems - 1
      BY <1>2, <1>5, <1>s, AsyncAssumption
    <3> QED
      BY <1>1, <3>1
  <2> QED
    BY <1>1, <1>5, <2>1, <2>2 DEF AsyncTypeOK, Items
<1>11. SomebodyListens'
  BY <1>1, <1>4, <1>5 DEF SomebodyListens, InEngine
<1>12. NewInv'
  <2>1. \A s \in Calls : s \notin streams => queue'[s] = queue[s]
    BY <1>2, <1>6
  <2> QED
    BY <1>1, <1>5, <1>s, <2>1 DEF NewInv, Untouched
<1>13. TrackInv'
  <2>1. /\ to_add' \cap DOMAIN core' = {}
        /\ streams' \cap (aborted' \cup to_abort') = {}
        /\ IsRunning' /\ engine_step' # "raised" => streams' \subseteq to_add' \cup DOMAIN core'
    BY <1>1, <1>4, <1>5 DEF TrackInv, IsRunning
  <2>2. \A s \in streams' : ~IsFinished(s)'
    BY <1>1, <1>2, <1>9, <1>s DEF TrackInv
  <2>3. \A s \in Calls : call'[s] \in {"done", "failed"} => queue'[s] = <<>>
    <3>1. \A s \in Calls : call[s] \in {"done", "failed"} => s \notin told
      BY <1>2, ByStream DEF TrackInv
    <3> QED
      BY <1>1, <1>6, <3>1 DEF TrackInv
  <2>4. \A s \in streams' \cap DOMAIN core' : core'[s] = received'[s] + Len(queue'[s])
    BY <1>1, <1>2, <1>5, <1>7
  <2>6. \A s \in Calls \ strays' : call'[s] = "open" =>
            IsFinished(s)' \/ s \in ToSet(new_requests') \cup streams'
    <3> SUFFICES ASSUME NEW s \in Calls \ strays, call[s] = "open"
                 PROVE  IsFinished(s)' \/ s \in ToSet(new_requests) \/ s \in streams \ over
      BY <1>1
    <3>1. IsFinished(s) \/ s \in ToSet(new_requests) \/ s \in streams
      BY DEF TrackInv
    <3>2. IsFinished(s) => s \notin told
      BY <1>2 DEF TrackInv
    <3>3. s \in streams \cap over => s \in told
      BY <1>2
    <3> QED
      BY <1>9, <3>1, <3>2, <3>3
  <2> QED
    BY <1>1, <1>4, <2>1, <2>2, <2>3, <2>4, <2>6 DEF TrackInv
<1>14. BgInv'
  BY <1>1, <1>4 DEF BgInv
<1> QED
  BY <1>8, <1>10, <1>11, <1>12, <1>13, <1>14

(* Every step of the callers, the loop and its step keeps the invariant.   *)
LEMMA AsyncStep == AsyncInv /\ [AsyncNext]_asyncVars => AsyncInv'
<1> SUFFICES ASSUME AsyncInv, [AsyncNext]_asyncVars PROVE AsyncInv'
  OBVIOUS
<1>1. ASSUME NEW r \in Calls,
             AddRequest(r) \/ NextItem(r) \/ CloseStream(r) \/ CancelGet(r) \/ Abort(r)
      PROVE  AsyncInv'
  BY <1>1, AddRequestStep, NextItemStep, AbortStep, CancelGetStep
<1>2. CASE AsyncTasks
  <2>1. ASSUME NEW r \in to_add, AddToEngine(r) PROVE AsyncInv'
    <3>1. r \in Calls
      BY DEF AsyncInv, AsyncTypeOK
    <3> QED
      BY <2>1, <3>1, AddToEngineStep
  <2> QED
    BY <1>2, <2>1, WakeUpStep, BeginStep, ExecuteStepStep, EndStep,
       NextIterationStep, LoopRaisesStep, ErrorCallbackStep DEF AsyncTasks
<1>3. CASE UNCHANGED asyncVars
  <2>1. /\ UNCHANGED <<call, queue, received, streams, new_requests, aborted, event, strays>>
        /\ UNCHANGED <<engine_step, to_add, to_abort, core, bg_loop, callbacks, died, troubles>>
        /\ UNCHANGED callerVars
    BY <1>3 DEF asyncVars, callerVars, trackerVars, stepVars, loopVars
  <2>2. StreamsAreWhole' /\ \A r : IsFinished(r)' <=> IsFinished(r)
    BY <2>1, SameCallers
  <2>3. AsyncTypeOK' /\ SomebodyListens'
    BY <2>1 DEF AsyncInv, AsyncTypeOK, SomebodyListens, InEngine
  <2>4. NewInv'
    BY <2>1 DEF AsyncInv, NewInv, Untouched
  <2>5. TrackInv'
    BY <2>1, <2>2 DEF AsyncInv, TrackInv, IsRunning
  <2>6. BgInv'
    BY <2>1 DEF AsyncInv, BgInv
  <2> QED
    BY <2>2, <2>3, <2>4, <2>5, <2>6 DEF AsyncInv
<1> QED
  BY <1>1, <1>2, <1>3, StepRaisesStep, LoopTimesOutStep DEF AsyncNext

(* The engine keeps AsyncInv, for any calls, outputs and troubles.         *)
THEOREM AsyncInvariance == AsyncSpec => []AsyncInv
<1>1. ASSUME AsyncInit PROVE AsyncInv
  <2>1. /\ call = [r \in Calls |-> "new"] /\ queue = [r \in Calls |-> <<>>]
        /\ received = [r \in Calls |-> 0]
        /\ streams = {} /\ new_requests = <<>> /\ aborted = {} /\ event = FALSE /\ strays = {}
        /\ bg_loop = "none" /\ callbacks = 0 /\ died = FALSE /\ troubles = 0
        /\ engine_step = "none" /\ to_add = {} /\ to_abort = {} /\ core = <<>>
    BY <1>1 DEF AsyncInit
  <2>2. DOMAIN core = {} /\ ToSet(new_requests) = {} /\ \A r \in Calls : DOMAIN queue[r] = {}
    BY <2>1 DEF ToSet
  <2>3. AsyncTypeOK
    <3>1. core \in [DOMAIN core -> 0 .. NumItems - 1]
      BY <2>1, <2>2
    <3>2. queue \in [Calls -> Seq((1 .. NumItems) \cup Ends)] /\ new_requests \in Seq(Calls)
      BY <2>1
    <3>3. call \in [Calls -> {"new", "open", "done", "failed", "left"}]
      BY <2>1
    <3>4. received \in [Calls -> 0 .. NumItems]
      BY <2>1, AsyncAssumption
    <3>5. callbacks \in 0 .. MaxTroubles /\ troubles \in 0 .. MaxTroubles
      BY <2>1, AsyncAssumption
    <3> QED
      BY <2>1, <2>2, <3>1, <3>2, <3>3, <3>4, <3>5 DEF AsyncTypeOK
  <2>4. StreamsAreWhole
    BY <2>1, <2>2 DEF StreamsAreWhole
  <2>5. SomebodyListens
    BY <2>1, <2>2 DEF SomebodyListens, InEngine
  <2>6. NewInv
    BY <2>1, <2>2 DEF NewInv, Untouched
  <2>7. TrackInv
    BY <2>1, <2>2 DEF TrackInv, IsRunning
  <2>8. BgInv
    BY <2>1 DEF BgInv
  <2> QED
    BY <2>3, <2>4, <2>5, <2>6, <2>7, <2>8 DEF AsyncInv
<1> QED
  BY <1>1, AsyncStep, PTL DEF AsyncSpec

(* Whatever the order in which requests are added, aborted, refused and    *)
(* answered, and whenever a step raises or takes too long: what a caller   *)
(* is given is whole; while a loop runs a caller of its tracker who waits  *)
(* has something that will answer; and, before the first death of a loop,  *)
(* the engine holds no request that the tracker has lost.                  *)
THEOREM AsyncIsTrackedAlways == AsyncSpec => []AsyncIsTracked
<1>1. ASSUME AsyncInv PROVE SomebodyAnswers
  <2> SUFFICES ASSUME IsRunning, NEW r \in Calls \ strays, call[r] = "open"
               PROVE  \/ IsFinished(r) \/ r \in ToSet(new_requests)
                      \/ (r \in streams /\ InEngine(r)) \/ engine_step = "raised"
    BY DEF SomebodyAnswers
  <2>1. IsFinished(r) \/ r \in ToSet(new_requests) \cup streams
    BY <1>1 DEF AsyncInv, TrackInv
  <2>2. engine_step # "raised" => streams \subseteq to_add \cup DOMAIN core
    BY <1>1 DEF AsyncInv, TrackInv
  <2> QED
    BY <2>1, <2>2 DEF InEngine
<1>2. AsyncInv => AsyncIsTracked
  BY <1>1 DEF AsyncInv, AsyncIsTracked
<1> QED
  BY <1>2, AsyncInvariance, PTL

-----------------------------------------------------------------------------
(* Slurm's files and its jobs *)

(* What discover_clusters reads and writes: lines of which those with one  *)
(* "=" are settings, and no setting is a node or a partition.              *)
LinesOK(c) ==
    /\ DOMAIN c = 1 .. Len(c) /\ Len(c) \in Nat
    /\ \A i \in DOMAIN c : DOMAIN c[i] = {"key", "eq", "value"} /\ c[i].eq \in 1 .. 5
    /\ \A i \in DOMAIN c : c[i].eq = 1 => c[i].key \notin {"NodeName", "PartitionName"}

\* Every key is there once.
OnlyOnce(c) == \A i, j \in DOMAIN c : c[i].key = c[j].key => i = j

(* A file that is about machine m and no other.                             *)
FileFor(c, m) ==
    /\ LinesOK(c)
    /\ OnlyOnce(c)
    /\ \E i \in DOMAIN c : c[i] = NodeLine(m)
    /\ \E i \in DOMAIN c : c[i] = PartitionLine(m)
    /\ \E i \in DOMAIN c : c[i] = Setting("SlurmctldHost", m.host)
    /\ (\E i \in DOMAIN c : c[i].key = "GresTypes") <=> m.gpus > 0

\* What create_slurm_run_command comes to on machine m.
Asked(m, r) ==
    LET most  == GreaterOf(1, m.gpus)
        tasks == LesserOf(r.gpus, IF r.max_gpus = None THEN most ELSE r.max_gpus)
    IN  [ntasks_per_node |-> tasks, gres |-> IF m.gpus > 0 THEN tasks ELSE 0,
         nodes |-> 1, cpus_per_task |-> m.cpus \div GreaterOf(tasks, most),
         time |-> get_train_time_limit(r)]

(* The jobs of this start are those that its files allow.                  *)
SlurmInv ==
    /\ SlurmTypeOK
    /\ LinesOK(slurm_conf)
    /\ booted => /\ FileFor(slurm_conf, machine)
                 /\ \A l \in gres_conf : l.host = machine.host
                 /\ \A i \in DOMAIN jobs : jobs[i].sbatch = Asked(machine, jobs[i].request)

(* A finite set as a sequence has every element once.                      *)
LEMMA EveryKeyOnce ==
    ASSUME NEW K, IsFiniteSet(K)
    PROVE  /\ Cardinality(K) \in Nat /\ SetToSeq(K) \in [1 .. Cardinality(K) -> K]
           /\ \A i, j \in 1 .. Cardinality(K) : SetToSeq(K)[i] = SetToSeq(K)[j] => i = j
           /\ \A k \in K : \E i \in 1 .. Cardinality(K) : SetToSeq(K)[i] = k
<1> DEFINE n == Cardinality(K)
<1>1. n \in Nat /\ \E f : f \in Bijection(1 .. n, K)
  BY FS_CardinalityType DEF ExistsBijection
<1>2. \E f \in [1 .. n -> K] : IsInjective(f)
  BY <1>1 DEF Bijection, Injection
<1>3. SetToSeq(K) \in [1 .. n -> K] /\ IsInjective(SetToSeq(K))
  BY <1>2 DEF SetToSeq
<1>4. SetToSeq(K) \in Injection(1 .. n, K)
  BY <1>3 DEF Injection
<1>5. Cardinality(1 .. n) = n
  BY <1>1, FS_Interval
<1>6. SetToSeq(K) \in Surjection(1 .. n, K)
  BY <1>4, <1>5, FS_Injection
<1> QED
  BY <1>1, <1>3, <1>6 DEF IsInjective, Surjection

(* The settings of a file have finitely many keys.                         *)
LEMMA SettingsRead ==
    ASSUME NEW c, LinesOK(c)
    PROVE  /\ IsFiniteSet(DOMAIN load_slurm_conf_values(c))
           /\ "NodeName" \notin DOMAIN load_slurm_conf_values(c)
           /\ "PartitionName" \notin DOMAIN load_slurm_conf_values(c)
<1> DEFINE V == {i \in DOMAIN c : c[i].eq = 1}
           K == {c[i].key : i \in V}
           f == [i \in V |-> c[i].key]
<1>1. DOMAIN load_slurm_conf_values(c) = K
  BY DEF load_slurm_conf_values
<1>2. IsFiniteSet(V)
  <2>1. IsFiniteSet(1 .. Len(c))
    BY FS_Interval DEF LinesOK
  <2>2. V \in SUBSET (1 .. Len(c))
    BY DEF LinesOK
  <2> QED
    BY <2>1, <2>2, FS_Subset
<1>3. f \in Surjection(V, K)
  <2>1. f \in [V -> K]
    OBVIOUS
  <2>2. \A k \in K : \E i \in V : f[i] = k
    OBVIOUS
  <2> QED
    BY <2>1, <2>2 DEF Surjection
<1>4. IsFiniteSet(K)
  <2> HIDE DEF V, K, f
  <2> QED
    BY <1>2, <1>3, FS_Surjection
<1>5. "NodeName" \notin K /\ "PartitionName" \notin K
  BY DEF LinesOK
<1> QED
  BY <1>1, <1>4, <1>5

\* The file that save_slurm_conf_values and the two lines after it make.
File(values, m) == Lines(values) \o <<NodeLine(m), PartitionLine(m)>>

(* What is written: the settings, each once, the node and the partition.   *)
LEMMA LinesWritten ==
    ASSUME NEW values, NEW K, K = DOMAIN values, IsFiniteSet(K), NEW m,
           "NodeName" \notin K, "PartitionName" \notin K
    PROVE  /\ LinesOK(File(values, m))
           /\ OnlyOnce(File(values, m))
           /\ \E i \in DOMAIN File(values, m) : File(values, m)[i] = NodeLine(m)
           /\ \E i \in DOMAIN File(values, m) : File(values, m)[i] = PartitionLine(m)
           /\ \A k \in K : \E i \in DOMAIN File(values, m) :
                              File(values, m)[i] = Setting(k, values[k])
           /\ \A i \in DOMAIN File(values, m) :
                 File(values, m)[i].key \in K \cup {"NodeName", "PartitionName"}
<1> DEFINE n == Cardinality(K)
           keys == SetToSeq(K)
           s == Lines(values)
           two == <<NodeLine(m), PartitionLine(m)>>
           S == {s[i] : i \in 1 .. n} \cup {NodeLine(m), PartitionLine(m)}
           c == File(values, m)
<1>0. c = s \o two
  BY DEF File
<1>1. /\ n \in Nat /\ keys \in [1 .. n -> K]
      /\ \A i, j \in 1 .. n : keys[i] = keys[j] => i = j
      /\ \A k \in K : \E i \in 1 .. n : keys[i] = k
  BY EveryKeyOnce
<1>2. DOMAIN s = 1 .. n /\ \A i \in 1 .. n : s[i] = Setting(keys[i], values[keys[i]])
  BY <1>1 DEF Lines
<1>3. s \in Seq(S) /\ Len(s) = n
  <2>1. s = [i \in 1 .. n |-> s[i]]
    BY <1>1 DEF Lines
  <2>2. s \in [1 .. n -> S]
    BY <2>1
  <2> QED
    BY <1>1, <2>2
<1>4. two \in Seq(S) /\ Len(two) = 2 /\ two[1] = NodeLine(m) /\ two[2] = PartitionLine(m)
  OBVIOUS
<1> HIDE DEF s, two, S, keys, n, c
<1>5. /\ c \in Seq(S) /\ Len(c) = n + 2
      /\ \A i \in 1 .. n + 2 : c[i] = IF i <= n THEN s[i] ELSE two[i - n]
  <2>1. /\ c \in Seq(S) /\ Len(c) = Len(s) + Len(two)
        /\ \A i \in 1 .. Len(s) + Len(two) : c[i] = IF i <= Len(s) THEN s[i] ELSE two[i - Len(s)]
    BY <1>0, <1>3, <1>4, ConcatProperties
  <2> QED
    BY <1>3, <1>4, <2>1
<1>6. DOMAIN c = 1 .. n + 2
  BY <1>1, <1>5
<1>7. /\ \A i \in 1 .. n : c[i] = Setting(keys[i], values[keys[i]]) /\ c[i].key = keys[i]
                           /\ keys[i] \in K /\ c[i].eq = 1
      /\ c[n + 1] = NodeLine(m) /\ c[n + 2] = PartitionLine(m)
  <2>1. \A i \in 1 .. n : c[i] = Setting(keys[i], values[keys[i]]) /\ keys[i] \in K
    BY <1>1, <1>2, <1>5
  <2>2. c[n + 1] = NodeLine(m)
    BY <1>1, <1>4, <1>5
  <2>3. c[n + 2] = PartitionLine(m)
    BY <1>1, <1>4, <1>5
  <2> QED
    BY <2>1, <2>2, <2>3 DEF Setting
<1>8. /\ \A k, v : Setting(k, v).key = k /\ Setting(k, v).eq = 1
                   /\ DOMAIN Setting(k, v) = {"key", "eq", "value"}
      /\ NodeLine(m).key = "NodeName" /\ NodeLine(m).eq \in {3, 4}
      /\ DOMAIN NodeLine(m) = {"key", "eq", "value"}
      /\ PartitionLine(m).key = "PartitionName" /\ PartitionLine(m).eq = 5
      /\ DOMAIN PartitionLine(m) = {"key", "eq", "value"}
  BY DEF Setting, NodeLine, PartitionLine
<1>9. \A i \in 1 .. n + 2 : i \in 1 .. n \/ i = n + 1 \/ i = n + 2
  BY <1>1
<1>10. LinesOK(c)
  <2>1. \A i \in DOMAIN c : DOMAIN c[i] = {"key", "eq", "value"} /\ c[i].eq \in 1 .. 5
    BY <1>6, <1>7, <1>8, <1>9
  <2>2. \A i \in DOMAIN c : c[i].eq = 1 => c[i].key \notin {"NodeName", "PartitionName"}
    BY <1>6, <1>7, <1>8, <1>9
  <2>3. DOMAIN c = 1 .. Len(c) /\ Len(c) \in Nat
    BY <1>1, <1>5, <1>6
  <2> QED
    BY <2>1, <2>2, <2>3 DEF LinesOK
<1>11. OnlyOnce(c)
  BY <1>1, <1>6, <1>7, <1>8, <1>9 DEF OnlyOnce
<1>12. \A i \in DOMAIN c : c[i].key \in K \cup {"NodeName", "PartitionName"}
  BY <1>6, <1>7, <1>8, <1>9
<1>13. n + 1 \in DOMAIN c /\ n + 2 \in DOMAIN c /\ 1 .. n \subseteq DOMAIN c
  BY <1>1, <1>6
<1>14. \A k \in K : \E i \in DOMAIN c : c[i] = Setting(k, values[k])
  <2> TAKE k \in K
  <2>1. PICK i \in 1 .. n : keys[i] = k
    BY <1>1
  <2> QED
    BY <1>7, <1>13, <2>1
<1> QED
  BY <1>7, <1>10, <1>11, <1>12, <1>13, <1>14 DEF c

(* discover_clusters, on whatever file and machine: a file for the machine.*)
LEMMA FileWritten ==
    ASSUME NEW c, LinesOK(c), NEW m \in Machines
    PROVE  FileFor(write_slurm_config(m, c), m)
<1> DEFINE old == load_slurm_conf_values(c)
           K == ((DOMAIN old \cup {"SlurmctldHost"}) \ {"GresTypes"})
                  \cup (IF m.gpus > 0 THEN {"GresTypes"} ELSE {})
           values == [k \in K |-> IF k = "SlurmctldHost" THEN m.host
                                  ELSE IF k = "GresTypes" THEN "gpu" ELSE old[k]]
           new == File(values, m)
<1>1. new = write_slurm_config(m, c)
  BY DEF write_slurm_config, File
<1>2. /\ IsFiniteSet(DOMAIN old)
      /\ "NodeName" \notin DOMAIN old /\ "PartitionName" \notin DOMAIN old
  BY SettingsRead
<1>3. IsFiniteSet(K)
  <2>1. IsFiniteSet(DOMAIN old \cup {"SlurmctldHost"})
    BY <1>2, FS_AddElement
  <2>2. IsFiniteSet((DOMAIN old \cup {"SlurmctldHost"}) \ {"GresTypes"})
    BY <2>1, FS_RemoveElement
  <2>3. IsFiniteSet(((DOMAIN old \cup {"SlurmctldHost"}) \ {"GresTypes"}) \cup {"GresTypes"})
    BY <2>2, FS_AddElement
  <2>4. K \in {(DOMAIN old \cup {"SlurmctldHost"}) \ {"GresTypes"},
               ((DOMAIN old \cup {"SlurmctldHost"}) \ {"GresTypes"}) \cup {"GresTypes"}}
    OBVIOUS
  <2> QED
    BY <2>2, <2>3, <2>4
<1>4. /\ "SlurmctldHost" \in K /\ values["SlurmctldHost"] = m.host
      /\ "GresTypes" \in K <=> m.gpus > 0
      /\ "NodeName" \notin K /\ "PartitionName" \notin K /\ K = DOMAIN values
  BY <1>2
<1> HIDE DEF K, values
<1>5. /\ LinesOK(new)
      /\ OnlyOnce(new)
      /\ \E i \in DOMAIN new : new[i] = NodeLine(m)
      /\ \E i \in DOMAIN new : new[i] = PartitionLine(m)
      /\ \A k \in K : \E i \in DOMAIN new : new[i] = Setting(k, values[k])
      /\ \A i \in DOMAIN new : new[i].key \in K \cup {"NodeName", "PartitionName"}
  BY <1>3, <1>4, LinesWritten
<1> HIDE DEF new
<1>6. \E i \in DOMAIN new : new[i] = Setting("SlurmctldHost", m.host)
  BY <1>4, <1>5
<1>7. (\E i \in DOMAIN new : new[i].key = "GresTypes") <=> m.gpus > 0
  <2>1. "GresTypes" \in K => \E i \in DOMAIN new : new[i].key = "GresTypes"
    BY <1>5 DEF Setting
  <2>2. (\E i \in DOMAIN new : new[i].key = "GresTypes") => "GresTypes" \in K
    BY <1>5
  <2> QED
    BY <1>4, <2>1, <2>2
<1> QED
  BY <1>1, <1>5, <1>6, <1>7 DEF FileFor


(* The lines of a key that is there once.                                  *)
LEMMA TheLine ==
    ASSUME OnlyOnce(slurm_conf), NEW key, NEW l,
           \E i \in DOMAIN slurm_conf : slurm_conf[i] = l, l.key = key
    PROVE  /\ \E i \in Having(key) : Having(key) = {i} /\ slurm_conf[i] = l
           /\ Cardinality(Having(key)) = 1
<1>1. PICK i \in DOMAIN slurm_conf : slurm_conf[i] = l
  OBVIOUS
<1>2. Having(key) = {i}
  BY <1>1 DEF Having, OnlyOnce
<1>3. Cardinality({i}) = 1
  BY FS_Singleton
<1> QED
  BY <1>1, <1>2, <1>3

(* Whatever the file was before, the questions put to Slurm are answered   *)
(* for the machine of this start.                                          *)
LEMMA CommandOf ==
    ASSUME NEW m \in Machines, NEW r \in Requests, FileFor(slurm_conf, m)
    PROVE  create_slurm_run_command(r) = Asked(m, r)
<1>1. /\ \E i \in Nodes : Nodes = {i} /\ slurm_conf[i] = NodeLine(m)
      /\ Cardinality(Nodes) = 1
  <2>1. NodeLine(m).key = "NodeName"
    BY DEF NodeLine
  <2> QED
    BY <2>1, TheLine DEF FileFor, Nodes
<1>2. PICK i \in Nodes : Nodes = {i} /\ slurm_conf[i].value = m
  BY <1>1 DEF NodeLine
<1>3. m.gpus \in Nat /\ m.cpus \in Nat \ {0} /\ r.nodes \in Nat \ {0}
  BY SlurmOK
<1>4. get_max_gpu_count_from_slurm = GreaterOf(1, m.gpus)
  <2>1. {1} \cup {slurm_conf[j].value.gpus : j \in Nodes} = {1, m.gpus}
    BY <1>2
  <2>2. Max({1, m.gpus}) = GreaterOf(1, m.gpus)
    BY <1>3 DEF Max, GreaterOf
  <2> QED
    BY <2>1, <2>2 DEF get_max_gpu_count_from_slurm
<1>5. get_total_cpu_count_from_slurm = m.cpus
  <2>1. {1} \cup {slurm_conf[j].value.cpus : j \in Nodes} = {1, m.cpus}
    BY <1>2
  <2>2. Max({1, m.cpus}) = m.cpus
    BY <1>3 DEF Max
  <2> QED
    BY <2>1, <2>2 DEF get_total_cpu_count_from_slurm
<1>6. get_node_count(r) = 1
  BY <1>1, <1>3 DEF get_node_count, get_max_node_count_from_slurm, LesserOf
<1>7. is_gpu_job <=> m.gpus > 0
  BY <1>2 DEF is_gpu_job
<1> QED
  BY <1>4, <1>5, <1>6, <1>7
     DEF create_slurm_run_command, Asked, get_tasks_per_node, get_cpu_per_task

(* A whole division, for a divisor that is not known.                      *)
LEMMA Quotient ==
    ASSUME NEW a \in Nat, NEW g \in Nat \ {0}, NEW b \in 0 .. g
    PROVE  /\ a \div g \in Nat /\ b * (a \div g) <= a
           /\ g <= a => a \div g >= 1
<1> DEFINE q == a \div g
<1>1. q \in Int /\ g * q <= a /\ a < g * (q + 1)
  OBVIOUS
<1> HIDE DEF q
<1>2. q \in Nat
  BY <1>1
<1>3. b * q <= g * q
  BY <1>2
<1>4. b * q \in Nat /\ g * q \in Nat
  BY <1>2
<1>5. g <= a => q >= 1
  BY <1>1, <1>2
<1> QED
  BY <1>1, <1>2, <1>3, <1>4, <1>5 DEF q

(* Quotient and rest.                                                      *)
LEMMA QuotientAndRest ==
    ASSUME NEW s \in Nat, NEW d \in Nat \ {0}
    PROVE  /\ s \div d \in Nat /\ s % d \in Nat /\ s % d < d
           /\ s = d * (s \div d) + (s % d)
<1>1. s \div d \in Nat
  BY Quotient
<1>2. s % d \in Nat /\ s % d < d
  OBVIOUS
<1>3. s = d * (s \div d) + (s % d)
  OBVIOUS
<1> QED
  BY <1>1, <1>2, <1>3

(* Days, hours, minutes and seconds lose nothing, and the limit that Slurm *)
(* makes of them is the next whole minute.                                 *)
LEMMA WholeMinutes ==
    ASSUME NEW s \in Nat
    PROVE  /\ format_timedelta(s) \in TimeLimits
           /\ SlurmMinutes(format_timedelta(s)) = (s + 59) \div 60
<1> DEFINE days == s \div 86400
           rest == s % 86400
           hours == rest \div 3600
           hour == rest % 3600
           minutes == hour \div 60
           seconds == hour % 60
<1>1. rest \in Nat /\ rest < 86400 /\ s = 86400 * days + rest /\ days \in Nat
  BY QuotientAndRest, SMT
<1>2. format_timedelta(s) = [days |-> days, hours |-> hours, minutes |-> minutes,
                             seconds |-> seconds]
  BY SMT DEF format_timedelta
<1> HIDE DEF rest
<1>3. hour \in Nat /\ hour < 3600 /\ rest = 3600 * hours + hour /\ hours \in Nat
  BY <1>1, QuotientAndRest, SMT
<1> HIDE DEF hour
<1>4. /\ seconds \in Nat /\ seconds < 60 /\ hour = 60 * minutes + seconds
      /\ minutes \in Nat
  BY <1>3, QuotientAndRest, SMT
<1> HIDE DEF days, hours, minutes, seconds
<1>5. hours < 24 /\ minutes < 60
  BY <1>1, <1>3, <1>4, SMT
<1>6. days * 86400 + hours * 3600 + minutes * 60 + seconds = s
  BY <1>1, <1>3, <1>4, SMT
<1>7. hours \in 0 .. 23 /\ minutes \in 0 .. 59 /\ seconds \in 0 .. 59
  BY <1>3, <1>4, <1>5, SMT
<1>8. format_timedelta(s) \in TimeLimits
  BY <1>1, <1>2, <1>7, SMT DEF TimeLimits
<1>9. SlurmMinutes(format_timedelta(s)) = (s + 59) \div 60
  BY <1>2, <1>6, SMT DEF SlurmMinutes
<1> QED
  BY <1>8, <1>9, SMT

(* What a job asks of the machine, in CPUs, GPUs and time, is there, and   *)
(* the time covers what the request named.                                 *)
LEMMA AskedFits ==
    ASSUME NEW m \in Machines, NEW r \in Requests
    PROVE  LET a == Asked(m, r)
               limit == SlurmMinutes(a.time)
           IN  /\ a \in SbatchArguments
               /\ a.nodes = 1
               /\ r.max_gpus <= m.gpus =>
                     /\ a.ntasks_per_node * a.cpus_per_task <= m.cpus
                     /\ a.gres <= m.gpus
                     /\ a.cpus_per_task >= 1
               /\ limit <= (MaxTrainTime + ExtraSeconds) \div 60
               /\ (r.timeout # None /\ r.timeout <= MaxTrainTime)
                     => limit * 60 >= r.timeout + ExtraSeconds
<1> DEFINE most  == GreaterOf(1, m.gpus)
           tasks == LesserOf(r.gpus, IF r.max_gpus = None THEN most ELSE r.max_gpus)
           g     == GreaterOf(tasks, most)
           train == IF r.timeout = None THEN MaxTrainTime ELSE LesserOf(r.timeout, MaxTrainTime)
           a     == Asked(m, r)
<1>1. /\ m.gpus \in Nat /\ m.cpus \in Nat \ {0} /\ m.gpus <= m.cpus
      /\ r.gpus \in Nat \ {0} /\ r.max_gpus \in {None} \cup (Nat \ {0})
      /\ r.timeout \in {None} \cup Nat /\ MaxTrainTime \in Nat /\ ExtraSeconds \in Nat
      /\ (MaxTrainTime + ExtraSeconds) % 60 = 0
  BY SlurmOK, SlurmSizes
<1>2. most \in Nat \ {0} /\ most <= m.cpus /\ (m.gpus > 0 => most = m.gpus)
  BY <1>1 DEF GreaterOf
<1>3. /\ tasks \in Nat \ {0} /\ tasks <= GreaterOf(most, r.max_gpus)
      /\ r.max_gpus <= m.gpus => tasks <= most
  <2> HIDE DEF most
  <2> QED
    BY <1>1, <1>2 DEF LesserOf, GreaterOf, None
<1>4. g \in Nat \ {0} /\ tasks \in 0 .. g /\ (r.max_gpus <= m.gpus => g <= m.cpus)
  <2> HIDE DEF most, tasks
  <2> QED
    BY <1>1, <1>2, <1>3 DEF GreaterOf
<1>5. /\ train \in Nat /\ train <= MaxTrainTime
      /\ (r.timeout # None /\ r.timeout <= MaxTrainTime) => train = r.timeout
  BY <1>1 DEF LesserOf, None
<1>6. a = [ntasks_per_node |-> tasks, gres |-> IF m.gpus > 0 THEN tasks ELSE 0, nodes |-> 1,
           cpus_per_task |-> m.cpus \div g, time |-> format_timedelta(train + ExtraSeconds)]
  BY DEF Asked, get_train_time_limit
<1> HIDE DEF most, tasks, g, train, a
<1>7. /\ m.cpus \div g \in Nat /\ tasks * (m.cpus \div g) <= m.cpus
      /\ g <= m.cpus => m.cpus \div g >= 1
  BY <1>1, <1>4, Quotient
<1>8. /\ format_timedelta(train + ExtraSeconds) \in TimeLimits
      /\ SlurmMinutes(format_timedelta(train + ExtraSeconds)) = (train + ExtraSeconds + 59) \div 60
  <2>1. train + ExtraSeconds \in Nat
    BY <1>1, <1>5
  <2> QED
    BY <2>1, WholeMinutes
<1>9. a \in SbatchArguments
  BY <1>1, <1>3, <1>6, <1>7, <1>8 DEF SbatchArguments
<1>10. r.max_gpus <= m.gpus =>
         a.ntasks_per_node * a.cpus_per_task <= m.cpus /\ a.gres <= m.gpus /\ a.cpus_per_task >= 1
  <2> SUFFICES ASSUME r.max_gpus <= m.gpus
               PROVE  /\ a.ntasks_per_node * a.cpus_per_task <= m.cpus
                      /\ a.gres <= m.gpus /\ a.cpus_per_task >= 1
    OBVIOUS
  <2>1. a.ntasks_per_node * a.cpus_per_task <= m.cpus
    BY <1>6, <1>7
  <2>2. a.gres <= m.gpus
    BY <1>1, <1>2, <1>3, <1>6
  <2>3. a.cpus_per_task >= 1
    BY <1>4, <1>6, <1>7
  <2> QED
    BY <2>1, <2>2, <2>3
<1>11. LET limit == SlurmMinutes(a.time)
       IN  /\ limit <= (MaxTrainTime + ExtraSeconds) \div 60
           /\ (r.timeout # None /\ r.timeout <= MaxTrainTime)
                 => limit * 60 >= r.timeout + ExtraSeconds
  <2> DEFINE limit == SlurmMinutes(a.time)
             most60 == (MaxTrainTime + ExtraSeconds) \div 60
  <2>1. limit = (train + ExtraSeconds + 59) \div 60
    BY <1>6, <1>8
  <2>2. limit * 60 >= train + ExtraSeconds /\ limit * 60 <= train + ExtraSeconds + 59
        /\ limit \in Int
    BY <1>1, <1>5, <2>1
  <2>3. most60 * 60 = MaxTrainTime + ExtraSeconds /\ most60 \in Int
    BY <1>1
  <2> HIDE DEF limit, most60
  <2>4. limit <= most60
    BY <1>1, <1>5, <2>2, <2>3
  <2>5. (r.timeout # None /\ r.timeout <= MaxTrainTime) => limit * 60 >= r.timeout + ExtraSeconds
    BY <1>5, <2>2
  <2> QED
    BY <2>4, <2>5 DEF limit, most60
<1> QED
  BY <1>6, <1>9, <1>10, <1>11 DEF a

(* A start of the container, and a job asked for, keep the files right.    *)
LEMMA SlurmStep ==
    ASSUME SlurmInv, [SlurmNext]_slurmVars
    PROVE  SlurmInv'
<1>1. CASE ContainerStarts
  <2>1. PICK m \in Machines : /\ machine' = m
                              /\ slurm_conf' = write_slurm_config(m, slurm_conf)
                              /\ gres_conf' = write_gres_config(m)
    BY <1>1 DEF ContainerStarts
  <2>2. FileFor(slurm_conf', machine')
    BY <2>1, FileWritten DEF SlurmInv
  <2>3. booted' = TRUE /\ jobs' = <<>>
    BY <1>1 DEF ContainerStarts
  <2>4. LinesOK(slurm_conf')
    BY <2>2 DEF FileFor
  <2>5. \A l \in gres_conf' : l.host = machine'.host
    BY <2>1 DEF write_gres_config
  <2>6. SlurmTypeOK'
    BY <2>1, <2>3, <2>4 DEF SlurmTypeOK, LinesOK
  <2> QED
    BY <2>2, <2>3, <2>4, <2>5, <2>6 DEF SlurmInv, FileFor, LinesOK, OnlyOnce
<1>2. CASE ContainerStops
  BY <1>2 DEF ContainerStops, SlurmInv, SlurmTypeOK, LinesOK
<1>3. CASE LaunchTrainingJob
  <2>1. PICK r \in Requests :
           jobs' = Append(jobs, [sbatch |-> create_slurm_run_command(r), request |-> r])
    BY <1>3 DEF LaunchTrainingJob
  <2>2. booted /\ UNCHANGED <<machine, slurm_conf, gres_conf, booted>> /\ machine \in Machines
    BY <1>3 DEF LaunchTrainingJob, SlurmInv, SlurmTypeOK
  <2>3. create_slurm_run_command(r) = Asked(machine, r)
    BY <2>2, CommandOf DEF SlurmInv
  <2>4. Asked(machine, r) \in SbatchArguments
    BY <2>2, AskedFits
  <2> DEFINE J == [sbatch : SbatchArguments, request : Requests]
             job == [sbatch |-> Asked(machine, r), request |-> r]
  <2>5. jobs \in Seq(J) /\ job \in J /\ jobs' = Append(jobs, job)
    BY <2>1, <2>3, <2>4 DEF SlurmInv, SlurmTypeOK
  <2>6. /\ jobs' \in Seq(J)
        /\ \A i \in DOMAIN jobs' : (i \in DOMAIN jobs /\ jobs'[i] = jobs[i]) \/ jobs'[i] = job
    <3> HIDE DEF J, job
    <3> QED
      BY <2>5
  <2>7. SlurmTypeOK'
    BY <2>2, <2>6 DEF SlurmInv, SlurmTypeOK
  <2>8. \A i \in DOMAIN jobs' : jobs'[i].sbatch = Asked(machine, jobs'[i].request)
    BY <2>2, <2>6 DEF SlurmInv
  <2>9. FileFor(slurm_conf, machine) /\ LinesOK(slurm_conf) /\ \A l \in gres_conf : l.host = machine.host
    BY <2>2 DEF SlurmInv
  <2> QED
    BY <2>2, <2>7, <2>8, <2>9 DEF SlurmInv, Asked, get_train_time_limit
<1>4. CASE UNCHANGED slurmVars
  BY <1>4 DEF slurmVars, SlurmInv, SlurmTypeOK, LinesOK, FileFor, OnlyOnce, Asked,
              get_train_time_limit
<1> QED
  BY <1>1, <1>2, <1>3, <1>4 DEF SlurmNext

(* discover_clusters: however often the container was started, and         *)
(* wherever, Slurm's files are those of its machine, each line there once, *)
(* and every job submitted since was asked for in terms of them.           *)
THEOREM SlurmInvariance == SlurmSpec => []SlurmInv
<1>1. ASSUME SlurmInit PROVE SlurmInv
  <2>1. slurm_conf = File(Shipped, ShippedOn)
    BY <1>1 DEF SlurmInit, File
  <2>2. LinesOK(slurm_conf)
    BY <2>1, SlurmOK, LinesWritten
  <2>3. SlurmTypeOK
    <3>1. machine \in Machines /\ booted = FALSE /\ jobs = <<>>
      BY <1>1 DEF SlurmInit
    <3>2. jobs \in Seq([sbatch : SbatchArguments, request : Requests])
      BY <3>1
    <3> QED
      BY <2>2, <3>1, <3>2 DEF SlurmTypeOK, LinesOK
  <2> QED
    BY <1>1, <2>2, <2>3 DEF SlurmInit, SlurmInv
<1> QED
  BY <1>1, SlurmStep, PTL DEF SlurmSpec

(* discover_clusters and launch_training_job: whatever machines it was     *)
(* started on before, Slurm's files describe the machine of this start and *)
(* no other, and a job is within what they grant: its node, its CPUs and   *)
(* GPUs, and a limit in time that covers its own and not more than the     *)
(* partition's.                                                            *)
THEOREM JobsFitMachineAlways == SlurmSpec => []JobsFitMachine
<1>1. ASSUME SlurmInv PROVE ConfDescribesMachine
  <2> SUFFICES ASSUME booted
               PROVE  /\ \E i \in Having("NodeName") : slurm_conf[i] = NodeLine(machine)
                      /\ \E i \in Having("PartitionName") :
                             slurm_conf[i].value.node = machine.host
                      /\ \E i \in Having("SlurmctldHost") :
                             slurm_conf[i] = Setting("SlurmctldHost", machine.host)
                      /\ \A key \in {"NodeName", "PartitionName", "SlurmctldHost"} :
                             Cardinality(Having(key)) = 1
                      /\ (Having("GresTypes") # {}) = (machine.gpus > 0)
                      /\ \A l \in gres_conf : l.host = machine.host
    BY DEF ConfDescribesMachine
  <2>1. FileFor(slurm_conf, machine) /\ \A l \in gres_conf : l.host = machine.host
    BY <1>1 DEF SlurmInv
  <2>2. /\ NodeLine(machine).key = "NodeName" /\ PartitionLine(machine).key = "PartitionName"
        /\ PartitionLine(machine).value.node = machine.host
        /\ Setting("SlurmctldHost", machine.host).key = "SlurmctldHost"
    BY DEF NodeLine, PartitionLine, Setting
  <2>3. /\ \E i \in Having("NodeName") : slurm_conf[i] = NodeLine(machine)
        /\ Cardinality(Having("NodeName")) = 1
    BY <2>1, <2>2, TheLine DEF FileFor
  <2>4. /\ \E i \in Having("PartitionName") : slurm_conf[i] = PartitionLine(machine)
        /\ Cardinality(Having("PartitionName")) = 1
    BY <2>1, <2>2, TheLine DEF FileFor
  <2>5. /\ \E i \in Having("SlurmctldHost") :
               slurm_conf[i] = Setting("SlurmctldHost", machine.host)
        /\ Cardinality(Having("SlurmctldHost")) = 1
    BY <2>1, <2>2, TheLine DEF FileFor
  <2>6. (Having("GresTypes") # {}) <=> machine.gpus > 0
    BY <2>1 DEF FileFor, Having
  <2> QED
    BY <2>1, <2>2, <2>3, <2>4, <2>5, <2>6
<1>2. ASSUME SlurmInv PROVE RequestFits /\ LimitWithinPartition
  <2> SUFFICES ASSUME booted, NEW i \in DOMAIN jobs
               PROVE  LET job == jobs[i].sbatch
                          r   == jobs[i].request
                          limit == SlurmMinutes(job.time)
                      IN  /\ r.max_gpus <= machine.gpus =>
                               /\ job.nodes = 1
                               /\ job.ntasks_per_node * job.cpus_per_task <= machine.cpus
                               /\ job.gres <= machine.gpus
                               /\ job.cpus_per_task >= 1
                          /\ \A l \in Having("PartitionName") :
                                limit <= slurm_conf[l].value.MaxTime
                          /\ (r.timeout # None /\ r.timeout <= MaxTrainTime)
                               => limit * 60 >= r.timeout + ExtraSeconds
    BY DEF RequestFits, LimitWithinPartition
  <2> DEFINE r == jobs[i].request
  <2>1. machine \in Machines /\ r \in Requests /\ jobs[i].sbatch = Asked(machine, r)
    <3> DEFINE J == [sbatch : SbatchArguments, request : Requests]
    <3>1. machine \in Machines /\ jobs \in Seq(J)
      BY <1>2 DEF SlurmInv, SlurmTypeOK
    <3>2. jobs[i] \in J
      <4> HIDE DEF J
      <4> QED
        BY <3>1
    <3>3. jobs[i].sbatch = Asked(machine, r)
      BY <1>2 DEF SlurmInv
    <3> QED
      BY <3>1, <3>2, <3>3
  <2>2. \A l \in Having("PartitionName") :
           slurm_conf[l].value.MaxTime = (MaxTrainTime + ExtraSeconds) \div 60
    <3>1. FileFor(slurm_conf, machine) /\ PartitionLine(machine).key = "PartitionName"
      BY <1>2 DEF SlurmInv, PartitionLine
    <3>2. \E j \in Having("PartitionName") :
             Having("PartitionName") = {j} /\ slurm_conf[j] = PartitionLine(machine)
      BY <3>1, TheLine DEF FileFor
    <3> QED
      BY <3>2 DEF PartitionLine
  <2> HIDE DEF r
  <2> QED
    BY <2>1, <2>2, AskedFits DEF r
<1>3. SlurmInv => JobsFitMachine
  BY <1>1, <1>2 DEF JobsFitMachine, SlurmInv
<1> QED
  BY <1>3, SlurmInvariance, PTL
=============================================================================
