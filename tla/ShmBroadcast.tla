--------------------------- MODULE ShmBroadcast ---------------------------
(***************************************************************************)
(* MessageQueue of vLLM's shm_broadcast: the driver of a tensor parallel   *)
(* group broadcasts objects to the workers.  Readers on the same node read *)
(* small objects from a ring buffer in shared memory, guarded only by byte *)
(* flags (one "written" flag per chunk and a "read" flag per reader), and  *)
(* objects too large for a chunk from a publish-subscribe socket; readers  *)
(* on other nodes read everything from a socket.                           *)
(*                                                                         *)
(* Nothing locks the flags, so every load and store of a flag or of a      *)
(* chunk is a step of its own, and stores reach memory as the processors   *)
(* this runs on deliver them (x86): each process has a store buffer that   *)
(* drains in order, and sees its own stores first.                         *)
(***************************************************************************)
EXTENDS Naturals, Sequences, FiniteSets

CONSTANTS
    NLocal, NRemote,   \* n_local_reader, n_remote_reader
    MaxChunks,         \* max_chunks
    MaxItems,          \* bound: objects enqueued
    Big,               \* those that do not fit into a chunk
    MaxStores          \* bound: stores in a store buffer

ASSUME ShmOK ==
    /\ NLocal \in Nat \ {0} /\ NRemote \in Nat
    /\ MaxChunks \in Nat \ {0} /\ MaxItems \in Nat /\ MaxStores \in Nat \ {0}
    /\ Big \subseteq 1..MaxItems

Local   == 1..NLocal
Remote  == (NLocal + 1)..(NLocal + NRemote)
Readers == Local \cup Remote
Chunks  == 0..(MaxChunks - 1)
Writer  == 0
Procs   == {Writer} \cup Local

\* What a chunk holds: an object, the overflow mark, or half of either.
Overflow == MaxItems + 1
Torn     == MaxItems + 2
READY    == 0

Written(c) == <<"written", c, 0>>
Read(c, r) == <<"read", c, r>>
Data(c)    == <<"data", c, 0>>
Locations  == {Written(c) : c \in Chunks} \cup {Data(c) : c \in Chunks}
              \cup {Read(c, r) : c \in Chunks, r \in Local}

VARIABLES
    mem,        \* the shared memory
    stores,     \* the store buffer of each process
    w,          \* where the writer is
    wflag,      \* the reader whose flag it resets next
    widx,       \* the writer's current_idx
    items,      \* objects enqueued or being enqueued
    rd,         \* where each local reader is
    ridx,       \* their current_idx
    obj,        \* what a reader found in the chunk
    subscribed, \* readers whose subscription reached the writer's socket
    sock,       \* messages a reader's socket holds
    got,        \* objects dequeue returned to each reader
    sent        \* objects whose chunk the writer has marked (history)

writerVars == <<w, wflag, widx, items>>
readerVars == <<rd, ridx, obj>>
shmVars   == <<mem, stores, writerVars, readerVars, subscribed, sock, got, sent>>

ShmTypeOK ==
    /\ mem \in [Locations -> 0..Torn]
    /\ stores \in [Procs -> Seq(Locations \X (0..Torn))]
    /\ \A p \in Procs : Len(stores[p]) <= MaxStores
    /\ w \in {"connect", "remotes", "idle", "fill", "half", "reset", "mark", "publish", "remote"}
    /\ wflag \in 1..(NLocal + 1) /\ widx \in Chunks /\ items \in 0..MaxItems
    /\ rd \in [Readers -> {"connect", "idle", "unread", "acquired", "read", "recv"}]
    /\ ridx \in [Local -> Chunks] /\ obj \in [Local -> 0..Torn]
    /\ subscribed \subseteq Readers
    /\ sock \in [Readers -> Seq(0..MaxItems)]
    /\ got \in [Readers -> Seq(1..MaxItems)]
    /\ sent \in 0..MaxItems

ShmInit ==
    /\ mem = [l \in Locations |-> 0]
    /\ stores = [p \in Procs |-> <<>>]
    /\ w = "connect" /\ wflag = 1 /\ widx = 0 /\ items = 0
    /\ rd = [r \in Readers |-> "connect"]
    /\ ridx = [r \in Local |-> 0] /\ obj = [r \in Local |-> 0]
    /\ subscribed = {}
    /\ sock = [r \in Readers |-> <<>>]
    /\ got = [r \in Readers |-> <<>>]
    /\ sent = 0

-----------------------------------------------------------------------------
(* Memory *)

\* A load sees the process's own latest store, or memory.
Load(p, l) ==
    LET mine == {i \in DOMAIN stores[p] : stores[p][i][1] = l}
    IN  IF mine = {} THEN mem[l]
        ELSE stores[p][CHOOSE i \in mine : \A j \in mine : j <= i][2]

Store(p, l, v) ==
    /\ Len(stores[p]) < MaxStores
    /\ stores' = [stores EXCEPT ![p] = Append(@, <<l, v>>)]

Drain(p) ==
    /\ stores[p] # <<>>
    /\ LET s == Head(stores[p]) IN mem' = [mem EXCEPT ![s[1]] = s[2]]
    /\ stores' = [stores EXCEPT ![p] = Tail(@)]
    /\ UNCHANGED <<writerVars, readerVars, subscribed, sock, got, sent>>

-----------------------------------------------------------------------------
(* wait_until_ready *)

\* A published message reaches those who have subscribed, nobody else.
Published(S, m) ==
    sock' = [r \in Readers |-> IF r \in S \cap subscribed THEN Append(sock[r], m) ELSE sock[r]]

Subscribe(r) ==
    /\ r \notin subscribed
    /\ subscribed' = subscribed \cup {r}
    /\ UNCHANGED <<mem, stores, writerVars, readerVars, sock, got, sent>>

\* All local readers have subscribed.
LocalsReady ==
    /\ w = "connect" /\ Local \subseteq subscribed
    /\ Published(Local, READY)
    /\ w' = "remotes"
    /\ UNCHANGED <<mem, stores, wflag, widx, items, readerVars, subscribed, got, sent>>

RemotesReady ==
    /\ w = "remotes" /\ Remote \subseteq subscribed
    /\ Published(Remote, READY)
    /\ w' = "idle"
    /\ UNCHANGED <<mem, stores, wflag, widx, items, readerVars, subscribed, got, sent>>

ReadReady(r) ==
    /\ rd[r] = "connect" /\ sock[r] # <<>>
    /\ rd' = [rd EXCEPT ![r] = "idle"]
    /\ sock' = [sock EXCEPT ![r] = Tail(@)]
    /\ UNCHANGED <<mem, stores, writerVars, ridx, obj, subscribed, got, sent>>

-----------------------------------------------------------------------------
(* enqueue, acquire_write *)

\* The sum of the read flags.  Readers only ever set their flags while the
\* writer adds them up, so a sum that is complete was complete at its last load.
ReadCount == Cardinality({r \in Local : Load(Writer, Read(widx, r)) = 1})

\* The mutant takes a chunk back as soon as some reader is through with it.
MutAcquireWrite ==
    /\ w = "idle" /\ items < MaxItems
    /\ Load(Writer, Written(widx)) = 1 => ReadCount > 0
    /\ Store(Writer, Written(widx), 0)
    /\ items' = items + 1
    /\ w' = "fill"
    /\ UNCHANGED <<mem, wflag, widx, readerVars, subscribed, sock, got, sent>>

\* The loop ends at a chunk that is not written or read by all.
AcquireWrite ==
    /\ w = "idle" /\ items < MaxItems
    /\ Load(Writer, Written(widx)) = 1 => ReadCount = NLocal
    /\ Store(Writer, Written(widx), 0)
    /\ items' = items + 1
    /\ w' = "fill"
    /\ UNCHANGED <<mem, wflag, widx, readerVars, subscribed, sock, got, sent>>

\* The caller fills the chunk: the overflow mark is one byte, an object takes
\* more than one store.
Fill ==
    /\ w = "fill"
    /\ Store(Writer, Data(widx), IF items \in Big THEN Overflow ELSE Torn)
    /\ w' = IF items \in Big THEN "reset" ELSE "half"
    /\ wflag' = 1
    /\ UNCHANGED <<mem, widx, items, readerVars, subscribed, sock, got, sent>>

Filled ==
    /\ w = "half"
    /\ Store(Writer, Data(widx), items)
    /\ w' = "reset"
    /\ UNCHANGED <<mem, wflag, widx, items, readerVars, subscribed, sock, got, sent>>

\* The mutant leaves the last reader's flag.
MutResetFlag ==
    /\ w = "reset" /\ wflag <= NLocal
    /\ Store(Writer, Read(widx, wflag), IF wflag = NLocal THEN 1 ELSE 0)
    /\ wflag' = wflag + 1
    /\ w' = IF wflag = NLocal THEN "mark" ELSE "reset"
    /\ UNCHANGED <<mem, widx, items, readerVars, subscribed, sock, got, sent>>

\* The read flags are set to 0 one after the other.
ResetFlag ==
    /\ w = "reset" /\ wflag <= NLocal
    /\ Store(Writer, Read(widx, wflag), 0)
    /\ wflag' = wflag + 1
    /\ w' = IF wflag = NLocal THEN "mark" ELSE "reset"
    /\ UNCHANGED <<mem, widx, items, readerVars, subscribed, sock, got, sent>>

AfterChunk == IF NRemote > 0 THEN "remote" ELSE "idle"

MarkWritten ==
    /\ w = "mark"
    /\ Store(Writer, Written(widx), 1)
    /\ widx' = (widx + 1) % MaxChunks
    /\ w' = IF items \in Big THEN "publish" ELSE AfterChunk
    /\ sent' = sent + 1
    /\ UNCHANGED <<mem, wflag, items, readerVars, subscribed, sock, got>>

\* A large object goes over the socket once its chunk is marked.
Publish ==
    /\ w = "publish"
    /\ Published(Local, items)
    /\ w' = AfterChunk
    /\ UNCHANGED <<mem, stores, wflag, widx, items, readerVars, subscribed, got, sent>>

SendRemote ==
    /\ w = "remote"
    /\ Published(Remote, items)
    /\ w' = "idle"
    /\ UNCHANGED <<mem, stores, wflag, widx, items, readerVars, subscribed, got, sent>>

-----------------------------------------------------------------------------
(* dequeue, acquire_read *)

\* The reader's own flag first ...
CheckRead(r) ==
    /\ rd[r] = "idle"
    /\ Load(r, Read(ridx[r], r)) = 0
    /\ rd' = [rd EXCEPT ![r] = "unread"]
    /\ UNCHANGED <<mem, stores, writerVars, ridx, obj, subscribed, sock, got, sent>>

\* ... then the written flag; without it the loop begins again.
CheckWritten(r) ==
    /\ rd[r] = "unread"
    /\ rd' = [rd EXCEPT ![r] = IF Load(r, Written(ridx[r])) = 1 THEN "acquired" ELSE "idle"]
    /\ UNCHANGED <<mem, stores, writerVars, ridx, obj, subscribed, sock, got, sent>>

ReadChunk(r) ==
    /\ rd[r] = "acquired"
    /\ obj' = [obj EXCEPT ![r] = Load(r, Data(ridx[r]))]
    /\ rd' = [rd EXCEPT ![r] = "read"]
    /\ UNCHANGED <<mem, stores, writerVars, ridx, subscribed, sock, got, sent>>

\* The flag is set, the index moved; a large object is then read from the
\* socket, any other is returned.
MarkRead(r) ==
    /\ rd[r] = "read"
    /\ Store(r, Read(ridx[r], r), 1)
    /\ ridx' = [ridx EXCEPT ![r] = (@ + 1) % MaxChunks]
    /\ \/ /\ obj[r] = Overflow
          /\ rd' = [rd EXCEPT ![r] = "recv"]
          /\ UNCHANGED got
       \/ /\ obj[r] # Overflow
          /\ rd' = [rd EXCEPT ![r] = "idle"]
          /\ got' = [got EXCEPT ![r] = Append(@, obj[r])]
    /\ UNCHANGED <<mem, writerVars, obj, subscribed, sock, sent>>

Receive(r) ==
    /\ rd[r] = IF r \in Local THEN "recv" ELSE "idle"
    /\ sock[r] # <<>>
    /\ got' = [got EXCEPT ![r] = Append(@, Head(sock[r]))]
    /\ sock' = [sock EXCEPT ![r] = Tail(@)]
    /\ rd' = [rd EXCEPT ![r] = "idle"]
    /\ UNCHANGED <<mem, stores, writerVars, ridx, obj, subscribed, sent>>

-----------------------------------------------------------------------------

Connecting == LocalsReady \/ RemotesReady \/ \E r \in Readers : Subscribe(r) \/ ReadReady(r)

Enqueuing == Fill \/ Filled \/ ResetFlag \/ MarkWritten \/ Publish \/ SendRemote

Dequeuing(r) == CheckRead(r) \/ CheckWritten(r) \/ ReadChunk(r) \/ MarkRead(r)

ShmNext ==
    \/ Connecting \/ AcquireWrite \/ Enqueuing
    \/ \E r \in Local : Dequeuing(r)
    \/ \E r \in Readers : Receive(r)
    \/ \E p \in Procs : Drain(p)

ShmSpec == ShmInit /\ [][ShmNext]_shmVars

\* Every process runs, stores reach memory, and a worker's loop dequeues
\* again and again.  Nothing makes the driver enqueue.
ShmFairness ==
    /\ WF_shmVars(Connecting) /\ WF_shmVars(Enqueuing)
    /\ \A r \in Local : WF_shmVars(Dequeuing(r))
    /\ \A r \in Readers : WF_shmVars(Receive(r))
    /\ \A p \in Procs : WF_shmVars(Drain(p))

-----------------------------------------------------------------------------

\* The ring bounds the socket as well: however many large objects there are, a
\* local reader's socket never holds more than one above the chunks, so that
\* the publisher never drops one at its high water mark.
SocketIsBounded == \A r \in Local : Len(sock[r]) <= MaxChunks + 1

\* Whatever is enqueued reaches every reader.
EverythingArrives ==
    \A n \in 1..MaxItems : (sent >= n) ~> \A r \in Readers : Len(got[r]) >= n

Queue == INSTANCE BroadcastQueue WITH
    LocalReaders <- Local, Room <- MaxChunks + 1,
    taken <- got

\* The flags, the ring and the sockets implement the queue: every reader is given
\* the objects in the order they were enqueued, none twice, none left out, none
\* half written, none early, small and large ones mixed, and the writer is ahead
\* of a local reader by at most the chunks and the one it is just taking
\* (shm_broadcast.py: "we don't need to synchronize the access to the buffer").
IsQueue == Queue!Spec

\* The flags bound everything: store buffers, the ring, and the socket of a
\* local reader, which needs no limit of its own.
ShmIsBounded ==
    /\ ShmTypeOK
    /\ SocketIsBounded
=============================================================================
