------------------------------- MODULE Upload -------------------------------
(***************************************************************************)
(* upload_training_data: the body of POST megatron/train is streamed to a  *)
(* file in the temp directory, hashed and unpacked into a job directory.   *)
(* The handler gives up the event loop between two chunks of the body and  *)
(* nowhere else, so uploads interleave chunk by chunk; what follows the    *)
(* last chunk (hash, unpack, remove) is one step.                          *)
(***************************************************************************)
EXTENDS Integers, Sequences

CONSTANTS
    Uploads,        \* POST requests
    SizeOf,         \* the chunks of each request's file
    MaxChunks,      \* max_upload_file_size, in chunks
    Hole            \* bytes of a file that nobody has written

ASSUME UploadAssumption ==
    /\ SizeOf \in [Uploads -> Nat \ {0}]
    /\ MaxChunks \in Nat
    /\ Hole \notin Uploads

VARIABLES
    upc,            \* where each request is
    sent,           \* how many chunks of the file were received
    handle,         \* the inode that its FileTarget has open
    path,           \* the inode that get_temp_filepath() names; 0: none
    inodes,         \* how many inodes have been created
    content,        \* the chunks of each inode: whose, and which
    dataset,        \* what was unpacked for each request
    overlapped      \* another request was receiving at the same time

uploadVars == <<upc, sent, handle, path, inodes, content, dataset, overlapped>>

Chunks == {<<o, k>> : o \in Uploads \cup {Hole}, k \in 0 .. MaxChunks}

(* Types of the requests and of the temp directory. *)
UploadTypeOK ==
    /\ upc \in [Uploads -> {"new", "receiving", "accepted", "too_large",
                            "disconnected", "error"}]
    /\ sent \in [Uploads -> 0 .. MaxChunks]
    /\ handle \in [Uploads -> 0 .. inodes]
    /\ path \in 0 .. inodes
    /\ inodes \in Nat
    /\ content \in [1 .. inodes -> Seq(Chunks)]
    /\ dataset \in [Uploads -> Seq(Chunks)]
    /\ overlapped \in [Uploads -> BOOLEAN]

UploadInit ==
    /\ upc = [u \in Uploads |-> "new"]
    /\ sent = [u \in Uploads |-> 0]
    /\ handle = [u \in Uploads |-> 0]
    /\ path = 0
    /\ inodes = 0
    /\ content = <<>>
    /\ dataset = [u \in Uploads |-> <<>>]
    /\ overlapped = [u \in Uploads |-> FALSE]

Receiving == {u \in Uploads : upc[u] = "receiving"}

OwnFile(u) == [k \in 1 .. SizeOf[u] |-> <<u, k>>]

-----------------------------------------------------------------------------
MutantKeepsOldContent ==
    IF path = 0
    THEN path' = inodes + 1 /\ inodes' = inodes + 1
         /\ content' = Append(content, <<>>)
    ELSE UNCHANGED <<path, inodes, content>>

(* FileTarget opens get_temp_filepath(), the same for every request, with  *)
(* "wb" when the file part begins.                                         *)
get_temp_filepath ==
    IF path = 0
    THEN path' = inodes + 1 /\ inodes' = inodes + 1
         /\ content' = Append(content, <<>>)
    ELSE content' = [content EXCEPT ![path] = <<>>] /\ UNCHANGED <<path, inodes>>

UploadBegins(u) ==
    /\ upc[u] = "new"
    /\ upc' = [upc EXCEPT ![u] = "receiving"]
    /\ get_temp_filepath
    /\ handle' = [handle EXCEPT ![u] = path']
    /\ overlapped' = [v \in Uploads |->
                        \/ overlapped[v]
                        \/ v \in Receiving
                        \/ v = u /\ Receiving # {}]
    /\ UNCHANGED <<sent, dataset>>

(* A write at position k: what is missing before it is a hole, what is     *)
(* behind it stays.                                                        *)
WriteAt(c, k, chunk) ==
    [i \in 1 .. (IF k > Len(c) THEN k ELSE Len(c)) |->
        IF i = k THEN chunk ELSE IF i <= Len(c) THEN c[i] ELSE <<Hole, 0>>]

(* MaxBodySizeValidator, before the chunk goes to the parser. *)
MaxBodySizeExceeded(u) == sent[u] + 1 > MaxChunks

ReceiveChunk(u) ==
    /\ upc[u] = "receiving"
    /\ sent[u] < SizeOf[u]
    /\ ~MaxBodySizeExceeded(u)
    /\ content' = [content EXCEPT ![handle[u]] =
                      WriteAt(@, sent[u] + 1, <<u, sent[u] + 1>>)]
    /\ sent' = [sent EXCEPT ![u] = @ + 1]
    /\ UNCHANGED <<upc, handle, path, inodes, dataset, overlapped>>

(* The handler is left, with the file where it is. *)
Leave(u, how) ==
    /\ upc' = [upc EXCEPT ![u] = how]
    /\ UNCHANGED <<sent, handle, path, inodes, content, dataset, overlapped>>

TooLarge(u) ==
    /\ upc[u] = "receiving"
    /\ sent[u] < SizeOf[u]
    /\ MaxBodySizeExceeded(u)
    /\ Leave(u, "too_large")

(* ClientDisconnect is caught, and the names that the return statement     *)
(* needs were never bound.                                                 *)
Disconnect(u) == upc[u] = "receiving" /\ Leave(u, "disconnected")

Arrived(u) == upc[u] = "receiving" /\ sent[u] = SizeOf[u]

(* A tar file begins with the header of its first member. *)
Unpackable(c) == c # <<>> /\ c[1][2] = 1

(* The last chunk has come: the file at the path, whoever wrote it, is     *)
(* hashed, unpacked into the job directory and removed.                    *)
UploadEnds(u) ==
    /\ Arrived(u)
    /\ path # 0
    /\ Unpackable(content[path])
    /\ dataset' = [dataset EXCEPT ![u] = content[path]]
    /\ path' = 0
    /\ upc' = [upc EXCEPT ![u] = "accepted"]
    /\ UNCHANGED <<sent, handle, inodes, content, overlapped>>

(* No file at the path, or tarfile cannot read it to the end. *)
UploadRaises(u) ==
    /\ Arrived(u)
    /\ \/ path = 0
       \/ path # 0 /\ content[path] \notin {OwnFile(v) : v \in Uploads}
    /\ Leave(u, "error")

UploadNext ==
    \E u \in Uploads :
        \/ UploadBegins(u) \/ ReceiveChunk(u) \/ TooLarge(u) \/ Disconnect(u)
        \/ UploadEnds(u) \/ UploadRaises(u)

UploadSpec == UploadInit /\ [][UploadNext]_uploadVars

-----------------------------------------------------------------------------
(* An upload that had the server to itself is not disturbed by those       *)
(* before it, also those that were cut off and left their file: it never   *)
(* ends in an internal error, and what is unpacked is what was sent.       *)
QuietUploadIsKept ==
    \A u \in Uploads : ~overlapped[u] =>
        /\ upc[u] # "error"
        /\ upc[u] = "accepted" => dataset[u] = OwnFile(u)

(* "Get a random temp file path" (get_temp_filepath): uploads do not meet  *)
(* in the temp directory, and a job trains on the dataset that was sent    *)
(* with it.                                                                *)
JobHasItsDataset ==
    \A u \in Uploads : upc[u] = "accepted" => dataset[u] = OwnFile(u)

\* An upload that no other overlaps ends with its own file, or is refused for
\* its size or its disconnection, and the temp file's inodes are accounted for.
UploadsAreKept ==
    /\ UploadTypeOK
    /\ QuietUploadIsKept
=============================================================================
