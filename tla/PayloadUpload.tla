---------------------------- MODULE PayloadUpload ----------------------------
(***************************************************************************)
(* The upload of payloads, from the client's check of their size to the    *)
(* report in the server's store (upload_report of blankres-client,         *)
(* post_report of routes.rs from the redeemed token on, storage.rs).       *)
(*                                                                         *)
(* A payload is a sequence of parts: the metadata, the core, the texts the *)
(* client collected.  The server writes each to a temporary file while it  *)
(* hashes it, and moves it to the place its digest names.  Several uploads *)
(* go on at once, and payloads of one crash have parts in common.          *)
(*                                                                         *)
(* Abstractions.  Sizes are in a coarse unit; a chunk is any number of     *)
(* units.  The digest of a file is what it holds: which part of which      *)
(* crash, and how much of it.  proc-maps and proc-status are one text.     *)
(* Tokens are in IngestServer.  A stored file survives a kill of the       *)
(* server; power cuts are not here.                                        *)
(***************************************************************************)
EXTENDS Integers, Sequences, FiniteSets, Functions

CONSTANTS
    Upload,         \* the uploads of a run
    Crash,          \* the crashes they are about
    MaxCore,        \* largest core (bounds the run)
    MaxText,        \* largest text, at most twice MAX_INLINE_BYTES
    Overhead,       \* what the metadata holds besides a copy of the text
    Slack,          \* the 1 MiB a directive allows over the core's size
    MaxPayload,     \* max_payload_bytes of the server
    DiskFails       \* whether writes to the server's disk may fail

ASSUME UploadAssumption == IsFiniteSet(Upload) /\ Crash # {}
ASSUME SizeAssumption ==
    /\ MaxCore \in Nat /\ MaxText \in Nat
    /\ Overhead \in Nat \ {0} /\ Slack \in Nat /\ MaxPayload \in Nat
ASSUME DiskAssumption == DiskFails \in BOOLEAN

VARIABLES
    payload,    \* payload[c]: sizes of the core of crash c and of its texts
    about,      \* about[u]: the crash u uploads
    step,       \* where u is
    part,       \* the part being received
    got,        \* bytes of that part received
    total,      \* total_bytes
    digests,    \* the blobs of the parts that are finished, in order
    incoming,   \* temporary files in incoming/: <<upload, part>> -> bytes in it
    abandoned,  \* history: temporary files that their upload could not remove
    blobs,      \* digests of the files in blobs/
    stored,     \* rows of the reports table: upload -> [bytes, blobs]
    sidecars,   \* uploads with a file in reports/
    coreKept    \* crashes whose core is still on their machine's disk

server == <<step, part, got, total, digests, incoming, abandoned, blobs, stored, sidecars>>
\* What no step changes.
given == <<payload, about>>
vars == <<given, server, coreKept>>

Payload == [core : 1..MaxCore, text : 0..MaxText]

\* The metadata is the whole report, the texts included.
MetadataSize(c) == Overhead + payload[c].text

\* upload_report: the metadata, then the attachments in the order collected.
Parts(c) ==
    <<[name |-> "metadata", size |-> MetadataSize(c)],
      [name |-> "core-dump", size |-> payload[c].core]>>
    \o IF payload[c].text = 0 THEN <<>> ELSE <<[name |-> "text", size |-> payload[c].text]>>

\* SHA-256 of the first n bytes of the part of that name.
Digest(c, name, n) == [crash |-> c, name |-> name, bytes |-> n]

\* Report::transfer_size: the attachments, and not the metadata.
TransferSize(c) == payload[c].core + payload[c].text

Smaller(m, n) == IF m < n THEN m ELSE n

\* Bug variant: nothing is allowed on top of the core.
MaxBytesTight(c) == Smaller(payload[c].core, MaxPayload)

\* post_events: the max_bytes of the directive, from the core's size.
MaxBytes(c) == Smaller(payload[c].core + Slack, MaxPayload)

Init ==
    /\ payload \in [Crash -> Payload] /\ about \in [Upload -> Crash]
    /\ step = [u \in Upload |-> "offered"]
    /\ part = [u \in Upload |-> 1] /\ got = [u \in Upload |-> 0]
    /\ total = [u \in Upload |-> 0] /\ digests = [u \in Upload |-> <<>>]
    /\ incoming = <<>> /\ abandoned = {} /\ blobs = {} /\ stored = <<>> /\ sidecars = {}
    /\ coreKept = Crash

Put(files, name, new) ==
    [k \in DOMAIN files \cup {name} |-> IF k = name THEN new ELSE files[k]]
Without(files, name) == [k \in DOMAIN files \ {name} |-> files[k]]

Goto(u, from, to) == step[u] = from /\ step' = [step EXCEPT ![u] = to]
Current(u) == Parts(about[u])[part[u]]
File(u) == <<u, part[u]>>
NextPart(u) == part' = [part EXCEPT ![u] = @ + 1]

-----------------------------------------------------------------------------
(* upload_report, before anything is sent *)

\* The client declines a payload that is larger than the directive allows, or
\* whose core it cannot open any more.
ClientDeclines(u) ==
    /\ Goto(u, "offered", "declined")
    /\ TransferSize(about[u]) > MaxBytes(about[u]) \/ about[u] \notin coreKept
    /\ UNCHANGED <<given, part, got, total, digests, incoming, abandoned, blobs, stored,
                   sidecars, coreKept>>

ClientSends(u) ==
    /\ Goto(u, "offered", "field")
    /\ TransferSize(about[u]) <= MaxBytes(about[u]) /\ about[u] \in coreKept
    /\ UNCHANGED <<given, part, got, total, digests, incoming, abandoned, blobs, stored,
                   sidecars, coreKept>>

-----------------------------------------------------------------------------
(* post_report *)

\* next_field, and Storage::begin, which every part goes through.
BeginPart(u) ==
    /\ part[u] <= Len(Parts(about[u]))
    /\ got' = [got EXCEPT ![u] = 0]
    /\ \/ /\ Goto(u, "field", "chunk")
          /\ incoming' = Put(incoming, File(u), 0)
       \/ /\ DiskFails /\ Goto(u, "field", "failed")
          /\ UNCHANGED incoming
    /\ UNCHANGED <<given, part, total, digests, abandoned, blobs, stored, sidecars, coreKept>>

\* BlobWriter::abort, and finish for a duplicate: the temporary file is removed,
\* and an error in doing so is ignored.
Abort(u) ==
    \/ incoming' = Without(incoming, File(u)) /\ abandoned' = abandoned
    \/ DiskFails /\ incoming' = incoming /\ abandoned' = abandoned \cup {File(u)}

\* A chunk that keeps the upload within its limit.  The metadata is held in
\* memory and its file stays empty.  An error on the disk is answered like a
\* payload that is too large.
Chunk(u) ==
    /\ step[u] = "chunk"
    /\ \E n \in 1..(Current(u).size - got[u]) :
         /\ total[u] + n <= MaxBytes(about[u])
         /\ got' = [got EXCEPT ![u] = @ + n]
         /\ total' = [total EXCEPT ![u] = @ + n]
         /\ \/ /\ Goto(u, "chunk", "chunk")
               /\ incoming' = IF Current(u).name = "metadata" THEN incoming
                              ELSE [incoming EXCEPT ![File(u)] = @ + n]
               /\ abandoned' = abandoned
            \/ /\ DiskFails /\ Current(u).name # "metadata"
               /\ Goto(u, "chunk", "failed") /\ Abort(u)
    /\ UNCHANGED <<given, part, digests, blobs, stored, sidecars, coreKept>>

\* Bug variant: the answer is sent without removing the file.
TooLargeLeavesFile(u) ==
    /\ Goto(u, "chunk", "too_large")
    /\ \E n \in 1..(Current(u).size - got[u]) : total[u] + n > MaxBytes(about[u])
    /\ UNCHANGED <<given, part, got, total, digests, incoming, abandoned, blobs, stored,
                   sidecars, coreKept>>

\* A chunk over the limit ends the upload.
TooLarge(u) ==
    /\ Goto(u, "chunk", "too_large")
    /\ \E n \in 1..(Current(u).size - got[u]) : total[u] + n > MaxBytes(about[u])
    /\ Abort(u)
    /\ UNCHANGED <<given, part, got, total, digests, blobs, stored, sidecars,
                   coreKept>>

\* Bug variant: a body that breaks off ends the part.
TruncatedIsTheEnd(u) ==
    /\ Goto(u, "chunk", "finish")
    /\ Current(u).name # "metadata"
    /\ UNCHANGED <<given, part, got, total, digests, incoming, abandoned, blobs, stored,
                   sidecars, coreKept>>

\* The body breaks off inside a part.
Truncated(u) ==
    /\ Goto(u, "chunk", "failed")
    /\ got[u] < Current(u).size
    /\ Abort(u)
    /\ UNCHANGED <<given, part, got, total, digests, blobs, stored, sidecars,
                   coreKept>>

\* The metadata is complete; its file is not wanted.
EndMetadata(u) ==
    /\ Goto(u, "chunk", "field")
    /\ Current(u).name = "metadata" /\ got[u] = Current(u).size
    /\ Abort(u) /\ NextPart(u)
    /\ UNCHANGED <<given, got, total, digests, blobs, stored, sidecars, coreKept>>

EndPart(u) ==
    /\ Goto(u, "chunk", "finish")
    /\ Current(u).name # "metadata" /\ got[u] = Current(u).size
    /\ UNCHANGED <<given, part, got, total, digests, incoming, abandoned, blobs, stored,
                   sidecars, coreKept>>

\* What the temporary file of u holds.
Received(u) == Digest(about[u], Current(u).name, incoming[File(u)])

\* BlobWriter::finish looks for a blob with the same digest.
FinishCheck(u) ==
    /\ step[u] = "finish"
    /\ step' = [step EXCEPT ![u] = IF Received(u) \in blobs THEN "drop" ELSE "rename"]
    /\ UNCHANGED <<given, part, got, total, digests, incoming, abandoned, blobs, stored,
                   sidecars, coreKept>>

\* The blob of the part just finished is noted under the part's name.
NoteBlob(u) == digests' = [digests EXCEPT ![u] = Append(@, Received(u))]

\* finish: the blob is there already.
FinishDrop(u) ==
    /\ Goto(u, "drop", "field")
    /\ NoteBlob(u) /\ NextPart(u)
    /\ Abort(u)
    /\ UNCHANGED <<given, got, total, blobs, stored, sidecars, coreKept>>

\* finish: ours becomes the blob.
FinishRename(u) ==
    /\ Goto(u, "rename", "field")
    /\ blobs' = blobs \cup {Received(u)}
    /\ incoming' = Without(incoming, File(u))
    /\ NoteBlob(u) /\ NextPart(u)
    /\ UNCHANGED <<given, got, total, abandoned, stored, sidecars, coreKept>>

\* finish: flush, sync, create_dir_all or rename fails, and our file stays.
FinishFails(u) ==
    /\ DiskFails
    /\ Goto(u, "finish", "failed") \/ Goto(u, "rename", "failed")
    /\ abandoned' = abandoned \cup {File(u)}
    /\ UNCHANGED <<given, part, got, total, digests, incoming, blobs, stored, sidecars,
                   coreKept>>

\* record_report, once every part is stored.
Record(u) ==
    /\ part[u] > Len(Parts(about[u]))
    /\ Goto(u, "field", "sidecar")
    /\ stored' = Put(stored, u, [bytes |-> total[u], blobs |-> digests[u]])
    /\ UNCHANGED <<given, part, got, total, digests, incoming, abandoned, blobs, sidecars,
                   coreKept>>

\* The database refuses, or the body breaks off between two parts.
FieldFails(u) ==
    /\ Goto(u, "field", "failed")
    /\ UNCHANGED <<given, part, got, total, digests, incoming, abandoned, blobs, stored,
                   sidecars, coreKept>>

\* write_metadata, best effort.
WriteSidecar(u) ==
    /\ Goto(u, "sidecar", "reply")
    /\ sidecars' = sidecars \cup {u} \/ (DiskFails /\ sidecars' = sidecars)
    /\ UNCHANGED <<given, part, got, total, digests, incoming, abandoned, blobs, stored,
                   coreKept>>

\* The client goes away and its handler is dropped, or the server is killed: a
\* temporary file that is open stays.
Dropped(u) ==
    /\ step[u] \in {"field", "chunk", "finish", "drop", "rename", "sidecar", "reply"}
    /\ step' = [step EXCEPT ![u] = "failed"]
    /\ abandoned' = abandoned \cup ({File(u)} \cap DOMAIN incoming)
    /\ UNCHANGED <<given, part, got, total, digests, incoming, blobs, stored, sidecars,
                   coreKept>>

-----------------------------------------------------------------------------
(* The client, once it has its answer *)

\* Bug variant: any answer is taken for a receipt.
RemoveCoreOnAnyAnswer(u) ==
    /\ step[u] \in {"reply", "failed"} /\ step' = [step EXCEPT ![u] = "done"]
    /\ coreKept' = coreKept \ {about[u]}
    /\ UNCHANGED <<given, part, got, total, digests, incoming, abandoned, blobs, stored,
                   sidecars>>

\* send: the receipt is here and the core is removed.
RemoveCore(u) ==
    /\ Goto(u, "reply", "done")
    /\ coreKept' = coreKept \ {about[u]}
    /\ UNCHANGED <<given, part, got, total, digests, incoming, abandoned, blobs, stored,
                   sidecars>>

Progress(u) ==
    \/ BeginPart(u) \/ Chunk(u) \/ TooLarge(u) \/ Truncated(u) \/ EndMetadata(u) \/ EndPart(u)
    \/ FinishCheck(u) \/ FinishDrop(u) \/ FinishRename(u) \/ FinishFails(u)
    \/ Record(u) \/ FieldFails(u) \/ WriteSidecar(u) \/ RemoveCore(u)

Next ==
    \E u \in Upload : ClientDeclines(u) \/ ClientSends(u) \/ Progress(u) \/ Dropped(u)

Spec == Init /\ [][Next]_vars
-----------------------------------------------------------------------------
Step == {"offered", "declined", "field", "chunk", "finish", "drop", "rename", "sidecar",
         "reply", "done", "too_large", "failed"}
Digests == [crash : Crash, name : {"core-dump", "text"}, bytes : Nat]

\* Type invariant.  A file is in incoming/ only while its upload is received,
\* unless the upload was dropped or the disk failed (every exit of post_report).
TypeOK ==
    /\ payload \in [Crash -> Payload] /\ about \in [Upload -> Crash]
    /\ step \in [Upload -> Step]
    /\ \A u \in Upload :
         /\ part[u] \in 1..(Len(Parts(about[u])) + 1)
         /\ got[u] \in 0..(MaxCore + MaxText + Overhead)
         /\ total[u] \in 0..MaxPayload
         /\ digests[u] \in Seq(Digests)
    /\ DOMAIN incoming \subseteq Upload \X (1..3)
    /\ DOMAIN incoming \ abandoned \subseteq
         {File(u) : u \in {x \in Upload : step[x] \in {"chunk", "finish", "drop", "rename"}}}
    /\ \A f \in DOMAIN incoming : incoming[f] \in Nat
    /\ abandoned \subseteq DOMAIN incoming /\ blobs \subseteq Digests
    /\ DOMAIN stored \subseteq Upload /\ sidecars \subseteq DOMAIN stored /\ coreKept \subseteq Crash

\* What the client meant to send: the digests of the attachments, in full.
Attachments(c) ==
    LET parts == Tail(Parts(c))
    IN  [i \in 1..Len(parts) |-> Digest(c, parts[i].name, parts[i].size)]

\* A report in the database names every attachment of the client's report, each
\* complete and in the blob store, however the uploads of the same core
\* interleave and wherever one breaks off; and it is within the limit its
\* directive named, metadata included (post_report, BlobWriter::finish).
StoredIsComplete ==
    \A u \in DOMAIN stored :
        /\ stored[u].bytes <= MaxBytes(about[u])
        /\ stored[u].bytes = MetadataSize(about[u]) + TransferSize(about[u])
        /\ stored[u].blobs = Attachments(about[u])
        /\ Range(stored[u].blobs) \subseteq blobs

\* A core that is gone from the client's disk is in the store, complete, and a
\* row says so (send, post_report).
CoreIsSomewhere ==
    \A c \in Crash \ coreKept : \E u \in DOMAIN stored :
        Digest(c, "core-dump", payload[c].core) \in Range(stored[u].blobs) \cap blobs

\* An upload the client thought small enough is found too large only if the
\* server's own maximum cut the slack off, or if metadata and texts are more
\* than the slack.
RejectionsExplained ==
    \A u \in Upload : step[u] = "too_large" =>
        \/ payload[about[u]].core + Slack > MaxPayload
        \/ MetadataSize(about[u]) + payload[about[u]].text > Slack
=============================================================================
