------------------------- MODULE PayloadUploadProofs -------------------------
(***************************************************************************)
(* Proofs about PayloadUpload, for any number of uploads and crashes, any  *)
(* sizes and any limits.                                                   *)
(***************************************************************************)
EXTENDS PayloadUpload, SequenceTheorems, TLAPS

-----------------------------------------------------------------------------
(* The inductive invariant *)

\* The upload has a temporary file open.
Open == {"chunk", "finish", "drop", "rename"}

\* The bytes of the parts before the k-th.
Before(c, k) ==
    IF k = 1 THEN 0
    ELSE IF k = 2 THEN MetadataSize(c)
    ELSE IF k = 3 THEN MetadataSize(c) + payload[c].core
    ELSE MetadataSize(c) + payload[c].core + payload[c].text

\* The blobs of the parts before the k-th: the metadata has none.
CoreDigest(c) == Digest(c, "core-dump", payload[c].core)
TextDigest(c) == Digest(c, "text", payload[c].text)
Noted(c, k) ==
    IF k <= 2 THEN <<>>
    ELSE IF k = 3 THEN <<CoreDigest(c)>>
    ELSE <<CoreDigest(c), TextDigest(c)>>

\* The variables of the uploads are functions, which TypeOK does not say.
Functional ==
    /\ part \in [Upload -> 1..4] /\ got \in [Upload -> Nat] /\ total \in [Upload -> Nat]
    /\ digests \in [Upload -> Seq(Digests)]
    /\ incoming \in [DOMAIN incoming -> Nat]

\* The count of bytes is the parts that are finished and what has come of the
\* one being received.
Counting(u) ==
    /\ total[u] <= MaxBytes(about[u])
    /\ step[u] \in {"offered", "declined"} => part[u] = 1 /\ total[u] = 0
    /\ step[u] = "field" => total[u] = Before(about[u], part[u])
    /\ step[u] \in Open =>
         /\ part[u] <= Len(Parts(about[u])) /\ got[u] <= Current(u).size
         /\ total[u] = Before(about[u], part[u]) + got[u]
    /\ step[u] \in {"finish", "drop", "rename"} => part[u] # 1 /\ got[u] = Current(u).size

\* The open file is there and holds what has come of its part; the metadata's
\* holds nothing.  A file left behind is of an earlier part, or the upload is over.
Writing(u) ==
    /\ step[u] \in Open =>
         /\ File(u) \in DOMAIN incoming
         /\ incoming[File(u)] = IF part[u] = 1 THEN 0 ELSE got[u]
    /\ \A k \in 1..3 : <<u, k>> \in abandoned =>
         k < part[u] \/ step[u] \in {"failed", "too_large"}

\* The blobs noted are those of the parts that are finished, complete and stored;
\* a file that is dropped has its double; an upload that was recorded has its row.
Noting(u) ==
    /\ digests[u] = Noted(about[u], part[u]) /\ Range(digests[u]) \subseteq blobs
    /\ step[u] = "drop" => Received(u) \in blobs
    /\ step[u] \in {"sidecar", "reply", "done"} => u \in DOMAIN stored

\* A core that is gone was uploaded.
GoneIsStored == \A c \in Crash \ coreKept : \E u \in DOMAIN stored : about[u] = c

IInv ==
    /\ TypeOK /\ Functional
    /\ \A u \in Upload : Counting(u) /\ Writing(u) /\ Noting(u)
    /\ StoredIsComplete /\ GoneIsStored /\ RejectionsExplained

-----------------------------------------------------------------------------
(* The data *)

\* What is uploaded: the metadata, the core, and the text if there is one.
LEMMA PartsAre ==
    ASSUME TypeOK, NEW c \in Crash
    PROVE  /\ Overhead \in Nat /\ payload[c].core \in 1..MaxCore /\ payload[c].text \in 0..MaxText
           /\ MetadataSize(c) \in Nat /\ payload[c].core \in Nat /\ payload[c].text \in Nat
           /\ MetadataSize(c) <= Overhead + MaxText
           /\ Len(Parts(c)) = IF payload[c].text = 0 THEN 2 ELSE 3
           /\ Parts(c)[1] = [name |-> "metadata", size |-> MetadataSize(c)]
           /\ Parts(c)[2] = [name |-> "core-dump", size |-> payload[c].core]
           /\ payload[c].text # 0 => Parts(c)[3] = [name |-> "text", size |-> payload[c].text]
<1>1. payload[c] \in Payload
  BY DEF TypeOK
<1>2. /\ payload[c].core \in 1..MaxCore /\ payload[c].text \in 0..MaxText
      /\ MaxCore \in Nat /\ MaxText \in Nat /\ Overhead \in Nat
  BY <1>1, SizeAssumption DEF Payload
<1>3. MetadataSize(c) \in Nat /\ MetadataSize(c) <= Overhead + MaxText
  BY <1>2 DEF MetadataSize
<1>4. CASE payload[c].text = 0
  BY <1>2, <1>3, <1>4 DEF Parts
<1>5. CASE payload[c].text # 0
  BY <1>2, <1>3, <1>5 DEF Parts
<1> QED  BY <1>2, <1>3, <1>4, <1>5

\* The parts add up.
LEMMA Adding ==
    ASSUME TypeOK, NEW c \in Crash
    PROVE  /\ \A k \in 1..Len(Parts(c)) :
                /\ Parts(c)[k].size \in Nat /\ Parts(c)[k].size <= MaxCore + MaxText + Overhead
                /\ Before(c, k) \in Nat
                /\ Before(c, k + 1) = Before(c, k) + Parts(c)[k].size
                /\ Before(c, k) + Parts(c)[k].size <= MetadataSize(c) + TransferSize(c)
                /\ (Parts(c)[k].name = "metadata") <=> (k = 1)
           /\ Before(c, 1) = 0
           /\ Before(c, Len(Parts(c)) + 1) = MetadataSize(c) + TransferSize(c)
           /\ MaxBytes(c) \in Nat /\ MaxBytes(c) <= MaxPayload
           /\ MaxBytes(c) <= payload[c].core + Slack
           /\ MaxBytes(c) = MaxPayload \/ MaxBytes(c) = payload[c].core + Slack
<1>1. /\ Overhead \in Nat /\ payload[c].core \in 1..MaxCore /\ payload[c].text \in 0..MaxText
      /\ MetadataSize(c) \in Nat /\ payload[c].core \in Nat /\ payload[c].text \in Nat
      /\ MetadataSize(c) <= Overhead + MaxText
      /\ Len(Parts(c)) = IF payload[c].text = 0 THEN 2 ELSE 3
      /\ Parts(c)[1] = [name |-> "metadata", size |-> MetadataSize(c)]
      /\ Parts(c)[2] = [name |-> "core-dump", size |-> payload[c].core]
      /\ payload[c].text # 0 => Parts(c)[3] = [name |-> "text", size |-> payload[c].text]
  BY PartsAre
<1>2. MaxCore \in Nat /\ MaxText \in Nat /\ Slack \in Nat /\ MaxPayload \in Nat
  BY SizeAssumption
<1>3. ASSUME NEW k \in 1..Len(Parts(c))
      PROVE  /\ Parts(c)[k].size \in Nat /\ Parts(c)[k].size <= MaxCore + MaxText + Overhead
             /\ Before(c, k) \in Nat
             /\ Before(c, k + 1) = Before(c, k) + Parts(c)[k].size
             /\ Before(c, k) + Parts(c)[k].size <= MetadataSize(c) + TransferSize(c)
             /\ (Parts(c)[k].name = "metadata") <=> (k = 1)
  <2>1. CASE k = 1
    BY <1>1, <1>2, <2>1 DEF Before, TransferSize
  <2>2. CASE k = 2
    BY <1>1, <1>2, <2>2 DEF Before, TransferSize
  <2>3. CASE k = 3 /\ payload[c].text # 0
    BY <1>1, <1>2, <2>3 DEF Before, TransferSize
  <2> QED  BY <1>1, <1>3, <2>1, <2>2, <2>3
<1>4. Before(c, 1) = 0 /\ Before(c, Len(Parts(c)) + 1) = MetadataSize(c) + TransferSize(c)
  BY <1>1 DEF Before, TransferSize
<1>5. /\ MaxBytes(c) \in Nat /\ MaxBytes(c) <= MaxPayload /\ MaxBytes(c) <= payload[c].core + Slack
      /\ MaxBytes(c) = MaxPayload \/ MaxBytes(c) = payload[c].core + Slack
  BY <1>1, <1>2 DEF MaxBytes, Smaller
<1> QED  BY <1>3, <1>4, <1>5

\* What is noted when all parts are finished is what the client meant to send.
LEMMA NotedIs ==
    ASSUME TypeOK, NEW c \in Crash
    PROVE  /\ \A k \in 1..Len(Parts(c)) :
                k # 1 => Noted(c, k + 1) = Append(Noted(c, k), Digest(c, Parts(c)[k].name, Parts(c)[k].size))
           /\ Noted(c, 1) = <<>> /\ Noted(c, 2) = <<>>
           /\ Noted(c, Len(Parts(c)) + 1) = Attachments(c)
           /\ \A k \in 1..4 : Noted(c, k) \in Seq(Digests)
           /\ CoreDigest(c) \in Range(Noted(c, Len(Parts(c)) + 1))
<1>1. /\ payload[c].core \in Nat /\ payload[c].text \in Nat
      /\ Len(Parts(c)) = IF payload[c].text = 0 THEN 2 ELSE 3
      /\ Parts(c)[1] = [name |-> "metadata", size |-> MetadataSize(c)]
      /\ Parts(c)[2] = [name |-> "core-dump", size |-> payload[c].core]
      /\ payload[c].text # 0 => Parts(c)[3] = [name |-> "text", size |-> payload[c].text]
  BY PartsAre
<1>2. CoreDigest(c) \in Digests /\ TextDigest(c) \in Digests
  BY <1>1 DEF CoreDigest, TextDigest, Digest, Digests
<1>3. \A k \in 1..4 : Noted(c, k) \in Seq(Digests)
  BY <1>2 DEF Noted
<1>4. ASSUME NEW k \in 1..Len(Parts(c)), k # 1
      PROVE  Noted(c, k + 1) = Append(Noted(c, k), Digest(c, Parts(c)[k].name, Parts(c)[k].size))
  <2>1. CASE k = 2
    BY <1>1, <2>1 DEF Noted, CoreDigest
  <2>2. CASE k = 3 /\ payload[c].text # 0
    BY <1>1, <2>2 DEF Noted, TextDigest
  <2> QED  BY <1>1, <1>4, <2>1, <2>2
<1>5. Noted(c, Len(Parts(c)) + 1) = Attachments(c)
  <2> DEFINE metadata == [name |-> "metadata", size |-> MetadataSize(c)]
             dump == [name |-> "core-dump", size |-> payload[c].core]
             text == [name |-> "text", size |-> payload[c].text]
             Kind == {metadata, dump, text}
  <2> HIDE DEF metadata, dump, text
  <2>1. Parts(c) \in Seq(Kind)
    <3>1. <<metadata, dump>> \in Seq(Kind) /\ <<text>> \in Seq(Kind) /\ << >> \in Seq(Kind)
      OBVIOUS
    <3> HIDE DEF Kind
    <3>2. Parts(c) = <<metadata, dump>> \o IF payload[c].text = 0 THEN << >> ELSE <<text>>
      BY DEF Parts, metadata, dump, text
    <3> QED  BY <3>1, <3>2
  <2> HIDE DEF Kind
  <2>2. Len(Parts(c)) >= 2 /\ Parts(c) # << >>
    BY <1>1, <2>1
  <2>3. /\ Tail(Parts(c)) \in Seq(Kind) /\ Len(Tail(Parts(c))) = Len(Parts(c)) - 1
        /\ \A i \in 1..Len(Tail(Parts(c))) : Tail(Parts(c))[i] = Parts(c)[i + 1]
    BY <2>1, <2>2, HeadTailProperties
  <2>4. /\ DOMAIN Attachments(c) = 1..(Len(Parts(c)) - 1)
        /\ \A i \in 1..(Len(Parts(c)) - 1) :
              Attachments(c)[i] = Digest(c, Parts(c)[i + 1].name, Parts(c)[i + 1].size)
    BY <2>3 DEF Attachments
  <2>5. \A i \in 1..(Len(Parts(c)) - 1) : Attachments(c)[i] \in Digests
    <3> SUFFICES ASSUME NEW i \in 1..(Len(Parts(c)) - 1)  PROVE Attachments(c)[i] \in Digests
      OBVIOUS
    <3>1. CASE i = 1
      BY <1>1, <1>2, <2>4, <3>1 DEF CoreDigest
    <3>2. CASE i = 2 /\ payload[c].text # 0
      BY <1>1, <1>2, <2>4, <3>2 DEF TextDigest
    <3> QED  BY <1>1, <3>1, <3>2
  <2>6. PICK m \in Nat : m = Len(Parts(c)) - 1
    BY <1>1
  <2>7. Attachments(c) \in Seq(Digests) /\ Len(Attachments(c)) = Len(Parts(c)) - 1
    <3>1. Attachments(c) = [i \in 1..m |-> Attachments(c)[i]]
      BY <2>3, <2>6 DEF Attachments
    <3>2. Attachments(c) \in [1..m -> Digests]
      BY <2>5, <2>6, <3>1
    <3>3. Attachments(c) \in Seq(Digests)
      BY <3>2, SeqDef
    <3> QED  BY <2>4, <2>6, <3>3, LenProperties
  <2>8. /\ Len(Noted(c, Len(Parts(c)) + 1)) = Len(Parts(c)) - 1
        /\ Noted(c, Len(Parts(c)) + 1) \in Seq(Digests)
        /\ \A i \in 1..(Len(Parts(c)) - 1) :
              Noted(c, Len(Parts(c)) + 1)[i] = Digest(c, Parts(c)[i + 1].name, Parts(c)[i + 1].size)
    BY <1>1, <1>3 DEF Noted, CoreDigest, TextDigest
  <2> QED  BY <2>4, <2>7, <2>8, SeqEqual
<1>6. CoreDigest(c) \in Range(Noted(c, Len(Parts(c)) + 1))
  <2>1. Noted(c, Len(Parts(c)) + 1)[1] = CoreDigest(c) /\ 1 \in DOMAIN Noted(c, Len(Parts(c)) + 1)
    BY <1>1 DEF Noted
  <2> QED  BY <2>1 DEF Range
<1> QED  BY <1>3, <1>4, <1>5, <1>6 DEF Noted

-----------------------------------------------------------------------------
(* One step of one upload *)

LEMMA GivenStays ==
    ASSUME UNCHANGED given
    PROVE  /\ payload' = payload /\ about' = about
           /\ \A u \in Upload :
                /\ Parts(about[u])' = Parts(about[u])
                /\ MaxBytes(about[u])' = MaxBytes(about[u])
                /\ MetadataSize(about[u])' = MetadataSize(about[u])
                /\ TransferSize(about[u])' = TransferSize(about[u])
                /\ Attachments(about[u])' = Attachments(about[u])
                /\ Before(about[u], part[u])' = Before(about[u], part'[u])
                /\ Noted(about[u], part[u])' = Noted(about[u], part'[u])
                /\ Current(u)' = Parts(about[u])[part'[u]]
                /\ File(u)' = <<u, part'[u]>>
<1>1. payload' = payload /\ about' = about
  BY DEF given
<1> QED
  BY <1>1 DEF Parts, MaxBytes, Smaller, MetadataSize, TransferSize, Attachments, Before, Noted,
              CoreDigest, TextDigest, Current, File

\* Counting in the next state, in terms of what a step changes.
CountingNext(u) ==
    /\ total'[u] <= MaxBytes(about[u])
    /\ step'[u] \in {"offered", "declined"} => part'[u] = 1 /\ total'[u] = 0
    /\ step'[u] = "field" => total'[u] = Before(about[u], part'[u])
    /\ step'[u] \in Open =>
         /\ part'[u] <= Len(Parts(about[u])) /\ got'[u] <= Parts(about[u])[part'[u]].size
         /\ total'[u] = Before(about[u], part'[u]) + got'[u]
    /\ step'[u] \in {"finish", "drop", "rename"} =>
         part'[u] # 1 /\ got'[u] = Parts(about[u])[part'[u]].size

LEMMA CountingIs ==
    ASSUME UNCHANGED given, NEW u \in Upload, CountingNext(u)
    PROVE  Counting(u)'
<1>1. /\ Parts(about[u])' = Parts(about[u]) /\ MaxBytes(about[u])' = MaxBytes(about[u])
      /\ Before(about[u], part[u])' = Before(about[u], part'[u])
      /\ Current(u)' = Parts(about[u])[part'[u]]
  BY GivenStays
<1> QED  BY <1>1 DEF CountingNext, Counting, Open

\* What a step of u leaves alone.
Apart(u) ==
    /\ UNCHANGED given
    /\ \A v \in Upload \ {u} :
         /\ step'[v] = step[v] /\ part'[v] = part[v] /\ got'[v] = got[v]
         /\ total'[v] = total[v] /\ digests'[v] = digests[v]
         /\ \A k \in 1..3 :
              /\ <<v, k>> \in DOMAIN incoming' <=> <<v, k>> \in DOMAIN incoming
              /\ <<v, k>> \in DOMAIN incoming => incoming'[<<v, k>>] = incoming[<<v, k>>]
              /\ <<v, k>> \in abandoned' <=> <<v, k>> \in abandoned
    /\ blobs \subseteq blobs' /\ coreKept' \subseteq coreKept
    /\ DOMAIN stored \subseteq DOMAIN stored' /\ DOMAIN stored' \subseteq DOMAIN stored \cup {u}
    /\ \A v \in DOMAIN stored \ {u} : stored'[v] = stored[v]

\* What is known of an upload.
LEMMA Facts ==
    ASSUME IInv, NEW u \in Upload
    PROVE  /\ about[u] \in Crash /\ step[u] \in Step
           /\ got[u] \in Nat /\ total[u] \in Nat /\ part[u] \in Nat
           /\ Len(Parts(about[u])) \in 2..3 /\ part[u] \in 1..(Len(Parts(about[u])) + 1)
           /\ step[u] \in Open =>
                /\ part[u] \in 1..3 /\ part[u] \in 1..Len(Parts(about[u]))
                /\ (Current(u).name = "metadata") <=> (part[u] = 1)
                /\ Current(u).size \in Nat /\ Current(u).size <= MaxCore + MaxText + Overhead
                /\ File(u) = <<u, part[u]>> /\ File(u) \in DOMAIN incoming
                /\ File(u) \notin abandoned
<1> USE DEF Open
<1>1. /\ TypeOK /\ Functional /\ Counting(u) /\ Writing(u) /\ about[u] \in Crash /\ step[u] \in Step
      /\ got[u] \in Nat /\ total[u] \in Nat /\ part[u] \in 1..4
      /\ part[u] \in 1..(Len(Parts(about[u])) + 1)
  BY DEF IInv, TypeOK, Functional
<1>2. Len(Parts(about[u])) \in 2..3
  <2>1. Len(Parts(about[u])) = 2 \/ Len(Parts(about[u])) = 3
    BY <1>1, PartsAre
  <2> QED  BY <2>1
<1>3. ASSUME step[u] \in Open
      PROVE  part[u] \in 1..3 /\ part[u] \in 1..Len(Parts(about[u]))
  <2>1. part[u] <= Len(Parts(about[u]))
    BY <1>1, <1>3 DEF Counting
  <2>2. PICK n \in 2..3 : n = Len(Parts(about[u]))
    BY <1>2
  <2>3. PICK p \in 1..4 : p = part[u]
    BY <1>1
  <2>4. p <= n
    BY <2>1, <2>2, <2>3
  <2>5. n \in Nat /\ p \in Nat /\ p >= 1 /\ n <= 3
    OBVIOUS
  <2>6. p <= 3
    BY <2>4, <2>5
  <2>7. p \in 1..3 /\ p \in 1..n
    BY <2>4, <2>5, <2>6
  <2> QED  BY <2>2, <2>3, <2>7
<1>4. ASSUME step[u] \in Open
      PROVE  /\ (Current(u).name = "metadata") <=> (part[u] = 1)
             /\ Current(u).size \in Nat /\ Current(u).size <= MaxCore + MaxText + Overhead
  BY <1>1, <1>3, <1>4, Adding DEF Current
<1>5. ASSUME step[u] \in Open
      PROVE  File(u) = <<u, part[u]>> /\ File(u) \in DOMAIN incoming /\ File(u) \notin abandoned
  <2>1. step[u] \notin {"failed", "too_large"} /\ ~ (part[u] < part[u])
    BY <1>1, <1>5
  <2> QED  BY <1>1, <1>3, <1>5, <2>1 DEF File, Writing
<1> QED  BY <1>1, <1>2, <1>3, <1>4, <1>5

\* The uploads other than u are as they were.
LEMMA OthersKeep ==
    ASSUME IInv, NEW u \in Upload, Apart(u), NEW v \in Upload, v # u
    PROVE  (Counting(v) /\ Writing(v) /\ Noting(v))'
<1> USE DEF Open
<1>1. /\ MaxBytes(about[v])' = MaxBytes(about[v]) /\ Parts(about[v])' = Parts(about[v])
      /\ Before(about[v], part[v])' = Before(about[v], part'[v])
      /\ Noted(about[v], part[v])' = Noted(about[v], part'[v])
      /\ Current(v)' = Parts(about[v])[part'[v]] /\ File(v)' = <<v, part'[v]>>
  BY GivenStays DEF Apart
<1>2. /\ step'[v] = step[v] /\ part'[v] = part[v] /\ got'[v] = got[v]
      /\ total'[v] = total[v] /\ digests'[v] = digests[v]
  BY DEF Apart
<1>3. Counting(v) /\ Writing(v) /\ Noting(v) /\ about[v] \in Crash /\ part[v] \in 1..4
  BY DEF IInv, TypeOK, Functional
<1>4. Counting(v)'
  BY <1>1, <1>2, <1>3 DEF Counting, Current
<1>5. Writing(v)'
  <2>1. part[v] \in 1..3 \/ step[v] \notin Open
    BY Facts
  <2>2. \A k \in 1..3 : /\ <<v, k>> \in DOMAIN incoming' <=> <<v, k>> \in DOMAIN incoming
                        /\ <<v, k>> \in DOMAIN incoming => incoming'[<<v, k>>] = incoming[<<v, k>>]
                        /\ <<v, k>> \in abandoned' <=> <<v, k>> \in abandoned
    BY DEF Apart
  <2> QED  BY <1>1, <1>2, <1>3, <2>1, <2>2 DEF Writing, File
<1>6. Noting(v)'
  <2>1. ASSUME step'[v] = "drop"  PROVE Received(v)' \in blobs'
    <3>1. /\ Received(v) \in blobs /\ part[v] \in 1..3
          /\ File(v) = <<v, part[v]>> /\ File(v) \in DOMAIN incoming
      BY <1>2, <1>3, <2>1, Facts DEF Noting
    <3>2. PICK k \in 1..3 : k = part[v] /\ <<v, k>> \in DOMAIN incoming /\ File(v) = <<v, k>>
      BY <3>1
    <3>3. /\ incoming'[<<v, k>>] = incoming[<<v, k>>] /\ about' = about /\ blobs \subseteq blobs'
      BY <3>2 DEF Apart, given
    <3>4. Received(v)' = Received(v)
      BY <1>1, <1>2, <3>2, <3>3 DEF Received, Digest, Current, File
    <3> QED  BY <3>1, <3>3, <3>4
  <2> QED  BY <1>1, <1>2, <1>3, <2>1 DEF Noting, Apart
<1> QED  BY <1>4, <1>5, <1>6

\* The row of u is as it should be.
RowIsComplete(u) ==
    /\ stored[u].bytes <= MaxBytes(about[u])
    /\ stored[u].bytes = MetadataSize(about[u]) + TransferSize(about[u])
    /\ stored[u].blobs = Attachments(about[u])
    /\ Range(stored[u].blobs) \subseteq blobs

Explained(u) ==
    \/ payload[about[u]].core + Slack > MaxPayload
    \/ MetadataSize(about[u]) + payload[about[u]].text > Slack

\* What a step of u must establish of the variables of the uploads,
Counted(u) ==
    /\ step' \in [Upload -> Step] /\ part' \in [Upload -> 1..4] /\ got' \in [Upload -> Nat]
    /\ total' \in [Upload -> Nat] /\ digests' \in [Upload -> Seq(Digests)]
    /\ part'[u] \in 1..(Len(Parts(about[u])) + 1) /\ got'[u] <= MaxCore + MaxText + Overhead

\* of the files,
Filed(u) ==
    /\ incoming' \in [DOMAIN incoming' -> Nat]
    /\ DOMAIN incoming' \subseteq Upload \X (1..3) /\ abandoned' \subseteq DOMAIN incoming'
    /\ \A k \in 1..3 : <<u, k>> \in DOMAIN incoming' \ abandoned' => step'[u] \in Open /\ k = part'[u]

\* and of the store and the client's disk.
Kept(u) ==
    /\ blobs' \subseteq Digests /\ sidecars' \subseteq DOMAIN stored'
    /\ u \in DOMAIN stored' =>
         RowIsComplete(u)' \/ (u \in DOMAIN stored /\ stored'[u] = stored[u])
    /\ \A c \in coreKept \ coreKept' : c = about[u] /\ u \in DOMAIN stored
    /\ step'[u] = "too_large" => step[u] = "too_large" \/ Explained(u)

LEMMA OneStep ==
    ASSUME IInv, NEW u \in Upload, Apart(u), Counted(u), Filed(u), Kept(u),
           (Counting(u) /\ Writing(u) /\ Noting(u))'
    PROVE  IInv'
<1>1. /\ payload' = payload /\ about' = about
      /\ \A v \in Upload : /\ Parts(about[v])' = Parts(about[v])
                           /\ MaxBytes(about[v])' = MaxBytes(about[v])
                           /\ MetadataSize(about[v])' = MetadataSize(about[v])
                           /\ TransferSize(about[v])' = TransferSize(about[v])
                           /\ Attachments(about[v])' = Attachments(about[v])
                           /\ File(v)' = <<v, part'[v]>>
  BY GivenStays DEF Apart
<1>2. TypeOK /\ Functional /\ StoredIsComplete /\ GoneIsStored /\ RejectionsExplained
  BY DEF IInv
<1>3. \A v \in Upload : (Counting(v) /\ Writing(v) /\ Noting(v))'
  BY OthersKeep
<1>4. \A v \in Upload \ {u} : step'[v] = step[v] /\ part'[v] = part[v] /\ got'[v] = got[v]
  BY DEF Apart
<1>5. TypeOK'
  <2>1. \A v \in Upload : /\ part'[v] \in 1..(Len(Parts(about[v])') + 1)
                          /\ got'[v] \in 0..(MaxCore + MaxText + Overhead)
    <3> SUFFICES ASSUME NEW v \in Upload
                 PROVE  /\ part'[v] \in 1..(Len(Parts(about[v])') + 1)
                        /\ got'[v] \in 0..(MaxCore + MaxText + Overhead)
      OBVIOUS
    <3>1. CASE v = u
      <4>1. got'[u] \in Nat /\ got'[u] <= MaxCore + MaxText + Overhead
        BY DEF Counted
      <4>2. MaxCore + MaxText + Overhead \in Nat
        BY SizeAssumption
      <4> QED  BY <1>1, <3>1, <4>1, <4>2 DEF Counted
    <3>2. CASE v # u
      BY <1>1, <1>2, <1>4, <3>2 DEF TypeOK
    <3> QED  BY <3>1, <3>2
  <2>2. \A v \in Upload : total'[v] \in 0..MaxPayload
    <3> SUFFICES ASSUME NEW v \in Upload  PROVE total'[v] \in 0..MaxPayload
      OBVIOUS
    <3>1. total'[v] \in Nat /\ total'[v] <= MaxBytes(about[v])
      BY <1>1, <1>3 DEF Counting, Counted
    <3>2. MaxBytes(about[v]) \in Nat /\ MaxBytes(about[v]) <= MaxPayload /\ MaxPayload \in Nat
      BY <1>2, Adding, SizeAssumption DEF TypeOK
    <3> QED  BY <3>1, <3>2
  <2>3. DOMAIN incoming' \ abandoned' \subseteq
          {File(v) : v \in {x \in Upload : step[x] \in {"chunk", "finish", "drop", "rename"}}}'
    <3> SUFFICES ASSUME NEW f \in DOMAIN incoming' \ abandoned'
                 PROVE  \E v \in Upload : /\ step'[v] \in {"chunk", "finish", "drop", "rename"}
                                          /\ f = File(v)'
      OBVIOUS
    <3>1. PICK v \in Upload, k \in 1..3 : f = <<v, k>>
      BY DEF Filed
    <3>2. CASE v = u
      BY <1>1, <3>1, <3>2 DEF Filed, Open
    <3>3. CASE v # u
      <4>1. <<v, k>> \in DOMAIN incoming \ abandoned
        BY <3>1, <3>3 DEF Apart
      <4>2. PICK w \in Upload : step[w] \in {"chunk", "finish", "drop", "rename"} /\ <<v, k>> = File(w)
        BY <1>2, <4>1 DEF TypeOK
      <4>3. w = v /\ k = part[v]
        BY <4>2 DEF File
      <4> QED  BY <1>1, <1>4, <3>1, <3>3, <4>2, <4>3
    <3> QED  BY <3>2, <3>3
  <2>4. DOMAIN stored' \subseteq Upload /\ coreKept' \subseteq Crash /\ payload' \in [Crash -> Payload]
        /\ about' \in [Upload -> Crash]
    BY <1>1, <1>2 DEF TypeOK, Apart
  <2> QED  BY <2>1, <2>2, <2>3, <2>4 DEF TypeOK, Counted, Filed, Kept
<1>6. Functional'
  BY DEF Functional, Counted, Filed
<1>7. StoredIsComplete'
  <2> SUFFICES ASSUME NEW v \in DOMAIN stored'  PROVE RowIsComplete(v)'
    BY DEF StoredIsComplete, RowIsComplete
  <2>1. CASE v \in DOMAIN stored /\ stored'[v] = stored[v]
    <3>1. v \in Upload /\ blobs \subseteq blobs'
      BY <1>2, <2>1 DEF TypeOK, Apart
    <3>2. RowIsComplete(v)
      BY <1>2, <2>1 DEF StoredIsComplete, RowIsComplete
    <3> QED  BY <1>1, <2>1, <3>1, <3>2 DEF RowIsComplete
  <2>2. CASE v # u
    BY <2>1, <2>2 DEF Apart
  <2>3. CASE v = u
    BY <2>1, <2>3 DEF Kept
  <2> QED  BY <2>2, <2>3
<1>8. GoneIsStored'
  <2> SUFFICES ASSUME NEW c \in Crash \ coreKept'  PROVE \E v \in DOMAIN stored' : about'[v] = c
    BY DEF GoneIsStored
  <2>1. CASE c \in coreKept
    BY <1>1, <2>1 DEF Kept, Apart
  <2>2. CASE c \notin coreKept
    BY <1>1, <1>2, <2>2 DEF GoneIsStored, Apart
  <2> QED  BY <2>1, <2>2
<1>9. RejectionsExplained'
  <2> SUFFICES ASSUME NEW v \in Upload, step'[v] = "too_large"  PROVE Explained(v)'
    BY DEF RejectionsExplained, Explained
  <2>1. Explained(v)
    BY <1>2, <1>4 DEF RejectionsExplained, Explained, Kept
  <2> QED  BY <1>1, <2>1 DEF Explained
<1> QED  BY <1>3, <1>5, <1>6, <1>7, <1>8, <1>9 DEF IInv

-----------------------------------------------------------------------------
(* The kinds of steps *)

\* A file that is not abandoned is open.
LEMMA OpenFile ==
    ASSUME IInv, NEW u \in Upload, NEW k \in 1..3, <<u, k>> \in DOMAIN incoming \ abandoned
    PROVE  step[u] \in Open /\ k = part[u]
<1>1. PICK w \in Upload : step[w] \in {"chunk", "finish", "drop", "rename"} /\ <<u, k>> = File(w)
  BY DEF IInv, TypeOK
<1>2. w = u /\ k = part[u]
  BY <1>1 DEF File
<1> QED  BY <1>1, <1>2 DEF Open

\* A step that touches no file and no count.
LEMMA Moving ==
    ASSUME IInv, NEW u \in Upload, NEW s \in Step, step' = [step EXCEPT ![u] = s],
           UNCHANGED <<given, part, got, total, digests, incoming, abandoned, blobs, stored>>,
           step[u] \notin {"failed", "too_large"}, s # "too_large",
           step[u] \in Open <=> s \in Open,
           coreKept' \subseteq coreKept, sidecars' \subseteq DOMAIN stored,
           \A c \in coreKept \ coreKept' : c = about[u] /\ u \in DOMAIN stored,
           s \in {"sidecar", "reply", "done"} => u \in DOMAIN stored,
           s = "drop" => Received(u) \in blobs, Counting(u)'
    PROVE  IInv'
<1>1. /\ TypeOK /\ Functional /\ Writing(u) /\ Noting(u)
      /\ step'[u] = s /\ step' \in [Upload -> Step] /\ \A v \in Upload \ {u} : step'[v] = step[v]
  BY DEF IInv, TypeOK
<1>2. UNCHANGED given /\ part' = part /\ got' = got /\ total' = total /\ digests' = digests
  OBVIOUS
<1>3. incoming' = incoming /\ abandoned' = abandoned /\ blobs' = blobs /\ stored' = stored
  OBVIOUS
<1>4. Apart(u)
  BY <1>1, <1>2, <1>3 DEF Apart
<1>5. Counted(u)
  <2>1. part[u] \in 1..(Len(Parts(about[u])) + 1) /\ got[u] <= MaxCore + MaxText + Overhead
    BY <1>1 DEF TypeOK
  <2> QED  BY <1>1, <1>2, <2>1 DEF Counted, Functional
<1>6. Filed(u)
  <2>1. \A k \in 1..3 : <<u, k>> \in DOMAIN incoming \ abandoned => step[u] \in Open /\ k = part[u]
    BY OpenFile
  <2> QED  BY <1>1, <1>2, <1>3, <2>1 DEF Filed, TypeOK, Functional
<1>7. Kept(u)
  BY <1>1, <1>3 DEF Kept, TypeOK
<1>8. Noted(about[u], part[u])' = Noted(about[u], part'[u]) /\ File(u)' = <<u, part'[u]>>
  BY <1>2, GivenStays
<1>9. Received(u)' = Received(u)
  <2>1. Current(u)' = Parts(about[u])[part'[u]] /\ about' = about
    BY <1>2, GivenStays
  <2> QED  BY <1>2, <1>3, <1>8, <2>1 DEF Received, Digest, Current, File
<1>10. Writing(u)' /\ Noting(u)'
  BY <1>1, <1>2, <1>3, <1>8, <1>9 DEF Writing, Noting, File
<1> QED  BY <1>4, <1>5, <1>6, <1>7, <1>10, OneStep

\* What Abort leaves of u is abandoned, and of a part that was begun.
LEMMA Aborting ==
    ASSUME IInv, NEW u \in Upload, step[u] \in Open, Abort(u)
    PROVE  /\ incoming' \in [DOMAIN incoming' -> Nat]
           /\ DOMAIN incoming' \subseteq Upload \X (1..3) /\ abandoned' \subseteq DOMAIN incoming'
           /\ \A k \in 1..3 : <<u, k>> \in DOMAIN incoming' => <<u, k>> \in abandoned'
           /\ \A k \in 1..3 : <<u, k>> \in abandoned' => k <= part[u]
           /\ \A v \in Upload \ {u}, k \in 1..3 :
                /\ <<v, k>> \in DOMAIN incoming' <=> <<v, k>> \in DOMAIN incoming
                /\ <<v, k>> \in DOMAIN incoming => incoming'[<<v, k>>] = incoming[<<v, k>>]
                /\ <<v, k>> \in abandoned' <=> <<v, k>> \in abandoned
<1>1. /\ incoming \in [DOMAIN incoming -> Nat] /\ DOMAIN incoming \subseteq Upload \X (1..3)
      /\ abandoned \subseteq DOMAIN incoming /\ Writing(u)
  BY DEF IInv, TypeOK, Functional
<1>2. /\ part[u] \in 1..3 /\ File(u) = <<u, part[u]>>
      /\ File(u) \in DOMAIN incoming /\ File(u) \notin abandoned
  BY Facts
<1>3. \A k \in 1..3 : <<u, k>> \in abandoned => k < part[u]
  BY <1>1 DEF Writing, Open
<1>4. \A k \in 1..3 : <<u, k>> \in DOMAIN incoming => <<u, k>> \in abandoned \/ k = part[u]
  BY OpenFile
<1>5. CASE incoming' = Without(incoming, File(u)) /\ abandoned' = abandoned
  <2>1. DOMAIN incoming' = DOMAIN incoming \ {File(u)}
    BY <1>5 DEF Without
  <2>2. \A f \in DOMAIN incoming' : incoming'[f] = incoming[f]
    BY <1>5 DEF Without
  <2>3. incoming' \in [DOMAIN incoming' -> Nat]
    BY <1>1, <1>5, <2>1, <2>2 DEF Without
  <2> QED  BY <1>1, <1>2, <1>3, <1>4, <1>5, <2>1, <2>2, <2>3
<1>6. CASE incoming' = incoming /\ abandoned' = abandoned \cup {File(u)}
  BY <1>1, <1>2, <1>3, <1>4, <1>6
<1> QED  BY <1>5, <1>6 DEF Abort

\* A step that is done with the open file.
LEMMA Closing ==
    ASSUME IInv, NEW u \in Upload, NEW s \in {"field", "failed", "too_large"}, step[u] \in Open,
           step' = [step EXCEPT ![u] = s], Abort(u),
           UNCHANGED <<given, stored, sidecars, coreKept>>,
           blobs \subseteq blobs', blobs' \subseteq Digests,
           \A v \in Upload \ {u} : /\ part'[v] = part[v] /\ got'[v] = got[v]
                                   /\ total'[v] = total[v] /\ digests'[v] = digests[v],
           Counted(u), Counting(u)', digests'[u] = Noted(about[u], part'[u]),
           Range(digests'[u]) \subseteq blobs',
           part'[u] > part[u] \/ s # "field", s = "too_large" => Explained(u)
    PROVE  IInv'
<1>1. /\ TypeOK /\ Functional /\ part[u] \in Nat /\ part'[u] \in Nat
      /\ step'[u] = s /\ \A v \in Upload \ {u} : step'[v] = step[v]
  <2>1. TypeOK /\ Functional
    BY DEF IInv
  <2>2. part[u] \in Nat /\ part'[u] \in Nat
    <3>1. part \in [Upload -> 1..4] /\ part' \in [Upload -> 1..4]
      BY <2>1 DEF Functional, Counted
    <3>2. part[u] \in 1..4 /\ part'[u] \in 1..4
      BY <3>1
    <3> QED  BY <3>2
  <2>3. step'[u] = s /\ \A v \in Upload \ {u} : step'[v] = step[v]
    BY <2>1 DEF TypeOK
  <2> QED  BY <2>1, <2>2, <2>3
<1>2. UNCHANGED given /\ stored' = stored /\ sidecars' = sidecars /\ coreKept' = coreKept
  OBVIOUS
<1>3. /\ incoming' \in [DOMAIN incoming' -> Nat]
      /\ DOMAIN incoming' \subseteq Upload \X (1..3) /\ abandoned' \subseteq DOMAIN incoming'
      /\ \A k \in 1..3 : <<u, k>> \in DOMAIN incoming' => <<u, k>> \in abandoned'
      /\ \A k \in 1..3 : <<u, k>> \in abandoned' => k <= part[u]
      /\ \A v \in Upload \ {u}, k \in 1..3 :
           /\ <<v, k>> \in DOMAIN incoming' <=> <<v, k>> \in DOMAIN incoming
           /\ <<v, k>> \in DOMAIN incoming => incoming'[<<v, k>>] = incoming[<<v, k>>]
           /\ <<v, k>> \in abandoned' <=> <<v, k>> \in abandoned
  BY Aborting
<1>4. Apart(u)
  BY <1>1, <1>2, <1>3 DEF Apart
<1>5. Filed(u)
  BY <1>3 DEF Filed
<1>6. Kept(u)
  BY <1>1, <1>2 DEF Kept, TypeOK
<1>7. Writing(u)'
  <2>1. step'[u] \notin Open
    BY <1>1 DEF Open
  <2>2. ASSUME NEW k \in 1..3, <<u, k>> \in abandoned'
        PROVE  k < part'[u] \/ step'[u] \in {"failed", "too_large"}
    BY <1>1, <1>3, <2>2
  <2> QED  BY <2>1, <2>2 DEF Writing
<1>8. Noting(u)'
  <2>1. Noted(about[u], part[u])' = Noted(about[u], part'[u])
    BY <1>2, GivenStays
  <2> QED  BY <1>1, <1>2, <2>1 DEF Noting
<1> QED  BY <1>4, <1>5, <1>6, <1>7, <1>8, OneStep

-----------------------------------------------------------------------------
(* The client, before anything is sent *)

LEMMA ClientDeclinesStep ==
    ASSUME IInv, NEW u \in Upload, ClientDeclines(u)  PROVE IInv'
<1>1. /\ step[u] = "offered" /\ step' = [step EXCEPT ![u] = "declined"] /\ "declined" \in Step
      /\ UNCHANGED <<given, part, got, total, digests, incoming, abandoned, blobs, stored>>
      /\ sidecars' = sidecars /\ coreKept' = coreKept /\ sidecars \subseteq DOMAIN stored
      /\ step'[u] = "declined"
  BY DEF ClientDeclines, Goto, IInv, TypeOK, Step
<1>2. CountingNext(u)
  BY <1>1 DEF IInv, Counting, CountingNext, Open
<1> QED  BY <1>1, <1>2, CountingIs, Moving DEF Open

LEMMA ClientSendsStep ==
    ASSUME IInv, NEW u \in Upload, ClientSends(u)  PROVE IInv'
<1>1. /\ step[u] = "offered" /\ step' = [step EXCEPT ![u] = "field"] /\ "field" \in Step
      /\ UNCHANGED <<given, part, got, total, digests, incoming, abandoned, blobs, stored>>
      /\ sidecars' = sidecars /\ coreKept' = coreKept /\ sidecars \subseteq DOMAIN stored
      /\ step'[u] = "field"
  BY DEF ClientSends, Goto, IInv, TypeOK, Step
<1>2. CountingNext(u)
  BY <1>1 DEF IInv, Counting, CountingNext, Open, Before
<1> QED  BY <1>1, <1>2, CountingIs, Moving DEF Open

-----------------------------------------------------------------------------
(* post_report: the steps that move no byte *)

LEMMA EndPartStep ==
    ASSUME IInv, NEW u \in Upload, EndPart(u)  PROVE IInv'
<1>1. /\ step[u] = "chunk" /\ step' = [step EXCEPT ![u] = "finish"] /\ "finish" \in Step
      /\ UNCHANGED <<given, part, got, total, digests, incoming, abandoned, blobs, stored>>
      /\ sidecars' = sidecars /\ coreKept' = coreKept /\ sidecars \subseteq DOMAIN stored
      /\ step'[u] = "finish" /\ Current(u).name # "metadata" /\ got[u] = Current(u).size
  BY DEF EndPart, Goto, IInv, TypeOK, Step
<1>2. part[u] # 1
  BY <1>1, Facts DEF Open
<1>3. CountingNext(u)
  BY <1>1, <1>2 DEF IInv, Counting, CountingNext, Open, Current
<1> QED  BY <1>1, <1>3, CountingIs, Moving DEF Open

LEMMA FinishCheckStep ==
    ASSUME IInv, NEW u \in Upload, FinishCheck(u)  PROVE IInv'
<1>1. PICK s \in {"drop", "rename"} :
        step' = [step EXCEPT ![u] = s] /\ (s = "drop" => Received(u) \in blobs)
  BY DEF FinishCheck
<1>2. /\ step[u] = "finish"
      /\ UNCHANGED <<given, part, got, total, digests, incoming, abandoned, blobs, stored>>
      /\ sidecars' = sidecars /\ coreKept' = coreKept
  BY DEF FinishCheck
<1>3. /\ TypeOK /\ Counting(u) /\ sidecars \subseteq DOMAIN stored /\ step'[u] = s
  BY <1>1 DEF IInv, TypeOK
<1>4. /\ s \in Step /\ s \notin {"sidecar", "reply", "done"} /\ s # "too_large"
      /\ step[u] \in Open /\ s \in Open /\ step[u] \notin {"failed", "too_large"}
  BY <1>2 DEF Step, Open
<1>5. CountingNext(u)
  BY <1>2, <1>3 DEF Counting, CountingNext, Open, Current
<1> QED  BY <1>1, <1>2, <1>3, <1>4, <1>5, CountingIs, Moving

LEMMA FieldFailsStep ==
    ASSUME IInv, NEW u \in Upload, FieldFails(u)  PROVE IInv'
<1>1. /\ step[u] = "field" /\ step' = [step EXCEPT ![u] = "failed"] /\ "failed" \in Step
      /\ UNCHANGED <<given, part, got, total, digests, incoming, abandoned, blobs, stored>>
      /\ sidecars' = sidecars /\ coreKept' = coreKept /\ sidecars \subseteq DOMAIN stored
      /\ step'[u] = "failed"
  BY DEF FieldFails, Goto, IInv, TypeOK, Step
<1>2. CountingNext(u)
  BY <1>1 DEF IInv, Counting, CountingNext, Open
<1> QED  BY <1>1, <1>2, CountingIs, Moving DEF Open

LEMMA WriteSidecarStep ==
    ASSUME IInv, NEW u \in Upload, WriteSidecar(u)  PROVE IInv'
<1>1. /\ step[u] = "sidecar" /\ step' = [step EXCEPT ![u] = "reply"] /\ "reply" \in Step
      /\ UNCHANGED <<given, part, got, total, digests, incoming, abandoned, blobs, stored>>
      /\ sidecars' \subseteq sidecars \cup {u} /\ coreKept' = coreKept
      /\ sidecars \subseteq DOMAIN stored /\ step'[u] = "reply"
  BY DEF WriteSidecar, Goto, IInv, TypeOK, Step
<1>2. u \in DOMAIN stored
  BY <1>1 DEF IInv, Noting
<1>3. CountingNext(u)
  BY <1>1 DEF IInv, Counting, CountingNext, Open
<1> QED  BY <1>1, <1>2, <1>3, CountingIs, Moving DEF Open

LEMMA RemoveCoreStep ==
    ASSUME IInv, NEW u \in Upload, RemoveCore(u)  PROVE IInv'
<1>1. /\ step[u] = "reply" /\ step' = [step EXCEPT ![u] = "done"] /\ "done" \in Step
      /\ UNCHANGED <<given, part, got, total, digests, incoming, abandoned, blobs, stored>>
      /\ sidecars' = sidecars /\ coreKept' = coreKept \ {about[u]}
      /\ sidecars \subseteq DOMAIN stored /\ step'[u] = "done"
  BY DEF RemoveCore, Goto, IInv, TypeOK, Step
<1>2. u \in DOMAIN stored
  BY <1>1 DEF IInv, Noting
<1>3. CountingNext(u)
  BY <1>1 DEF IInv, Counting, CountingNext, Open
<1> QED  BY <1>1, <1>2, <1>3, CountingIs, Moving DEF Open

\* The upload ends and its open file, if there is one, stays.
LEMMA LeavingBehind ==
    ASSUME IInv, NEW u \in Upload, step[u] # "too_large",
           step' = [step EXCEPT ![u] = "failed"],
           abandoned' = abandoned \cup ({File(u)} \cap DOMAIN incoming),
           UNCHANGED <<given, part, got, total, digests, incoming, blobs, stored, sidecars, coreKept>>
    PROVE  IInv'
<1>1. /\ TypeOK /\ Functional /\ Counting(u) /\ Writing(u) /\ Noting(u)
      /\ step'[u] = "failed" /\ step' \in [Upload -> Step]
      /\ \A v \in Upload \ {u} : step'[v] = step[v]
  BY DEF IInv, TypeOK, Step
<1>2. /\ UNCHANGED given /\ part' = part /\ got' = got /\ total' = total /\ digests' = digests
      /\ incoming' = incoming /\ blobs' = blobs /\ stored' = stored /\ sidecars' = sidecars
      /\ coreKept' = coreKept
  OBVIOUS
<1>3. Apart(u)
  BY <1>1, <1>2 DEF Apart, File
<1>4. Counted(u)
  <2>1. part[u] \in 1..(Len(Parts(about[u])) + 1) /\ got[u] <= MaxCore + MaxText + Overhead
    BY <1>1 DEF TypeOK
  <2> QED  BY <1>1, <1>2, <2>1 DEF Counted, Functional
<1>5. Filed(u)
  <2>1. \A k \in 1..3 : <<u, k>> \in DOMAIN incoming \ abandoned => step[u] \in Open /\ k = part[u]
    BY OpenFile
  <2>2. \A k \in 1..3 : <<u, k>> \notin DOMAIN incoming' \ abandoned'
    BY <1>2, <2>1 DEF File
  <2> QED  BY <1>1, <1>2, <2>2 DEF Filed, TypeOK, Functional
<1>6. Kept(u)
  BY <1>1, <1>2 DEF Kept, TypeOK
<1>7. CountingNext(u)
  BY <1>1, <1>2 DEF Counting, CountingNext, Open
<1>8. Writing(u)' /\ Noting(u)'
  <2>1. Noted(about[u], part[u])' = Noted(about[u], part'[u])
    BY <1>2, GivenStays
  <2> QED  BY <1>1, <1>2, <2>1 DEF Writing, Noting, Open
<1> QED  BY <1>2, <1>3, <1>4, <1>5, <1>6, <1>7, <1>8, CountingIs, OneStep

LEMMA FinishFailsStep ==
    ASSUME IInv, NEW u \in Upload, FinishFails(u)  PROVE IInv'
<1>1. /\ step[u] \in {"finish", "rename"} /\ step' = [step EXCEPT ![u] = "failed"]
      /\ abandoned' = abandoned \cup {File(u)}
      /\ UNCHANGED <<given, part, got, total, digests, incoming, blobs, stored, sidecars, coreKept>>
  BY DEF FinishFails, Goto
<1>2. File(u) \in DOMAIN incoming
  BY <1>1, Facts DEF Open
<1>3. abandoned' = abandoned \cup ({File(u)} \cap DOMAIN incoming)
  BY <1>1, <1>2
<1> QED  BY <1>1, <1>3, LeavingBehind

LEMMA DroppedStep ==
    ASSUME IInv, NEW u \in Upload, Dropped(u)  PROVE IInv'
  BY LeavingBehind DEF Dropped

-----------------------------------------------------------------------------
(* post_report: the steps that end with Abort *)

LEMMA TooLargeStep ==
    ASSUME IInv, NEW u \in Upload, TooLarge(u)  PROVE IInv'
<1>1. /\ step[u] = "chunk" /\ step' = [step EXCEPT ![u] = "too_large"] /\ Abort(u)
      /\ UNCHANGED <<given, blobs, stored, sidecars, coreKept>>
      /\ part' = part /\ got' = got /\ total' = total /\ digests' = digests
  BY DEF TooLarge, Goto
<1>2. /\ TypeOK /\ Functional /\ Counting(u) /\ Noting(u) /\ blobs' \subseteq Digests
      /\ step' \in [Upload -> Step]
      /\ step'[u] = "too_large" /\ about[u] \in Crash
  BY <1>1 DEF IInv, TypeOK, Step
<1>3. Counted(u)
  <2>1. part[u] \in 1..(Len(Parts(about[u])) + 1) /\ got[u] <= MaxCore + MaxText + Overhead
    BY <1>2 DEF TypeOK
  <2> QED  BY <1>1, <1>2, <2>1 DEF Counted, Functional
<1>4. CountingNext(u)
  BY <1>1, <1>2 DEF Counting, CountingNext, Open
<1>5. Explained(u)
  <2>1. PICK n \in 1..(Current(u).size - got[u]) : total[u] + n > MaxBytes(about[u])
    BY DEF TooLarge
  <2>2. PICK k \in Nat : k = part[u] /\ k \in 1..Len(Parts(about[u]))
    BY <1>1, Facts DEF Open
  <2>3. PICK size \in Nat : size = Current(u).size
    BY <1>1, Facts DEF Open
  <2>4. PICK before \in Nat : before = Before(about[u], k)
    BY <1>2, <2>2, Adding
  <2>5. PICK whole \in Nat : whole = MetadataSize(about[u]) + TransferSize(about[u])
    <3>1. /\ MetadataSize(about[u]) \in Nat /\ payload[about[u]].core \in Nat
          /\ payload[about[u]].text \in Nat
      BY <1>2, PartsAre
    <3> QED  BY <3>1 DEF TransferSize
  <2>6. before + size <= whole
    BY <1>2, <2>2, <2>3, <2>4, <2>5, Adding DEF Current
  <2>7. got[u] \in Nat /\ total[u] = before + got[u]
    BY <1>1, <1>2, <2>2, <2>4, Facts DEF Counting, Open
  <2>8. PICK limit \in Nat : limit = MaxBytes(about[u])
    BY <1>2, Adding
  <2>9. whole > limit
    BY <2>1, <2>3, <2>6, <2>7, <2>8
  <2>10. /\ MetadataSize(about[u]) \in Nat /\ payload[about[u]].core \in Nat
         /\ payload[about[u]].text \in Nat /\ Slack \in Nat /\ MaxPayload \in Nat
    BY <1>2, PartsAre, SizeAssumption
  <2>11. CASE payload[about[u]].core + Slack > MaxPayload
    BY <2>11 DEF Explained
  <2>12. CASE ~ (payload[about[u]].core + Slack > MaxPayload)
    <3>1. limit = payload[about[u]].core + Slack
      BY <2>8, <2>10, <2>12 DEF MaxBytes, Smaller
    <3> QED  BY <2>5, <2>9, <2>10, <3>1 DEF Explained, TransferSize
  <2> QED  BY <2>11, <2>12
<1>6. digests'[u] = Noted(about[u], part'[u]) /\ Range(digests'[u]) \subseteq blobs'
  BY <1>1, <1>2 DEF Noting
<1> QED  BY <1>1, <1>2, <1>3, <1>4, <1>5, <1>6, CountingIs, Closing DEF Open

LEMMA TruncatedStep ==
    ASSUME IInv, NEW u \in Upload, Truncated(u)  PROVE IInv'
<1>1. /\ step[u] = "chunk" /\ step' = [step EXCEPT ![u] = "failed"] /\ Abort(u)
      /\ UNCHANGED <<given, blobs, stored, sidecars, coreKept>>
      /\ part' = part /\ got' = got /\ total' = total /\ digests' = digests
  BY DEF Truncated, Goto
<1>2. /\ TypeOK /\ Functional /\ Counting(u) /\ Noting(u) /\ blobs' \subseteq Digests
      /\ step' \in [Upload -> Step]
      /\ step'[u] = "failed"
  BY <1>1 DEF IInv, TypeOK, Step
<1>3. Counted(u)
  <2>1. part[u] \in 1..(Len(Parts(about[u])) + 1) /\ got[u] <= MaxCore + MaxText + Overhead
    BY <1>2 DEF TypeOK
  <2> QED  BY <1>1, <1>2, <2>1 DEF Counted, Functional
<1>4. CountingNext(u)
  BY <1>1, <1>2 DEF Counting, CountingNext, Open
<1>5. digests'[u] = Noted(about[u], part'[u]) /\ Range(digests'[u]) \subseteq blobs'
  BY <1>1, <1>2 DEF Noting
<1> QED  BY <1>1, <1>2, <1>3, <1>4, <1>5, CountingIs, Closing DEF Open

LEMMA EndMetadataStep ==
    ASSUME IInv, NEW u \in Upload, EndMetadata(u)  PROVE IInv'
<1>1. /\ step[u] = "chunk" /\ step' = [step EXCEPT ![u] = "field"] /\ Abort(u)
      /\ UNCHANGED <<given, blobs, stored, sidecars, coreKept>>
      /\ got' = got /\ total' = total /\ digests' = digests
      /\ part' = [part EXCEPT ![u] = @ + 1]
      /\ Current(u).name = "metadata" /\ got[u] = Current(u).size
  BY DEF EndMetadata, Goto, NextPart
<1>2. /\ TypeOK /\ Functional /\ Counting(u) /\ Noting(u) /\ blobs' \subseteq Digests
      /\ step' \in [Upload -> Step]
      /\ step'[u] = "field" /\ about[u] \in Crash
  BY <1>1 DEF IInv, TypeOK, Step
<1>3. part[u] = 1 /\ part'[u] = 2 /\ part' \in [Upload -> 1..4]
      /\ \A v \in Upload \ {u} : part'[v] = part[v]
  <2>1. part[u] = 1 /\ part \in [Upload -> 1..4]
    BY <1>1, <1>2, Facts DEF Open, Functional
  <2> QED  BY <1>1, <2>1
<1>4. Counted(u)
  <2>1. got[u] <= MaxCore + MaxText + Overhead
    BY <1>2 DEF TypeOK
  <2>2. PICK n \in 2..3 : n = Len(Parts(about[u]))
    BY Facts
  <2>3. 2 \in 1..(n + 1)
    OBVIOUS
  <2> QED  BY <1>1, <1>2, <1>3, <2>1, <2>2, <2>3 DEF Counted, Functional
<1>5. CountingNext(u)
  <2>1. 1 \in 1..Len(Parts(about[u]))
    <3>1. PICK n \in 2..3 : n = Len(Parts(about[u]))
      BY Facts
    <3>2. 1 \in 1..n
      OBVIOUS
    <3> QED  BY <3>1, <3>2
  <2>2. Before(about[u], 2) = Before(about[u], 1) + got[u]
    BY <1>1, <1>2, <1>3, <2>1, Adding DEF Current
  <2>3. total[u] = Before(about[u], 1) + got[u] /\ total[u] <= MaxBytes(about[u])
    BY <1>1, <1>2, <1>3 DEF Counting, Open
  <2> QED  BY <1>1, <1>2, <1>3, <2>2, <2>3 DEF CountingNext, Open
<1>6. digests'[u] = Noted(about[u], part'[u]) /\ Range(digests'[u]) \subseteq blobs'
  BY <1>1, <1>2, <1>3 DEF Noting, Noted
<1>7. part'[u] > part[u]
  BY <1>3
<1> QED  BY <1>1, <1>2, <1>3, <1>4, <1>5, <1>6, <1>7, CountingIs, Closing DEF Open

\* The last chunk of a part that is to be a blob is in its file.
LEMMA ReceivedIs ==
    ASSUME IInv, NEW u \in Upload, step[u] \in {"finish", "drop", "rename"}
    PROVE  /\ part[u] \in Nat /\ part[u] \in 1..Len(Parts(about[u])) /\ part[u] # 1
           /\ Received(u) = Digest(about[u], Parts(about[u])[part[u]].name, Parts(about[u])[part[u]].size)
           /\ Received(u) \in Digests
           /\ Append(digests[u], Received(u)) = Noted(about[u], part[u] + 1)
           /\ total[u] = Before(about[u], part[u] + 1)
<1>1. /\ TypeOK /\ Counting(u) /\ Writing(u) /\ Noting(u) /\ about[u] \in Crash
  BY DEF IInv, TypeOK
<1>2. /\ part[u] \in Nat /\ part[u] \in 1..Len(Parts(about[u])) /\ part[u] # 1
      /\ part[u] \in 1..3 /\ (Current(u).name = "metadata" <=> part[u] = 1)
      /\ got[u] = Current(u).size /\ Current(u).size \in Nat
  BY <1>1, Facts DEF Open, Counting
<1>3. incoming[File(u)] = Current(u).size
  BY <1>1, <1>2 DEF Writing, Open
<1>4. Received(u) = Digest(about[u], Parts(about[u])[part[u]].name, Parts(about[u])[part[u]].size)
  BY <1>3 DEF Received, Current
<1>5. Received(u) \in Digests
  <2>1. \/ Parts(about[u])[part[u]].name = "core-dump"
        \/ Parts(about[u])[part[u]].name = "text"
    <3>1. /\ Len(Parts(about[u])) = (IF payload[about[u]].text = 0 THEN 2 ELSE 3)
          /\ Parts(about[u])[2] = [name |-> "core-dump", size |-> payload[about[u]].core]
          /\ payload[about[u]].text # 0 =>
               Parts(about[u])[3] = [name |-> "text", size |-> payload[about[u]].text]
      BY <1>1, PartsAre
    <3> QED  BY <1>2, <3>1
  <2> QED  BY <1>1, <1>2, <1>4, <2>1 DEF Digest, Digests, Current
<1>6. Append(digests[u], Received(u)) = Noted(about[u], part[u] + 1)
  BY <1>1, <1>2, <1>4, NotedIs DEF Noting
<1>7. total[u] = Before(about[u], part[u] + 1)
  BY <1>1, <1>2, Adding DEF Counting, Open, Current
<1> QED  BY <1>2, <1>4, <1>5, <1>6, <1>7

\* The upload goes on to its next part.
LEMMA NextPartIs ==
    ASSUME IInv, NEW u \in Upload, step[u] \in {"finish", "drop", "rename"},
           step' = [step EXCEPT ![u] = "field"], NoteBlob(u), NextPart(u),
           UNCHANGED <<given, got, total>>
    PROVE  /\ Counted(u) /\ CountingNext(u)
           /\ digests'[u] = Noted(about[u], part'[u]) /\ step'[u] = "field"
           /\ part'[u] = part[u] + 1 /\ part[u] \in Nat
           /\ digests'[u] = Append(digests[u], Received(u))
           /\ \A v \in Upload \ {u} : /\ part'[v] = part[v] /\ got'[v] = got[v]
                                      /\ total'[v] = total[v] /\ digests'[v] = digests[v]
                                      /\ step'[v] = step[v]
<1>1. /\ TypeOK /\ Functional /\ Counting(u) /\ step' \in [Upload -> Step]
      /\ step'[u] = "field" /\ about[u] \in Crash /\ \A v \in Upload \ {u} : step'[v] = step[v]
  BY DEF IInv, TypeOK, Step
<1>2. /\ part[u] \in Nat /\ part[u] \in 1..Len(Parts(about[u])) /\ part[u] # 1
      /\ Received(u) \in Digests
      /\ Append(digests[u], Received(u)) = Noted(about[u], part[u] + 1)
      /\ total[u] = Before(about[u], part[u] + 1)
  BY ReceivedIs
<1>3. /\ digests' = [digests EXCEPT ![u] = Append(@, Received(u))]
      /\ part' = [part EXCEPT ![u] = @ + 1] /\ got' = got /\ total' = total
  BY DEF NoteBlob, NextPart
<1>4. part'[u] = part[u] + 1 /\ part' \in [Upload -> 1..4]
      /\ \A v \in Upload \ {u} : part'[v] = part[v]
  <2>1. part[u] \in 1..3 /\ part \in [Upload -> 1..4]
    BY <1>1, Facts DEF Open, Functional
  <2>2. part[u] + 1 \in 1..4
    BY <2>1
  <2> QED  BY <1>3, <2>1, <2>2
<1>5. /\ digests'[u] = Append(digests[u], Received(u)) /\ digests' \in [Upload -> Seq(Digests)]
      /\ \A v \in Upload \ {u} : digests'[v] = digests[v]
  <2>1. digests \in [Upload -> Seq(Digests)]
    BY <1>1 DEF Functional
  <2>2. Append(digests[u], Received(u)) \in Seq(Digests)
    BY <1>2, <2>1, AppendProperties
  <2> QED  BY <1>3, <2>1, <2>2
<1>6. Counted(u)
  <2>1. got[u] <= MaxCore + MaxText + Overhead
    BY <1>1 DEF TypeOK
  <2>2. part'[u] \in 1..(Len(Parts(about[u])) + 1)
    BY <1>2, <1>4, Facts
  <2> QED  BY <1>1, <1>3, <1>4, <1>5, <2>1, <2>2 DEF Counted, Functional
<1>7. CountingNext(u)
  BY <1>1, <1>2, <1>3, <1>4 DEF CountingNext, Counting, Open
<1> QED  BY <1>1, <1>2, <1>3, <1>4, <1>5, <1>6, <1>7

LEMMA AppendedRange ==
    ASSUME NEW S, NEW seq \in Seq(S), NEW e \in S
    PROVE  Range(Append(seq, e)) = Range(seq) \cup {e}
<1>1. /\ Append(seq, e) \in Seq(S) /\ Len(Append(seq, e)) = Len(seq) + 1
      /\ \A i \in 1..Len(seq) : Append(seq, e)[i] = seq[i]
      /\ Append(seq, e)[Len(seq) + 1] = e
  BY AppendProperties
<1>2. Len(seq) \in Nat /\ DOMAIN seq = 1..Len(seq) /\ DOMAIN Append(seq, e) = 1..(Len(seq) + 1)
  BY <1>1, LenProperties
<1>3. Range(seq) = {seq[i] : i \in 1..Len(seq)}
  BY <1>2 DEF Range
<1>4. Range(Append(seq, e)) = {Append(seq, e)[i] : i \in 1..(Len(seq) + 1)}
  BY <1>2 DEF Range
<1>5. \A i \in 1..(Len(seq) + 1) : i \in 1..Len(seq) \/ i = Len(seq) + 1
  BY <1>2
<1>6. 1..Len(seq) \subseteq 1..(Len(seq) + 1) /\ Len(seq) + 1 \in 1..(Len(seq) + 1)
  BY <1>2
<1> QED  BY <1>1, <1>3, <1>4, <1>5, <1>6

LEMMA FinishDropStep ==
    ASSUME IInv, NEW u \in Upload, FinishDrop(u)  PROVE IInv'
<1>1. /\ step[u] = "drop" /\ step' = [step EXCEPT ![u] = "field"] /\ Abort(u)
      /\ UNCHANGED <<given, blobs, stored, sidecars, coreKept>> /\ UNCHANGED <<given, got, total>>
      /\ NoteBlob(u) /\ NextPart(u)
  BY DEF FinishDrop, Goto
<1>2. /\ Counted(u) /\ CountingNext(u)
      /\ digests'[u] = Noted(about[u], part'[u]) /\ part'[u] = part[u] + 1 /\ part[u] \in Nat
      /\ digests'[u] = Append(digests[u], Received(u))
      /\ \A v \in Upload \ {u} : /\ part'[v] = part[v] /\ got'[v] = got[v]
                                 /\ total'[v] = total[v] /\ digests'[v] = digests[v]
  BY <1>1, NextPartIs
<1>3. /\ digests[u] \in Seq(Digests) /\ Received(u) \in Digests /\ Received(u) \in blobs
      /\ Range(digests[u]) \subseteq blobs /\ blobs' \subseteq Digests
  BY <1>1, ReceivedIs DEF IInv, Noting, TypeOK
<1>4. Range(digests'[u]) \subseteq blobs'
  <2>1. Range(Append(digests[u], Received(u))) = Range(digests[u]) \cup {Received(u)}
    BY <1>3, AppendedRange
  <2> QED  BY <1>1, <1>2, <1>3, <2>1
<1>5. part'[u] > part[u]
  BY <1>2
<1> QED  BY <1>1, <1>2, <1>3, <1>4, <1>5, CountingIs, Closing DEF Open

LEMMA FinishRenameStep ==
    ASSUME IInv, NEW u \in Upload, FinishRename(u)  PROVE IInv'
<1>1. /\ step[u] = "rename" /\ step' = [step EXCEPT ![u] = "field"] /\ Abort(u)
      /\ UNCHANGED <<given, stored, sidecars, coreKept>> /\ UNCHANGED <<given, got, total>>
      /\ blobs' = blobs \cup {Received(u)} /\ NoteBlob(u) /\ NextPart(u)
  BY DEF FinishRename, Goto, Abort
<1>2. /\ Counted(u) /\ CountingNext(u)
      /\ digests'[u] = Noted(about[u], part'[u]) /\ part'[u] = part[u] + 1 /\ part[u] \in Nat
      /\ digests'[u] = Append(digests[u], Received(u))
      /\ \A v \in Upload \ {u} : /\ part'[v] = part[v] /\ got'[v] = got[v]
                                 /\ total'[v] = total[v] /\ digests'[v] = digests[v]
  BY <1>1, NextPartIs
<1>3. /\ digests[u] \in Seq(Digests) /\ Received(u) \in Digests
      /\ Range(digests[u]) \subseteq blobs /\ blobs \subseteq Digests
  BY <1>1, ReceivedIs DEF IInv, Noting, TypeOK
<1>4. Range(digests'[u]) \subseteq blobs' /\ blobs \subseteq blobs' /\ blobs' \subseteq Digests
  <2>1. Range(Append(digests[u], Received(u))) = Range(digests[u]) \cup {Received(u)}
    BY <1>3, AppendedRange
  <2> QED  BY <1>1, <1>2, <1>3, <2>1
<1>5. part'[u] > part[u]
  BY <1>2
<1> QED  BY <1>1, <1>2, <1>4, <1>5, CountingIs, Closing DEF Open

-----------------------------------------------------------------------------
(* post_report: the steps that write *)

LEMMA BeginPartStep ==
    ASSUME IInv, NEW u \in Upload, BeginPart(u)  PROVE IInv'
<1>1. /\ step[u] = "field" /\ part[u] <= Len(Parts(about[u])) /\ got' = [got EXCEPT ![u] = 0]
      /\ UNCHANGED given /\ part' = part /\ total' = total /\ digests' = digests
      /\ abandoned' = abandoned /\ blobs' = blobs /\ stored' = stored /\ sidecars' = sidecars
      /\ coreKept' = coreKept
  BY DEF BeginPart, Goto
<1>2. /\ TypeOK /\ Functional /\ Counting(u) /\ Writing(u) /\ Noting(u) /\ about[u] \in Crash
  BY DEF IInv, TypeOK
<1>3. /\ part[u] \in 1..3 /\ part[u] \in 1..Len(Parts(about[u])) /\ part[u] \in Nat
      /\ File(u) = <<u, part[u]>> /\ File(u) \notin abandoned
  <2>1. PICK n \in 2..3 : n = Len(Parts(about[u]))
    BY Facts
  <2>2. PICK p \in Nat : p = part[u] /\ p \in 1..(n + 1)
    BY <2>1, Facts
  <2>3. p <= n /\ n <= 3
    <3>1. p <= n
      BY <1>1, <2>1, <2>2
    <3>2. n <= 3
      OBVIOUS
    <3> QED  BY <3>1, <3>2
  <2>4. p \in 1..3 /\ p \in 1..n
    BY <2>2, <2>3
  <2>5. <<u, p>> \notin abandoned
    <3>1. ~ (p < p)
      BY <2>2
    <3> QED  BY <1>1, <1>2, <2>2, <2>4, <3>1 DEF Writing
  <2> QED  BY <2>1, <2>2, <2>4, <2>5 DEF File
<1>4. PICK s \in {"chunk", "failed"} :
        /\ step' = [step EXCEPT ![u] = s]
        /\ s = "chunk" => incoming' = Put(incoming, File(u), 0)
        /\ s = "failed" => incoming' = incoming
  BY DEF BeginPart, Goto
<1>5. /\ step' \in [Upload -> Step] /\ step'[u] = s /\ \A v \in Upload \ {u} : step'[v] = step[v]
  BY <1>2, <1>4 DEF TypeOK, Step
<1>6. /\ got'[u] = 0 /\ got' \in [Upload -> Nat] /\ \A v \in Upload \ {u} : got'[v] = got[v]
  BY <1>1, <1>2 DEF Functional
<1>7. Counted(u)
  <2>1. part[u] \in 1..(Len(Parts(about[u])) + 1) /\ 0 <= MaxCore + MaxText + Overhead
    BY <1>2, SizeAssumption DEF TypeOK
  <2> QED  BY <1>1, <1>2, <1>5, <1>6, <2>1 DEF Counted, Functional
<1>8. CountingNext(u)
  <2>1. /\ Parts(about[u])[part[u]].size \in Nat /\ Before(about[u], part[u]) \in Nat
    BY <1>2, <1>3, Adding
  <2> QED  BY <1>1, <1>2, <1>4, <1>5, <1>6, <2>1 DEF Counting, CountingNext, Open
<1>9. /\ DOMAIN incoming' \subseteq DOMAIN incoming \cup {File(u)}
      /\ s = "chunk" => File(u) \in DOMAIN incoming' /\ incoming'[File(u)] = 0
      /\ s = "failed" => DOMAIN incoming' = DOMAIN incoming
      /\ DOMAIN incoming \subseteq DOMAIN incoming'
      /\ \A f \in DOMAIN incoming \ {File(u)} : incoming'[f] = incoming[f]
      /\ incoming' \in [DOMAIN incoming' -> Nat]
  <2>1. CASE s = "chunk"
    <3>1. incoming' = [f \in DOMAIN incoming \cup {File(u)} |->
                         IF f = File(u) THEN 0 ELSE incoming[f]]
      BY <1>4, <2>1 DEF Put
    <3>2. incoming \in [DOMAIN incoming -> Nat]
      BY <1>2 DEF Functional
    <3> QED  BY <2>1, <3>1, <3>2
  <2>2. CASE s = "failed"
    BY <1>2, <1>4, <2>2 DEF Functional
  <2> QED  BY <2>1, <2>2
<1>10. Apart(u)
  <2>1. \A v \in Upload \ {u}, k \in 1..3 : <<v, k>> # File(u)
    BY <1>3
  <2> QED  BY <1>1, <1>5, <1>6, <1>9, <2>1 DEF Apart
<1>11. Filed(u)
  <2>1. DOMAIN incoming' \subseteq Upload \X (1..3) /\ abandoned' \subseteq DOMAIN incoming'
    BY <1>1, <1>2, <1>3, <1>9 DEF TypeOK
  <2>2. ASSUME NEW k \in 1..3, <<u, k>> \in DOMAIN incoming' \ abandoned'
        PROVE  step'[u] \in Open /\ k = part'[u]
    <3>1. <<u, k>> \notin DOMAIN incoming
      BY <1>1, <2>2, OpenFile DEF Open
    <3>2. <<u, k>> = File(u) /\ s = "chunk"
      BY <1>9, <2>2, <3>1
    <3> QED  BY <1>1, <1>3, <1>5, <3>2 DEF Open
  <2> QED  BY <1>9, <2>1, <2>2 DEF Filed
<1>12. Kept(u)
  BY <1>1, <1>2, <1>5 DEF Kept, TypeOK
<1>13. Writing(u)' /\ Noting(u)'
  <2>1. /\ Noted(about[u], part[u])' = Noted(about[u], part'[u]) /\ File(u)' = <<u, part'[u]>>
    BY <1>1, GivenStays
  <2> QED  BY <1>1, <1>2, <1>3, <1>5, <1>6, <1>9, <2>1 DEF Writing, Noting, Open
<1> QED  BY <1>1, <1>7, <1>8, <1>10, <1>11, <1>12, <1>13, CountingIs, OneStep

\* A chunk that is written: to the file, or for the metadata to memory.
LEMMA ChunkKept ==
    ASSUME IInv, NEW u \in Upload, step[u] = "chunk", NEW n \in 1..(Current(u).size - got[u]),
           total[u] + n <= MaxBytes(about[u]),
           got' = [got EXCEPT ![u] = @ + n], total' = [total EXCEPT ![u] = @ + n],
           step' = [step EXCEPT ![u] = "chunk"],
           incoming' = IF Current(u).name = "metadata" THEN incoming
                       ELSE [incoming EXCEPT ![File(u)] = @ + n],
           UNCHANGED <<given, part, digests, abandoned, blobs, stored, sidecars, coreKept>>
    PROVE  IInv'
<1>1. /\ UNCHANGED given /\ part' = part /\ digests' = digests
      /\ abandoned' = abandoned /\ blobs' = blobs /\ stored' = stored /\ sidecars' = sidecars
      /\ coreKept' = coreKept
  OBVIOUS
<1>2. /\ TypeOK /\ Functional /\ Counting(u) /\ Writing(u) /\ Noting(u) /\ about[u] \in Crash
  BY DEF IInv, TypeOK
<1>3. /\ part[u] \in 1..3 /\ part[u] \in 1..Len(Parts(about[u])) /\ part[u] \in Nat
      /\ File(u) = <<u, part[u]>> /\ File(u) \notin abandoned /\ File(u) \in DOMAIN incoming
      /\ (Current(u).name = "metadata") <=> (part[u] = 1)
      /\ Current(u).size \in Nat /\ Current(u).size <= MaxCore + MaxText + Overhead
  BY Facts DEF Open
<1>4. n \in Nat /\ got[u] \in Nat /\ total[u] \in Nat /\ got[u] + n <= Current(u).size
  BY <1>3, Facts
<1>5. /\ step' \in [Upload -> Step] /\ step'[u] = "chunk" /\ \A v \in Upload \ {u} : step'[v] = step[v]
  BY <1>2 DEF TypeOK, Step
<1>6. /\ got'[u] = got[u] + n /\ got' \in [Upload -> Nat] /\ \A v \in Upload \ {u} : got'[v] = got[v]
      /\ total'[u] = total[u] + n /\ total' \in [Upload -> Nat]
      /\ \A v \in Upload \ {u} : total'[v] = total[v]
  BY <1>2, <1>4 DEF Functional
<1>7. Counted(u)
  <2>1. part[u] \in 1..(Len(Parts(about[u])) + 1)
    BY <1>2 DEF TypeOK
  <2>2. PICK bound \in Nat : bound = MaxCore + MaxText + Overhead
    BY SizeAssumption
  <2>3. PICK size \in Nat : size = Current(u).size /\ size <= bound
    BY <1>3, <2>2
  <2>4. got[u] + n <= bound
    BY <1>4, <2>3
  <2> QED  BY <1>1, <1>2, <1>5, <1>6, <2>1, <2>2, <2>4 DEF Counted, Functional
<1>8. CountingNext(u)
  <2>1. /\ Parts(about[u])[part[u]].size \in Nat /\ Before(about[u], part[u]) \in Nat
    BY <1>2, <1>3, Adding
  <2>2. total[u] + n = Before(about[u], part[u]) + (got[u] + n)
    BY <1>2, <1>4, <2>1 DEF Counting, Open
  <2> QED  BY <1>1, <1>2, <1>3, <1>4, <1>5, <1>6, <2>1, <2>2 DEF Counting, CountingNext, Open, Current
<1>9. /\ DOMAIN incoming' = DOMAIN incoming
      /\ \A f \in DOMAIN incoming \ {File(u)} : incoming'[f] = incoming[f]
      /\ incoming' \in [DOMAIN incoming' -> Nat]
      /\ incoming'[File(u)] = IF part[u] = 1 THEN incoming[File(u)] ELSE incoming[File(u)] + n
  <2>1. incoming \in [DOMAIN incoming -> Nat]
    BY <1>2 DEF Functional
  <2>2. CASE part[u] = 1
    BY <1>3, <2>1, <2>2
  <2>3. CASE part[u] # 1
    BY <1>3, <1>4, <2>1, <2>3
  <2> QED  BY <2>2, <2>3
<1>10. Apart(u)
  <2>1. \A v \in Upload \ {u}, k \in 1..3 : <<v, k>> # File(u)
    BY <1>3
  <2> QED  BY <1>1, <1>5, <1>6, <1>9, <2>1 DEF Apart
<1>11. Filed(u)
  <2>1. DOMAIN incoming' \subseteq Upload \X (1..3) /\ abandoned' \subseteq DOMAIN incoming'
    BY <1>1, <1>2, <1>9 DEF TypeOK
  <2>2. \A k \in 1..3 : <<u, k>> \in DOMAIN incoming \ abandoned => k = part[u]
    BY OpenFile
  <2> QED  BY <1>1, <1>5, <1>9, <2>1, <2>2 DEF Filed, Open
<1>12. Kept(u)
  BY <1>1, <1>2, <1>5 DEF Kept, TypeOK
<1>13. Writing(u)' /\ Noting(u)'
  <2>1. /\ Noted(about[u], part[u])' = Noted(about[u], part'[u]) /\ File(u)' = <<u, part'[u]>>
    BY <1>1, GivenStays
  <2>2. incoming'[File(u)] = IF part[u] = 1 THEN 0 ELSE got[u] + n
    BY <1>2, <1>9 DEF Writing, Open
  <2> QED  BY <1>1, <1>2, <1>3, <1>5, <1>6, <1>9, <2>1, <2>2 DEF Writing, Noting, Open
<1> QED  BY <1>1, <1>7, <1>8, <1>10, <1>11, <1>12, <1>13, CountingIs, OneStep

\* A chunk that cannot be written.
LEMMA ChunkFails ==
    ASSUME IInv, NEW u \in Upload, step[u] = "chunk", NEW n \in 1..(Current(u).size - got[u]),
           total[u] + n <= MaxBytes(about[u]),
           got' = [got EXCEPT ![u] = @ + n], total' = [total EXCEPT ![u] = @ + n],
           step' = [step EXCEPT ![u] = "failed"], Abort(u),
           UNCHANGED <<given, part, digests, blobs, stored, sidecars, coreKept>>
    PROVE  IInv'
<1>1. /\ UNCHANGED <<given, stored, sidecars, coreKept>>
      /\ part' = part /\ digests' = digests /\ blobs' = blobs
  OBVIOUS
<1>2. /\ TypeOK /\ Functional /\ Counting(u) /\ Noting(u) /\ blobs' \subseteq Digests
      /\ step' \in [Upload -> Step] /\ step'[u] = "failed"
  BY DEF IInv, TypeOK, Step
<1>3. /\ Current(u).size \in Nat /\ Current(u).size <= MaxCore + MaxText + Overhead
      /\ got[u] \in Nat /\ total[u] \in Nat
  BY Facts DEF Open
<1>4. /\ got'[u] = got[u] + n /\ got' \in [Upload -> Nat] /\ \A v \in Upload \ {u} : got'[v] = got[v]
      /\ total'[u] = total[u] + n /\ total' \in [Upload -> Nat]
      /\ \A v \in Upload \ {u} : total'[v] = total[v]
  BY <1>2, <1>3 DEF Functional
<1>5. Counted(u)
  <2>1. part[u] \in 1..(Len(Parts(about[u])) + 1)
    BY <1>2 DEF TypeOK
  <2>2. PICK bound \in Nat : bound = MaxCore + MaxText + Overhead
    BY SizeAssumption
  <2>3. PICK size \in Nat : size = Current(u).size /\ size <= bound
    BY <1>3, <2>2
  <2>4. got[u] + n <= bound
    BY <1>3, <2>3
  <2> QED  BY <1>1, <1>2, <1>4, <2>1, <2>2, <2>4 DEF Counted, Functional
<1>6. CountingNext(u)
  BY <1>1, <1>2, <1>4 DEF Counting, CountingNext, Open
<1>7. digests'[u] = Noted(about[u], part'[u]) /\ Range(digests'[u]) \subseteq blobs'
  BY <1>1, <1>2 DEF Noting
<1> QED  BY <1>1, <1>2, <1>4, <1>5, <1>6, <1>7, CountingIs, Closing DEF Open

LEMMA ChunkStep ==
    ASSUME IInv, NEW u \in Upload, Chunk(u)  PROVE IInv'
<1>1. PICK n \in 1..(Current(u).size - got[u]) :
        /\ total[u] + n <= MaxBytes(about[u])
        /\ got' = [got EXCEPT ![u] = @ + n] /\ total' = [total EXCEPT ![u] = @ + n]
        /\ \/ /\ Goto(u, "chunk", "chunk") /\ abandoned' = abandoned
              /\ incoming' = IF Current(u).name = "metadata" THEN incoming
                             ELSE [incoming EXCEPT ![File(u)] = @ + n]
           \/ Goto(u, "chunk", "failed") /\ Abort(u)
  BY DEF Chunk
<1>2. step[u] = "chunk" /\ UNCHANGED <<given, part, digests, blobs, stored, sidecars, coreKept>>
  BY DEF Chunk
<1>3. CASE /\ step' = [step EXCEPT ![u] = "chunk"] /\ abandoned' = abandoned
           /\ incoming' = IF Current(u).name = "metadata" THEN incoming
                          ELSE [incoming EXCEPT ![File(u)] = @ + n]
  <2>1. UNCHANGED <<given, part, digests, abandoned, blobs, stored, sidecars, coreKept>>
    BY <1>2, <1>3
  <2> QED  BY <1>1, <1>2, <1>3, <2>1, ChunkKept
<1>4. CASE step' = [step EXCEPT ![u] = "failed"] /\ Abort(u)
  BY <1>1, <1>2, <1>4, ChunkFails
<1> QED  BY <1>1, <1>3, <1>4 DEF Goto

LEMMA RecordStep ==
    ASSUME IInv, NEW u \in Upload, Record(u)  PROVE IInv'
<1>1. /\ part[u] > Len(Parts(about[u])) /\ step[u] = "field"
      /\ step' = [step EXCEPT ![u] = "sidecar"]
      /\ stored' = Put(stored, u, [bytes |-> total[u], blobs |-> digests[u]])
      /\ UNCHANGED given /\ part' = part /\ got' = got /\ total' = total /\ digests' = digests
      /\ incoming' = incoming /\ abandoned' = abandoned /\ blobs' = blobs /\ sidecars' = sidecars
      /\ coreKept' = coreKept
  BY DEF Record, Goto
<1>2. /\ TypeOK /\ Functional /\ Counting(u) /\ Writing(u) /\ Noting(u) /\ about[u] \in Crash
      /\ StoredIsComplete
  BY DEF IInv, TypeOK
<1>3. /\ step' \in [Upload -> Step] /\ step'[u] = "sidecar"
      /\ \A v \in Upload \ {u} : step'[v] = step[v]
  BY <1>1, <1>2 DEF TypeOK, Step
<1>4. part[u] = Len(Parts(about[u])) + 1
  <2>1. PICK n \in 2..3 : n = Len(Parts(about[u]))
    BY Facts
  <2>2. PICK p \in Nat : p = part[u] /\ p \in 1..(n + 1)
    BY <2>1, Facts
  <2>3. p > n
    BY <1>1, <2>1, <2>2
  <2> QED  BY <2>1, <2>2, <2>3
<1>5. /\ DOMAIN stored' = DOMAIN stored \cup {u}
      /\ stored'[u] = [bytes |-> total[u], blobs |-> digests[u]]
      /\ \A v \in DOMAIN stored \ {u} : stored'[v] = stored[v]
  BY <1>1 DEF Put
<1>6. /\ total[u] <= MaxBytes(about[u])
      /\ total[u] = MetadataSize(about[u]) + TransferSize(about[u])
      /\ digests[u] = Attachments(about[u]) /\ Range(digests[u]) \subseteq blobs
  BY <1>1, <1>2, <1>4, Adding, NotedIs DEF Counting, Noting
<1>7. RowIsComplete(u)'
  <2>1. /\ MaxBytes(about[u])' = MaxBytes(about[u])
        /\ MetadataSize(about[u])' = MetadataSize(about[u])
        /\ TransferSize(about[u])' = TransferSize(about[u])
        /\ Attachments(about[u])' = Attachments(about[u])
    BY <1>1, GivenStays
  <2> QED  BY <1>1, <1>5, <1>6, <2>1 DEF RowIsComplete
<1>8. Apart(u)
  BY <1>1, <1>3, <1>5 DEF Apart
<1>9. Counted(u)
  <2>1. part[u] \in 1..(Len(Parts(about[u])) + 1) /\ got[u] <= MaxCore + MaxText + Overhead
    BY <1>2 DEF TypeOK
  <2> QED  BY <1>1, <1>2, <1>3, <2>1 DEF Counted, Functional
<1>10. Filed(u)
  <2>1. \A k \in 1..3 : <<u, k>> \notin DOMAIN incoming \ abandoned
    BY <1>1, OpenFile DEF Open
  <2> QED  BY <1>1, <1>2, <2>1 DEF Filed, TypeOK, Functional
<1>11. Kept(u)
  BY <1>1, <1>2, <1>3, <1>5, <1>7 DEF Kept, TypeOK
<1>12. CountingNext(u)
  BY <1>1, <1>3, <1>6 DEF CountingNext, Open
<1>13. Writing(u)' /\ Noting(u)'
  <2>1. Noted(about[u], part[u])' = Noted(about[u], part'[u])
    BY <1>1, GivenStays
  <2> QED  BY <1>1, <1>2, <1>3, <1>5, <2>1 DEF Writing, Noting, Open
<1> QED  BY <1>1, <1>8, <1>9, <1>10, <1>11, <1>12, <1>13, CountingIs, OneStep

-----------------------------------------------------------------------------
(* The invariant *)

LEMMA Initially == Init => IInv
<1> SUFFICES ASSUME Init  PROVE IInv
  OBVIOUS
<1> USE DEF Init
<1>1. ASSUME NEW u \in Upload
      PROVE  Len(Parts(about[u])) \in 2..3 /\ MaxBytes(about[u]) \in Nat
  <2>1. /\ payload[about[u]].core \in Nat /\ payload[about[u]].text \in Nat
        /\ Slack \in Nat /\ MaxPayload \in Nat
    <3>1. payload[about[u]] \in Payload
      OBVIOUS
    <3> QED  BY <3>1, SizeAssumption DEF Payload
  <2>2. MaxBytes(about[u]) \in Nat
    BY <2>1 DEF MaxBytes, Smaller
  <2>3. Len(Parts(about[u])) = 2 \/ Len(Parts(about[u])) = 3
    <3>1. CASE payload[about[u]].text = 0
      BY <3>1 DEF Parts
    <3>2. CASE payload[about[u]].text # 0
      BY <3>2 DEF Parts
    <3> QED  BY <3>1, <3>2
  <2> QED  BY <2>2, <2>3
<1>2. DOMAIN incoming = {} /\ DOMAIN stored = {}
  OBVIOUS
<1>3. TypeOK
  <2>1. ASSUME NEW u \in Upload
        PROVE  /\ part[u] \in 1..(Len(Parts(about[u])) + 1)
               /\ got[u] \in 0..(MaxCore + MaxText + Overhead) /\ total[u] \in 0..MaxPayload
               /\ digests[u] \in Seq(Digests)
    <3>1. PICK n \in 2..3 : n = Len(Parts(about[u]))
      BY <1>1
    <3>2. 1 \in 1..(n + 1)
      OBVIOUS
    <3>3. 0 \in 0..(MaxCore + MaxText + Overhead) /\ 0 \in 0..MaxPayload
      BY SizeAssumption
    <3>4. << >> \in Seq(Digests)
      OBVIOUS
    <3> QED  BY <3>1, <3>2, <3>3, <3>4
  <2>2. step \in [Upload -> Step]
    BY DEF Step
  <2> QED  BY <1>2, <2>1, <2>2 DEF TypeOK
<1>4. Functional
  <2>1. << >> \in Seq(Digests)
    OBVIOUS
  <2> QED  BY <1>2, <2>1 DEF Functional
<1>5. ASSUME NEW u \in Upload  PROVE Counting(u) /\ Writing(u) /\ Noting(u)
  <2>1. Range(<< >>) = {}
    BY DEF Range
  <2> QED  BY <1>1, <1>2, <2>1 DEF Counting, Writing, Noting, Noted, Open
<1>6. StoredIsComplete /\ GoneIsStored /\ RejectionsExplained
  BY <1>2 DEF StoredIsComplete, GoneIsStored, RejectionsExplained
<1> QED  BY <1>3, <1>4, <1>5, <1>6 DEF IInv

LEMMA Stuttering == IInv /\ UNCHANGED vars => IInv'
<1> SUFFICES ASSUME IInv, UNCHANGED vars  PROVE IInv'
  OBVIOUS
<1>1. /\ UNCHANGED given /\ payload' = payload /\ about' = about
      /\ step' = step /\ part' = part /\ got' = got /\ total' = total /\ digests' = digests
      /\ incoming' = incoming /\ abandoned' = abandoned /\ blobs' = blobs /\ stored' = stored
      /\ sidecars' = sidecars /\ coreKept' = coreKept
  BY DEF vars, given, server
<1>2. \A u \in Upload :
        /\ Parts(about[u])' = Parts(about[u]) /\ MaxBytes(about[u])' = MaxBytes(about[u])
        /\ MetadataSize(about[u])' = MetadataSize(about[u])
        /\ TransferSize(about[u])' = TransferSize(about[u])
        /\ Attachments(about[u])' = Attachments(about[u])
        /\ Before(about[u], part[u])' = Before(about[u], part[u])
        /\ Noted(about[u], part[u])' = Noted(about[u], part[u])
        /\ Current(u)' = Current(u) /\ File(u)' = File(u)
  BY <1>1, GivenStays DEF Current, File
<1>3. TypeOK'
  BY <1>1, <1>2 DEF IInv, TypeOK, File
<1>4. Functional'
  BY <1>1 DEF IInv, Functional
<1>5. ASSUME NEW u \in Upload  PROVE (Counting(u) /\ Writing(u) /\ Noting(u))'
  BY <1>1, <1>2 DEF IInv, Counting, Writing, Noting, Received, Digest
<1>6. StoredIsComplete'
  <2>1. DOMAIN stored \subseteq Upload /\ StoredIsComplete
    BY DEF IInv, TypeOK
  <2> QED  BY <1>1, <1>2, <2>1 DEF StoredIsComplete
<1>7. GoneIsStored' /\ RejectionsExplained'
  BY <1>1, <1>2 DEF IInv, GoneIsStored, RejectionsExplained
<1> QED  BY <1>3, <1>4, <1>5, <1>6, <1>7 DEF IInv

\* Inductive invariant: IInv holds in every reachable state.  TypeOK and the
\* three properties below need the rest of it, which ties the counts, the open
\* file and the blobs noted of each upload to the parts it has finished.
THEOREM Inductive == Spec => []IInv
<1>1. IInv /\ [Next]_vars => IInv'
  <2> SUFFICES ASSUME IInv, [Next]_vars  PROVE IInv'
    OBVIOUS
  <2>1. CASE UNCHANGED vars
    BY <2>1, Stuttering
  <2>2. ASSUME NEW u \in Upload, ClientDeclines(u) \/ ClientSends(u) \/ Progress(u) \/ Dropped(u)
        PROVE  IInv'
    <3>1. CASE ClientDeclines(u)
      BY <3>1, ClientDeclinesStep
    <3>2. CASE ClientSends(u)
      BY <3>2, ClientSendsStep
    <3>3. CASE Progress(u)
      BY <3>3, BeginPartStep, ChunkStep, TooLargeStep, TruncatedStep, EndMetadataStep, EndPartStep,
         FinishCheckStep, FinishDropStep, FinishRenameStep, FinishFailsStep, RecordStep,
         FieldFailsStep, WriteSidecarStep, RemoveCoreStep DEF Progress
    <3>4. CASE Dropped(u)
      BY <3>4, DroppedStep
    <3> QED  BY <2>2, <3>1, <3>2, <3>3, <3>4
  <2> QED  BY <2>1, <2>2 DEF Next
<1> QED  BY Initially, <1>1, PTL DEF Spec

\* Type correctness: and a file is in incoming/ only while its upload is
\* received, unless the upload was dropped or the disk failed.
THEOREM TypeCorrect == Spec => []TypeOK
<1>1. IInv => TypeOK
  BY DEF IInv
<1> QED  BY Inductive, <1>1, PTL

\* A report in the database names every attachment of the client's report,
\* each complete and in the blob store, and is within the limit of its
\* directive (post_report, BlobWriter::finish).
THEOREM StoredAreComplete == Spec => []StoredIsComplete
<1>1. IInv => StoredIsComplete
  BY DEF IInv
<1> QED  BY Inductive, <1>1, PTL

\* A core that is gone from the client's disk is in the store, complete, and a
\* row says so (send, post_report).
THEOREM CoresAreSomewhere == Spec => []CoreIsSomewhere
<1>1. IInv => CoreIsSomewhere
  <2> SUFFICES ASSUME IInv, NEW c \in Crash \ coreKept
               PROVE  \E u \in DOMAIN stored :
                        Digest(c, "core-dump", payload[c].core) \in Range(stored[u].blobs) \cap blobs
    BY DEF CoreIsSomewhere
  <2>1. PICK u \in DOMAIN stored : about[u] = c
    BY DEF IInv, GoneIsStored
  <2>2. stored[u].blobs = Attachments(c) /\ Range(stored[u].blobs) \subseteq blobs
    BY <2>1 DEF IInv, StoredIsComplete
  <2>3. CoreDigest(c) \in Range(Attachments(c))
    <3>1. TypeOK
      BY DEF IInv
    <3> QED  BY <3>1, NotedIs
  <2> QED  BY <2>1, <2>2, <2>3 DEF CoreDigest
<1> QED  BY Inductive, <1>1, PTL

\* An upload that the client thought small enough is found too large only if
\* the server's own maximum cut the slack off, or if metadata and texts are
\* more than the slack (post_report's total_bytes).
THEOREM RejectionsAreExplained == Spec => []RejectionsExplained
<1>1. IInv => RejectionsExplained
  BY DEF IInv
<1> QED  BY Inductive, <1>1, PTL

=============================================================================
