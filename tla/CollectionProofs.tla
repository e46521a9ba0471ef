-------------------------- MODULE CollectionProofs --------------------------
(***************************************************************************)
(* Proofs about Collection, for any packages, any crashes and any bounds.  *)
(***************************************************************************)
EXTENDS Collection, FiniteSetTheorems, SequenceTheorems, WellFoundedInduction, TLAPS

-----------------------------------------------------------------------------
(* The inductive invariant *)

\* What dpkg has unpacked is newer than what it has recorded, and the checksums
\* of a package are those of its file, unless the file is edited or new.
Unpacked ==
    /\ dpkg # Idle => status[dpkg.package] < MaxVersion[dpkg.package]
    /\ dpkg.step = "unpacked" => content[dpkg.package] \in {status[dpkg.package] + 1, Edited}

Summed ==
    \A p \in Package :
        \/ dpkg.step = "unpacked" /\ dpkg.package = p
        \/ content[p] = Edited
        \/ md5sums[p] \in {NotThere, content[p]}

DiskInv == IndexTypeOK /\ Unpacked /\ Summed /\ (quiet => dpkg = Idle)

\* Where the daemon is, and what it has in hand there.
PcTyped ==
    /\ pc \in {"down", "lists", "mtime", "status", "watch", "assemble", "asked", "drop", "verify", "hash"}
    /\ crash \in Records \cup {NoCrash} /\ core \in {"none", "there", "gone", "deleted"}
    /\ (crash = NoCrash) = (pc \in {"down", "lists", "mtime", "status", "watch"})
    /\ crash # NoCrash => event.core_available \in BOOLEAN /\ event.late \in BOOLEAN
    /\ late \in BOOLEAN /\ todo \subseteq Package /\ looked \subseteq Package
    /\ (pc = "hash") = (checking.file \in Package)

\* Every event is of a crash that was handled.
FiledCounted ==
    handled \in 0..MaxCrashes /\ IsFiniteSet(filed) /\ Cardinality(filed) <= handled

\* Stage 1 has seen a core, unless it had no time to look.
CoreOffered ==
    /\ pc \in {"assemble", "asked", "drop"} /\ core = "there" => event.core_available \/ event.late
    /\ pc = "assemble" /\ crash.saved => core \in {"there", "gone"}

\* What stage 2 has collected accounts for all the record has.
Stage2Made ==
    pc \in {"asked", "drop", "verify", "hash"} =>
        /\ report = [attachments |-> report.attachments, skipped |-> report.skipped,
                     arguments |-> scrub_cmdline_block(crash.args), environment |-> Kept(crash.environ),
                     withheld |-> Withheld(crash.environ), modified |-> report.modified]
        /\ report.attachments \subseteq Collectors \ {"package-verification"}
        /\ report.skipped \subseteq Collectors
        /\ report.attachments \cap report.skipped = {}
        /\ crash.saved => "core-dump" \in report.attachments \cup report.skipped
        /\ \A n \in {"proc-maps", "proc-status"} :
             SizeOf(crash, n) > 0 => n \in report.attachments \cup report.skipped
        /\ \A m \in report.modified : m.sums # NotThere /\ (m.edited \/ ~m.quiet)

\* Every file to be verified has been, is, or will be.
AllLookedAt ==
    pc \in {"verify", "hash"} =>
        \/ "package-verification" \in report.skipped
        \/ \A f \in candidates(crash) : Owned(f) => f \in todo \cup looked \cup {checking.file}

\* The checksum in hand is the one on the disk, if dpkg has been quiet.
SumsInHand == pc = "hash" /\ quiet => checking.sums = md5sums[checking.file]

\* All that is about the crash in hand.
HandInv == PcTyped /\ FiledCounted /\ CoreOffered /\ Stage2Made /\ AllLookedAt /\ SumsInHand

IInv == DiskInv /\ HandInv

-----------------------------------------------------------------------------
(* The rules of redaction *)

\* A set of numbers that is not empty has a least one.
LEMMA Smallest ==
    ASSUME NEW T \in SUBSET Nat, T # {}
    PROVE  \E x \in T : \A y \in T : x <= y
<1> DEFINE Less == {p \in Nat \X Nat : p[1] < p[2]}
<1>1. IsWellFoundedOn(Less, Nat)
  BY NatLessThanWellFounded DEF OpToRel
<1>2. \A x, y \in Nat : <<y, x>> \notin Less => x <= y
  OBVIOUS
<1> HIDE DEF Less
<1>3. PICK x \in T : \A y \in T : ~(<<y, x>> \in Less)
  BY <1>1, WFMin
<1>4. \A y \in T : x <= y
  BY <1>2, <1>3
<1> QED  BY <1>4

\* h says of every argument up to the n-th whether it is hidden.
HidesUpTo(argv, n, h) ==
    /\ h \in [0..n -> BOOLEAN]
    /\ \A i \in 0..n : h[i] = (i > 1 /\ ~h[i - 1] /\ Asks(argv[i - 1]))

\* There is such an h for every n: the rule for an argument looks at the one before.
LEMMA HidingExists ==
    ASSUME NEW argv, NEW n \in Nat
    PROVE  \E h : HidesUpTo(argv, n, h)
<1> DEFINE Failing == {k \in Nat : ~ \E h : HidesUpTo(argv, k, h)}
<1>1. SUFFICES ASSUME Failing # {} PROVE FALSE
  OBVIOUS
<1>2. PICK k \in Failing : \A y \in Failing : k <= y
  <2>1. Failing \in SUBSET Nat
    OBVIOUS
  <2> HIDE DEF Failing
  <2> QED  BY <1>1, <2>1, Smallest
<1>3. k \in Nat /\ ~ \E h : HidesUpTo(argv, k, h)
  BY <1>2
<1>4. CASE k = 0
  <2> DEFINE h == [i \in 0..0 |-> FALSE]
  <2>1. h \in [0..k -> BOOLEAN]
    BY <1>4
  <2>2. ASSUME NEW i \in 0..k
        PROVE  h[i] = (i > 1 /\ ~h[i - 1] /\ Asks(argv[i - 1]))
    <3>1. i = 0 /\ i \in 0..0
      BY <1>4
    <3>2. ~ (i > 1)
      BY <3>1
    <3>3. h[i] = FALSE
      BY <3>1
    <3> QED  BY <3>2, <3>3, Zenon
  <2>3. HidesUpTo(argv, k, h)
    BY <2>1, <2>2 DEF HidesUpTo
  <2> QED  BY <1>3, <2>3
<1>5. CASE k # 0
  <2>1. k - 1 \in Nat /\ ~ (k <= k - 1)
    BY <1>3, <1>5
  <2>2. k - 1 \notin Failing
    BY <1>2, <2>1
  <2>3. PICK g : HidesUpTo(argv, k - 1, g)
    BY <2>1, <2>2
  <2> DEFINE last == k > 1 /\ ~g[k - 1] /\ Asks(argv[k - 1])
             h == [i \in 0..k |-> IF i = k THEN last ELSE g[i]]
  <2>4. \A i \in 0..k : i # k => i \in 0..(k - 1)
    BY <1>3
  <2>5. h \in [0..k -> BOOLEAN]
    <3>1. \A i \in 0..(k - 1) : g[i] \in BOOLEAN
      BY <2>3 DEF HidesUpTo
    <3>2. last \in BOOLEAN
      OBVIOUS
    <3> QED  BY <2>4, <3>1, <3>2
  <2>6. ASSUME NEW i \in 0..k
        PROVE  h[i] = (i > 1 /\ ~h[i - 1] /\ Asks(argv[i - 1]))
    <3>1. i > 1 => i - 1 \in 0..k /\ i - 1 # k
      BY <1>3
    <3>2. i > 1 => h[i - 1] = g[i - 1]
      BY <3>1
    <3>3. CASE i = k
      BY <3>2, <3>3
    <3>4. CASE i # k
      <4>1. i \in 0..(k - 1) /\ h[i] = g[i]
        BY <2>4, <3>4
      <4>2. g[i] = (i > 1 /\ ~g[i - 1] /\ Asks(argv[i - 1]))
        BY <2>3, <4>1 DEF HidesUpTo
      <4> QED  BY <3>2, <4>1, <4>2
    <3> QED  BY <3>3, <3>4
  <2> HIDE DEF h
  <2>7. HidesUpTo(argv, k, h)
    BY <2>5, <2>6 DEF HidesUpTo
  <2> QED  BY <1>3, <2>7
<1> QED  BY <1>4, <1>5

\* redacted obeys its rule.
LEMMA RedactedRule ==
    ASSUME NEW argv, NEW n \in Nat, n = Len(argv)
    PROVE  HidesUpTo(argv, n, redacted(argv))
<1> DEFINE Rule(h) == h = [i \in 0..n |-> i > 1 /\ ~h[i - 1] /\ Asks(argv[i - 1])]
<1>1. redacted(argv) = CHOOSE h : Rule(h)
  BY DEF redacted
<1>2. PICK g : HidesUpTo(argv, n, g)
  BY HidingExists
<1>3. Rule(g)
  BY <1>2 DEF HidesUpTo
<1>4. Rule(CHOOSE h : Rule(h))
  <2> HIDE DEF Rule
  <2> QED  BY <1>3
<1>5. Rule(redacted(argv))
  BY <1>1, <1>4
<1> QED  BY <1>5 DEF HidesUpTo

\* Before place i all words from p on ask, and the one at p does not.
IsStart(words, p, i) ==
    /\ p \in 0..(i - 1)
    /\ p = 0 \/ ~Asks(words[p])
    /\ \A j \in (p + 1)..(i - 1) : Asks(words[j])

LEMMA StartIsOne ==
    ASSUME NEW words, NEW i \in Nat, NEW p, NEW q, IsStart(words, p, i), IsStart(words, q, i)
    PROVE  p = q
<1>1. p \in Nat /\ q \in Nat /\ p <= i - 1 /\ q <= i - 1
  BY DEF IsStart
<1>2. ~ (p < q)
  <2>1. p < q => q \in (p + 1)..(i - 1) /\ q # 0
    BY <1>1
  <2> QED  BY <2>1 DEF IsStart
<1>3. ~ (q < p)
  <2>1. q < p => p \in (q + 1)..(i - 1) /\ p # 0
    BY <1>1
  <2> QED  BY <2>1 DEF IsStart
<1> QED  BY <1>1, <1>2, <1>3

\* The words before i that ask start one place earlier if the last one does not.
LEMMA StartMoves ==
    ASSUME NEW words, NEW i \in Nat, i > 1
    PROVE  /\ \A p : IsStart(words, p, i - 1) /\ Asks(words[i - 1]) => IsStart(words, p, i)
           /\ ~Asks(words[i - 1]) => IsStart(words, i - 1, i)
<1>1. ASSUME NEW p, IsStart(words, p, i - 1), Asks(words[i - 1])
      PROVE  IsStart(words, p, i)
  <2>1. p \in Nat /\ p <= i - 2 /\ p \in 0..(i - 1)
    BY <1>1 DEF IsStart
  <2>2. \A j \in (p + 1)..(i - 1) : j \in (p + 1)..((i - 1) - 1) \/ j = i - 1
    BY <2>1
  <2> QED  BY <1>1, <2>1, <2>2 DEF IsStart
<1>2. ASSUME ~Asks(words[i - 1])
      PROVE  IsStart(words, i - 1, i)
  <2>1. i - 1 \in 0..(i - 1) /\ \A j \in ((i - 1) + 1)..(i - 1) : FALSE
    OBVIOUS
  <2> QED  BY <1>2, <2>1 DEF IsStart
<1> QED  BY <1>1, <1>2

LEMMA StartExists ==
    ASSUME NEW words, NEW i \in Nat \ {0}
    PROVE  \E p : IsStart(words, p, i)
<1> DEFINE Failing == {k \in Nat \ {0} : ~ \E p : IsStart(words, p, k)}
<1>1. SUFFICES ASSUME Failing # {} PROVE FALSE
  OBVIOUS
<1>2. PICK k \in Failing : \A y \in Failing : k <= y
  <2>1. Failing \in SUBSET Nat
    OBVIOUS
  <2> HIDE DEF Failing
  <2> QED  BY <1>1, <2>1, Smallest
<1>3. k \in Nat \ {0} /\ ~ \E p : IsStart(words, p, k)
  BY <1>2
<1>4. CASE k = 1
  <2>1. 0 \in 0..(k - 1) /\ \A j \in (0 + 1)..(k - 1) : FALSE
    BY <1>4
  <2>2. IsStart(words, 0, k)
    BY <2>1 DEF IsStart
  <2> QED  BY <1>3, <2>2
<1>5. CASE k # 1
  <2>1. k \in Nat /\ k > 1 /\ k - 1 \in Nat \ {0} /\ ~ (k <= k - 1)
    BY <1>3, <1>5
  <2>2. k - 1 \notin Failing
    BY <1>2, <2>1
  <2>3. PICK p : IsStart(words, p, k - 1)
    BY <2>1, <2>2
  <2>4. /\ \A q : IsStart(words, q, k - 1) /\ Asks(words[k - 1]) => IsStart(words, q, k)
        /\ ~Asks(words[k - 1]) => IsStart(words, k - 1, k)
    BY <2>1, StartMoves
  <2>5. IsStart(words, p, k) \/ IsStart(words, k - 1, k)
    BY <2>3, <2>4
  <2> QED  BY <1>3, <2>5
<1> QED  BY <1>4, <1>5

LEMMA HiddenFrom ==
    ASSUME NEW words, NEW i \in Nat, NEW p, IsStart(words, p, i)
    PROVE  HiddenByFlags(words, i) <=> (i - 1 - p) % 2 = 1
<1>1. HiddenByFlags(words, i) <=> \E q : IsStart(words, q, i) /\ (i - 1 - q) % 2 = 1
  BY DEF HiddenByFlags, IsStart
<1>2. \A q : IsStart(words, q, i) => q = p
  BY StartIsOne
<1> QED  BY <1>1, <1>2

\* The closed form obeys the rule of the scrubber.
LEMMA HiddenStep ==
    ASSUME NEW words, NEW i \in Nat \ {0}
    PROVE  HiddenByFlags(words, i) <=> i > 1 /\ ~HiddenByFlags(words, i - 1) /\ Asks(words[i - 1])
<1>1. CASE i = 1
  <2>1. 0 \in 0..(i - 1) /\ \A j \in (0 + 1)..(i - 1) : FALSE
    BY <1>1
  <2>2. IsStart(words, 0, i)
    BY <2>1 DEF IsStart
  <2>3. (i - 1 - 0) % 2 = 0
    BY <1>1
  <2>4. HiddenByFlags(words, i) <=> (i - 1 - 0) % 2 = 1
    BY <2>2, HiddenFrom
  <2> QED  BY <1>1, <2>3, <2>4
<1>2. CASE i # 1 /\ ~Asks(words[i - 1])
  <2>1. i \in Nat /\ i > 1 /\ i - 1 \in Nat
    BY <1>2
  <2>2. IsStart(words, i - 1, i)
    BY <1>2, <2>1, StartMoves
  <2>3. (i - 1 - (i - 1)) % 2 = 0
    BY <2>1
  <2>4. HiddenByFlags(words, i) <=> (i - 1 - (i - 1)) % 2 = 1
    BY <2>1, <2>2, HiddenFrom
  <2> QED  BY <1>2, <2>3, <2>4
<1>3. CASE i # 1 /\ Asks(words[i - 1])
  <2>1. i \in Nat /\ i > 1 /\ i - 1 \in Nat \ {0} /\ i - 1 \in Nat
    BY <1>3
  <2>2. PICK p : IsStart(words, p, i - 1)
    BY <2>1, StartExists
  <2>3. IsStart(words, p, i)
    BY <1>3, <2>1, <2>2, StartMoves
  <2>4. p \in Nat /\ p <= i - 2
    BY <2>1, <2>2 DEF IsStart
  <2>5. (i - 1 - p) % 2 = 1 <=> ~ ((i - 1) - 1 - p) % 2 = 1
    <3>1. PICK m \in Nat : m = i - 2 - p
      BY <2>1, <2>4
    <3>2. i - 1 - p = m + 1 /\ (i - 1) - 1 - p = m
      BY <2>1, <2>4, <3>1
    <3>3. (m + 1) % 2 = 1 <=> ~ m % 2 = 1
      OBVIOUS
    <3> QED  BY <3>2, <3>3
  <2>6. HiddenByFlags(words, i) <=> (i - 1 - p) % 2 = 1
    BY <2>1, <2>3, HiddenFrom
  <2>7. HiddenByFlags(words, i - 1) <=> ((i - 1) - 1 - p) % 2 = 1
    BY <2>1, <2>2, HiddenFrom
  <2> QED  BY <1>3, <2>1, <2>5, <2>6, <2>7
<1> QED  BY <1>1, <1>2, <1>3

\* So the scrubber hides exactly what the closed form says.
LEMMA HiddenIs ==
    ASSUME NEW words, NEW n \in Nat, NEW h, HidesUpTo(words, n, h), NEW i \in 1..n
    PROVE  h[i] = HiddenByFlags(words, i)
<1> DEFINE Failing == {k \in 1..n : ~ (h[k] <=> HiddenByFlags(words, k))}
<1>1. Failing = {}
  <2>1. SUFFICES ASSUME Failing # {} PROVE FALSE
    OBVIOUS
  <2>2. PICK k \in Failing : \A y \in Failing : k <= y
    <3>1. Failing \in SUBSET Nat
      OBVIOUS
    <3> HIDE DEF Failing
    <3> QED  BY <2>1, <3>1, Smallest
  <2>3. k \in 1..n /\ k \in 0..n /\ k \in Nat \ {0} /\ ~ (h[k] <=> HiddenByFlags(words, k))
    BY <2>2
  <2>4. h[k] <=> k > 1 /\ ~h[k - 1] /\ Asks(words[k - 1])
    BY <2>3 DEF HidesUpTo
  <2>5. HiddenByFlags(words, k) <=> k > 1 /\ ~HiddenByFlags(words, k - 1) /\ Asks(words[k - 1])
    BY <2>3, HiddenStep
  <2>6. k > 1 => k - 1 \in 1..n /\ ~ (k <= k - 1)
    BY <2>3
  <2>7. k > 1 => (h[k - 1] <=> HiddenByFlags(words, k - 1))
    BY <2>2, <2>6
  <2> QED  BY <2>3, <2>4, <2>5, <2>7
<1>2. h[i] <=> HiddenByFlags(words, i)
  BY <1>1
<1>3. i \in 0..n
  OBVIOUS
<1>4. h[i] \in BOOLEAN
  BY <1>3 DEF HidesUpTo
<1>5. HiddenByFlags(words, i) \in BOOLEAN
  BY Zenon DEF HiddenByFlags
<1> QED  BY <1>2, <1>4, <1>5

\* What is left of a command line.
LEMMA Scrubbed ==
    ASSUME NEW words \in Seq(Word)
    PROVE  /\ scrub_command_line(words) \in [DOMAIN words -> {"shown", "name", "hidden"}]
           /\ \A i \in DOMAIN words :
                scrub_command_line(words)[i] =
                  IF HiddenByFlags(words, i) THEN "hidden"
                  ELSE IF SecretAssignment(words[i]) THEN "name" ELSE "shown"
<1>1. PICK n \in Nat : n = Len(words) /\ DOMAIN words = 1..n
  BY LenProperties
<1>2. HidesUpTo(words, n, redacted(words))
  BY <1>1, RedactedRule
<1>3. \A i \in 1..n : redacted(words)[i] = HiddenByFlags(words, i)
  BY <1>2, HiddenIs
<1> QED  BY <1>1, <1>3 DEF scrub_command_line

-----------------------------------------------------------------------------
(* The split of the command line *)

\* h is the words of the first arguments, up to the n-th.
JoinsUpTo(block, n, h) == h = [i \in 0..n |-> IF i = 0 THEN <<>> ELSE h[i - 1] \o block[i]]

LEMMA JoiningExists ==
    ASSUME NEW block, NEW n \in Nat
    PROVE  \E h : JoinsUpTo(block, n, h)
<1> DEFINE Failing == {k \in Nat : ~ \E h : JoinsUpTo(block, k, h)}
<1>1. SUFFICES ASSUME Failing # {} PROVE FALSE
  OBVIOUS
<1>2. PICK k \in Failing : \A y \in Failing : k <= y
  <2>1. Failing \in SUBSET Nat
    OBVIOUS
  <2> HIDE DEF Failing
  <2> QED  BY <1>1, <2>1, Smallest
<1>3. k \in Nat /\ ~ \E h : JoinsUpTo(block, k, h)
  BY <1>2
<1>4. CASE k = 0
  <2> DEFINE h == [i \in 0..0 |-> <<>>]
  <2>1. JoinsUpTo(block, k, h)
    BY <1>4 DEF JoinsUpTo
  <2> QED  BY <1>3, <2>1
<1>5. CASE k # 0
  <2>1. k - 1 \in Nat /\ ~ (k <= k - 1)
    BY <1>3, <1>5
  <2>2. k - 1 \notin Failing
    BY <1>2, <2>1
  <2>3. PICK g : JoinsUpTo(block, k - 1, g)
    BY <2>1, <2>2
  <2> DEFINE h == [i \in 0..k |-> IF i = k THEN g[k - 1] \o block[k] ELSE g[i]]
  <2>4. \A i \in 0..k : i # k => i \in 0..(k - 1)
    BY <1>3
  <2>5. \A i \in 0..k : h[i] = IF i = 0 THEN <<>> ELSE h[i - 1] \o block[i]
    <3>1. ASSUME NEW i \in 0..k
          PROVE  h[i] = IF i = 0 THEN <<>> ELSE h[i - 1] \o block[i]
      <4>1. i # 0 => i - 1 \in 0..k /\ i - 1 # k
        BY <1>3
      <4>2. i # 0 => h[i - 1] = g[i - 1]
        BY <4>1
      <4>3. CASE i = k
        BY <1>5, <4>2, <4>3
      <4>4. CASE i # k
        <5>1. i \in 0..(k - 1) /\ h[i] = g[i]
          BY <2>4, <4>4
        <5>2. g[i] = IF i = 0 THEN <<>> ELSE g[i - 1] \o block[i]
          BY <2>3, <5>1 DEF JoinsUpTo
        <5> QED  BY <4>2, <5>1, <5>2
      <4> QED  BY <4>3, <4>4
    <3> QED  BY <3>1
  <2>6. h = [i \in 0..k |-> h[i]]
    OBVIOUS
  <2> HIDE DEF h
  <2>7. JoinsUpTo(block, k, h)
    BY <2>5, <2>6 DEF JoinsUpTo
  <2> QED  BY <1>3, <2>7
<1> QED  BY <1>4, <1>5

\* What comes of the split are words.
LEMMA WordsAre ==
    ASSUME NEW block \in Seq(Argument)
    PROVE  Words(block) \in Seq(Word)
<1>1. PICK n \in Nat : n = Len(block) /\ DOMAIN block = 1..n
  BY LenProperties
<1> DEFINE h == CHOOSE g : JoinsUpTo(block, n, g)
<1>2. JoinsUpTo(block, n, h)
  BY JoiningExists
<1>3. Words(block) = h[n]
  BY <1>1 DEF Words, JoinsUpTo
<1> HIDE DEF h
<1>4. \A i \in 0..n : h[i] = IF i = 0 THEN <<>> ELSE h[i - 1] \o block[i]
  BY <1>2 DEF JoinsUpTo
<1> DEFINE Failing == {i \in 0..n : h[i] \notin Seq(Word)}
<1>5. Failing = {}
  <2>1. SUFFICES ASSUME Failing # {} PROVE FALSE
    OBVIOUS
  <2>2. PICK k \in Failing : \A y \in Failing : k <= y
    <3>1. Failing \in SUBSET Nat
      OBVIOUS
    <3> HIDE DEF Failing
    <3> QED  BY <2>1, <3>1, Smallest
  <2>3. k \in 0..n /\ h[k] \notin Seq(Word)
    BY <2>2
  <2>4. k # 0
    BY <1>4, <2>3, EmptySeq
  <2>5. k \in 1..n /\ k - 1 \in 0..n /\ ~ (k <= k - 1)
    BY <2>3, <2>4
  <2>6. h[k - 1] \in Seq(Word)
    BY <2>2, <2>5
  <2>7. block[k] \in Seq(Word)
    BY <1>1, <2>5, ElementOfSeq DEF Argument
  <2>8. h[k - 1] \o block[k] \in Seq(Word)
    BY <2>6, <2>7, ConcatProperties
  <2> QED  BY <1>4, <2>3, <2>4, <2>8
<1> QED  BY <1>3, <1>5

\* Of a finite environment what is kept and what is withheld are its variables.
LEMMA Filtered ==
    ASSUME NEW block, IsFiniteSet(block)
    PROVE  /\ Withheld(block) \in Nat
           /\ Kept(block) \subseteq block
           /\ \A e \in Kept(block) : e.allowed /\ ~e.secret_name
           /\ Cardinality(Kept(block)) + Withheld(block) = Cardinality(Variables(block))
<1> DEFINE V == Variables(block)
           K == Kept(block)
<1>1. V \subseteq block /\ K \subseteq V /\ \A e \in K : e.allowed /\ ~e.secret_name
  BY DEF Variables, Kept
<1>2. IsFiniteSet(V) /\ IsFiniteSet(K)
  BY <1>1, FS_Subset
<1>3. V \cap K = K
  BY <1>1
<1>4. Cardinality(V \ K) = Cardinality(V) - Cardinality(V \cap K) /\ IsFiniteSet(V \ K)
  BY <1>2, FS_Difference
<1>5. Cardinality(V) \in Nat /\ Cardinality(K) \in Nat /\ Cardinality(V \ K) \in Nat
  BY <1>2, <1>4, FS_CardinalityType
<1>6. Withheld(block) = Cardinality(V) - Cardinality(K) /\ Withheld(block) \in Nat
  BY <1>3, <1>4, <1>5 DEF Withheld
<1> QED  BY <1>1, <1>5, <1>6

-----------------------------------------------------------------------------
(* The files that are verified *)

\* The executable is one of them, and without too many libraries so are they all.
LEMMA CandidatesAre ==
    ASSUME NEW r \in Records
    PROVE  /\ r.executable \in candidates(r)
           /\ Cardinality(libraries(r)) < MAX_VERIFIED_FILES =>
                \A i \in libraries(r) : r.maps[i] \in candidates(r)
<1>1. r.executable \in candidates(r)
  BY DEF candidates
<1>2. ASSUME Cardinality(libraries(r)) < MAX_VERIFIED_FILES, NEW i \in libraries(r)
      PROVE  r.maps[i] \in candidates(r)
  <2> DEFINE before == {j \in libraries(r) : j <= i}
  <2>1. IsFiniteSet(libraries(r))
    <3>1. r.maps \in Seq(Package \cup Local)
      BY RecordAssumption
    <3>2. PICK n \in Nat : DOMAIN r.maps = 1..n
      BY <3>1, LenProperties
    <3>3. IsFiniteSet(1..n)
      BY FS_Interval
    <3>4. libraries(r) \subseteq 1..n
      BY <3>2 DEF libraries
    <3> QED  BY <3>3, <3>4, FS_Subset
  <2>2. before \subseteq libraries(r)
    OBVIOUS
  <2>3. IsFiniteSet(before) /\ Cardinality(before) <= Cardinality(libraries(r))
    BY <2>1, <2>2, FS_Subset
  <2>4. Cardinality(before) \in Nat /\ Cardinality(libraries(r)) \in Nat
    BY <2>1, <2>3, FS_CardinalityType
  <2>5. Cardinality(before) <= MAX_VERIFIED_FILES - 1
    BY <1>2, <2>3, <2>4, CollectionAssumption
  <2>6. r.maps[i] \in FirstMapped(r, MAX_VERIFIED_FILES - 1)
    BY <2>5 DEF FirstMapped
  <2> QED  BY <2>6 DEF candidates
<1> QED  BY <1>1, <1>2

-----------------------------------------------------------------------------
(* dpkg *)

\* A version a package can get is one.
LEMMA VersionIs ==
    /\ Held \in SUBSET Nat /\ Edited \notin Held
    /\ \A p \in Package, n \in Nat : n < MaxVersion[p] => n + 1 \in Version
<1>1. \A p \in Package : MaxVersion[p] \in Nat
  BY BoundAssumption
<1>2. Version \in SUBSET Nat
  BY <1>1 DEF Version
<1>3. \A p \in Package, n \in Nat : n < MaxVersion[p] => n + 1 \in 1..MaxVersion[p]
  BY <1>1
<1> QED  BY <1>2, <1>3 DEF Held, Version, NotThere, Edited

\* dpkg is idle or at a package.
LEMMA DpkgIs ==
    ASSUME IndexTypeOK
    PROVE  /\ dpkg # Idle => dpkg.step \in {"unpacked", "info"} /\ dpkg.package \in Package
           /\ dpkg.step = "unpacked" \/ dpkg.step = "info" => dpkg # Idle
           /\ dpkg # Idle => dpkg = [step |-> dpkg.step, package |-> dpkg.package]
  BY DEF IndexTypeOK, Idle

LEMMA UnpackKeeps ==
    ASSUME DiskInv, NEW p \in Package, Unpack(p)
    PROVE  DiskInv'
<1> USE DEF DiskInv, Unpack, Noted
<1>1. status[p] \in Held /\ status[p] \in Nat /\ status[p] < MaxVersion[p]
  BY VersionIs DEF IndexTypeOK
<1>2. status[p] + 1 \in Version
  BY <1>1, VersionIs
<1>3. dpkg' # Idle /\ dpkg'.step = "unpacked" /\ dpkg'.package = p
  BY DEF Idle
<1>4. content'[p] = status[p] + 1 /\ \A q \in Package : q # p => content'[q] = content[q]
  BY DEF IndexTypeOK
<1>5. IndexTypeOK'
  <2>1. content' \in [Package -> Held \cup {Edited}]
    BY <1>2 DEF IndexTypeOK, Held
  <2>2. dpkg' \in [step : {"unpacked", "info"}, package : Package]
    OBVIOUS
  <2>3. raced' \in BOOLEAN /\ quiet' \in BOOLEAN
    BY DEF IndexTypeOK
  <2> QED  BY <2>1, <2>2, <2>3 DEF IndexTypeOK
<1>6. Unpacked'
  BY <1>1, <1>3, <1>4 DEF Unpacked
<1>7. Summed'
  <2>1. \A q \in Package : q # p => content[q] = Edited \/ md5sums[q] \in {NotThere, content[q]}
    BY DpkgIs DEF Summed, Idle
  <2> QED  BY <1>3, <1>4, <2>1 DEF Summed
<1> QED  BY <1>5, <1>6, <1>7

LEMMA WriteInfoKeeps ==
    ASSUME DiskInv, WriteInfo
    PROVE  DiskInv'
<1> USE DEF DiskInv, WriteInfo, Noted
<1> DEFINE p == dpkg.package
<1>1. dpkg # Idle /\ p \in Package /\ dpkg = [step |-> dpkg.step, package |-> p]
  BY DpkgIs
<1>2. status[p] \in Held /\ status[p] \in Nat /\ status[p] < MaxVersion[p]
  BY <1>1, VersionIs DEF IndexTypeOK, Unpacked
<1>3. status[p] + 1 \in Version
  BY <1>1, <1>2, VersionIs
<1>4. dpkg' = [step |-> "info", package |-> p]
  BY <1>1
<1>5. dpkg' # Idle /\ dpkg'.step = "info" /\ dpkg'.package = p
  BY <1>4 DEF Idle
<1>6. /\ md5sums'[p] \in {NotThere, status[p] + 1}
      /\ \A q \in Package : q # p => md5sums'[q] = md5sums[q]
  BY <1>1 DEF IndexTypeOK
<1>7. IndexTypeOK'
  <2>1. md5sums' \in [Package -> Held]
    BY <1>3 DEF IndexTypeOK, Held
  <2>2. dpkg' \in [step : {"unpacked", "info"}, package : Package]
    BY <1>1, <1>4
  <2>3. raced' \in BOOLEAN /\ quiet' \in BOOLEAN /\ list' \subseteq Package
    BY <1>1 DEF IndexTypeOK
  <2> QED  BY <2>1, <2>2, <2>3 DEF IndexTypeOK
<1>8. Unpacked'
  BY <1>2, <1>5 DEF Unpacked
<1>9. Summed'
  <2>1. \A q \in Package : q # p => content[q] = Edited \/ md5sums[q] \in {NotThere, content[q]}
    BY DEF Summed
  <2>2. content[p] \in {status[p] + 1, Edited}
    BY DEF Unpacked
  <2> QED  BY <1>6, <2>1, <2>2 DEF Summed
<1> QED  BY <1>7, <1>8, <1>9

LEMMA WriteStatusKeeps ==
    ASSUME DiskInv, WriteStatus
    PROVE  DiskInv'
<1> USE DEF DiskInv, WriteStatus, Noted
<1> DEFINE p == dpkg.package
<1>1. dpkg # Idle /\ p \in Package /\ dpkg.step # "unpacked"
  BY DpkgIs
<1>2. status[p] \in Held /\ status[p] \in Nat /\ status[p] < MaxVersion[p]
  BY <1>1, VersionIs DEF IndexTypeOK, Unpacked
<1>3. status[p] + 1 \in Version
  BY <1>1, <1>2, VersionIs
<1>4. IndexTypeOK'
  <2>1. status' \in [Package -> Held]
    BY <1>3 DEF IndexTypeOK, Held
  <2>2. mtime' \in Nat /\ built' \in 0..mtime'
    BY DEF IndexTypeOK
  <2>3. raced' \in BOOLEAN /\ quiet' \in BOOLEAN
    BY DEF IndexTypeOK
  <2> QED  BY <2>1, <2>2, <2>3 DEF IndexTypeOK
<1>5. dpkg' = Idle /\ dpkg'.step # "unpacked"
  BY DEF Idle
<1>6. Summed'
  BY <1>1, <1>5 DEF Summed
<1> QED  BY <1>4, <1>5, <1>6 DEF Unpacked

LEMMA EditKeeps ==
    ASSUME DiskInv, NEW p \in Package, Edit(p)
    PROVE  DiskInv'
<1> USE DEF DiskInv, Edit, index
<1>1. content'[p] = Edited /\ \A q \in Package : q # p => content'[q] = content[q]
  BY DEF IndexTypeOK
<1>2. IndexTypeOK'
  BY DEF IndexTypeOK
<1>3. Unpacked'
  BY <1>1, DpkgIs DEF Unpacked
<1>4. Summed'
  BY <1>1 DEF Summed
<1> QED  BY <1>2, <1>3, <1>4

\* What leaves the disk and dpkg alone.
LEMMA DiskStays ==
    ASSUME DiskInv, UNCHANGED <<disk, dpkg, index>>, quiet' = quiet \/ quiet' = (dpkg = Idle)
    PROVE  DiskInv'
<1>1. UNCHANGED <<content, list, md5sums, status, mtime, dpkg, starts, paths, built, versions, raced>>
  BY DEF disk, index
<1>2. quiet' \in BOOLEAN /\ (quiet' => dpkg = Idle)
  <2>1. quiet \in BOOLEAN /\ (quiet => dpkg = Idle)
    BY DEF DiskInv, IndexTypeOK
  <2>2. CASE quiet' = quiet
    BY <2>1, <2>2
  <2>3. CASE quiet' = (dpkg = Idle)
    BY <2>3, Zenon
  <2> QED  BY <2>2, <2>3
<1>3. IndexTypeOK'
  BY <1>1, <1>2 DEF DiskInv, IndexTypeOK
<1>4. Unpacked' /\ Summed'
  BY <1>1 DEF DiskInv, Unpacked, Summed
<1> QED  BY <1>1, <1>2, <1>3, <1>4 DEF DiskInv

LEMMA ReadIndexKeeps ==
    ASSUME DiskInv, ReadIndex
    PROVE  DiskInv'
<1> USE DEF disk
<1>1. UNCHANGED <<content, list, md5sums, status, mtime, dpkg, quiet>>
  BY DEF ReadIndex, Start, ReadLists, ReadMtime, ReadStatus
<1>2. starts' \in 0..MaxStarts
  BY BoundAssumption DEF ReadIndex, Start, ReadLists, ReadMtime, ReadStatus, DiskInv, IndexTypeOK
<1>3. /\ paths' \subseteq Package
      /\ versions' \in [Package -> Held]
      /\ raced' \in BOOLEAN
      /\ built' = built \/ built' = mtime
  BY DEF ReadIndex, Start, ReadLists, ReadMtime, ReadStatus, DiskInv, IndexTypeOK
<1>4. IndexTypeOK'
  BY <1>1, <1>2, <1>3 DEF DiskInv, IndexTypeOK
<1> QED  BY <1>1, <1>4 DEF DiskInv, Unpacked, Summed

LEMMA DpkgKeeps ==
    ASSUME DiskInv, Dpkg
    PROVE  DiskInv'
<1>1. ASSUME NEW p \in Package, Unpack(p) \/ Edit(p)
      PROVE  DiskInv'
  BY <1>1, UnpackKeeps, EditKeeps
<1> QED  BY <1>1, WriteInfoKeeps, WriteStatusKeeps DEF Dpkg

-----------------------------------------------------------------------------
(* The crash in hand *)

Working == {"assemble", "asked", "drop", "verify", "hash"}

\* There is a crash in hand exactly when the daemon works on one.
LEMMA InHand ==
    ASSUME PcTyped, pc \in Working
    PROVE  crash \in Records /\ crash # NoCrash
  BY DEF PcTyped, Working

LEMMA RecordIs ==
    ASSUME NEW r \in Records
    PROVE  /\ r # NoCrash /\ r.executable \in Package \cup Local /\ r.saved \in BOOLEAN
           /\ r.args \in Seq(Argument) /\ IsFiniteSet(r.environ)
<1>1. r.executable \in Package \cup Local /\ "none" \notin Package \cup Local /\ NoCrash.executable = "none"
  BY RecordAssumption, CollectionAssumption DEF NoCrash
<1> QED  BY <1>1, RecordAssumption

\* When there is nothing in hand, nothing is claimed of it.
LEMMA NothingInHand ==
    ASSUME PcTyped, FiledCounted, UNCHANGED filing,
           pc' \in {"down", "lists", "mtime", "status", "watch"}, crash' = NoCrash,
           core' \in {"none", "there", "gone", "deleted"},
           late' = FALSE, todo' = {}, looked' = {}, checking' = Nothing
    PROVE  HandInv'
<1>1. checking'.file \notin Package
  BY CollectionAssumption DEF Nothing
<1>2. PcTyped'
  <2>1. pc' # "hash" /\ (pc' = "hash") = (checking'.file \in Package)
    BY <1>1
  <2>2. (crash' = NoCrash) = (pc' \in {"down", "lists", "mtime", "status", "watch"})
    OBVIOUS
  <2> QED  BY <2>1, <2>2 DEF PcTyped
<1>3. FiledCounted'
  BY DEF FiledCounted, filing
<1> QED  BY <1>2, <1>3 DEF HandInv, CoreOffered, Stage2Made, AllLookedAt, SumsInHand

LEMMA ForgetKeeps ==
    ASSUME HandInv, DropCore \/ Write \/ Stop
    PROVE  HandInv'
<1>1. /\ pc' \in {"watch", "down"} /\ UNCHANGED filing
      /\ crash' = NoCrash /\ late' = FALSE /\ todo' = {} /\ looked' = {} /\ checking' = Nothing
  BY DEF DropCore, Write, Stop, Forget
<1>2. core' \in {"none", "there", "gone", "deleted"}
  BY DEF DropCore, Write, Stop, HandInv, PcTyped
<1> QED  BY <1>1, <1>2, NothingInHand DEF HandInv

\* The daemon reads its index while there is no crash in hand.
LEMMA ReadingKeepsHand ==
    ASSUME HandInv, ReadIndex, UNCHANGED <<stage1, core, stage2, filing>>
    PROVE  HandInv'
<1>1. /\ pc \in {"down", "lists", "mtime", "status"}
      /\ pc' \in {"lists", "mtime", "status", "watch"}
  BY DEF ReadIndex, Start, ReadLists, ReadMtime, ReadStatus
<1>2. crash' = crash /\ core' = core /\ late' = late /\ todo' = todo /\ looked' = looked /\ checking' = checking
  BY DEF stage1, stage2
<1>3. PcTyped'
  BY <1>1, <1>2 DEF HandInv, PcTyped
<1>4. FiledCounted'
  BY DEF HandInv, FiledCounted, filing
<1> QED  BY <1>1, <1>3, <1>4 DEF HandInv, CoreOffered, Stage2Made, AllLookedAt, SumsInHand

\* dpkg works while there is: then the crash is no longer a quiet one.
LEMMA DpkgKeepsHand ==
    ASSUME HandInv, Dpkg, UNCHANGED <<stage1, core, stage2, filing>>
    PROVE  HandInv'
<1>1. pc' = pc /\ paths' = paths /\ (quiet' = FALSE \/ (quiet' = quiet /\ md5sums' = md5sums))
  BY DEF Dpkg, WriteInfo, WriteStatus, Unpack, Edit, Noted, index
<1>2. UNCHANGED <<crash, event, core, late, report, todo, checking, looked, handled, filed>>
  BY DEF stage1, stage2, filing
<1>3. PcTyped' /\ FiledCounted' /\ CoreOffered'
  BY <1>1, <1>2 DEF HandInv, PcTyped, FiledCounted, CoreOffered
<1>4. Stage2Made'
  BY <1>1, <1>2 DEF HandInv, Stage2Made
<1>5. AllLookedAt'
  BY <1>1, <1>2 DEF HandInv, AllLookedAt, Owned
<1>6. SumsInHand'
  BY <1>1, <1>2 DEF HandInv, SumsInHand
<1> QED  BY <1>3, <1>4, <1>5, <1>6 DEF HandInv

LEMMA VacuumKeeps ==
    ASSUME HandInv, Vacuum
    PROVE  HandInv'
<1> USE DEF Vacuum, stage1, stage2, filing, index, disk
<1>1. PcTyped' /\ FiledCounted' /\ CoreOffered'
  BY DEF HandInv, PcTyped, FiledCounted, CoreOffered
<1>2. Stage2Made'
  BY DEF HandInv, Stage2Made
<1>3. AllLookedAt'
  BY DEF HandInv, AllLookedAt, Owned
<1>4. SumsInHand'
  BY DEF HandInv, SumsInHand
<1> QED  BY <1>1, <1>2, <1>3, <1>4 DEF HandInv

LEMMA RefusedKeeps ==
    ASSUME HandInv, Refused
    PROVE  HandInv'
<1> USE DEF Refused, stage1, stage2, filing, index, disk
<1>1. PcTyped' /\ FiledCounted' /\ CoreOffered'
  BY DEF HandInv, PcTyped, FiledCounted, CoreOffered
<1>2. Stage2Made'
  BY DEF HandInv, Stage2Made
<1> QED  BY <1>1, <1>2 DEF HandInv, AllLookedAt, SumsInHand

LEMMA CollectKeeps ==
    ASSUME HandInv, NEW r \in Records, Collect(r)
    PROVE  HandInv'
<1> USE DEF Collect, stage2, index, disk
<1>1. PICK spent \in BOOLEAN :
        event' = [signature |-> Signature(r), late |-> spent,
                  core_available |-> core_status(core' = "there", spent)]
  OBVIOUS
<1>2. event'.late = spent /\ event'.core_available = (core' = "there" /\ ~spent)
  BY <1>1 DEF core_status
<1>3. core' \in {"none", "there", "gone"} /\ (r.saved => core' \in {"there", "gone"})
  BY RecordIs
<1>4. PcTyped'
  <2>1. crash' \in Records /\ crash' # NoCrash
    BY RecordIs
  <2>2. pc' # "hash" /\ (pc' = "hash") = (checking'.file \in Package)
    BY DEF HandInv, PcTyped
  <2>3. event'.core_available \in BOOLEAN /\ event'.late \in BOOLEAN
    BY <1>2
  <2>4. late' \in BOOLEAN /\ todo' \subseteq Package /\ looked' \subseteq Package
    BY DEF HandInv, PcTyped
  <2> QED  BY <1>3, <2>1, <2>2, <2>3, <2>4 DEF PcTyped
<1>5. FiledCounted'
  <2>1. PICK e : filed' = filed \cup {e}
    OBVIOUS
  <2>2. handled' \in 0..MaxCrashes /\ handled' = handled + 1 /\ handled \in Nat
    BY CollectionAssumption DEF HandInv, FiledCounted
  <2>3. IsFiniteSet(filed') /\ (Cardinality(filed') = Cardinality(filed) \/ Cardinality(filed') = Cardinality(filed) + 1)
    <3>1. IsFiniteSet(filed)
      BY DEF HandInv, FiledCounted
    <3>2. /\ IsFiniteSet(filed \cup {e})
          /\ Cardinality(filed \cup {e}) = IF e \in filed THEN Cardinality(filed) ELSE Cardinality(filed) + 1
      BY <3>1, FS_AddElement
    <3> QED  BY <2>1, <3>2
  <2>4. Cardinality(filed) \in Nat /\ Cardinality(filed) <= handled
    BY FS_CardinalityType DEF HandInv, FiledCounted
  <2> QED  BY <2>2, <2>3, <2>4 DEF FiledCounted
<1>6. CoreOffered'
  BY <1>2, <1>3 DEF CoreOffered
<1> QED  BY <1>4, <1>5, <1>6 DEF HandInv, Stage2Made, AllLookedAt, SumsInHand

\* Stage 2 attaches what the record has and the budget allows, and lists the
\* rest as skipped; the core is attached if it is still there.
LEMMA AssembleKeeps ==
    ASSUME HandInv, Assemble
    PROVE  HandInv'
<1> USE DEF Assemble, stage1, filing, index, disk
<1>1. crash \in Records /\ crash # NoCrash /\ crash' = crash
  BY InHand DEF HandInv, Working
<1> DEFINE offered == {n \in {"proc-maps", "proc-status"} : SizeOf(crash, n) > 0}
<1>2. PICK expired \in 1..3 :
        LET allowed == offered \cap Charged(crash, expired)
        IN  /\ late' = (expired < 3)
            /\ report' =
                 [attachments |-> allowed \cup (IF core = "there" THEN {"core-dump"} ELSE {}),
                  skipped |-> (offered \ allowed) \cup (IF core = "gone" THEN {"core-dump"} ELSE {}),
                  arguments |-> scrub_cmdline_block(crash.args),
                  environment |-> Kept(crash.environ), withheld |-> Withheld(crash.environ),
                  modified |-> {}]
  OBVIOUS
<1> DEFINE allowed == offered \cap Charged(crash, expired)
<1>3. /\ allowed \subseteq offered /\ offered \subseteq {"proc-maps", "proc-status"}
      /\ \A n \in {"proc-maps", "proc-status"} : SizeOf(crash, n) > 0 => n \in offered
  OBVIOUS
<1>4. /\ report'.attachments = allowed \cup (IF core = "there" THEN {"core-dump"} ELSE {})
      /\ report'.skipped = (offered \ allowed) \cup (IF core = "gone" THEN {"core-dump"} ELSE {})
      /\ report'.modified = {}
      /\ report' = [attachments |-> report'.attachments, skipped |-> report'.skipped,
                    arguments |-> scrub_cmdline_block(crash.args), environment |-> Kept(crash.environ),
                    withheld |-> Withheld(crash.environ), modified |-> report'.modified]
  BY <1>2
<1>5. late' \in BOOLEAN
  BY <1>2
<1> HIDE DEF allowed, offered
<1>6. PcTyped' /\ FiledCounted' /\ CoreOffered'
  <2>1. crash.saved \in BOOLEAN
    BY <1>1, RecordIs
  <2>2. PcTyped'
    BY <1>1, <1>5 DEF HandInv, PcTyped
  <2> QED  BY <1>1, <2>1, <2>2 DEF HandInv, FiledCounted, CoreOffered
<1>7. Stage2Made'
  <2>1. core = "there" => core # "gone"
    OBVIOUS
  <2>2. report'.attachments \cap report'.skipped = {}
    BY <1>3, <1>4, <2>1
  <2>3. /\ report'.attachments \subseteq Collectors \ {"package-verification"}
        /\ report'.skipped \subseteq Collectors
    BY <1>3, <1>4 DEF Collectors
  <2>4. crash.saved => "core-dump" \in report'.attachments \cup report'.skipped
    BY <1>4 DEF HandInv, CoreOffered
  <2>5. \A n \in {"proc-maps", "proc-status"} :
          SizeOf(crash, n) > 0 => n \in report'.attachments \cup report'.skipped
    BY <1>3, <1>4
  <2> QED  BY <1>1, <1>4, <2>2, <2>3, <2>4, <2>5 DEF Stage2Made
<1> QED  BY <1>6, <1>7 DEF HandInv, AllLookedAt, SumsInHand

\* A report of which one part is replaced.
LEMMA ReportExcept ==
    ASSUME NEW a, NEW s, NEW g, NEW e, NEW w, NEW m, NEW x, NEW r,
           r = [attachments |-> a, skipped |-> s, arguments |-> g, environment |-> e, withheld |-> w, modified |-> m]
    PROVE  /\ [r EXCEPT !.skipped = x] =
                 [attachments |-> a, skipped |-> x, arguments |-> g, environment |-> e, withheld |-> w, modified |-> m]
           /\ [r EXCEPT !.modified = x] =
                 [attachments |-> a, skipped |-> s, arguments |-> g, environment |-> e, withheld |-> w, modified |-> x]
  OBVIOUS

\* What is to be verified is what the index has an owner for, or nothing, and
\* then the report says that nothing was verified.
LEMMA WantedKeeps ==
    ASSUME HandInv, paths \subseteq Package, Wanted
    PROVE  HandInv'
<1> USE DEF Wanted, stage1, filing, index, disk
<1>1. crash \in Records /\ crash # NoCrash /\ crash' = crash /\ paths' = paths
  BY InHand DEF HandInv, Working
<1>2. late' \in BOOLEAN
  BY DEF HandInv, PcTyped
<1>3. todo' \subseteq Package
  BY DEF Owned
<1>4. PcTyped' /\ FiledCounted' /\ CoreOffered'
  <2>1. PcTyped'
    BY <1>1, <1>2, <1>3 DEF HandInv, PcTyped
  <2> QED  BY <2>1 DEF HandInv, FiledCounted, CoreOffered
<1>5. /\ report'.attachments = report.attachments /\ report'.modified = report.modified
      /\ report'.skipped = IF late' THEN report.skipped \cup {"package-verification"} ELSE report.skipped
      /\ report' = [attachments |-> report'.attachments, skipped |-> report'.skipped,
                    arguments |-> scrub_cmdline_block(crash.args), environment |-> Kept(crash.environ),
                    withheld |-> Withheld(crash.environ), modified |-> report'.modified]
  <2> DEFINE skipped == IF late' THEN report.skipped \cup {"package-verification"} ELSE report.skipped
  <2>1. report = [attachments |-> report.attachments, skipped |-> report.skipped,
                  arguments |-> scrub_cmdline_block(crash.args), environment |-> Kept(crash.environ),
                  withheld |-> Withheld(crash.environ), modified |-> report.modified]
    BY DEF HandInv, Stage2Made
  <2>2. report' = [attachments |-> report.attachments, skipped |-> skipped,
                   arguments |-> scrub_cmdline_block(crash.args), environment |-> Kept(crash.environ),
                   withheld |-> Withheld(crash.environ), modified |-> report.modified]
    <3>1. CASE late'
      BY <2>1, <3>1, ReportExcept
    <3>2. CASE ~late'
      BY <2>1, <3>2
    <3> QED  BY <3>1, <3>2
  <2> HIDE DEF skipped
  <2>3. report'.attachments = report.attachments /\ report'.skipped = skipped /\ report'.modified = report.modified
    BY <2>2
  <2> QED  BY <2>2, <2>3 DEF skipped
<1>6. Stage2Made'
  <2>1. /\ report.attachments \subseteq Collectors \ {"package-verification"}
        /\ report.skipped \subseteq Collectors /\ report.attachments \cap report.skipped = {}
        /\ crash.saved => "core-dump" \in report.attachments \cup report.skipped
        /\ \A n \in {"proc-maps", "proc-status"} :
             SizeOf(crash, n) > 0 => n \in report.attachments \cup report.skipped
        /\ \A m \in report.modified : m.sums # NotThere /\ (m.edited \/ ~m.quiet)
    BY DEF HandInv, Stage2Made
  <2>2. "package-verification" \in Collectors
    BY DEF Collectors
  <2>3. report'.attachments \cap report'.skipped = {} /\ report'.skipped \subseteq Collectors
    BY <1>5, <2>1, <2>2
  <2> QED  BY <1>1, <1>5, <2>1, <2>3 DEF Stage2Made
<1>7. AllLookedAt'
  <2>1. CASE late'
    BY <1>5, <2>1 DEF AllLookedAt
  <2>2. CASE ~late'
    <3>1. candidates(crash)' = candidates(crash) /\ \A f : Owned(f)' = Owned(f)
      BY <1>1 DEF candidates, FirstMapped, libraries, Field, Owned
    <3>2. \A f \in candidates(crash)' : Owned(f)' => f \in todo'
      BY <2>2, <3>1
    <3> QED  BY <3>2 DEF AllLookedAt
  <2> QED  BY <2>1, <2>2
<1> QED  BY <1>4, <1>6, <1>7 DEF HandInv, SumsInHand

LEMMA ReadSumsKeeps ==
    ASSUME HandInv, paths \subseteq Package, NEW f \in Package, ReadSums(f)
    PROVE  HandInv'
<1> USE DEF ReadSums, stage1, filing, index, disk
<1>1. crash \in Records /\ crash # NoCrash /\ crash' = crash /\ paths' = paths
  BY InHand DEF HandInv, Working
<1>2. checking'.file = f /\ checking'.sums = md5sums[f] /\ md5sums' = md5sums
  OBVIOUS
<1>3. PcTyped' /\ FiledCounted' /\ CoreOffered'
  <2>1. PcTyped'
    BY <1>1, <1>2 DEF HandInv, PcTyped
  <2> QED  BY <2>1 DEF HandInv, FiledCounted, CoreOffered
<1>4. Stage2Made'
  BY <1>1 DEF HandInv, Stage2Made
<1>5. AllLookedAt'
  <2>1. checking.file \notin Package /\ todo' = todo \ {f} /\ looked' = looked
    BY DEF HandInv, PcTyped
  <2>2. candidates(crash)' = candidates(crash) /\ \A g : Owned(g)' = Owned(g)
    BY <1>1 DEF candidates, FirstMapped, libraries, Field, Owned
  <2>3. CASE "package-verification" \in report.skipped
    BY <2>3 DEF AllLookedAt
  <2>4. ASSUME NEW g \in candidates(crash), Owned(g), "package-verification" \notin report.skipped
        PROVE  g \in todo' \cup looked' \cup {checking'.file}
    <3>1. g \in Package /\ g # checking.file
      BY <2>1, <2>4 DEF Owned
    <3>2. g \in todo \cup looked
      BY <2>4, <3>1 DEF HandInv, AllLookedAt
    <3> QED  BY <1>2, <2>1, <3>2
  <2> QED  BY <2>2, <2>3, <2>4 DEF AllLookedAt
<1>6. SumsInHand'
  BY <1>2 DEF SumsInHand
<1> QED  BY <1>3, <1>4, <1>5, <1>6 DEF HandInv

\* While dpkg has been quiet a file that differs from its checksum is edited.
LEMMA DiffersIsEdited ==
    ASSUME DiskInv, SumsInHand, pc = "hash", quiet, NEW f \in Package, f = checking.file,
           Differs(content[f], checking.sums)
    PROVE  content[f] = Edited
<1>1. dpkg.step # "unpacked"
  BY DEF DiskInv, Idle
<1>2. checking.sums = md5sums[f]
  BY DEF SumsInHand
<1> QED  BY <1>1, <1>2 DEF DiskInv, Summed, Differs

LEMMA HashKeeps ==
    ASSUME DiskInv, HandInv, Hash
    PROVE  HandInv'
<1> USE DEF Hash, stage1, filing, index, disk
<1> DEFINE f == checking.file
           found == [file |-> f, sums |-> checking.sums, edited |-> content[f] = Edited, quiet |-> quiet]
           differs == content[f] # NotThere /\ Differs(content[f], checking.sums)
           modified == IF differs THEN report.modified \cup {found} ELSE report.modified
<1>1. crash \in Records /\ crash # NoCrash /\ crash' = crash /\ paths' = paths
  BY InHand DEF HandInv, Working
<1>2. f \in Package /\ checking'.file \notin Package
  BY CollectionAssumption DEF HandInv, PcTyped, Nothing
<1>3. PcTyped' /\ FiledCounted' /\ CoreOffered'
  <2>1. looked' \subseteq Package
    BY <1>2 DEF HandInv, PcTyped
  <2>2. PcTyped'
    BY <1>1, <1>2, <2>1 DEF HandInv, PcTyped
  <2> QED  BY <2>2 DEF HandInv, FiledCounted, CoreOffered
<1>4. /\ report'.attachments = report.attachments /\ report'.skipped = report.skipped
      /\ report'.modified = modified
      /\ report' = [attachments |-> report.attachments, skipped |-> report.skipped,
                    arguments |-> scrub_cmdline_block(crash.args), environment |-> Kept(crash.environ),
                    withheld |-> Withheld(crash.environ), modified |-> modified]
  <2>1. report = [attachments |-> report.attachments, skipped |-> report.skipped,
                  arguments |-> scrub_cmdline_block(crash.args), environment |-> Kept(crash.environ),
                  withheld |-> Withheld(crash.environ), modified |-> report.modified]
    BY DEF HandInv, Stage2Made
  <2>2. report' = IF differs THEN [report EXCEPT !.modified = report.modified \cup {found}] ELSE report
    OBVIOUS
  <2> HIDE DEF found, differs
  <2>3. report' = [attachments |-> report.attachments, skipped |-> report.skipped,
                   arguments |-> scrub_cmdline_block(crash.args), environment |-> Kept(crash.environ),
                   withheld |-> Withheld(crash.environ), modified |-> modified]
    <3>1. CASE differs
      BY <2>1, <2>2, <3>1, ReportExcept
    <3>2. CASE ~differs
      BY <2>1, <2>2, <3>2
    <3> QED  BY <3>1, <3>2
  <2> QED  BY <2>3
<1>5. \A m \in modified : m.sums # NotThere /\ (m.edited \/ ~m.quiet)
  <2>1. \A m \in report.modified : m.sums # NotThere /\ (m.edited \/ ~m.quiet)
    BY DEF HandInv, Stage2Made
  <2>2. differs => found.sums # NotThere /\ (found.edited \/ ~found.quiet)
    <3>1. differs => checking.sums # NotThere
      BY DEF Differs
    <3>2. differs /\ quiet => content[f] = Edited
      BY <1>2, DiffersIsEdited DEF HandInv
    <3> QED  BY <3>1, <3>2
  <2> HIDE DEF found, differs
  <2> QED  BY <2>1, <2>2
<1> HIDE DEF modified
<1>6. Stage2Made'
  BY <1>1, <1>4, <1>5 DEF HandInv, Stage2Made
<1>7. AllLookedAt'
  <2>1. todo' = todo /\ looked' = looked \cup {f}
    OBVIOUS
  <2>2. candidates(crash)' = candidates(crash) /\ \A g : Owned(g)' = Owned(g)
    BY <1>1 DEF candidates, FirstMapped, libraries, Field, Owned
  <2>3. report'.skipped = report.skipped
    BY <1>4
  <2>4. "package-verification" \in report.skipped
        \/ \A g \in candidates(crash) : Owned(g) => g \in todo \cup looked \cup {f}
    BY DEF HandInv, AllLookedAt
  <2> QED  BY <2>1, <2>2, <2>3, <2>4 DEF AllLookedAt
<1> QED  BY <1>3, <1>6, <1>7 DEF HandInv, SumsInHand

-----------------------------------------------------------------------------
(* The theorems *)

\* Whatever dpkg and the crashes do, the invariant holds.
THEOREM Inductive == Spec => []IInv
<1>1. Init => IInv
  <2> SUFFICES ASSUME Init PROVE IInv
    OBVIOUS
  <2> USE DEF Init, IndexInit, NoStage2
  <2>1. IndexTypeOK
    <3>1. [p \in Package |-> NotThere] \in [Package -> Held] /\ Held \subseteq Held \cup {Edited}
      BY DEF Held
    <3>2. content \in [Package -> Held \cup {Edited}]
      BY <3>1
    <3>3. mtime \in Nat /\ built \in 0..mtime /\ starts \in 0..MaxStarts
      BY BoundAssumption
    <3> HIDE DEF Init, IndexInit
    <3>4. list = {} /\ paths = {} /\ dpkg = Idle /\ raced = FALSE /\ quiet = FALSE
      BY DEF Init, IndexInit
    <3>5. md5sums \in [Package -> Held] /\ status \in [Package -> Held] /\ versions \in [Package -> Held]
      BY <3>1 DEF Init, IndexInit
    <3> QED  BY <3>2, <3>3, <3>4, <3>5 DEF IndexTypeOK
  <2>2. dpkg = Idle /\ dpkg.step # "unpacked"
    BY DEF Idle
  <2>3. DiskInv
    BY <2>1, <2>2 DEF DiskInv, Unpacked, Summed
  <2>4. checking.file \notin Package
    BY CollectionAssumption DEF Nothing
  <2>5. PcTyped
    <3>1. (pc = "hash") = (checking.file \in Package)
      BY <2>4
    <3>2. (crash = NoCrash) = (pc \in {"down", "lists", "mtime", "status", "watch"})
      OBVIOUS
    <3> QED  BY <3>1, <3>2 DEF PcTyped
  <2>6. FiledCounted
    BY CollectionAssumption, FS_EmptySet DEF FiledCounted
  <2> QED  BY <2>3, <2>5, <2>6 DEF IInv, HandInv, CoreOffered, Stage2Made, AllLookedAt, SumsInHand
<1>2. IInv /\ [Next]_vars => IInv'
  <2> SUFFICES ASSUME IInv, [Next]_vars PROVE IInv'
    OBVIOUS
  <2> USE DEF IInv
  <2>1. paths \subseteq Package
    BY DEF DiskInv, IndexTypeOK
  <2>2. CASE Dpkg /\ UNCHANGED <<stage1, core, stage2, filing>>
    BY <2>2, DpkgKeeps, DpkgKeepsHand
  <2>3. CASE ReadIndex /\ UNCHANGED <<stage1, core, stage2, filing>>
    BY <2>3, ReadIndexKeeps, ReadingKeepsHand
  <2>4. ASSUME NEW r \in Records, Collect(r) PROVE IInv'
    <3>1. UNCHANGED <<disk, dpkg, index>> /\ quiet' = (dpkg = Idle)
      BY <2>4 DEF Collect
    <3> QED  BY <2>4, <3>1, DiskStays, CollectKeeps
  <2>5. ASSUME NEW f \in Package, ReadSums(f) PROVE IInv'
    <3>1. UNCHANGED <<disk, dpkg, index, quiet>>
      BY <2>5 DEF ReadSums
    <3> QED  BY <2>1, <2>5, <3>1, DiskStays, ReadSumsKeeps
  <2>6. CASE Vacuum \/ Assemble \/ Refused \/ DropCore \/ Wanted \/ Hash \/ Write \/ Stop
    <3>1. UNCHANGED <<disk, dpkg, index, quiet>>
      BY <2>6 DEF Vacuum, Assemble, Refused, DropCore, Wanted, Hash, Write, Stop, Forget
    <3>2. DiskInv'
      BY <3>1, DiskStays
    <3>3. HandInv'
      BY <2>1, <2>6, VacuumKeeps, AssembleKeeps, RefusedKeeps, WantedKeeps, HashKeeps, ForgetKeeps
    <3> QED  BY <3>2, <3>3
  <2>7. CASE UNCHANGED vars
    <3>1. DiskInv'
      BY <2>7, DiskStays DEF vars
    <3>2. UNCHANGED <<pc, crash, event, core, late, report, todo, checking, looked, handled, filed, paths, md5sums, quiet>>
      BY <2>7 DEF vars, stage1, stage2, filing, disk, index
    <3>3. PcTyped' /\ FiledCounted' /\ CoreOffered' /\ SumsInHand'
      BY <3>2 DEF HandInv, PcTyped, FiledCounted, CoreOffered, SumsInHand
    <3>4. Stage2Made'
      BY <3>2 DEF HandInv, Stage2Made
    <3>5. AllLookedAt'
      BY <3>2 DEF HandInv, AllLookedAt, Owned
    <3> QED  BY <3>1, <3>3, <3>4, <3>5 DEF HandInv
  <2> QED  BY <2>2, <2>3, <2>4, <2>5, <2>6, <2>7 DEF Next
<1> QED  BY <1>1, <1>2, PTL DEF Spec

\* The types are right: what dpkg, the index, the event and the report hold, and
\* no more events than crashes.
THEOREM TypeCorrect == Spec => []TypeOK
<1>1. IInv => TypeOK
  <2> SUFFICES ASSUME IInv PROVE TypeOK
    OBVIOUS
  <2> USE DEF IInv, HandInv
  <2>1. ASSUME pc \in {"asked", "drop", "verify", "hash"}
        PROVE  /\ report.attachments \subseteq Collectors /\ report.skipped \subseteq Collectors
               /\ report.arguments \in [DOMAIN Words(crash.args) -> {"shown", "name", "hidden"}]
               /\ report.environment \subseteq crash.environ /\ report.withheld \in Nat
    <3>1. Words(crash.args) \in Seq(Word) /\ IsFiniteSet(crash.environ)
      BY <2>1, InHand, RecordIs, WordsAre DEF Working
    <3>2. /\ report.arguments = scrub_command_line(Words(crash.args))
          /\ report.environment = Kept(crash.environ) /\ report.withheld = Withheld(crash.environ)
          /\ report.attachments \subseteq Collectors /\ report.skipped \subseteq Collectors
      BY <2>1 DEF Stage2Made, scrub_cmdline_block
    <3> QED  BY <3>1, <3>2, Scrubbed, Filtered
  <2> QED  BY <2>1 DEF TypeOK, DiskInv, PcTyped, FiledCounted
<1> QED  BY Inductive, <1>1, PTL

\* What the finished report lacks it lists as skipped, for any sizes of the
\* fields and any number of mapped files, and no core that stage 1 had the time
\* to look for is deleted unoffered.
THEOREM GapsAreExplained == Spec => []GapsExplained
<1>1. IInv => GapsExplained
  <2> SUFFICES ASSUME IInv PROVE GapsExplained
    OBVIOUS
  <2> USE DEF IInv, HandInv
  <2>1. pc = "drop" /\ core = "there" => event.core_available \/ event.late
    BY DEF CoreOffered
  <2>2. ASSUME Finished
        PROVE  /\ crash.saved => "core-dump" \in report.attachments \cup report.skipped
               /\ \A n \in {"proc-maps", "proc-status"} :
                    SizeOf(crash, n) > 0 => n \in report.attachments \cup report.skipped
               /\ report.attachments \cap report.skipped = {}
    BY <2>2 DEF Finished, Stage2Made
  <2>3. ASSUME Finished, "package-verification" \notin report.skipped
        PROVE  /\ Owned(crash.executable) => crash.executable \in looked
               /\ Cardinality(libraries(crash)) < MAX_VERIFIED_FILES =>
                    \A i \in libraries(crash) : Owned(crash.maps[i]) => crash.maps[i] \in looked
    <3>1. crash \in Records
      BY <2>3, InHand DEF Finished, Working
    <3>2. ASSUME NEW f \in candidates(crash), Owned(f)
          PROVE  f \in looked
      <4>1. f \in Package /\ checking.file \notin Package /\ todo = {}
        BY <2>3, <3>2 DEF DiskInv, IndexTypeOK, PcTyped, Finished, Owned
      <4> QED  BY <2>3, <3>2, <4>1 DEF AllLookedAt, Finished
    <3> QED  BY <3>1, <3>2, CandidatesAre
  <2> QED  BY <2>1, <2>2, <2>3 DEF GapsExplained
<1> QED  BY Inductive, <1>1, PTL

\* Of any command line, however long and however its arguments are cut, exactly
\* the words in the two shapes are hidden; of any environment exactly what the
\* allowlist names is kept, and the rest is counted.
THEOREM RedactionIsSound == Spec => []RedactionHolds
<1>1. IInv => RedactionHolds
  <2> SUFFICES ASSUME IInv, pc \in {"asked", "drop", "verify", "hash"}
               PROVE  LET words == Words(crash.args)
                          out == report.arguments
                      IN  /\ \A i \in DOMAIN words :
                               out[i] = IF HiddenByFlags(words, i) THEN "hidden"
                                        ELSE IF SecretAssignment(words[i]) THEN "name" ELSE "shown"
                          /\ \A e \in report.environment : e.allowed /\ ~e.secret_name
                          /\ Cardinality(report.environment) + report.withheld = Cardinality(Variables(crash.environ))
    BY DEF RedactionHolds
  <2>1. Words(crash.args) \in Seq(Word) /\ IsFiniteSet(crash.environ)
    BY InHand, RecordIs, WordsAre DEF IInv, HandInv, Working
  <2>2. /\ report.arguments = scrub_command_line(Words(crash.args))
        /\ report.environment = Kept(crash.environ) /\ report.withheld = Withheld(crash.environ)
    BY DEF IInv, HandInv, Stage2Made, scrub_cmdline_block
  <2> QED  BY <2>1, <2>2, Scrubbed, Filtered
<1> QED  BY Inductive, <1>1, PTL

\* No file is reported as modified that the package's checksum does not belie,
\* unless dpkg was at work while it was looked at.
THEOREM ModifiedAreReal == Spec => []ModifiedIsReal
<1>1. IInv => ModifiedIsReal
  BY DEF IInv, HandInv, Stage2Made, ModifiedIsReal
<1> QED  BY Inductive, <1>1, PTL

-----------------------------------------------------------------------------
(* Reading a stack trace *)

\* A function on 1..n is a sequence of length n.
LEMMA SequenceIs ==
    ASSUME NEW S, NEW n \in Nat, NEW s \in [1..n -> S]
    PROVE  s \in Seq(S) /\ Len(s) = n /\ DOMAIN s = 1..n
<1>1. s \in Seq(S)
  BY SeqDef
<1>2. DOMAIN s = 1..Len(s) /\ Len(s) \in Nat /\ DOMAIN s = 1..n
  BY <1>1, LenProperties
<1> QED  BY <1>1, <1>2

\* First is the least element.
LEMMA FirstIs ==
    ASSUME NEW T \in SUBSET Nat, NEW a \in T, \A j \in T : a <= j
    PROVE  First(T) = a
<1>1. \A i \in T : (\A j \in T : i <= j) => i = a
  <2>1. \A i, j \in Nat : i <= j /\ j <= i => i = j
    OBVIOUS
  <2> QED  BY <2>1
<1> QED  BY <1>1 DEF First

LEMMA FirstExists ==
    ASSUME NEW T \in SUBSET Nat, T # {}
    PROVE  First(T) \in T /\ \A j \in T : First(T) <= j
<1>1. PICK a \in T : \A j \in T : a <= j
  BY Smallest
<1>2. First(T) = a
  BY <1>1, FirstIs
<1> QED  BY <1>1, <1>2

\* The frames of a number of lines that are frames, one for each.
LEMMA FramesOfLines ==
    ASSUME NEW lines, NEW n \in Nat, Len(lines) = n, \A i \in 1..n : IsFrame(lines[i])
    PROVE  FramesIn(lines) = [i \in 1..n |-> parse_frame(lines[i])]
<1> DEFINE read(i) == [j \in 1..i |-> parse_frame(lines[j])]
           S == {parse_frame(lines[j]) : j \in 1..n}
           Rule(h) == h = [i \in 0..n |->
                             IF i = 0 THEN <<>>
                             ELSE IF IsFrame(lines[i]) THEN Append(h[i - 1], parse_frame(lines[i])) ELSE h[i - 1]]
           g == [i \in 0..n |-> read(i)]
<1>1. ASSUME NEW i \in 0..n
      PROVE  read(i) \in Seq(S) /\ Len(read(i)) = i /\ \A j \in 1..i : read(i)[j] = parse_frame(lines[j])
  <2>1. i \in Nat /\ \A j \in 1..i : j \in 1..n
    OBVIOUS
  <2>2. read(i) \in [1..i -> S]
    BY <2>1
  <2> QED  BY <2>1, <2>2, SequenceIs
<1>2. read(0) = <<>>
  <2>1. read(0) \in Seq(S) /\ Len(read(0)) = 0
    BY <1>1
  <2> HIDE DEF read
  <2> QED  BY <2>1, EmptySeq
<1>3. ASSUME NEW i \in 1..n
      PROVE  read(i) = Append(read(i - 1), parse_frame(lines[i]))
  <2>1. i \in 0..n /\ i - 1 \in 0..n /\ parse_frame(lines[i]) \in S
    OBVIOUS
  <2>2. /\ read(i) \in Seq(S) /\ Len(read(i)) = i
        /\ read(i - 1) \in Seq(S) /\ Len(read(i - 1)) = i - 1
        /\ \A j \in 1..i : read(i)[j] = parse_frame(lines[j])
        /\ \A j \in 1..(i - 1) : read(i - 1)[j] = parse_frame(lines[j])
    BY <1>1, <2>1
  <2> HIDE DEF read, S
  <2> DEFINE t == Append(read(i - 1), parse_frame(lines[i]))
  <2>3. /\ t \in Seq(S) /\ Len(t) = i
        /\ \A j \in 1..(i - 1) : t[j] = read(i - 1)[j]
        /\ t[i] = parse_frame(lines[i])
    <3>1. /\ t \in Seq(S) /\ Len(t) = Len(read(i - 1)) + 1
          /\ \A j \in 1..Len(read(i - 1)) : t[j] = read(i - 1)[j]
          /\ t[Len(read(i - 1)) + 1] = parse_frame(lines[i])
      BY <2>1, <2>2, AppendProperties
    <3>2. Len(read(i - 1)) + 1 = i
      BY <2>2
    <3> QED  BY <2>2, <3>1, <3>2
  <2> HIDE DEF t
  <2>4. \A j \in 1..i : read(i)[j] = t[j]
    <3>1. \A j \in 1..i : j = i \/ j \in 1..(i - 1)
      OBVIOUS
    <3> QED  BY <2>2, <2>3, <3>1
  <2>5. read(i) = t
    BY <2>2, <2>3, <2>4, SeqEqual
  <2> QED  BY <2>5 DEF t
<1>4. Rule(g)
  <2>1. ASSUME NEW i \in 0..n
        PROVE  g[i] = IF i = 0 THEN <<>>
                      ELSE IF IsFrame(lines[i]) THEN Append(g[i - 1], parse_frame(lines[i])) ELSE g[i - 1]
    <3> HIDE DEF read
    <3>1. CASE i = 0
      BY <1>2, <3>1
    <3>2. CASE i # 0
      <4>1. i \in 1..n /\ i - 1 \in 0..n
        BY <3>2
      <4>2. g[i] = read(i) /\ g[i - 1] = read(i - 1) /\ IsFrame(lines[i])
        BY <4>1
      <4> HIDE DEF g
      <4> QED  BY <1>3, <3>2, <4>1, <4>2
    <3> QED  BY <3>1, <3>2
  <2> QED  BY <2>1
<1> HIDE DEF g
<1> DEFINE f == CHOOSE h : Rule(h)
<1>5. Rule(f)
  <2> HIDE DEF Rule
  <2> QED  BY <1>4
<1>6. FramesIn(lines) = f[n]
  BY DEF FramesIn
<1> HIDE DEF f
<1>7. \A i \in 0..n : f[i] = read(i)
  <2> DEFINE Failing == {i \in 0..n : f[i] # read(i)}
  <2>1. SUFFICES ASSUME Failing # {} PROVE FALSE
    OBVIOUS
  <2>2. PICK i \in Failing : \A j \in Failing : i <= j
    <3>1. Failing \in SUBSET Nat
      OBVIOUS
    <3> HIDE DEF Failing
    <3> QED  BY <2>1, <3>1, Smallest
  <2> HIDE DEF read
  <2>3. i \in 0..n /\ f[i] # read(i)
    BY <2>2
  <2>4. CASE i = 0
    <3>1. f[i] = <<>>
      BY <1>5, <2>3, <2>4
    <3> QED  BY <1>2, <2>3, <2>4, <3>1
  <2>5. CASE i # 0
    <3>1. i \in 1..n /\ i - 1 \in 0..n /\ ~ (i <= i - 1)
      BY <2>3, <2>5
    <3>2. f[i - 1] = read(i - 1)
      BY <2>2, <3>1
    <3>3. f[i] = Append(f[i - 1], parse_frame(lines[i]))
      BY <1>5, <2>3, <2>5, <3>1
    <3> QED  BY <1>3, <2>3, <3>1, <3>2, <3>3
  <2> QED  BY <2>4, <2>5
<1> QED  BY <1>6, <1>7

\* Sequence u is s, of length a, with t, of length b, behind it.
IsJoined(u, S, s, a, t, b) ==
    /\ u \in Seq(S) /\ Len(u) = a + b
    /\ \A i \in 1..a : u[i] = s[i]
    /\ \A i \in 1..b : u[a + i] = t[i]

LEMMA ConcatIs ==
    ASSUME NEW S, NEW s \in Seq(S), NEW t \in Seq(S), NEW a \in Nat, NEW b \in Nat, Len(s) = a, Len(t) = b
    PROVE  IsJoined(s \o t, S, s, a, t, b)
<1>1. /\ s \o t \in Seq(S) /\ Len(s \o t) = a + b
      /\ \A i \in 1..(a + b) : (s \o t)[i] = IF i <= a THEN s[i] ELSE t[i - a]
  BY ConcatProperties
<1>2. \A i \in 1..a : i \in 1..(a + b) /\ i <= a
  OBVIOUS
<1>3. \A i \in 1..b : a + i \in 1..(a + b) /\ ~ (a + i <= a) /\ (a + i) - a = i
  OBVIOUS
<1> QED  BY <1>1, <1>2, <1>3 DEF IsJoined

\* What systemd logs of a crash with a stack: two lines, the stack, and perhaps
\* a block for another thread.
LEMMA MessageIs ==
    ASSUME NEW r \in Records, Traced(r)
    PROVE  \E n \in Nat \ {0}, k \in Nat :
             /\ Len(r.stack) = n /\ DOMAIN Message(r) = 1..(2 + n + k) /\ Len(Message(r)) = 2 + n + k
             /\ Message(r)[1].kind = "text" /\ Message(r)[2].kind = "header"
             /\ \A i \in 1..n : Message(r)[i + 2] = Line(r, r.stack[i])
             /\ k # 0 => Message(r)[n + 3].kind = "blank"
<1>1. r.stack \in Seq(StackFrame) /\ r.others \in Seq(StackFrame)
  BY RecordAssumption
<1>2. r.stack # <<>> /\ ~ (r.message_size > FieldLimit)
  BY Zenon DEF Traced, Message
<1>3. PICK n \in Nat \ {0} : Len(r.stack) = n /\ DOMAIN r.stack = 1..n
  BY <1>1, <1>2, EmptySeq, LenProperties
<1>4. PICK q \in Nat : Len(r.others) = q /\ DOMAIN r.others = 1..q
  BY <1>1, LenProperties
<1> DEFINE S == {Line(r, f) : f \in StackFrame} \cup {[kind |-> "text"], [kind |-> "header"], [kind |-> "blank"]}
           lines == [i \in DOMAIN r.stack |-> Line(r, r.stack[i])]
           header == <<[kind |-> "text"], [kind |-> "header"]>>
           rest == [i \in DOMAIN r.others |-> Line(r, r.others[i])]
           second == <<[kind |-> "blank"], [kind |-> "header"]>>
           others == IF r.others = <<>> THEN <<>> ELSE second \o rest
<1>5. lines \in Seq(S) /\ Len(lines) = n /\ \A i \in 1..n : lines[i] = Line(r, r.stack[i])
  <2>1. \A i \in 1..n : r.stack[i] \in StackFrame
    BY <1>1, <1>3, ElementOfSeq
  <2>2. lines \in [1..n -> S]
    BY <1>3, <2>1
  <2> QED  BY <1>3, <2>2, SequenceIs
<1>6. header \in Seq(S) /\ Len(header) = 2 /\ header[1].kind = "text" /\ header[2].kind = "header"
  OBVIOUS
<1>7. \E k \in Nat : others \in Seq(S) /\ Len(others) = k /\ (k # 0 => others[1].kind = "blank")
  <2>1. CASE r.others = <<>>
    BY <2>1, EmptySeq
  <2>2. CASE r.others # <<>>
    <3>1. second \in Seq(S) /\ Len(second) = 2 /\ second[1].kind = "blank"
      OBVIOUS
    <3>2. rest \in Seq(S) /\ Len(rest) = q
      <4>1. \A i \in 1..q : r.others[i] \in StackFrame
        BY <1>1, <1>4, ElementOfSeq
      <4>2. rest \in [1..q -> S]
        BY <1>4, <4>1
      <4> QED  BY <1>4, <4>2, SequenceIs
    <3>3. others = second \o rest
      BY <2>2
    <3> HIDE DEF second, rest, others, S
    <3>4. /\ second \o rest \in Seq(S) /\ Len(second \o rest) = 2 + q
          /\ \A i \in 1..2 : (second \o rest)[i] = second[i]
      <4>1. PICK m \in Nat : m = 2
        OBVIOUS
      <4>2. IsJoined(second \o rest, S, second, m, rest, q)
        BY <3>1, <3>2, <4>1, ConcatIs
      <4> QED  BY <4>1, <4>2 DEF IsJoined
    <3>5. others \in Seq(S) /\ Len(others) = 2 + q /\ others[1] = second[1] /\ 2 + q \in Nat
      BY <3>3, <3>4
    <3> QED  BY <3>1, <3>5
  <2> QED  BY <2>1, <2>2
<1>8. PICK k \in Nat : others \in Seq(S) /\ Len(others) = k /\ (k # 0 => others[1].kind = "blank")
  BY <1>7
<1>9. Message(r) = (header \o lines) \o others
  BY <1>2, Zenon DEF Message
<1> HIDE DEF S, lines, header, others
<1>10. /\ header \o lines \in Seq(S) /\ Len(header \o lines) = 2 + n
       /\ \A i \in 1..2 : (header \o lines)[i] = header[i]
       /\ \A i \in 1..n : (header \o lines)[2 + i] = lines[i]
  <2>1. PICK m \in Nat : m = 2
    OBVIOUS
  <2>2. IsJoined(header \o lines, S, header, m, lines, n)
    BY <1>5, <1>6, <2>1, ConcatIs
  <2> QED  BY <2>1, <2>2 DEF IsJoined
<1>11. /\ Message(r) \in Seq(S) /\ Len(Message(r)) = 2 + n + k
       /\ \A i \in 1..(2 + n) : Message(r)[i] = (header \o lines)[i]
       /\ \A i \in 1..k : Message(r)[2 + n + i] = others[i]
  <2>1. PICK m \in Nat : m = 2 + n
    OBVIOUS
  <2>2. IsJoined(Message(r), S, header \o lines, m, others, k)
    BY <1>8, <1>9, <1>10, <2>1, ConcatIs
  <2> QED  BY <2>1, <2>2 DEF IsJoined
<1>12. DOMAIN Message(r) = 1..(2 + n + k)
  BY <1>11, LenProperties
<1>13. Message(r)[1] = header[1] /\ Message(r)[2] = header[2]
  <2>1. 1 \in 1..(2 + n) /\ 2 \in 1..(2 + n)
    OBVIOUS
  <2> QED  BY <1>10, <1>11, <2>1
<1>14. ASSUME NEW i \in 1..n PROVE Message(r)[i + 2] = Line(r, r.stack[i])
  <2>1. i + 2 \in 1..(2 + n) /\ i + 2 = 2 + i
    OBVIOUS
  <2> QED  BY <1>5, <1>10, <1>11, <2>1
<1>15. k # 0 => Message(r)[n + 3] = others[1]
  <2>1. k # 0 => 1 \in 1..k /\ n + 3 = 2 + n + 1
    OBVIOUS
  <2> QED  BY <1>11, <2>1
<1> QED  BY <1>3, <1>6, <1>8, <1>11, <1>12, <1>13, <1>14, <1>15

\* The trace is read frame by frame, the crashing thread's and no other.
LEMMA TraceIsRead ==
    ASSUME NEW r \in Records, Traced(r)
    PROVE  parse_journal_stack_trace(Message(r)) = [i \in 1..Len(r.stack) |-> parse_frame(Line(r, r.stack[i]))]
<1> DEFINE message == Message(r)
<1>1. PICK n \in Nat \ {0}, k \in Nat :
             /\ Len(r.stack) = n /\ DOMAIN message = 1..(2 + n + k) /\ Len(message) = 2 + n + k
             /\ message[1].kind = "text" /\ message[2].kind = "header"
             /\ \A i \in 1..n : message[i + 2] = Line(r, r.stack[i])
             /\ k # 0 => message[n + 3].kind = "blank"
  BY MessageIs
<1> HIDE DEF message
<1>2. \A f : Line(r, f).kind = "frame"
  BY DEF Line
<1>3. \A i \in 3..(2 + n) : message[i].kind = "frame"
  <2>1. ASSUME NEW i \in 3..(2 + n) PROVE message[i].kind = "frame"
    <3>1. PICK j \in 1..n : i = j + 2
      <4>1. i - 2 \in 1..n /\ i = (i - 2) + 2
        OBVIOUS
      <4> QED  BY <4>1
    <3>2. message[i] = Line(r, r.stack[j])
      BY <1>1, <3>1
    <3> QED  BY <1>2, <3>2
  <2> QED  BY <2>1
<1> DEFINE headers == {i \in DOMAIN message : message[i].kind = "header"}
           ends == {i \in DOMAIN message : i > 2 /\ EndsBlock(message[i])}
           block == SubSeq(message, 3, n + 2)
<1>4. First(headers) = 2 /\ headers # {}
  <2>1. 2 \in headers /\ 1 \notin headers /\ headers \in SUBSET Nat
    BY <1>1
  <2>2. \A j \in headers : 2 <= j
    BY <1>1, <2>1
  <2> HIDE DEF headers
  <2> QED  BY <2>1, <2>2, FirstIs
<1>5. (IF ends = {} THEN Len(message) ELSE First(ends) - 1) = n + 2
  <2>1. \A i \in ends : i \in Nat /\ n + 3 <= i /\ i <= 2 + n + k
    <3>1. \A i \in ends : i \in 1..(2 + n + k) /\ i > 2 /\ message[i].kind \in {"header", "blank", "text"}
      BY <1>1 DEF EndsBlock
    <3>2. \A i \in ends : i \notin 3..(2 + n)
      BY <1>3, <3>1
    <3> HIDE DEF ends
    <3> QED  BY <3>1, <3>2
  <2>2. CASE k = 0
    <3>1. ends = {}
      BY <2>1, <2>2
    <3> QED  BY <1>1, <2>2, <3>1
  <2>3. CASE k # 0
    <3>1. n + 3 \in ends
      BY <1>1, <2>3 DEF EndsBlock
    <3>2. ends \in SUBSET Nat
      BY <2>1
    <3> HIDE DEF ends
    <3>3. First(ends) = n + 3
      BY <2>1, <3>1, <3>2, FirstIs
    <3>4. (n + 3) - 1 = n + 2
      OBVIOUS
    <3> QED  BY <3>1, <3>3, <3>4
  <2> QED  BY <2>2, <2>3
<1>6. parse_journal_stack_trace(message) = FramesIn(block)
  <2>1. 2 + 1 = 3
    OBVIOUS
  <2> QED  BY <1>4, <1>5, <2>1 DEF parse_journal_stack_trace
<1>7. Len(block) = n /\ \A i \in 1..n : block[i] = Line(r, r.stack[i])
  <2> DEFINE S == {message[i] : i \in 3..(n + 2)}
  <2>1. 3 \in Int /\ n + 2 \in Int /\ 3 <= n + 2 /\ (n + 2) - 3 + 1 = n /\ \A i \in 3..(n + 2) : message[i] \in S
    OBVIOUS
  <2> HIDE DEF S
  <2>2. /\ Len(block) = IF 3 <= n + 2 THEN (n + 2) - 3 + 1 ELSE 0
        /\ \A i \in 1..((n + 2) - 3 + 1) : block[i] = message[3 + i - 1]
    BY <2>1, SubSeqProperties
  <2>3. \A i \in 1..n : 3 + i - 1 = i + 2
    OBVIOUS
  <2> QED  BY <1>1, <2>1, <2>2, <2>3
<1> HIDE DEF block
<1>8. FramesIn(block) = [i \in 1..n |-> parse_frame(block[i])]
  BY <1>2, <1>7, FramesOfLines DEF IsFrame
<1>9. [i \in 1..n |-> parse_frame(block[i])] = [i \in 1..n |-> parse_frame(Line(r, r.stack[i]))]
  BY <1>7
<1> QED  BY <1>1, <1>6, <1>8, <1>9 DEF message

-----------------------------------------------------------------------------
(* Which crashes have one signature *)

\* What a frame of the stack contributes to the hash.
Norm(r, f) ==
    IF f.function # None
    THEN [name |-> Lower[f.function], offset |-> NoOffset]
    ELSE [name |-> Lower[ModuleOf(LocationOf(r, f))],
          offset |-> IF PlusInPath(LocationOf(r, f)) THEN NoOffset ELSE f.offset]

LEMMA NormalizedIs ==
    ASSUME NEW r, NEW f \in StackFrame
    PROVE  normalized(parse_frame(Line(r, f))) = Norm(r, f)
<1> DEFINE line == Line(r, f)
           frame == parse_frame(line)
           place == LocationOf(r, f)
<1>1. f.function # NotApplicable
  BY DEF StackFrame
<1>2. /\ line.symbol = IF f.function = None THEN [name |-> NotApplicable, shift |-> 0]
                       ELSE [name |-> f.function, shift |-> f.shift]
      /\ line.location = place
  BY DEF Line
<1>3. place.name = f.module /\ place.offset = f.offset
  BY DEF LocationOf
<1>4. ModuleOf(place) # None
  <2>1. Stem[f.module] # None
    BY NameAssumption DEF StackFrame
  <2> QED  BY <1>3, <2>1 DEF ModuleOf
<1> HIDE DEF line, place
<1>5. /\ frame.module = ModuleOf(place)
      /\ frame.module_offset = IF PlusInPath(place) THEN NoOffset ELSE f.offset
      /\ frame.function = IF line.symbol.name \in {None, NotApplicable} /\ line.symbol.shift = 0
                          THEN NoSymbol ELSE line.symbol
  BY <1>2, <1>3 DEF parse_frame, FrameOf
<1> HIDE DEF frame
<1>6. CASE f.function = None
  <2>1. frame.function.name = None
    BY <1>2, <1>5, <1>6 DEF NoSymbol
  <2> QED  BY <1>4, <1>5, <1>6, <2>1 DEF normalized, Norm, frame, line, place
<1>7. CASE f.function # None
  <2>1. frame.function.name = f.function /\ f.function \notin {None, NotApplicable}
    BY <1>1, <1>2, <1>5, <1>7
  <2> QED  BY <1>7, <2>1 DEF normalized, Norm, frame, line
<1> QED  BY <1>6, <1>7

LEMMA StackIs ==
    ASSUME NEW r \in Records, Traced(r)
    PROVE  \E n \in Nat \ {0} :
             /\ r.stack \in Seq(StackFrame) /\ Len(r.stack) = n /\ DOMAIN r.stack = 1..n
             /\ \A i \in 1..n : r.stack[i] \in StackFrame
<1>1. r.stack \in Seq(StackFrame)
  BY RecordAssumption
<1>2. r.stack # <<>>
  BY Zenon DEF Traced, Message
<1>3. PICK n \in Nat \ {0} : Len(r.stack) = n /\ DOMAIN r.stack = 1..n
  BY <1>1, <1>2, EmptySeq, LenProperties
<1> QED  BY <1>1, <1>3, ElementOfSeq

\* A frame is passed over exactly if its function is one of the machinery's.
LEMMA NoiseIs ==
    ASSUME NEW r \in Records, Traced(r), ~LooksLikeNoise(r), NEW i \in DOMAIN r.stack
    PROVE  is_noise(Norm(r, r.stack[i])) <=> r.stack[i].function \in Machinery
<1> DEFINE f == r.stack[i]
<1>1. f.function \notin Machinery =>
        /\ Lower[f.function] \notin NoisePrefixed
        /\ f.function = None => Lower[ModuleOf(LocationOf(r, f))] \notin NoisePrefixed
  BY DEF LooksLikeNoise
<1>2. f.function \in Machinery => f.function # None /\ Lower[f.function] \in NoisePrefixed
  BY CollectionAssumption
<1> HIDE DEF f
<1>3. is_noise(Norm(r, f)) <=> f.function \in Machinery
  <2>1. CASE f.function # None
    <3>1. Norm(r, f).name = Lower[f.function]
      BY <2>1 DEF Norm
    <3> QED  BY <1>1, <1>2, <3>1 DEF is_noise
  <2>2. CASE f.function = None
    <3>1. Norm(r, f).name = Lower[ModuleOf(LocationOf(r, f))]
      BY <2>2 DEF Norm
    <3> QED  BY <1>1, <1>2, <2>2, <3>1 DEF is_noise
  <2> QED  BY <2>1, <2>2
<1> QED  BY <1>3 DEF f

\* A stretch of a sequence.
LEMMA StretchIs ==
    ASSUME NEW S, NEW n \in Nat, NEW s, \A i \in 1..n : s[i] \in S,
           NEW a \in 1..n, NEW b \in a..n, NEW m \in Nat, m = b - a + 1
    PROVE  /\ SubSeq(s, a, b) \in Seq(S) /\ Len(SubSeq(s, a, b)) = m
           /\ \A k \in 1..m : a + k - 1 \in 1..n /\ SubSeq(s, a, b)[k] = s[a + k - 1]
<1>1. a \in Int /\ b \in Int /\ a <= b /\ \A i \in a..b : i \in 1..n
  OBVIOUS
<1>2. /\ SubSeq(s, a, b) \in Seq(S)
      /\ Len(SubSeq(s, a, b)) = IF a <= b THEN b - a + 1 ELSE 0
      /\ \A i \in 1..(b - a + 1) : SubSeq(s, a, b)[i] = s[a + i - 1]
  BY <1>1, SubSeqProperties
<1>3. \A k \in 1..m : a + k - 1 \in 1..n
  OBVIOUS
<1> QED  BY <1>1, <1>2, <1>3

\* What is hashed of a trace are its top frames below the machinery.
LEMMA SignificantIs ==
    ASSUME NEW r \in Records, Traced(r), ~LooksLikeNoise(r)
    PROVE  \E m \in Nat \ {0} :
             /\ DOMAIN TopOf(r) = 1..m /\ \A k \in 1..m : TopOf(r)[k] \in StackFrame
             /\ Significant(parse_journal_stack_trace(Message(r))) = [k \in 1..m |-> Norm(r, TopOf(r)[k])]
<1>1. PICK n \in Nat \ {0} :
        /\ r.stack \in Seq(StackFrame) /\ Len(r.stack) = n /\ DOMAIN r.stack = 1..n
        /\ \A i \in 1..n : r.stack[i] \in StackFrame
  BY StackIs
<1> DEFINE frames == [i \in 1..n |-> parse_frame(Line(r, r.stack[i]))]
           names == [i \in DOMAIN frames |-> normalized(frames[i])]
           real == {i \in DOMAIN names : ~is_noise(names[i])}
           below == {i \in DOMAIN r.stack : r.stack[i].function \notin Machinery}
           first == IF below = {} THEN 1 ELSE First(below)
           last == Lesser(first + SIGNIFICANT_FRAMES - 1, n)
           S == {Norm(r, r.stack[i]) : i \in 1..n}
<1>2. parse_journal_stack_trace(Message(r)) = frames
  BY <1>1, TraceIsRead
<1>3. names = [i \in 1..n |-> Norm(r, r.stack[i])]
  <2>1. \A i \in 1..n : normalized(parse_frame(Line(r, r.stack[i]))) = Norm(r, r.stack[i])
    BY <1>1, NormalizedIs
  <2> QED  BY <2>1
<1> HIDE DEF frames
<1>4. real = below
  <2>1. \A i \in 1..n : is_noise(Norm(r, r.stack[i])) <=> r.stack[i].function \in Machinery
    BY <1>1, NoiseIs
  <2>2. DOMAIN names = 1..n /\ \A i \in 1..n : names[i] = Norm(r, r.stack[i])
    BY <1>3
  <2> HIDE DEF names
  <2> QED  BY <1>1, <2>1, <2>2
<1>5. /\ names \in Seq(S) /\ Len(names) = n /\ \A i \in 1..n : names[i] = Norm(r, r.stack[i])
  <2>1. names \in [1..n -> S] /\ \A i \in 1..n : names[i] = Norm(r, r.stack[i])
    BY <1>3
  <2> HIDE DEF names, S
  <2> QED  BY <2>1, SequenceIs
<1>6. first \in 1..n
  <2>1. CASE below = {}
    BY <2>1
  <2>2. CASE below # {}
    <3>1. below \in SUBSET Nat /\ below \subseteq 1..n
      BY <1>1
    <3> HIDE DEF below
    <3> QED  BY <2>2, <3>1, FirstExists
  <2> QED  BY <2>1, <2>2
<1>7. SIGNIFICANT_FRAMES \in Nat \ {0}
  BY SignificantAssumption
<1> HIDE DEF real, below, first, names
<1>8. last \in first..n
  BY <1>6, <1>7 DEF Lesser
<1>9. TopOf(r) = SubSeq(r.stack, first, last)
  BY <1>1 DEF TopOf, first, below
<1>10. Significant(frames) = SubSeq(names, first, last)
  <2>1. (IF real = {} THEN 1 ELSE First(real)) = first
    BY <1>4 DEF first
  <2> QED  BY <1>5, <2>1 DEF Significant, real, names
<1>11. PICK m \in Nat \ {0} : m = last - first + 1
  <2>1. last - first + 1 \in Nat \ {0}
    BY <1>6, <1>8
  <2> QED  BY <2>1
<1> HIDE DEF last
<1>12. /\ TopOf(r) \in Seq(StackFrame) /\ Len(TopOf(r)) = m
       /\ \A k \in 1..m : first + k - 1 \in 1..n /\ TopOf(r)[k] = r.stack[first + k - 1]
  BY <1>1, <1>6, <1>8, <1>9, <1>11, StretchIs
<1>13. /\ Significant(frames) \in Seq(S) /\ Len(Significant(frames)) = m
       /\ \A k \in 1..m : first + k - 1 \in 1..n /\ Significant(frames)[k] = names[first + k - 1]
  <2>1. \A i \in 1..n : names[i] \in S
    BY <1>5
  <2> HIDE DEF S
  <2> QED  BY <2>1, <1>6, <1>8, <1>10, <1>11, StretchIs
<1>14. DOMAIN TopOf(r) = 1..m /\ \A k \in 1..m : TopOf(r)[k] \in StackFrame
  BY <1>12, LenProperties, ElementOfSeq
<1>15. \A k \in 1..m : Significant(frames)[k] = Norm(r, TopOf(r)[k])
  BY <1>5, <1>12, <1>13
<1>16. Significant(frames) = [k \in 1..m |-> Norm(r, TopOf(r)[k])]
  <2>1. DOMAIN Significant(frames) = 1..m /\ Significant(frames) \in [1..m -> S]
    BY <1>13, LenProperties
  <2> HIDE DEF S
  <2> QED  BY <1>15, <2>1
<1> QED  BY <1>2, <1>14, <1>16

\* Two frames are told apart by the hash exactly if they are different code.
LEMMA FramesAreTold ==
    ASSUME NEW r, NEW f \in StackFrame, f.function = None => ~PlusInPath(LocationOf(r, f)),
           NEW q, NEW g \in StackFrame, g.function = None => ~PlusInPath(LocationOf(q, g))
    PROVE  Norm(r, f) = Norm(q, g) <=> Identity(f) = Identity(g)
<1>1. /\ f.module # None /\ g.module # None
      /\ f.offset \in Nat /\ g.offset \in Nat /\ NoOffset \notin Nat
  BY DEF StackFrame, NoOffset
<1>2. ASSUME f.function = None
      PROVE  Norm(r, f) = [name |-> Lower[f.module], offset |-> f.offset]
  <2>1. LocationOf(r, f).name = f.module
    BY DEF LocationOf
  <2>2. ModuleOf(LocationOf(r, f)) = f.module
    BY <1>2, <2>1 DEF ModuleOf, PlusInPath
  <2> QED  BY <1>2, <2>2 DEF Norm
<1>3. ASSUME g.function = None
      PROVE  Norm(q, g) = [name |-> Lower[g.module], offset |-> g.offset]
  <2>1. LocationOf(q, g).name = g.module
    BY DEF LocationOf
  <2>2. ModuleOf(LocationOf(q, g)) = g.module
    BY <1>3, <2>1 DEF ModuleOf, PlusInPath
  <2> QED  BY <1>3, <2>2 DEF Norm
<1>4. /\ f.function # None => Norm(r, f) = [name |-> Lower[f.function], offset |-> NoOffset]
      /\ g.function # None => Norm(q, g) = [name |-> Lower[g.function], offset |-> NoOffset]
  BY DEF Norm
<1>5. CASE f.function # None /\ g.function # None
  BY <1>4, <1>5 DEF Identity
<1>6. CASE f.function = None /\ g.function = None
  BY <1>1, <1>2, <1>3, <1>6 DEF Identity
<1>7. CASE f.function # None /\ g.function = None
  BY <1>1, <1>3, <1>4, <1>7 DEF Identity
<1>8. CASE f.function = None /\ g.function # None
  BY <1>1, <1>2, <1>4, <1>8 DEF Identity
<1> QED  BY <1>5, <1>6, <1>7, <1>8

\* The bug and the event of a crash of version v by an index that says s.
BugOf(r, v) ==
    [executable |-> r.executable, signal |-> r.signal, traced |-> Traced(r),
     frames |-> IF Traced(r) THEN [i \in DOMAIN TopOf(r) |-> Identity(TopOf(r)[i])] ELSE <<>>,
     version |-> IF Traced(r) THEN NoVersion ELSE v]

SignatureOf(r, s) ==
    LET frames == parse_journal_stack_trace(Message(r))
    IN  IF frames = <<>> THEN coarse(r.executable, r.signal, s)
        ELSE from_frames(frames, r.signal, r.executable)

IsEventOf(x, r, v, s) ==
    /\ x.bug = BugOf(r, v) /\ x.signature = SignatureOf(r, s)
    /\ x.noise = LooksLikeNoise(r) /\ x.plus = PlusSign(r)
    /\ ~x.unsure => s = v

\* An installed package has its list and the file of its version, unless it is
\* edited or dpkg is at it.
Installed ==
    /\ dpkg # Idle => content[dpkg.package] \in {status[dpkg.package] + 1, Edited}
    /\ dpkg.step = "info" => dpkg.package \in list
    /\ \A p \in Package : status[p] # NotThere => p \in list
    /\ \A p \in Package :
         dpkg = Idle \/ dpkg.package # p => content[p] \in {status[p], Edited}

\* What is not outdated is what dpkg has.
IndexFresh ==
    /\ pc \in {"lists", "mtime", "status"} /\ ~raced => dpkg = Idle
    /\ pc \in {"mtime", "status"} /\ ~raced => paths = list
    /\ pc = "status" /\ ~raced => built = mtime
    /\ pc \in {"watch", "assemble", "asked", "drop", "verify", "hash"} /\ ~Outdated =>
         paths = list /\ versions = status

FiledKnown ==
    \A x \in filed : \E r \in Records, v \in Held \cup {Edited}, s \in Held : IsEventOf(x, r, v, s)

GroupInv == Installed /\ IndexFresh /\ FiledKnown

\* A crash without a trace has a coarse signature, one with a trace a precise one.
LEMMA CoarseIs ==
    ASSUME NEW r \in Records, ~Traced(r), NEW s
    PROVE  SignatureOf(r, s) = coarse(r.executable, r.signal, s)
<1>1. Message(r) = <<>>
  BY DEF Traced
<1>2. DOMAIN <<>> = {}
  OBVIOUS
<1>3. parse_journal_stack_trace(<<>>) = <<>>
  BY <1>2 DEF parse_journal_stack_trace
<1> QED  BY <1>1, <1>3 DEF SignatureOf

LEMMA PreciseIs ==
    ASSUME NEW r \in Records, Traced(r), ~LooksLikeNoise(r), NEW s
    PROVE  SignatureOf(r, s) =
             [precision |-> "precise", executable |-> r.executable, signal |-> r.signal,
              frames |-> [k \in DOMAIN TopOf(r) |-> Norm(r, TopOf(r)[k])], version |-> NoVersion]
<1> DEFINE frames == parse_journal_stack_trace(Message(r))
           top == [k \in DOMAIN TopOf(r) |-> Norm(r, TopOf(r)[k])]
<1>1. Significant(frames) = top /\ 1 \in DOMAIN top
  BY SignificantIs
<1>2. frames # <<>>
  <2>1. PICK n \in Nat \ {0} : Len(r.stack) = n
    BY StackIs
  <2>2. frames = [i \in 1..n |-> parse_frame(Line(r, r.stack[i]))]
    BY <2>1, TraceIsRead
  <2>3. 1 \in DOMAIN frames
    BY <2>2
  <2> HIDE DEF frames
  <2> QED  BY <2>3
<1> HIDE DEF frames, top
<1>3. top # <<>>
  BY <1>1
<1>4. from_frames(frames, r.signal, r.executable) =
        [precision |-> "precise", executable |-> r.executable, signal |-> r.signal,
         frames |-> top, version |-> NoVersion]
  BY <1>1, <1>3 DEF from_frames
<1> QED  BY <1>2, <1>4 DEF SignatureOf, frames, top

\* The top frames of two crashes are hashed to the same exactly if they are the
\* same code.
LEMMA TopsAreTold ==
    ASSUME NEW r \in Records, Traced(r), ~LooksLikeNoise(r), ~PlusSign(r),
           NEW q \in Records, Traced(q), ~LooksLikeNoise(q), ~PlusSign(q)
    PROVE  [k \in DOMAIN TopOf(r) |-> Norm(r, TopOf(r)[k])] = [k \in DOMAIN TopOf(q) |-> Norm(q, TopOf(q)[k])]
             <=> [k \in DOMAIN TopOf(r) |-> Identity(TopOf(r)[k])] = [k \in DOMAIN TopOf(q) |-> Identity(TopOf(q)[k])]
<1> DEFINE D == DOMAIN TopOf(r)
           E == DOMAIN TopOf(q)
<1>1. \A k \in D : TopOf(r)[k] \in StackFrame /\ (TopOf(r)[k].function = None => ~PlusInPath(LocationOf(r, TopOf(r)[k])))
  <2>1. \A k \in D : TopOf(r)[k] \in StackFrame
    BY SignificantIs
  <2> QED  BY <2>1 DEF PlusSign
<1>2. \A k \in E : TopOf(q)[k] \in StackFrame /\ (TopOf(q)[k].function = None => ~PlusInPath(LocationOf(q, TopOf(q)[k])))
  <2>1. \A k \in E : TopOf(q)[k] \in StackFrame
    BY SignificantIs
  <2> QED  BY <2>1 DEF PlusSign
<1>3. \A k \in D \cap E :
        Norm(r, TopOf(r)[k]) = Norm(q, TopOf(q)[k]) <=> Identity(TopOf(r)[k]) = Identity(TopOf(q)[k])
  BY <1>1, <1>2, FramesAreTold
<1> QED  BY <1>3

LEMMA EventsAreTold ==
    ASSUME NEW x, NEW r \in Records, NEW v, NEW s, IsEventOf(x, r, v, s),
           NEW y, NEW q \in Records, NEW w, NEW t, IsEventOf(y, q, w, t),
           ~x.noise, ~y.noise, ~x.plus, ~y.plus, x.bug.traced \/ (~x.unsure /\ ~y.unsure)
    PROVE  x.bug = y.bug <=> x.signature = y.signature
<1>1. /\ x.bug = BugOf(r, v) /\ x.signature = SignatureOf(r, s) /\ ~LooksLikeNoise(r) /\ ~PlusSign(r)
      /\ y.bug = BugOf(q, w) /\ y.signature = SignatureOf(q, t) /\ ~LooksLikeNoise(q) /\ ~PlusSign(q)
  BY DEF IsEventOf
<1>2. x.bug.traced = Traced(r) /\ y.bug.traced = Traced(q)
  BY <1>1 DEF BugOf
<1>3. CASE Traced(r) /\ Traced(q)
  <2> DEFINE F == [k \in DOMAIN TopOf(r) |-> Norm(r, TopOf(r)[k])]
             G == [k \in DOMAIN TopOf(q) |-> Norm(q, TopOf(q)[k])]
             I == [k \in DOMAIN TopOf(r) |-> Identity(TopOf(r)[k])]
             J == [k \in DOMAIN TopOf(q) |-> Identity(TopOf(q)[k])]
  <2>1. F = G <=> I = J
    BY <1>1, <1>3, TopsAreTold
  <2>2. /\ x.signature = [precision |-> "precise", executable |-> r.executable, signal |-> r.signal,
                          frames |-> F, version |-> NoVersion]
        /\ y.signature = [precision |-> "precise", executable |-> q.executable, signal |-> q.signal,
                          frames |-> G, version |-> NoVersion]
    BY <1>1, <1>3, PreciseIs
  <2>3. /\ x.bug = [executable |-> r.executable, signal |-> r.signal, traced |-> Traced(r), frames |-> I, version |-> NoVersion]
        /\ y.bug = [executable |-> q.executable, signal |-> q.signal, traced |-> Traced(q), frames |-> J, version |-> NoVersion]
    BY <1>1, <1>3 DEF BugOf
  <2> HIDE DEF F, G, I, J
  <2>4. Traced(r) = Traced(q)
    BY <1>3 DEF Traced
  <2> QED  BY <2>1, <2>2, <2>3, <2>4
<1>4. CASE Traced(r) /\ ~Traced(q)
  <2>1. x.signature.precision = "precise" /\ y.signature.precision = "coarse"
    BY <1>1, <1>4, PreciseIs, CoarseIs DEF coarse
  <2>2. x.bug.traced # y.bug.traced
    BY <1>2, <1>4
  <2> QED  BY <2>1, <2>2
<1>5. CASE ~Traced(r) /\ Traced(q)
  <2>1. y.signature.precision = "precise" /\ x.signature.precision = "coarse"
    BY <1>1, <1>5, PreciseIs, CoarseIs DEF coarse
  <2>2. x.bug.traced # y.bug.traced
    BY <1>2, <1>5
  <2> QED  BY <2>1, <2>2
<1>6. CASE ~Traced(r) /\ ~Traced(q)
  <2>1. s = v /\ t = w
    BY <1>2, <1>6 DEF IsEventOf
  <2>2. /\ x.signature = coarse(r.executable, r.signal, v)
        /\ y.signature = coarse(q.executable, q.signal, w)
    BY <1>1, <1>6, <2>1, CoarseIs
  <2>3. /\ x.bug = [executable |-> r.executable, signal |-> r.signal, traced |-> Traced(r), frames |-> <<>>, version |-> v]
        /\ y.bug = [executable |-> q.executable, signal |-> q.signal, traced |-> Traced(q), frames |-> <<>>, version |-> w]
    BY <1>1, <1>6 DEF BugOf
  <2>4. Traced(r) = Traced(q)
    BY <1>6 DEF Traced
  <2> QED  BY <2>2, <2>3, <2>4 DEF coarse
<1> QED  BY <1>3, <1>4, <1>5, <1>6

-----------------------------------------------------------------------------
(* What the index says of an installed package *)

LEMMA InstallingKeepsInstalled ==
    ASSUME DiskInv, Installed, NEW p \in Package, Unpack(p)
    PROVE  Installed'
<1> USE DEF Unpack, DiskInv
<1>1. dpkg' # Idle /\ dpkg'.step = "unpacked" /\ dpkg'.package = p
  BY DEF Idle
<1>2. content'[p] = status[p] + 1 /\ \A q \in Package : q # p => content'[q] = content[q]
  BY DEF IndexTypeOK
<1>3. \A q \in Package : content[q] \in {status[q], Edited}
  BY DEF Installed
<1>4. \A q \in Package : status[q] # NotThere => q \in list
  BY DEF Installed
<1> HIDE DEF DiskInv
<1> QED  BY <1>1, <1>2, <1>3, <1>4 DEF Installed

LEMMA ListingKeepsInstalled ==
    ASSUME DiskInv, Installed, WriteInfo
    PROVE  Installed'
<1> USE DEF WriteInfo
<1> DEFINE p == dpkg.package
<1>1. dpkg # Idle /\ p \in Package /\ dpkg = [step |-> dpkg.step, package |-> p]
  BY DpkgIs DEF DiskInv
<1>2. dpkg' = [step |-> "info", package |-> p]
  BY <1>1
<1>3. dpkg'.package = p /\ dpkg' # Idle /\ p \in list' /\ list \subseteq list'
  BY <1>2 DEF Idle
<1>4. content[p] \in {status[p] + 1, Edited}
  BY <1>1 DEF Installed
<1>5. \A q \in Package : q # p => content[q] \in {status[q], Edited}
  BY <1>1 DEF Installed
<1>6. \A q \in Package : status[q] # NotThere => q \in list
  BY DEF Installed
<1>7. content' = content /\ status' = status
  OBVIOUS
<1> HIDE DEF WriteInfo
<1> QED  BY <1>3, <1>4, <1>5, <1>6, <1>7 DEF Installed

LEMMA RecordingKeepsInstalled ==
    ASSUME DiskInv, Installed, WriteStatus
    PROVE  Installed'
<1> USE DEF WriteStatus
<1> DEFINE p == dpkg.package
<1>1. dpkg # Idle /\ p \in Package
  BY DpkgIs DEF DiskInv
<1>2. status \in [Package -> Held]
  BY DEF DiskInv, IndexTypeOK
<1>3. status'[p] = status[p] + 1 /\ \A q \in Package : q # p => status'[q] = status[q]
  BY <1>1, <1>2
<1>4. p \in list /\ content[p] \in {status[p] + 1, Edited}
  BY <1>1 DEF Installed
<1>5. \A q \in Package : q # p => content[q] \in {status[q], Edited}
  BY <1>1 DEF Installed
<1>6. \A q \in Package : status[q] # NotThere => q \in list
  BY DEF Installed
<1>7. dpkg' = Idle /\ dpkg'.step # "info" /\ content' = content /\ list' = list
  BY DEF Idle
<1> HIDE DEF WriteStatus
<1> QED  BY <1>3, <1>4, <1>5, <1>6, <1>7 DEF Installed

LEMMA EditingKeepsInstalled ==
    ASSUME DiskInv, Installed, NEW p \in Package, Edit(p)
    PROVE  Installed'
<1>1. UNCHANGED <<list, status, dpkg>>
  BY DEF Edit
<1>2. content'[p] = Edited /\ \A q \in Package : q # p => content'[q] = content[q]
  BY DEF Edit, DiskInv, IndexTypeOK
<1>3. dpkg # Idle => dpkg.package \in Package
  BY DpkgIs DEF DiskInv
<1> QED  BY <1>1, <1>2, <1>3 DEF Installed

\* A step of dpkg makes what was read of it old, or is seen to do so.
LEMMA DpkgKeepsFresh ==
    ASSUME DiskInv, IndexFresh, Dpkg
    PROVE  IndexFresh'
<1>1. CASE \E p \in Package : Unpack(p)
  <2>1. dpkg' # Idle /\ UNCHANGED <<pc, paths, built, versions>>
        /\ raced' = (raced \/ pc \in {"lists", "mtime", "status"})
    BY <1>1 DEF Unpack, Noted, Idle
  <2>2. Outdated'
    BY <2>1 DEF Outdated
  <2> QED  BY <2>1, <2>2 DEF IndexFresh
<1>2. CASE WriteInfo
  <2>1. dpkg' # Idle
    BY <1>2, DpkgIs DEF WriteInfo, DiskInv, Idle
  <2>2. UNCHANGED <<pc, paths, built, versions>>
        /\ raced' = (raced \/ pc \in {"lists", "mtime", "status"})
    BY <1>2 DEF WriteInfo, Noted
  <2>3. Outdated'
    BY <2>1 DEF Outdated
  <2> QED  BY <2>2, <2>3 DEF IndexFresh
<1>3. CASE WriteStatus
  <2>1. /\ UNCHANGED <<pc, paths, built, versions>>
        /\ raced' = (raced \/ pc \in {"lists", "mtime", "status"})
    BY <1>3 DEF WriteStatus, Noted
  <2>2. mtime' # built'
    BY <1>3, <2>1 DEF WriteStatus, DiskInv, IndexTypeOK
  <2>3. Outdated'
    BY <2>2 DEF Outdated, is_stale
  <2> QED  BY <2>1, <2>3 DEF IndexFresh
<1>4. CASE \E p \in Package : Edit(p)
  <2>1. UNCHANGED <<list, status, mtime, dpkg, pc, paths, built, versions, raced>>
    BY <1>4 DEF Edit, index
  <2>2. Outdated' <=> Outdated
    BY <2>1 DEF Outdated, is_stale
  <2> QED  BY <2>1, <2>2 DEF IndexFresh
<1> QED  BY <1>1, <1>2, <1>3, <1>4 DEF Dpkg

LEMMA ReadingKeepsFresh ==
    ASSUME DiskInv, IndexFresh, ReadIndex
    PROVE  IndexFresh'
<1>1. UNCHANGED <<list, status, mtime, dpkg>>
  BY DEF ReadIndex, Start, ReadLists, ReadMtime, ReadStatus, disk
<1>2. CASE Start
  <2>1. pc' = "lists" /\ raced' = (dpkg # Idle)
    BY <1>2 DEF Start
  <2>2. ~raced' => dpkg' = Idle
    BY <1>1, <2>1, Zenon
  <2> QED  BY <2>1, <2>2 DEF IndexFresh
<1>3. CASE ReadLists
  <2>1. pc = "lists" /\ pc' = "mtime" /\ paths' = list /\ raced' = raced
    BY <1>3 DEF ReadLists
  <2> QED  BY <1>1, <2>1 DEF IndexFresh
<1>4. CASE ReadMtime
  <2>1. pc = "mtime" /\ pc' = "status" /\ built' = mtime /\ raced' = raced /\ paths' = paths
    BY <1>4 DEF ReadMtime
  <2> QED  BY <1>1, <2>1 DEF IndexFresh
<1>5. CASE ReadStatus
  <2>1. pc = "status" /\ pc' = "watch" /\ versions' = status /\ raced' = raced /\ paths' = paths
    BY <1>5 DEF ReadStatus
  <2>2. raced' => Outdated'
    BY DEF Outdated
  <2> QED  BY <1>1, <2>1, <2>2 DEF IndexFresh
<1> QED  BY <1>2, <1>3, <1>4, <1>5 DEF ReadIndex

\* Nothing else the daemon does changes what it has read.
LEMMA WorkingKeepsFresh ==
    ASSUME Installed, IndexFresh, UNCHANGED <<disk, dpkg, index>>,
           pc' = pc \/ (pc \in Working \cup {"watch"} /\ pc' \in Working \cup {"watch"}) \/ pc' = "down"
    PROVE  Installed' /\ IndexFresh'
<1>1. UNCHANGED <<content, list, status, mtime, dpkg, paths, built, versions, raced>>
  BY DEF disk, index
<1>2. Outdated' <=> Outdated
  BY <1>1 DEF Outdated, is_stale
<1>3. Installed'
  BY <1>1 DEF Installed
<1> QED  BY <1>1, <1>2, <1>3 DEF IndexFresh, Working

\* The event of a crash tells the version that crashed, if the index can.
LEMMA CollectKeepsKnown ==
    ASSUME DiskInv, Installed, IndexFresh, FiledKnown, NEW r \in Records, Collect(r)
    PROVE  FiledKnown'
<1> DEFINE x == r.executable
           v == VersionOf(x)
           s == Says(x)
           e == [bug |-> Bug(r), signature |-> Signature(r),
                 noise |-> LooksLikeNoise(r), plus |-> PlusSign(r), unsure |-> Unsure(r)]
<1>1. /\ pc = "watch" /\ filed' = filed \cup {e}
      /\ x \in Local \/ (x \in Package /\ content[x] # NotThere)
  BY RecordIs DEF Collect
<1>2. s \in Held /\ v \in Held \cup {Edited}
  <2>1. content \in [Package -> Held \cup {Edited}] /\ versions \in [Package -> Held] /\ paths \subseteq Package
    BY DEF DiskInv, IndexTypeOK
  <2>2. NoVersion \in Held /\ NotThere \in Held
    BY DEF Held, NoVersion, NotThere
  <2> QED  BY <1>1, <2>1, <2>2 DEF Says, Owned, VersionOf
<1>3. ~Unsure(r) => s = v
  <2>1. CASE x \in Local
    <3>1. x \notin paths
      BY <2>1, CollectionAssumption DEF DiskInv, IndexTypeOK
    <3> QED  BY <2>1, <3>1 DEF Says, Owned, VersionOf, NoVersion, NotThere
  <2>2. CASE x \in Package
    <3> SUFFICES ASSUME ~Outdated, content[x] # Edited PROVE s = v
      BY <2>2 DEF Unsure
    <3>1. dpkg = Idle /\ paths = list /\ versions = status
      BY <1>1 DEF Outdated, IndexFresh
    <3>2. x \notin Local /\ content[x] # NotThere
      BY <1>1, <2>2, CollectionAssumption
    <3>3. content[x] = status[x]
      BY <2>2, <3>1 DEF Installed
    <3>4. x \in list
      BY <2>2, <3>2, <3>3 DEF Installed
    <3> QED  BY <3>1, <3>2, <3>3, <3>4 DEF Says, Owned, VersionOf
  <2> QED  BY <1>1, <2>1, <2>2
<1>4. Bug(r) = BugOf(r, v) /\ Signature(r) = SignatureOf(r, s)
  BY DEF Bug, BugOf, Signature, SignatureOf
<1>5. IsEventOf(e, r, v, s)
  BY <1>3, <1>4 DEF IsEventOf
<1> HIDE DEF v, s, e
<1>6. \E q \in Records, w \in Held \cup {Edited}, t \in Held : IsEventOf(e, q, w, t)
  BY <1>2, <1>5
<1> QED  BY <1>1, <1>6 DEF FiledKnown

\* Whatever dpkg does, a crash is filed as what is known of it.
THEOREM GroupInductive == Spec => []GroupInv
<1>1. Init => GroupInv
  BY DEF Init, IndexInit, GroupInv, Installed, IndexFresh, FiledKnown, Idle
<1>2. IInv /\ GroupInv /\ [Next]_vars => GroupInv'
  <2> SUFFICES ASSUME IInv, GroupInv, [Next]_vars PROVE GroupInv'
    OBVIOUS
  <2> USE DEF GroupInv, IInv
  <2>1. filed' = filed => FiledKnown'
    BY DEF FiledKnown
  <2>2. CASE Dpkg /\ UNCHANGED <<stage1, core, stage2, filing>>
    <3>1. Installed'
      BY <2>2, InstallingKeepsInstalled, ListingKeepsInstalled, RecordingKeepsInstalled, EditingKeepsInstalled
         DEF Dpkg
    <3> QED  BY <2>1, <2>2, <3>1, DpkgKeepsFresh DEF filing
  <2>3. CASE ReadIndex /\ UNCHANGED <<stage1, core, stage2, filing>>
    <3>1. UNCHANGED <<content, list, status, dpkg>>
      BY <2>3 DEF ReadIndex, Start, ReadLists, ReadMtime, ReadStatus, disk
    <3>2. Installed'
      BY <3>1 DEF Installed
    <3> QED  BY <2>1, <2>3, <3>2, ReadingKeepsFresh DEF filing
  <2>4. ASSUME NEW r \in Records, Collect(r) PROVE GroupInv'
    <3>1. UNCHANGED <<disk, dpkg, index>> /\ pc = "watch" /\ pc' = "assemble"
      BY <2>4 DEF Collect
    <3> QED  BY <2>4, <3>1, WorkingKeepsFresh, CollectKeepsKnown DEF Working
  <2>5. CASE (\E f \in Package : ReadSums(f)) \/ Vacuum \/ Assemble \/ Refused \/ DropCore \/ Wanted \/ Hash \/ Write \/ Stop
    <3>1. /\ UNCHANGED <<disk, dpkg, index, filed>>
          /\ pc' = "down" \/ (pc \in Working /\ pc' \in Working \cup {"watch"})
      BY <2>5 DEF ReadSums, Vacuum, Assemble, Refused, DropCore, Wanted, Hash, Write, Finished, Stop, Forget, filing, Working
    <3> QED  BY <2>1, <3>1, WorkingKeepsFresh
  <2>6. CASE UNCHANGED vars
    <3>1. UNCHANGED <<disk, dpkg, index, filed, pc>>
      BY <2>6 DEF vars, filing, disk, index
    <3> QED  BY <2>1, <3>1, WorkingKeepsFresh
  <2> QED  BY <2>2, <2>3, <2>4, <2>5, <2>6 DEF Next
<1> QED  BY <1>1, <1>2, Inductive, PTL DEF Spec

\* Two crashes have one signature exactly if they have one bug, where the rules
\* do not blur them and, without a trace, the index knows the version that crashed.
THEOREM GroupsAreBugs == Spec => []GroupedByBug
<1>1. GroupInv => GroupedByBug
  <2> SUFFICES ASSUME GroupInv, NEW x \in filed, NEW y \in filed,
                      ~x.noise, ~y.noise, ~x.plus, ~y.plus,
                      x.bug.traced \/ (~x.unsure /\ ~y.unsure)
               PROVE  (x.bug = y.bug) = (x.signature = y.signature)
    BY DEF GroupedByBug
  <2>1. PICK r \in Records, v \in Held \cup {Edited}, s \in Held : IsEventOf(x, r, v, s)
    BY DEF GroupInv, FiledKnown
  <2>2. PICK q \in Records, w \in Held \cup {Edited}, t \in Held : IsEventOf(y, q, w, t)
    BY DEF GroupInv, FiledKnown
  <2>3. x.bug = y.bug <=> x.signature = y.signature
    BY <2>1, <2>2, EventsAreTold
  <2> QED  BY <2>3
<1> QED  BY <1>1, GroupInductive, PTL

=============================================================================
