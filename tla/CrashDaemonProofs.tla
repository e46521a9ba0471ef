-------------------------- MODULE CrashDaemonProofs --------------------------
(***************************************************************************)
(* Proofs about CrashDaemon, for any signatures and programs, any limits,  *)
(* any number of crashes and any number of kills.                          *)
(***************************************************************************)
EXTENDS CrashDaemon, FiniteSetTheorems, SequenceTheorems, WellFoundedInduction, TLAPS

-----------------------------------------------------------------------------
(* The inductive invariant *)

\* The daemon follows the journal; and it is at work on the crash `pos`, which
\* has not been dealt with; and it is done with its work on it.
Underway == pc \in {"ask", "drop", "write_pending", "spool", "spooling", "write_unconfirmed"}
Busy == Underway \/ pc = "save"
Watching == Busy \/ pc = "watch"

\* Crashes this daemon is past, or will be when it has opened the journal.
Done == IF Watching THEN 1..(IF Underway THEN pos - 1 ELSE pos) ELSE 1..disk.cursor

\* Crashes that will not be handled again.
Settled == Past(disk.cursor) \cup Done

\* The cursor on the disk, the one in memory and the entry delivered last.
Positions ==
    /\ disk.cursor <= mem.cursor /\ mem.cursor <= Len(journal)
    /\ Watching => mem.cursor <= pos
    /\ Busy => mem.cursor < pos
    /\ pc = "watch" => mem.cursor \in {NoCursor, pos}
    /\ ~Watching => mem.cursor = disk.cursor /\ pos = 0

\* What each place of the daemon knows of its batch and of its crash.
Stages ==
    /\ pc \notin {"drain", "remove"} => batch = {}
    /\ pc \in {"drain", "remove"} => \A k \in batch : spool[k] # Torn
    /\ pc = "remove" => \A k \in batch : spool[k] \in received
    /\ pc \in {"drop", "write_pending"} => cur \in received
    /\ pc \in {"spool", "spooling", "write_unconfirmed"} => cur \in unsure
    /\ pc = "spooling" => Key(cur) \in DOMAIN spool
    /\ pc = "write_unconfirmed" => EventKept(cur) \/ Key(cur) \in forfeited

\* A spooled event has its own name, and has been sent once without an answer.
SpoolHolds == \A k \in DOMAIN spool :
    spool[k] # Torn => spool[k] \in unsure /\ Key(spool[k]) = k

\* A report has its own name, and front ends may list it; one without a directive,
\* there or on an old list, was not answered.
PendingHolds ==
    /\ \A s \in DOMAIN pending :
         SignatureOf(pending[s].crash) = s /\ pending[s] \in listed
    /\ \A e \in listed : e.awaiting => e.crash \in unsure

\* What the server has counted and the daemon may send again is unsure.
SentOnce == \A c \in received :
    c \in unsure \/ c <= mem.cursor \/ (Busy /\ pc # "ask" /\ c = pos)

\* A crash that will not be handled again has been dealt with.
FatesKnown ==
    /\ \A c \in Done : fate[c] \notin {"unseen", "backlog"}
    /\ \A c \in Settled : Handled(c) => EventKept(c) \/ Key(c) \in forfeited

\* As long as there is no cursor the daemon sees every crash for the first time.
FirstTime == Watching /\ disk.cursor = NoCursor =>
    \A c \in Crashes : c > pos => ~Handled(c)

\* A crash that was shown, and will not be handled again, is shown or a later one
\* is, unless the user has decided on one of its signature.
ShownStays == \A c \in Crashes : fate[c] = "shown" =>
    \E d \in Crashes :
        /\ SignatureOf(d) = SignatureOf(c)
        /\ \/ d \in resolved
           \/ /\ d >= c \/ c \notin Settled
              /\ SignatureOf(d) \in DOMAIN pending /\ pending[SignatureOf(d)].crash = d

\* Crashes of signature s up to n that a count must cover.
Reported(s, n) == {c \in (base + 1)..n : SignatureOf(c) = s /\ Handled(c)}

\* Counts cover what was reported, on the disk and in memory.
CountsCover == \A s \in Signature :
    /\ disk.counts[s] >= Cardinality(Reported(s, disk.cursor))
    /\ Watching => mem.counts[s] >= Cardinality(Reported(s, pos))
    /\ ~Watching => mem.counts[s] >= Cardinality(Reported(s, disk.cursor))
    /\ Underway /\ SignatureOf(cur) = s => mem.counts[s] > Cardinality(Reported(s, pos - 1))

IInv ==
    /\ TypeOK /\ IsFiniteSet(DOMAIN spool)
    /\ Positions /\ Stages /\ SpoolHolds /\ PendingHolds
    /\ SpoolBounded /\ UnsentCrashKeepsItsCore
    /\ SentOnce /\ CountedOnce
    /\ FatesKnown /\ FirstTime /\ ShownStays /\ CountsCover

-----------------------------------------------------------------------------
(* The data *)

\* The journal is a sequence of keys, and its crashes are numbered from 1.
LEMMA Journal ==
    ASSUME TypeOK
    PROVE  /\ Len(journal) \in Nat /\ Crashes = 1..Len(journal)
           /\ \A c \in Crashes : journal[c] \in Keys /\ journal[c].signature \in Signature
           /\ \A c \in Crashes : journal[c].signature \in Nat /\ journal[c].second \in Nat
<1>1. journal \in Seq(Keys)
  BY DEF TypeOK
<1>2. Len(journal) \in Nat /\ DOMAIN journal = 1..Len(journal) /\ journal \in [1..Len(journal) -> Keys]
  BY <1>1, LenProperties
<1>3. \A k \in Keys : k.signature \in Signature /\ k.signature \in Nat /\ k.second \in Nat
  <2> SUFFICES ASSUME NEW k \in Keys PROVE k.signature \in Signature /\ k.signature \in Nat /\ k.second \in Nat
    OBVIOUS
  <2>1. k.signature \in Signature /\ k.second \in 0..MaxSecond
    BY DEF Keys
  <2>2. Signature \subseteq Nat /\ 0..MaxSecond \subseteq Nat
    BY SignatureAssumption, BoundAssumption
  <2> QED  BY <2>1, <2>2, Zenon
<1> QED  BY <1>2, <1>3 DEF Crashes

\* Cursors and positions are natural numbers.
LEMMA Cursors ==
    ASSUME TypeOK
    PROVE  /\ disk.cursor \in 0..MaxCrashes /\ disk.recent \in [Executable -> Nat]
           /\ disk.counts \in [Signature -> Nat]
           /\ mem.cursor \in 0..MaxCrashes /\ mem.recent \in [Executable -> Nat]
           /\ mem.counts \in [Signature -> Nat]
           /\ disk.cursor \in Nat /\ mem.cursor \in Nat /\ pos \in Nat /\ base \in Nat
  BY BoundAssumption, Journal DEF TypeOK, States

\* The crash at work is in the journal and behind both cursors.
LEMMA Working ==
    ASSUME IInv
    PROVE  /\ Busy => pos \in Crashes /\ pos > mem.cursor /\ pos > disk.cursor
           /\ pos \in 0..Len(journal) /\ disk.cursor <= mem.cursor /\ mem.cursor <= Len(journal)
<1>1. TypeOK /\ Positions
  BY DEF IInv
<1>2. pos \in 0..Len(journal)
  BY <1>1 DEF TypeOK
<1> QED  BY <1>1, <1>2, Journal, Cursors DEF Positions

\* What counting the events `sent` does to the copies.
LEMMA CountedIs ==
    ASSUME TypeOK, NEW sent, journal' = journal, copies' = Counted(sent)
    PROVE  /\ copies' \in [Crashes -> 0..2]
           /\ received \subseteq received' /\ received' \subseteq received \cup sent
           /\ \A c \in Crashes : c \in sent => c \in received'
           /\ \A c \in Crashes : copies'[c] = 2 => copies[c] = 2 \/ (c \in sent /\ c \in received)
<1>1. copies \in [Crashes -> 0..2]
  BY DEF TypeOK
<1>2. copies' = [c \in Crashes |-> IF c \in sent /\ copies[c] < 2 THEN copies[c] + 1 ELSE copies[c]]
  BY DEF Counted
<1>3. copies' \in [Crashes -> 0..2]
  BY <1>1, <1>2
<1>4. \A c \in Crashes : copies'[c] = IF c \in sent /\ copies[c] < 2 THEN copies[c] + 1 ELSE copies[c]
  BY <1>2
<1>5. \A c \in Crashes : (copies'[c] > 0) <=> (copies[c] > 0 \/ c \in sent)
  BY <1>1, <1>4
<1>6. Crashes' = Crashes
  BY DEF Crashes
<1>7. received = {c \in Crashes : copies[c] > 0} /\ received' = {c \in Crashes : copies'[c] > 0}
  BY <1>6 DEF received
<1>8. \A c \in Crashes : copies'[c] = 2 => copies[c] = 2 \/ (c \in sent /\ copies[c] > 0)
  BY <1>1, <1>4
<1> QED  BY <1>3, <1>5, <1>7, <1>8

\* A history of the crashes is a sequence, and appending to it adds one value.
LEMMA Appended ==
    ASSUME NEW S, NEW f \in Seq(S), NEW x \in S
    PROVE  /\ Append(f, x) \in [1..(Len(f) + 1) -> S]
           /\ \A c \in 1..Len(f) : Append(f, x)[c] = f[c]
           /\ Append(f, x)[Len(f) + 1] = x
<1>1. /\ Append(f, x) \in Seq(S) /\ Len(Append(f, x)) = Len(f) + 1
      /\ \A c \in 1..Len(f) : Append(f, x)[c] = f[c]
      /\ Append(f, x)[Len(f) + 1] = x
  BY AppendProperties
<1>2. Append(f, x) \in [1..Len(Append(f, x)) -> S]
  BY <1>1, LenProperties
<1> QED  BY <1>1, <1>2

\* A set of natural numbers that is not empty has a least element.
LEMMA Least ==
    ASSUME NEW T \in SUBSET Nat, T # {}
    PROVE  \E x \in T : \A y \in T : x <= y
<1> DEFINE R == {p \in Nat \X Nat : p[1] < p[2]}
<1>1. IsWellFoundedOn(R, Nat)
  BY NatLessThanWellFounded DEF OpToRel
<1>2. \A x, y \in Nat : <<y, x>> \notin R => x <= y
  OBVIOUS
<1> HIDE DEF R
<1>3. PICK x \in T : \A y \in T : ~(<<y, x>> \in R)
  BY <1>1, WFMin
<1>4. \A y \in T : x <= y
  BY <1>2, <1>3
<1> QED  BY <1>4

\* The oldest file of a spool that has one is among those that are trimmed.
LEMMA OldestExists ==
    ASSUME TypeOK, DOMAIN spool # {}
    PROVE  \E k \in DOMAIN spool : k \in Oldest(1)
<1>1. /\ DOMAIN spool \subseteq Keys
      /\ \A k \in Keys : k.second \in Nat /\ k.signature \in Nat
  BY SignatureAssumption, BoundAssumption DEF TypeOK, Keys
<1> DEFINE seconds == {k.second : k \in DOMAIN spool}
<1>2. PICK t \in seconds : \A u \in seconds : t <= u
  <2>1. seconds \subseteq Nat /\ seconds # {}
    BY <1>1
  <2> QED  BY <2>1, Least
<1> DEFINE first == {k \in DOMAIN spool : k.second = t}
           signatures == {k.signature : k \in first}
<1>3. PICK s \in signatures : \A u \in signatures : s <= u
  <2>1. signatures \subseteq Nat /\ signatures # {}
    BY <1>1
  <2> QED  BY <2>1, Least
<1>4. PICK k \in first : k.signature = s
  OBVIOUS
<1>5. \A j \in DOMAIN spool : j.second >= t /\ (j.second = t => j.signature >= s)
  BY <1>2, <1>3
<1>6. \A j \in DOMAIN spool : ~Before(j, k)
  BY <1>1, <1>4, <1>5 DEF Before
<1>7. {j \in DOMAIN spool : Before(j, k)} = {}
  BY <1>6
<1>8. Cardinality({j \in DOMAIN spool : Before(j, k)}) < 1
  BY <1>7, FS_EmptySet
<1>9. k \in Oldest(1)
  BY <1>4, <1>8 DEF Oldest
<1> QED  BY <1>4, <1>9

-----------------------------------------------------------------------------
LEMMA Initially == Init => IInv
<1> SUFFICES ASSUME Init PROVE IInv
  OBVIOUS
<1>1. journal = <<>> /\ Len(journal) = 0 /\ Crashes = {} /\ journal \in Seq(Keys)
  BY DEF Init, Crashes
<1>2. Fresh \in States /\ Fresh.cursor = NoCursor
  BY BoundAssumption DEF States, Fresh, NoCursor
<1>3. DOMAIN pending = {} /\ DOMAIN spool = {} /\ DOMAIN fate = {} /\ DOMAIN copies = {}
  BY DEF Init
<1>4. TypeOK
  <2>1. fate \in [Crashes -> Fate] /\ copies \in [Crashes -> 0..2]
    BY <1>1 DEF Init
  <2>2. pending \in [DOMAIN pending -> PendingReports] /\ spool \in [DOMAIN spool -> Crashes \cup {Torn}]
    BY <1>1 DEF Init
  <2>3. Len(journal) <= MaxCrashes /\ starts \in 0..MaxStarts /\ pos \in 0..Len(journal) /\ base \in 0..Len(journal)
    BY <1>1, BoundAssumption DEF Init
  <2>4. /\ core = {} /\ resolved = {} /\ unsure = {} /\ declined = {} /\ forfeited = {} /\ batch = {}
        /\ disk = Fresh /\ mem = Fresh /\ pc = "down" /\ listed = {} /\ offered = FALSE
    BY DEF Init
  <2> QED  BY <1>1, <1>2, <1>3, <2>1, <2>2, <2>3, <2>4 DEF TypeOK
<1>5. /\ ~Watching /\ ~Busy /\ ~Underway /\ pos = 0 /\ disk = mem /\ disk.cursor = 0
  BY <1>2 DEF Init, Watching, Busy, Underway, NoCursor
<1>6. IsFiniteSet(DOMAIN spool) /\ SpoolBounded
  BY <1>3, LimitAssumption, FS_EmptySet DEF SpoolBounded
<1>7. Positions /\ Stages
  BY <1>1, <1>5 DEF Init, Positions, Stages
<1>8. SpoolHolds /\ PendingHolds /\ received = {} /\ CountedOnce /\ UnsentCrashKeepsItsCore
  BY <1>1, <1>3 DEF Init, SpoolHolds, PendingHolds, received, CountedOnce, UnsentCrashKeepsItsCore
<1>9. SentOnce /\ ShownStays /\ FirstTime
  BY <1>1, <1>8 DEF Init, SentOnce, ShownStays, FirstTime
<1>10. Settled = {} /\ Done = {}
  BY <1>1, <1>5 DEF Settled, Done, Past, NoCursor
<1>11. CountsCover
  <2>1. \A s \in Signature : disk.counts[s] = 0 /\ mem.counts[s] = 0
    BY DEF Init, Fresh
  <2>2. \A s : Reported(s, 0) = {}
    BY DEF Init, Reported
  <2>3. Cardinality({}) = 0
    BY FS_EmptySet
  <2> QED  BY <1>5, <2>1, <2>2, <2>3 DEF CountsCover
<1> QED  BY <1>4, <1>6, <1>7, <1>8, <1>9, <1>10, <1>11 DEF IInv, FatesKnown

-----------------------------------------------------------------------------
(* The daemon *)

LEMMA StartStep ==
    ASSUME IInv, Start
    PROVE  IInv'
<1>1. /\ UNCHANGED <<journal, core, pending, listed, resolved, declined, fate, disk, pos, offered, copies, base, unsure>>
      /\ mem' = disk /\ pc = "down" /\ pc' = "drain" /\ starts' \in 0..MaxStarts
      /\ batch' = DOMAIN spool' /\ TypeOK
      /\ forfeited' = forfeited \cup {k \in TornFiles : \E c \in Past(disk.cursor) : Key(c) = k}
  BY BoundAssumption DEF Start, Goto, machine, history, IInv, TypeOK
<1>2. ~Watching /\ ~Watching' /\ ~Busy /\ ~Busy' /\ ~Underway /\ ~Underway'
  BY <1>1 DEF Watching, Busy, Underway
<1>3. /\ DOMAIN spool' = DOMAIN spool \ TornFiles
      /\ \A k \in DOMAIN spool' : spool'[k] = spool[k] /\ spool'[k] # Torn
  BY DEF Start, Remove, TornFiles
<1>4. TypeOK'
  <2>1. spool' \in [DOMAIN spool' -> Crashes \cup {Torn}]
    BY <1>1, <1>3 DEF TypeOK, Start, Remove
  <2>2. forfeited' \subseteq Keys /\ DOMAIN spool' \subseteq Keys
    BY <1>1, <1>3 DEF TypeOK, TornFiles
  <2> QED  BY <1>1, <2>1, <2>2 DEF TypeOK, Crashes, PendingReports
<1>5. IsFiniteSet(DOMAIN spool)' /\ SpoolBounded'
  <2>1. IsFiniteSet(DOMAIN spool) /\ Cardinality(DOMAIN spool) <= MaxSpool
    BY DEF IInv, SpoolBounded
  <2>2. IsFiniteSet(DOMAIN spool') /\ Cardinality(DOMAIN spool') <= Cardinality(DOMAIN spool)
    BY <1>3, <2>1, FS_Subset
  <2>3. Cardinality(DOMAIN spool') \in Nat /\ Cardinality(DOMAIN spool) \in Nat
    BY <2>1, <2>2, FS_CardinalityType
  <2> QED  BY <2>1, <2>2, <2>3, LimitAssumption DEF SpoolBounded
<1>6. Positions' /\ Stages'
  BY <1>1, <1>2, <1>3, Cursors DEF IInv, Positions, Stages
<1>7. SpoolHolds'
  BY <1>1, <1>3 DEF IInv, SpoolHolds, Key
<1>8. PendingHolds' /\ UnsentCrashKeepsItsCore' /\ CountedOnce'
  BY <1>1 DEF IInv, PendingHolds, UnsentCrashKeepsItsCore, CountedOnce,
              SignatureOf, Crashes, received
<1>9. SentOnce' /\ FirstTime'
  BY <1>1, <1>2 DEF IInv, SentOnce, FirstTime, Positions, received, Crashes
<1>10. Done' = Done /\ Settled' = Settled /\ Settled \subseteq Past(disk.cursor)
  BY <1>1, <1>2, Cursors, Journal DEF Done, Settled, Past, Crashes, NoCursor
<1>11. FatesKnown'
  <2>1. ASSUME NEW c \in Settled, Handled(c) PROVE EventKept(c)' \/ (Key(c) \in forfeited)'
    <3>1. CASE Key(c) \in TornFiles
      BY <1>1, <1>10, <3>1 DEF Key
    <3>2. CASE Key(c) \notin TornFiles
      BY <1>1, <1>3, <2>1, <3>2 DEF IInv, FatesKnown, EventKept, Key, received, Crashes
    <3> QED  BY <3>1, <3>2
  <2> QED  BY <1>1, <1>10, <2>1 DEF IInv, FatesKnown, Handled
<1>12. ShownStays'
  BY <1>1, <1>10 DEF IInv, ShownStays, SignatureOf, Crashes
<1>13. CountsCover'
  BY <1>1, <1>2 DEF IInv, CountsCover, Reported, SignatureOf, Handled
<1> QED  BY <1>4, <1>5, <1>6, <1>7, <1>8, <1>9, <1>11, <1>12, <1>13 DEF IInv

LEMMA DrainStep ==
    ASSUME IInv, DrainSpool
    PROVE  IInv'
<1>1. /\ UNCHANGED <<journal, core, pending, listed, resolved, declined, fate, spool, forfeited, disk, starts,
                     mem, pos, offered, base, unsure>>
      /\ pc = "drain" /\ TypeOK
      /\ (pc' = "remove" /\ batch' = batch) \/ (pc' = "open" /\ batch' = {})
  BY DEF DrainSpool, Goto, machine, history, IInv
<1>2. ~Watching /\ ~Watching' /\ ~Busy /\ ~Busy' /\ ~Underway /\ ~Underway'
  BY <1>1 DEF Watching, Busy, Underway
<1>3. PICK sent \in SUBSET {spool[k] : k \in DOMAIN spool} :
         /\ copies' = Counted(sent)
         /\ pc' = "remove" => sent = {spool[k] : k \in batch}
  <2>1. CASE pc' = "remove"
    <3> DEFINE all == {spool[k] : k \in batch}
    <3>1. copies' = Counted(all) /\ all \subseteq {spool[k] : k \in DOMAIN spool}
      BY <2>1 DEF DrainSpool, Goto, IInv, TypeOK
    <3> HIDE DEF all
    <3>2. all \in SUBSET {spool[k] : k \in DOMAIN spool}
      BY <3>1
    <3> QED  BY <3>1, <3>2 DEF all
  <2>2. CASE pc' = "open"
    <3>1. PICK n \in Nat : copies' = Counted({spool[k] : k \in Oldest(n)})
      <4>1. IsFiniteSet(batch)
        BY FS_Subset DEF IInv, TypeOK
      <4>2. Cardinality(batch) \in Nat
        BY <4>1, FS_CardinalityType
      <4>3. PICK n \in 0..Cardinality(batch) : copies' = Counted({spool[k] : k \in Oldest(n)})
        BY <2>2 DEF DrainSpool, Goto
      <4>4. n \in Nat
        BY <4>2
      <4> QED  BY <4>3, <4>4
    <3> DEFINE some == {spool[k] : k \in Oldest(n)}
    <3>2. some \in SUBSET {spool[k] : k \in DOMAIN spool} /\ copies' = Counted(some)
      BY <3>1 DEF Oldest
    <3> HIDE DEF some
    <3> QED  BY <2>2, <3>2
  <2> QED  BY <1>1, <2>1, <2>2
<1>4. \A k \in DOMAIN spool : spool[k] = Torn \/ spool[k] \in unsure
  BY DEF IInv, SpoolHolds
<1>5. Torn \notin Crashes /\ unsure \subseteq Crashes
  BY <1>1, Journal DEF TypeOK, Torn
<1>6. /\ copies' \in [Crashes -> 0..2]
      /\ received \subseteq received' /\ received' \subseteq received \cup unsure
      /\ \A c \in Crashes : c \in sent => c \in received'
      /\ \A c \in Crashes : copies'[c] = 2 => copies[c] = 2 \/ c \in unsure
  <2>1. /\ copies' \in [Crashes -> 0..2]
        /\ received \subseteq received' /\ received' \subseteq received \cup sent
        /\ \A c \in Crashes : c \in sent => c \in received'
        /\ \A c \in Crashes : copies'[c] = 2 => copies[c] = 2 \/ (c \in sent /\ c \in received)
    BY <1>1, <1>3, CountedIs
  <2>2. \A c \in Crashes : c \in sent => c \in unsure
    BY <1>3, <1>4, <1>5
  <2>3. received' \subseteq Crashes
    BY <1>1 DEF received, Crashes
  <2> QED  BY <2>1, <2>2, <2>3
<1>7. TypeOK'
  BY <1>1, <1>6 DEF TypeOK, Crashes, PendingReports
<1>8. IsFiniteSet(DOMAIN spool)' /\ SpoolBounded' /\ SpoolHolds' /\ PendingHolds'
  BY <1>1 DEF IInv, SpoolBounded, SpoolHolds, PendingHolds, Key, SignatureOf
<1>9. Positions' /\ FirstTime'
  BY <1>1, <1>2 DEF IInv, Positions, FirstTime
<1>10. Stages'
  <2>1. ASSUME pc' = "remove", NEW k \in batch PROVE spool[k] \in received'
    <3>1. spool[k] # Torn /\ k \in DOMAIN spool /\ spool[k] \in sent
      BY <1>1, <1>3, <2>1 DEF IInv, Stages, TypeOK
    <3>2. spool[k] \in Crashes
      BY <1>4, <1>5, <3>1
    <3> QED  BY <1>6, <3>1, <3>2
  <2>2. \A k \in batch : spool[k] # Torn
    BY <1>1 DEF IInv, Stages
  <2> QED  BY <1>1, <2>1, <2>2 DEF Stages
<1>11. UnsentCrashKeepsItsCore' /\ CountedOnce'
  BY <1>1, <1>6 DEF IInv, UnsentCrashKeepsItsCore, CountedOnce, Crashes
<1>12. SentOnce'
  BY <1>1, <1>2, <1>6 DEF IInv, SentOnce
<1>13. Done' = Done /\ Settled' = Settled
  BY <1>1, <1>2 DEF Done, Settled, Past, Crashes
<1>14. FatesKnown' /\ ShownStays'
  BY <1>1, <1>6, <1>13 DEF IInv, FatesKnown, ShownStays, EventKept, Handled, Key, SignatureOf, Crashes
<1>15. CountsCover'
  BY <1>1, <1>2 DEF IInv, CountsCover, Reported, SignatureOf, Handled
<1> QED  BY <1>7, <1>8, <1>9, <1>10, <1>11, <1>12, <1>14, <1>15 DEF IInv

LEMMA RemoveStep ==
    ASSUME IInv, RemoveSpooled
    PROVE  IInv'
<1>1. /\ UNCHANGED <<journal, core, pending, listed, resolved, declined, fate, forfeited, disk, starts,
                     mem, pos, offered, copies, base, unsure>>
      /\ pc = "remove" /\ pc' \in {"remove", "open"} /\ TypeOK
      /\ pc' = "open" => batch' = {}
  BY DEF RemoveSpooled, machine, history, IInv
<1>2. ~Watching /\ ~Watching' /\ ~Busy /\ ~Busy' /\ ~Underway /\ ~Underway'
  BY <1>1 DEF Watching, Busy, Underway
<1>3. /\ DOMAIN spool' \subseteq DOMAIN spool /\ batch' \subseteq batch \cap DOMAIN spool'
      /\ \A k \in DOMAIN spool' : spool'[k] = spool[k]
      /\ \A k \in DOMAIN spool : k \in DOMAIN spool' \/ spool[k] \in received
      /\ spool' \in [DOMAIN spool' -> Crashes \cup {Torn}]
  <2>1. CASE UNCHANGED <<spool, offered, batch>>
    BY <1>1, <2>1 DEF TypeOK
  <2>2. CASE \E k \in batch : spool' = Remove(spool, {k}) /\ batch' = batch \ {k}
    <3>1. PICK k \in batch : spool' = Remove(spool, {k}) /\ batch' = batch \ {k}
      BY <2>2
    <3>2. DOMAIN spool' = DOMAIN spool \ {k} /\ \A j \in DOMAIN spool' : spool'[j] = spool[j]
      BY <3>1 DEF Remove
    <3>3. spool' \in [DOMAIN spool' -> Crashes \cup {Torn}]
      BY <1>1, <3>1 DEF Remove, TypeOK
    <3>4. spool[k] \in received /\ batch \subseteq DOMAIN spool
      BY <1>1, <3>1 DEF IInv, Stages, TypeOK
    <3> QED  BY <3>1, <3>2, <3>3, <3>4
  <2> QED  BY <2>1, <2>2 DEF RemoveSpooled
<1>4. TypeOK'
  BY <1>1, <1>3 DEF TypeOK, Crashes, PendingReports
<1>5. IsFiniteSet(DOMAIN spool)' /\ SpoolBounded'
  <2>1. IsFiniteSet(DOMAIN spool) /\ Cardinality(DOMAIN spool) <= MaxSpool
    BY DEF IInv, SpoolBounded
  <2>2. IsFiniteSet(DOMAIN spool') /\ Cardinality(DOMAIN spool') <= Cardinality(DOMAIN spool)
    BY <1>3, <2>1, FS_Subset
  <2>3. Cardinality(DOMAIN spool') \in Nat /\ Cardinality(DOMAIN spool) \in Nat
    BY <2>1, <2>2, FS_CardinalityType
  <2> QED  BY <2>1, <2>2, <2>3, LimitAssumption DEF SpoolBounded
<1>6. Positions' /\ FirstTime'
  BY <1>1, <1>2 DEF IInv, Positions, FirstTime
<1>7. Stages'
  BY <1>1, <1>3 DEF IInv, Stages, received, Crashes
<1>8. SpoolHolds'
  BY <1>1, <1>3 DEF IInv, SpoolHolds, Key
<1>9. PendingHolds' /\ UnsentCrashKeepsItsCore' /\ CountedOnce' /\ SentOnce'
  BY <1>1, <1>2 DEF IInv, PendingHolds, UnsentCrashKeepsItsCore, CountedOnce,
              SentOnce, SignatureOf, Crashes, received
<1>10. Done' = Done /\ Settled' = Settled
  BY <1>1, <1>2 DEF Done, Settled, Past, Crashes
<1>11. FatesKnown'
  <2>1. ASSUME NEW c \in Settled, Handled(c) PROVE EventKept(c)' \/ (Key(c) \in forfeited)'
    <3>1. CASE Key(c) \in DOMAIN spool \ DOMAIN spool'
      <4>1. spool[Key(c)] \in received /\ Torn \notin received
        BY <1>1, <1>3, <3>1, Journal DEF received, Torn
      <4>2. Key(spool[Key(c)]) = Key(c)
        BY <3>1, <4>1 DEF IInv, SpoolHolds
      <4> QED  BY <1>1, <4>1, <4>2 DEF EventKept, Key, received, Crashes
    <3>2. CASE Key(c) \notin DOMAIN spool \ DOMAIN spool'
      BY <1>1, <2>1, <3>2 DEF IInv, FatesKnown, EventKept, Key, received, Crashes
    <3> QED  BY <3>1, <3>2
  <2> QED  BY <1>1, <1>10, <2>1 DEF IInv, FatesKnown, Handled
<1>12. ShownStays'
  BY <1>1, <1>10 DEF IInv, ShownStays, SignatureOf, Crashes
<1>13. CountsCover'
  BY <1>1, <1>2 DEF IInv, CountsCover, Reported, SignatureOf, Handled
<1> QED  BY <1>4, <1>5, <1>6, <1>7, <1>8, <1>9, <1>11, <1>12, <1>13 DEF IInv

LEMMA OpenStep ==
    ASSUME IInv, OpenJournal
    PROVE  IInv'
<1>1. /\ UNCHANGED <<journal, core, pending, listed, resolved, declined, spool, forfeited, disk, starts,
                     mem, offered, batch, copies, unsure>>
      /\ pc = "open" /\ pc' = "watch" /\ TypeOK
      /\ pos' = IF mem.cursor = NoCursor THEN Len(journal) ELSE mem.cursor
      /\ base' = IF mem.cursor = NoCursor THEN Len(journal) ELSE base
  BY DEF OpenJournal, Goto, machine, IInv
<1>2. ~Watching /\ Watching' /\ ~Busy /\ ~Busy' /\ ~Underway /\ ~Underway'
  BY <1>1 DEF Watching, Busy, Underway
<1>3. /\ mem.cursor = disk.cursor /\ mem.cursor \in 0..Len(journal) /\ Len(journal) \in Nat
      /\ pos' \in 0..Len(journal) /\ base' \in 0..Len(journal) /\ mem.cursor <= pos'
  BY <1>1, <1>2, Cursors, Journal DEF IInv, Positions, TypeOK, NoCursor
<1>4. /\ fate' \in [Crashes -> Fate]
      /\ \A c \in Crashes :
           /\ fate[c] \notin {"unseen", "backlog"} => fate'[c] = fate[c]
           /\ fate[c] \in {"unseen", "backlog"} =>
                fate'[c] = IF c <= pos' THEN "skipped" ELSE "backlog"
  <2>1. fate' = [c \in Crashes |->
                  IF fate[c] \notin {"unseen", "backlog"} THEN fate[c]
                  ELSE IF c <= pos' THEN "skipped" ELSE "backlog"]
    BY DEF OpenJournal
  <2>2. fate \in [Crashes -> Fate] /\ {"skipped", "backlog"} \subseteq Fate
    BY <1>1 DEF TypeOK, Fate
  <2> HIDE DEF Fate
  <2> QED  BY <2>1, <2>2
<1>5. \A c \in Crashes : /\ Handled(c)' <=> Handled(c)
                         /\ (fate'[c] = "shown") <=> (fate[c] = "shown")
                         /\ (fate'[c] = "refused") <=> (fate[c] = "refused")
  BY <1>4 DEF Handled
<1>6. TypeOK'
  BY <1>1, <1>3, <1>4 DEF TypeOK, Crashes, PendingReports
<1>7. IsFiniteSet(DOMAIN spool)' /\ SpoolBounded' /\ SpoolHolds' /\ PendingHolds'
  BY <1>1 DEF IInv, SpoolBounded, SpoolHolds, PendingHolds, Key, SignatureOf
<1>8. Positions' /\ Stages'
  BY <1>1, <1>2, <1>3 DEF IInv, Positions, Stages, NoCursor
<1>9. UnsentCrashKeepsItsCore' /\ CountedOnce'
  BY <1>1, <1>5 DEF IInv, UnsentCrashKeepsItsCore, CountedOnce, Crashes, received, TypeOK
<1>10. SentOnce'
  BY <1>1, <1>2 DEF IInv, SentOnce, received, Crashes
<1>11. FirstTime'
  BY <1>1, <1>3, Journal DEF FirstTime, NoCursor, Crashes
<1>12. Done' = 1..pos' /\ Settled' = Settled
  <2>1. Done' = 1..pos'
    BY <1>2 DEF Done
  <2>2. Done = 1..disk.cursor
    BY <1>2 DEF Done
  <2> QED  BY <1>1, <1>3, <2>1, <2>2, Journal DEF Settled, Past, NoCursor, Crashes
<1>13. FatesKnown'
  <2>1. \A c \in Done' : c \in Crashes /\ fate'[c] \notin {"unseen", "backlog"}
    BY <1>3, <1>4, <1>12, Journal, <1>1
  <2>2. Settled \subseteq Crashes
    BY <1>1, <1>2, <1>3, Journal DEF Settled, Past, Done, NoCursor
  <2> QED  BY <1>1, <1>5, <1>12, <2>1, <2>2 DEF IInv, FatesKnown, EventKept, Key, received, Crashes
<1>14. ShownStays'
  BY <1>1, <1>5, <1>12 DEF IInv, ShownStays, SignatureOf, Crashes
<1>15. CountsCover'
  <2>1. ASSUME NEW s \in Signature PROVE mem.counts[s] >= Cardinality(Reported(s, pos)') /\ disk.counts[s] >= Cardinality(Reported(s, disk.cursor)')
    <3>1. CASE mem.cursor = NoCursor
      <4>1. Reported(s, pos)' = {} /\ Reported(s, disk.cursor)' = {}
        BY <1>1, <1>3, <3>1 DEF Reported, NoCursor
      <4>2. mem.counts[s] \in Nat /\ disk.counts[s] \in Nat
        BY <1>1, Cursors
      <4> QED  BY <4>1, <4>2, FS_EmptySet
    <3>2. CASE mem.cursor # NoCursor
      <4>1. Reported(s, pos)' = Reported(s, disk.cursor) /\ Reported(s, disk.cursor)' = Reported(s, disk.cursor)
        <5>1. base' = base /\ pos' = disk.cursor /\ disk' = disk
          BY <1>1, <1>3, <3>2
        <5>2. \A c \in (base + 1)..disk.cursor : c \in Crashes
          BY <1>1, <1>3, Journal, Cursors
        <5>3. \A c \in Crashes : SignatureOf(c)' = SignatureOf(c)
          BY <1>1 DEF SignatureOf
        <5> QED  BY <1>5, <5>1, <5>2, <5>3 DEF Reported
      <4> QED  BY <1>2, <4>1 DEF IInv, CountsCover
    <3> QED  BY <3>1, <3>2
  <2> QED  BY <1>1, <1>2, <2>1 DEF CountsCover
<1> QED  BY <1>6, <1>7, <1>8, <1>9, <1>10, <1>11, <1>13, <1>14, <1>15 DEF IInv

\* Charging a crash raises one count, or none.
LEMMA Charged ==
    ASSUME TypeOK, NEW c \in Crashes, NEW quiet \in BOOLEAN, Charge(c, quiet)
    PROVE  /\ mem' \in States /\ mem'.cursor = mem.cursor
           /\ \A s \in Signature : mem'.counts[s] >= mem.counts[s]
           /\ ~quiet => mem'.counts[SignatureOf(c)] = mem.counts[SignatureOf(c)] + 1
<1> DEFINE s == SignatureOf(c)
           x == Program[SignatureOf(c)]
           recent == [mem.recent EXCEPT ![x] = @ + 1]
           counts == [mem.counts EXCEPT ![s] = IF quiet THEN @ ELSE @ + 1]
<1>1. s \in Signature /\ x \in Executable
  BY Journal DEF SignatureOf, Executable
<1>2. /\ mem \in States /\ mem.recent \in [Executable -> Nat] /\ mem.counts \in [Signature -> Nat]
      /\ mem.cursor \in 0..MaxCrashes
  BY Cursors DEF TypeOK
<1>3. mem' = [cursor |-> mem.cursor, recent |-> recent, counts |-> counts]
  BY <1>2 DEF Charge, States
<1>4. recent \in [Executable -> Nat]
  BY <1>1, <1>2
<1>5. /\ counts \in [Signature -> Nat]
      /\ \A r \in Signature : counts[r] >= mem.counts[r]
      /\ ~quiet => counts[s] = mem.counts[s] + 1
  BY <1>1, <1>2
<1> HIDE DEF recent, counts
<1>6. mem'.cursor = mem.cursor /\ mem'.counts = counts
  BY <1>3
<1>7. mem' \in States
  BY <1>2, <1>3, <1>4, <1>5 DEF States
<1> QED  BY <1>5, <1>6, <1>7

\* A subset, but for one element perhaps, is no larger, but for one perhaps.
LEMMA Smaller ==
    ASSUME NEW S, IsFiniteSet(S), NEW x, NEW T, T \subseteq S \cup {x}
    PROVE  /\ IsFiniteSet(T) /\ Cardinality(T) \in Nat /\ Cardinality(S) \in Nat
           /\ Cardinality(T) <= Cardinality(S) + 1
           /\ x \notin T => Cardinality(T) <= Cardinality(S)
<1>1. IsFiniteSet(S \cup {x}) /\ Cardinality(S \cup {x}) <= Cardinality(S) + 1 /\ Cardinality(S) \in Nat
  <2>1. Cardinality(S) \in Nat
    BY FS_CardinalityType
  <2> QED  BY <2>1, FS_AddElement
<1> DEFINE U == S \cup {x}
<1>2. IsFiniteSet(T) /\ Cardinality(T) <= Cardinality(U)
  <2>1. IsFiniteSet(U) /\ T \in SUBSET U
    BY <1>1
  <2> HIDE DEF U
  <2> QED  BY <2>1, FS_Subset
<1>3. Cardinality(T) \in Nat /\ Cardinality(U) \in Nat
  BY <1>1, <1>2, FS_CardinalityType
<1>4. x \notin T => Cardinality(T) <= Cardinality(S)
  <2> SUFFICES ASSUME x \notin T PROVE Cardinality(T) <= Cardinality(S)
    OBVIOUS
  <2>1. T \in SUBSET S
    OBVIOUS
  <2> QED  BY <2>1, FS_Subset
<1> QED  BY <1>1, <1>2, <1>3, <1>4

\* The crashes a count must cover are finitely many.
LEMMA ReportedIsFinite ==
    ASSUME TypeOK, NEW s, NEW n \in Nat
    PROVE  IsFiniteSet(Reported(s, n)) /\ Cardinality(Reported(s, n)) \in Nat
<1>1. base + 1 \in Int /\ n \in Int
  BY Cursors
<1>2. IsFiniteSet((base + 1)..n)
  BY <1>1, FS_Interval
<1>3. Reported(s, n) \in SUBSET ((base + 1)..n)
  BY DEF Reported
<1>4. IsFiniteSet(Reported(s, n))
  BY <1>2, <1>3, FS_Subset
<1> QED  BY <1>4, FS_CardinalityType

LEMMA TakeStep ==
    ASSUME IInv, TakeEntry
    PROVE  IInv'
<1>a. PICK n \in Nat : n = pos + 1
  BY Cursors DEF IInv
<1>1. /\ UNCHANGED <<journal, core, pending, listed, resolved, declined, spool, forfeited, disk, starts,
                     batch, copies, base, unsure>>
      /\ pc = "watch" /\ pos < Len(journal) /\ pos' = n /\ TypeOK
  BY <1>a DEF TakeEntry, machine, history, IInv
<1>2. PICK quiet \in BOOLEAN :
        /\ Charge(n, quiet)
        /\ pc' = IF quiet THEN "save" ELSE "ask"
        /\ fate' = IF quiet THEN [fate EXCEPT ![n] = "suppressed"] ELSE fate
  <2>1. CASE OverLimit(pos') \/ SignatureOf(pos') \in declined
    BY <1>1, <2>1 DEF TakeEntry
  <2>2. CASE ~(OverLimit(pos') \/ SignatureOf(pos') \in declined)
    BY <1>1, <2>2 DEF TakeEntry
  <2> QED  BY <2>1, <2>2
<1>3. /\ n \in Crashes /\ pos \in Nat /\ n > mem.cursor /\ n > disk.cursor /\ n \in 0..Len(journal)
      /\ n = pos + 1
  <2>1. disk.cursor <= mem.cursor /\ mem.cursor <= pos
    BY <1>1 DEF IInv, Positions, Watching
  <2>2. /\ Len(journal) \in Nat /\ Crashes = 1..Len(journal) /\ pos \in Nat
        /\ disk.cursor \in Nat /\ mem.cursor \in Nat
    BY <1>1, Journal, Cursors
  <2> QED  BY <1>a, <1>1, <2>1, <2>2
<1>4. /\ mem' \in States /\ mem'.cursor = mem.cursor
      /\ \A s \in Signature : mem'.counts[s] >= mem.counts[s]
      /\ ~quiet => mem'.counts[SignatureOf(n)] = mem.counts[SignatureOf(n)] + 1
  BY <1>1, <1>2, <1>3, Charged
<1>5. /\ fate' \in [Crashes -> Fate]
      /\ \A c \in Crashes : c # n => fate'[c] = fate[c]
      /\ ~quiet => fate' = fate
      /\ quiet => fate'[n] = "suppressed"
  BY <1>1, <1>2, <1>3 DEF TypeOK, Fate
<1>6. /\ Watching /\ Watching' /\ ~Busy /\ Busy' /\ ~Underway /\ Underway' = ~quiet
      /\ pc' \in {"save", "ask"}
  BY <1>1, <1>2 DEF Watching, Busy, Underway
<1>12. offered' \in BOOLEAN
  BY DEF TakeEntry
<1>7. TypeOK'
  BY <1>1, <1>12, <1>3, <1>4, <1>5, <1>6 DEF TypeOK, Crashes, PendingReports
<1>8. IsFiniteSet(DOMAIN spool)' /\ SpoolBounded' /\ SpoolHolds' /\ PendingHolds'
  BY <1>1 DEF IInv, SpoolBounded, SpoolHolds, PendingHolds, Key, SignatureOf
<1>9. Positions'
  BY <1>1, <1>3, <1>4, <1>6, Cursors DEF IInv, Positions
<1>10. Stages'
  BY <1>1, <1>6 DEF IInv, Stages
<1>11. UnsentCrashKeepsItsCore' /\ CountedOnce'
  BY <1>1 DEF IInv, UnsentCrashKeepsItsCore, CountedOnce, Crashes, received
<1>13. SentOnce'
  BY <1>1, <1>4, <1>6 DEF IInv, SentOnce, received, Crashes
<1>14. FirstTime'
  <2> SUFFICES ASSUME disk.cursor = NoCursor, NEW c \in Crashes, c > n PROVE ~Handled(c)'
    BY <1>1 DEF FirstTime, Crashes
  <2>1. c > pos /\ c # n
    BY <1>3, Journal, <1>1
  <2> QED  BY <1>5, <1>6, <2>1 DEF IInv, FirstTime, Handled
<1>15. /\ Done' = IF quiet THEN Done \cup {n} ELSE Done
       /\ Settled' = IF quiet THEN Settled \cup {n} ELSE Settled
       /\ Settled \subseteq Crashes
  <2>1. Done = 1..pos /\ Done' = (IF quiet THEN 1..n ELSE 1..(n - 1))
    BY <1>1, <1>6 DEF Done
  <2>2. 1..n = (1..pos) \cup {n} /\ n - 1 = pos
    BY <1>3
  <2>3. Past(disk.cursor)' = Past(disk.cursor) /\ Past(disk.cursor) \subseteq Crashes /\ 1..pos \subseteq Crashes
    BY <1>1, Working, Journal, Cursors DEF Past, Crashes
  <2> QED  BY <2>1, <2>2, <2>3 DEF Settled
<1>16. FatesKnown'
  <2>1. \A c \in Done' : fate'[c] \notin {"unseen", "backlog"}
    BY <1>5, <1>15 DEF IInv, FatesKnown, Settled
  <2>2. \A c \in Settled' : Handled(c)' => c \in Settled /\ Handled(c)
    BY <1>5, <1>15 DEF Handled
  <2> QED  BY <1>1, <2>1, <2>2 DEF IInv, FatesKnown, EventKept, Key, received, Crashes
<1>17. ShownStays'
  <2>1. \A c \in Crashes : fate'[c] = "shown" => fate[c] = "shown" /\ (c \in Settled' => c \in Settled)
    BY <1>5, <1>15
  <2> QED  BY <1>1, <2>1 DEF IInv, ShownStays, SignatureOf, Crashes
<1>18. CountsCover'
  <2> SUFFICES ASSUME NEW s \in Signature
               PROVE  /\ disk.counts[s] >= Cardinality(Reported(s, disk.cursor)')
                      /\ mem'.counts[s] >= Cardinality(Reported(s, pos)')
                      /\ ~quiet /\ SignatureOf(n)' = s => mem'.counts[s] > Cardinality(Reported(s, pos - 1)')
    BY <1>1, <1>6 DEF CountsCover, cur
  <2>1. \A c \in Crashes : Handled(c)' => Handled(c) /\ (c = n => ~quiet)
    BY <1>5 DEF Handled
  <2>2. \A c \in Crashes : SignatureOf(c)' = SignatureOf(c)
    BY <1>1 DEF SignatureOf
  <2>3. /\ \A c \in (base + 1)..disk.cursor : c \in Crashes
        /\ \A c \in (base + 1)..n : c \in Crashes
        /\ (base + 1)..n \subseteq ((base + 1)..pos) \cup {n}
    BY <1>1, <1>3, Journal, Cursors
  <2>4. /\ disk.counts[s] >= Cardinality(Reported(s, disk.cursor))
        /\ mem.counts[s] >= Cardinality(Reported(s, pos))
    BY <1>6 DEF IInv, CountsCover
  <2>5. mem.counts[s] \in Nat /\ disk.counts[s] \in Nat /\ mem'.counts[s] \in Nat
    BY <1>1, <1>4, Cursors DEF States
  <2>6. disk.counts[s] >= Cardinality(Reported(s, disk.cursor)')
    <3>1. Reported(s, disk.cursor)' \subseteq Reported(s, disk.cursor) \cup {0}
      BY <1>1, <2>1, <2>2, <2>3 DEF Reported
    <3>2. 0 \notin Reported(s, disk.cursor)'
      BY <1>1, Cursors DEF Reported
    <3>3. IsFiniteSet(Reported(s, disk.cursor))
      BY <1>1, Cursors, ReportedIsFinite
    <3>4. /\ Cardinality(Reported(s, disk.cursor)') <= Cardinality(Reported(s, disk.cursor))
          /\ Cardinality(Reported(s, disk.cursor)') \in Nat /\ Cardinality(Reported(s, disk.cursor)) \in Nat
      BY <3>1, <3>2, <3>3, Smaller
    <3> QED  BY <2>4, <2>5, <3>4
  <2>7. Reported(s, pos)' \subseteq Reported(s, pos) \cup {n}
    BY <1>1, <2>1, <2>2, <2>3 DEF Reported
  <2>8. n \in Reported(s, pos)' => SignatureOf(n) = s /\ ~quiet
    BY <1>3, <2>1, <2>2 DEF Reported
  <2>9. /\ Cardinality(Reported(s, pos)') \in Nat /\ Cardinality(Reported(s, pos)) \in Nat
        /\ Cardinality(Reported(s, pos)') <= Cardinality(Reported(s, pos)) + 1
        /\ n \notin Reported(s, pos)' => Cardinality(Reported(s, pos)') <= Cardinality(Reported(s, pos))
    <3>1. IsFiniteSet(Reported(s, pos))
      BY <1>1, <1>3, ReportedIsFinite
    <3> QED  BY <2>7, <3>1, Smaller
  <2>10. mem'.counts[s] >= Cardinality(Reported(s, pos)')
    <3>1. CASE n \in Reported(s, pos)'
      BY <1>4, <2>4, <2>5, <2>8, <2>9, <3>1
    <3>2. CASE n \notin Reported(s, pos)'
      BY <1>4, <2>4, <2>5, <2>9, <3>2
    <3> QED  BY <3>1, <3>2
  <2>11. ASSUME ~quiet, SignatureOf(n)' = s PROVE mem'.counts[s] > Cardinality(Reported(s, pos - 1)')
    <3>1. SignatureOf(n) = s /\ mem'.counts[s] = mem.counts[s] + 1
      BY <1>3, <1>4, <2>2, <2>11
    <3>2. Reported(s, pos - 1)' = Reported(s, pos)
      <4>1. pos' - 1 = pos /\ fate' = fate /\ base' = base
        BY <1>1, <1>3, <1>5, <2>11
      <4>2. \A c \in (base + 1)..pos : c \in Crashes
        BY <1>3, <2>3
      <4> QED  BY <2>2, <4>1, <4>2 DEF Reported, Handled
    <3> QED  BY <2>4, <2>5, <2>9, <3>1, <3>2
  <2> QED  BY <2>6, <2>10, <2>11
<1> QED  BY <1>7, <1>8, <1>9, <1>10, <1>11, <1>12, <1>13, <1>14, <1>16, <1>17, <1>18 DEF IInv

LEMMA AskStep ==
    ASSUME IInv, ServerRefuses \/ ServerWants \/ NoAnswer
    PROVE  IInv'
<1>1. /\ UNCHANGED <<journal, core, pending, listed, resolved, declined, fate, spool, forfeited, disk, starts,
                     mem, pos, batch, base>> /\ offered' \in BOOLEAN
      /\ pc = "ask" /\ pc' \in {"drop", "write_pending", "spool"} /\ TypeOK
  BY DEF ServerRefuses, ServerWants, NoAnswer, Goto, machine, history, IInv
<1>2. PICK sent \in SUBSET {pos} :
        /\ copies' = Counted(sent)
        /\ pc' \in {"drop", "write_pending"} => pos \in sent /\ unsure' = unsure
        /\ pc' = "spool" => unsure' = unsure \cup {pos}
  <2>1. CASE ServerRefuses \/ ServerWants
    BY <2>1 DEF ServerRefuses, ServerWants, cur, Goto, history
  <2>2. CASE NoAnswer
    <3>1. pc' = "spool" /\ unsure' = unsure \cup {pos}
      BY <2>2 DEF NoAnswer, cur, Goto
    <3>2. CASE copies' = Counted({pos})
      BY <3>1, <3>2
    <3>3. CASE copies' = copies
      <4>1. copies = [c \in Crashes |-> copies[c]]
        BY <1>1 DEF TypeOK
      <4>2. Counted({}) = copies
        BY <4>1 DEF Counted
      <4> QED  BY <3>1, <3>3, <4>2
    <3> QED  BY <2>2, <3>2, <3>3 DEF NoAnswer, cur
  <2> QED  BY <2>1, <2>2
<1>3. Watching /\ Watching' /\ Busy /\ Busy' /\ Underway /\ Underway'
  BY <1>1 DEF Watching, Busy, Underway
<1>4. pos \in Crashes /\ pos > mem.cursor
  BY <1>3, Working
<1>5. /\ copies' \in [Crashes -> 0..2]
      /\ received \subseteq received' /\ received' \subseteq received \cup {pos}
      /\ pos \in sent => pos \in received'
      /\ \A c \in Crashes : copies'[c] = 2 => copies[c] = 2 \/ (c = pos /\ c \in received)
  <2>1. /\ copies' \in [Crashes -> 0..2]
        /\ received \subseteq received' /\ received' \subseteq received \cup sent
        /\ \A c \in Crashes : c \in sent => c \in received'
        /\ \A c \in Crashes : copies'[c] = 2 => copies[c] = 2 \/ (c \in sent /\ c \in received)
    BY <1>1, <1>2, CountedIs
  <2> QED  BY <1>2, <1>4, <2>1
<1>6. unsure \subseteq unsure' /\ unsure' \subseteq Crashes
  BY <1>1, <1>2, <1>4 DEF TypeOK
<1>7. TypeOK'
  BY <1>1, <1>5, <1>6 DEF TypeOK, Crashes, PendingReports
<1>8. /\ IsFiniteSet(DOMAIN spool)' /\ SpoolBounded' /\ SpoolHolds' /\ PendingHolds'
     
  BY <1>1, <1>6 DEF IInv, SpoolBounded, SpoolHolds, PendingHolds, Key, SignatureOf
<1>9. Positions' /\ FirstTime'
  BY <1>1, <1>3 DEF IInv, Positions, FirstTime, Handled, Crashes
<1>10. Stages'
  BY <1>1, <1>2, <1>5 DEF IInv, Stages, cur
<1>11. UnsentCrashKeepsItsCore' /\ SentOnce'
  BY <1>1, <1>3, <1>5, <1>6 DEF IInv, UnsentCrashKeepsItsCore, SentOnce, Crashes
<1>12. CountedOnce'
  <2>1. pos \in received => pos \in unsure
    BY <1>1, <1>4, Cursors DEF IInv, SentOnce
  <2> QED  BY <1>1, <1>5, <1>6, <2>1 DEF IInv, CountedOnce, Crashes
<1>13. Done' = Done /\ Settled' = Settled
  BY <1>1, <1>3 DEF Done, Settled, Past, Crashes
<1>14. FatesKnown' /\ ShownStays'
  BY <1>1, <1>5, <1>13 DEF IInv, FatesKnown, ShownStays, EventKept, Handled, Key, SignatureOf, Crashes
<1>15. CountsCover'
  BY <1>1, <1>3 DEF IInv, CountsCover, Reported, SignatureOf, Handled, cur
<1> QED  BY <1>7, <1>8, <1>9, <1>10, <1>11, <1>12, <1>14, <1>15 DEF IInv

\* What holds when the work on a crash ends with its event kept, whatever
\* became of its core and its report.
LEMMA Finished ==
    ASSUME IInv, Underway, pc' = "save", EventKept(pos) \/ Key(pos) \in forfeited,
           NEW x \in {"refused", "shown", "failed"}, fate' = [fate EXCEPT ![pos] = x],
           UNCHANGED <<journal, spool, forfeited, disk, mem, pos, batch, copies, base, unsure>>
    PROVE  /\ pos \in Crashes /\ fate' \in [Crashes -> Fate] /\ fate'[pos] = x
           /\ \A c \in Crashes : c # pos => fate'[c] = fate[c]
           /\ Done' = Done \cup {pos} /\ Settled' = Settled \cup {pos}
           /\ Positions' /\ Stages' /\ SpoolHolds' /\ SpoolBounded' /\ IsFiniteSet(DOMAIN spool)'
           /\ SentOnce' /\ CountedOnce' /\ FatesKnown' /\ FirstTime' /\ CountsCover'
<1>1. TypeOK /\ Underway /\ ~Underway' /\ Busy /\ Busy' /\ Watching /\ Watching'
  BY DEF IInv, Underway, Busy, Watching
<1>2. pos \in Crashes /\ pos > mem.cursor /\ pos > disk.cursor /\ pos \in Nat /\ pos - 1 \in Nat
  BY <1>1, Working, Cursors, Journal
<1>3. /\ fate' \in [Crashes -> Fate] /\ fate'[pos] = x
      /\ \A c \in Crashes : c # pos => fate'[c] = fate[c]
  BY <1>1, <1>2 DEF TypeOK, Fate
<1>4. Done' = Done \cup {pos} /\ Settled' = Settled \cup {pos} /\ Settled \subseteq Crashes
  <2>1. Done = 1..(pos - 1) /\ Done' = 1..pos
    BY <1>1 DEF Done
  <2>2. 1..pos = (1..(pos - 1)) \cup {pos} /\ 1..pos \subseteq Crashes
    BY <1>1, <1>2, Journal
  <2>3. Past(disk.cursor)' = Past(disk.cursor) /\ Past(disk.cursor) \subseteq Crashes
    BY <1>1, <1>2, Journal, Cursors DEF Past, Crashes
  <2> QED  BY <2>1, <2>2, <2>3 DEF Settled
<1>5. SpoolHolds' /\ SpoolBounded' /\ IsFiniteSet(DOMAIN spool)'
  BY DEF IInv, SpoolHolds, SpoolBounded, Key
<1>6. Positions'
  BY <1>1 DEF IInv, Positions
<1>7. Stages'
  <2>1. pc \notin {"drain", "remove"}
    BY <1>1 DEF Underway
  <2>2. batch = {}
    BY <2>1 DEF IInv, Stages
  <2> QED  BY <2>2 DEF Stages
<1>8. SentOnce' /\ CountedOnce'
  BY <1>1 DEF IInv, SentOnce, CountedOnce, received, Crashes
<1>9. FatesKnown'
  <2>1. \A c \in Done' : fate'[c] \notin {"unseen", "backlog"}
    BY <1>3, <1>4 DEF IInv, FatesKnown, Settled
  <2>2. \A c \in Settled : c # pos /\ Handled(c)' => EventKept(c) \/ Key(c) \in forfeited
    BY <1>3, <1>4 DEF IInv, FatesKnown, Handled
  <2> QED  BY <1>4, <2>1, <2>2 DEF FatesKnown, EventKept, Key, received, Crashes
<1>10. FirstTime'
  <2> SUFFICES ASSUME disk.cursor = NoCursor, NEW c \in Crashes, c > pos PROVE ~Handled(c)'
    BY DEF FirstTime, Crashes
  <2>1. c # pos
    BY <1>1, <1>2, Journal
  <2> QED  BY <1>1, <1>3, <2>1 DEF IInv, FirstTime, Handled
<1>11. CountsCover'
  <2> SUFFICES ASSUME NEW s \in Signature
               PROVE  /\ disk.counts[s] >= Cardinality(Reported(s, disk.cursor)')
                      /\ mem.counts[s] >= Cardinality(Reported(s, pos)')
    BY <1>1 DEF CountsCover
  <2>1. \A c \in Crashes : SignatureOf(c)' = SignatureOf(c)
    BY DEF SignatureOf
  <2>2. \A c \in Crashes : c # pos => (Handled(c)' <=> Handled(c))
    BY <1>3 DEF Handled
  <2>3. /\ \A c \in (base + 1)..disk.cursor : c \in Crashes /\ c # pos
        /\ \A c \in (base + 1)..pos : c \in Crashes
        /\ (base + 1)..pos \subseteq ((base + 1)..(pos - 1)) \cup {pos}
        /\ (base + 1)..(pos - 1) \subseteq (base + 1)..pos
    BY <1>1, <1>2, Journal, Cursors
  <2>4. Reported(s, disk.cursor)' = Reported(s, disk.cursor)
    BY <2>1, <2>2, <2>3 DEF Reported
  <2>5. /\ disk.counts[s] >= Cardinality(Reported(s, disk.cursor))
        /\ mem.counts[s] >= Cardinality(Reported(s, pos))
        /\ SignatureOf(pos) = s => mem.counts[s] > Cardinality(Reported(s, pos - 1))
    BY <1>1 DEF IInv, CountsCover, cur
  <2>6. mem.counts[s] \in Nat
    BY <1>1, Cursors
  <2>7. CASE SignatureOf(pos) = s
    <3>1. Reported(s, pos)' \subseteq Reported(s, pos - 1) \cup {pos}
      BY <2>1, <2>2, <2>3 DEF Reported
    <3>2. IsFiniteSet(Reported(s, pos - 1))
      BY <1>1, <1>2, ReportedIsFinite
    <3>3. /\ Cardinality(Reported(s, pos)') <= Cardinality(Reported(s, pos - 1)) + 1
          /\ Cardinality(Reported(s, pos)') \in Nat /\ Cardinality(Reported(s, pos - 1)) \in Nat
      BY <3>1, <3>2, Smaller
    <3> QED  BY <2>4, <2>5, <2>6, <2>7, <3>3
  <2>8. CASE SignatureOf(pos) # s
    <3>1. Reported(s, pos)' = Reported(s, pos)
      BY <1>2, <2>1, <2>2, <2>3, <2>8 DEF Reported
    <3> QED  BY <2>4, <2>5, <3>1
  <2> QED  BY <2>7, <2>8
<1> QED  BY <1>2, <1>3, <1>4, <1>5, <1>6, <1>7, <1>8, <1>9, <1>10, <1>11

LEMMA DropStep ==
    ASSUME IInv, DropCore
    PROVE  IInv'
<1>1. /\ UNCHANGED <<journal, pending, listed, resolved, declined, spool, forfeited, disk, starts, mem, pos,
                     offered, batch, copies, base, unsure>>
      /\ pc = "drop" /\ pc' = "save" /\ TypeOK
      /\ core' = IF DeleteDeclined THEN core \ {pos} ELSE core
      /\ fate' = [fate EXCEPT ![pos] = "refused"]
  BY DEF DropCore, Goto, history, cur, IInv
<1>2. Underway /\ pos \in received
  BY <1>1 DEF Underway, IInv, Stages, cur
<1>3. EventKept(pos)
  BY <1>2 DEF EventKept
<1>4. /\ pos \in Crashes /\ fate' \in [Crashes -> Fate] /\ fate'[pos] = "refused"
      /\ \A c \in Crashes : c # pos => fate'[c] = fate[c]
      /\ Done' = Done \cup {pos} /\ Settled' = Settled \cup {pos}
      /\ Positions' /\ Stages' /\ SpoolHolds' /\ SpoolBounded' /\ IsFiniteSet(DOMAIN spool)'
      /\ SentOnce' /\ CountedOnce' /\ FatesKnown' /\ FirstTime' /\ CountsCover'
  BY <1>1, <1>2, <1>3, Finished
<1>5. TypeOK'
  BY <1>1, <1>4 DEF TypeOK, Crashes, PendingReports
<1>6. PendingHolds'
  BY <1>1 DEF IInv, PendingHolds, SignatureOf
<1>7. UnsentCrashKeepsItsCore'
  BY <1>1, <1>2 DEF IInv, UnsentCrashKeepsItsCore, received, Crashes
<1>8. ShownStays'
  <2>1. \A c \in Crashes : fate'[c] = "shown" => fate[c] = "shown" /\ c # pos
    BY <1>4
  <2> QED  BY <1>1, <1>4, <2>1 DEF IInv, ShownStays, SignatureOf, Crashes
<1> QED  BY <1>4, <1>5, <1>6, <1>7, <1>8 DEF IInv

LEMMA WriteStep ==
    ASSUME IInv, WriteConfirmed \/ WriteUnconfirmed
    PROVE  IInv'
<1>1. PICK awaiting \in BOOLEAN :
        /\ WritePending(IF awaiting THEN "write_unconfirmed" ELSE "write_pending", awaiting)
        /\ pc = IF awaiting THEN "write_unconfirmed" ELSE "write_pending"
  BY DEF WriteConfirmed, WriteUnconfirmed, WritePending, Goto
<1>2. /\ UNCHANGED <<journal, core, resolved, declined, spool, forfeited, disk, starts, mem, pos,
                     offered, batch, copies, base, unsure>>
      /\ pc' = "save" /\ TypeOK
  BY <1>1 DEF WritePending, Goto, history, IInv
<1>3. Underway /\ (EventKept(pos) \/ Key(pos) \in forfeited) /\ (awaiting => pos \in unsure)
  BY <1>1 DEF Underway, IInv, Stages, EventKept, cur
<1>4. PICK x \in {"refused", "shown", "failed"} :
        /\ fate' = [fate EXCEPT ![pos] = x]
        /\ \/ /\ x = "shown"
              /\ pending' = Put(pending, SignatureOf(pos),
                                [crash |-> pos, awaiting |-> awaiting, core |-> pos \in core])
              /\ listed' = listed \cup {[crash |-> pos, awaiting |-> awaiting, core |-> pos \in core]}
           \/ x = "failed" /\ pending' = pending /\ listed' = listed
  BY <1>1 DEF WritePending, cur
<1>5. /\ pos \in Crashes /\ fate' \in [Crashes -> Fate] /\ fate'[pos] = x
      /\ \A c \in Crashes : c # pos => fate'[c] = fate[c]
      /\ Done' = Done \cup {pos} /\ Settled' = Settled \cup {pos}
      /\ Positions' /\ Stages' /\ SpoolHolds' /\ SpoolBounded' /\ IsFiniteSet(DOMAIN spool)'
      /\ SentOnce' /\ CountedOnce' /\ FatesKnown' /\ FirstTime' /\ CountsCover'
  BY <1>2, <1>3, <1>4, Finished
<1>6. PICK c0 \in Crashes, s0 \in Signature : c0 = pos /\ s0 = SignatureOf(c0)
  BY <1>2, <1>5, Journal DEF SignatureOf
<1>7. c0 > disk.cursor /\ \A c \in Crashes : c \in Nat
  BY <1>2, <1>3, <1>6, Working, Journal DEF Busy
<1>8. PICK report : /\ report = [crash |-> c0, awaiting |-> awaiting, core |-> c0 \in core]
                    /\ report \in PendingReports
  <2>1. [crash |-> c0, awaiting |-> awaiting, core |-> c0 \in core] \in PendingReports
    <3>1. CASE c0 \in core
      BY <3>1 DEF PendingReports
    <3>2. CASE c0 \notin core
      BY <3>2 DEF PendingReports
    <3> QED  BY <3>1, <3>2
  <2> QED  BY <1>6, <2>1
<1>9. UnsentCrashKeepsItsCore'
  BY <1>2, <1>5 DEF IInv, UnsentCrashKeepsItsCore, TypeOK, received, Crashes
<1>10. CASE x = "failed" /\ pending' = pending /\ listed' = listed
  <2>1. TypeOK'
    BY <1>2, <1>5, <1>10 DEF TypeOK, Crashes, PendingReports
  <2>2. PendingHolds'
    BY <1>2, <1>10 DEF IInv, PendingHolds, SignatureOf
  <2>3. \A c \in Crashes : fate'[c] = "shown" => fate[c] = "shown" /\ c # pos
    BY <1>5, <1>10
  <2>4. ShownStays'
    BY <1>2, <1>5, <1>10, <2>3 DEF IInv, ShownStays, SignatureOf, Crashes
  <2> QED  BY <1>5, <1>9, <2>1, <2>2, <2>4 DEF IInv
<1>11. CASE x = "shown" /\ pending' = Put(pending, s0, report) /\ listed' = listed \cup {report}
  <2>1. /\ DOMAIN pending' = DOMAIN pending \cup {s0} /\ pending'[s0] = report
        /\ \A r \in DOMAIN pending : r # s0 => pending'[r] = pending[r]
    BY <1>11 DEF Put
  <2>2. DOMAIN pending' \subseteq Signature /\ pending' \in [DOMAIN pending' -> PendingReports]
    <3>1. DOMAIN pending \subseteq Signature /\ \A r \in DOMAIN pending : pending[r] \in PendingReports
      BY <1>2 DEF TypeOK
    <3>2. \A r \in DOMAIN pending' : pending'[r] \in PendingReports
      BY <1>8, <2>1, <3>1
    <3>3. pending' = [r \in DOMAIN pending' |-> pending'[r]]
      BY <1>11 DEF Put
    <3> QED  BY <2>1, <3>1, <3>2, <3>3
  <2>3. TypeOK'
    <3>1. listed' \subseteq PendingReports
      BY <1>2, <1>8, <1>11 DEF TypeOK
    <3> QED  BY <1>2, <1>5, <2>2, <3>1 DEF TypeOK, Crashes, PendingReports
  <2>4. PendingHolds'
    <3>1. ASSUME NEW r \in DOMAIN pending'
          PROVE  SignatureOf(pending'[r].crash) = r /\ pending'[r] \in listed'
      <4>1. CASE r = s0
        BY <1>6, <1>8, <1>11, <2>1, <4>1
      <4>2. CASE r # s0
        BY <1>11, <2>1, <4>2 DEF IInv, PendingHolds
      <4> QED  BY <4>1, <4>2
    <3>2. ASSUME NEW e \in listed', e.awaiting PROVE e.crash \in unsure
      <4>1. CASE e = report
        <5>1. report.awaiting = awaiting /\ report.crash = c0
          BY <1>8
        <5> QED  BY <1>3, <1>6, <3>2, <4>1, <5>1
      <4>2. CASE e # report
        BY <1>11, <3>2, <4>2 DEF IInv, PendingHolds
      <4> QED  BY <4>1, <4>2
    <3> QED  BY <1>2, <3>1, <3>2 DEF PendingHolds, SignatureOf
  <2>5. ShownStays'
    <3> SUFFICES ASSUME NEW c \in Crashes, fate'[c] = "shown"
                 PROVE  \E d \in Crashes :
                          /\ SignatureOf(d) = SignatureOf(c)
                          /\ \/ d \in resolved
                             \/ /\ d >= c \/ c \notin Settled'
                                /\ SignatureOf(d) \in DOMAIN pending' /\ pending'[SignatureOf(d)].crash = d
      BY <1>2 DEF ShownStays, SignatureOf, Crashes
    <3>1. SignatureOf(c0) \in DOMAIN pending' /\ pending'[SignatureOf(c0)].crash = c0
      BY <1>6, <1>8, <2>1
    <3>2. CASE c = c0
      BY <1>7, <3>1, <3>2
    <3>3. CASE c # c0
      <4>1. fate[c] = "shown" /\ (c \in Settled' => c \in Settled)
        BY <1>5, <1>6, <3>3
      <4>2. PICK d \in Crashes :
              /\ SignatureOf(d) = SignatureOf(c)
              /\ \/ d \in resolved
                 \/ /\ d >= c \/ c \notin Settled
                    /\ SignatureOf(d) \in DOMAIN pending /\ pending[SignatureOf(d)].crash = d
        BY <4>1 DEF IInv, ShownStays
      <4>3. CASE d \in resolved \/ SignatureOf(d) # s0
        BY <2>1, <4>1, <4>2, <4>3
      <4>4. CASE SignatureOf(d) = s0
        <5>1. c <= c0 \/ c \notin Settled'
          <6>1. ASSUME c > c0 PROVE c \notin Settled
            <7>1. c \notin Done /\ Handled(c)
              BY <1>1, <1>3, <1>6, <4>1, <6>1, <1>7 DEF Done, Watching, Busy, Handled
            <7>2. disk.cursor # NoCursor
              BY <1>3, <1>6, <6>1, <7>1 DEF IInv, FirstTime, Watching, Busy
            <7>3. c \notin Past(disk.cursor)
              BY <1>2, <1>7, <6>1, <7>2, Cursors DEF Past
            <7> QED  BY <7>1, <7>3 DEF Settled
          <6>2. c = c0 \/ c < c0 \/ c > c0
            BY <1>7
          <6> QED  BY <1>5, <1>6, <6>1, <6>2, <3>3, <1>7
        <5> QED  BY <1>6, <1>7, <3>1, <4>2, <4>4, <5>1
      <4> QED  BY <4>3, <4>4
    <3> QED  BY <3>2, <3>3
  <2> QED  BY <1>5, <1>9, <2>3, <2>4, <2>5 DEF IInv
<1> QED  BY <1>4, <1>6, <1>8, <1>10, <1>11

\* What is trimmed makes room for one file.
LEMMA Trimmed ==
    ASSUME IInv
    PROVE  \E old \in SUBSET DOMAIN spool :
             /\ old = Oldest(Excess)
             /\ IsFiniteSet(DOMAIN spool \ old)
             /\ Cardinality(DOMAIN spool \ old) + 1 <= MaxSpool
<1>1. PICK old \in SUBSET DOMAIN spool : old = Oldest(Excess)
  BY DEF Oldest
<1>2. /\ IsFiniteSet(DOMAIN spool) /\ Cardinality(DOMAIN spool) \in Nat
      /\ Cardinality(DOMAIN spool) <= MaxSpool /\ MaxSpool \in Nat \ {0}
  BY LimitAssumption, FS_CardinalityType DEF IInv, SpoolBounded
<1>3. /\ IsFiniteSet(DOMAIN spool \ old) /\ Cardinality(DOMAIN spool \ old) \in Nat
      /\ Cardinality(DOMAIN spool \ old) <= Cardinality(DOMAIN spool)
  <2>1. DOMAIN spool \ old \in SUBSET DOMAIN spool
    OBVIOUS
  <2> QED  BY <1>2, <2>1, FS_Subset, FS_CardinalityType
<1>4. ASSUME Cardinality(DOMAIN spool) = MaxSpool
      PROVE  Cardinality(DOMAIN spool \ old) + 1 <= MaxSpool
  <2>1. Excess = 1
    BY <1>2, <1>4 DEF Excess
  <2>2. DOMAIN spool # {}
    BY <1>2, <1>4, FS_EmptySet
  <2>3. PICK k \in DOMAIN spool : k \in old
    BY <1>1, <2>1, <2>2, OldestExists DEF IInv
  <2>4. IsFiniteSet(DOMAIN spool \ {k}) /\ Cardinality(DOMAIN spool \ {k}) = MaxSpool - 1
    BY <1>2, <1>4, <2>3, FS_RemoveElement
  <2>5. DOMAIN spool \ old \in SUBSET (DOMAIN spool \ {k})
    BY <2>3
  <2>6. Cardinality(DOMAIN spool \ old) <= Cardinality(DOMAIN spool \ {k})
    BY <2>4, <2>5, FS_Subset
  <2> QED  BY <1>2, <1>3, <2>4, <2>6
<1>5. Cardinality(DOMAIN spool \ old) + 1 <= MaxSpool
  BY <1>2, <1>3, <1>4
<1>6. old = Oldest(Excess) /\ IsFiniteSet(DOMAIN spool \ old)
  BY <1>1, <1>3
<1> WITNESS old \in SUBSET DOMAIN spool
<1> QED  BY <1>5, <1>6

LEMMA SpoolBeginStep ==
    ASSUME IInv, SpoolBegin
    PROVE  IInv'
<1>1. /\ UNCHANGED <<journal, core, pending, listed, resolved, declined, fate, disk, starts, mem, pos, offered, batch,
                     copies, base, unsure>>
      /\ pc = "spool" /\ pc' \in {"spooling", "write_unconfirmed"} /\ TypeOK
  BY DEF SpoolBegin, machine, history, IInv
<1>2. Watching /\ Watching' /\ Busy /\ Busy' /\ Underway /\ Underway'
  BY <1>1 DEF Watching, Busy, Underway
<1>3. PICK old \in SUBSET DOMAIN spool :
        /\ old = Oldest(Excess)
        /\ IsFiniteSet(DOMAIN spool \ old)
        /\ Cardinality(DOMAIN spool \ old) + 1 <= MaxSpool
  BY Trimmed
<1>4. PICK c0 \in Crashes, k0 \in Keys : c0 = pos /\ k0 = Key(c0) /\ k0 = Key(pos)
  BY <1>1, <1>2, Working, Journal DEF Key
<1>5. /\ forfeited \cup old \subseteq forfeited' /\ forfeited' \subseteq forfeited \cup old \cup {k0}
      /\ pc' = "write_unconfirmed" => k0 \in forfeited'
      /\ \/ spool' = Put(Remove(spool, old), k0, Torn)
         \/ pc' = "write_unconfirmed" /\ spool' = Remove(spool, old)
  BY <1>3, <1>4 DEF SpoolBegin, cur
<1>6. /\ DOMAIN spool \ old \subseteq DOMAIN spool' /\ DOMAIN spool' \subseteq (DOMAIN spool \ old) \cup {k0}
      /\ \A k \in DOMAIN spool' : spool'[k] = Torn \/ (k \in DOMAIN spool /\ spool'[k] = spool[k])
      /\ pc' = "spooling" => k0 \in DOMAIN spool'
      /\ spool' = [k \in DOMAIN spool' |-> spool'[k]]
  <2>1. CASE spool' = Remove(spool, old) /\ pc' = "write_unconfirmed"
    BY <2>1 DEF Remove
  <2>2. CASE spool' = Put(Remove(spool, old), k0, Torn)
    <3>1. DOMAIN spool' = (DOMAIN spool \ old) \cup {k0}
      BY <2>2 DEF Remove, Put
    <3>2. \A k \in DOMAIN spool' : spool'[k] = IF k = k0 THEN Torn ELSE spool[k]
      BY <2>2 DEF Remove, Put
    <3>3. spool' = [k \in DOMAIN spool' |-> spool'[k]]
      BY <2>2 DEF Put
    <3> QED  BY <3>1, <3>2, <3>3
  <2> QED  BY <1>5, <2>1, <2>2
<1>7. TypeOK'
  <2>1. \A k \in DOMAIN spool' : spool'[k] \in Crashes \cup {Torn}
    BY <1>1, <1>6 DEF TypeOK
  <2>2. spool' \in [DOMAIN spool' -> Crashes \cup {Torn}]
    BY <1>6, <2>1
  <2>3. DOMAIN spool' \subseteq Keys /\ forfeited' \subseteq Keys
    BY <1>1, <1>4, <1>5, <1>6 DEF TypeOK
  <2>4. batch = {}
    BY <1>1 DEF IInv, Stages
  <2> QED  BY <1>1, <2>2, <2>3, <2>4 DEF TypeOK, Crashes, PendingReports
<1>8. IsFiniteSet(DOMAIN spool)' /\ SpoolBounded'
  <2>1. /\ IsFiniteSet(DOMAIN spool') /\ Cardinality(DOMAIN spool') \in Nat
        /\ Cardinality(DOMAIN spool \ old) \in Nat
        /\ Cardinality(DOMAIN spool') <= Cardinality(DOMAIN spool \ old) + 1
    BY <1>3, <1>6, Smaller
  <2> QED  BY <1>3, <2>1, LimitAssumption DEF SpoolBounded
<1>9. SpoolHolds'
  BY <1>1, <1>6 DEF IInv, SpoolHolds, Key
<1>10. /\ PendingHolds' /\ UnsentCrashKeepsItsCore' /\ CountedOnce'
       /\ SentOnce' /\ FirstTime' /\ Positions'
  BY <1>1, <1>2 DEF IInv, PendingHolds, UnsentCrashKeepsItsCore, CountedOnce,
                    SentOnce, FirstTime, Positions, SignatureOf, Handled, Crashes, received
<1>11. Stages'
  <2>1. batch = {} /\ pos \in unsure
    BY <1>1 DEF IInv, Stages, cur
  <2> QED  BY <1>1, <1>4, <1>5, <1>6, <2>1 DEF Stages, cur, Key
<1>12. Done' = Done /\ Settled' = Settled
  BY <1>1, <1>2 DEF Done, Settled, Past, Crashes
<1>13. FatesKnown'
  <2>1. ASSUME NEW c \in Settled, Handled(c) PROVE EventKept(c)' \/ (Key(c) \in forfeited)'
    <3>1. EventKept(c) \/ Key(c) \in forfeited
      BY <2>1 DEF IInv, FatesKnown
    <3> QED  BY <1>1, <1>5, <1>6, <3>1 DEF EventKept, Key, received, Crashes
  <2> QED  BY <1>1, <1>12, <2>1 DEF IInv, FatesKnown, Handled
<1>14. ShownStays'
  BY <1>1, <1>12 DEF IInv, ShownStays, SignatureOf, Crashes
<1>15. CountsCover'
  BY <1>1, <1>2 DEF IInv, CountsCover, Reported, SignatureOf, Handled, cur
<1> QED  BY <1>7, <1>8, <1>9, <1>10, <1>11, <1>13, <1>14, <1>15 DEF IInv

LEMMA SpoolEndStep ==
    ASSUME IInv, SpoolEnd
    PROVE  IInv'
<1>1. /\ UNCHANGED <<journal, core, pending, listed, resolved, declined, fate, forfeited, disk, starts, mem,
                     pos, offered, batch, copies, base, unsure>>
      /\ pc = "spooling" /\ pc' = "write_unconfirmed" /\ TypeOK
  BY DEF SpoolEnd, Goto, machine, history, IInv
<1>2. Watching /\ Watching' /\ Busy /\ Busy' /\ Underway /\ Underway'
  BY <1>1 DEF Watching, Busy, Underway
<1>3. PICK c0 \in Crashes, k0 \in Keys : c0 = pos /\ k0 = Key(c0) /\ k0 = Key(pos)
  BY <1>1, <1>2, Working, Journal DEF Key
<1>4. k0 \in DOMAIN spool /\ c0 \in unsure
  BY <1>1, <1>3 DEF IInv, Stages, cur
<1>5. /\ DOMAIN spool' = DOMAIN spool /\ spool'[k0] = c0
      /\ \A k \in DOMAIN spool : k # k0 => spool'[k] = spool[k]
      /\ spool' = [k \in DOMAIN spool' |-> spool'[k]]
  <2>1. spool' = Put(spool, k0, c0)
    BY <1>3 DEF SpoolEnd, cur
  <2> QED  BY <1>4, <2>1 DEF Put
<1>6. TypeOK'
  <2>1. \A k \in DOMAIN spool : spool'[k] \in Crashes \cup {Torn}
    BY <1>1, <1>5 DEF TypeOK
  <2>2. spool' \in [DOMAIN spool' -> Crashes \cup {Torn}]
    BY <1>5, <2>1
  <2> QED  BY <1>1, <1>5, <2>2 DEF TypeOK, Crashes, PendingReports
<1>7. SpoolHolds'
  BY <1>1, <1>3, <1>4, <1>5 DEF IInv, SpoolHolds, Key
<1>8. /\ PendingHolds' /\ UnsentCrashKeepsItsCore' /\ CountedOnce'
      /\ SentOnce' /\ FirstTime' /\ Positions' /\ SpoolBounded' /\ IsFiniteSet(DOMAIN spool)'
  BY <1>1, <1>2, <1>5
     DEF IInv, PendingHolds, UnsentCrashKeepsItsCore, CountedOnce, SpoolBounded,
         SentOnce, FirstTime, Positions, SignatureOf, Handled, Crashes, received
<1>9. Stages'
  <2>1. batch = {}
    BY <1>1 DEF IInv, Stages
  <2> QED  BY <1>1, <1>3, <1>4, <1>5, <2>1 DEF Stages, EventKept, cur, Key
<1>10. Done' = Done /\ Settled' = Settled
  BY <1>1, <1>2 DEF Done, Settled, Past, Crashes
<1>11. FatesKnown' /\ ShownStays'
  BY <1>1, <1>5, <1>10 DEF IInv, FatesKnown, ShownStays, EventKept, Handled, Key, SignatureOf,
                            Crashes, received
<1>12. CountsCover'
  BY <1>1, <1>2 DEF IInv, CountsCover, Reported, SignatureOf, Handled, cur
<1> QED  BY <1>5, <1>6, <1>7, <1>8, <1>9, <1>11, <1>12 DEF IInv

LEMMA SaveStep ==
    ASSUME IInv, SaveState
    PROVE  IInv'
<1>1. /\ UNCHANGED <<journal, core, pending, listed, resolved, declined, fate, spool, forfeited, starts,
                     pos, offered, batch, copies, base, unsure>>
      /\ pc = "save" /\ pc' = "watch" /\ TypeOK
      /\ mem' = [mem EXCEPT !.cursor = pos] /\ disk' \in {disk, mem'}
  BY DEF SaveState, Goto, machine, history, cur, IInv
<1>2. Watching /\ Watching' /\ Busy /\ ~Busy' /\ ~Underway /\ ~Underway'
  BY <1>1 DEF Watching, Busy, Underway
<1>3. /\ pos \in Crashes /\ pos > mem.cursor /\ disk.cursor <= mem.cursor /\ pos \in Nat /\ pos # NoCursor
      /\ pos <= Len(journal) /\ mem.cursor \in Nat /\ disk.cursor \in Nat /\ pos \in 0..MaxCrashes
  BY <1>1, <1>2, Working, Journal, Cursors, BoundAssumption DEF NoCursor, TypeOK
<1>4. mem' \in States /\ mem'.cursor = pos /\ mem'.counts = mem.counts
  BY <1>1, <1>3 DEF TypeOK, States
<1>5. /\ disk' \in States
      /\ \/ disk' = disk
         \/ disk' = mem' /\ disk'.cursor = pos /\ disk'.counts = mem.counts
  BY <1>1, <1>4 DEF TypeOK
<1>6. TypeOK'
  BY <1>1, <1>4, <1>5 DEF TypeOK, Crashes, PendingReports
<1>7. /\ PendingHolds' /\ UnsentCrashKeepsItsCore' /\ CountedOnce'
      /\ SpoolHolds' /\ SpoolBounded' /\ IsFiniteSet(DOMAIN spool)'
  BY <1>1 DEF IInv, PendingHolds, UnsentCrashKeepsItsCore, CountedOnce, SpoolHolds,
              SpoolBounded, SignatureOf, Key, Crashes, received
<1>8. Positions'
  BY <1>1, <1>2, <1>3, <1>4, <1>5 DEF Positions
<1>9. Stages'
  BY <1>1 DEF IInv, Stages
<1>10. SentOnce'
  BY <1>1, <1>2, <1>3, <1>4, Journal DEF IInv, SentOnce, received, Crashes
<1>11. FirstTime'
  BY <1>1, <1>2, <1>3, <1>5 DEF IInv, FirstTime, Handled, Crashes
<1>12. Done' = Done /\ Settled' \subseteq Settled
  <2>1. Done = 1..pos /\ Done' = 1..pos
    BY <1>1, <1>2 DEF Done
  <2>2. CASE disk' = disk
    BY <1>1, <2>1, <2>2 DEF Settled, Past, Crashes
  <2>3. CASE disk'.cursor = pos
    BY <1>3, <2>1, <2>3 DEF Settled, Past
  <2> QED  BY <1>5, <2>1, <2>2, <2>3
<1>13. FatesKnown' /\ ShownStays'
  BY <1>1, <1>12 DEF IInv, FatesKnown, ShownStays, EventKept, Handled, Key, SignatureOf,
                     Crashes, received
<1>14. CountsCover'
  <2> SUFFICES ASSUME NEW s \in Signature
               PROVE  /\ disk'.counts[s] >= Cardinality(Reported(s, disk'.cursor))
                      /\ mem.counts[s] >= Cardinality(Reported(s, pos))
    BY <1>1, <1>2, <1>4 DEF CountsCover, Reported, SignatureOf, Handled
  <2>1. /\ disk.counts[s] >= Cardinality(Reported(s, disk.cursor))
        /\ mem.counts[s] >= Cardinality(Reported(s, pos))
    BY <1>2 DEF IInv, CountsCover
  <2> QED  BY <1>5, <2>1
<1> QED  BY <1>6, <1>7, <1>8, <1>9, <1>10, <1>11, <1>13, <1>14 DEF IInv

-----------------------------------------------------------------------------
(* The end of the daemon *)

LEMMA KillStep ==
    ASSUME IInv, Kill
    PROVE  IInv'
<1>1. /\ UNCHANGED <<journal, core, pending, listed, resolved, declined, fate, spool, forfeited, disk, starts,
                     copies, base>> /\ offered' \in BOOLEAN
      /\ pc' = "down" /\ mem' = disk /\ pos' = 0 /\ batch' = {} /\ TypeOK
      /\ unsure' = unsure \cup (disk.cursor + 1)..pos
  BY DEF Kill, machine, IInv
<1>2. ~Watching' /\ ~Busy' /\ ~Underway'
  BY <1>1 DEF Watching, Busy, Underway
<1>3. /\ disk.cursor \in Nat /\ mem.cursor \in Nat /\ pos \in Nat /\ Len(journal) \in Nat
      /\ disk.cursor <= mem.cursor /\ mem.cursor <= Len(journal) /\ pos <= Len(journal)
      /\ Crashes = 1..Len(journal)
  BY <1>1, Working, Cursors, Journal
<1>4. TypeOK'
  <2>1. unsure' \subseteq Crashes
    BY <1>1, <1>3 DEF TypeOK
  <2>2. pos' \in 0..Len(journal)
    BY <1>1, <1>3
  <2> QED  BY <1>1, <2>1, <2>2 DEF TypeOK, Crashes, PendingReports
<1>5. /\ IsFiniteSet(DOMAIN spool)' /\ SpoolBounded' /\ UnsentCrashKeepsItsCore'
      /\ SpoolHolds' /\ PendingHolds' /\ CountedOnce'
  BY <1>1 DEF IInv, SpoolBounded, UnsentCrashKeepsItsCore, SpoolHolds, PendingHolds,
              CountedOnce, SignatureOf, Key, Crashes, received
<1>6. Positions' /\ Stages' /\ FirstTime'
  BY <1>1, <1>2, <1>3 DEF Positions, Stages, FirstTime
<1>7. SentOnce'
  <2> SUFFICES ASSUME NEW c \in received PROVE c \in unsure' \/ c <= disk.cursor
    BY <1>1 DEF SentOnce, received, Crashes
  <2>1. c \in Nat
    BY <1>3 DEF received
  <2>2. c \in unsure \/ c <= mem.cursor \/ (Busy /\ c = pos)
    BY DEF IInv, SentOnce
  <2>3. /\ Watching => mem.cursor <= pos
        /\ ~Watching => mem.cursor = disk.cursor
        /\ Busy => Watching
    BY DEF IInv, Positions, Watching
  <2>4. c \in unsure \/ c <= disk.cursor \/ (disk.cursor + 1 <= c /\ c <= pos)
    BY <1>3, <2>1, <2>2, <2>3
  <2> QED  BY <1>1, <1>3, <2>1, <2>4
<1>8. Done' = 1..disk.cursor /\ Done' \subseteq Done /\ Settled' \subseteq Settled
  <2>1. Done' = 1..disk.cursor
    BY <1>1, <1>2 DEF Done
  <2>2. /\ Busy => disk.cursor <= pos - 1
        /\ Watching => disk.cursor <= pos
    BY <1>3, Working DEF IInv, Positions
  <2>3. 1..disk.cursor \subseteq Done
    BY <1>3, <2>2 DEF Done, Watching, Busy
  <2>4. Past(disk.cursor)' = Past(disk.cursor)
    BY <1>1 DEF Past, Crashes
  <2> QED  BY <2>1, <2>3, <2>4 DEF Settled
<1>9. FatesKnown' /\ ShownStays'
  BY <1>1, <1>8 DEF IInv, FatesKnown, ShownStays, EventKept, Handled, Key, SignatureOf,
                    Crashes, received
<1>10. CountsCover'
  BY <1>1, <1>2 DEF IInv, CountsCover, Reported, SignatureOf, Handled
<1> QED  BY <1>4, <1>5, <1>6, <1>7, <1>9, <1>10 DEF IInv

LEMMA ShutdownStep ==
    ASSUME IInv, Shutdown
    PROVE  IInv'
<1>1. /\ UNCHANGED <<journal, core, pending, listed, resolved, declined, fate, spool, forfeited, starts,
                     offered, batch, copies, base, unsure>>
      /\ pc = "watch" /\ pc' = "down" /\ disk' = mem /\ mem' = mem /\ pos' = 0 /\ TypeOK
  BY DEF Shutdown, Goto, machine, history, IInv
<1>2. Watching /\ ~Watching' /\ ~Busy /\ ~Busy' /\ ~Underway /\ ~Underway'
  BY <1>1 DEF Watching, Busy, Underway
<1>3. /\ mem.cursor \in Nat /\ pos \in Nat /\ Len(journal) \in Nat
      /\ mem.cursor \in {NoCursor, pos} /\ mem.cursor <= Len(journal) /\ pos <= Len(journal)
      /\ disk.cursor <= mem.cursor /\ disk.cursor \in Nat
      /\ Crashes = 1..Len(journal)
  BY <1>1, Working, Cursors, Journal DEF IInv, Positions
<1>4. TypeOK'
  BY <1>1, <1>3 DEF TypeOK, Crashes, PendingReports
<1>5. /\ IsFiniteSet(DOMAIN spool)' /\ SpoolBounded' /\ UnsentCrashKeepsItsCore'
      /\ SpoolHolds' /\ PendingHolds' /\ CountedOnce'
  BY <1>1 DEF IInv, SpoolBounded, UnsentCrashKeepsItsCore, SpoolHolds, PendingHolds,
              CountedOnce, SignatureOf, Key, Crashes, received
<1>6. Positions' /\ Stages' /\ FirstTime'
  BY <1>1, <1>2, <1>3 DEF IInv, Positions, Stages, FirstTime
<1>7. SentOnce'
  BY <1>1, <1>2 DEF IInv, SentOnce, received, Crashes
<1>8. Done' \subseteq Done /\ Settled' \subseteq Settled
  <2>1. Done = 1..pos /\ Done' = 1..mem.cursor
    BY <1>1, <1>2 DEF Done
  <2>2. Done' \subseteq Done
    BY <1>3, <2>1 DEF NoCursor
  <2>3. Past(disk.cursor)' \subseteq Settled
    <3>1. CASE mem.cursor = NoCursor
      BY <1>1, <1>3, <3>1 DEF Past, Crashes, Settled, NoCursor
    <3>2. CASE mem.cursor # NoCursor
      BY <1>1, <1>3, <2>1, <3>2 DEF Past, Settled
    <3> QED  BY <3>1, <3>2
  <2> QED  BY <2>2, <2>3 DEF Settled
<1>9. FatesKnown' /\ ShownStays'
  BY <1>1, <1>8 DEF IInv, FatesKnown, ShownStays, EventKept, Handled, Key, SignatureOf,
                    Crashes, received
<1>10. CountsCover'
  <2> SUFFICES ASSUME NEW s \in Signature
               PROVE  mem.counts[s] >= Cardinality(Reported(s, mem.cursor))
    BY <1>1, <1>2 DEF CountsCover, Reported, SignatureOf, Handled
  <2>1. mem.counts[s] >= Cardinality(Reported(s, pos)) /\ mem.counts[s] \in Nat
    BY <1>1, <1>2, Cursors DEF IInv, CountsCover
  <2>2. CASE mem.cursor = NoCursor
    <3>1. Reported(s, mem.cursor) = {}
      BY <1>1, <2>2, Cursors DEF Reported, NoCursor
    <3> QED  BY <2>1, <3>1, FS_EmptySet
  <2>3. CASE mem.cursor = pos
    BY <2>1, <2>3
  <2> QED  BY <1>3, <2>2, <2>3
<1> QED  BY <1>4, <1>5, <1>6, <1>7, <1>9, <1>10 DEF IInv

-----------------------------------------------------------------------------
(* The environment *)

\* A crash is appended to the journal and to its histories.
LEMMA Logged ==
    ASSUME TypeOK, NEW s \in Signature, NEW t \in 0..MaxSecond, NewCrash(s, t),
           NEW n \in Nat, n = Len(journal) + 1
    PROVE  /\ Len(journal)' = n /\ n <= MaxCrashes /\ n \notin Crashes /\ Crashes' = Crashes \cup {n}
           /\ journal' \in Seq(Keys) /\ fate' \in [Crashes' -> Fate] /\ copies' \in [Crashes' -> 0..2]
           /\ fate'[n] = "unseen" /\ copies'[n] = 0 /\ received' = received
           /\ \A c \in Crashes : /\ Key(c)' = Key(c) /\ SignatureOf(c)' = SignatureOf(c)
                                 /\ fate'[c] = fate[c] /\ copies'[c] = copies[c]
                                 /\ Handled(c)' = Handled(c)
<1>1. Len(journal) \in Nat /\ Crashes = 1..Len(journal) /\ journal \in Seq(Keys)
  BY Journal DEF TypeOK
<1>2. Len(journal) < MaxCrashes /\ MaxCrashes \in Nat
  BY BoundAssumption DEF NewCrash
<1>3. PICK k \in Keys : k = [signature |-> s, second |-> t]
  BY DEF Keys
<1>4. /\ journal' \in Seq(Keys) /\ Len(journal') = n
      /\ \A c \in 1..Len(journal) : journal'[c] = journal[c]
  <2>1. journal' = Append(journal, k)
    BY <1>3 DEF NewCrash
  <2> QED  BY <1>1, <2>1, AppendProperties
<1>5. Crashes' = 1..n
  <2>1. DOMAIN journal' = 1..Len(journal')
    BY <1>4, LenProperties
  <2> QED  BY <1>4, <2>1 DEF Crashes
<1>6. Crashes' = Crashes \cup {n} /\ n \notin Crashes /\ n <= MaxCrashes
  BY <1>1, <1>2, <1>5
<1>7. /\ fate' \in [Crashes' -> Fate] /\ fate'[n] = "unseen"
      /\ \A c \in Crashes : fate'[c] = fate[c]
  <2>1. fate \in [1..Len(journal) -> Fate] /\ "unseen" \in Fate
    BY <1>1 DEF TypeOK, Fate
  <2>2. fate' = Append(fate, "unseen")
    BY DEF NewCrash
  <2> HIDE DEF Fate
  <2>3. fate \in Seq(Fate) /\ Len(fate) = Len(journal)
    <3>1. fate \in Seq(Fate)
      BY <1>1, <2>1
    <3> QED  BY <1>1, <2>1, <3>1, LenProperties
  <2> QED  BY <1>1, <1>5, <2>1, <2>2, <2>3, Appended
<1>8. /\ copies' \in [Crashes' -> 0..2] /\ copies'[n] = 0
      /\ \A c \in Crashes : copies'[c] = copies[c]
  <2>1. copies \in [1..Len(journal) -> 0..2] /\ 0 \in 0..2
    BY <1>1 DEF TypeOK
  <2>2. copies' = Append(copies, 0)
    BY DEF NewCrash
  <2>3. copies \in Seq(0..2) /\ Len(copies) = Len(journal)
    <3>1. copies \in Seq(0..2)
      BY <1>1, <2>1
    <3> QED  BY <1>1, <2>1, <3>1, LenProperties
  <2> QED  BY <1>1, <1>5, <2>1, <2>2, <2>3, Appended
<1>9. received' = received
  BY <1>6, <1>8 DEF received
<1>10. \A c \in Crashes : Key(c)' = Key(c) /\ SignatureOf(c)' = SignatureOf(c)
  BY <1>1, <1>4 DEF Key, SignatureOf
<1>11. \A c \in Crashes : Handled(c)' = Handled(c)
  BY <1>7 DEF Handled
<1> QED  BY <1>4, <1>6, <1>7, <1>8, <1>9, <1>10, <1>11

LEMMA NewCrashStep ==
    ASSUME IInv, NEW s \in Signature, NEW t \in 0..MaxSecond, NewCrash(s, t)
    PROVE  IInv'
<1>1. /\ UNCHANGED <<pending, listed, resolved, declined, spool, forfeited, disk, starts, pc, mem, pos, offered, batch,
                     base, unsure>>
      /\ core' = core \cup {Len(journal')} /\ TypeOK
  BY DEF NewCrash, history, IInv
<1>2. /\ Watching' = Watching /\ Busy' = Busy /\ Underway' = Underway
      /\ Underway => Busy
  BY <1>1 DEF Watching, Busy, Underway
<1>3. PICK n \in Nat : n = Len(journal) + 1
  BY <1>1, Journal
<1>4. /\ Len(journal)' = n /\ n <= MaxCrashes /\ n \notin Crashes /\ Crashes' = Crashes \cup {n}
      /\ journal' \in Seq(Keys) /\ fate' \in [Crashes' -> Fate] /\ copies' \in [Crashes' -> 0..2]
      /\ fate'[n] = "unseen" /\ copies'[n] = 0 /\ received' = received
      /\ \A c \in Crashes : /\ Key(c)' = Key(c) /\ SignatureOf(c)' = SignatureOf(c)
                            /\ fate'[c] = fate[c] /\ copies'[c] = copies[c]
                            /\ Handled(c)' = Handled(c)
  BY <1>1, <1>3, Logged
<1>5. /\ Len(journal) \in Nat /\ Crashes = 1..Len(journal) /\ pos \in 0..Len(journal)
      /\ disk.cursor \in Nat /\ mem.cursor \in Nat /\ disk.cursor <= mem.cursor
      /\ mem.cursor <= Len(journal) /\ base \in 0..Len(journal) /\ pos \in Nat /\ base \in Nat
      /\ Busy => pos \in Crashes
  BY <1>1, Working, Cursors, Journal DEF TypeOK
<1>6. /\ core \subseteq Crashes /\ resolved \subseteq Crashes /\ unsure \subseteq Crashes
      /\ received \subseteq Crashes
  BY <1>1 DEF TypeOK, received
<1>7. TypeOK'
  <2>1. PendingReports \subseteq PendingReports'
    BY <1>4 DEF PendingReports
  <2>2. pending' \in [DOMAIN pending' -> PendingReports'] /\ listed' \subseteq PendingReports'
    BY <1>1, <2>1 DEF TypeOK
  <2>3. spool' \in [DOMAIN spool' -> Crashes' \cup {Torn}]
    BY <1>1, <1>4 DEF TypeOK
  <2>4. /\ core' \subseteq Crashes' /\ resolved' \subseteq Crashes' /\ unsure' \subseteq Crashes'
        /\ pos' \in 0..n /\ base' \in 0..n
    BY <1>1, <1>3, <1>4, <1>5, <1>6
  <2> QED  BY <1>1, <1>4, <2>2, <2>3, <2>4 DEF TypeOK
<1>8. IsFiniteSet(DOMAIN spool)' /\ SpoolBounded' /\ Positions'
  BY <1>1, <1>2, <1>3, <1>4, <1>5 DEF IInv, SpoolBounded, Positions
<1>9. Stages'
  <2>1. \A c \in Crashes : EventKept(c) => EventKept(c)'
    BY <1>1, <1>4, <1>6 DEF EventKept
  <2>2. Underway => (EventKept(pos) => EventKept(pos)') /\ Key(pos)' = Key(pos)
    BY <1>1, <1>2, <1>4, <1>5, <2>1 DEF EventKept, Key
  <2> QED  BY <1>1, <1>2, <1>4, <2>2 DEF IInv, Stages, cur, Underway
<1>10. SpoolHolds'
  BY <1>1, <1>4, <1>6 DEF IInv, SpoolHolds
<1>11. PendingHolds'
  <2>1. \A r \in DOMAIN pending : pending[r].crash \in Crashes
    BY <1>1 DEF TypeOK, PendingReports
  <2> QED  BY <1>1, <1>4, <2>1 DEF IInv, PendingHolds
<1>12. UnsentCrashKeepsItsCore' /\ CountedOnce'
  BY <1>1, <1>4, <1>6 DEF IInv, UnsentCrashKeepsItsCore, CountedOnce
<1>13. SentOnce'
  BY <1>1, <1>2, <1>4 DEF IInv, SentOnce
<1>14. FirstTime'
  BY <1>1, <1>2, <1>4 DEF IInv, FirstTime, Handled
<1>15. Done' = Done /\ Settled' \subseteq Settled \cup {n} /\ Done \subseteq Crashes /\ Settled \subseteq Crashes
  <2>1. Done' = Done
    BY <1>1, <1>2 DEF Done
  <2>2. Past(disk.cursor)' \subseteq Past(disk.cursor) \cup {n}
    BY <1>1, <1>4 DEF Past
  <2>3. Done \subseteq Crashes /\ Past(disk.cursor) \subseteq Crashes
    BY <1>2, <1>5 DEF Done, Past
  <2> QED  BY <2>1, <2>2, <2>3 DEF Settled
<1>16. FatesKnown'
  <2>1. \A c \in Done' : fate'[c] \notin {"unseen", "backlog"}
    BY <1>4, <1>15 DEF IInv, FatesKnown
  <2>2. ASSUME NEW c \in Settled', Handled(c)' PROVE EventKept(c)' \/ Key(c)' \in forfeited
    <3>1. c \in Settled /\ c \in Crashes
      BY <1>4, <1>15, <2>2 DEF Handled
    <3>2. EventKept(c) \/ Key(c) \in forfeited
      BY <1>4, <2>2, <3>1 DEF IInv, FatesKnown
    <3> QED  BY <1>1, <1>4, <1>6, <3>1, <3>2 DEF EventKept
  <2> QED  BY <1>1, <2>1, <2>2 DEF FatesKnown
<1>17. ShownStays'
  <2> SUFFICES ASSUME NEW c \in Crashes', fate'[c] = "shown"
               PROVE  \E d \in Crashes' :
                        /\ SignatureOf(d)' = SignatureOf(c)'
                        /\ \/ d \in resolved
                           \/ /\ d >= c \/ c \notin Settled'
                              /\ SignatureOf(d)' \in DOMAIN pending /\ pending[SignatureOf(d)'].crash = d
    BY <1>1 DEF ShownStays
  <2>1. c \in Crashes /\ fate[c] = "shown" /\ (c \notin Settled => c \notin Settled')
    BY <1>4, <1>15
  <2>2. PICK d \in Crashes :
          /\ SignatureOf(d) = SignatureOf(c)
          /\ \/ d \in resolved
             \/ /\ d >= c \/ c \notin Settled
                /\ SignatureOf(d) \in DOMAIN pending /\ pending[SignatureOf(d)].crash = d
    BY <2>1 DEF IInv, ShownStays
  <2>3. d \in Crashes' /\ SignatureOf(d)' = SignatureOf(d) /\ SignatureOf(c)' = SignatureOf(c)
    BY <1>4, <2>1, <2>2
  <2> QED  BY <2>1, <2>2, <2>3
<1>18. CountsCover'
  <2>1. ASSUME NEW r \in Signature, NEW m \in Int, m <= Len(journal)
        PROVE  Reported(r, m)' = Reported(r, m)
    <3>1. \A c \in (base + 1)..m : c \in Crashes
      BY <1>5, <2>1
    <3> QED  BY <1>1, <1>4, <3>1 DEF Reported
  <2>2. \A r \in Signature : /\ Reported(r, disk.cursor)' = Reported(r, disk.cursor)
                             /\ Reported(r, pos)' = Reported(r, pos)
                             /\ Reported(r, pos - 1)' = Reported(r, pos - 1)
    BY <1>1, <1>5, <2>1
  <2>3. Underway => SignatureOf(pos)' = SignatureOf(pos)
    BY <1>1, <1>2, <1>4, <1>5
  <2> QED  BY <1>1, <1>2, <2>2, <2>3 DEF IInv, CountsCover, cur
<1> QED  BY <1>7, <1>8, <1>9, <1>10, <1>11, <1>12, <1>13, <1>14, <1>16, <1>17, <1>18 DEF IInv

\* What expires takes no part in the cursor and the counts.
LEMMA Expired ==
    ASSUME NEW st \in States, NEW x \in Executable, NEW left,
           left = [st EXCEPT !.recent[x] = IF @ = 0 THEN 0 ELSE @ - 1]
    PROVE  left \in States /\ left.cursor = st.cursor /\ left.counts = st.counts
<1> DEFINE recent == [st.recent EXCEPT ![x] = IF @ = 0 THEN 0 ELSE @ - 1]
<1>1. /\ st.recent \in [Executable -> Nat] /\ st.counts \in [Signature -> Nat]
      /\ st.cursor \in 0..MaxCrashes
      /\ st = [cursor |-> st.cursor, recent |-> st.recent, counts |-> st.counts]
  BY DEF States
<1>2. left = [cursor |-> st.cursor, recent |-> recent, counts |-> st.counts]
  BY <1>1
<1>3. recent \in [Executable -> Nat]
  BY <1>1
<1> HIDE DEF recent
<1>4. left \in States
  BY <1>1, <1>2, <1>3 DEF States
<1> QED  BY <1>2, <1>4

LEMMA ExpireStep ==
    ASSUME IInv, NEW x \in Executable, ChargeExpires(x)
    PROVE  IInv'
<1>1. /\ UNCHANGED <<journal, core, pending, listed, resolved, declined, fate, spool, forfeited, starts, pc,
                     pos, offered, batch, copies, base, unsure>>
      /\ mem' = [mem EXCEPT !.recent[x] = IF @ = 0 THEN 0 ELSE @ - 1]
      /\ disk' = [disk EXCEPT !.recent[x] = IF @ = 0 THEN 0 ELSE @ - 1]
      /\ TypeOK /\ mem \in States /\ disk \in States
  BY DEF ChargeExpires, machine, history, IInv, TypeOK
<1>2. /\ mem' \in States /\ mem'.cursor = mem.cursor /\ mem'.counts = mem.counts
      /\ disk' \in States /\ disk'.cursor = disk.cursor /\ disk'.counts = disk.counts
  BY <1>1, Expired
<1>3. Watching' = Watching /\ Busy' = Busy /\ Underway' = Underway
  BY <1>1 DEF Watching, Busy, Underway
<1>4. TypeOK'
  BY <1>1, <1>2 DEF TypeOK, Crashes, PendingReports
<1>5. /\ IsFiniteSet(DOMAIN spool)' /\ SpoolBounded' /\ UnsentCrashKeepsItsCore'
      /\ SpoolHolds' /\ PendingHolds' /\ CountedOnce' /\ Stages'
  BY <1>1, <1>3 DEF IInv, SpoolBounded, UnsentCrashKeepsItsCore, SpoolHolds,
                    PendingHolds, CountedOnce, Stages, SignatureOf, Key, EventKept, Crashes,
                    received, cur
<1>6. Positions' /\ SentOnce' /\ FirstTime'
  BY <1>1, <1>2, <1>3 DEF IInv, Positions, SentOnce, FirstTime, Handled, Crashes, received
<1>7. Done' = Done /\ Settled' = Settled
  BY <1>1, <1>2, <1>3 DEF Done, Settled, Past, Crashes
<1>8. FatesKnown' /\ ShownStays'
  BY <1>1, <1>7 DEF IInv, FatesKnown, ShownStays, EventKept, Handled, Key, SignatureOf,
                    Crashes, received
<1>9. CountsCover'
  BY <1>1, <1>2, <1>3 DEF IInv, CountsCover, Reported, SignatureOf, Handled, cur
<1> QED  BY <1>4, <1>5, <1>6, <1>8, <1>9 DEF IInv

\* What the front ends do leaves the daemon and its spool alone.
LEMMA FrontEnd ==
    ASSUME IInv, UNCHANGED <<journal, listed, fate, spool, forfeited, disk, starts, pc, mem, pos,
                             offered, batch, copies, base, unsure>>,
           core' \subseteq core, resolved \subseteq resolved', resolved' \subseteq Crashes,
           declined' \subseteq Signature, core \ core' \subseteq resolved',
           DOMAIN pending' \subseteq DOMAIN pending, pending' = [r \in DOMAIN pending' |-> pending[r]],
           \A r \in DOMAIN pending \ DOMAIN pending' : \E d \in resolved' : SignatureOf(d) = r
    PROVE  IInv'
<1>1. TypeOK
  BY DEF IInv
<1>2. \A r \in DOMAIN pending' : pending'[r] = pending[r]
  OBVIOUS
<1>3. Watching' = Watching /\ Busy' = Busy /\ Underway' = Underway
  BY DEF Watching, Busy, Underway
<1>4. TypeOK'
  <2>1. PendingReports' = PendingReports /\ Crashes' = Crashes
    BY DEF PendingReports, Crashes
  <2>2. core' \subseteq Crashes /\ DOMAIN pending' \subseteq Signature
    BY <1>1 DEF TypeOK
  <2>3. pending' \in [DOMAIN pending' -> PendingReports]
    BY <1>1, <1>2 DEF TypeOK
  <2> QED  BY <1>1, <2>1, <2>2, <2>3 DEF TypeOK
<1>5. /\ IsFiniteSet(DOMAIN spool)' /\ SpoolBounded' /\ SpoolHolds' /\ CountedOnce' /\ Stages'
      /\ Positions' /\ SentOnce' /\ FirstTime'
  BY <1>3 DEF IInv, SpoolBounded, SpoolHolds, CountedOnce, Stages, Positions, SentOnce, FirstTime,
              EventKept, Handled, Key, Crashes, received, cur
<1>6. UnsentCrashKeepsItsCore'
  BY DEF IInv, UnsentCrashKeepsItsCore, Crashes, received
<1>7. PendingHolds'
  BY <1>2 DEF IInv, PendingHolds, SignatureOf
<1>8. Done' = Done /\ Settled' = Settled
  BY <1>3 DEF Done, Settled, Past, Crashes
<1>9. FatesKnown'
  BY <1>8 DEF IInv, FatesKnown, EventKept, Handled, Key, Crashes, received
<1>10. ShownStays'
  <2>1. \A c \in Crashes : SignatureOf(c)' = SignatureOf(c)
    BY DEF SignatureOf
  <2>2. Crashes' = Crashes /\ fate' = fate
    BY DEF Crashes
  <2>3. ASSUME NEW c \in Crashes, fate[c] = "shown"
        PROVE  \E d \in Crashes :
                 /\ SignatureOf(d) = SignatureOf(c)
                 /\ \/ d \in resolved'
                    \/ /\ d >= c \/ c \notin Settled
                       /\ SignatureOf(d) \in DOMAIN pending' /\ pending'[SignatureOf(d)].crash = d
    <3>1. PICK d \in Crashes :
            /\ SignatureOf(d) = SignatureOf(c)
            /\ \/ d \in resolved
               \/ /\ d >= c \/ c \notin Settled
                  /\ SignatureOf(d) \in DOMAIN pending /\ pending[SignatureOf(d)].crash = d
      BY <2>3 DEF IInv, ShownStays
    <3>2. CASE d \in resolved \/ SignatureOf(d) \in DOMAIN pending'
      BY <1>2, <3>1, <3>2
    <3>3. CASE d \notin resolved /\ SignatureOf(d) \notin DOMAIN pending'
      BY <3>1, <3>3
    <3> QED  BY <3>2, <3>3
  <2> QED  BY <1>8, <2>1, <2>2, <2>3 DEF ShownStays
<1>11. CountsCover'
  BY <1>3 DEF IInv, CountsCover, Reported, SignatureOf, Handled, cur
<1> QED  BY <1>4, <1>5, <1>6, <1>7, <1>9, <1>10, <1>11 DEF IInv

\* A listed report is one of a crash in the journal.
LEMMA Listed ==
    ASSUME TypeOK, NEW e \in listed
    PROVE  /\ e.crash \in Crashes /\ e.awaiting \in BOOLEAN /\ e.core \in BOOLEAN
           /\ SignatureOf(e.crash) \in Signature
<1>1. e.crash \in Crashes /\ e.awaiting \in BOOLEAN /\ e.core \in BOOLEAN
  BY DEF TypeOK, PendingReports
<1> QED  BY <1>1, Journal DEF SignatureOf

LEMMA RemoveCoreStep ==
    ASSUME IInv, NEW e \in listed, RemoveCore(e)
    PROVE  IInv'
<1>1. /\ UNCHANGED <<journal, pending, listed, declined, fate, spool, forfeited, disk, starts, pc, mem, pos,
                     offered, batch, copies, base, unsure>>
      /\ core' = core \ {e.crash} /\ resolved' = resolved \cup {e.crash} /\ TypeOK
  BY DEF RemoveCore, history, IInv
<1>2. e.crash \in Crashes
  BY <1>1, Listed
<1>3. resolved' \subseteq Crashes /\ declined' \subseteq Signature /\ core \ core' \subseteq resolved'
  BY <1>1, <1>2 DEF TypeOK
<1>4. pending' = [r \in DOMAIN pending' |-> pending[r]]
  BY <1>1 DEF TypeOK
<1> QED  BY <1>1, <1>3, <1>4, FrontEnd

LEMMA RemoveReportStep ==
    ASSUME IInv, NEW c \in Crashes, RemoveReport(c)
    PROVE  IInv'
<1>1. /\ UNCHANGED <<journal, core, listed, resolved, declined, fate, spool, forfeited, disk, starts, pc,
                     mem, pos, offered, batch, copies, base, unsure>>
      /\ c \in resolved /\ pending' = Remove(pending, {SignatureOf(c)}) /\ TypeOK
  BY DEF RemoveReport, history, IInv
<1>2. /\ DOMAIN pending' = DOMAIN pending \ {SignatureOf(c)}
      /\ pending' = [r \in DOMAIN pending' |-> pending[r]]
  BY <1>1 DEF Remove
<1>3. resolved' \subseteq Crashes /\ declined' \subseteq Signature
  BY <1>1 DEF TypeOK
<1> QED  BY <1>1, <1>2, <1>3, FrontEnd

LEMMA DeclineStep ==
    ASSUME IInv, NEW e \in listed, DeclineForever(e)
    PROVE  IInv'
<1>1. /\ UNCHANGED <<journal, core, pending, listed, resolved, fate, spool, forfeited, disk, starts, pc,
                     mem, pos, offered, batch, copies, base, unsure>>
      /\ declined' = declined \cup {SignatureOf(e.crash)} /\ TypeOK
  BY DEF DeclineForever, history, IInv
<1>2. resolved' \subseteq Crashes /\ declined' \subseteq Signature
  BY <1>1, Listed DEF TypeOK
<1>3. pending' = [r \in DOMAIN pending' |-> pending[r]]
  BY <1>1 DEF TypeOK
<1> QED  BY <1>1, <1>2, <1>3, FrontEnd

LEMMA AnnounceStep ==
    ASSUME IInv, NEW e \in listed, Announce(e)
    PROVE  IInv'
<1>1. /\ UNCHANGED <<journal, core, pending, listed, resolved, declined, fate, spool, forfeited, disk, starts,
                     pc, mem, pos, offered, batch, base, unsure>>
      /\ e.awaiting /\ TypeOK
  BY DEF Announce, machine, history, IInv
<1>2. PICK c0 \in Crashes : c0 = e.crash
  BY <1>1, Listed
<1>3. c0 \in unsure /\ copies' = Counted({c0})
  BY <1>1, <1>2 DEF IInv, PendingHolds, Announce
<1>4. PICK sent \in SUBSET {c0} : copies' = Counted(sent)
  BY <1>3
<1>5. /\ copies' \in [Crashes -> 0..2]
      /\ received \subseteq received' /\ received' \subseteq received \cup {c0}
      /\ \A c \in Crashes : copies'[c] = 2 => copies[c] = 2 \/ c = c0
  <2>1. /\ copies' \in [Crashes -> 0..2]
        /\ received \subseteq received' /\ received' \subseteq received \cup sent
        /\ \A c \in Crashes : c \in sent => c \in received'
        /\ \A c \in Crashes : copies'[c] = 2 => copies[c] = 2 \/ (c \in sent /\ c \in received)
    BY <1>1, <1>4, CountedIs
  <2> QED  BY <1>4, <2>1
<1>6. Watching' = Watching /\ Busy' = Busy /\ Underway' = Underway
  BY <1>1 DEF Watching, Busy, Underway
<1>7. TypeOK'
  BY <1>1, <1>5 DEF TypeOK, Crashes, PendingReports
<1>8. /\ IsFiniteSet(DOMAIN spool)' /\ SpoolBounded' /\ SpoolHolds' /\ PendingHolds'
      /\ Positions' /\ FirstTime'
  BY <1>1, <1>6 DEF IInv, SpoolBounded, SpoolHolds, PendingHolds, Positions,
                    FirstTime, Handled, Key, SignatureOf, Crashes
<1>9. Stages'
  BY <1>1, <1>5 DEF IInv, Stages, EventKept, Key, cur
<1>10. UnsentCrashKeepsItsCore' /\ SentOnce'
  BY <1>1, <1>3, <1>5, <1>6 DEF IInv, UnsentCrashKeepsItsCore, SentOnce, Crashes
<1>11. CountedOnce'
  BY <1>1, <1>3, <1>5 DEF IInv, CountedOnce, Crashes
<1>12. Done' = Done /\ Settled' = Settled
  BY <1>1, <1>6 DEF Done, Settled, Past, Crashes
<1>13. FatesKnown' /\ ShownStays'
  BY <1>1, <1>5, <1>12 DEF IInv, FatesKnown, ShownStays, EventKept, Handled, Key, SignatureOf, Crashes
<1>14. CountsCover'
  BY <1>1, <1>6 DEF IInv, CountsCover, Reported, SignatureOf, Handled, cur
<1> QED  BY <1>7, <1>8, <1>9, <1>10, <1>11, <1>13, <1>14 DEF IInv

-----------------------------------------------------------------------------
(* The theorems *)

LEMMA Stuttering ==
    ASSUME IInv, UNCHANGED vars
    PROVE  IInv'
<1>1. /\ UNCHANGED <<journal, core, pending, listed, resolved, declined, fate, spool, forfeited, disk, starts,
                     pc, mem, pos, offered, batch, copies, base, unsure>>
  BY DEF vars, machine, history
<1>2. TypeOK' /\ IsFiniteSet(DOMAIN spool)' /\ SpoolBounded' /\ Positions' /\ Stages' /\ SpoolHolds'
  BY <1>1 DEF IInv, TypeOK, SpoolBounded, Positions, Stages, SpoolHolds, Watching, Busy, Underway,
              PendingReports, EventKept, SignatureOf, Key, Crashes, received, cur
<1>3. PendingHolds' /\ UnsentCrashKeepsItsCore' /\ SentOnce' /\ CountedOnce' /\ FirstTime'
  BY <1>1 DEF IInv, PendingHolds, UnsentCrashKeepsItsCore, SentOnce, CountedOnce,
              FirstTime, Watching, Busy, Underway, Handled, SignatureOf, Crashes, received
<1>4. Done' = Done /\ Settled' = Settled
  BY <1>1 DEF Done, Settled, Past, Watching, Busy, Underway, Crashes
<1>5. FatesKnown' /\ ShownStays'
  BY <1>1, <1>4 DEF IInv, FatesKnown, ShownStays, EventKept, Handled, Key, SignatureOf, Crashes, received
<1>6. CountsCover'
  BY <1>1 DEF IInv, CountsCover, Reported, SignatureOf, Handled, Watching, Busy, Underway, cur
<1> QED  BY <1>2, <1>3, <1>5, <1>6 DEF IInv

\* The invariant holds in every state that the daemon, its kills and its
\* environment can reach.
THEOREM Inductive == Spec => []IInv
<1>1. IInv /\ [Next]_vars => IInv'
  <2> SUFFICES ASSUME IInv, [Next]_vars PROVE IInv'
    OBVIOUS
  <2>1. CASE Daemon
    BY <2>1, StartStep, DrainStep, RemoveStep, OpenStep, TakeStep, AskStep, DropStep, WriteStep,
       SpoolBeginStep, SpoolEndStep, SaveStep DEF Daemon
  <2>2. CASE Kill \/ Shutdown
    BY <2>2, KillStep, ShutdownStep
  <2>3. CASE Environment
    BY <2>3, NewCrashStep, ExpireStep, RemoveCoreStep, RemoveReportStep, DeclineStep, AnnounceStep DEF Environment
  <2>4. CASE UNCHANGED vars
    BY <2>4, Stuttering
  <2> QED  BY <2>1, <2>2, <2>3, <2>4 DEF Next
<1> QED  BY Initially, <1>1, PTL DEF Spec

\* Every variable keeps its type.
THEOREM TypeCorrect == Spec => []TypeOK
<1>1. IInv => TypeOK
  BY DEF IInv
<1> QED  BY Inductive, <1>1, PTL

\* Spool::trim keeps the spool within its cap, whatever the cap.
THEOREM SpoolIsBounded == Spec => []SpoolBounded
<1>1. IInv => SpoolBounded
  BY DEF IInv
<1> QED  BY Inductive, <1>1, PTL

\* An unsent crash keeps its core until the user has decided, however often the
\* daemon is killed: drop_core needs an answer.
THEOREM CoresAreKept == Spec => []UnsentCrashKeepsItsCore
<1>1. IInv => UnsentCrashKeepsItsCore
  BY DEF IInv
<1> QED  BY Inductive, <1>1, PTL

\* No event behind the saved cursor is lost but by what `forfeited` names.
THEOREM EventsAreKept == Spec => []NothingLost
<1>1. ASSUME IInv PROVE NothingLost
  <2> SUFFICES ASSUME NEW c \in Crashes, c <= disk.cursor
               PROVE  /\ fate[c] \notin {"unseen", "backlog"}
                      /\ Handled(c) => EventKept(c) \/ Key(c) \in forfeited
    BY DEF NothingLost
  <2>1. c \in 1..disk.cursor /\ disk.cursor # NoCursor
    BY <1>1, Journal, Cursors DEF IInv, NoCursor
  <2>2. c \in Settled
    BY <2>1 DEF Settled, Past
  <2>3. c \in Done
    <3>1. /\ Busy => disk.cursor <= pos - 1
          /\ Watching => disk.cursor <= pos
      BY <1>1, Working, Cursors DEF IInv, Positions
    <3> QED  BY <1>1, <2>1, <3>1, Cursors DEF IInv, Done, Watching, Busy
  <2> QED  BY <1>1, <2>2, <2>3 DEF IInv, FatesKnown
<1>2. IInv => NothingLost
  BY <1>1
<1> QED  BY Inductive, <1>2, PTL

\* A crash that was shown stays in the review directory, itself or as a later
\* one of its signature, until the user has decided on a report of that signature.
THEOREM ReportsStay == Spec => []ShownUntilDecided
<1>1. ASSUME IInv PROVE ShownUntilDecided
  <2> SUFFICES ASSUME NEW c \in Crashes, fate[c] = "shown"
               PROVE  \E d \in Crashes :
                        /\ SignatureOf(d) = SignatureOf(c)
                        /\ \/ d \in resolved
                           \/ /\ d >= c \/ c > disk.cursor
                              /\ SignatureOf(d) \in DOMAIN pending /\ pending[SignatureOf(d)].crash = d
    BY DEF ShownUntilDecided
  <2>1. c \notin Settled => c > disk.cursor
    BY <1>1, Journal, Cursors DEF IInv, Settled, Past, NoCursor
  <2> QED  BY <1>1, <2>1 DEF IInv, ShownStays
<1>2. IInv => ShownUntilDecided
  BY <1>1
<1> QED  BY Inductive, <1>2, PTL

\* The server counts a crash twice only after a request without an answer, or a
\* kill before the cursor was past the crash.
THEOREM EventsAreCountedOnce == Spec => []CountedOnce
<1>1. IInv => CountedOnce
  BY DEF IInv
<1> QED  BY Inductive, <1>1, PTL

\* The count an event carries covers every crash reported before it.
THEOREM CountsCoverCrashes == Spec => []NoUndercount
<1>1. ASSUME IInv, pc = "ask"
      PROVE  mem.counts[SignatureOf(cur)] >
               Cardinality({c \in (base + 1)..(cur - 1) :
                               SignatureOf(c) = SignatureOf(cur) /\ Handled(c)})
  <2>1. Underway /\ Busy
    BY <1>1 DEF Underway, Busy
  <2>2. PICK s \in Signature : s = SignatureOf(cur)
    BY <1>1, <2>1, Working, Journal DEF SignatureOf, cur, IInv
  <2>3. mem.counts[s] > Cardinality(Reported(s, pos - 1))
    BY <1>1, <2>1, <2>2 DEF IInv, CountsCover
  <2> QED  BY <2>2, <2>3 DEF Reported, cur
<1>2. IInv => NoUndercount
  BY <1>1 DEF NoUndercount
<1> QED  BY Inductive, <1>2, PTL

\* What ResumesWhereItStopped says of one step.
Resumed ==
    /\ disk'.cursor >= disk.cursor
    /\ disk.cursor # NoCursor =>
         \A c \in Crashes : fate'[c] = "skipped" => fate[c] = "skipped"

\* The cursor never moves back, and once there is one no crash is skipped.
THEOREM NothingIsSkipped == Spec => ResumesWhereItStopped
<1>1. ASSUME IInv, [Next]_vars PROVE [Resumed]_vars
  <2> SUFFICES ASSUME Next PROVE Resumed
    BY <1>1
  <2>1. /\ disk.cursor \in Nat /\ mem.cursor \in Nat /\ disk.cursor <= mem.cursor /\ TypeOK
        /\ Busy => pos \in Crashes /\ pos > disk.cursor
        /\ pos \in Nat
    BY <1>1, Working, Cursors DEF IInv
  <2>2. CASE Start \/ DrainSpool \/ RemoveSpooled \/ ServerRefuses \/ ServerWants \/ NoAnswer
             \/ SpoolBegin \/ SpoolEnd \/ Kill
    <3>1. disk' = disk /\ fate' = fate
      BY <2>2 DEF Start, DrainSpool, RemoveSpooled, ServerRefuses, ServerWants, NoAnswer, SpoolBegin,
                  SpoolEnd, Kill
    <3> QED  BY <2>1, <3>1 DEF Resumed
  <2>3. CASE OpenJournal
    <3>1. ~Watching /\ mem.cursor = disk.cursor /\ disk' = disk
      BY <1>1, <2>3 DEF IInv, Positions, OpenJournal, Goto, Watching, Busy, Underway
    <3>2. ASSUME disk.cursor # NoCursor, NEW c \in Crashes, fate'[c] = "skipped"
          PROVE  fate[c] = "skipped"
      <4>1. pos' = disk.cursor
        BY <2>3, <3>1, <3>2 DEF OpenJournal
      <4>2. CASE c <= disk.cursor
        <5>1. c \in Done
          BY <2>1, <3>1, <4>2, Journal DEF Done
        <5> QED  BY <1>1, <2>3, <3>2, <5>1 DEF IInv, FatesKnown, OpenJournal
      <4>3. CASE ~(c <= disk.cursor)
        BY <2>3, <3>2, <4>1, <4>3 DEF OpenJournal
      <4> QED  BY <4>2, <4>3
    <3> QED  BY <2>1, <3>1, <3>2 DEF Resumed
  <2>4. CASE TakeEntry \/ DropCore \/ WriteConfirmed \/ WriteUnconfirmed
    <3>1. /\ disk' = disk
          /\ \E c \in Nat, x \in {"suppressed", "refused", "shown", "failed"} :
               fate' = fate \/ fate' = [fate EXCEPT ![c] = x]
      <4>1. CASE TakeEntry
        <5>1. PICK n \in Nat : n = pos' /\ disk' = disk
          BY <2>1, <4>1 DEF TakeEntry
        <5>2. fate' = fate \/ fate' = [fate EXCEPT ![n] = "suppressed"]
          BY <4>1, <5>1 DEF TakeEntry
        <5> QED  BY <5>1, <5>2
      <4>2. CASE DropCore \/ WriteConfirmed \/ WriteUnconfirmed
        BY <2>1, <4>2 DEF DropCore, WriteConfirmed, WriteUnconfirmed, WritePending, cur
      <4> QED  BY <2>4, <4>1, <4>2
    <3>2. \A c \in Crashes : fate'[c] = "skipped" => fate[c] = "skipped"
      BY <2>1, <3>1 DEF TypeOK
    <3> QED  BY <2>1, <3>1, <3>2 DEF Resumed
  <2>5. CASE SaveState \/ Shutdown
    <3>1. fate' = fate /\ disk'.cursor >= disk.cursor
      <4>1. CASE Shutdown
        BY <2>1, <4>1 DEF Shutdown
      <4>2. CASE SaveState
        <5>1. Busy /\ mem \in States
          BY <2>1, <4>2 DEF SaveState, Goto, Busy, TypeOK
        <5>2. mem'.cursor = pos /\ (disk' = mem' \/ disk' = disk) /\ fate' = fate
          BY <4>2, <5>1 DEF SaveState, cur, States
        <5> QED  BY <2>1, <5>1, <5>2
      <4> QED  BY <2>5, <4>1, <4>2 DEF Shutdown, SaveState
    <3> QED  BY <3>1 DEF Resumed
  <2>6. ASSUME NEW s \in Signature, NEW t \in 0..MaxSecond, NewCrash(s, t) PROVE Resumed
    <3>1. PICK n \in Nat : n = Len(journal) + 1
      BY <2>1, Journal
    <3>2. \A c \in Crashes : fate'[c] = fate[c]
      BY <2>1, <2>6, <3>1, Logged
    <3>3. disk' = disk
      BY <2>6 DEF NewCrash
    <3> QED  BY <2>1, <3>2, <3>3 DEF Resumed
  <2>7. ASSUME NEW x \in Executable, ChargeExpires(x) PROVE Resumed
    <3>1. disk'.cursor = disk.cursor /\ fate' = fate
      BY <2>1, <2>7 DEF ChargeExpires, TypeOK, States
    <3> QED  BY <2>1, <3>1 DEF Resumed
  <2>8. ASSUME NEW e \in listed, RemoveCore(e) \/ DeclineForever(e) \/ Announce(e) PROVE Resumed
    BY <2>1, <2>8 DEF RemoveCore, DeclineForever, Announce, Resumed
  <2>9. ASSUME NEW c \in Crashes, RemoveReport(c) PROVE Resumed
    BY <2>1, <2>9 DEF RemoveReport, Resumed
  <2> QED  BY <2>2, <2>3, <2>4, <2>5, <2>6, <2>7, <2>8, <2>9 DEF Next, Daemon, Environment
<1>2. IInv /\ [Next]_vars => [Resumed]_vars
  BY <1>1
<1>3. ResumesWhereItStopped <=> [][Resumed]_vars
  BY DEF ResumesWhereItStopped, Resumed
<1> QED  BY Inductive, <1>2, <1>3, PTL DEF Spec

-----------------------------------------------------------------------------
(* The refinement: the daemon implements CrashLifecycle *)

phaseBar == [c \in MayHappen |-> PhaseOf(c)]
subjectBar == [c \in MayHappen |-> IF c \in Crashes THEN SignatureOf(c) ELSE -1]
copiesBar == [c \in MayHappen |-> IF c \in Crashes THEN copies[c] ELSE 0]
reportsBar == {pending[s].crash : s \in DOMAIN pending}
seenBar == {e.crash : e \in listed}
closedBar == 1..disk.cursor
bars == <<phaseBar, subjectBar, copiesBar, unsure, core, reportsBar, seenBar, resolved, closedBar>>

\* What the lifecycle sees of a crash.
LEMMA SeenAs ==
    ASSUME TypeOK
    PROVE  /\ Crashes \subseteq MayHappen /\ Crashes = 1..Len(journal) /\ Len(journal) \in Nat
           /\ Abstract!Happened = Crashes
           /\ \A c \in Crashes :
                /\ c \in closedBar <=> c <= disk.cursor
                /\ copiesBar[c] = copies[c] /\ subjectBar[c] = SignatureOf(c)
                /\ phaseBar[c] = PhaseOf(c)
                /\ PhaseOf(c) = "waiting" <=> fate[c] \in {"unseen", "backlog"}
<1>1. Crashes = 1..Len(journal) /\ Len(journal) \in Nat /\ Len(journal) <= MaxCrashes
  BY Journal DEF TypeOK
<1>2. Crashes \subseteq MayHappen
  BY <1>1, BoundAssumption DEF MayHappen
<1>3. \A c \in Crashes : fate[c] \in Fate
  BY DEF TypeOK
<1>4. \A c \in MayHappen : PhaseOf(c) # "absent" <=> c \in Crashes
  BY <1>3 DEF PhaseOf, Fate
<1>5. Abstract!Happened = Crashes
  BY <1>2, <1>4 DEF Abstract!Happened
<1>6. \A c \in Crashes : PhaseOf(c) = "waiting" <=> fate[c] \in {"unseen", "backlog"}
  BY <1>3 DEF PhaseOf, Fate
<1>7. \A c \in Crashes : c \in closedBar <=> c <= disk.cursor
  BY <1>1, Cursors DEF closedBar
<1> QED  BY <1>1, <1>2, <1>5, <1>6, <1>7 DEF copiesBar, subjectBar, phaseBar

\* What leaves the crashes alone.
LEMMA SeenTheSame ==
    ASSUME journal' = journal
    PROVE  /\ subjectBar' = subjectBar
           /\ fate' = fate => phaseBar' = phaseBar
           /\ copies' = copies => copiesBar' = copiesBar
           /\ pending' = pending => reportsBar' = reportsBar
           /\ listed' = listed => seenBar' = seenBar
           /\ disk' = disk => closedBar' = closedBar
  BY DEF subjectBar, phaseBar, PhaseOf, copiesBar, reportsBar, seenBar, closedBar, Crashes, SignatureOf

\* Steps of one crash.
LEMMA OneCrash ==
    ASSUME NEW c \in MayHappen,
           \/ Abstract!NoAnswer(c) \/ Abstract!Suppress(c) \/ Abstract!Refuse(c)
           \/ Abstract!Show(c) \/ Abstract!Fail(c) \/ Abstract!Decide(c) \/ Abstract!Dismiss(c)
    PROVE  Abstract!Next
  BY DEF Abstract!Next

\* Counting some events is counting their crashes.
LEMMA SeenCounted ==
    ASSUME TypeOK, NEW S \in SUBSET Crashes, journal' = journal, copies' = Counted(S)
    PROVE  copiesBar' = Abstract!Counted(S)
<1>1. Crashes' = Crashes
  BY DEF Crashes
<1>2. \A c \in Crashes : copies'[c] = IF c \in S /\ copies[c] < 2 THEN copies[c] + 1 ELSE copies[c]
  BY DEF Counted
<1> QED  BY <1>1, <1>2 DEF copiesBar, Abstract!Counted

\* What becomes of a crash behind the cursor is settled.
LEMMA SeenSettled ==
    ASSUME TypeOK, NEW c \in Crashes, c > disk.cursor, journal' = journal,
           NEW outcome \in {"suppressed", "refused", "shown", "failed"},
           fate' = [fate EXCEPT ![c] = outcome]
    PROVE  Abstract!Settle(c, outcome)
<1>1. Crashes' = Crashes
  BY DEF Crashes
<1>2. fate'[c] = outcome /\ \A d \in Crashes \ {c} : fate'[d] = fate[d]
  BY DEF TypeOK
<1>3. \A d \in MayHappen : PhaseOf(d)' = IF d = c THEN outcome ELSE PhaseOf(d)
  BY <1>1, <1>2 DEF PhaseOf
<1>4. phaseBar' = [phaseBar EXCEPT ![c] = outcome]
  BY <1>3 DEF phaseBar
<1>5. c \in Abstract!Happened \ closedBar
  BY SeenAs, Cursors DEF Crashes
<1> QED  BY <1>4, <1>5 DEF Abstract!Settle, phaseBar, closedBar

\* Sending events of crashes that may be sent.
LEMMA SeenSent ==
    ASSUME TypeOK, NEW S \in SUBSET Crashes, copies' = Counted(S),
           UNCHANGED <<journal, core, pending, listed, resolved, fate, disk, unsure>>,
           \A c \in S : c \in unsure \/ (c > disk.cursor /\ c \notin received)
    PROVE  Abstract!Next
<1>1. UNCHANGED <<phaseBar, subjectBar, reportsBar, seenBar, closedBar>>
  BY SeenTheSame
<1>2. copiesBar' = Abstract!Counted(S)
  BY SeenCounted
<1>3. \A c \in S : Abstract!MayBeSent(c)
  <2> SUFFICES ASSUME NEW c \in S PROVE Abstract!MayBeSent(c)
    OBVIOUS
  <2>1. CASE c \in unsure
    BY <2>1 DEF Abstract!MayBeSent
  <2>2. CASE c > disk.cursor /\ c \notin received
    <3>1. copies[c] = 0
      BY <2>2 DEF received, TypeOK
    <3>2. c \in Abstract!Happened \ closedBar /\ copiesBar[c] = 0
      BY <2>2, <3>1, SeenAs, Cursors
    <3> QED  BY <3>2 DEF Abstract!MayBeSent, copiesBar, closedBar
  <2> QED  BY <2>1, <2>2
<1>4. Abstract!Send(S)
  BY <1>1, <1>2, <1>3 DEF Abstract!Send, phaseBar, subjectBar, copiesBar, reportsBar, seenBar, closedBar
<1>5. S \in SUBSET MayHappen
  BY SeenAs
<1> QED  BY <1>4, <1>5 DEF Abstract!Next

\* The spool is drained: what it holds is in doubt.
LEMMA DrainIsSend ==
    ASSUME IInv, DrainSpool
    PROVE  Abstract!Next
<1>1. /\ UNCHANGED <<journal, core, pending, listed, resolved, fate, disk, unsure>>
      /\ pc = "drain" /\ TypeOK /\ batch \subseteq DOMAIN spool
  BY DEF DrainSpool, Goto, machine, history, IInv, TypeOK
<1>2. PICK names \in SUBSET DOMAIN spool : copies' = Counted({spool[k] : k \in names})
  <2>1. CASE copies' = Counted({spool[k] : k \in batch})
    BY <1>1, <2>1
  <2>2. CASE \E n \in 0..Cardinality(batch) : copies' = Counted({spool[k] : k \in Oldest(n)})
    <3>1. PICK n \in 0..Cardinality(batch) : copies' = Counted({spool[k] : k \in Oldest(n)})
      BY <2>2
    <3>2. Oldest(n) \subseteq DOMAIN spool
      BY DEF Oldest
    <3> QED  BY <3>1, <3>2
  <2> QED  BY <2>1, <2>2 DEF DrainSpool
<1> DEFINE sent == {spool[k] : k \in names} \cap Crashes
<1>3. copies' = Counted(sent)
  <2>1. \A c \in Crashes : c \in sent <=> c \in {spool[k] : k \in names}
    OBVIOUS
  <2> HIDE DEF sent
  <2> QED  BY <1>2, <2>1 DEF Counted
<1>4. \A c \in sent : c \in unsure
  <2> SUFFICES ASSUME NEW c \in sent PROVE c \in unsure
    OBVIOUS
  <2>1. PICK k \in DOMAIN spool : c = spool[k]
    OBVIOUS
  <2>2. c # Torn
    BY <1>1, Journal DEF Torn
  <2> QED  BY <2>1, <2>2 DEF IInv, Stages, SpoolHolds
<1>5. sent \in SUBSET Crashes
  OBVIOUS
<1> HIDE DEF sent
<1> QED  BY <1>1, <1>3, <1>4, <1>5, SeenSent


\* The event of a crash is sent: it is its first, or one that is in doubt.
LEMMA AskIsSend ==
    ASSUME IInv, ServerRefuses \/ ServerWants \/ NoAnswer
    PROVE  Abstract!Next
<1>1. /\ UNCHANGED <<journal, core, pending, listed, resolved, fate, disk>> /\ pc = "ask" /\ TypeOK
  BY DEF ServerRefuses, ServerWants, NoAnswer, Goto, machine, IInv
<1>2. /\ pos \in Crashes /\ pos > disk.cursor /\ pos > mem.cursor
  BY <1>1, Working DEF Busy, Underway
<1>3. pos \in unsure \/ pos \notin received
  BY <1>1, <1>2, Cursors DEF IInv, SentOnce
<1>4. CASE ServerRefuses \/ ServerWants
  <2>1. copies' = Counted({pos}) /\ unsure' = unsure /\ {pos} \in SUBSET Crashes
    BY <1>2, <1>4 DEF ServerRefuses, ServerWants, history, cur
  <2> QED  BY <1>1, <1>2, <1>3, <2>1, SeenSent
<1>5. CASE NoAnswer
  <2>1. copies' \in {copies, Counted({pos})} /\ unsure' = unsure \cup {pos}
    BY <1>5 DEF NoAnswer, cur
  <2>2. UNCHANGED <<phaseBar, subjectBar, reportsBar, seenBar, closedBar>>
    BY <1>1, SeenTheSame
  <2>3. copiesBar' \in {copiesBar, Abstract!Counted({pos})}
    <3>1. CASE copies' = copies
      BY <1>1, <3>1, SeenTheSame
    <3>2. CASE copies' = Counted({pos})
      BY <1>1, <1>2, <3>2, SeenCounted
    <3> QED  BY <2>1, <3>1, <3>2
  <2>4. pos \in Abstract!Happened \ closedBar /\ pos \in MayHappen
    BY <1>1, <1>2, SeenAs, Cursors
  <2>5. Abstract!MayBeSent(pos)
    <3>1. pos \notin received => copiesBar[pos] = 0
      BY <1>1, <1>2, SeenAs DEF received, TypeOK
    <3> QED  BY <1>3, <2>4, <3>1 DEF Abstract!MayBeSent, copiesBar, closedBar
  <2>6. PICK c \in MayHappen : c = pos
    BY <2>4
  <2>7. Abstract!NoAnswer(c)
    BY <1>1, <2>1, <2>2, <2>3, <2>4, <2>5, <2>6
       DEF Abstract!NoAnswer, phaseBar, subjectBar, copiesBar, reportsBar, seenBar, closedBar
  <2> QED  BY <2>7, OneCrash
<1> QED  BY <1>4, <1>5

\* A crash over the limit, or of a declined signature, is suppressed.
LEMMA TakeIsSuppress ==
    ASSUME IInv, TakeEntry
    PROVE  Abstract!Next \/ UNCHANGED bars
<1>1. PICK n \in Nat : n = pos + 1
  BY Cursors DEF IInv
<1>2. /\ UNCHANGED <<journal, core, pending, listed, resolved, disk, copies, unsure>> /\ TypeOK
      /\ pc = "watch" /\ pos < Len(journal)
      /\ fate' = fate \/ fate' = [fate EXCEPT ![n] = "suppressed"]
  BY <1>1 DEF TakeEntry, machine, history, IInv
<1>3. n \in Crashes /\ n > disk.cursor
  BY <1>1, <1>2, Journal, Cursors DEF IInv, Positions, Watching
<1>4. UNCHANGED <<subjectBar, copiesBar, reportsBar, seenBar, closedBar>>
  BY <1>2, SeenTheSame
<1>5. CASE fate' = fate
  BY <1>2, <1>4, <1>5, SeenTheSame DEF bars
<1>6. CASE fate' = [fate EXCEPT ![n] = "suppressed"]
  <2>1. Abstract!Settle(n, "suppressed")
    BY <1>2, <1>3, <1>6, SeenSettled
  <2>2. Abstract!Suppress(n)
    BY <1>2, <1>4, <2>1 DEF Abstract!Suppress, subjectBar, copiesBar, reportsBar, seenBar, closedBar
  <2> QED  BY <1>2, <1>3, <2>2, SeenAs, OneCrash
<1> QED  BY <1>2, <1>5, <1>6

\* A refused crash was counted.
LEMMA DropIsRefuse ==
    ASSUME IInv, DropCore
    PROVE  Abstract!Next
<1>1. /\ UNCHANGED <<journal, pending, listed, resolved, disk, copies, unsure>> /\ TypeOK
      /\ pc = "drop" /\ core' \in {core, core \ {pos}} /\ fate' = [fate EXCEPT ![pos] = "refused"]
  BY DEF DropCore, Goto, history, cur, IInv
<1>2. pos \in Crashes /\ pos > disk.cursor /\ pos \in received
  BY <1>1, Working DEF Busy, Underway, IInv, Stages, cur
<1>3. UNCHANGED <<subjectBar, copiesBar, reportsBar, seenBar, closedBar>>
  BY <1>1, SeenTheSame
<1>4. Abstract!Settle(pos, "refused")
  BY <1>1, <1>2, SeenSettled
<1>5. copiesBar[pos] > 0
  BY <1>1, <1>2, SeenAs DEF received
<1>6. Abstract!Refuse(pos)
  BY <1>1, <1>3, <1>4, <1>5 DEF Abstract!Refuse, subjectBar, copiesBar, reportsBar, seenBar, closedBar
<1> QED  BY <1>1, <1>2, <1>6, SeenAs, OneCrash

\* A report is written for a crash the server was asked about, and takes the
\* place of the one that has its name.
LEMMA WriteIsShow ==
    ASSUME IInv, WriteConfirmed \/ WriteUnconfirmed
    PROVE  Abstract!Next
<1> DEFINE s == SignatureOf(pos)
<1>1. /\ UNCHANGED <<journal, core, resolved, disk, copies, unsure>> /\ TypeOK
      /\ pc \in {"write_pending", "write_unconfirmed"}
  BY DEF WriteConfirmed, WriteUnconfirmed, WritePending, Goto, history, IInv
<1>2. /\ pos \in Crashes /\ pos > disk.cursor
      /\ pos \in received \/ pos \in unsure
  BY <1>1, Working DEF Busy, Underway, IInv, Stages, cur
<1>3. pos \in MayHappen /\ UNCHANGED <<subjectBar, copiesBar, closedBar>>
  BY <1>1, <1>2, SeenTheSame, SeenAs
<1>4. Abstract!Asked(pos)
  <2>1. pos \in received => copiesBar[pos] > 0
    BY <1>1, SeenAs DEF received
  <2> QED  BY <1>2, <2>1 DEF Abstract!Asked, copiesBar
<1>5. CASE UNCHANGED <<pending, listed>> /\ fate' = [fate EXCEPT ![pos] = "failed"]
  <2>1. Abstract!Settle(pos, "failed")
    BY <1>1, <1>2, <1>5, SeenSettled
  <2>2. UNCHANGED <<reportsBar, seenBar>>
    BY <1>1, <1>5, SeenTheSame
  <2>3. Abstract!Fail(pos)
    BY <1>1, <1>3, <1>4, <2>1, <2>2 DEF Abstract!Fail, subjectBar, copiesBar, reportsBar, seenBar, closedBar
  <2> QED  BY <1>3, <2>3, OneCrash
<1>6. CASE /\ fate' = [fate EXCEPT ![pos] = "shown"]
           /\ \E w : /\ pending' = Put(pending, s, [crash |-> pos, awaiting |-> w, core |-> pos \in core])
                    /\ listed' = listed \cup {[crash |-> pos, awaiting |-> w, core |-> pos \in core]}
  <2>1. Abstract!Settle(pos, "shown")
    BY <1>1, <1>2, <1>6, SeenSettled
  <2>2. /\ DOMAIN pending' = DOMAIN pending \cup {s} /\ pending'[s].crash = pos
        /\ \A q \in DOMAIN pending \ {s} : pending'[q] = pending[q]
    BY <1>6 DEF Put
  <2>3. \A q \in DOMAIN pending : pending[q].crash \in Crashes /\ SignatureOf(pending[q].crash) = q
    BY <1>1 DEF TypeOK, PendingReports, IInv, PendingHolds
  <2>4. \A q \in DOMAIN pending : subjectBar[pending[q].crash] = q
    BY <1>1, <2>3, SeenAs
  <2>5. subjectBar[pos] = s
    BY <1>1, <1>2, SeenAs
  <2>6. reportsBar' = {d \in reportsBar : subjectBar[d] # subjectBar[pos]} \cup {pos}
    <3>1. \A d : d \in reportsBar' <=> d = pos \/ \E q \in DOMAIN pending \ {s} : d = pending[q].crash
      BY <2>2 DEF reportsBar
    <3>2. \A d : (d \in reportsBar /\ subjectBar[d] # s) <=> \E q \in DOMAIN pending \ {s} : d = pending[q].crash
      BY <2>4 DEF reportsBar
    <3> HIDE DEF s
    <3> QED  BY <2>5, <3>1, <3>2
  <2>7. PICK c \in MayHappen : c = pos
    BY <1>3
  <2>8. seenBar' = seenBar \cup {pos}
    <3>1. PICK e : e.crash = pos /\ listed' = listed \cup {e}
      BY <1>6
    <3> QED  BY <3>1 DEF seenBar
  <2>9. Abstract!Show(c)
    BY <1>1, <1>3, <1>4, <2>1, <2>6, <2>7, <2>8 DEF Abstract!Show, subjectBar, copiesBar, reportsBar, seenBar, closedBar
  <2> QED  BY <2>9, OneCrash
<1> QED  BY <1>5, <1>6 DEF WriteConfirmed, WriteUnconfirmed, WritePending, cur

\* What the saved cursor passes has been dealt with.
LEMMA SaveIsClose ==
    ASSUME IInv, SaveState \/ Shutdown
    PROVE  Abstract!Next \/ UNCHANGED bars
<1>1. /\ UNCHANGED <<journal, core, pending, listed, resolved, fate, copies, unsure>> /\ TypeOK
      /\ pc \in {"save", "watch"} /\ Watching /\ ~Underway
  BY DEF SaveState, Shutdown, Goto, machine, history, IInv, Watching, Busy, Underway
<1>2. disk'.cursor = disk.cursor \/ (disk'.cursor = pos /\ disk.cursor <= pos)
  <2>1. disk.cursor <= mem.cursor /\ mem.cursor <= pos
    BY <1>1, Cursors DEF IInv, Positions
  <2>2. CASE Shutdown
    <3>1. disk' = mem /\ mem.cursor \in {NoCursor, pos}
      BY <2>2 DEF Shutdown, Goto, IInv, Positions
    <3> QED  BY <1>1, <2>1, <3>1, Cursors DEF NoCursor
  <2>3. CASE SaveState
    <3>1. disk' = mem' \/ disk' = disk
      BY <2>3 DEF SaveState
    <3>2. mem'.cursor = pos
      BY <1>1, <2>3 DEF SaveState, cur, TypeOK, States
    <3> QED  BY <1>1, <2>1, <3>1, <3>2, Cursors
  <2> QED  BY <2>2, <2>3
<1>3. UNCHANGED <<phaseBar, subjectBar, copiesBar, reportsBar, seenBar>>
  BY <1>1, SeenTheSame
<1>4. CASE disk'.cursor = disk.cursor
  BY <1>1, <1>3, <1>4 DEF bars, closedBar
<1>5. CASE disk'.cursor = pos /\ disk.cursor <= pos
  <2> DEFINE S == (disk.cursor + 1)..pos
  <2>1. /\ pos \in Nat /\ disk.cursor \in Nat /\ pos <= Len(journal) /\ Crashes = 1..Len(journal)
    BY <1>1, Cursors, Journal DEF TypeOK
  <2>2. S \subseteq Crashes /\ \A c \in S : c > disk.cursor
    BY <2>1
  <2>3. S \subseteq Abstract!Happened \ closedBar
    BY <1>1, <2>1, <2>2, SeenAs
  <2>4. \A c \in S : phaseBar[c] # "waiting"
    <3>1. S \subseteq Done
      BY <1>1, <2>1 DEF Done
    <3>2. \A c \in S : fate[c] \notin {"unseen", "backlog"}
      BY <3>1 DEF IInv, FatesKnown
    <3> QED  BY <1>1, <2>2, <3>2, SeenAs
  <2>5. closedBar' = closedBar \cup S
    BY <1>5, <2>1 DEF closedBar
  <2>6. Abstract!Close(S)
    BY <1>1, <1>3, <2>3, <2>4, <2>5 DEF Abstract!Close, phaseBar, subjectBar, copiesBar, reportsBar, seenBar, closedBar
  <2>7. S \in SUBSET MayHappen
    BY <1>1, <2>2, SeenAs
  <2> QED  BY <2>6, <2>7 DEF Abstract!Next
<1> QED  BY <1>2, <1>4, <1>5


\* The journal is opened: without a saved cursor what waits is passed over, and with
\* one nothing before it waits.
LEMMA OpenIsSkip ==
    ASSUME IInv, OpenJournal
    PROVE  Abstract!Next \/ UNCHANGED bars
<1>1. /\ UNCHANGED <<journal, core, pending, listed, resolved, disk, copies, unsure>> /\ TypeOK
      /\ ~Watching /\ mem.cursor = disk.cursor
  BY DEF OpenJournal, Goto, machine, IInv, Positions, Watching, Busy, Underway
<1>2. UNCHANGED <<subjectBar, copiesBar, reportsBar, seenBar, closedBar>> /\ Crashes' = Crashes
  BY <1>1, SeenTheSame DEF Crashes
<1>3. \A c \in Crashes : fate'[c] = IF fate[c] \notin {"unseen", "backlog"} THEN fate[c]
                                    ELSE IF c <= pos' THEN "skipped" ELSE "backlog"
  BY DEF OpenJournal
<1>4. CASE disk.cursor = NoCursor
  <2>1. \A c \in Crashes : c <= pos'
    BY <1>1, <1>4, Journal DEF OpenJournal
  <2>2. \A c \in MayHappen : PhaseOf(c)' = IF PhaseOf(c) = "waiting" THEN "skipped" ELSE PhaseOf(c)
    <3> SUFFICES ASSUME NEW c \in MayHappen
                 PROVE  PhaseOf(c)' = IF PhaseOf(c) = "waiting" THEN "skipped" ELSE PhaseOf(c)
      OBVIOUS
    <3>1. CASE c \notin Crashes
      BY <1>2, <3>1 DEF PhaseOf
    <3>2. CASE c \in Crashes
      BY <1>1, <1>2, <1>3, <2>1, <3>2 DEF PhaseOf, TypeOK, Fate
    <3> QED  BY <3>1, <3>2
  <2>3. phaseBar' = [c \in MayHappen |-> IF phaseBar[c] = "waiting" THEN "skipped" ELSE phaseBar[c]]
    BY <2>2 DEF phaseBar
  <2>4. closedBar = {}
    BY <1>4 DEF closedBar, NoCursor
  <2>5. Abstract!Skip
    BY <1>1, <1>2, <2>3, <2>4 DEF Abstract!Skip, phaseBar, subjectBar, copiesBar, reportsBar, seenBar, closedBar
  <2> QED  BY <2>5 DEF Abstract!Next
<1>5. CASE disk.cursor # NoCursor
  <2>1. pos' = disk.cursor
    BY <1>1, <1>5 DEF OpenJournal
  <2>2. \A c \in Crashes : c <= pos' => fate[c] \notin {"unseen", "backlog"}
    <3>1. \A c \in Crashes : c <= pos' => c \in Done
      BY <1>1, <2>1, Journal, Cursors DEF Done
    <3> QED  BY <3>1 DEF IInv, FatesKnown
  <2>3. \A c \in MayHappen : PhaseOf(c)' = PhaseOf(c)
    BY <1>2, <1>3, <2>2 DEF PhaseOf
  <2>4. phaseBar' = phaseBar
    BY <2>3 DEF phaseBar
  <2> QED  BY <1>1, <1>2, <2>4 DEF bars
<1> QED  BY <1>4, <1>5

\* A kill forgets what was done for the crashes behind the saved cursor.
LEMMA KillIsInterrupt ==
    ASSUME IInv, Kill
    PROVE  Abstract!Next
<1> DEFINE S == (disk.cursor + 1)..pos
<1>1. /\ UNCHANGED <<journal, core, pending, listed, resolved, fate, disk, copies>> /\ TypeOK
      /\ unsure' = unsure \cup S
  BY DEF Kill, machine, IInv
<1>2. UNCHANGED <<phaseBar, subjectBar, copiesBar, reportsBar, seenBar, closedBar>>
  BY <1>1, SeenTheSame
<1>3. /\ pos \in Nat /\ disk.cursor \in Nat /\ pos <= Len(journal) /\ Crashes = 1..Len(journal)
  BY <1>1, Cursors, Journal DEF TypeOK
<1>4. S \subseteq Crashes /\ \A c \in S : c > disk.cursor
  BY <1>3
<1>5. S \subseteq Abstract!Happened \ closedBar
  BY <1>1, <1>3, <1>4, SeenAs
<1>6. Abstract!Interrupt(S)
  BY <1>1, <1>2, <1>5 DEF Abstract!Interrupt, phaseBar, subjectBar, copiesBar, reportsBar, seenBar, closedBar
<1>7. S \in SUBSET MayHappen
  BY <1>1, <1>4, SeenAs
<1> QED  BY <1>6, <1>7 DEF Abstract!Next

\* A crash is logged.
LEMMA NewCrashIsHappen ==
    ASSUME IInv, NEW s \in Signature, NEW t \in 0..MaxSecond, NewCrash(s, t)
    PROVE  Abstract!Next
<1>1. TypeOK
  BY DEF IInv
<1>2. PICK n \in Nat : n = Len(journal) + 1
  BY <1>1, Journal
<1>3. /\ Crashes' = Crashes \cup {n} /\ n \notin Crashes
      /\ \A c \in Crashes : /\ SignatureOf(c)' = SignatureOf(c)
                            /\ fate'[c] = fate[c] /\ copies'[c] = copies[c]
      /\ fate'[n] = "unseen" /\ copies'[n] = 0
  BY <1>1, <1>2, Logged
<1>4. SignatureOf(n)' = s
  <2>1. PICK k \in Keys : k = [signature |-> s, second |-> t]
    BY DEF Keys
  <2>2. journal' = Append(journal, k) /\ journal \in Seq(Keys)
    BY <1>1, <2>1 DEF NewCrash, TypeOK
  <2>3. journal'[n] = k
    BY <1>2, <2>2, Appended
  <2> QED  BY <2>1, <2>3 DEF SignatureOf
<1>5. n \in MayHappen
  BY <1>2, <1>1, Journal, BoundAssumption DEF NewCrash, MayHappen
<1>6. UNCHANGED <<unsure, pending, listed, resolved, disk>> /\ core' = core \cup {n}
  BY <1>1, <1>2, Logged DEF NewCrash, history
<1>7. \A c \in MayHappen : PhaseOf(c)' = IF c = n THEN "waiting" ELSE PhaseOf(c)
  BY <1>3 DEF PhaseOf
<1>8. PhaseOf(n) = "absent"
  BY <1>3 DEF PhaseOf
<1>9. phaseBar[n] = "absent" /\ phaseBar' = [phaseBar EXCEPT ![n] = "waiting"]
  BY <1>5, <1>7, <1>8 DEF phaseBar
<1>10. subjectBar' = [subjectBar EXCEPT ![n] = s]
  BY <1>3, <1>5, <1>4 DEF subjectBar
<1>11. copiesBar' = copiesBar
  BY <1>3, <1>5 DEF copiesBar
<1>12. UNCHANGED <<reportsBar, seenBar, closedBar>>
  BY <1>6 DEF reportsBar, seenBar, closedBar
<1>13. Abstract!Happen(n, s)
  BY <1>6, <1>9, <1>10, <1>11, <1>12
     DEF Abstract!Happen, phaseBar, subjectBar, copiesBar, reportsBar, seenBar, closedBar
<1> QED  BY <1>5, <1>13 DEF Abstract!Next

\* The user decides on a report that was listed.
LEMMA RemoveCoreIsDecide ==
    ASSUME IInv, NEW e \in listed, RemoveCore(e)
    PROVE  Abstract!Next
<1>1. /\ UNCHANGED <<journal, pending, listed, fate, disk, copies, unsure>> /\ TypeOK
      /\ core' = core \ {e.crash} /\ resolved' = resolved \cup {e.crash}
  BY DEF RemoveCore, history, IInv
<1>2. PICK c \in MayHappen : c = e.crash
  BY <1>1, Listed, SeenAs
<1>3. UNCHANGED <<phaseBar, subjectBar, copiesBar, reportsBar, seenBar, closedBar>>
  BY <1>1, SeenTheSame
<1>4. c \in seenBar
  BY <1>2 DEF seenBar
<1>5. Abstract!Decide(c)
  BY <1>1, <1>2, <1>3, <1>4
     DEF Abstract!Decide, phaseBar, subjectBar, copiesBar, reportsBar, seenBar, closedBar
<1> QED  BY <1>5, OneCrash

\* The decision takes the report of that name.
LEMMA RemoveReportIsDismiss ==
    ASSUME IInv, NEW c \in Crashes, RemoveReport(c)
    PROVE  Abstract!Next
<1>1. /\ UNCHANGED <<journal, core, listed, resolved, fate, disk, copies, unsure>> /\ TypeOK
      /\ c \in resolved /\ pending' = Remove(pending, {SignatureOf(c)})
  BY DEF RemoveReport, history, IInv
<1>2. PICK d \in MayHappen : d = c
  BY <1>1, SeenAs
<1>3. UNCHANGED <<phaseBar, subjectBar, copiesBar, seenBar, closedBar>>
  BY <1>1, SeenTheSame
<1>4. PICK s : s = SignatureOf(c)
  OBVIOUS
<1>5. /\ DOMAIN pending' = DOMAIN pending \ {s}
      /\ \A q \in DOMAIN pending \ {s} : pending'[q] = pending[q]
  BY <1>1, <1>4 DEF Remove
<1>6. subjectBar[c] = s /\ \A q \in DOMAIN pending : subjectBar[pending[q].crash] = q
  <2>1. \A q \in DOMAIN pending : pending[q].crash \in Crashes /\ SignatureOf(pending[q].crash) = q
    BY <1>1 DEF TypeOK, PendingReports, IInv, PendingHolds
  <2> QED  BY <1>1, <1>4, <2>1, SeenAs
<1>7. reportsBar' = {r \in reportsBar : subjectBar[r] # subjectBar[c]}
  <2>1. \A r : r \in reportsBar' <=> \E q \in DOMAIN pending \ {s} : r = pending[q].crash
    BY <1>5 DEF reportsBar
  <2>2. \A r : (r \in reportsBar /\ subjectBar[r] # s) <=> \E q \in DOMAIN pending \ {s} : r = pending[q].crash
    BY <1>6 DEF reportsBar
  <2> QED  BY <1>6, <2>1, <2>2
<1>8. Abstract!Dismiss(d)
  BY <1>1, <1>2, <1>3, <1>7
     DEF Abstract!Dismiss, phaseBar, subjectBar, copiesBar, reportsBar, seenBar, closedBar
<1> QED  BY <1>8, OneCrash

\* A report without a directive is of a crash in doubt.
LEMMA AnnounceIsSend ==
    ASSUME IInv, NEW e \in listed, Announce(e)
    PROVE  Abstract!Next
<1>1. /\ UNCHANGED <<journal, core, pending, listed, resolved, fate, disk, unsure>> /\ TypeOK
      /\ e.awaiting /\ copies' = Counted({e.crash})
  BY DEF Announce, machine, history, IInv
<1>2. e.crash \in Crashes /\ e.crash \in unsure
  BY <1>1, Listed DEF IInv, PendingHolds
<1>3. {e.crash} \in SUBSET Crashes
  BY <1>2
<1> QED  BY <1>1, <1>2, <1>3, SeenSent

\* Every step of the machine is a step of the lifecycle, or none.
LEMMA StepSimulation == IInv /\ [Next]_vars => [Abstract!Next]_(Abstract!vars)
<1> SUFFICES ASSUME IInv, [Next]_vars PROVE Abstract!Next \/ UNCHANGED bars
  BY DEF Abstract!vars, bars, phaseBar, subjectBar, copiesBar, reportsBar, seenBar, closedBar
<1>1. CASE Start \/ RemoveSpooled \/ SpoolBegin \/ SpoolEnd \/ UNCHANGED vars
  <2>1. UNCHANGED <<journal, core, pending, listed, resolved, fate, disk, copies, unsure>>
    BY <1>1 DEF Start, RemoveSpooled, SpoolBegin, SpoolEnd, vars, machine, history
  <2> QED  BY <2>1, SeenTheSame DEF bars
<1>2. ASSUME NEW x \in Executable, ChargeExpires(x) PROVE UNCHANGED bars
  <2>1. UNCHANGED <<journal, core, pending, listed, resolved, fate, copies, unsure>>
    BY <1>2 DEF ChargeExpires, machine, history
  <2>2. disk'.cursor = disk.cursor
    BY <1>2 DEF ChargeExpires, IInv, TypeOK, States
  <2> QED  BY <2>1, <2>2, SeenTheSame DEF bars, closedBar
<1>3. CASE Daemon
  BY <1>1, <1>3, DrainIsSend, OpenIsSkip, TakeIsSuppress, AskIsSend, DropIsRefuse, WriteIsShow,
     SaveIsClose DEF Daemon
<1>4. CASE Kill \/ Shutdown
  BY <1>4, KillIsInterrupt, SaveIsClose
<1>5. ASSUME NEW e \in listed, DeclineForever(e) PROVE UNCHANGED bars
  <2>1. UNCHANGED <<journal, core, pending, listed, resolved, fate, disk, copies, unsure>>
    BY <1>5 DEF DeclineForever, history
  <2> QED  BY <2>1, SeenTheSame DEF bars
<1>6. CASE Environment
  BY <1>2, <1>5, <1>6, NewCrashIsHappen, RemoveCoreIsDecide, RemoveReportIsDismiss, AnnounceIsSend
     DEF Environment
<1> QED  BY <1>1, <1>3, <1>4, <1>6 DEF Next

\* The daemon, however often it is killed, the server is away or the disk fails,
\* deals with each crash as CrashLifecycle says: apart from all others, once and for
\* all when the saved cursor is past it; it is sent again only if in doubt, refused
\* only once it is counted, and loses its core only then or by the user's decision.
THEOREM DaemonImplementsLifecycle == Spec => EachCrashFollowsLifecycle
<1>1. Init => Abstract!Init
  <2> SUFFICES ASSUME Init PROVE Abstract!Init
    OBVIOUS
  <2>1. Crashes = {} /\ DOMAIN pending = {} /\ disk.cursor = 0
    BY DEF Init, Crashes, Fresh, NoCursor
  <2>2. \A c : PhaseOf(c) = "absent"
    BY <2>1 DEF PhaseOf
  <2>3. core = {} /\ unsure = {} /\ resolved = {} /\ listed = {} /\ 1..disk.cursor = {}
    BY <2>1 DEF Init
  <2> QED  BY <2>1, <2>2, <2>3 DEF Abstract!Init
<1> QED  BY <1>1, Inductive, StepSimulation, PTL DEF Spec, EachCrashFollowsLifecycle, Abstract!Spec


-----------------------------------------------------------------------------
(* The cores of the reports *)

\* The daemon is done with crash c, as far as it remembers.
Behind(c) == c <= mem.cursor \/ (pc = "save" /\ c = pos)

\* The daemon has been started once.
FirstStart == starts <= 1
KeptAtFirst == FirstStart => PendingKeepsItsCore

\* A crash that has a report and is not in doubt is not handled again; the first
\* daemon handles none again.
ReportsBehind == \A s \in DOMAIN pending :
    /\ pending[s].crash \in unsure \/ Behind(pending[s].crash)
    /\ FirstStart /\ pc # "down" => Behind(pending[s].crash)
NotStarted == starts = 0 => pc = "down" /\ DOMAIN pending = {}

ReportInv == LostOnlyInDoubt /\ KeptAtFirst /\ ReportsBehind /\ NotStarted

\* A step that leaves the reports and their cores alone, and does not forget what
\* the daemon is done with unless it is a kill, keeps the invariant.
LEMMA ReportsTheSame ==
    ASSUME TypeOK, ReportInv, UNCHANGED <<pending, starts>>,
           core \ core' \subseteq resolved', resolved \subseteq resolved', unsure \subseteq unsure',
           pc = "down" => pc' = "down",
           \A c \in Crashes : Behind(c) => Behind(c)' \/ (pc' = "down" /\ c \in unsure')
    PROVE  ReportInv'
<1>1. \A s \in DOMAIN pending : pending[s].crash \in Crashes
  BY DEF TypeOK, PendingReports
<1>2. LostOnlyInDoubt'
  BY DEF ReportInv, LostOnlyInDoubt
<1>3. KeptAtFirst'
  BY DEF ReportInv, KeptAtFirst, FirstStart, PendingKeepsItsCore
<1>4. ReportsBehind'
  <2> SUFFICES ASSUME NEW s \in DOMAIN pending
               PROVE  /\ pending[s].crash \in unsure' \/ Behind(pending[s].crash)'
                      /\ FirstStart /\ pc' # "down" => Behind(pending[s].crash)'
    BY DEF ReportsBehind, FirstStart, Behind
  <2>1. PICK c \in Crashes : c = pending[s].crash
    BY <1>1
  <2>2. /\ c \in unsure \/ Behind(c)
        /\ FirstStart /\ pc # "down" => Behind(c)
    BY <2>1 DEF ReportInv, ReportsBehind
  <2>3. Behind(c) => Behind(c)' \/ (pc' = "down" /\ c \in unsure')
    OBVIOUS
  <2>4. (c \in unsure' \/ Behind(c)') /\ (FirstStart /\ pc' # "down" => Behind(c)')
    BY <2>2, <2>3
  <2>5. Behind(pending[s].crash)' <=> Behind(c)'
    BY <2>1 DEF Behind
  <2> QED  BY <2>1, <2>4, <2>5
<1>5. NotStarted'
  BY DEF ReportInv, NotStarted
<1> QED  BY <1>2, <1>3, <1>4, <1>5 DEF ReportInv

\* The daemon's own steps.
LEMMA ReportsOfDaemon ==
    ASSUME IInv, ReportInv, Daemon
    PROVE  ReportInv'
<1>1. /\ TypeOK /\ disk.cursor \in Nat /\ mem.cursor \in Nat /\ pos \in Nat
      /\ Busy => pos \in Crashes /\ pos > mem.cursor
      /\ disk.cursor <= mem.cursor
      /\ \A c \in Crashes : c \in Nat
  BY Working, Cursors, Journal DEF IInv
<1>2. CASE Start
  <2>1. /\ UNCHANGED <<pending, core, resolved, unsure>> /\ mem' = disk /\ pc' = "drain" /\ pc = "down"
        /\ starts' = starts + 1
    BY <1>2 DEF Start, Goto, machine, history
  <2>2. mem.cursor = disk.cursor /\ starts \in Nat
    BY <1>1, <2>1, BoundAssumption DEF IInv, Positions, Watching, Busy, Underway, TypeOK
  <2>3. LostOnlyInDoubt'
    BY <2>1 DEF ReportInv, LostOnlyInDoubt
  <2>4. FirstStart' => DOMAIN pending = {}
    BY <2>1, <2>2 DEF FirstStart, ReportInv, NotStarted
  <2>5. KeptAtFirst' /\ NotStarted'
    BY <2>1, <2>2, <2>4 DEF KeptAtFirst, PendingKeepsItsCore, NotStarted
  <2>6. ASSUME NEW s \in DOMAIN pending PROVE pending[s].crash \in unsure \/ Behind(pending[s].crash)'
    <3>1. pending[s].crash \in unsure \/ pending[s].crash <= mem.cursor
      BY <2>1 DEF ReportInv, ReportsBehind, Behind
    <3> QED  BY <2>1, <2>2, <3>1 DEF Behind
  <2>7. ReportsBehind'
    BY <2>1, <2>4, <2>6 DEF ReportsBehind, Behind
  <2> QED  BY <2>3, <2>5, <2>7 DEF ReportInv
<1>3. CASE DrainSpool \/ RemoveSpooled \/ OpenJournal
  <2>1. UNCHANGED <<pending, starts, core, resolved, unsure, mem>> /\ pc \notin {"down", "save"}
    BY <1>3 DEF DrainSpool, RemoveSpooled, OpenJournal, Goto, machine, history
  <2>2. \A c \in Crashes : Behind(c) => Behind(c)'
    BY <2>1 DEF Behind
  <2> QED  BY <1>1, <2>1, <2>2, ReportsTheSame
<1>4. CASE TakeEntry
  <2>1. /\ UNCHANGED <<pending, starts, core, resolved, unsure>> /\ pc = "watch"
        /\ mem'.cursor = mem.cursor
    BY <1>1, <1>4 DEF TakeEntry, Charge, machine, history, TypeOK, States
  <2>2. \A c \in Crashes : Behind(c) => Behind(c)'
    BY <2>1 DEF Behind
  <2> QED  BY <1>1, <2>1, <2>2, ReportsTheSame
<1>5. CASE ServerRefuses \/ ServerWants \/ NoAnswer \/ SpoolBegin \/ SpoolEnd
  <2>1. UNCHANGED <<pending, starts, core, resolved, mem, pos>> /\ unsure \subseteq unsure' /\ pc \notin {"down", "save"}
    BY <1>5 DEF ServerRefuses, ServerWants, NoAnswer, SpoolBegin, SpoolEnd, Goto, machine, history
  <2>2. \A c \in Crashes : Behind(c) => Behind(c)'
    BY <2>1 DEF Behind
  <2> QED  BY <1>1, <2>1, <2>2, ReportsTheSame
<1>6. CASE SaveState
  <2>1. /\ UNCHANGED <<pending, starts, core, resolved, unsure>> /\ pc = "save"
        /\ mem'.cursor = pos /\ pos > mem.cursor
    BY <1>1, <1>6 DEF SaveState, Goto, machine, history, cur, Busy, TypeOK, States
  <2>2. ASSUME NEW c \in Crashes, Behind(c) PROVE Behind(c)'
    <3>1. c <= mem.cursor \/ c = pos
      BY <2>2 DEF Behind
    <3>2. c <= pos
      BY <1>1, <2>1, <3>1
    <3> QED  BY <2>1, <3>2 DEF Behind
  <2> QED  BY <1>1, <2>1, <2>2, ReportsTheSame
<1>7. CASE DropCore
  <2>1. /\ UNCHANGED <<pending, starts, mem, pos, resolved, unsure>> /\ pc = "drop" /\ pc' = "save"
        /\ core \ {pos} \subseteq core' /\ Busy
    BY <1>7 DEF DropCore, Goto, history, cur, Busy, Underway
  <2>2. \A c : Behind(c) => Behind(c)' /\ c # pos
    BY <1>1, <2>1 DEF Behind
  <2>3. \A s \in DOMAIN pending :
          /\ pending[s].crash = pos => pending[s].crash \in unsure
          /\ FirstStart => pending[s].crash # pos
    BY <2>1, <2>2 DEF ReportInv, ReportsBehind
  <2>4. LostOnlyInDoubt'
    BY <2>1, <2>3 DEF ReportInv, LostOnlyInDoubt
  <2>5. KeptAtFirst'
    BY <2>1, <2>3 DEF ReportInv, KeptAtFirst, FirstStart, PendingKeepsItsCore
  <2>6. ReportsBehind'
    <3> SUFFICES ASSUME NEW s \in DOMAIN pending
                 PROVE  /\ pending[s].crash \in unsure \/ Behind(pending[s].crash)'
                        /\ FirstStart => Behind(pending[s].crash)'
      BY <2>1 DEF ReportsBehind, FirstStart, Behind
    <3>1. PICK c : c = pending[s].crash
      OBVIOUS
    <3>2. (c \in unsure \/ Behind(c)) /\ (FirstStart => Behind(c))
      BY <2>1, <3>1 DEF ReportInv, ReportsBehind
    <3>3. Behind(c) => Behind(c)'
      BY <2>2
    <3>4. Behind(pending[s].crash)' <=> Behind(c)'
      BY <2>1, <3>1 DEF Behind
    <3> QED  BY <3>1, <3>2, <3>3, <3>4
  <2>7. NotStarted'
    BY <2>1 DEF ReportInv, NotStarted
  <2> QED  BY <2>4, <2>5, <2>6, <2>7 DEF ReportInv
<1>8. CASE WriteConfirmed \/ WriteUnconfirmed
  <2>1. /\ UNCHANGED <<starts, mem, pos, core, resolved, unsure>> /\ pc' = "save" /\ Busy /\ pc \notin {"down", "save"}
    BY <1>8 DEF WriteConfirmed, WriteUnconfirmed, WritePending, Goto, history, Busy, Underway
  <2>2. \A c \in Crashes : Behind(c) => Behind(c)'
    BY <2>1 DEF Behind
  <2>3. CASE pending' = pending
    BY <1>1, <2>1, <2>2, <2>3, ReportsTheSame
  <2>4. CASE pending' # pending
    <3>1. PICK w \in BOOLEAN :
            pending' = Put(pending, SignatureOf(cur), [crash |-> pos, awaiting |-> w, core |-> pos \in core])
      BY <1>8, <2>4 DEF WriteConfirmed, WriteUnconfirmed, WritePending, cur
    <3>2. PICK r \in Signature : r = SignatureOf(cur)
      BY <1>1, <2>1, Journal DEF SignatureOf, cur
    <3>3. /\ DOMAIN pending' = DOMAIN pending \cup {r}
          /\ pending'[r] = [crash |-> pos, awaiting |-> w, core |-> pos \in core]
          /\ \A s \in DOMAIN pending : s # r => pending'[s] = pending[s]
      BY <3>1, <3>2 DEF Put
    <3>4. pending'[r].crash = pos /\ (pending'[r].core => pos \in core)
      <4>1. PICK k \in BOOLEAN : (pos \in core) = k
        <5>1. (pos \in core) = TRUE \/ (pos \in core) = FALSE
          OBVIOUS
        <5> QED  BY <5>1
      <4>2. pending'[r] = [crash |-> pos, awaiting |-> w, core |-> k]
        BY <3>3, <4>1, Zenon
      <4>3. pending'[r].crash = pos /\ pending'[r].core = k
        BY <4>2
      <4> QED  BY <4>1, <4>3
    <3>5. LostOnlyInDoubt'
      BY <2>1, <3>3, <3>4 DEF ReportInv, LostOnlyInDoubt
    <3>6. KeptAtFirst'
      BY <2>1, <3>3, <3>4 DEF ReportInv, KeptAtFirst, FirstStart, PendingKeepsItsCore
    <3>7. ASSUME NEW s \in DOMAIN pending', s # r
          PROVE  /\ pending'[s].crash \in unsure' \/ Behind(pending[s].crash)'
                 /\ FirstStart => Behind(pending[s].crash)'
      <4>1. s \in DOMAIN pending /\ pending'[s] = pending[s]
        BY <3>3, <3>7
      <4>2. PICK c \in Crashes : c = pending[s].crash
        BY <1>1, <4>1 DEF TypeOK, PendingReports
      <4>3. (c \in unsure \/ Behind(c)) /\ (FirstStart => Behind(c))
        BY <2>1, <4>1, <4>2 DEF ReportInv, ReportsBehind
      <4>4. (c \in unsure \/ Behind(c)') /\ (FirstStart => Behind(c)')
        BY <2>2, <4>3
      <4>5. pending'[s].crash = c
        BY <4>1, <4>2
      <4> QED  BY <2>1, <4>1, <4>2, <4>4, <4>5 DEF Behind
    <3>8. ReportsBehind'
      <4>1. \A s \in DOMAIN pending' : s # r =>
               /\ pending'[s].crash \in unsure' \/ Behind(pending[s].crash)'
               /\ FirstStart => Behind(pending[s].crash)'
        BY <3>7
      <4> QED  BY <2>1, <3>4, <4>1 DEF ReportsBehind, FirstStart, Behind
    <3>9. NotStarted'
      BY <2>1 DEF ReportInv, NotStarted
    <3> QED  BY <3>5, <3>6, <3>8, <3>9 DEF ReportInv
  <2> QED  BY <2>3, <2>4
<1> QED  BY <1>2, <1>3, <1>4, <1>5, <1>6, <1>7, <1>8 DEF Daemon

\* What happens around the daemon, and to it.
LEMMA ReportsOfOthers ==
    ASSUME IInv, ReportInv, Kill \/ Shutdown \/ Environment \/ UNCHANGED vars
    PROVE  ReportInv'
<1>1. /\ TypeOK /\ disk.cursor \in Nat /\ mem.cursor \in Nat /\ pos \in Nat
      /\ disk.cursor <= mem.cursor /\ (Watching => mem.cursor <= pos)
      /\ ~Watching => mem.cursor = disk.cursor
      /\ Crashes \subseteq Nat
  BY Working, Cursors, Journal DEF IInv, Positions
<1>2. CASE Kill
  <2>1. /\ UNCHANGED <<pending, starts, core, resolved>> /\ pc' = "down" /\ mem' = disk
        /\ unsure' = unsure \cup (disk.cursor + 1)..pos
    BY <1>2 DEF Kill, machine
  <2>2. ASSUME NEW c \in Crashes, Behind(c) PROVE Behind(c)' \/ c \in unsure'
    <3>1. c \in Nat
      BY <1>1
    <3>2. CASE c <= disk.cursor
      BY <2>1, <3>2 DEF Behind
    <3>3. CASE c > disk.cursor
      <4>1. c <= pos
        BY <1>1, <2>2, <3>1, <3>3 DEF Behind
      <4> QED  BY <1>1, <2>1, <3>1, <3>3, <4>1
    <3> QED  BY <1>1, <3>1, <3>2, <3>3
  <2> QED  BY <1>1, <2>1, <2>2, ReportsTheSame
<1>3. CASE Shutdown
  <2>1. UNCHANGED <<pending, starts, core, resolved, mem, unsure>> /\ pc = "watch" /\ pc' = "down"
    BY <1>3 DEF Shutdown, Goto, machine, history
  <2>2. \A c \in Crashes : Behind(c) => Behind(c)'
    BY <2>1 DEF Behind
  <2> QED  BY <1>1, <2>1, <2>2, ReportsTheSame
<1>4. ASSUME NEW s \in Signature, NEW t \in 0..MaxSecond, NewCrash(s, t) PROVE ReportInv'
  <2>1. /\ UNCHANGED <<pending, starts, mem, pos, pc, resolved, unsure>> /\ core \subseteq core'
    BY <1>4 DEF NewCrash, history
  <2>2. \A c \in Crashes : Behind(c) => Behind(c)'
    BY <2>1 DEF Behind
  <2> QED  BY <1>1, <2>1, <2>2, ReportsTheSame
<1>5. ASSUME NEW x \in Executable, ChargeExpires(x) PROVE ReportInv'
  <2>1. /\ UNCHANGED <<pending, starts, pos, pc, resolved, unsure, core>> /\ mem'.cursor = mem.cursor
    BY <1>1, <1>5 DEF ChargeExpires, machine, history, TypeOK, States
  <2>2. \A c \in Crashes : Behind(c) => Behind(c)'
    BY <2>1 DEF Behind
  <2> QED  BY <1>1, <2>1, <2>2, ReportsTheSame
<1>6. ASSUME \/ UNCHANGED vars
             \/ \E e \in listed : RemoveCore(e) \/ DeclineForever(e) \/ Announce(e)
      PROVE  ReportInv'
  <2>1. /\ UNCHANGED <<pending, starts, pos, pc, unsure, mem>>
        /\ core \ core' \subseteq resolved' /\ resolved \subseteq resolved'
    BY <1>6 DEF RemoveCore, DeclineForever, Announce, vars, machine, history
  <2>2. \A c \in Crashes : Behind(c) => Behind(c)'
    BY <2>1 DEF Behind
  <2> QED  BY <1>1, <2>1, <2>2, ReportsTheSame
<1>7. ASSUME NEW d \in Crashes, RemoveReport(d) PROVE ReportInv'
  <2>1. /\ UNCHANGED <<starts, pos, pc, core, resolved, unsure, mem>>
        /\ DOMAIN pending' \subseteq DOMAIN pending
        /\ \A s \in DOMAIN pending' : pending'[s] = pending[s]
    BY <1>7 DEF RemoveReport, Remove, history
  <2>2. LostOnlyInDoubt' /\ KeptAtFirst'
    BY <2>1 DEF ReportInv, LostOnlyInDoubt, KeptAtFirst, FirstStart, PendingKeepsItsCore
  <2>3. ReportsBehind' /\ NotStarted'
    BY <2>1 DEF ReportInv, ReportsBehind, FirstStart, Behind, NotStarted
  <2> QED  BY <2>2, <2>3 DEF ReportInv
<1> QED  BY <1>2, <1>3, <1>4, <1>5, <1>6, <1>7 DEF Environment

\* In every reachable state.
LEMMA ReportsInductive == Spec => []ReportInv
<1>1. Init => ReportInv
  BY DEF Init, ReportInv, LostOnlyInDoubt, KeptAtFirst, PendingKeepsItsCore, ReportsBehind, NotStarted
<1>2. IInv /\ ReportInv /\ [Next]_vars => ReportInv'
  BY ReportsOfDaemon, ReportsOfOthers DEF Next
<1> QED  BY <1>1, <1>2, Inductive, PTL DEF Spec

\* "The core is kept until the user decides": but for his own decision, the only
\* crash whose report can lose its core, to a refusal when it is handled a second
\* time, is one in doubt, however often the daemon is killed, whatever writes fail
\* and whatever front ends do with old lists (drop_core, write_pending, remove_core).
THEOREM CoreLostOnlyInDoubt == Spec => []LostOnlyInDoubt
<1>1. ReportInv => LostOnlyInDoubt
  BY DEF ReportInv
<1> QED  BY ReportsInductive, <1>1, PTL

\* The first daemon of a machine, for as long as no other is started, never takes
\* the core from under a report that the user has not decided on: what breaks
\* PendingKeepsItsCore is the restart.
THEOREM FirstDaemonKeepsCores == Spec => [](starts <= 1 => PendingKeepsItsCore)
<1>1. ReportInv => (starts <= 1 => PendingKeepsItsCore)
  BY DEF ReportInv, KeptAtFirst, FirstStart
<1> QED  BY ReportsInductive, <1>1, PTL

-----------------------------------------------------------------------------
(* What is behind the saved cursor *)

\* What a step may do to a crash that the saved cursor is past: send it again if it
\* is in doubt, and take its core by the user's decision.
Final(c) ==
    /\ fate'[c] = fate[c]
    /\ copies'[c] # copies[c] => c \in unsure
    /\ c \in core /\ c \notin core' => c \in resolved'
PastIsFinal == [][\A c \in Crashes : c <= disk.cursor => Final(c)]_vars

\* Once the saved cursor is past a crash it is never handled again: what has become of
\* it stays, only a request that was in doubt is sent again, and its core goes by
\* the user's decision alone (main, drain_spool, send, discard).
THEOREM WhatIsPastIsFinal == Spec => PastIsFinal
<1>1. ASSUME IInv, Next, NEW c \in Crashes, c <= disk.cursor PROVE Final(c)
  <2>1. /\ TypeOK /\ disk.cursor \in Nat /\ pos \in Nat /\ c \in Nat
        /\ Busy => pos \in Crashes /\ pos > disk.cursor
        /\ pc = "watch" => disk.cursor <= pos
        /\ disk.cursor <= mem.cursor
    BY <1>1, Working, Cursors, Journal DEF IInv, Positions, Watching
  <2>2. Busy => c # pos
    BY <1>1, <2>1
  <2>3. CASE UNCHANGED <<fate, copies, core>>
    BY <2>3 DEF Final
  <2>4. CASE Start \/ RemoveSpooled \/ SpoolBegin \/ SpoolEnd \/ SaveState \/ Kill \/ Shutdown
              \/ \E x \in Executable : ChargeExpires(x)
    <3>1. UNCHANGED <<fate, copies, core>>
      BY <2>4 DEF Start, RemoveSpooled, SpoolBegin, SpoolEnd, SaveState, Kill, Shutdown,
                  ChargeExpires, machine
    <3> QED  BY <2>3, <3>1
  <2>5. CASE DrainSpool
    <3>1. UNCHANGED <<fate, core>>
      BY <2>5 DEF DrainSpool, machine
    <3>2. PICK sent \in SUBSET {spool[k] : k \in DOMAIN spool} : copies' = Counted(sent)
      <4>1. CASE \E n \in 0..Cardinality(batch) : copies' = Counted({spool[k] : k \in Oldest(n)})
        <5>1. PICK n : copies' = Counted({spool[k] : k \in Oldest(n)})
          BY <4>1
        <5> DEFINE some == {spool[k] : k \in Oldest(n)}
        <5>2. some \in SUBSET {spool[k] : k \in DOMAIN spool} /\ copies' = Counted(some)
          BY <5>1 DEF Oldest
        <5> HIDE DEF some
        <5> QED  BY <5>2
      <4>2. CASE copies' = Counted({spool[k] : k \in batch})
        <5> DEFINE all == {spool[k] : k \in batch}
        <5>1. copies' = Counted(all) /\ all \in SUBSET {spool[k] : k \in DOMAIN spool}
          BY <2>1, <4>2 DEF TypeOK
        <5> HIDE DEF all
        <5> QED  BY <5>1
      <4> QED  BY <2>5, <4>1, <4>2 DEF DrainSpool
    <3>3. c \in sent => c \in unsure
      <4>1. c # Torn
        BY <1>1, <2>1, Journal DEF Torn
      <4> QED  BY <1>1, <3>2, <4>1 DEF IInv, SpoolHolds
    <3>4. c \notin sent => copies'[c] = copies[c]
      BY <1>1, <3>2 DEF Counted
    <3> QED  BY <3>1, <3>3, <3>4 DEF Final
  <2>6. CASE OpenJournal
    <3>1. UNCHANGED <<copies, core>>
      BY <2>6 DEF OpenJournal, machine
    <3>2. fate[c] \notin {"unseen", "backlog"}
      <4>1. Done = 1..disk.cursor
        BY <2>6 DEF OpenJournal, Goto, Done, Watching, Busy, Underway
      <4>2. c \in Done
        BY <1>1, <2>1, <4>1, Journal
      <4> QED  BY <1>1, <4>2 DEF IInv, FatesKnown
    <3>3. fate'[c] = fate[c]
      BY <1>1, <2>6, <3>2 DEF OpenJournal
    <3> QED  BY <3>1, <3>3 DEF Final
  <2>7. CASE TakeEntry
    <3>1. UNCHANGED <<copies, core>> /\ pc = "watch" /\ pos' = pos + 1
      BY <2>7 DEF TakeEntry, machine
    <3>2. c # pos'
      BY <1>1, <2>1, <3>1
    <3>3. fate' = fate \/ fate' = [fate EXCEPT ![pos'] = "suppressed"]
      BY <2>7 DEF TakeEntry
    <3>4. fate'[c] = fate[c]
      BY <1>1, <2>1, <3>2, <3>3 DEF TypeOK
    <3> QED  BY <3>1, <3>4 DEF Final
  <2>8. CASE ServerRefuses \/ ServerWants \/ NoAnswer
    <3>1. /\ UNCHANGED <<fate, core>> /\ Busy
          /\ copies' = copies \/ copies' = Counted({pos})
      BY <2>8 DEF ServerRefuses, ServerWants, NoAnswer, Goto, machine, Busy, Underway, cur
    <3>2. copies'[c] = copies[c]
      BY <1>1, <2>2, <3>1 DEF Counted
    <3> QED  BY <3>1, <3>2 DEF Final
  <2>9. CASE DropCore \/ WriteConfirmed \/ WriteUnconfirmed
    <3>1. /\ copies' = copies /\ Busy /\ core \ {pos} \subseteq core'
          /\ \E outcome \in Fate : fate' = [fate EXCEPT ![pos] = outcome]
      BY <2>9 DEF DropCore, WriteConfirmed, WriteUnconfirmed, WritePending, Goto, Busy, Underway,
                  cur, Fate
    <3>2. fate'[c] = fate[c] /\ (c \in core => c \in core')
      BY <1>1, <2>1, <2>2, <3>1 DEF TypeOK
    <3> QED  BY <3>1, <3>2 DEF Final
  <2>10. ASSUME NEW s \in Signature, NEW t \in 0..MaxSecond, NewCrash(s, t) PROVE Final(c)
    <3>1. core \subseteq core' /\ fate' = Append(fate, "unseen") /\ copies' = Append(copies, 0)
      BY <2>10 DEF NewCrash
    <3>2. fate \in [Crashes -> Fate] /\ copies \in [Crashes -> 0..2] /\ Crashes = 1..Len(journal)
          /\ Len(journal) \in Nat
      BY <2>1, Journal DEF TypeOK
    <3>3. fate'[c] = fate[c] /\ copies'[c] = copies[c]
      BY <1>1, <3>1, <3>2
    <3> QED  BY <3>1, <3>3 DEF Final
  <2>11. ASSUME NEW e \in listed, RemoveCore(e) \/ DeclineForever(e) PROVE Final(c)
    BY <2>11 DEF RemoveCore, DeclineForever, Final
  <2>12. ASSUME NEW e \in listed, Announce(e) PROVE Final(c)
    <3>1. UNCHANGED <<fate, core>> /\ copies' = Counted({e.crash}) /\ e.crash \in unsure
      BY <1>1, <2>12 DEF Announce, machine, IInv, PendingHolds
    <3>2. c # e.crash => copies'[c] = copies[c]
      BY <1>1, <3>1 DEF Counted
    <3> QED  BY <3>1, <3>2 DEF Final
  <2>13. ASSUME NEW d \in Crashes, RemoveReport(d) PROVE Final(c)
    <3>1. UNCHANGED <<fate, copies, core>>
      BY <2>13 DEF RemoveReport
    <3> QED  BY <2>3, <3>1
  <2> QED  BY <1>1, <2>4, <2>5, <2>6, <2>7, <2>8, <2>9, <2>10, <2>11, <2>12,
          <2>13 DEF Next, Daemon, Environment
<1>2. IInv /\ [Next]_vars => [\A c \in Crashes : c <= disk.cursor => Final(c)]_vars
  BY <1>1
<1> QED  BY <1>2, Inductive, PTL DEF Spec, PastIsFinal

=============================================================================
