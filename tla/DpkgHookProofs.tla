--------------------------- MODULE DpkgHookProofs ---------------------------
(***************************************************************************)
(* Proofs about DpkgHook, for any packages and any length of the log.      *)
(***************************************************************************)
EXTENDS DpkgHook, SequenceTheorems, WellFoundedInduction, TLAPS

-----------------------------------------------------------------------------
(* The inductive invariant *)

\* dpkg's clock does not go back.
Sorted == \A i, j \in Lines : i <= j => log[i].second <= log[j].second

\* A failure is dealt with: passed over in an answered second, or reported, itself
\* or as a repetition.
Told(i) == Shadowed(i) \/ \E j \in received : Repeats(j, i)

\* Line i is no newer than the newest line of a batch.
Within(i, lines) == \E b \in lines : log[i].second <= log[b].second

\* The batch in hand deals with i.
Covered(i) ==
    \E j \in batch : Repeats(j, i) \/ (j < i /\ log[j].second = log[i].second)

\* Line i repeats another failure.
Repetition(i) == \E k \in Failures \ {i} : Repeats(k, i)

\* What the timestamp stands for.
Remembered ==
    /\ \A i \in Failures : log[i].second <= last => Told(i)
    /\ last # Never =>
         /\ \E j \in answered : log[j].second = last
         /\ \A i \in answered : log[i].second <= last \/ Repetition(i)

\* What the batch in hand will make the timestamp stand for.
InHand ==
    pc # "off" =>
        /\ \A i \in Failures : Within(i, batch) => Told(i) \/ Covered(i)
        /\ \A i \in answered : Within(i, batch) \/ Repetition(i)

IInv ==
    /\ TypeOK /\ Sorted
    /\ batch \subseteq Failures /\ answered \subseteq Failures
    /\ pc \in {"create", "write"} => batch \subseteq received
    /\ pc = "write" => last = Never
    /\ Remembered /\ InHand

-----------------------------------------------------------------------------
(* The log and its failures *)

LEMMA LineIs ==
    ASSUME TypeOK, NEW i \in Lines
    PROVE  log[i] \in Line /\ log[i].second \in 0..MaxSecond /\ i \in Nat
<1>1. log \in Seq(Line) /\ i \in 1..Len(log) /\ Len(log) \in Nat
  BY DEF TypeOK, Lines
<1>2. log[i] \in Line
  BY <1>1, ElementOfSeq
<1> QED  BY <1>1, <1>2 DEF Line

\* A set of numbers that is not empty has a least one.
LEMMA Smallest ==
    ASSUME NEW T \in SUBSET Nat, T # {}
    PROVE  \E x \in T : \A y \in T : x <= y
<1> DEFINE Less == {p \in Nat \X Nat : p[1] < p[2]}
<1>1. IsWellFoundedOn(Less, Nat)
  BY NatLessThanWellFounded DEF OpToRel
<1>2. \A x, y \in Nat : <<y, x>> \notin Less => x <= y
  OBVIOUS
<1> HIDE DEF Less
<1>3. PICK x \in T : \A y \in T : ~(<<y, x>> \in Less)
  BY <1>1, WFMin
<1>4. \A y \in T : x <= y
  BY <1>2, <1>3
<1> QED  BY <1>4

\* newest_timestamp returns the time of one of the lines, and none is newer.
LEMMA NewestIs ==
    ASSUME TypeOK, NEW S \in SUBSET Lines, S # {}
    PROVE  /\ newest_timestamp(S) \in 0..MaxSecond
           /\ \A i \in S : log[i].second <= newest_timestamp(S)
           /\ \E i \in S : log[i].second = newest_timestamp(S)
<1> DEFINE seconds == {log[i].second : i \in S}
<1>1. seconds \subseteq 0..MaxSecond /\ seconds # {}
  BY LineIs
<1>2. MaxSecond \in Nat
  BY BoundAssumption
<1>3. \E t \in seconds : \A u \in seconds : u <= t
  <2> DEFINE Above == {t \in Nat : \A u \in seconds : u <= t}
  <2> HIDE DEF seconds
  <2>1. MaxSecond \in Above
    BY <1>1, <1>2
  <2>2. Above \in SUBSET Nat /\ Above # {}
    BY <2>1
  <2>3. PICK m \in Above : \A y \in Above : m <= y
    BY <2>2, Smallest
  <2>4. CASE m \in seconds
    BY <2>3, <2>4
  <2>5. CASE m \notin seconds
    <3>1. \A u \in seconds : u \in Nat /\ u <= m /\ u # m
      BY <1>1, <1>2, <2>3, <2>5
    <3>2. PICK u \in seconds : TRUE
      BY <1>1
    <3>3. m \in Nat /\ m - 1 \in Nat
      BY <2>3, <3>1, <3>2
    <3>4. m - 1 \in Above
      BY <3>1, <3>3
    <3> QED  BY <2>3, <3>3, <3>4
  <2> QED  BY <2>4, <2>5
<1>4. newest_timestamp(S) \in seconds /\ \A u \in seconds : u <= newest_timestamp(S)
  BY <1>3 DEF newest_timestamp
<1> QED  BY <1>1, <1>4

\* What parse_dpkg_log leaves out repeats a line that it keeps.
LEMMA DedupedIs ==
    ASSUME TypeOK, Sorted, NEW after \in Int
    PROVE  /\ parse_dpkg_log(after) \subseteq Fresh(after) /\ Fresh(after) \subseteq Failures
           /\ \A i \in Failures : log[i].second > after => i \in Fresh(after)
           /\ \A i \in Fresh(after) : log[i].second > after
           /\ \A i \in Fresh(after) : \E j \in parse_dpkg_log(after) : Repeats(j, i)
<1>1. /\ parse_dpkg_log(after) \subseteq Fresh(after) /\ Fresh(after) \subseteq Failures
      /\ \A i \in Failures : log[i].second > after => i \in Fresh(after)
      /\ \A i \in Fresh(after) : log[i].second > after
  BY DEF parse_dpkg_log, Dedup, Fresh, IsNewFailure, Failures, Lines
<1>2. Failures \subseteq Lines /\ Lines \subseteq Nat
  BY DEF Failures, Lines
<1>3. ASSUME NEW i \in Fresh(after)
      PROVE  \E j \in parse_dpkg_log(after) : Repeats(j, i)
  <2> DEFINE T == {j \in Fresh(after) : Repeats(j, i)}
  <2>1. i \in Nat /\ i \in Lines
    BY <1>1, <1>2, <1>3
  <2>2. Repeats(i, i)
    BY <2>1 DEF Repeats, Same
  <2>3. T \in SUBSET Nat /\ T # {}
    BY <1>1, <1>2, <1>3, <2>2
  <2>4. PICK j \in T : \A y \in T : j <= y
    BY <2>3, Smallest
  <2>5. j \in Fresh(after) /\ Repeats(j, i) /\ j \in Nat /\ j \in Lines
    BY <1>1, <1>2, <2>4
  <2>6. ASSUME NEW p \in Fresh(after), Neighbours(p, j, Fresh(after)), Same(p, j)
        PROVE  FALSE
    <3>1. p \in Nat /\ p < j /\ p \in Lines
      BY <1>1, <1>2, <2>5, <2>6 DEF Neighbours
    <3>2. ASSUME NEW k \in Failures \cap (p..i)  PROVE Same(p, k)
      <4>1. k \in Nat /\ k \in Lines /\ p <= k /\ k <= i
        BY <1>2, <3>1, <3>2
      <4>2. k \in Fresh(after)
        <5>1. log[p].second <= log[k].second /\ log[p].second > after
          BY <1>1, <2>6, <3>1, <4>1 DEF Sorted
        <5>2. log[p].second \in Int /\ log[k].second \in Int
          BY <3>1, <4>1, LineIs, BoundAssumption
        <5>3. log[k].second > after
          BY <5>1, <5>2
        <5> QED  BY <1>1, <3>2, <5>3
      <4>3. CASE k >= j
        <5>1. Same(j, k)
          BY <2>1, <2>5, <3>2, <4>1, <4>3 DEF Repeats
        <5> QED  BY <2>6, <5>1 DEF Same
      <4>4. CASE k < j
        <5>1. ~ (p < k)
          BY <2>6, <4>2, <4>4 DEF Neighbours
        <5>2. p = k
          BY <3>1, <4>1, <5>1
        <5> QED  BY <5>2 DEF Same
      <4> QED  BY <2>5, <4>1, <4>3, <4>4
    <3>3. p <= i
      BY <2>1, <2>5, <3>1 DEF Repeats
    <3>4. p \in T
      BY <3>2, <3>3 DEF Repeats
    <3> QED  BY <2>4, <2>5, <3>1, <3>4
  <2>7. j \in parse_dpkg_log(after)
    BY <2>5, <2>6 DEF parse_dpkg_log, Dedup
  <2> QED  BY <2>5, <2>7
<1> QED  BY <1>1, <1>3

-----------------------------------------------------------------------------
(* The steps of the hook *)

\* As long as the log is the same.
LEMMA LogStays ==
    ASSUME log' = log
    PROVE  /\ Lines' = Lines /\ Failures' = Failures /\ Sorted' = Sorted
           /\ \A i, j : Repeats(j, i)' = Repeats(j, i)
           /\ \A i : Repetition(i)' = Repetition(i)
  BY DEF Lines, Failures, Sorted, Repeats, Same, Repetition

\* What was told stays told.
LEMMA ToldStays ==
    ASSUME log' = log, received \subseteq received', answered \subseteq answered', NEW i, Told(i)
    PROVE  Told(i)'
<1>1. CASE Shadowed(i)
  BY <1>1 DEF Told, Shadowed
<1>2. CASE \E j \in received : Repeats(j, i)
  BY <1>2 DEF Told, Repeats, Same, Failures, Lines
<1> QED  BY <1>1, <1>2 DEF Told

LEMMA RunStep ==
    ASSUME IInv, Run
    PROVE  IInv'
<1>1. /\ pc = "off" /\ batch' = parse_dpkg_log(last) /\ pc' = IF batch' = {} THEN "off" ELSE "send"
      /\ log' = log /\ last' = last /\ received' = received /\ answered' = answered
  BY DEF Run
<1>2. /\ TypeOK /\ Sorted /\ Remembered /\ answered \subseteq Failures
      /\ Failures \subseteq Lines /\ Lines \subseteq Nat
  BY DEF IInv, Failures, Lines
<1>3. last \in Int
  BY <1>2, BoundAssumption DEF TypeOK, Never
<1>4. /\ parse_dpkg_log(last) \subseteq Fresh(last) /\ Fresh(last) \subseteq Failures
      /\ \A i \in Failures : log[i].second > last => i \in Fresh(last)
      /\ \A i \in Fresh(last) : log[i].second > last
      /\ \A i \in Fresh(last) : \E j \in parse_dpkg_log(last) : Repeats(j, i)
  BY <1>2, <1>3, DedupedIs
<1>5. \A i \in Failures : log[i].second \in Nat /\ log[i].second \in Int
  BY <1>2, LineIs, BoundAssumption
<1>6. /\ Lines' = Lines /\ Failures' = Failures /\ Sorted' = Sorted
      /\ \A i, j : Repeats(j, i)' = Repeats(j, i)
      /\ \A i : Repetition(i)' = Repetition(i)
  BY <1>1, LogStays
<1>7. TypeOK'
  BY <1>1, <1>2, <1>4, <1>6 DEF TypeOK
<1>8. \A i : Told(i) => Told(i)'
  BY <1>1, ToldStays
<1>9. Remembered'
  BY <1>1, <1>2, <1>6, <1>8 DEF Remembered
<1>10. ASSUME NEW i \in Failures  PROVE Told(i)' \/ Covered(i)'
  <2>1. CASE log[i].second <= last
    BY <1>2, <1>8, <2>1 DEF Remembered
  <2>2. CASE log[i].second > last
    <3>1. PICK j \in batch' : Repeats(j, i)
      BY <1>1, <1>4, <2>2
    <3> QED  BY <1>6, <3>1 DEF Covered
  <2> QED  BY <1>3, <1>5, <2>1, <2>2
<1>11. ASSUME NEW i \in answered, pc' # "off"
       PROVE  (\E b \in batch' : log[i].second <= log[b].second) \/ Repetition(i)
  <2>1. CASE log[i].second <= last
    <3>1. PICK b \in batch' : TRUE
      BY <1>1, <1>11
    <3>2. b \in Failures /\ log[b].second > last
      BY <1>1, <1>4, <3>1
    <3>3. log[i].second <= log[b].second
      BY <1>2, <1>3, <1>5, <2>1, <3>2
    <3> QED  BY <3>1, <3>3
  <2>2. CASE log[i].second > last
    <3>1. PICK j \in batch' : Repeats(j, i)
      BY <1>1, <1>2, <1>4, <2>2
    <3>2. j \in Failures
      BY <1>1, <1>4, <3>1
    <3>3. CASE j = i
      BY <1>2, <1>5, <3>1, <3>3
    <3>4. CASE j # i
      BY <3>1, <3>2, <3>4 DEF Repetition
    <3> QED  BY <3>3, <3>4
  <2> QED  BY <1>2, <1>3, <1>5, <2>1, <2>2
<1>12. InHand'
  BY <1>1, <1>6, <1>10, <1>11 DEF InHand, Within
<1> QED  BY <1>1, <1>2, <1>4, <1>6, <1>7, <1>9, <1>12 DEF IInv

\* A step that ends the run and leaves the timestamp, or goes on with the batch.
LEMMA SendStep ==
    ASSUME IInv, Send
    PROVE  IInv'
<1>1. /\ pc = "send" /\ log' = log /\ last' = last /\ answered' = answered
      /\ received \subseteq received' /\ received' \subseteq received \cup batch
      /\ \/ pc' = "create" /\ batch' = batch /\ batch \subseteq received'
         \/ pc' = "off" /\ batch' = {}
  BY DEF Send
<1>2. /\ TypeOK /\ Sorted /\ Remembered /\ InHand /\ answered \subseteq Failures
      /\ batch \subseteq Failures
  BY DEF IInv
<1>3. /\ Lines' = Lines /\ Failures' = Failures /\ Sorted' = Sorted
      /\ \A i, j : Repeats(j, i)' = Repeats(j, i)
      /\ \A i : Repetition(i)' = Repetition(i)
  BY <1>1, LogStays
<1>4. \A i : Told(i) => Told(i)'
  BY <1>1, ToldStays
<1>5. TypeOK'
  BY <1>1, <1>2, <1>3 DEF TypeOK
<1>6. Remembered'
  BY <1>1, <1>2, <1>3, <1>4 DEF Remembered
<1>7. InHand'
  <2>1. CASE pc' = "off"
    BY <2>1 DEF InHand
  <2>2. CASE batch' = batch
    <3>1. \A i : Within(i, batch)' = Within(i, batch) /\ Covered(i)' = Covered(i)
      BY <1>1, <1>3, <2>2 DEF Within, Covered
    <3> QED  BY <1>1, <1>2, <1>3, <1>4, <3>1 DEF InHand
  <2> QED  BY <1>1, <2>1, <2>2
<1> QED  BY <1>1, <1>2, <1>3, <1>5, <1>6, <1>7 DEF IInv

LEMMA CreateFileStep ==
    ASSUME IInv, CreateFile
    PROVE  IInv'
<1>1. /\ pc = "create" /\ pc' = "write" /\ last' = Never /\ log' = log /\ batch' = batch
      /\ received' = received /\ answered' = answered
  BY DEF CreateFile
<1>2. /\ TypeOK /\ Sorted /\ InHand /\ answered \subseteq Failures
      /\ batch \subseteq Failures /\ batch \subseteq received
  BY <1>1 DEF IInv
<1>3. /\ Lines' = Lines /\ Failures' = Failures /\ Sorted' = Sorted
      /\ \A i, j : Repeats(j, i)' = Repeats(j, i)
      /\ \A i : Repetition(i)' = Repetition(i)
  BY <1>1, LogStays
<1>4. \A i : Told(i) => Told(i)'
  BY <1>1, ToldStays
<1>5. TypeOK'
  BY <1>1, <1>2, <1>3 DEF TypeOK
<1>6. Remembered'
  <2>1. \A i \in Failures : log[i].second \in Nat /\ ~ (log[i].second <= last')
    BY <1>1, <1>2, LineIs, BoundAssumption DEF Failures, Never
  <2> QED  BY <1>1, <1>3, <2>1 DEF Remembered
<1>7. InHand'
  <2>1. \A i : Within(i, batch)' = Within(i, batch) /\ Covered(i)' = Covered(i)
    BY <1>1, <1>3 DEF Within, Covered
  <2> QED  BY <1>1, <1>2, <1>3, <1>4, <2>1 DEF InHand
<1> QED  BY <1>1, <1>2, <1>3, <1>5, <1>6, <1>7 DEF IInv

LEMMA WriteFileStep ==
    ASSUME IInv, WriteFile
    PROVE  IInv'
<1>1. /\ pc = "write" /\ pc' = "off" /\ last' = newest_timestamp(batch) /\ log' = log
      /\ answered' = answered \cup batch /\ batch' = {} /\ received' = received
  BY DEF WriteFile
<1>2. /\ TypeOK /\ Sorted /\ InHand /\ answered \subseteq Failures
      /\ batch \subseteq Failures /\ batch \subseteq received
      /\ Failures \subseteq Lines
  BY <1>1 DEF IInv, Failures
<1>3. /\ Lines' = Lines /\ Failures' = Failures /\ Sorted' = Sorted
      /\ \A i, j : Repeats(j, i)' = Repeats(j, i)
      /\ \A i : Repetition(i)' = Repetition(i)
  BY <1>1, LogStays
<1>4. \A i : Told(i) => Told(i)'
  BY <1>1, ToldStays
<1>5. /\ last' \in 0..MaxSecond /\ \A b \in batch : log[b].second <= last'
      /\ \E b \in batch : log[b].second = last'
  <2>1. batch # {}
    BY <1>1, <1>2 DEF TypeOK
  <2> QED  BY <1>1, <1>2, <2>1, NewestIs
<1>6. TypeOK'
  BY <1>1, <1>2, <1>3, <1>5 DEF TypeOK
<1>7. Remembered'
  <2>1. ASSUME NEW i \in Failures, log[i].second <= last'  PROVE Told(i)'
    <3>1. Told(i) \/ Covered(i)
      BY <1>1, <1>2, <1>5, <2>1 DEF InHand, Within
    <3>2. CASE Covered(i)
      <4>1. PICK j \in batch : Repeats(j, i) \/ (j < i /\ log[j].second = log[i].second)
        BY <3>2 DEF Covered
      <4>2. CASE Repeats(j, i)
        BY <1>1, <1>2, <1>3, <4>1, <4>2 DEF Told
      <4>3. CASE j < i /\ log[j].second = log[i].second
        BY <1>1, <4>1, <4>3 DEF Told, Shadowed
      <4> QED  BY <4>1, <4>2, <4>3
    <3> QED  BY <1>4, <3>1, <3>2
  <2>2. ASSUME NEW i \in answered'  PROVE log[i].second <= last' \/ Repetition(i)
    <3>1. CASE i \in batch
      BY <1>5, <3>1
    <3>2. CASE i \in answered
      <4>1. CASE Within(i, batch)
        <5>1. PICK b \in batch : log[i].second <= log[b].second
          BY <4>1 DEF Within
        <5>2. log[b].second <= last' /\ last' \in Nat
          BY <1>5, BoundAssumption
        <5>3. log[i].second \in 0..MaxSecond /\ log[b].second \in 0..MaxSecond
          BY <1>2, <3>2, <5>1, LineIs
        <5> QED  BY <5>1, <5>2, <5>3, BoundAssumption
      <4> QED  BY <1>1, <1>2, <3>2, <4>1 DEF InHand
    <3> QED  BY <1>1, <2>2, <3>1, <3>2
  <2>3. \E j \in answered' : log'[j].second = last'
    BY <1>1, <1>5
  <2> QED  BY <1>1, <1>3, <2>1, <2>2, <2>3 DEF Remembered
<1>8. InHand'
  BY <1>1 DEF InHand
<1> QED  BY <1>1, <1>2, <1>3, <1>6, <1>7, <1>8 DEF IInv

LEMMA KillStep ==
    ASSUME IInv, Kill
    PROVE  IInv'
<1>1. /\ pc' = "off" /\ batch' = {} /\ log' = log /\ last' = last
      /\ received' = received /\ answered' = answered
  BY DEF Kill
<1>2. /\ Lines' = Lines /\ Failures' = Failures /\ Sorted' = Sorted
      /\ \A i, j : Repeats(j, i)' = Repeats(j, i)
      /\ \A i : Repetition(i)' = Repetition(i)
  BY <1>1, LogStays
<1>3. \A i : Told(i) => Told(i)'
  BY <1>1, ToldStays
<1>4. TypeOK'
  BY <1>1, <1>2 DEF IInv, TypeOK
<1>5. Remembered' /\ InHand'
  BY <1>1, <1>2, <1>3 DEF IInv, Remembered, InHand
<1> QED  BY <1>1, <1>2, <1>4, <1>5 DEF IInv

-----------------------------------------------------------------------------
(* dpkg *)

LEMMA DpkgStep ==
    ASSUME IInv, NEW line \in Line, Dpkg(line)
    PROVE  IInv'
<1>1. /\ Len(log) < MaxLines
      /\ log # <<>> => log[Len(log)].second <= line.second
      /\ log' = Append(log, line) /\ last' = last /\ pc' = pc /\ batch' = batch
      /\ received' = received /\ answered' = answered
  BY DEF Dpkg
<1>2. /\ TypeOK /\ Sorted /\ Remembered /\ InHand /\ log \in Seq(Line)
      /\ batch \subseteq Failures /\ answered \subseteq Failures /\ received \subseteq Lines
      /\ Failures \subseteq Lines
  BY DEF IInv, TypeOK, Failures
<1>3. PICK n \in Nat : n = Len(log) + 1
  BY <1>2
<1>4. /\ log' \in Seq(Line) /\ Len(log') = n /\ log'[n] = line
      /\ \A i \in Lines : log'[i] = log[i]
  BY <1>1, <1>2, <1>3, AppendProperties DEF Lines
<1>5. /\ Lines' = Lines \cup {n} /\ \A i \in Lines : i \in Nat /\ i < n
  BY <1>2, <1>3, <1>4 DEF Lines
<1>6. /\ \A i \in Lines : i \in Failures' <=> i \in Failures
      /\ \A i \in Failures' : i \in Failures \/ i = n
      /\ Failures \subseteq Failures'
  BY <1>2, <1>4, <1>5 DEF Failures
<1>7. \A i \in Lines : log[i].second \in Nat
  BY <1>2, LineIs, BoundAssumption
<1>8. line.second \in 0..MaxSecond /\ line.second \in Nat
  BY BoundAssumption DEF Line
<1>9. \A i \in Lines : log[i].second <= line.second
  <2> SUFFICES ASSUME NEW i \in Lines  PROVE log[i].second <= line.second
    OBVIOUS
  <2>1. PICK l \in Nat : l = Len(log) /\ l \in Lines /\ i <= l /\ log # <<>>
    BY <1>2, <1>3 DEF Lines
  <2>2. log[i].second <= log[l].second
    BY <1>2, <2>1 DEF Sorted
  <2>3. log[l].second <= line.second
    BY <1>1, <2>1
  <2> QED  BY <1>7, <1>8, <2>1, <2>2, <2>3
<1>10. \A i, j \in Lines : Repeats(j, i) => Repeats(j, i)'
  <2> SUFFICES ASSUME NEW i \in Lines, NEW j \in Lines, Repeats(j, i),
                      NEW k \in Failures' \cap (j..i)
               PROVE  j <= i /\ Same(j, k)'
    BY DEF Repeats
  <2>1. k \in Failures
    BY <1>5, <1>6
  <2>2. Same(j, k) /\ j <= i /\ k \in Lines
    BY <1>2, <2>1 DEF Repeats
  <2> QED  BY <1>4, <2>2 DEF Same
<1>11. \A i \in Lines : (Told(i) => Told(i)') /\ (Repetition(i) => Repetition(i)')
  <2> SUFFICES ASSUME NEW i \in Lines
               PROVE  (Told(i) => Told(i)') /\ (Repetition(i) => Repetition(i)')
    OBVIOUS
  <2>1. ASSUME Shadowed(i)  PROVE Shadowed(i)'
    BY <1>1, <1>2, <1>4, <2>1 DEF Shadowed
  <2>2. ASSUME Repetition(i)  PROVE Repetition(i)'
    BY <1>2, <1>6, <1>10, <2>2 DEF Repetition
  <2>3. ASSUME NEW j \in received, Repeats(j, i)  PROVE j \in received' /\ Repeats(j, i)'
    BY <1>1, <1>2, <1>10, <2>3
  <2> QED  BY <2>1, <2>2, <2>3 DEF Told
<1>12. TypeOK'
  <2>1. Len(log') <= MaxLines
    <3>1. PICK l \in Nat : l = Len(log)
      BY <1>2
    <3>2. l < MaxLines /\ MaxLines \in Nat /\ n = l + 1
      BY <1>1, <1>3, <3>1, BoundAssumption
    <3>3. n <= MaxLines
      BY <3>2
    <3> QED  BY <1>4, <3>3
  <2> QED  BY <1>1, <1>2, <1>4, <1>5, <2>1 DEF TypeOK
<1>13. Sorted'
  <2> SUFFICES ASSUME NEW i \in Lines', NEW j \in Lines', i <= j
               PROVE  log'[i].second <= log'[j].second
    BY DEF Sorted
  <2>1. CASE i \in Lines /\ j \in Lines
    BY <1>2, <1>4, <2>1 DEF Sorted
  <2>2. CASE i \in Lines /\ j = n
    BY <1>4, <1>9, <2>2
  <2>3. CASE i = n
    <3>1. j = n
      BY <1>3, <1>5, <2>3
    <3> QED  BY <1>4, <1>8, <2>3, <3>1
  <2> QED  BY <1>5, <2>1, <2>2, <2>3
<1>14. Remembered'
  <2>1. ASSUME NEW i \in Failures', log'[i].second <= last  PROVE Told(i)'
    <3>1. CASE i \in Failures
      BY <1>2, <1>4, <1>11, <2>1, <3>1 DEF Remembered
    <3>2. CASE i = n
      <4>1. last # Never
        BY <1>4, <1>8, <2>1, <3>2 DEF Never
      <4>2. PICK j \in answered : log[j].second = last
        BY <1>2, <4>1 DEF Remembered
      <4>3. j \in Lines /\ j < n /\ log[j].second <= line.second /\ line.second <= log[j].second
        BY <1>2, <1>4, <1>5, <1>9, <2>1, <3>2, <4>2
      <4>4. log[j].second = line.second
        BY <1>7, <1>8, <4>3
      <4>5. Shadowed(i)'
        BY <1>1, <1>4, <3>2, <4>3, <4>4 DEF Shadowed
      <4> QED  BY <4>5 DEF Told
    <3> QED  BY <1>6, <3>1, <3>2
  <2>2. ASSUME last # Never
        PROVE  /\ \E j \in answered : log'[j].second = last
               /\ \A i \in answered : log'[i].second <= last \/ Repetition(i)'
    BY <1>2, <1>4, <1>11, <2>2 DEF Remembered
  <2> QED  BY <1>1, <2>1, <2>2 DEF Remembered
<1>15. InHand'
  <2> SUFFICES ASSUME pc # "off"
               PROVE  /\ \A i \in Failures' : Within(i, batch)' => Told(i)' \/ Covered(i)'
                      /\ \A i \in answered : Within(i, batch)' \/ Repetition(i)'
    BY <1>1 DEF InHand
  <2>1. \A i \in Lines : Within(i, batch)' <=> Within(i, batch)
    BY <1>1, <1>2, <1>4 DEF Within
  <2>2. \A i \in Lines : Covered(i) => Covered(i)'
    BY <1>1, <1>2, <1>4, <1>10 DEF Covered
  <2>3. ASSUME NEW i \in Failures', Within(i, batch)'  PROVE Told(i)' \/ Covered(i)'
    <3>1. CASE i \in Failures
      BY <1>2, <1>11, <2>1, <2>2, <2>3, <3>1 DEF InHand
    <3>2. CASE i = n
      <4>1. PICK b \in batch : log'[n].second <= log'[b].second
        BY <1>1, <2>3, <3>2 DEF Within
      <4>2. b \in Lines /\ b < n /\ log[b].second <= line.second /\ line.second <= log[b].second
        BY <1>2, <1>4, <1>5, <1>9, <4>1
      <4>3. log[b].second = line.second
        BY <1>7, <1>8, <4>2
      <4> QED  BY <1>1, <1>4, <3>2, <4>2, <4>3 DEF Covered
    <3> QED  BY <1>6, <3>1, <3>2
  <2>4. \A i \in answered : Within(i, batch)' \/ Repetition(i)'
    BY <1>2, <1>11, <2>1 DEF InHand
  <2> QED  BY <2>3, <2>4
<1> QED  BY <1>1, <1>2, <1>6, <1>12, <1>13, <1>14, <1>15 DEF IInv

-----------------------------------------------------------------------------
(* The properties *)

LEMMA Initially == Init => IInv
<1> SUFFICES ASSUME Init  PROVE IInv
  OBVIOUS
<1>1. Lines = {} /\ Failures = {} /\ log = <<>> /\ last = Never /\ pc = "off"
      /\ batch = {} /\ received = {} /\ answered = {}
  BY DEF Init, Lines, Failures
<1>2. TypeOK
  BY <1>1, BoundAssumption DEF TypeOK
<1> QED  BY <1>1, <1>2 DEF IInv, Sorted, Remembered, InHand

LEMMA Stuttering == IInv /\ UNCHANGED vars => IInv'
<1> SUFFICES ASSUME IInv, UNCHANGED vars  PROVE IInv'
  OBVIOUS
<1>1. /\ log' = log /\ last' = last /\ pc' = pc /\ batch' = batch
      /\ received' = received /\ answered' = answered
  BY DEF vars
<1>2. /\ Lines' = Lines /\ Failures' = Failures /\ Sorted' = Sorted
      /\ \A i, j : Repeats(j, i)' = Repeats(j, i)
      /\ \A i : Repetition(i)' = Repetition(i)
  BY <1>1, LogStays
<1>3. TypeOK'
  BY <1>1, <1>2 DEF IInv, TypeOK
<1>4. Remembered' /\ InHand'
  <2>1. \A i : Told(i)' = Told(i) /\ Covered(i)' = Covered(i) /\ Within(i, batch)' = Within(i, batch)
    BY <1>1, <1>2 DEF Told, Shadowed, Covered, Within
  <2> QED  BY <1>1, <1>2, <2>1 DEF IInv, Remembered, InHand
<1> QED  BY <1>1, <1>2, <1>3, <1>4 DEF IInv

\* Inductive invariant: IInv holds in every reachable state.
THEOREM Inductive == Spec => []IInv
<1>1. IInv /\ [Next]_vars => IInv'
  BY RunStep, SendStep, CreateFileStep, WriteFileStep, KillStep, DpkgStep, Stuttering DEF Next
<1> QED  BY Initially, <1>1, PTL DEF Spec

\* Type correctness: and the hook has a batch exactly while it is on its way.
THEOREM TypeCorrect == Spec => []TypeOK
<1>1. IInv => TypeOK
  BY DEF IInv
<1> QED  BY Inductive, <1>1, PTL

\* A failure behind the timestamp of apt-hook.json was reported, itself or as the
\* first of its repetitions, or came in the second of one that was answered.
THEOREM OlderAreReported == Spec => []OlderIsReported
<1>1. IInv => OlderIsReported
  <2> SUFFICES ASSUME IInv, NEW i \in Failures, log[i].second < last
               PROVE  Shadowed(i) \/ \E j \in received : Repeats(j, i)
    BY DEF OlderIsReported
  <2>1. log[i].second \in Int /\ last \in Int
    BY LineIs, BoundAssumption DEF IInv, TypeOK, Failures, Never
  <2>2. log[i].second <= last
    BY <2>1
  <2> QED  BY <2>2 DEF IInv, Remembered, Told
<1> QED  BY Inductive, <1>1, PTL

\* What a run sends that starts with a timestamp.
SentOnce ==
    pc = "off" /\ pc' = "send" /\ last # Never =>
        \A i \in batch' : i \notin answered \/ \E k \in Failures \ {i} : Repeats(k, i)

\* No line of a run that went through to the end is sent again as long as the
\* timestamp can be read, unless it repeats the failure before it.
THEOREM AnsweredAreNotRepeated == Spec => AnsweredIsNotRepeated
<1>1. IInv /\ [Next]_vars => [SentOnce]_vars
  <2> SUFFICES ASSUME IInv, [Next]_vars, pc = "off", pc' = "send", last # Never,
                      NEW i \in batch', i \in answered
               PROVE  Repetition(i)
    BY DEF SentOnce, Repetition
  <2>1. Run
    BY DEF Next, Send, CreateFile, WriteFile, Kill, Dpkg, vars
  <2>2. TypeOK /\ Sorted /\ Remembered /\ last \in Int
    BY BoundAssumption DEF IInv, TypeOK, Never
  <2>3. i \in Failures /\ log[i].second > last
    <3>1. i \in parse_dpkg_log(last)
      BY <2>1 DEF Run
    <3> QED  BY <2>2, <3>1, DedupedIs
  <2>4. log[i].second \in Int /\ ~ (log[i].second <= last)
    BY <2>2, <2>3, LineIs, BoundAssumption DEF Failures
  <2> QED  BY <2>2, <2>4 DEF Remembered
<1>2. [][SentOnce]_vars <=> AnsweredIsNotRepeated
  BY DEF SentOnce, AnsweredIsNotRepeated
<1> QED  BY Inductive, <1>1, <1>2, PTL DEF Spec

=============================================================================
