--------------------------- MODULE OopsWatchProofs ---------------------------
(***************************************************************************)
(* Proofs about OopsWatch, for every window and every log of the kernel.   *)
(***************************************************************************)
EXTENDS OopsWatch, TLAPS

\* An interval is its first line to its last.
LEMMA Interval ==
    ASSUME NEW a \in Int, NEW b \in Int, a <= b
    PROVE  First(a..b) = a /\ Last(a..b) = b
  BY DEF First, Last

\* The log only grows, and its times do not go back.
LEMMA Appended ==
    ASSUME TypeOK, NEW line \in [second : 0..MaxSecond, marker : BOOLEAN]
    PROVE  /\ Append(klog, line) \in Seq([second : 0..MaxSecond, marker : BOOLEAN])
           /\ Len(Append(klog, line)) = Len(klog) + 1
           /\ \A i \in 1..Len(klog) : Append(klog, line)[i] = klog[i]
           /\ Append(klog, line)[Len(klog) + 1] = line
  BY DEF TypeOK

Time(i) == klog[i].second

LEMMA Times ==
    ASSUME TypeOK
    PROVE  \A i \in Lines : klog[i] \in [second : 0..MaxSecond, marker : BOOLEAN] /\ Time(i) \in Nat
<1> DEFINE Entry == [second : 0..MaxSecond, marker : BOOLEAN]
<1>1. \A i \in Lines : klog[i] \in Entry
  <2>1. klog \in Seq(Entry)
    BY DEF TypeOK
  <2> HIDE DEF Entry
  <2> QED  BY <2>1 DEF Lines
<1>2. ASSUME NEW line \in [second : 0..MaxSecond, marker : BOOLEAN]
      PROVE  line.second \in Nat
  BY BoundAssumption
<1> QED  BY <1>1, <1>2 DEF Time

\* Lines are logged in the order of their times.
Ordered == \A i, j \in Lines : i <= j => Time(i) <= Time(j)

\* The saved cursor follows the one in memory, and that the lines read.
Positions == up => disk <= cursor /\ cursor <= pos /\ 0 < starts

\* The builder holds every line from a marker to the line read last.
Builder == oops # {} =>
    \E first \in Lines :
        /\ oops = first..pos /\ first <= pos
        /\ klog[first].marker
        /\ \A i \in oops : Time(i) - Time(first) <= Window

\* A marker up to line n is accounted for.
Covered(n) == \A i \in 1..n : klog[i].marker =>
    \/ i \in oops \cup skipped \cup dropped
    \/ \E r \in reports : i \in r.lines

NoneLost == Covered(disk) /\ (up => Covered(pos))

\* A report is a burst, and all that this life has read since is outside of it.
Bursts == \A r \in reports :
    /\ klog[r.start].marker
    /\ \E last \in Lines : r.start <= last /\ r.lines = r.start..last
    /\ \A i \in r.lines : Time(i) - Time(r.start) <= Window
    /\ r.life <= starts
    /\ up /\ r.life = starts =>
         /\ r.lines \subseteq 1..pos /\ Time(pos) - Time(r.start) > Window
         /\ oops # {} => \A i \in oops : \A j \in r.lines : j < i
         /\ oops # {} => Time(First(oops)) - Time(r.start) > Window

Apart == \A r, s \in reports : r.life = s.life /\ r # s =>
    /\ r.lines \cap s.lines = {}
    /\ r.start < s.start => Time(s.start) - Time(r.start) > Window

IInv == TypeOK /\ Ordered /\ Positions /\ Builder /\ NoneLost /\ Bursts /\ Apart

-----------------------------------------------------------------------------
LEMMA Initially == Init => IInv
<1> SUFFICES ASSUME Init PROVE IInv
  OBVIOUS
<1>1. TypeOK
  <2>1. klog \in Seq([second : 0..MaxSecond, marker : BOOLEAN]) /\ Len(klog) = 0
    BY DEF Init
  <2>2. starts \in 0..MaxStarts /\ Len(klog) <= MaxLines
    BY <2>1, BoundAssumption DEF Init
  <2>5. up = FALSE
    BY DEF Init
  <2>3. pos \in 0..Len(klog) /\ cursor \in 0..Len(klog) /\ disk \in 0..Len(klog)
    BY <2>1 DEF Init, NoCursor
  <2>4. oops = {} /\ reports = {} /\ skipped = {} /\ dropped = {}
    BY DEF Init
  <2> QED  BY <2>1, <2>2, <2>3, <2>4, <2>5 DEF TypeOK
<1> QED
  BY <1>1 DEF Init, IInv, Lines, NoCursor, Ordered, Positions, Builder, Covered, NoneLost,
              Bursts, Apart

\* A step that reads no line keeps what is known of the lines.
LEMMA LogStep ==
    ASSUME IInv, NEW second \in 0..MaxSecond, NEW marker \in BOOLEAN, Log(second, marker)
    PROVE  IInv'
<1> DEFINE line == [second |-> second, marker |-> marker]
<1>1. line \in [second : 0..MaxSecond, marker : BOOLEAN]
  OBVIOUS
<1>2. /\ klog' \in Seq([second : 0..MaxSecond, marker : BOOLEAN])
      /\ Len(klog') = Len(klog) + 1
      /\ \A i \in 1..Len(klog) : klog'[i] = klog[i]
      /\ klog'[Len(klog) + 1] = line
  BY <1>1, Appended DEF IInv, Log
<1>3. /\ Len(klog) \in Nat /\ Lines \subseteq Lines'
      /\ UNCHANGED <<up, starts, pos, cursor, disk, oops, reports, skipped, dropped>>
  <2>1. Len(klog) \in Nat
    BY DEF IInv, TypeOK
  <2> QED  BY <1>2, <2>1 DEF Log, Lines
<1>4. TypeOK'
  <2>1. reports' \subseteq Reports'
    BY <1>3 DEF IInv, TypeOK, Reports
  <2>2. Len(klog') <= MaxLines
    BY <1>2, <1>3, BoundAssumption DEF Log
  <2>3. /\ pos' \in 0..Len(klog') /\ cursor' \in 0..Len(klog') /\ disk' \in 0..Len(klog')
    BY <1>2, <1>3 DEF IInv, TypeOK
  <2>4. up' \in BOOLEAN /\ starts' \in 0..MaxStarts /\ (oops' # {} => up')
    BY <1>3 DEF IInv, TypeOK
  <2>5. oops' \subseteq Lines' /\ skipped' \subseteq Lines' /\ dropped' \subseteq Lines'
    BY <1>3 DEF IInv, TypeOK
  <2> QED  BY <1>2, <2>1, <2>2, <2>3, <2>4, <2>5 DEF TypeOK
<1>5. \A i \in Lines : Time(i)' = Time(i) /\ Time(i) \in Nat
  BY <1>2, Times DEF Time, Lines, IInv
<1>6. \A i \in Lines : Time(i) <= second
  <2> SUFFICES ASSUME NEW i \in Lines PROVE Time(i) <= second
    OBVIOUS
  <2>1. klog # <<>> /\ Len(klog) \in Lines
    BY <1>3 DEF Lines
  <2>2. Time(Len(klog)) <= second
    BY <2>1 DEF Log, Time
  <2> QED  BY <2>1, <2>2, <1>5 DEF IInv, Ordered, Lines
<1>7. Ordered'
  <2> SUFFICES ASSUME NEW i \in Lines', NEW j \in Lines', i <= j PROVE Time(i)' <= Time(j)'
    BY DEF Ordered
  <2>1. \A n : n = Len(klog) + 1 => Time(n)' = second
    BY <1>2 DEF Time
  <2> QED  BY <2>1, <1>2, <1>3, <1>5, <1>6 DEF IInv, Ordered, Lines
<1>8. Positions'
  BY <1>3 DEF IInv, Positions
<1>9. Builder'
  <2> SUFFICES ASSUME oops # {} PROVE Builder'
    BY <1>3 DEF Builder
  <2>1. PICK first \in Lines : /\ oops = first..pos /\ first <= pos
                               /\ klog[first].marker
                               /\ \A i \in oops : Time(i) - Time(first) <= Window
    BY DEF IInv, Builder
  <2>2. oops \subseteq Lines
    BY DEF IInv, TypeOK
  <2>3. \A i \in oops : Time(i)' - Time(first)' <= Window
    BY <2>1, <2>2, <1>5
  <2>4. klog'[first].marker
    BY <2>1, <1>2 DEF Lines
  <2> QED  BY <1>3, <2>1, <2>3, <2>4 DEF Builder
<1>10. NoneLost'
  <2>1. \A i \in Lines : klog'[i].marker = klog[i].marker
    BY <1>2 DEF Lines
  <2>2. 1..disk \subseteq Lines /\ 1..pos \subseteq Lines
    BY <1>3 DEF IInv, TypeOK, Lines
  <2> QED  BY <1>3, <2>1, <2>2 DEF IInv, NoneLost, Covered
<1>11. Bursts'
  <2> SUFFICES ASSUME NEW r \in reports
               PROVE  /\ klog'[r.start].marker
                      /\ \E last \in Lines' : r.start <= last /\ r.lines = r.start..last
                      /\ \A i \in r.lines : Time(i)' - Time(r.start)' <= Window
                      /\ r.life <= starts
                      /\ up /\ r.life = starts =>
                           /\ r.lines \subseteq 1..pos /\ Time(pos)' - Time(r.start)' > Window
                           /\ oops # {} => \A i \in oops : \A j \in r.lines : j < i
                           /\ oops # {} => Time(First(oops))' - Time(r.start)' > Window
    BY <1>3 DEF Bursts
  <2>1. r.start \in Lines /\ r.lines \subseteq Lines
    BY DEF IInv, TypeOK, Reports
  <2>2. Time(r.start)' = Time(r.start) /\ klog'[r.start] = klog[r.start]
    BY <2>1, <1>2, <1>5 DEF Lines
  <2>3. \A i \in r.lines : Time(i)' - Time(r.start)' <= Window
    BY <2>1, <2>2, <1>5 DEF IInv, Bursts
  <2>4. ASSUME up, r.life = starts
        PROVE  /\ r.lines \subseteq 1..pos /\ Time(pos)' - Time(r.start)' > Window
               /\ oops # {} => \A i \in oops : \A j \in r.lines : j < i
               /\ oops # {} => Time(First(oops))' - Time(r.start)' > Window
    <3>1. /\ r.lines \subseteq 1..pos /\ Time(pos) - Time(r.start) > Window
          /\ oops # {} => \A i \in oops : \A j \in r.lines : j < i
          /\ oops # {} => Time(First(oops)) - Time(r.start) > Window
      BY <2>4 DEF IInv, Bursts
    <3>2. r.start \in r.lines
      BY <2>1 DEF IInv, Bursts, Lines
    <3>3. pos \in Lines
      BY <3>1, <3>2 DEF IInv, TypeOK, Lines
    <3>4. oops # {} => First(oops) \in Lines
      BY Interval DEF IInv, Builder, Lines, TypeOK
    <3> QED  BY <2>2, <3>1, <3>3, <3>4, <1>3, <1>5
  <2> QED  BY <1>3, <2>2, <2>3, <2>4 DEF IInv, Bursts
<1>12. Apart'
  <2>1. \A r \in reports : r.start \in Lines /\ Time(r.start)' = Time(r.start)
    BY <1>5 DEF IInv, TypeOK, Reports
  <2> QED  BY <2>1, <1>3 DEF IInv, Apart
<1> QED  BY <1>4, <1>7, <1>8, <1>9, <1>10, <1>11, <1>12 DEF IInv

\* No step but Log touches the log; the rest of this section is about those.
LEMMA StartStep ==
    ASSUME IInv, Start
    PROVE  IInv'
<1>1. /\ klog' = klog /\ Lines' = Lines /\ Len(klog) \in Nat /\ up' = TRUE /\ starts' = starts + 1
      /\ disk' = disk /\ cursor' = disk /\ oops' = oops /\ reports' = reports /\ dropped' = dropped
  BY DEF IInv, TypeOK, Start, Lines
<1>2. oops = {} /\ disk <= pos' /\ pos' \in 0..Len(klog)
  BY DEF IInv, TypeOK, Start
<1>3. skipped \subseteq skipped' /\ skipped' \subseteq Lines /\ (disk = NoCursor => 1..pos' \subseteq skipped')
  BY DEF IInv, TypeOK, Start, Lines
<1>4. TypeOK'
  <2>1. starts' \in 0..MaxStarts
    BY BoundAssumption DEF IInv, TypeOK, Start
  <2>2. reports' \subseteq Reports'
    BY <1>1 DEF IInv, TypeOK, Reports
  <2> QED  BY <1>1, <1>2, <1>3, <2>1, <2>2 DEF IInv, TypeOK
<1>5. Ordered' /\ Positions' /\ Builder' /\ Apart'
  <2>1. 0 < starts'
    BY <1>1 DEF IInv, TypeOK
  <2> QED  BY <1>1, <1>2, <2>1 DEF IInv, TypeOK, Ordered, Positions, Builder, Apart, Time
<1>6. NoneLost'
  <2>1. Covered(disk)'
    BY <1>1, <1>3 DEF IInv, NoneLost, Covered
  <2>2. Covered(pos)'
    <3>1. CASE disk = NoCursor
      BY <1>1, <1>3, <3>1 DEF Covered
    <3>2. CASE disk # NoCursor
      <4>1. pos' = disk
        BY <3>2 DEF Start
      <4> QED  BY <2>1, <4>1, <1>1 DEF Covered
    <3> QED  BY <3>1, <3>2
  <2> QED  BY <2>1, <2>2 DEF NoneLost
<1>7. Bursts'
  <2>1. \A r \in reports : r.life # starts' /\ r.life <= starts'
    BY <1>1 DEF IInv, TypeOK, Bursts, Reports
  <2>2. \A i : Time(i)' = Time(i)
    BY <1>1 DEF Time
  <2> QED  BY <1>1, <2>1, <2>2 DEF IInv, Bursts
<1> QED  BY <1>4, <1>5, <1>6, <1>7 DEF IInv

LEMMA SaveStep ==
    ASSUME IInv, SaveState
    PROVE  IInv'
<1>1. UNCHANGED <<klog, up, starts, pos, cursor, oops, reports, skipped, dropped>> /\ disk' = cursor /\ up
  BY DEF SaveState
<1>2. TypeOK'
  <2>1. reports' \subseteq Reports'
    BY <1>1 DEF IInv, TypeOK, Reports, Lines
  <2> QED  BY <1>1, <2>1 DEF IInv, TypeOK, Lines
<1>3. Ordered' /\ Positions' /\ Builder' /\ Apart' /\ Bursts'
  BY <1>1 DEF IInv, TypeOK, Ordered, Positions, Builder, Apart, Bursts, Time, Lines
<1>4. NoneLost'
  <2>1. Covered(disk)' /\ Covered(pos)'
    <3>1. \A i \in 1..disk' : i \in 1..pos
      BY <1>1 DEF IInv, TypeOK, Positions
    <3> QED  BY <1>1, <3>1 DEF IInv, NoneLost, Covered
  <2> QED  BY <2>1 DEF NoneLost
<1> QED  BY <1>2, <1>3, <1>4 DEF IInv

LEMMA KillStep ==
    ASSUME IInv, Kill
    PROVE  IInv'
<1>1. /\ UNCHANGED <<klog, starts, pos, cursor, disk, reports, skipped>> /\ up' = FALSE
      /\ oops' = {} /\ dropped' = dropped \cup oops
  BY DEF Kill
<1>2. TypeOK'
  <2>1. reports' \subseteq Reports' /\ dropped' \subseteq Lines'
    BY <1>1 DEF IInv, TypeOK, Reports, Lines
  <2> QED  BY <1>1, <2>1 DEF IInv, TypeOK, Lines
<1>3. Ordered' /\ Positions' /\ Builder' /\ Apart' /\ Bursts'
  BY <1>1 DEF IInv, TypeOK, Ordered, Positions, Builder, Apart, Bursts, Time, Lines
<1>4. NoneLost'
  BY <1>1 DEF IInv, NoneLost, Covered
<1> QED  BY <1>2, <1>3, <1>4 DEF IInv

\* The builder is an interval that ends at the line read last.
LEMMA BuilderIs ==
    ASSUME IInv, oops # {}
    PROVE  /\ First(oops) \in Lines /\ pos \in Lines /\ up /\ First(oops) <= pos
           /\ oops = First(oops)..pos
           /\ klog[First(oops)].marker
           /\ \A i \in oops : Time(i) - Time(First(oops)) <= Window
<1>1. PICK first \in Lines : /\ oops = first..pos /\ first <= pos
                             /\ klog[first].marker
                             /\ \A i \in oops : Time(i) - Time(first) <= Window
  BY DEF IInv, Builder
<1>2. First(oops) = first
  BY <1>1, Interval DEF Lines, IInv, TypeOK
<1>3. pos \in Lines /\ up
  BY <1>1 DEF IInv, TypeOK, Lines
<1> QED  BY <1>1, <1>2, <1>3

\* What the flush of an open builder adds keeps reports apart.
LEMMA FlushedIs ==
    ASSUME IInv, up
    PROVE  /\ Flushed \subseteq Reports
           /\ \A r \in Flushed :
                /\ klog[r.start].marker
                /\ \E last \in Lines : r.start <= last /\ r.lines = r.start..last
                /\ \A i \in r.lines : Time(i) - Time(r.start) <= Window
                /\ r.life <= starts
                /\ r.life = starts => r.lines \subseteq 1..pos
           /\ \A r, s \in Flushed : r.life = s.life /\ r # s =>
                /\ r.lines \cap s.lines = {}
                /\ r.start < s.start => Time(s.start) - Time(r.start) > Window
           /\ \A r \in reports : r \in Flushed
           /\ \A i \in oops : \E r \in Flushed : i \in r.lines
<1>1. CASE oops = {}
  <2>1. Flushed = reports
    BY <1>1 DEF Flushed
  <2>2. \A r \in reports : r.life = starts => r.lines \subseteq 1..pos
    BY DEF IInv, Bursts
  <2> QED  BY <1>1, <2>1, <2>2 DEF IInv, TypeOK, Bursts, Apart
<1>2. CASE oops # {}
  <2> DEFINE new == [start |-> First(oops), lines |-> oops, life |-> starts]
  <2>1. Flushed = reports \cup {new} /\ new.start = First(oops) /\ new.lines = oops /\ new.life = starts
    BY <1>2 DEF Flushed
  <2> HIDE DEF new
  <2>2. /\ First(oops) \in Lines /\ pos \in Lines /\ First(oops) <= pos
        /\ oops = First(oops)..pos /\ klog[First(oops)].marker
        /\ \A i \in oops : Time(i) - Time(First(oops)) <= Window
    BY <1>2, BuilderIs
  <2>3. starts \in 1..MaxStarts
    BY BoundAssumption DEF IInv, TypeOK, Positions
  <2>4. new \in Reports
    BY <2>2, <2>3 DEF Reports, new, IInv, TypeOK
  <2>5. \A r \in reports :
          /\ klog[r.start].marker
          /\ \E last \in Lines : r.start <= last /\ r.lines = r.start..last
          /\ \A i \in r.lines : Time(i) - Time(r.start) <= Window
          /\ r.life <= starts
          /\ r.life = starts =>
               /\ r.lines \subseteq 1..pos
               /\ \A i \in oops : \A j \in r.lines : j < i
               /\ Time(First(oops)) - Time(r.start) > Window
    BY <1>2 DEF IInv, Bursts
  <2>6. \A r \in reports : r.life = starts =>
          /\ r.lines \cap oops = {} /\ ~(First(oops) < r.start)
    <3> SUFFICES ASSUME NEW r \in reports, r.life = starts
                 PROVE  r.lines \cap oops = {} /\ ~(First(oops) < r.start)
      OBVIOUS
    <3>1. r.start \in Lines /\ r.start \in r.lines
      BY <2>5 DEF IInv, TypeOK, Reports, Lines
    <3>2. \A i \in oops : \A j \in r.lines : j < i
      BY <2>5
    <3>3. First(oops) \in oops
      BY <2>2 DEF Lines
    <3>4. \A i \in oops : i \in Int
      BY <2>2 DEF Lines
    <3>5. ~(First(oops) < r.start)
      BY <3>1, <3>2, <3>3, <2>2 DEF Lines
    <3> QED  BY <3>2, <3>4, <3>5
  <2>7. Flushed \subseteq Reports
    BY <2>1, <2>4 DEF IInv, TypeOK
  <2>8. \A r \in Flushed :
          /\ klog[r.start].marker
          /\ \E last \in Lines : r.start <= last /\ r.lines = r.start..last
          /\ \A i \in r.lines : Time(i) - Time(r.start) <= Window
          /\ r.life <= starts
          /\ r.life = starts => r.lines \subseteq 1..pos
    <3>1. /\ klog[new.start].marker
          /\ \E last \in Lines : new.start <= last /\ new.lines = new.start..last
          /\ \A i \in new.lines : Time(i) - Time(new.start) <= Window
          /\ new.life <= starts
          /\ new.lines \subseteq 1..pos
      BY <2>1, <2>2, <2>3 DEF Lines
    <3> QED  BY <2>1, <2>5, <3>1
  <2>9. \A r, s \in Flushed : r.life = s.life /\ r # s =>
          /\ r.lines \cap s.lines = {}
          /\ r.start < s.start => Time(s.start) - Time(r.start) > Window
    <3> SUFFICES ASSUME NEW r \in Flushed, NEW s \in Flushed, r.life = s.life, r # s
                 PROVE  /\ r.lines \cap s.lines = {}
                        /\ r.start < s.start => Time(s.start) - Time(r.start) > Window
      OBVIOUS
    <3>1. CASE r \in reports /\ s \in reports
      BY <3>1 DEF IInv, Apart
    <3>2. CASE r \in reports /\ s = new
      BY <3>2, <2>1, <2>5, <2>6
    <3>3. CASE r = new /\ s \in reports
      BY <3>3, <2>1, <2>6
    <3> QED  BY <3>1, <3>2, <3>3, <2>1
  <2> QED  BY <2>1, <2>7, <2>8, <2>9
<1> QED  BY <1>1, <1>2

LEMMA ShutdownStep ==
    ASSUME IInv, Shutdown
    PROVE  IInv'
<1>1. /\ UNCHANGED <<klog, starts, pos, cursor, skipped, dropped>> /\ up /\ up' = FALSE
      /\ oops' = {} /\ disk' = cursor /\ reports' = Flushed /\ Lines' = Lines
  BY DEF Shutdown, Lines
<1>2. TypeOK'
  <2>1. reports' \subseteq Reports'
    BY <1>1, FlushedIs DEF Reports
  <2> QED  BY <1>1, <2>1 DEF IInv, TypeOK
<1>3. Ordered' /\ Positions' /\ Builder'
  BY <1>1 DEF IInv, Ordered, Positions, Builder, Time
<1>4. Bursts' /\ Apart'
  BY <1>1, FlushedIs DEF Bursts, Apart, Time
<1>5. NoneLost'
  <2>1. \A i \in 1..disk' : i \in 1..pos
    BY <1>1 DEF IInv, TypeOK, Positions
  <2> QED  BY <1>1, <2>1, FlushedIs DEF IInv, NoneLost, Covered
<1> QED  BY <1>2, <1>3, <1>4, <1>5 DEF IInv

\* A line that is read joins the builder, or closes it and may open the next.
LEMMA KernelLineStep ==
    ASSUME IInv, KernelLine
    PROVE  IInv'
<1>2. PICK i \in Int : i = pos + 1
  BY DEF IInv, TypeOK
<1>1. /\ UNCHANGED <<klog, up, starts, disk, skipped, dropped>> /\ up
      /\ pos' = i /\ cursor' = i /\ Coalesce(i) /\ Lines' = Lines
      /\ pos \in Nat /\ i \in Lines
  BY <1>2 DEF KernelLine, Lines, IInv, TypeOK
<1>3. \A n : Time(n)' = Time(n)
  BY <1>1 DEF Time
<1>4. Ordered' /\ Positions'
  BY <1>1, <1>2, <1>3 DEF IInv, TypeOK, Ordered, Positions
<1>5. \A n \in Lines : Time(n) \in Nat
  BY Times DEF IInv
<1>6. Window \in Nat
  BY WindowAssumption
<1>7. CASE Accepts(i)
  <2>1. oops # {} /\ oops' = oops \cup {i} /\ reports' = reports
    BY <1>1, <1>7 DEF Coalesce, Accepts
  <2>2. /\ First(oops) \in Lines /\ pos \in Lines /\ First(oops) <= pos
        /\ oops = First(oops)..pos /\ klog[First(oops)].marker
        /\ \A n \in oops : Time(n) - Time(First(oops)) <= Window
    BY <2>1, BuilderIs
  <2>3. Time(i) - Time(First(oops)) <= Window
    BY <1>7 DEF Accepts, Time
  <2> DEFINE first == First(oops)
  <2>4. oops' = first..i /\ first <= i /\ first \in Lines
    BY <1>1, <1>2, <2>1, <2>2 DEF Lines
  <2>5. First(oops') = first
    BY <1>1, <2>4, Interval DEF Lines
  <2>6. TypeOK'
    BY <1>1, <2>1 DEF IInv, TypeOK, Reports, Lines
  <2>7. Builder'
    <3>1. \A n \in oops' : Time(n) - Time(first) <= Window
      BY <2>1, <2>2, <2>3
    <3> QED  BY <1>1, <1>3, <2>2, <2>4, <3>1 DEF Builder
  <2>8. NoneLost'
    <3>1. Covered(pos)
      BY <1>1 DEF IInv, NoneLost
    <3>2. Covered(disk)
      BY DEF IInv, NoneLost
    <3>3. Covered(pos)'
      BY <1>1, <1>2, <2>1, <3>1 DEF Covered
    <3>4. Covered(disk)'
      BY <1>1, <2>1, <3>2 DEF Covered
    <3> QED  BY <3>3, <3>4 DEF NoneLost
  <2>9. Bursts'
    <3> SUFFICES ASSUME NEW r \in reports, r.life = starts
                 PROVE  /\ r.lines \subseteq 1..i /\ Time(i) - Time(r.start) > Window
                        /\ \A m \in oops' : \A n \in r.lines : n < m
                        /\ Time(first) - Time(r.start) > Window
      BY <1>1, <1>3, <2>1, <2>5 DEF IInv, Bursts
    <3>1. /\ r.lines \subseteq 1..pos /\ Time(pos) - Time(r.start) > Window
          /\ \A m \in oops : \A n \in r.lines : n < m
          /\ Time(first) - Time(r.start) > Window
      BY <1>1, <2>1 DEF IInv, Bursts
    <3>2. r.lines \subseteq 1..i /\ \A n \in r.lines : n < i
      BY <1>1, <1>2, <3>1
    <3>3. Time(pos) <= Time(i) /\ r.start \in Lines
      BY <1>1, <1>2, <2>2 DEF IInv, Ordered, TypeOK, Reports
    <3>4. Time(i) \in Nat /\ Time(pos) \in Nat /\ Time(r.start) \in Nat
      BY <1>1, <1>5, <2>2, <3>3
    <3>5. Time(i) - Time(r.start) > Window
      BY <1>6, <3>1, <3>3, <3>4
    <3> QED  BY <2>1, <3>1, <3>2, <3>5
  <2>10. Apart'
    BY <1>1, <1>3, <2>1 DEF IInv, Apart
  <2> QED  BY <1>4, <2>6, <2>7, <2>8, <2>9, <2>10 DEF IInv
<1>8. CASE ~Accepts(i)
  <2>1. /\ oops' = (IF klog[i].marker THEN {i} ELSE {})
        /\ reports' = Flushed
    BY <1>1, <1>8 DEF Coalesce
  <2>2. TypeOK'
    <3>1. oops' \subseteq Lines' /\ reports' \subseteq Reports'
      BY <1>1, <2>1, FlushedIs DEF Reports
    <3> QED  BY <1>1, <3>1 DEF IInv, TypeOK, Lines
  <2>3. oops' # {} => oops' = i..i /\ klog[i].marker
    BY <1>1, <2>1 DEF Lines
  <2>8. ASSUME oops' # {} PROVE First(oops') = i
    <3>2. i <= i
      OBVIOUS
    <3>1. First(i..i) = i
      BY <3>2, Interval, Zenon
    <3> QED  BY <2>3, <2>8, <3>1
  <2>4. Builder'
    <3> SUFFICES ASSUME oops' # {} PROVE Builder'
      BY DEF Builder
    <3>1. \A n \in oops' : n = i
      BY <2>1
    <3>2. Time(i) - Time(i) <= Window
      <4>1. Time(i) \in Nat
        BY <1>1, <1>5
      <4> QED  BY <4>1, <1>6
    <3>3. i <= i /\ klog'[i].marker
      BY <1>1, <2>3 DEF Lines
    <3>4. \A n \in oops' : Time(n)' - Time(i)' <= Window
      BY <3>1, <3>2, <1>3
    <3> QED  BY <1>1, <2>3, <3>3, <3>4 DEF Builder
  <2>5. NoneLost'
    <3>1. Covered(pos) /\ Covered(disk)
      BY <1>1 DEF IInv, NoneLost
    <3>2. Covered(pos)'
      BY <1>1, <1>2, <2>1, <3>1, FlushedIs DEF Covered
    <3>3. Covered(disk)'
      BY <1>1, <2>1, <3>1, FlushedIs DEF Covered
    <3> QED  BY <3>2, <3>3 DEF NoneLost
  <2>6. Bursts'
    <3> SUFFICES ASSUME NEW r \in Flushed, r.life = starts
                 PROVE  /\ r.lines \subseteq 1..i /\ Time(i) - Time(r.start) > Window
                        /\ \A m \in oops' : \A n \in r.lines : n < m
      BY <1>1, <1>3, <2>1, <2>8, FlushedIs DEF Bursts
    <3>1. r.lines \subseteq 1..pos
      BY <1>1, FlushedIs
    <3>2. r.lines \subseteq 1..i /\ \A n \in r.lines : n < i
      BY <1>1, <1>2, <3>1
    <3>3. Time(i) - Time(r.start) > Window
      <4>1. CASE r \in reports
        <5>1. r.start \in r.lines /\ r.start \in Lines /\ Time(pos) - Time(r.start) > Window
          BY <1>1, <4>1 DEF IInv, TypeOK, Bursts, Reports, Lines
        <5>2. pos \in Lines
          BY <1>1, <3>1, <5>1 DEF Lines, IInv, TypeOK
        <5>3. Time(pos) <= Time(i)
          BY <1>1, <1>2, <5>2 DEF IInv, Ordered
        <5>4. Time(i) \in Nat /\ Time(pos) \in Nat /\ Time(r.start) \in Nat
          BY <1>1, <1>5, <5>1, <5>2
        <5> QED  BY <1>6, <5>1, <5>3, <5>4
      <4>2. CASE r \notin reports
        <5>1. oops # {} /\ r.start = First(oops)
          BY <4>2 DEF Flushed
        <5>2. ~(Time(i) - Time(First(oops)) <= Window)
          BY <1>8, <5>1 DEF Accepts, Time
        <5>3. First(oops) \in Lines
          BY <5>1, BuilderIs
        <5>4. Time(i) \in Nat /\ Time(First(oops)) \in Nat
          BY <1>1, <1>5, <5>3
        <5> QED  BY <1>6, <5>1, <5>2, <5>4
      <4> QED  BY <4>1, <4>2
    <3> QED  BY <2>1, <3>2, <3>3
  <2>7. Apart'
    BY <1>1, <1>3, <2>1, FlushedIs DEF Apart
  <2> QED  BY <1>4, <2>2, <2>4, <2>5, <2>6, <2>7 DEF IInv
<1> QED  BY <1>7, <1>8

-----------------------------------------------------------------------------
\* The invariant holds in every state the watch can reach.
THEOREM Inductive == Spec => []IInv
<1>1. IInv /\ [Next]_vars => IInv'
  <2> SUFFICES ASSUME IInv, [Next]_vars PROVE IInv'
    OBVIOUS
  <2>1. CASE UNCHANGED vars
    BY <2>1 DEF vars, IInv, TypeOK, Reports, Lines, Ordered, Positions, Builder, Covered, NoneLost,
                Bursts, Apart, Time, First
  <2>2. CASE Next
    BY <2>2, StartStep, KernelLineStep, SaveStep, ShutdownStep, KillStep, LogStep DEF Next
  <2> QED  BY <2>1, <2>2
<1> QED  BY Initially, <1>1, PTL DEF Spec

\* Every variable keeps its type, and no builder is open while the daemon is down.
THEOREM TypeCorrect == Spec => []TypeOK
<1>1. IInv => TypeOK
  BY DEF IInv
<1> QED  BY Inductive, <1>1, PTL

\* One oops is one report, whatever the window and however long the bursts.
THEOREM BurstsAreReports == Spec => []OneReportPerBurst
<1>1. ASSUME IInv PROVE OneReportPerBurst
  <2> SUFFICES ASSUME NEW r \in reports, NEW s \in reports
               PROVE  /\ klog[r.start].marker
                      /\ r.lines = r.start..Last(r.lines)
                      /\ \A i \in r.lines : klog[i].second - klog[r.start].second <= Window
                      /\ r.life = s.life /\ r # s =>
                           /\ r.lines \cap s.lines = {}
                           /\ r.start < s.start => klog[s.start].second - klog[r.start].second > Window
    BY DEF OneReportPerBurst
  <2>1. PICK last \in Lines : r.start <= last /\ r.lines = r.start..last
    BY <1>1 DEF IInv, Bursts
  <2>2. r.start \in Int /\ last \in Int
    BY <1>1 DEF IInv, TypeOK, Reports, Lines
  <2>3. r.lines = r.start..Last(r.lines)
    BY <2>1, <2>2, Interval
  <2> QED  BY <1>1, <2>3 DEF IInv, Bursts, Apart, Time
<1>2. IInv => OneReportPerBurst
  BY <1>1
<1> QED  BY Inductive, <1>2, PTL

\* No oops behind the saved cursor is lost but to a kill with an open builder.
THEOREM OopsesAreReported == Spec => []NoOopsLost
<1>1. IInv => NoOopsLost
  BY DEF IInv, NoneLost, Covered, NoOopsLost
<1> QED  BY Inductive, <1>1, PTL
=============================================================================
