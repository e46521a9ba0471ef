------------------------------ MODULE OopsWatch ------------------------------
(***************************************************************************)
(* The kernel half of blankresd: lines of the kernel's journal become      *)
(* reports of oopses (oops.rs; the kernel branch, the end and flush_oops   *)
(* of main.rs).                                                            *)
(*                                                                         *)
(* An oops is a burst of lines.  The first line with a marker opens a      *)
(* builder, lines within the window are added to it, and the first line    *)
(* after the window closes it: there is no timer.  The kernel's cursor is  *)
(* kept in memory and reaches the disk when the coredump half saves the    *)
(* state, or at the end.                                                   *)
(*                                                                         *)
(* Abstractions.  A line is [second, marker] and a report the lines it was *)
(* made of.  A flush is one step: killed before the server has recorded    *)
(* the event it is as if it had not begun, killed after it is done.  An    *)
(* event that cannot be sent is spooled, which CrashDaemon follows; here   *)
(* it is reported.  No one declines an oops.                               *)
(***************************************************************************)
EXTENDS Integers, Sequences, FiniteSets

CONSTANTS
    Window,         \* COALESCE_WINDOW_SECS
    MaxLines,       \* lines of the kernel (bounds the run)
    MaxSecond,      \* latest time of a line (bounds the run)
    MaxStarts       \* how often the daemon is started (bounds the run)

ASSUME WindowAssumption == Window \in Nat
ASSUME BoundAssumption == MaxLines \in Nat /\ MaxSecond \in Nat /\ MaxStarts \in Nat

VARIABLES
    klog,       \* the kernel's journal: [second, marker]
    up,         \* whether the daemon runs
    starts,     \* how often it was started
    pos,        \* the line delivered last
    cursor,     \* kernel_cursor in memory
    disk,       \* kernel_cursor in the state file
    oops,       \* the lines of the builder; none when it is not open
    reports,    \* reports made: [start, lines, life]
    skipped,    \* history: lines from before a start that found no cursor
    dropped     \* history: lines of a builder that a kill took along

vars == <<klog, up, starts, pos, cursor, disk, oops, reports, skipped, dropped>>

NoCursor == 0
First(lines) == CHOOSE i \in lines : \A j \in lines : i <= j
Last(lines) == CHOOSE i \in lines : \A j \in lines : j <= i

Init ==
    /\ klog = <<>> /\ up = FALSE /\ starts = 0
    /\ pos = 0 /\ cursor = NoCursor /\ disk = NoCursor
    /\ oops = {} /\ reports = {} /\ skipped = {} /\ dropped = {}

\* State::load, and journalctl --after-cursor or --since=now.
Start ==
    /\ ~up /\ starts < MaxStarts
    /\ up' = TRUE /\ starts' = starts + 1
    /\ cursor' = disk
    /\ pos' = IF disk = NoCursor THEN Len(klog) ELSE disk
    /\ skipped' = IF disk = NoCursor THEN skipped \cup 1..Len(klog) ELSE skipped
    /\ UNCHANGED <<klog, disk, oops, reports, dropped>>

\* OopsBuilder::accepts: the window is measured from the line that opened it.
Accepts(i) == oops # {} /\ klog[i].second - klog[First(oops)].second <= Window

\* flush_oops of the builder, if it is open.
Flushed ==
    IF oops = {} THEN reports
    ELSE reports \cup {[start |-> First(oops), lines |-> oops, life |-> starts]}

\* Bug variant: a line with a marker opens a builder of its own.
CoalesceByMarker(i) ==
    IF Accepts(i) /\ ~klog[i].marker
    THEN oops' = oops \cup {i} /\ reports' = reports
    ELSE oops' = (IF klog[i].marker THEN {i} ELSE {}) /\ reports' = Flushed

\* What a line does to the builder: a line in its window is added, also when it
\* has a marker; any other line closes it, and opens the next one if it has a
\* marker.
Coalesce(i) ==
    IF Accepts(i)
    THEN oops' = oops \cup {i} /\ reports' = reports
    ELSE oops' = (IF klog[i].marker THEN {i} ELSE {}) /\ reports' = Flushed

\* A line of the kernel, and the cursor in memory.
KernelLine ==
    /\ up /\ pos < Len(klog)
    /\ pos' = pos + 1 /\ cursor' = pos'
    /\ Coalesce(pos')
    /\ UNCHANGED <<klog, up, starts, disk, skipped, dropped>>

\* The other half has handled a crash and saves the state, whatever the builder
\* holds.
SaveState ==
    /\ up
    /\ disk' = cursor
    /\ UNCHANGED <<klog, up, starts, pos, cursor, oops, reports, skipped, dropped>>

\* Bug variant: the builder is copied, not taken.
ShutdownKeepsBuilder ==
    /\ up /\ up' = FALSE
    /\ reports' = Flushed
    /\ disk' = cursor
    /\ UNCHANGED <<klog, starts, pos, cursor, oops, skipped, dropped>>

\* Bug variant: the builder is not flushed at the end.
ShutdownUnflushed ==
    /\ up /\ up' = FALSE
    /\ oops' = {} /\ disk' = cursor
    /\ UNCHANGED <<klog, starts, pos, cursor, reports, skipped, dropped>>

\* ctrl_c, the end of the coredump journal, or --once after the first line.
Shutdown ==
    /\ up /\ up' = FALSE
    /\ reports' = Flushed
    /\ oops' = {} /\ disk' = cursor
    /\ UNCHANGED <<klog, starts, pos, cursor, skipped, dropped>>

\* SIGTERM, a power cut.
Kill ==
    /\ up /\ up' = FALSE
    /\ starts < MaxStarts
    /\ oops' = {} /\ dropped' = dropped \cup oops
    /\ UNCHANGED <<klog, starts, pos, cursor, disk, reports, skipped>>

\* The kernel logs a line of priority err or worse.
Log(second, marker) ==
    /\ Len(klog) < MaxLines
    /\ klog # <<>> => klog[Len(klog)].second <= second
    /\ klog' = Append(klog, [second |-> second, marker |-> marker])
    /\ UNCHANGED <<up, starts, pos, cursor, disk, oops, reports, skipped, dropped>>

Next ==
    \/ Start \/ KernelLine \/ SaveState \/ Shutdown \/ Kill
    \/ \E second \in 0..MaxSecond, marker \in BOOLEAN : Log(second, marker)

Spec == Init /\ [][Next]_vars
-----------------------------------------------------------------------------
Lines == 1..Len(klog)
Reports == [start : Lines, lines : SUBSET Lines, life : 1..MaxStarts]

\* Type invariant.
TypeOK ==
    /\ klog \in Seq([second : 0..MaxSecond, marker : BOOLEAN]) /\ Len(klog) <= MaxLines
    /\ up \in BOOLEAN /\ starts \in 0..MaxStarts
    /\ pos \in 0..Len(klog) /\ cursor \in 0..Len(klog) /\ disk \in 0..Len(klog)
    /\ oops \subseteq Lines /\ (oops # {} => up)
    /\ reports \subseteq Reports
    /\ skipped \subseteq Lines /\ dropped \subseteq Lines

\* One oops is one report: it holds every line from its first, a marker, to its
\* last, all within the window, and two reports of one life of the daemon have no
\* line in common and are further apart than the window, also when one burst has
\* several markers (accepts, and the match in main.rs).
OneReportPerBurst ==
    \A r, s \in reports :
        /\ klog[r.start].marker
        /\ r.lines = r.start..Last(r.lines)
        /\ \A i \in r.lines : klog[i].second - klog[r.start].second <= Window
        /\ r.life = s.life /\ r # s =>
             /\ r.lines \cap s.lines = {}
             /\ r.start < s.start => klog[s.start].second - klog[r.start].second > Window

\* A marker behind the saved cursor is in a report, or still in the builder: it
\* can be lost only by a kill while the builder is open, or passed over by a
\* start that found no cursor (main.rs saves the cursor of a line at once with
\* that of a crash, before the builder is flushed).
NoOopsLost ==
    \A i \in 1..disk : klog[i].marker =>
        \/ i \in oops \cup skipped \cup dropped
        \/ \E r \in reports : i \in r.lines
=============================================================================
