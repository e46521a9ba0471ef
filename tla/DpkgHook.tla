------------------------------ MODULE DpkgHook ------------------------------
(***************************************************************************)
(* blankres-apt-hook and dpkg's log (blankres-hooks: lib.rs, main.rs).     *)
(*                                                                         *)
(* dpkg logs every state a package passes through; apt runs the hook when  *)
(* dpkg is done.  The hook takes the lines that name a failure state and   *)
(* are newer than the timestamp it remembers, sends them in one batch, and *)
(* remembers the newest of them in apt-hook.json once they are answered.   *)
(*                                                                         *)
(* Abstractions.  A line is [second, package, state]; lines that are not   *)
(* of a state are not here.  The failures found are always in the order of *)
(* the log: the vector of them is the set of their places.  The log is not *)
(* rotated.  The save of the daemon's state file is in HostState.          *)
(***************************************************************************)
EXTENDS Integers, Sequences

CONSTANTS
    Package,        \* packages
    MaxLines,       \* lines the log may reach (bounds the run)
    MaxSecond       \* latest time of a line (bounds the run)

ASSUME BoundAssumption == MaxLines \in Nat /\ MaxSecond \in Nat

VARIABLES
    log,        \* dpkg.log
    last,       \* apt-hook.json: a second, or Never when there is none to be read
    pc,         \* where the hook is
    batch,      \* places in the log of the lines it is reporting
    received,   \* history: lines the server has recorded
    answered    \* history: lines of runs that went through to the end

vars == <<log, last, pc, batch, received, answered>>

Never == -1

\* What FAILURE_STATES lists of the states dpkg has, and one it does not list.
FailureState == {"half-configured", "half-installed"}
PackageState == FailureState \cup {"installed"}
Line == [second : 0..MaxSecond, package : Package, state : PackageState]

Init ==
    /\ log = <<>> /\ last = Never
    /\ pc = "off" /\ batch = {}
    /\ received = {} /\ answered = {}

\* Bug variant: the second of the newest reported failure is looked at again.
IsFailureSince(i, after) == log[i].state \in FailureState /\ log[i].second >= after

\* The lines of the log that a run with this timestamp takes for failures.
IsNewFailure(i, after) == log[i].state \in FailureState /\ log[i].second > after
Fresh(after) == {i \in 1..Len(log) : IsNewFailure(i, after)}

Same(i, j) == log[i].package = log[j].package /\ log[i].state = log[j].state

\* dedup_by: of neighbours that are the same the first stays.
Neighbours(j, i, lines) == j < i /\ ~ \E k \in lines : j < k /\ k < i
Dedup(lines) == {i \in lines : ~ \E j \in lines : Neighbours(j, i, lines) /\ Same(j, i)}

parse_dpkg_log(after) == Dedup(Fresh(after))

newest_timestamp(lines) ==
    LET seconds == {log[i].second : i \in lines}
    IN  CHOOSE t \in seconds : \A u \in seconds : u <= t

\* Bug variant: the hook goes on when it has found nothing.
RunAlways ==
    /\ pc = "off" /\ pc' = "send"
    /\ batch' = parse_dpkg_log(last)
    /\ UNCHANGED <<log, last, received, answered>>

\* The hook is run: it reads its timestamp and the log, and is done when it
\* finds nothing.
Run ==
    /\ pc = "off"
    /\ batch' = parse_dpkg_log(last)
    /\ pc' = IF batch' = {} THEN "off" ELSE "send"
    /\ UNCHANGED <<log, last, received, answered>>

\* Bug variant: what was not answered is not sent again.
SendUnchecked ==
    /\ pc = "send" /\ pc' = "create"
    /\ \E n \in 0..Len(log) : received' = received \cup {i \in batch : i <= n}
    /\ UNCHANGED <<log, last, batch, answered>>

\* send_events: answered, or an error after any number of them was recorded.
\* An error ends the run.
Send ==
    /\ pc = "send"
    /\ \/ /\ pc' = "create" /\ batch' = batch
          /\ received' = received \cup batch
       \/ /\ pc' = "off" /\ batch' = {}
          /\ \E n \in 0..Len(log) : received' = received \cup {i \in batch : i <= n}
    /\ UNCHANGED <<log, last, answered>>

\* fs::write of apt-hook.json empties the file before it fills it.
CreateFile ==
    /\ pc = "create" /\ pc' = "write"
    /\ last' = Never
    /\ UNCHANGED <<log, batch, received, answered>>

WriteFile ==
    /\ pc = "write" /\ pc' = "off"
    /\ last' = newest_timestamp(batch)
    /\ answered' = answered \cup batch
    /\ batch' = {}
    /\ UNCHANGED <<log, received>>

\* apt is interrupted, or the machine goes down.
Kill ==
    /\ pc # "off" /\ pc' = "off" /\ batch' = {}
    /\ UNCHANGED <<log, last, received, answered>>

\* dpkg logs a state.  It may run again while a hook is sending.
Dpkg(line) ==
    /\ Len(log) < MaxLines
    /\ log # <<>> => log[Len(log)].second <= line.second
    /\ log' = Append(log, line)
    /\ UNCHANGED <<last, pc, batch, received, answered>>

Next ==
    \/ Run \/ Send \/ CreateFile \/ WriteFile \/ Kill
    \/ \E line \in Line : Dpkg(line)

Spec == Init /\ [][Next]_vars
-----------------------------------------------------------------------------
Lines == 1..Len(log)
Failures == {i \in Lines : log[i].state \in FailureState}

\* Type invariant.
TypeOK ==
    /\ log \in Seq(Line) /\ Len(log) <= MaxLines
    /\ last \in 0..MaxSecond \cup {Never}
    /\ pc \in {"off", "send", "create", "write"}
    /\ batch \subseteq Lines /\ (pc # "off") = (batch # {})
    /\ received \subseteq Lines /\ answered \subseteq Lines

\* A repetition: line i says what the failure before it has said.
Repeats(j, i) == j <= i /\ \A k \in Failures \cap (j..i) : Same(j, k)

\* A line that came in the second of one that was answered before.
Shadowed(i) == \E j \in answered : j < i /\ log[j].second = log[i].second

\* A failure that is older than the timestamp has been reported, itself or as
\* the first of its repetitions: whatever was not answered is tried again, also
\* when lines are logged while a run is on its way (main.rs: "Not advancing the
\* cursor means the next apt run tries again").  Only a line logged in the very
\* second of an answered one can be passed over.
OlderIsReported ==
    \A i \in Failures : log[i].second < last =>
        Shadowed(i) \/ \E j \in received : Repeats(j, i)
\* "Timestamp of the newest failure already reported, so a failure is not
\* re-reported on every subsequent apt run" (man page): no line of a run that went
\* through to the end is sent again as long as the timestamp can be read, unless it
\* repeats the failure before it.  Of repetitions the first is kept, and its time
\* with it, and the later ones are new again to the next run.
AnsweredIsNotRepeated ==
    [][pc = "off" /\ pc' = "send" /\ last # Never =>
        \A i \in batch' :
            i \notin answered \/ \E k \in Failures \ {i} : Repeats(k, i)]_vars
-----------------------------------------------------------------------------
\* The man page: "packages left in a failure state"; a package that went on to
\* be installed was not left in one.
NoFalseAlarm ==
    [][pc = "off" /\ pc' = "send" =>
        \A i \in batch' : ~ \E k \in Lines :
            /\ k > i /\ log[k].package = log[i].package
            /\ log[k].state = "installed"]_vars
=============================================================================
