--------------------------- MODULE CrashLifecycle ---------------------------
(***************************************************************************)
(* What a machine promises about each program that crashes on it, with no  *)
(* daemon, journal, spool or files in sight.  CrashDaemon implements this  *)
(* specification.                                                          *)
(*                                                                         *)
(*   absent --> waiting --> suppressed, refused, shown or failed           *)
(*                     \--> skipped                                        *)
(*                                                                         *)
(* A crash may be dealt with several times, and then otherwise, until it   *)
(* is closed: what it is then it stays.  A crash is handled apart from all *)
(* others, except that its report takes the place of one with the same     *)
(* signature.                                                              *)
(***************************************************************************)
EXTENDS Integers

CONSTANTS
    Signature,  \* crash signatures
    Crash,      \* crashes that may happen
    None        \* the subject of a crash that has not

VARIABLES
    phase,      \* phase[c]: what has become of the crash
    subject,    \* subject[c]: the signature of a crash that happened
    copies,     \* copies[c]: how often the server has counted it; 2 is twice or more
    doubtful,   \* crashes that may have been sent without anyone knowing
    core,       \* crashes whose core is on the disk
    reports,    \* crashes whose report waits for the user
    seen,       \* crashes whose report the user may have read, and may decide on
    decided,    \* crashes whose report the user has decided on
    closed      \* crashes that are not dealt with again

vars == <<phase, subject, copies, doubtful, core, reports, seen, decided, closed>>

Phase == {"absent", "waiting", "skipped", "suppressed", "refused", "shown", "failed"}

Happened == {c \in Crash : phase[c] # "absent"}

Init ==
    /\ phase = [c \in Crash |-> "absent"]
    /\ subject = [c \in Crash |-> None]
    /\ copies = [c \in Crash |-> 0]
    /\ doubtful = {} /\ core = {} /\ reports = {} /\ seen = {} /\ decided = {} /\ closed = {}

-----------------------------------------------------------------------------
(* The server *)

Counted(S) == [c \in Crash |-> IF c \in S /\ copies[c] < 2 THEN copies[c] + 1 ELSE copies[c]]

\* A crash the server may be told of: one it has not been told of yet, until the
\* crash is closed, and one that is in doubt.
MayBeSent(c) == c \in doubtful \/ (c \in Happened \ closed /\ copies[c] = 0)

\* Requests that are answered, or that send what is in doubt anyway.
Send(S) ==
    /\ \A c \in S : MayBeSent(c)
    /\ copies' = Counted(S)
    /\ UNCHANGED <<phase, subject, doubtful, core, reports, seen, decided, closed>>

\* One that is not.
NoAnswer(c) ==
    /\ c \in Happened \ closed /\ MayBeSent(c)
    /\ copies' \in {copies, Counted({c})}
    /\ doubtful' = doubtful \cup {c}
    /\ UNCHANGED <<phase, subject, core, reports, seen, decided, closed>>

\* What was being done for some crashes is forgotten.
Interrupt(S) ==
    /\ S \subseteq Happened \ closed
    /\ doubtful' = doubtful \cup S
    /\ UNCHANGED <<phase, subject, copies, core, reports, seen, decided, closed>>

-----------------------------------------------------------------------------
(* The machine *)

Happen(c, s) ==
    /\ phase[c] = "absent"
    /\ phase' = [phase EXCEPT ![c] = "waiting"]
    /\ subject' = [subject EXCEPT ![c] = s]
    /\ core' = core \cup {c}
    /\ UNCHANGED <<copies, doubtful, reports, seen, decided, closed>>

\* As long as nothing is closed, what waits may be passed over.
Skip ==
    /\ closed = {}
    /\ phase' = [c \in Crash |-> IF phase[c] = "waiting" THEN "skipped" ELSE phase[c]]
    /\ UNCHANGED <<subject, copies, doubtful, core, reports, seen, decided, closed>>

Settle(c, outcome) ==
    /\ c \in Happened \ closed
    /\ phase' = [phase EXCEPT ![c] = outcome]

Suppress(c) ==
    /\ Settle(c, "suppressed")
    /\ UNCHANGED <<subject, copies, doubtful, core, reports, seen, decided, closed>>

\* Only what the server has counted can be refused, and only that loses its core
\* without the user.
Refuse(c) ==
    /\ Settle(c, "refused") /\ copies[c] > 0
    /\ core' \in {core, core \ {c}}
    /\ UNCHANGED <<subject, copies, doubtful, reports, seen, decided, closed>>

Asked(c) == copies[c] > 0 \/ c \in doubtful

\* The user is shown what the server wants, or has not answered about; the report
\* takes the place of another of its signature.
Show(c) ==
    /\ Settle(c, "shown") /\ Asked(c)
    /\ reports' = {d \in reports : subject[d] # subject[c]} \cup {c}
    /\ seen' = seen \cup {c}
    /\ UNCHANGED <<subject, copies, doubtful, core, decided, closed>>

Fail(c) ==
    /\ Settle(c, "failed") /\ Asked(c)
    /\ UNCHANGED <<subject, copies, doubtful, core, reports, seen, decided, closed>>

\* What has been dealt with is closed for good.
Close(S) ==
    /\ S \subseteq Happened \ closed
    /\ \A c \in S : phase[c] # "waiting"
    /\ closed' = closed \cup S
    /\ UNCHANGED <<phase, subject, copies, doubtful, core, reports, seen, decided>>

\* The user sends or discards a report, which others may have replaced since: its
\* core is gone.
Decide(c) ==
    /\ c \in seen
    /\ decided' = decided \cup {c} /\ core' = core \ {c}
    /\ UNCHANGED <<phase, subject, copies, doubtful, reports, seen, closed>>

\* A decision takes away the report of its signature, whichever it is by then.
Dismiss(c) ==
    /\ c \in decided
    /\ reports' = {d \in reports : subject[d] # subject[c]}
    /\ UNCHANGED <<phase, subject, copies, doubtful, core, seen, decided, closed>>

Next ==
    \/ \E S \in SUBSET Crash : Send(S) \/ Interrupt(S) \/ Close(S)
    \/ \E c \in Crash, s \in Signature : Happen(c, s)
    \/ \E c \in Crash :
         NoAnswer(c) \/ Suppress(c) \/ Refuse(c) \/ Show(c) \/ Fail(c) \/ Decide(c) \/ Dismiss(c)
    \/ Skip

Spec == Init /\ [][Next]_vars
=============================================================================
