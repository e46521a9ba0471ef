--------------------------- MODULE ConsentSession ---------------------------
(***************************************************************************)
(* The review directory of one user, /var/crash/<uid>, and the front ends  *)
(* that decide on what is in it: consent windows (blankres-gtk) and        *)
(* commands (blankres-cli), all through ReportSession and PendingStore of  *)
(* blankres-session.                                                       *)
(*                                                                         *)
(* A front end lists the directory once, when it opens, and acts on that   *)
(* list; the daemon goes on writing reports meanwhile, each replacing the  *)
(* report of an earlier crash with its signature.  Several front ends may  *)
(* run (the application is NON_UNIQUE).  Clicks run on the window's thread *)
(* one after the other; each upload has a thread of its own.  A step is    *)
(* one file operation or one answer of the server, and a front end can     *)
(* end between any two.                                                    *)
(*                                                                         *)
(* Abstractions.  A crash is a number, in the order the reports are        *)
(* written; every report has a core.  A declined.json that cannot be       *)
(* parsed reads as the empty list, so a torn file is the empty set.  A     *)
(* command is a window that is killed instead of closed.  Time is not      *)
(* here: an offer may have expired whenever it is looked at.               *)
(***************************************************************************)
EXTENDS Integers, Sequences, FiniteSets

CONSTANTS
    Signature,  \* crash signatures
    FrontEnd,   \* processes
    MaxReports  \* how many reports the daemon writes (bounds the run)

ASSUME ReportsAssumption == MaxReports \in Nat

\* What stands for the content of a file that does not exist.
NoFile == {"no file"}
ASSUME NoFileAssumption == "no file" \notin Signature

VARIABLES
    written,    \* history: written[c] is the signature of crash c
    reports,    \* report files: signature -> [crash, awaiting]
    core,       \* crashes whose core is on the disk
    declined,   \* the list in declined.json
    temp,       \* what is in declined.tmp, or NoFile
    running,    \* front ends that are open
    live,       \* live[p]: entries on p's list whose buttons still work
    jobs,       \* jobs[p]: what p is in the middle of
    mine,       \* mine[p]: the list p is about to save
    fd,         \* fd[p]: the file p has open for writing
    seen,       \* history: crashes some front end has shown
    consented,  \* history: crashes the user pressed Send for
    uploaded,   \* crashes whose payload the server has stored
    settled,    \* history: crashes that were decided on
    ignored,    \* history: signatures decline_forever has confirmed
    overlapped  \* history: two front ends have been in decline_forever at once

files == <<reports, core, declined, temp>>
process == <<running, live, jobs, mine, fd>>
history == <<seen, consented, uploaded, settled, ignored, overlapped>>
vars == <<written, files, process, history>>

Crashes == DOMAIN written
Entry == [signature : Signature, crash : Crashes, awaiting : BOOLEAN]

\* Where a job is: asking for a directive, about to upload, uploading, at the
\* steps of Declined::save, about to remove the core, or the report; and whose it
\* is: an upload's, still under way or stored, a button's or the closing window's.
Stage == {"ask", "upload", "stream", "open", "write", "rename", "core", "file"}
Job == [entry : Entry, stage : Stage, kind : {"send", "sent", "click", "close"}]

Put(table, key, new) ==
    [k \in DOMAIN table \cup {key} |-> IF k = key THEN new ELSE table[k]]
Remove(table, key) == [k \in DOMAIN table \ {key} |-> table[k]]

\* PendingStore::list.
Listing == {[signature |-> s, crash |-> reports[s].crash, awaiting |-> reports[s].awaiting] :
              s \in DOMAIN reports}

Init ==
    /\ written = <<>> /\ reports = <<>> /\ core = {}
    /\ declined = {} /\ temp = NoFile
    /\ running = {}
    /\ live = [p \in FrontEnd |-> {}] /\ jobs = [p \in FrontEnd |-> {}]
    /\ mine = [p \in FrontEnd |-> {}] /\ fd = [p \in FrontEnd |-> "none"]
    /\ seen = {} /\ consented = {} /\ uploaded = {} /\ settled = {} /\ ignored = {}
    /\ overlapped = FALSE

-----------------------------------------------------------------------------
\* The daemon's write_pending, of a signature it has not found declined.
DaemonWrites(s, awaiting) ==
    /\ Len(written) < MaxReports /\ s \notin declined
    /\ written' = Append(written, s)
    /\ reports' = Put(reports, s, [crash |-> Len(written'), awaiting |-> awaiting])
    /\ core' = core \cup {Len(written')}
    /\ UNCHANGED <<declined, temp, process, history>>

\* A front end starts and lists the directory.
Open(p) ==
    /\ p \notin running
    /\ running' = running \cup {p}
    /\ live' = [live EXCEPT ![p] = Listing]
    /\ seen' = seen \cup {e.crash : e \in Listing}
    /\ UNCHANGED <<written, files, jobs, mine, fd, consented, uploaded, settled, ignored, overlapped>>

\* What p's main thread is doing; it takes a click only when that is nothing.
Busy(p) == \E j \in jobs[p] : j.kind \in {"click", "close"}
Sending(p, e) == \E j \in jobs[p] : j.kind \in {"send", "sent"} /\ j.entry = e

Begin(p, new) == jobs' = [jobs EXCEPT ![p] = @ \cup new]
Advance(p, j, stage) == jobs' = [jobs EXCEPT ![p] = (@ \ {j}) \cup {[j EXCEPT !.stage = stage]}]
Finish(p, j) == jobs' = [jobs EXCEPT ![p] = (@ \ {j}) \cup {[j EXCEPT !.stage = "core", !.kind = "sent"]}]
End(p, j) == jobs' = [jobs EXCEPT ![p] = @ \ {j}]

\* Send: the button goes grey until the upload is over, the other two do not.
\* For an offer that has expired the click does nothing.
PressSend(p, e) ==
    /\ ~Busy(p) /\ e \in live[p] /\ ~Sending(p, e)
    /\ Begin(p, {[entry |-> e, stage |-> IF e.awaiting THEN "ask" ELSE "upload", kind |-> "send"]})
    /\ consented' = consented \cup {e.crash}
    /\ UNCHANGED <<written, files, running, live, mine, fd, seen, uploaded, settled, ignored, overlapped>>

\* Don't send.
PressDiscard(p, e) ==
    /\ ~Busy(p) /\ e \in live[p]
    /\ Begin(p, {[entry |-> e, stage |-> "core", kind |-> "click"]})
    /\ live' = [live EXCEPT ![p] = @ \ {e}]
    /\ settled' = settled \cup {e.crash}
    /\ UNCHANGED <<written, files, running, mine, fd, seen, consented, uploaded, ignored, overlapped>>

\* Never for this problem: decline_forever loads the list and adds to it.
PressIgnore(p, e) ==
    /\ ~Busy(p) /\ e \in live[p]
    /\ Begin(p, {[entry |-> e, stage |-> "open", kind |-> "click"]})
    /\ live' = [live EXCEPT ![p] = @ \ {e}]
    /\ mine' = [mine EXCEPT ![p] = declined \cup {e.signature}]
    /\ overlapped' = (overlapped \/ \E q \in FrontEnd \ {p} : mine[q] # {})
    /\ UNCHANGED <<written, files, running, fd, seen, consented, uploaded, settled, ignored>>

\* The window is closed, which means Don't send: the directory is listed again
\* and everything in it discarded.
PressClose(p) ==
    /\ p \in running /\ ~Busy(p) /\ Listing # {}
    /\ Begin(p, {[entry |-> e, stage |-> "core", kind |-> "close"] : e \in Listing})
    /\ live' = [live EXCEPT ![p] = {}]
    /\ settled' = settled \cup {e.crash : e \in Listing}
    /\ UNCHANGED <<written, files, running, mine, fd, seen, consented, uploaded, ignored, overlapped>>

\* The process ends: after its window has closed, or a command has run, or
\* because it is killed.  Its uploads end with it.
Exit(p) ==
    /\ p \in running
    /\ running' = running \ {p}
    /\ live' = [live EXCEPT ![p] = {}] /\ jobs' = [jobs EXCEPT ![p] = {}]
    /\ mine' = [mine EXCEPT ![p] = {}] /\ fd' = [fd EXCEPT ![p] = "none"]
    /\ UNCHANGED <<written, files, history>>

-----------------------------------------------------------------------------
\* send_events for a report without a directive: the payload is wanted, is not
\* wanted (then the report is discarded), or there is no answer.
Ask(p, j) ==
    /\ j.stage = "ask"
    /\ \/ Advance(p, j, "upload") /\ settled' = settled
       \/ Advance(p, j, "core") /\ settled' = settled \cup {j.entry.crash}
       \/ End(p, j) /\ settled' = settled
    /\ UNCHANGED <<written, files, running, live, mine, fd, seen, consented, uploaded, ignored, overlapped>>

\* upload_report of the entry the user saw: its core is opened, or is gone.
OpenCore(p, j) ==
    /\ j.stage = "upload"
    /\ IF j.entry.crash \in core THEN Advance(p, j, "stream") ELSE End(p, j)
    /\ UNCHANGED <<written, files, running, live, mine, fd, history>>

\* Bug variant: what is uploaded is the report that has the entry's name now.
UploadByName(p, j) ==
    /\ j.stage = "stream" /\ j.entry.signature \in DOMAIN reports
    /\ LET c == reports[j.entry.signature].crash IN
         \/ /\ Finish(p, j)
            /\ uploaded' = uploaded \cup {c}
            /\ settled' = settled \cup {c, j.entry.crash}
         \/ /\ End(p, j)
            /\ UNCHANGED <<uploaded, settled>>
    /\ UNCHANGED <<written, files, running, live, mine, fd, seen, consented, ignored, overlapped>>

\* Bug variant: a failed upload is cleaned up after like a good one.
UploadAlwaysCleansUp(p, j) ==
    /\ j.stage = "stream"
    /\ Finish(p, j)
    /\ \/ /\ uploaded' = uploaded \cup {j.entry.crash}
          /\ settled' = settled \cup {j.entry.crash}
       \/ UNCHANGED <<uploaded, settled>>
    /\ UNCHANGED <<written, files, running, live, mine, fd, seen, consented, ignored, overlapped>>

\* upload_report: stored, or failed.  An offer's one token works once.
Upload(p, j) ==
    /\ j.stage = "stream"
    /\ \/ /\ j.entry.awaiting \/ j.entry.crash \notin uploaded
          /\ Finish(p, j)
          /\ uploaded' = uploaded \cup {j.entry.crash}
          /\ settled' = settled \cup {j.entry.crash}
       \/ /\ End(p, j)
          /\ UNCHANGED <<uploaded, settled>>
    /\ UNCHANGED <<written, files, running, live, mine, fd, seen, consented, ignored, overlapped>>

\* decline_forever fails: nothing is discarded, and the temporary file stays.
GiveUp(p, j) ==
    /\ End(p, j)
    /\ mine' = [mine EXCEPT ![p] = {}] /\ fd' = [fd EXCEPT ![p] = "none"]

\* Declined::save: declined.tmp is created or truncated ...
OpenTemp(p, j) ==
    /\ j.stage = "open"
    /\ \/ /\ Advance(p, j, "write") /\ mine' = mine
          /\ temp' = {} /\ fd' = [fd EXCEPT ![p] = "temp"]
       \/ GiveUp(p, j) /\ temp' = temp
    /\ UNCHANGED <<written, reports, core, declined, running, live, history>>

\* Bug variant: an error of the write is not noticed.
WriteTempUnchecked(p, j) ==
    /\ j.stage = "write" /\ Advance(p, j, "rename")
    /\ temp' \in {temp, IF fd[p] = "temp" THEN mine[p] ELSE temp}
    /\ declined' = IF fd[p] = "json" THEN mine[p] ELSE declined
    /\ fd' = [fd EXCEPT ![p] = "none"]
    /\ UNCHANGED <<written, reports, core, running, live, mine, history>>

\* ... written, wherever the open file has been moved to meanwhile; a write that
\* fails leaves it as it is or torn ...
WriteTemp(p, j) ==
    /\ j.stage = "write"
    /\ \/ /\ Advance(p, j, "rename") /\ mine' = mine
          /\ temp' = IF fd[p] = "temp" THEN mine[p] ELSE temp
          /\ declined' = IF fd[p] = "json" THEN mine[p] ELSE declined
          /\ fd' = [fd EXCEPT ![p] = "none"]
       \/ /\ GiveUp(p, j)
          /\ temp' \in {temp, IF fd[p] = "temp" THEN {} ELSE temp}
          /\ declined' \in {declined, IF fd[p] = "json" THEN {} ELSE declined}
    /\ UNCHANGED <<written, reports, core, running, live, history>>

\* Bug variant: nobody checks that the temporary file is still there.
RenameTempUnchecked(p, j) ==
    /\ j.stage = "rename"
    /\ declined' = temp /\ temp' = NoFile
    /\ ignored' = ignored \cup {j.entry.signature}
    /\ settled' = settled \cup {j.entry.crash}
    /\ Advance(p, j, "core")
    /\ mine' = [mine EXCEPT ![p] = {}]
    /\ UNCHANGED <<written, reports, core, running, live, fd, seen, consented, uploaded, overlapped>>

\* ... and renamed, which cannot succeed once another front end has renamed the
\* file.  Then decline_forever goes on to discard.
RenameTemp(p, j) ==
    /\ j.stage = "rename"
    /\ \/ /\ temp # NoFile
          /\ declined' = temp /\ temp' = NoFile
          /\ fd' = [q \in FrontEnd |-> CASE fd[q] = "temp" -> "json"
                                         [] fd[q] = "json" -> "gone"
                                         [] OTHER -> fd[q]]
          /\ ignored' = ignored \cup {j.entry.signature}
          /\ settled' = settled \cup {j.entry.crash}
          /\ Advance(p, j, "core")
          /\ mine' = [mine EXCEPT ![p] = {}]
       \/ /\ GiveUp(p, j)
          /\ UNCHANGED <<declined, temp, ignored, settled>>
    /\ UNCHANGED <<written, reports, core, running, live, seen, consented, uploaded, overlapped>>

\* remove_core: the path of the core is part of the entry.  A closing window
\* discards one report after the other.
RemoveCore(p, j) ==
    /\ j.stage = "core" /\ Advance(p, j, "file")
    /\ j.kind = "close" => ~\E i \in jobs[p] : i.kind = "close" /\ i.stage = "file"
    /\ core' = core \ {j.entry.crash}
    /\ UNCHANGED <<written, reports, declined, temp, running, live, mine, fd, history>>

\* remove: the file goes by name, whatever is in it by now.  When it was the last
\* step of a send that stored the report, the entry's buttons go grey.
RemoveFile(p, j) ==
    /\ j.stage = "file" /\ End(p, j)
    /\ reports' = Remove(reports, j.entry.signature)
    /\ live' = [live EXCEPT ![p] = IF j.kind = "sent" THEN @ \ {j.entry} ELSE @]
    /\ UNCHANGED <<written, core, declined, temp, running, mine, fd, history>>

Work(p, j) ==
    \/ Ask(p, j) \/ OpenCore(p, j) \/ Upload(p, j) \/ OpenTemp(p, j) \/ WriteTemp(p, j) \/ RenameTemp(p, j)
    \/ RemoveCore(p, j) \/ RemoveFile(p, j)

Next ==
    \/ \E s \in Signature, awaiting \in BOOLEAN : DaemonWrites(s, awaiting)
    \/ \E p \in FrontEnd :
         \/ Open(p) \/ PressClose(p) \/ Exit(p)
         \/ \E e \in live[p] : PressSend(p, e) \/ PressDiscard(p, e) \/ PressIgnore(p, e)
         \/ \E j \in jobs[p] : Work(p, j)

Spec == Init /\ [][Next]_vars
-----------------------------------------------------------------------------
\* Type invariant.
TypeOK ==
    /\ written \in Seq(Signature) /\ Len(written) <= MaxReports
    /\ DOMAIN reports \subseteq Signature
    /\ reports \in [DOMAIN reports -> [crash : Crashes, awaiting : BOOLEAN]]
    /\ core \subseteq Crashes
    /\ declined \subseteq Signature /\ temp \in {NoFile} \cup SUBSET Signature
    /\ running \subseteq FrontEnd
    /\ live \in [FrontEnd -> SUBSET Entry] /\ jobs \in [FrontEnd -> SUBSET Job]
    /\ mine \in [FrontEnd -> SUBSET Signature]
    /\ fd \in [FrontEnd -> {"none", "temp", "json", "gone"}]
    /\ seen \subseteq Crashes /\ consented \subseteq Crashes
    /\ uploaded \subseteq Crashes /\ settled \subseteq Crashes
    /\ ignored \subseteq Signature /\ overlapped \in BOOLEAN

\* Nothing leaves the machine but what the user saw and pressed Send for: the
\* report of that very crash, not the one that has taken its name since.
SentAsConsented == uploaded \subseteq consented \cap seen

\* A send that fails destroys nothing: a core goes only when its own report was
\* sent, turned down by the server after the user's consent, or discarded.
CoreGoneMeansDecided == Crashes \ core \subseteq settled

\* "Never ask about this signature again": what decline_forever has confirmed
\* stays in declined.json, wherever a front end is killed, unless two of them have
\* been in decline_forever at once; there is no lock, and each saves its own list
\* (Declined::save).
IgnoredStaysIgnored == overlapped \/ ignored \subseteq declined

-----------------------------------------------------------------------------
\* session/lib.rs of Discard: "Discard this one, but stay willing to be asked
\* about the next."  The next report of the signature may be what is removed.
UnseenIsNeverDiscarded ==
    [][\A s \in DOMAIN reports \ DOMAIN reports' : reports[s].crash \in seen]_vars
=============================================================================
