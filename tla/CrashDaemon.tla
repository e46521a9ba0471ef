---------------------------- MODULE CrashDaemon ----------------------------
(***************************************************************************)
(* blankresd: one machine's daemon, from the systemd-coredump entries of   *)
(* the journal to the ingest server and the user's review directory        *)
(* (blankres-daemon: main.rs, reporter.rs, spool.rs, state.rs, journal.rs; *)
(* write_pending and the decisions of blankres-session).                   *)
(*                                                                         *)
(* The daemon is one task: it takes an entry only when the one before is   *)
(* done, so `pc` is a program counter and a step ends at an await or at a  *)
(* write to the disk.  It can be killed between any two steps (SIGTERM is  *)
(* not handled, so `systemctl stop` kills it too); what is on the disk     *)
(* stays: the state file, the spool, the cores and the pending reports.    *)
(* Everything else in the system is the environment: programs crash, the   *)
(* user decides, the server answers or does not.                           *)
(*                                                                         *)
(* Abstractions.  A crash is named by its position in the journal, which   *)
(* is also its cursor.  The salt, the report's text and the kernel half    *)
(* of the daemon are not here.                                             *)
(***************************************************************************)
EXTENDS Integers, Sequences, FiniteSets

CONSTANTS
    Signature,      \* signature hashes, naturals: a spool file's name sorts by them
    Program,        \* Program[s]: the executable s is a crash of
    RateLimit,      \* rate_limit_per_hour
    MaxSpool,       \* MAX_SPOOLED
    DeleteDeclined, \* delete_declined_cores
    DiskFails,      \* whether writes to the disk may fail
    MaxCrashes,     \* length the journal may reach (bounds the run)
    MaxSecond,      \* latest time of a crash (bounds the run)
    MaxStarts       \* how often the daemon is started (bounds the run)

Executable == {Program[s] : s \in Signature}

ASSUME SignatureAssumption == Signature \subseteq Nat /\ Program \in [Signature -> Executable]
ASSUME LimitAssumption == RateLimit \in Nat /\ MaxSpool \in Nat \ {0}
ASSUME FlagAssumption ==
    DeleteDeclined \in BOOLEAN /\ DiskFails \in BOOLEAN
ASSUME BoundAssumption == MaxCrashes \in Nat /\ MaxSecond \in Nat /\ MaxStarts \in Nat

VARIABLES
    journal,    \* crashes as systemd-coredump logged them: [signature, second]
    fate,       \* history: fate[c] is what became of crash c so far
    core,       \* crashes whose core file is on the disk
    pending,    \* report files: signature -> [crash, awaiting, core]
    listed,     \* reports that some front end may have on its list
    resolved,   \* history: crashes whose report the user has decided on
    declined,   \* signatures the user never wants to be asked about
    spool,      \* spool files: key -> crash, or Torn
    forfeited,  \* history: keys the spool lost: to its cap, a full disk or a torn write
    disk,       \* the state file: [cursor, recent]
    starts,     \* how often the daemon was started
    pc,         \* where the daemon is
    mem,        \* its State: [cursor, recent]
    pos,        \* the entry journalctl delivered last
    offered,    \* whether the event of that entry says that there is a core
    batch,      \* keys being drained from the spool
    copies,     \* copies[c]: how often the server has counted crash c; 2 is twice or more
    base,       \* history: entries before the last start that found no cursor
    unsure      \* history: crashes a request of which ended, or was forgotten, unanswered

machine == <<journal, core, pending, listed, resolved, declined>>
history == <<base, unsure>>
vars == <<machine, fate, spool, forfeited, disk, starts, pc, mem, pos, offered, batch, copies, history>>

NoCursor == 0   \* coredump_cursor is None
Torn == 0       \* a spool file that is no complete JSON document
Crashes == DOMAIN journal
SignatureOf(c) == journal[c].signature

\* The name of a spool file: the crash's second and its signature.
Key(c) == journal[c]
Before(j, k) ==
    \/ j.second < k.second
    \/ j.second = k.second /\ j.signature < k.signature

received == {c \in Crashes : copies[c] > 0}

\* Every copy of an event that reaches the server is counted there.
Counted(sent) == [c \in Crashes |-> IF c \in sent /\ copies[c] < 2 THEN copies[c] + 1 ELSE copies[c]]

\* The first n files of a sorted listing.
Oldest(n) == {k \in DOMAIN spool : Cardinality({j \in DOMAIN spool : Before(j, k)}) < n}

Put(files, name, new) ==
    [k \in DOMAIN files \cup {name} |-> IF k = name THEN new ELSE files[k]]
Remove(files, names) == [k \in DOMAIN files \ names |-> files[k]]

Fresh == [cursor |-> NoCursor, recent |-> [x \in Executable |-> 0],
          counts |-> [s \in Signature |-> 0]]

Init ==
    /\ journal = <<>> /\ fate = <<>>
    /\ core = {} /\ pending = <<>> /\ listed = {} /\ resolved = {} /\ declined = {}
    /\ spool = <<>> /\ forfeited = {}
    /\ disk = Fresh /\ mem = Fresh
    /\ starts = 0 /\ pc = "down" /\ pos = 0 /\ offered = FALSE /\ batch = {}
    /\ copies = <<>> /\ base = 0 /\ unsure = {}

-----------------------------------------------------------------------------
(* The daemon *)

Goto(from, to) == pc = from /\ pc' = to

\* The crash being handled.
cur == pos

TornFiles == {k \in DOMAIN spool : spool[k] = Torn}

\* Crashes that a daemon started with this cursor does not handle again.
Past(cursor) == IF cursor = NoCursor THEN Crashes ELSE 1..cursor

\* Bug variant: the state file is not read back.
StartFresh ==
    /\ Goto("down", "drain")
    /\ starts < MaxStarts /\ starts' = starts + 1
    /\ mem' = Fresh
    /\ spool' = Remove(spool, TornFiles)
    /\ forfeited' = forfeited \cup {k \in TornFiles : \E c \in Past(disk.cursor) : Key(c) = k}
    /\ batch' = DOMAIN spool'
    /\ UNCHANGED <<machine, fate, disk, pos, offered, copies, history>>

\* State::load, and drain_list: torn files are deleted, the others are sent.  A
\* torn file of a crash that will be handled again is no loss, but one that had
\* replaced the file of an earlier crash is.
Start ==
    /\ Goto("down", "drain")
    /\ starts < MaxStarts /\ starts' = starts + 1
    /\ mem' = disk
    /\ spool' = Remove(spool, TornFiles)
    /\ forfeited' = forfeited \cup {k \in TornFiles : \E c \in Past(disk.cursor) : Key(c) = k}
    /\ batch' = DOMAIN spool'
    /\ UNCHANGED <<machine, fate, disk, pos, offered, copies, history>>

\* Bug variant: the files are removed whether or not the batch was answered.
DrainSpoolUnchecked ==
    /\ Goto("drain", "remove")
    /\ \E n \in 0..Cardinality(batch) :
         copies' = Counted({spool[k] : k \in Oldest(n)})
    /\ UNCHANGED <<machine, fate, spool, forfeited, disk, starts, mem, pos, offered, batch, history>>

\* drain_spool: send_events with every spooled event.  The server works through
\* the batch in order and may have recorded any prefix of it when it fails.
DrainSpool ==
    \/ /\ batch # {}
       /\ Goto("drain", "remove")
       /\ copies' = Counted({spool[k] : k \in batch})
       /\ UNCHANGED <<machine, fate, spool, forfeited, disk, starts, mem, pos, offered, batch, history>>
    \/ /\ Goto("drain", "open")
       /\ \E n \in 0..Cardinality(batch) :
            copies' = Counted({spool[k] : k \in Oldest(n)})
       /\ batch' = {}
       /\ UNCHANGED <<machine, fate, spool, forfeited, disk, starts, mem, pos, offered, history>>

\* drain_spool: the files of a batch that was answered go one by one.
RemoveSpooled ==
    /\ pc = "remove"
    /\ \/ /\ batch = {} /\ pc' = "open"
          /\ UNCHANGED <<spool, batch>>
       \/ /\ pc' = pc
          /\ \E k \in batch :
               /\ \A j \in batch : ~Before(j, k)
               /\ spool' = Remove(spool, {k})
               /\ batch' = batch \ {k}
    /\ UNCHANGED <<machine, fate, forfeited, disk, starts, mem, pos, offered, copies, history>>

\* journalctl --after-cursor, or --since=now when there is no cursor.
OpenJournal ==
    /\ Goto("open", "watch")
    /\ pos' = IF mem.cursor = NoCursor THEN Len(journal) ELSE mem.cursor
    /\ fate' = [c \in Crashes |->
                  IF fate[c] \notin {"unseen", "backlog"} THEN fate[c]
                  ELSE IF c <= pos' THEN "skipped" ELSE "backlog"]
    /\ base' = IF mem.cursor = NoCursor THEN Len(journal) ELSE base
    /\ UNCHANGED <<machine, spool, forfeited, disk, starts, mem, offered, batch, copies, unsure>>

\* charge_rate_limit, whether or not the crash is reported, and note_signature if it is.
Charge(c, quiet) ==
    mem' = [mem EXCEPT !.recent[Program[SignatureOf(c)]] = @ + 1,
                       !.counts[SignatureOf(c)] = IF quiet THEN @ ELSE @ + 1]
OverLimit(c) == mem.recent[Program[SignatureOf(c)]] >= RateLimit

\* Bug variant: a program over its limit is waited for, not suppressed.
TakeEntryWaits ==
    /\ pc = "watch" /\ pos < Len(journal)
    /\ ~OverLimit(pos + 1)
    /\ pos' = pos + 1
    /\ LET quiet == SignatureOf(pos') \in declined IN
         /\ Charge(pos', quiet)
         /\ pc' = IF quiet THEN "save" ELSE "ask"
         /\ offered' = (~quiet /\ pos' \in core)
         /\ fate' = IF quiet THEN [fate EXCEPT ![pos'] = "suppressed"] ELSE fate
    /\ UNCHANGED <<machine, spool, forfeited, disk, starts, batch, copies, history>>

\* next_entry and the start of handle_coredump: stage 1 looks for the core, once
\* (out of time it offers none, one more reason to refuse); the rate limit, then
\* the two lists of declined signatures.
TakeEntry ==
    /\ pc = "watch" /\ pos < Len(journal)
    /\ pos' = pos + 1
    /\ LET quiet == OverLimit(pos') \/ SignatureOf(pos') \in declined IN
         /\ Charge(pos', quiet)
         /\ pc' = IF quiet THEN "save" ELSE "ask"
         /\ offered' = (~quiet /\ pos' \in core)
         /\ fate' = IF quiet THEN [fate EXCEPT ![pos'] = "suppressed"] ELSE fate
    /\ UNCHANGED <<machine, spool, forfeited, disk, starts, batch, copies, history>>

\* ask_server: recorded, and the payload is not wanted.
ServerRefuses ==
    /\ Goto("ask", "drop")
    /\ copies' = Counted({cur}) /\ offered' = FALSE
    /\ UNCHANGED <<machine, fate, spool, forfeited, disk, starts, mem, pos, batch, history>>

\* ask_server: recorded, and the payload is wanted, which needs the event's word
\* that there is a core; the core may be gone by now.
ServerWants ==
    /\ Goto("ask", "write_pending")
    /\ offered
    /\ copies' = Counted({cur}) /\ offered' = FALSE
    /\ UNCHANGED <<machine, fate, spool, forfeited, disk, starts, mem, pos, batch, history>>

\* Bug variant: no answer is taken for "not wanted".
NoAnswerDropsCore ==
    /\ Goto("ask", "drop")
    /\ copies' \in {copies, Counted({cur})}
    /\ unsure' = unsure \cup {cur} /\ offered' = FALSE
    /\ UNCHANGED <<machine, fate, spool, forfeited, disk, starts, mem, pos, batch, base>>

\* ask_server: unreachable, an error or the deadline.  Whether the event was
\* recorded is not known.
NoAnswer ==
    /\ Goto("ask", "spool")
    /\ copies' \in {copies, Counted({cur})}
    /\ unsure' = unsure \cup {cur} /\ offered' = FALSE
    /\ UNCHANGED <<machine, fate, spool, forfeited, disk, starts, mem, pos, batch, base>>

\* drop_core.
DropCore ==
    /\ Goto("drop", "save")
    /\ core' = IF DeleteDeclined THEN core \ {cur} ELSE core
    /\ fate' = [fate EXCEPT ![cur] = "refused"]
    /\ UNCHANGED <<journal, pending, listed, resolved, declined, spool, forfeited, disk,
                   starts, mem, pos, offered, batch, copies, history>>

\* Bug variant: a report that is already there is not replaced.
WritePendingOnce(from, awaiting) ==
    LET report == [crash |-> cur, awaiting |-> awaiting, core |-> cur \in core] IN
    /\ Goto(from, "save")
    /\ \/ /\ pending' = IF SignatureOf(cur) \in DOMAIN pending THEN pending
                        ELSE Put(pending, SignatureOf(cur), report)
          /\ listed' = listed \cup {report}
          /\ fate' = [fate EXCEPT ![cur] = "shown"]
       \/ /\ DiskFails /\ pending' = pending /\ listed' = listed
          /\ fate' = [fate EXCEPT ![cur] = "failed"]
    /\ UNCHANGED <<journal, core, resolved, declined, spool, forfeited, disk,
                   starts, mem, pos, offered, batch, copies, history>>

\* write_pending: the report replaces the file of an earlier crash with the
\* same signature.  From here on any front end may have it on its list, for as
\* long as its window is open.  On an error main logs it and goes on to save the
\* cursor.
WritePending(from, awaiting) ==
    LET report == [crash |-> cur, awaiting |-> awaiting, core |-> cur \in core] IN
    /\ Goto(from, "save")
    /\ \/ /\ pending' = Put(pending, SignatureOf(cur), report)
          /\ listed' = listed \cup {report}
          /\ fate' = [fate EXCEPT ![cur] = "shown"]
       \/ /\ DiskFails /\ pending' = pending /\ listed' = listed
          /\ fate' = [fate EXCEPT ![cur] = "failed"]
    /\ UNCHANGED <<journal, core, resolved, declined, spool, forfeited, disk,
                   starts, mem, pos, offered, batch, copies, history>>

\* Bug variant: a report that has its directive asks for another.
WriteConfirmedAwaiting == WritePending("write_pending", TRUE)

WriteConfirmed == WritePending("write_pending", FALSE)
WriteUnconfirmed == WritePending("write_unconfirmed", TRUE)

\* Bug variant: the file about to be written is not counted.
ExcessOffByOne == IF Cardinality(DOMAIN spool) < MaxSpool THEN 0
                  ELSE Cardinality(DOMAIN spool) - MaxSpool

\* Spool::trim: how many files go before the next one is written.
Excess == IF Cardinality(DOMAIN spool) < MaxSpool THEN 0
          ELSE Cardinality(DOMAIN spool) - MaxSpool + 1

\* Spool::push: trim, then create (or truncate) the file.  An error is ignored,
\* whether it left the file as it was or torn.
SpoolBegin ==
    /\ pc = "spool"
    /\ LET trimmed == Remove(spool, Oldest(Excess))
           torn == Put(trimmed, Key(cur), Torn)
       IN  \/ /\ pc' = "spooling" /\ spool' = torn
              /\ forfeited' = forfeited \cup Oldest(Excess)
           \/ /\ DiskFails /\ pc' = "write_unconfirmed" /\ spool' \in {trimmed, torn}
              /\ forfeited' = forfeited \cup Oldest(Excess) \cup {Key(cur)}
    /\ UNCHANGED <<machine, fate, disk, starts, mem, pos, offered, batch, copies, history>>

\* Spool::push: the file is complete.
SpoolEnd ==
    /\ Goto("spooling", "write_unconfirmed")
    /\ spool' = Put(spool, Key(cur), cur)
    /\ UNCHANGED <<machine, fate, forfeited, disk, starts, mem, pos, offered, batch, copies, history>>

\* Bug variant: only the cursor is saved.
SaveCursorOnly ==
    /\ Goto("save", "watch")
    /\ mem' = [mem EXCEPT !.cursor = cur]
    /\ disk' = [disk EXCEPT !.cursor = cur] \/ (DiskFails /\ disk' = disk)
    /\ UNCHANGED <<machine, fate, spool, forfeited, starts, pos, offered, batch, copies, history>>

\* main: the cursor moves past the entry and State::save renames the new state
\* file into place; a failed save is only logged.
SaveState ==
    /\ Goto("save", "watch")
    /\ mem' = [mem EXCEPT !.cursor = cur]
    /\ disk' = mem' \/ (DiskFails /\ disk' = disk)
    /\ UNCHANGED <<machine, fate, spool, forfeited, starts, pos, offered, batch, copies, history>>

Daemon ==
    \/ Start \/ DrainSpool \/ RemoveSpooled \/ OpenJournal \/ TakeEntry
    \/ ServerRefuses \/ ServerWants \/ NoAnswer \/ DropCore
    \/ WriteConfirmed \/ WriteUnconfirmed \/ SpoolBegin \/ SpoolEnd \/ SaveState

\* The daemon is killed: SIGTERM, a power cut, a panic.
Kill ==
    /\ pc # "down" /\ starts < MaxStarts
    /\ pc' = "down" /\ mem' = disk /\ pos' = 0 /\ offered' = FALSE /\ batch' = {}
    /\ unsure' = unsure \cup (disk.cursor + 1)..pos
    /\ UNCHANGED <<machine, fate, spool, forfeited, disk, starts, copies, base>>

\* ctrl_c while it waits for an entry, the end of journalctl, and --once after
\* the first entry: the state is saved once more.  The exit is a clean one, after
\* which Restart=on-failure leaves the daemon down until someone starts it.
Shutdown ==
    /\ Goto("watch", "down") /\ starts < MaxStarts
    /\ disk' = mem /\ mem' = mem /\ pos' = 0
    /\ UNCHANGED <<machine, fate, spool, forfeited, starts, offered, batch, copies, history>>

-----------------------------------------------------------------------------
(* The environment *)

\* A program crashes: systemd-coredump stores the core and logs the entry.  Time
\* is counted from the first crash.
NewCrash(s, t) ==
    /\ Len(journal) < MaxCrashes
    /\ \A c \in Crashes : journal[c].second <= t
    /\ journal = <<>> => t = 0
    /\ journal' = Append(journal, [signature |-> s, second |-> t])
    /\ fate' = Append(fate, "unseen")
    /\ core' = core \cup {Len(journal')}
    /\ copies' = Append(copies, 0)
    /\ UNCHANGED <<pending, listed, resolved, declined, spool, forfeited, disk, starts, pc,
                   mem, pos, offered, batch, history>>

\* Bug variant: the charge is taken off a list that does not have it.
ChargeExpiresUnchecked(x) ==
    LET expire(state) == [state EXCEPT !.recent[x] = @ - 1]
    IN  /\ mem.recent[x] > 0
        /\ mem' = expire(mem) /\ disk' = expire(disk)
        /\ UNCHANGED <<machine, fate, spool, forfeited, starts, pc, pos, offered, batch, copies, history>>

\* An hour after the oldest charge of x it leaves the window, in memory and in
\* the file alike (charge_rate_limit drops it at its next call).
ChargeExpires(x) ==
    LET expire(state) == [state EXCEPT !.recent[x] = IF @ = 0 THEN 0 ELSE @ - 1]
    IN  /\ mem.recent[x] > 0
        /\ mem' = expire(mem) /\ disk' = expire(disk)
        /\ UNCHANGED <<machine, fate, spool, forfeited, starts, pc, pos, offered, batch, copies, history>>

\* Bug variant: the core of the report that has the name now.
RemoveCoreByName(e) ==
    /\ core' = core \ {pending[s].crash : s \in DOMAIN pending \cap {SignatureOf(e.crash)}}
    /\ resolved' = resolved \cup {e.crash}
    /\ UNCHANGED <<journal, pending, listed, declined, fate, spool, forfeited, disk, starts, pc, mem,
                   pos, offered, batch, copies, history>>

\* The user decides on a report e that a front end has listed, however long ago:
\* remove_core, the first half of discard and of the end of send.
RemoveCore(e) ==
    /\ core' = core \ {e.crash}
    /\ resolved' = resolved \cup {e.crash}
    /\ UNCHANGED <<journal, pending, listed, declined, fate, spool, forfeited, disk, starts, pc, mem,
                   pos, offered, batch, copies, history>>

\* remove, the second half: the file of that name goes, whichever crash's report
\* it holds by now.  A front end that was killed in between never does it.
RemoveReport(c) ==
    /\ c \in resolved
    /\ pending' = Remove(pending, {SignatureOf(c)})
    /\ UNCHANGED <<journal, core, listed, resolved, declined, fate, spool, forfeited, disk, starts, pc,
                   mem, pos, offered, batch, copies, history>>

\* decline_forever: the list is saved before anything is removed.
DeclineForever(e) ==
    /\ declined' = declined \cup {SignatureOf(e.crash)}
    /\ UNCHANGED <<journal, core, pending, listed, resolved, fate, spool, forfeited, disk, starts, pc,
                   mem, pos, offered, batch, copies, history>>

\* send, for a report without a directive: its event is sent (again) to ask for
\* one.  What follows is an upload that fails and changes nothing, or RemoveCore.
Announce(e) ==
    /\ e.awaiting
    /\ copies' = Counted({e.crash})
    /\ UNCHANGED <<machine, fate, spool, forfeited, disk, starts, pc, mem, pos, offered, batch, history>>

Environment ==
    \/ \E s \in Signature, t \in 0..MaxSecond : NewCrash(s, t)
    \/ \E x \in Executable : ChargeExpires(x)
    \/ \E e \in listed : RemoveCore(e) \/ DeclineForever(e) \/ Announce(e)
    \/ \E c \in Crashes : RemoveReport(c)

Next == Daemon \/ Kill \/ Shutdown \/ Environment

Spec == Init /\ [][Next]_vars

\* systemd starts the daemon (at boot, and Restart=on-failure), the runtime
\* runs it, and a request ends by an answer or by its deadline.
FairSpec == Spec /\ WF_vars(Daemon)
-----------------------------------------------------------------------------
Fate == {"unseen", "backlog", "skipped", "suppressed", "refused", "shown", "failed"}
Keys == [signature : Signature, second : 0..MaxSecond]
States == [cursor : 0..MaxCrashes, recent : [Executable -> Nat], counts : [Signature -> Nat]]
PendingReports == [crash : Crashes, awaiting : BOOLEAN, core : BOOLEAN]

\* Type invariant.
TypeOK ==
    /\ journal \in Seq(Keys) /\ Len(journal) <= MaxCrashes
    /\ fate \in [Crashes -> Fate]
    /\ core \subseteq Crashes /\ resolved \subseteq Crashes /\ unsure \subseteq Crashes
    /\ copies \in [Crashes -> 0..2] /\ base \in 0..Len(journal)
    /\ DOMAIN pending \subseteq Signature /\ pending \in [DOMAIN pending -> PendingReports]
    /\ listed \subseteq PendingReports /\ offered \in BOOLEAN
    /\ declined \subseteq Signature
    /\ DOMAIN spool \subseteq Keys /\ spool \in [DOMAIN spool -> Crashes \cup {Torn}]
    /\ forfeited \subseteq Keys /\ batch \subseteq DOMAIN spool
    /\ disk \in States /\ mem \in States /\ starts \in 0..MaxStarts
    /\ pos \in 0..Len(journal)
    /\ pc \in {"down", "drain", "remove", "open", "watch", "ask", "drop", "write_pending",
               "spool", "spooling", "write_unconfirmed", "save"}

Handled(c) == fate[c] \in {"refused", "shown", "failed"}

\* The event of crash c, or of one with the same signature in the same second,
\* is in a spool file or has reached the server.
EventKept(c) ==
    \/ Key(c) \in DOMAIN spool
    \/ \E d \in received : Key(d) = Key(c)

\* No event is lost, however often the daemon is killed, the server is away or
\* a request is abandoned half way: once the saved cursor has moved past a
\* crash that was not suppressed, its event is kept, unless the spool lost it to
\* its cap, to a full disk, or to a write over it that a kill cut short
\* (handle_coredump, drain_spool, main).
NothingLost ==
    \A c \in Crashes : c <= disk.cursor =>
        /\ fate[c] \notin {"unseen", "backlog"}
        /\ Handled(c) => EventKept(c) \/ Key(c) \in forfeited

\* The spool never exceeds its cap (Spool::trim).
SpoolBounded == Cardinality(DOMAIN spool) <= MaxSpool

\* A core is deleted only on the server's word, which it can give only for an
\* event it has recorded, or on the user's: an unsent crash keeps its core.
UnsentCrashKeepsItsCore ==
    \A c \in Crashes \ core : c \in received \cup resolved

\* A crash that was to be shown stays in the review directory, itself or as a
\* later crash of the same signature, until the user has decided on a report of
\* that signature: what a decision removes by its name may be a later report than
\* the one decided on.  An earlier one can take its place only when the daemon,
\* after a failed save, is going through both again (write_pending, remove).
ShownUntilDecided ==
    \A c \in Crashes : fate[c] = "shown" =>
        \E d \in Crashes :
            /\ SignatureOf(d) = SignatureOf(c)
            /\ \/ d \in resolved
               \/ /\ d >= c \/ c > disk.cursor
                  /\ SignatureOf(d) \in DOMAIN pending /\ pending[SignatureOf(d)].crash = d

\* A report that offers a core has it, whatever a front end with an old list or one
\* that is killed half way has removed by name, unless the user has decided on that
\* very crash, or a request for it was left unanswered or forgotten by a kill: then
\* it was sent again, and refused (remove_core, drop_core).
LostOnlyInDoubt ==
    \A s \in DOMAIN pending :
        pending[s].core => pending[s].crash \in core \cup resolved \cup unsure

\* The crashes of this machine as CrashLifecycle sees them: a crash is closed once
\* the saved cursor is past it.
MayHappen == 1..MaxCrashes
PhaseOf(c) ==
    IF c \notin Crashes THEN "absent"
    ELSE IF fate[c] \in {"unseen", "backlog"} THEN "waiting" ELSE fate[c]

Abstract == INSTANCE CrashLifecycle WITH
    Crash <- MayHappen, None <- -1,
    phase <- [c \in MayHappen |-> PhaseOf(c)],
    subject <- [c \in MayHappen |-> IF c \in Crashes THEN SignatureOf(c) ELSE -1],
    copies <- [c \in MayHappen |-> IF c \in Crashes THEN copies[c] ELSE 0],
    doubtful <- unsure,
    reports <- {pending[s].crash : s \in DOMAIN pending},
    seen <- {e.crash : e \in listed},
    decided <- resolved,
    closed <- 1..disk.cursor

\* The daemon keeps the promises of CrashLifecycle: whatever is killed, fails or is
\* sent twice, each crash is dealt with by itself and once and for all when the
\* saved cursor is past it, is sent again only if in doubt, is refused only once it is
\* counted, and loses its core only then or by the user's decision.
EachCrashFollowsLifecycle == Abstract!Spec

\* Resuming after a cursor reports the crashes that happened while the daemon
\* was down: once a cursor is saved nothing is skipped, and the cursor never
\* moves back (journal.rs, State::save).
ResumesWhereItStopped ==
    [][/\ disk'.cursor >= disk.cursor
       /\ disk.cursor # NoCursor =>
            \A c \in Crashes : fate'[c] = "skipped" => fate[c] = "skipped"]_vars

\* The server counts a crash once, unless one of its requests ended without an
\* answer, or the daemon was killed before its cursor was past the crash: then
\* the event is sent again, and the server has no key to tell two copies by
\* (ask_server, drain_spool, send).
CountedOnce == \A c \in Crashes : copies[c] = 2 => c \in unsure

\* "An over-count is harmless where an under-count would hide a pattern": the
\* count an event carries covers every crash of its signature that was reported
\* since the daemon had no cursor, however often it was killed in between.
NoUndercount ==
    pc = "ask" =>
        mem.counts[SignatureOf(cur)] >
            Cardinality({c \in (base + 1)..(cur - 1) :
                            SignatureOf(c) = SignatureOf(cur) /\ Handled(c)})

Waiting(c) == fate[c] \in {"unseen", "backlog"}

\* The daemon catches up with the journal again and again: as no crash that was
\* dealt with waits again, every crash is dealt with in the end.
EveryCrashIsHandled == []<>(\A c \in Crashes : ~Waiting(c))

-----------------------------------------------------------------------------
\* reporter_e2e.rs: "the core is kept until the user decides".  A crash that is
\* handled again after the daemon was killed may be refused the second time.
PendingKeepsItsCore ==
    \A s \in DOMAIN pending : pending[s].core => pending[s].crash \in core \cup resolved
=============================================================================
