----------------------------- MODULE Collection -----------------------------
(***************************************************************************)
(* From a crash's journal record to its event and its report               *)
(* (blankres-collect: stage1.rs, stage2.rs, record.rs, budget.rs; the      *)
(* calls of handle_coredump in reporter.rs), on a machine where dpkg goes  *)
(* on working (PackageIndex).                                              *)
(*                                                                         *)
(* Stage 1 makes the event: the signature, the package, and whether there  *)
(* is a core.  While the event is with the server stage 2 collects what    *)
(* the record has.  What the server says decides whether the core is       *)
(* deleted or the mapped files are verified and the report written.        *)
(*                                                                         *)
(* Abstractions.  The record is journalctl's, which prints a field of more *)
(* than FieldLimit bytes as null (decode_field makes nothing of it).  The  *)
(* rate limit, the declined list and what becomes of event and report are  *)
(* CrashDaemon's.  The probe of handle_coredump computes the signature of  *)
(* the event a second time, from the same record and index: they are one.  *)
(* attach_log, which the daemon never calls, is left out.                  *)
(***************************************************************************)
EXTENDS PackageIndex, SignatureRules, Redaction

CONSTANTS
    Records,            \* crashes that may happen
    Local,              \* files of no package
    Machinery,          \* functions of the crash-reporting machinery
    FieldLimit,         \* bytes of the largest field journalctl prints
    ByteBudget,         \* Budget::stage2
    MAX_VERIFIED_FILES,
    DeleteDeclined,     \* delete_declined_cores
    MaxCrashes          \* crashes that are handled (bounds the run)

ASSUME CollectionAssumption ==
    /\ Local \cap Package = {} /\ "none" \notin Package \cup Local /\ Machinery \subseteq Name
    /\ \A f \in Machinery : f \notin {None, NotApplicable} /\ Lower[f] \in NoisePrefixed
    /\ FieldLimit \in Nat /\ ByteBudget \in Nat /\ MAX_VERIFIED_FILES \in Nat \ {0}
    /\ DeleteDeclined \in BOOLEAN /\ MaxCrashes \in Nat

\* A frame of a stack.  Of a module without a name systemd prints NotApplicable.
StackFrame ==
    [function : Name \ {NotApplicable}, shift : Nat, module : Name \ {None}, offset : Nat]

\* What is recorded of a crash, as far as the rules below look at it.
ASSUME RecordAssumption ==
    \A r \in Records :
        /\ r.executable \in Package \cup Local /\ r.saved \in BOOLEAN
        /\ r.dir \in [Name -> Directory]
        /\ r.stack \in Seq(StackFrame) /\ r.others \in Seq(StackFrame)
        /\ r.maps_size \in Nat /\ r.status_size \in Nat
        /\ r.maps \in Seq(Package \cup Local)
        /\ r.args \in Seq(Argument)
        /\ r.environ \subseteq Entry /\ IsFiniteSet(r.environ)

VARIABLES
    crash,      \* the record being handled
    core,       \* the file its FILENAME names: none, there, gone or deleted
    event,      \* what stage 1 says of it: [signature, core_available, late]
    late,       \* whether the budget of stage 2 is out of time
    report,     \* what stage 2 has: [attachments, skipped, arguments, environment, withheld, modified]
    todo,       \* files still to verify
    checking,   \* the file being verified and the checksum read for it: [file, sums]
    looked,     \* history: files verified for this report
    handled,    \* number of crashes handled
    filed       \* history: [bug, signature, noise, plus, unsure] of every event

stage1 == <<crash, event>>
stage2 == <<late, report, todo, checking, looked>>
filing == <<handled, filed>>
vars == <<disk, dpkg, pc, index, quiet, stage1, core, stage2, filing>>

NoCrash == [executable |-> "none"]
NoEvent == [core_available |-> FALSE]
NoReport == [attachments |-> {}]
Nothing == [file |-> "none", sums |-> NotThere]

NoStage2 == late = FALSE /\ report = NoReport /\ todo = {} /\ checking = Nothing /\ looked = {}

Init ==
    /\ IndexInit
    /\ crash = NoCrash /\ core = "none" /\ event = NoEvent
    /\ NoStage2
    /\ handled = 0 /\ filed = {}

-----------------------------------------------------------------------------
(* The record *)

\* A field of the journal entry as decode_field makes it: size 0 is no field.
Field(size) == IF size <= FieldLimit THEN size ELSE 0

\* Where a frame's code is: a module without a name is in no directory.
LocationOf(r, frame) ==
    [dir |-> IF frame.module = NotApplicable THEN None ELSE r.dir[frame.module],
     name |-> frame.module, offset |-> frame.offset]

\* The message of a crash: the crashing thread's stack, then perhaps another's.
Line(r, frame) ==
    [kind |-> "frame", address |-> r.base + frame.offset,
     symbol |-> IF frame.function = None THEN [name |-> NotApplicable, shift |-> 0]
                ELSE [name |-> frame.function, shift |-> frame.shift],
     location |-> LocationOf(r, frame)]

Message(r) ==
    LET lines == [i \in DOMAIN r.stack |-> Line(r, r.stack[i])]
        header == <<[kind |-> "text"], [kind |-> "header"]>>
        others == IF r.others = <<>> THEN <<>>
                  ELSE <<[kind |-> "blank"], [kind |-> "header"]>>
                       \o [i \in DOMAIN r.others |-> Line(r, r.others[i])]
    IN  IF r.stack = <<>> \/ r.message_size > FieldLimit THEN <<>>
        ELSE header \o lines \o others

\* record.mapped_files without the executable: the places of the others.
libraries(r) ==
    IF Field(r.maps_size) = 0 THEN {} ELSE {i \in DOMAIN r.maps : r.maps[i] # r.executable}

\* The files at the first n of these places.
FirstMapped(r, n) ==
    {r.maps[i] : i \in {i \in libraries(r) : Cardinality({j \in libraries(r) : j <= i}) <= n}}

\* Bug variant: the executable comes after the libraries.
candidates_libraries_first(r) ==
    FirstMapped(r, MAX_VERIFIED_FILES)
        \cup (IF Cardinality(libraries(r)) < MAX_VERIFIED_FILES THEN {r.executable} ELSE {})

\* verify_into: the files that are looked at, the executable before all others.
candidates(r) == {r.executable} \cup FirstMapped(r, MAX_VERIFIED_FILES - 1)

-----------------------------------------------------------------------------
(* What a crash is, apart from how it is reported *)

TopOf(r) ==
    LET names == {i \in DOMAIN r.stack : r.stack[i].function \notin Machinery}
        first == IF names = {} THEN 1 ELSE First(names)
    IN  SubSeq(r.stack, first, Lesser(first + SIGNIFICANT_FRAMES - 1, Len(r.stack)))

\* A function is itself wherever the instruction is in it and whatever its case;
\* code without a name is its place in the module.
Identity(frame) ==
    IF frame.function # None
    THEN [function |-> Lower[frame.function], module |-> None, offset |-> NoOffset]
    ELSE [function |-> None, module |-> Lower[frame.module], offset |-> frame.offset]

Traced(r) == Message(r) # <<>>

\* The version of a program that crashes; one of no package has none.
VersionOf(f) == IF f \in Local THEN NoVersion ELSE content[f]

\* The bug behind a crash, as far as anyone can tell: for a crash with a trace
\* the top frames below the machinery, without one the version that crashed.
Bug(r) ==
    [executable |-> r.executable, signal |-> r.signal, traced |-> Traced(r),
     frames |-> IF Traced(r) THEN [i \in DOMAIN TopOf(r) |-> Identity(TopOf(r)[i])] ELSE <<>>,
     version |-> IF Traced(r) THEN NoVersion ELSE VersionOf(r.executable)]

\* A function of the program, or a module whose code has no names, that is called
\* like one of the machinery's.
LooksLikeNoise(r) ==
    \E i \in DOMAIN r.stack :
        LET frame == r.stack[i]
        IN  /\ frame.function \notin Machinery
            /\ \/ Lower[frame.function] \in NoisePrefixed
               \/ frame.function = None /\ Lower[ModuleOf(LocationOf(r, frame))] \in NoisePrefixed

\* Code without a name in a module with a plus sign in its path.
PlusSign(r) ==
    \E i \in DOMAIN TopOf(r) : TopOf(r)[i].function = None /\ PlusInPath(LocationOf(r, TopOf(r)[i]))

\* A program of a package, of which the index does not know what dpkg has, or
\* that is not what dpkg has.
Unsure(r) == r.executable \in Package /\ (Outdated \/ content[r.executable] = Edited)

-----------------------------------------------------------------------------
(* Stage 1 *)

\* Stage1Collector::signature.
Signature(r) ==
    LET frames == parse_journal_stack_trace(Message(r))
    IN  IF frames = <<>> THEN coarse(r.executable, r.signal, Says(r.executable))
        ELSE from_frames(frames, r.signal, r.executable)

\* core_status: a stat, unless the budget of 50 ms is spent.
core_status(there, spent) == there /\ ~spent

\* A crash, of a program that is there, and collect_within: the event is made and
\* sent.
Collect(r) ==
    /\ pc = "watch" /\ handled < MaxCrashes
    /\ r.executable \in Local \cup {p \in Package : content[p] # NotThere}
    /\ pc' = "assemble" /\ handled' = handled + 1
    /\ crash' = r /\ quiet' = (dpkg = Idle)
    /\ core' \in (IF r.saved THEN {"there", "gone"} ELSE {"none"})
    /\ \E spent \in BOOLEAN :
         event' = [signature |-> Signature(r), late |-> spent,
                   core_available |-> core_status(core' = "there", spent)]
    /\ filed' = filed \cup {[bug |-> Bug(r), signature |-> Signature(r),
                             noise |-> LooksLikeNoise(r), plus |-> PlusSign(r), unsure |-> Unsure(r)]}
    /\ UNCHANGED <<disk, dpkg, index, stage2>>

\* The core is removed by systemd-tmpfiles or to make room for another.
Vacuum ==
    /\ core = "there" /\ pc \in {"assemble", "asked", "drop", "verify", "hash"}
    /\ core' = "gone"
    /\ UNCHANGED <<disk, dpkg, pc, index, quiet, stage1, stage2, filing>>

-----------------------------------------------------------------------------
(* Stage 2 *)

Sections == <<"proc-maps", "proc-status">>
SizeOf(r, section) == Field(IF section = "proc-maps" THEN r.maps_size ELSE r.status_size)

\* Budget::charge, section after section: what it allows with so many bytes left
\* and the clock run out from a section on.
Charged(r, expired) ==
    LET used[i \in 0..2] ==
            IF i = 0 THEN 0
            ELSE LET n == SizeOf(r, Sections[i])
                 IN  IF i < expired /\ used[i - 1] + n <= ByteBudget THEN used[i - 1] + n ELSE used[i - 1]
    IN  {Sections[i] : i \in {k \in 1..2 : k < expired /\ used[k - 1] + SizeOf(r, Sections[k]) <= ByteBudget}}

\* Bug variant: what the budget does not allow is left out without a word.
AssembleSilently ==
    /\ pc = "assemble" /\ pc' = "asked"
    /\ \E expired \in 1..3 :
         /\ late' = (expired < 3)
         /\ report' = [attachments |-> Charged(crash, expired), skipped |-> {},
                       arguments |-> scrub_cmdline_block(crash.args),
                       environment |-> Kept(crash.environ), withheld |-> Withheld(crash.environ),
                       modified |-> {}]
    /\ UNCHANGED <<disk, dpkg, index, quiet, stage1, core, todo, checking, looked, filing>>

\* collect_without_verification: what the record has, and the core if it is
\* still there.
Assemble ==
    /\ pc = "assemble" /\ pc' = "asked"
    /\ \E expired \in 1..3 :
         LET offered == {n \in {"proc-maps", "proc-status"} : SizeOf(crash, n) > 0}
             allowed == offered \cap Charged(crash, expired)
         IN  /\ late' = (expired < 3)
             /\ report' =
                  [attachments |-> allowed \cup (IF core = "there" THEN {"core-dump"} ELSE {}),
                   skipped |-> (offered \ allowed) \cup (IF core = "gone" THEN {"core-dump"} ELSE {}),
                   arguments |-> scrub_cmdline_block(crash.args),
                   environment |-> Kept(crash.environ), withheld |-> Withheld(crash.environ),
                   modified |-> {}]
    /\ UNCHANGED <<disk, dpkg, index, quiet, stage1, core, todo, checking, looked, filing>>

\* The server does not want the payload: what was collected is dropped,
Refused ==
    /\ pc = "asked" /\ pc' = "drop"
    /\ UNCHANGED <<disk, dpkg, index, quiet, stage1, core, stage2, filing>>

Forget ==
    /\ crash' = NoCrash /\ event' = NoEvent
    /\ late' = FALSE /\ report' = NoReport /\ todo' = {} /\ checking' = Nothing /\ looked' = {}
    /\ UNCHANGED <<disk, dpkg, index, quiet, filing>>

\* drop_core: and the core with it.
DropCore ==
    /\ pc = "drop" /\ pc' = "watch"
    /\ core' = IF DeleteDeclined /\ core = "there" THEN "deleted" ELSE core
    /\ Forget

\* The server wants it, or does not answer in time: verify_into, if the budget,
\* which ran on while the server was asked, is not out of time.
Wanted ==
    /\ pc = "asked" /\ pc' = "verify"
    /\ late' \in {late, TRUE}
    /\ todo' = IF late' THEN {} ELSE {f \in candidates(crash) : Owned(f)}
    /\ report' = IF late' THEN [report EXCEPT !.skipped = @ \cup {"package-verification"}] ELSE report
    /\ UNCHANGED <<disk, dpkg, index, quiet, stage1, core, checking, looked, filing>>

\* verify: the checksums of the package that owns the file.
ReadSums(f) ==
    /\ pc = "verify" /\ f \in todo
    /\ pc' = "hash" /\ todo' = todo \ {f}
    /\ checking' = [file |-> f, sums |-> md5sums[f]]
    /\ UNCHANGED <<disk, dpkg, index, quiet, stage1, core, late, report, looked, filing>>

\* Bug variant: a file without a checksum is held to be modified.
DiffersUntracked(file, sum) == file # sum

\* Whether the file is reported: it differs from a checksum there is.
Differs(file, sum) == sum # NotThere /\ file # sum

\* verify: the file is hashed and compared, if it is there.
Hash ==
    /\ pc = "hash" /\ pc' = "verify"
    /\ LET f == checking.file IN
         /\ looked' = looked \cup {f}
         /\ report' = IF content[f] # NotThere /\ Differs(content[f], checking.sums)
                      THEN [report EXCEPT !.modified = @ \cup
                               {[file |-> f, sums |-> checking.sums, edited |-> content[f] = Edited, quiet |-> quiet]}]
                      ELSE report
    /\ checking' = Nothing
    /\ UNCHANGED <<disk, dpkg, index, quiet, stage1, core, late, todo, filing>>

\* The report is ready to be written.
Finished == pc = "verify" /\ todo = {}

Write == Finished /\ pc' = "watch" /\ core' = core /\ Forget

\* Bug variant: what was being handled is not forgotten.
StopKeepsCrash ==
    /\ pc # "down" /\ pc' = "down"
    /\ UNCHANGED <<disk, dpkg, index, quiet, stage1, core, stage2, filing>>

\* The daemon ends; what it has read is read again.
Stop == pc # "down" /\ pc' = "down" /\ core' = core /\ Forget

Next ==
    \/ (Dpkg \/ ReadIndex) /\ UNCHANGED <<stage1, core, stage2, filing>>
    \/ \E r \in Records : Collect(r)
    \/ \E f \in Package : ReadSums(f)
    \/ Vacuum \/ Assemble \/ Refused \/ DropCore \/ Wanted \/ Hash \/ Write \/ Stop

Spec == Init /\ [][Next]_vars
-----------------------------------------------------------------------------
Collectors == {"core-dump", "proc-maps", "proc-status", "package-verification"}

\* Type invariant.
TypeOK ==
    /\ IndexTypeOK
    /\ pc \in {"down", "lists", "mtime", "status", "watch", "assemble", "asked", "drop", "verify", "hash"}
    /\ crash \in Records \cup {NoCrash} /\ core \in {"none", "there", "gone", "deleted"}
    /\ (crash = NoCrash) = (pc \in {"down", "lists", "mtime", "status", "watch"})
    /\ crash # NoCrash => event.core_available \in BOOLEAN /\ event.late \in BOOLEAN
    /\ pc \in {"asked", "drop", "verify", "hash"} =>
         /\ report.attachments \subseteq Collectors /\ report.skipped \subseteq Collectors
         /\ report.arguments \in [DOMAIN Words(crash.args) -> {"shown", "name", "hidden"}]
         /\ report.environment \subseteq crash.environ /\ report.withheld \in Nat
    /\ late \in BOOLEAN /\ todo \subseteq Package /\ looked \subseteq Package
    /\ (pc = "hash") = (checking.file \in Package)
    /\ handled \in 0..MaxCrashes /\ Cardinality(filed) <= handled

\* Crashes are grouped by their bug: two crashes have one signature if the
\* program, the signal and the top frames below the reporting machinery are the
\* same, whatever the load address, the other threads and the frames further down,
\* and the directories; without a trace, if the version is the same too
\* (Signature::from_frames, coarse: "a signature that ignored the version would
\* merge a bug with its own fix").  It is otherwise where the rules blur bugs: a
\* program's function, or a module without names, that is called like one of the
\* machinery's functions is passed over; of a module with a plus sign in its path,
\* the directory's or its own, the offset is lost, and for the directory's the
\* module too.  And the version is that of an index nothing asks is_stale, even
\* for a program that has been edited.
GroupedByBug ==
    \A x, y \in filed :
        \/ (x.bug = y.bug) = (x.signature = y.signature)
        \/ x.noise \/ y.noise \/ x.plus \/ y.plus
        \/ ~x.bug.traced /\ (x.unsure \/ y.unsure)

\* "A missing field must be distinguishable from a field that was collected and
\* found empty": what the finished report lacks it lists as skipped, except for
\* fields journalctl did not print and mapped files beyond the cap, of which the
\* executable is never one.  And a core that is deleted as refused was offered,
\* unless stage 1 had no time to look for it (collect_without_verification,
\* verify_into, core_status, drop_core).
GapsExplained ==
    /\ pc = "drop" /\ core = "there" => event.core_available \/ event.late
    /\ Finished =>
         /\ crash.saved => "core-dump" \in report.attachments \cup report.skipped
         /\ \A n \in {"proc-maps", "proc-status"} :
              SizeOf(crash, n) > 0 => n \in report.attachments \cup report.skipped
         /\ report.attachments \cap report.skipped = {}
         /\ \/ "package-verification" \in report.skipped
            \/ /\ Owned(crash.executable) => crash.executable \in looked
               /\ Cardinality(libraries(crash)) < MAX_VERIFIED_FILES =>
                    \A i \in libraries(crash) : Owned(crash.maps[i]) => crash.maps[i] \in looked

\* A word is hidden if the words just before it that ask for it, each a flag that
\* may be a secret's, are odd in number: the first of them is shown and hides the
\* second, which then asks for nothing.
HiddenByFlags(words, i) ==
    \E p \in 0..(i - 1) :
        /\ p = 0 \/ ~Asks(words[p])
        /\ \A j \in (p + 1)..(i - 1) : Asks(words[j])
        /\ (i - 1 - p) % 2 = 1

\* Of the command line exactly two things are hidden: the words behind flags, as
\* above, and what follows the equals sign in a word that assigns a secret; the
\* rest is shown.  As the block is split at spaces too, of a secret value that has
\* one only what is before it is hidden ("handles the two shapes that actually
\* leak" is true of values without a space).  Of the environment only what the
\* allowlist names is left, and the rest is counted (scrub_cmdline_block,
\* scrub_command_line, filter_environ_block, filter_environment).
RedactionHolds ==
    pc \in {"asked", "drop", "verify", "hash"} =>
        LET words == Words(crash.args)
            out == report.arguments
        IN  /\ \A i \in DOMAIN words :
                 out[i] = IF HiddenByFlags(words, i) THEN "hidden"
                          ELSE IF SecretAssignment(words[i]) THEN "name" ELSE "shown"
            /\ \A e \in report.environment : e.allowed /\ ~e.secret_name
            /\ Cardinality(report.environment) + report.withheld = Cardinality(Variables(crash.environ))

\* A file is reported as modified only if dpkg has a checksum for it, and it has
\* been changed, or dpkg was at work while it was looked at ("reporting it as
\* such would slander every locally built library").
ModifiedIsReal ==
    pc \in {"verify", "hash"} =>
        \A m \in report.modified : m.sums # NotThere /\ (m.edited \/ ~m.quiet)

-----------------------------------------------------------------------------
\* "Frames are always normalized to module-relative offsets": two crashes at
\* different offsets have different signatures.
OffsetsTellApart ==
    \A x, y \in filed :
        x.signature = y.signature =>
            \/ x.bug = y.bug \/ x.noise \/ y.noise
            \/ ~x.bug.traced /\ (x.unsure \/ y.unsure)
=============================================================================
