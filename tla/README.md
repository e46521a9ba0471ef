# A specification of blankres

blankres reports crashes. A daemon on every machine watches the journal for core
dumps and kernel oopses, sends a small *event* for each to an ingest server, and
learns whether the server wants the *payload* (the core and the texts that go with
it). If it does, a report is put before the user; only the user sends it. An apt
hook reports packages that failed to install.

This directory models the parts of blankres that keep state, checks them with TLC
on small instances, and proves every safety property that is checked of them with TLAPS:
for the ingest server and the parts of an upload, the crash daemon and what it collects of a
crash, the state file, the kernel log watch, the review directory and the apt hook.
Source paths below are relative to the repository's `crates/`.

## The system

| part | state it keeps | operations | talks to |
|---|---|---|---|
| ingest server (`blankres-server`: routes, db, migrations) | Postgres tables `signatures`, `events`, `upload_tokens`, `reports`; row locks | `POST /v1/events`, `POST /v1/reports`, two read-only `GET`s; an operator sets `suppressed` | daemon, hook, front ends |
| payload parts and blob store (`routes.rs`, `storage.rs`) | `incoming/`, content-addressed `blobs/`, sidecar files | receive a part, finish, abort, write the sidecar | database |
| crash daemon (`blankres-daemon`: main, reporter, spool, state) | `state.json` (cursors, charges, salt), the spool, in memory the same state | take an entry, ask the server, drop the core, spool, write the report, save | journal, server, review directory |
| kernel log watch (`oops.rs`, `main.rs`) | a builder of lines, the kernel's cursor | coalesce, flush | journal, server |
| review directory and front ends (`blankres-session`, `-gtk`, `-cli`) | report files, cores, `declined.json` | list, send, discard, ignore, close the window | daemon (through the files), server |
| apt hook (`blankres-hooks`) | `apt-hook.json`, and the daemon's `state.json` | read `dpkg.log`, send, remember the newest timestamp | dpkg, server |
| package index (`blankres-collect/pkg.rs`, `stage1.rs`, `stage2.rs`) | file lists and versions, read once | owner of a file, verify files | dpkg |
| collection (`blankres-collect`: record, stage1, stage2, budget; `blankres-report`: signature, redact) | the budgets of one crash, the report being made | event from the journal record (50 ms), report while the server is asked, verification of mapped files | journal, package index, daemon |
| configuration, translations, dashboard, layout, packaging | none that changes | | |

What makes it hard:

* **Concurrency.** Requests at the server interleave in the database; the daemon,
  the hook and any number of front ends share files without a lock; dpkg works on
  while it is being read and while files are verified; the buttons of a window stay live
  during an upload.
* **Crashes and restarts.** SIGTERM is not handled, so each stop of the daemon that
  is not ctrl-c is a kill, and each file is written in several steps.
* **Unreliable delivery.** A request is given up at a deadline although the server
  may have done it; the event is then spooled and sent again.
* **Limits.** The quota of payloads, the rate limit, the spool's cap, the maximum
  size of an upload, the window of an oops, timestamps of whole seconds, the byte and time
  budgets of a report, the cap on verified files, the largest field journalctl prints.

`PROJECT.json` lists the hazards one by one with the line where each bites and the
properties that would notice.

## Modules

| module | models | composed with |
|---|---|---|
| `PayloadLifecycle` | abstract: what the server promises for one event (absent, refused, wanted, offered, lapsed, redeemed, stored), and what closes a signature | implemented by `IngestServer` |
| `IngestServer` | `post_events`, `post_report`, `record_event`, `issue`, `redeem`, `record_report`: each await on the database is a step; a `FOR UPDATE`-like row lock taken by the upsert; requests that fail or are dropped anywhere | |
| `PayloadUpload` | one multipart upload part by part and chunk by chunk, both ends' size limits, `BlobWriter`, the report row, the sidecar, the client's removal of its core | refines the one step of `IngestServer` that stores a payload |
| `CrashLifecycle` | abstract: what a machine promises for each crash (absent, waiting, skipped, suppressed, refused, shown, failed; closed or not), its event, its core and its report | implemented by `CrashDaemon` |
| `CrashDaemon` | the daemon from journal entry to saved cursor, with the spool, the report files, the cores, and a decision's file operations on any report a front end has ever listed | |
| `OopsWatch` | the other branch of the daemon's `select!`: builder, window, cursors | shares the saved cursor with `CrashDaemon` (`SaveState`) |
| `ConsentSession` | the review directory at the granularity of file operations, several front ends, uploads on threads | the front ends behind `CrashDaemon`'s `RemoveCore`, `RemoveReport` and `DeclineForever` |
| `HostState` | `state.json` and its one temporary file, written by daemon and hook | the steps behind `CrashDaemon`'s `SaveState` |
| `DpkgHook` | the hook against a growing `dpkg.log` | |
| `PackageIndex` | dpkg step by step, and what the daemon read of it, and when | extended by `Collection` |
| `SignatureRules` | parsing of a stack trace, normalised frames, noise, both kinds of signature, as operators | used by `Collection` |
| `Redaction` | scrubbing of command lines, filtering of environments, as operators | used by `Collection` |
| `Collection` | one crash at a time from its journal record to event and finished report: stage 1, stage 2 with its budgets, verification, the refusal that deletes the core | what `CrashDaemon` does between taking an entry and saving, seen from the data |
| `MC*` | symmetry sets, constant functions and the crashes that may happen, for TLC | |
| `*Proofs` | theorems of the module they are named after | |

How state corresponds to code: variables have the names of tables, files or fields
where there is one (`upload_tokens`, `declined`, `built`). What the code does not
keep is marked *history* in the declaration; no action reads it. `pc`, `step` or
`stage` is the place in a function between two awaits or two file operations, and an
action is what happens up to the next one. `map` in `PROJECT.json` gives the lines of
every definition. Definitions under *Bug variant* are faulty forms of the definition
they stand before; no specification uses them, they are there to show that each
property can be violated by a mistake in the code.

### Abstractions

* Signatures, packages and ids are model values; a spool key is (second, signature)
  because its file name sorts that way; a digest is its content.
* Whether the server wants a payload is decided in `IngestServer`; in `CrashDaemon` and
  `ConsentSession` it may say anything it could say.
* An offer, a token or a charge may expire at any time it could be looked at.
* A crash in `CrashDaemon` is its place in the journal. The server's copies of an event are
  counted up to two, and *unsure* remembers the requests that ended without an answer.
* `CrashDaemon` does not tell front ends apart. A report that was ever in the directory is `listed`,
  and from then on may be decided on: `RemoveCore` removes the core named in the listed report,
  `RemoveReport` the file of its name, whatever that holds by then. They are two steps, of which the
  second may never come. Which buttons are live when, and `Declined::save` step by step, is in
  `ConsentSession`. There every report has a core, and the removal of cores by
  systemd-tmpfiles is in neither. The daemon's look at the declined list and its write of the report
  are one step there and two in `CrashDaemon`.
* The server of `PayloadUpload` can be killed at any step, the machine under it not: what
  a file system keeps of a rename that was not synced is not modelled.
* `HostState` has the coredump cursor and the salt of the state file; `OopsWatch` has the
  kernel's cursor.
* In `OopsWatch` a flush is one step that counts as reported, whether `flush_oops` reaches the server
  or only the spool, or fails at both; and no one has declined an oops.
* A batch of the hook in `DpkgHook` is the set of the places of its lines in the log, in their order.
* A package in `PackageIndex` has one file.
* In `Collection` a line of a trace is what is printed in it, a name is a value with the
  attributes the rules look at (lower case, begins like noise, what stands before its first
  plus sign; none begins with one), a directory one with what is left of a location that is cut at a
  plus sign of its own, and the hash is the tuple that is hashed. An argument is a sequence of words,
  divided where it has spaces, and `Words` puts those of all arguments in a row, as the code does; a
  word, like a variable, is what the rules look at. Of a module without a name systemd prints
  `n/a`. Files of no package are `Local`: they may crash and be mapped, and
  nothing verifies them. The mapped libraries are the places in the list of mapped files. The
  limit on fields (`FieldLimit`) is journalctl's: `journal.rs` runs it without `--all`, and it
  then prints a field of more than 4096 bytes as null, which `decode_field` turns into none.
  That is external to this repository.

## Runs

Passing runs. *Bounds* says what the instance holds and why that is enough.

* **`ingest`** — `TypeOK`; the counters equal the rows (`CountersMatchRows`); a report only for
  a redeemed token, one per event; a signature that is suppressed or full gets no new
  promise (`ClosedPromisesNothingNew`); the handlers implement `PayloadLifecycle`
  (`Lifecycle`); every request ends (`RequestsEnd`). *Bounds:* three requests (one holds a
  lock, one waits, one comes in between), two events (two tokens outstanding for the one
  free slot), quota 1, batches of two. Safety is proved for all sizes.
* **`daemon`** — with failing writes, a kill anywhere, and front ends that act on lists of any age and
  may be killed half way: the daemon implements `CrashLifecycle`
  (`EachCrashFollowsLifecycle`), so a crash is dealt with apart from the others, except that its report
  replaces one of its signature; it may be dealt with again, and then otherwise, only until the
  saved cursor is past it; its event is sent again only when a request may have been lost; its
  core goes only when the server refused it after counting it, or by the user's decision. The spool keeps
  its cap, no event is lost (`NothingLost`) and none is
  counted twice without an unanswered or forgotten request (`CountedOnce`), the count an event
  carries covers the journal (`NoUndercount`), a crash that was to be shown stays, itself or as a later
  one of its signature, until a report of that signature is decided on (`ShownUntilDecided`), a
  report that offers a core has it unless its own crash was decided on or is in doubt
  (`LostOnlyInDoubt`), a restart
  resumes where the daemon stopped, and every entry is dealt with (`EveryCrashIsHandled`).
  *Bounds:* two crashes of one program, of one signature or of two, in one second: two events then have
  one name, or names in the order of the crashes or against it. Limit 1: the second crash is suppressed, or
  reported when the first charge has expired; a spool of one file, so that
  a second event pushes the first out; two starts, so that a crash can be handled once more after
  a kill. The proofs hold for any number.
* **`consent`** — only what was seen and consented to is uploaded; a core goes only with a
  decision on its own report; `declined.json` keeps what was confirmed unless two front ends
  save it at once. Any step of a save may fail, and the buttons of an entry go grey only when its
  upload, the removal of core and report included, has returned. *Bounds:* two front ends and two reports of one signature, of which the
  second replaces the first; more signatures multiply the states and share only
  `declined.json`.
* **`upload`** — rows name complete parts that are in the store and within the limit; a core gone
  from the client is there; temporary files are owned; a rejection as too large is explained by
  metadata. *Bounds:* two uploads of one crash or
  of two, every size up to the limit and one beyond, chunks of any size.
* **`state`** — in every interleaving no cursor runs ahead of what was handled; as long as daemon
  and hook do not overlap the file is whole, the cursor moves only forward and there is one
  identity. *Bounds:* three crashes, three salts.
* **`hook`** — failures older than the timestamp were reported, or repeat one that was;
  answered lines are not sent again. *Bounds:* four lines in three seconds of two packages.
* **`oops`** — one report per burst, with all its lines, and every marker behind the saved
  cursor is in a report, in the builder or lost to a known cause. *Bounds:* five lines over
  four seconds with window 1, so that a burst can end and another begin; three starts.
* **`collect`** — crashes with one signature have one bug and the other way round
  (`GroupedByBug`); what a report lacks is listed, a deleted core was offered
  (`GapsExplained`); of a command line exactly the words are hidden that stand behind an odd number of
  secret flags, and the values of secret assignments, up to their first space (`RedactionHolds`); no
  untouched file is reported as modified while dpkg rests (`ModifiedIsReal`). *Bounds:* forty-nine
  crashes that differ from a plain one in one respect at a time: their trace (eleven stacks, eight
  of them also at another address, in another directory and with another thread, and two in a
  directory with a plus sign), signal, program (packaged, edited or local),
  sizes of fields on either side of `FieldLimit` and `ByteBudget`, mapped files within the cap and
  beyond it, all command lines of three flags and words, and five with assignments, values with a
  space in them and empty arguments,
  two environments; two packages, one of them without checksums, one with two versions; one
  start. Four constraints cut what repeats. The second crash is there to be compared with the first:
  `SecondIsCompared` stops a behaviour after the second event and gives it a trace only, since
  nothing of the first crash's report is left then (`Forget`). It comes while dpkg rests
  (`ComparedAtRest`), and to a first crash that is a trace too: while dpkg works the index counts as
  outdated, and with a trace the state of dpkg has no part in the signature. What is installed besides
  the program has no part in it either (`OneProgram`). Budgets and verification look only at the sizes of fields and at
  what is mapped, so the crashes that differ in something else are refused (`OthersAreRefused`).

Violations. Each run has one property that quotes the repository, and TLC shows the
code does otherwise.

* **`daemon_replay`** (`PendingKeepsItsCore`) — a crash handled again after a kill may be refused
  the second time; its core is deleted under the report that waits for the user.
* **`consent_unseen`** (`UnseenIsNeverDiscarded`) — closing a window lists the directory again
  and discards what nobody has seen; a button removes whatever has the report's name.
* **`hook_alarm`** (`NoFalseAlarm`) — a package that went through `half-configured` on its way to
  `installed` is reported as failed.
* **`collect_offset`** (`OffsetsTellApart`) — a frame's location is cut at its first plus sign, so
  in `libstdc++.so.6`, or in anything under `/opt/c++`, the offset is lost, and crashes without
  symbols at different places of it get one signature.

Other places where words say more than the code does. The passing properties state
exactly how far the code goes:

* `db.rs:65-67` and `0001_init.sql:12`: tokens handed out before a quota was reached or a
  signature was suppressed are honoured, so either can be overshot. `ClosedPromisesNothingNew`.
* `client/src/lib.rs:142`: the client's check of the size leaves out the metadata, which the
  server counts. `RejectionsExplained`.
* `state.rs:52`, `hooks/src/main.rs:81-82`: one temporary name and no lock, so a state can be
  torn, a cursor moved back and a second salt drawn when both programs run.
  `StateIsWhole`, `CursorNeverBack`, `OneIdentity`.
* `session/src/lib.rs:24`: of two lists saved at once one is lost. `IgnoredStaysIgnored`.
* `session/src/lib.rs:249`: a report discarded while it is being sent is stored nevertheless.
* `reporter.rs:97`: a crash past the check when its signature is declined is still shown.
* `store.rs:161`: the core of a report that another has replaced stays on the disk, and so does that
  of a crash the server refused when the daemon is killed before `drop_core` and the crash is
  passed over the second time, as declined or over the limit. No property says otherwise.
* `store.rs:154`: a report is removed by name, so a decision on an old list removes a later report of
  the signature, undecided. `ShownUntilDecided` counts the decision for both. And a front end killed
  between `remove_core` and `remove` leaves a report that offers a core which is gone; the crash
  was decided on, and `LostOnlyInDoubt` says that to an undecided one this happens only in doubt.
* `spool.rs:3`: the spool is drained at the start of the daemon only.
* `main.rs:25`: `--once` takes one entry, which is `Shutdown` after the first here.
* `hooks/src/lib.rs:131-132`, man page: neighbours only are compared, and the time kept is that
  of the first. `AnsweredIsNotRepeated`.
* `oops.rs`, `main.rs:142`: no timer closes a builder. `journal.rs:92-94`: a daemon without a
  saved cursor starts at the present, also when it is not its first start. `NoOopsLost`.
* `pkg.rs:87`: nothing asks `is_stale`, and the time it compares with is read after the lists.
  `GroupedByBug` holds of coarse signatures only while the index is not outdated, and of programs
  that have not been edited: such a one counts as the version that is installed.
* `signature.rs:223`: the plus sign may be the directory's. Then the module is named after a
  directory, and different libraries are one. `GroupedByBug` excepts both.
* `reporter.rs:193`: an event the server recorded after the deadline is sent again and counted
  again; the server has no key to tell copies by. `CountedOnce`.
* `signature.rs:184`: a program's own function whose name begins like one of the reporting
  machinery's (`abort_job`) is passed over, and so is the code without symbols of a module that is
  called like one. `GroupedByBug`.
* `redact.rs`: a comment says a value that looks like a credential is dropped; only names
  are looked at. A flag that is itself a secret's value (`--output=...session...`) hides the argument
  behind it. `redact.rs:129`: the command line is split at spaces too, so of a secret value with
  a space in it (`--token='abc def'`) the rest is shown. `XDG_SESSION_TYPE` is on the allowlist and contains a marker, so it is always
  withheld. `RedactionHolds` states what the code does.
* `stage2.rs:160`, `report.rs:58`: files beyond the cap of 64 are not verified and nothing lists
  them as skipped; with `PROC_MAPS` over the limit only the executable is verified.
  `GapsExplained`.
* `record.rs`: the test for `(deleted)` looks at the sixth token, which never ends so.
* `oops.rs:106`: the executable of an oops is `kernel:<version>`, so the same bug in two kernel
  builds is two groups.

Runs say `CHECK_DEADLOCK FALSE` where the bounds let the system come to rest: ids,
crashes, starts or versions are used up, or every request is answered. `hook` needs no
such line.

### Fairness

* `IngestServer`: strong fairness of each task's step. The runtime polls every task, the
  database answers or the connection fails, and Postgres queues the waiters of a row lock, so
  a task that can take the lock again and again gets it. Requests need not arrive.
* `CrashDaemon`: weak fairness of the daemon's own actions. systemd starts it, the runtime runs
  it, and a request ends by an answer or by its deadline. Nothing is assumed of the server,
  the user or the kernel, and kills are bounded by the number of starts. After a clean exit
  (`Shutdown`) `Restart=on-failure` does not bring the daemon back: that `Start` comes in the end rests
  on the next boot.
* No other module has a liveness property. `OopsWatch` and the spool were candidates; there the
  code promises none (see above).

## Proofs

`IngestServerProofs` proves for every finite or infinite set of signatures, events,
reports and tasks, and every quota: `TypeOK`, `CountersMatchRows`, `EveryReportWasAskedFor`,
`OneUploadPerToken`, that `IngestServer` implements `PayloadLifecycle`,
`ClosedPromisesNothingNew`, and the safety half of `RequestsEnd`: row locks cannot deadlock, since
a task that keeps others waiting holds one row only and waits for none
(`LocksAreNeverNested`; no run checks it apart from `RequestsEnd`).

*Assumptions:* those of `IngestServer` on its constants, no others.

*The argument.* None of these is inductive: that the counters equal the numbers of rows
says nothing of a transaction that has raised a counter and not yet inserted its row, or
of an image read before another request committed. The inductive invariant adds that the
row image in a task equals the row (nobody else can write while it holds the lock),
that only tasks inside a transaction hold a lock and each lock has one holder, what a task
between two statements has already done, and that a redeemed token has at most one task
uploading for it or a stored report. Each action has a step, and under it one for each
conjunct it can disturb; cardinalities of sets of rows change by one through a lemma on
adding an element. Refinement and the action property follow from the invariant action
by action.

`HostStateProofs` proves for every number of crashes and salts all five properties of
`HostState`: `TypeOK`, `CursorNeverAhead`, `StateIsWhole`, `OneIdentity` and
`CursorNeverBack`. *Assumptions:* the two programs are different, the bounds are
naturals. *The argument.* `CursorNeverAhead` needs the same of the temporary file, which a
rename publishes, and `TypeOK` needs that every salt in use was drawn. The other three
hold while the programs have never run at once; then the one that runs owns the
temporary file: it is empty before the write, equal to memory before the rename, and
the state file, once there, agrees with memory in its salt and is never ahead of it
(`OneAtATime`).

`OopsWatchProofs` proves all three properties of `OopsWatch` for any number of lines, any
window and any number of starts. *Assumptions:* those on its bounds. *The argument.* The
invariant adds that the journal is in order of time, that the builder is an unbroken run of lines
which starts with a marker, fits the window and ends at the last line delivered or in a line
after the window, and that every report of this life of the daemon ends before the builder
begins and outside its window; every marker up to the cursor *in memory*, not only
up to the saved one, is accounted for.

`ConsentSessionProofs` proves all four properties of `ConsentSession` for any front ends,
signatures and number of reports. *Assumptions:* those on its bounds. *The argument.*
`SentAsConsented` needs that a job which asks or uploads carries an entry its user has seen and
agreed to send, whatever the file of that name holds by now, and `CoreGoneMeansDecided` that a job
which removes a core carries one that was settled. `IgnoredStaysIgnored` is about runs in which
no two front ends were in `decline_forever` at once: then one at most has a list of its own, which
has all that `declined.json` has, the open file is its temporary one, and the
temporary file is that list before the rename (`Alone`).

It also proves what remains of the claim that `consent_unseen` refutes. A crash keeps its report, or
that of a later crash of its signature, until the user has decided on a report of that signature
(`ReportsWait`), and what takes a report away is a decision on it or on an earlier one of its signature
(`ReportsGoByDecision`): a race of window and daemon costs a newer report of the *same*
problem, never that of another. The second invariant they need (`DirInv`) says that every file is
the last report written of its signature, and that entries of lists and jobs have the name they carry.

`CrashDaemonProofs` proves all safety properties of `CrashDaemon` for any signatures and
programs, any rate limit, spool cap, number of crashes and number of kills. *Assumptions:* those on
its constants. *The argument.* The invariant says
 * where the cursors are: the saved one is never ahead of the one in memory, nor that one of the
   entry delivered last, and the daemon at work is past both (`Positions`);
 * what each place knows: a batch that is removed was received, a crash whose core is dropped was
   received, a crash that is spooled is `unsure`, and after the spool its event is kept or
   forfeited (`Stages`);
 * what a crash that will not be handled again has got (`FatesKnown`, `ShownStays`, over `Settled`).
   `NothingLost` speaks of the saved cursor only, but has to hold at every save, so it is stated for
   what the daemon has done; and as long as nothing is saved every crash is past (a
   daemon without a cursor starts at the end of the journal), so that also
   crashes without a cursor must have been seen once at most (`FirstTime`);
 * that what the server has and the daemon may send again is `unsure` (`SentOnce`); a kill makes
   every crash between the saved cursor and the last entry so;
 * that the counts in memory cover what was reported up to the last entry, and those on the disk what
   was reported up to the saved cursor (`CountsCover`). A kill goes back to both at once, and
   that is why counts and cursor have to be saved together.

The invariant also gives `UnsentCrashKeepsItsCore`: a core that is gone belongs to a crash the server
has counted or the user decided on. No run checks it, because the lifecycle says as much.

Last it proves that `CrashDaemon` implements `CrashLifecycle` (`DaemonImplementsLifecycle`). A crash
is closed there once the saved cursor is past it; spool, journal position, counts and the state in
memory have no image. Most steps need the invariant to be steps of the lifecycle: an event
that is sent is new or in doubt because of `SentOnce`, and all that the spool holds is in doubt because
of `Stages`; a refused crash was counted and a shown one asked about, again by `Stages`; what a
saved cursor newly passes is not waiting because of `FatesKnown`; when the journal is opened after a
restart nothing waits before the cursor for the same reason; what a front end has listed is a report
that was shown, and a removal by name takes the one report of its signature, since a file holds the
report of a crash with the signature it is named after. `ChargeExpires`, `RemoveSpooled`,
`DeclineForever` and the steps of `Spool::push` are stutters.

Two more things are proved. Once the saved cursor is past a crash it is final
(`WhatIsPastIsFinal`, which no run checks): what became of it stays, only a request in doubt is sent again, and its core goes by
the user's decision alone. And what remains of the claim that `daemon_replay` refutes: a report that offers
a core has it unless its own crash was decided on or is in doubt (`CoreLostOnlyInDoubt`), and while the
first daemon of a machine is the only one that was started a decision is the only way
(`FirstDaemonKeepsCores`). Their own invariant
(`ReportInv`) says that a crash which has a report, and is not in doubt, is behind the cursor in memory
or just being saved, so that the daemon cannot be about to drop its core.

`PayloadUploadProofs` proves all four properties of `PayloadUpload` for any number of uploads and
crashes, any sizes of core and text, any limits and any chunking. *Assumptions:* those on its bounds.
*The argument.* A step is one upload's and leaves the others' files, counts and blobs alone. Of each
upload the invariant says that what was counted is the parts it has finished and the bytes that have
come of the present one; that the open file holds exactly those bytes, of that part of that
crash; and that the blobs noted for the row are the parts finished, complete and in the store. Blobs
are never removed, so what the row names stays. That a core is gone is known to the client only by an
answer, which is sent after the row is committed.

`DpkgHookProofs` proves `TypeOK`, `OlderIsReported` and `AnsweredIsNotRepeated` for any packages and
any length of the log. *Assumptions:* those on its bounds. *The argument.* The log is in order of time
(`Sorted`). `OlderIsReported` is about the timestamp alone, but the timestamp is set from a batch that
was chosen before the log grew and sent before it was saved. So the invariant says what the
timestamp stands for (`Remembered`), and what the batch in hand will make it stand for once it is
saved (`InHand`): every failure up to its newest line is dealt with already, or by the batch. That
a failure is represented by the first of its repetitions is an induction along the log, done by
taking the least line that is not.

`CollectionProofs` proves all five properties of `Collection` for any packages and versions, any crashes,
any names and any budgets. *Assumptions:* of the crashes that their fields have the types the parsers
give them; of the names that `n/a` and the empty name are left alone by lower-casing and cutting, that
none begins with a plus sign, and that the reporting machinery's functions have names which begin like
noise; of the directories that no directory at all has no plus sign; naturals as bounds.
*The argument.*
 * `ModifiedIsReal`: the checksums on the disk are the file's unless it was edited or is being
   unpacked (`Summed`), and the checksums in hand are those on the disk as long as dpkg has been quiet.
 * `GapsExplained`: from `Assemble` on, attached and skipped together account for what the record has
   (`Stage2Made`), and every file to be verified has been looked at, is being, or is to be
   (`AllLookedAt`).
 * `RedactionHolds`: scrubbing is a recursive function along the words, the property a closed form, in
   which a word looks back over the flags right before it. Such a stretch has one beginning
   (`StartExists`, `StartIsOne`), which moves on with every word that is no flag of a secret
   (`StartMoves`), so the closed form obeys the rule of the function (`RedactedRule`, `HiddenStep`), and
   the two agree at the least place where they might not (`HiddenIs`). That the words of a command line
   are a sequence of words is `WordsAre`.
 * `GroupedByBug`: the message that is logged of a crash is parsed back into its frames, one by one
   (`TraceIsRead`); a frame is noise exactly if its function is one of the machinery's
   (`NoiseIs`), so the frames that are hashed are the top ones of the bug (`SignificantIs`), and two of
   them are hashed alike exactly if they are the same code (`FramesAreTold`). For crashes
   without a trace the invariant follows the index: what is neither stale nor was read while dpkg was at
   work is what dpkg has (`IndexFresh`), which for an installed package is the version on the disk
   (`Installed`). The first attempt failed on crashes in a module without symbols that is called like
   one of the machinery's functions, which the property did not yet except; the run now has such a crash.

That the recursive functions `redacted`, `Words` and `FramesIn` obey their rules, for inputs of any length, is
shown by the least place at which a function that obeys them would not exist (`HidingExists`,
`JoiningExists`, `FramesOfLines`): the provers cannot instantiate the library's induction.

*Only model-checked:* liveness (`RequestsEnd`, `EveryCrashIsHandled`), which is out of the prover's reach,
and the violations, which are counterexamples.

## Not modelled

* Parsing of file formats: journal entries, `dpkg` files, configuration, apport reports, kernel
  call traces (`parse_call_trace`, `to_event`). What they yield is an input of the modules. Stack
  traces are the exception: their block structure is in `SignatureRules`.
* The front ends' settings, the text that discloses what is sent, the browser link.
* The dashboard, translations, the window's layout, system information, server start-up: no state
  to get wrong.
* Liveness the code does not promise: a spooled event waits for the next start of the daemon
  (`main.rs:80`), an open builder for the next line of the kernel (`main.rs:142`).
* The end of the kernel's `journalctl` (`main.rs:129`): the branch of the `select!` is then always
  ready and the loop spins. The end of the coredump one is `Shutdown`.
* A power cut, after which a rename that was not synced may be undone.

## Plan

Done: 1 `IngestServer`, its abstraction and proofs; 2 `CrashDaemon`; 3 `ConsentSession` and
proofs; 4 `PayloadUpload`; 5 `HostState` and proofs; 6 `DpkgHook`; 7 `OopsWatch` and proofs;
8 `PackageIndex`; 9 `SignatureRules`, `Redaction`, `Collection`;
10 proofs of `CrashDaemon`; 11 proofs of `PayloadUpload`, `DpkgHook` and `Collection`;
12 `CrashLifecycle` and the proof that `CrashDaemon` implements it; 13 proofs of what holds in place
of the claims that runs refute, and that row locks cannot deadlock.

Open: `Fleet`, several machines with a spool against one server; at-least-once delivery and what it
does to the counters.
