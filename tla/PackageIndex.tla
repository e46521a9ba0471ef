---------------------------- MODULE PackageIndex ----------------------------
(***************************************************************************)
(* dpkg, and what the daemon knows of its packages (blankres-collect:      *)
(* pkg.rs).  Collection extends it with the crashes.                       *)
(*                                                                         *)
(* The daemon reads dpkg's file lists and versions once, when it starts.   *)
(* dpkg installs and upgrades packages at any time, in several steps.  A   *)
(* crash is attributed by what was read at the start; the checksums its    *)
(* files are verified against are read when it is handled.                 *)
(*                                                                         *)
(* Abstractions.  A package has one file, whose content is the version it  *)
(* came with, or Edited.  Two writes of dpkg's status file are never in    *)
(* the same second.  Stage 1 and stage 2 each have a backend, made one     *)
(* after the other; here they share one.                                   *)
(***************************************************************************)
EXTENDS Integers, FiniteSets

CONSTANTS
    Package,        \* packages, each the owner of one file
    Unsummed,       \* packages that come without checksums
    MaxVersion,     \* MaxVersion[p]: the latest version of p (bounds the run)
    MaxStarts       \* how often the daemon is started (bounds the run)

ASSUME PackageAssumption == Unsummed \subseteq Package
ASSUME BoundAssumption == MaxVersion \in [Package -> Nat] /\ MaxStarts \in Nat

VARIABLES
    content,    \* content[p]: the file: NotThere, Edited or a version
    list,       \* packages with a .list file
    md5sums,    \* md5sums[p]: what its .md5sums file records; NotThere without one
    status,     \* the status file: version of every package, NotThere if not installed
    mtime,      \* its modification time
    dpkg,       \* what dpkg is doing: [step, package]
    pc,         \* where the daemon is
    starts,     \* how often it was started
    paths,      \* DpkgIndex.paths: packages whose file it finds
    built,      \* built_from_status_mtime
    versions,   \* DpkgBackend.versions
    raced,      \* history: dpkg changed something while the index was built
    quiet       \* history: dpkg has done nothing since the crash being handled came

disk == <<content, list, md5sums, status, mtime>>
index == <<starts, paths, built, versions, raced>>

NotThere == 0
Edited == -1
Version == UNION {1..MaxVersion[p] : p \in Package}
Idle == [step |-> "idle"]

IndexInit ==
    /\ content = [p \in Package |-> NotThere]
    /\ list = {} /\ md5sums = [p \in Package |-> NotThere]
    /\ status = [p \in Package |-> NotThere] /\ mtime = 0
    /\ dpkg = Idle /\ pc = "down" /\ starts = 0
    /\ paths = {} /\ built = 0 /\ versions = [p \in Package |-> NotThere]
    /\ raced = FALSE /\ quiet = FALSE

-----------------------------------------------------------------------------
(* dpkg, and whoever edits files *)

\* Any step of dpkg is noticed by nobody but the history.
Noted ==
    /\ raced' = (raced \/ pc \in {"lists", "mtime", "status"})
    /\ quiet' = FALSE
    /\ UNCHANGED <<pc, starts, paths, built, versions>>

\* The new file is unpacked.
Unpack(p) ==
    /\ dpkg = Idle /\ status[p] < MaxVersion[p]
    /\ dpkg' = [step |-> "unpacked", package |-> p]
    /\ content' = [content EXCEPT ![p] = status[p] + 1]
    /\ Noted /\ UNCHANGED <<list, md5sums, status, mtime>>

\* Its list and checksums follow.
WriteInfo ==
    /\ dpkg.step = "unpacked"
    /\ dpkg' = [dpkg EXCEPT !.step = "info"]
    /\ list' = list \cup {dpkg.package}
    /\ md5sums' = [md5sums EXCEPT ![dpkg.package] =
                      IF dpkg.package \in Unsummed THEN NotThere ELSE status[dpkg.package] + 1]
    /\ Noted /\ UNCHANGED <<content, status, mtime>>

\* The status file is replaced last.
WriteStatus ==
    /\ dpkg.step = "info"
    /\ dpkg' = Idle
    /\ status' = [status EXCEPT ![dpkg.package] = @ + 1] /\ mtime' = mtime + 1
    /\ Noted /\ UNCHANGED <<content, list, md5sums>>

\* An administrator changes an installed file.
Edit(p) ==
    /\ content[p] \in Version
    /\ content' = [content EXCEPT ![p] = Edited]
    /\ UNCHANGED <<list, md5sums, status, mtime, dpkg, pc, index, quiet>>

Dpkg == WriteInfo \/ WriteStatus \/ \E p \in Package : Unpack(p) \/ Edit(p)

-----------------------------------------------------------------------------
(* The daemon reads its index *)

Start ==
    /\ pc = "down" /\ starts < MaxStarts
    /\ pc' = "lists" /\ starts' = starts + 1 /\ raced' = (dpkg # Idle)
    /\ UNCHANGED <<disk, dpkg, paths, built, versions, quiet>>

\* DpkgIndex::build reads the lists,
ReadLists ==
    /\ pc = "lists" /\ pc' = "mtime"
    /\ paths' = list
    /\ UNCHANGED <<disk, dpkg, starts, built, versions, raced, quiet>>

\* and then the time of the status file;
ReadMtime ==
    /\ pc = "mtime" /\ pc' = "status"
    /\ built' = mtime
    /\ UNCHANGED <<disk, dpkg, starts, paths, versions, raced, quiet>>

\* parse_status.
ReadStatus ==
    /\ pc = "status" /\ pc' = "watch"
    /\ versions' = status
    /\ UNCHANGED <<disk, dpkg, starts, paths, built, raced, quiet>>

ReadIndex == Start \/ ReadLists \/ ReadMtime \/ ReadStatus

\* owner: nothing for a path the index does not have.
Owned(f) == f \in paths
Says(f) == IF Owned(f) THEN versions[f] ELSE NotThere

\* DpkgIndex::is_stale.  Nothing calls it.
is_stale == mtime # built

\* What the index says may be old, and nobody is told.
Outdated == is_stale \/ raced \/ dpkg # Idle

Held == Version \cup {NotThere}

IndexTypeOK ==
    /\ content \in [Package -> Held \cup {Edited}]
    /\ list \subseteq Package /\ md5sums \in [Package -> Held] /\ status \in [Package -> Held]
    /\ mtime \in Nat /\ built \in 0..mtime
    /\ dpkg = Idle \/ dpkg \in [step : {"unpacked", "info"}, package : Package]
    /\ starts \in 0..MaxStarts /\ paths \subseteq Package /\ versions \in [Package -> Held]
    /\ raced \in BOOLEAN /\ quiet \in BOOLEAN
=============================================================================
