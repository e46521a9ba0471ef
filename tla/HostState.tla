------------------------------ MODULE HostState ------------------------------
(***************************************************************************)
(* state.json, the state file of one machine, and the two programs that    *)
(* load and save it: blankresd (state.rs, main.rs) and blankres-apt-hook   *)
(* (blankres-hooks/main.rs).                                               *)
(*                                                                         *)
(* Each loads the whole file, may add a salt, and writes the whole file    *)
(* back through one and the same temporary name, state.json.tmp.  There is *)
(* no lock.  The daemon keeps what it loaded in memory for as long as it   *)
(* runs and saves it after every crash; the hook loads, saves and exits.   *)
(*                                                                         *)
(* Abstractions.  Of the state there is the number of journal entries that *)
(* are behind its cursor, and the salt.  A machine's identity is its salt. *)
(* The steps of the daemon that handle a crash are in CrashDaemon.         *)
(***************************************************************************)
EXTENDS Integers, FiniteSets

CONSTANTS
    Daemon, Hook,   \* the two programs
    MaxCrashes,     \* crashes in the journal (bounds the run)
    MaxSalts        \* salts that are drawn (bounds the run)

ASSUME ProgramAssumption == Daemon # Hook
ASSUME BoundAssumption == MaxCrashes \in Nat /\ MaxSalts \in Nat

VARIABLES
    file,       \* state.json: a state, Torn or Absent
    temp,       \* state.json.tmp: likewise, or Empty
    fd,         \* what a program has open for writing: "temp", "file" or "none"
    pc,         \* where a program is
    mem,        \* the state it has in memory
    handled,    \* history: crashes the daemon has handled
    salts,      \* salts drawn so far
    identities, \* history: salts of the events that were sent
    overlapped  \* history: both programs have run at the same time

vars == <<file, temp, fd, pc, mem, handled, salts, identities, overlapped>>

Program == {Daemon, Hook}

NoSalt == 0
State == [cursor : 0..MaxCrashes, salt : 0..MaxSalts]
Fresh == [cursor |-> 0, salt |-> NoSalt]

\* What a file may hold instead of a state.
Absent == [none |-> "absent"]
Empty == [none |-> "empty"]
Torn == [none |-> "torn"]

Init ==
    /\ file = Absent /\ temp = Absent
    /\ fd = [p \in Program |-> "none"] /\ pc = [p \in Program |-> "off"]
    /\ mem = [p \in Program |-> Fresh]
    /\ handled = 0 /\ salts = 0 /\ identities = {}
    /\ overlapped = FALSE

Goto(p, from, to) == pc[p] = from /\ pc' = [pc EXCEPT ![p] = to]

\* State::load: a file that is not there or does not parse is an empty state.
Loaded == IF file \in State THEN file ELSE Fresh

\* Bug variant: what the file holds is not used.
LoadAfresh(p) ==
    /\ Goto(p, "off", "open")
    /\ salts < MaxSalts
    /\ salts' = salts + 1
    /\ mem' = [mem EXCEPT ![p] = [Fresh EXCEPT !.salt = salts']]
    /\ overlapped' = (overlapped \/ \E q \in Program \ {p} : pc[q] # "off")
    /\ UNCHANGED <<file, temp, fd, handled, identities>>

\* State::load and State::salt.
Load(p) ==
    /\ Goto(p, "off", "open")
    /\ IF Loaded.salt = NoSalt
       THEN /\ salts < MaxSalts
            /\ salts' = salts + 1
            /\ mem' = [mem EXCEPT ![p] = [Loaded EXCEPT !.salt = salts']]
       ELSE /\ mem' = [mem EXCEPT ![p] = Loaded]
            /\ salts' = salts
    /\ overlapped' = (overlapped \/ \E q \in Program \ {p} : pc[q] # "off")
    /\ UNCHANGED <<file, temp, fd, handled, identities>>

\* Bug variant: the state is written in place.
OpenInPlace(p) ==
    /\ Goto(p, "open", "write")
    /\ file' = Empty
    /\ fd' = [fd EXCEPT ![p] = "file"]
    /\ UNCHANGED <<temp, mem, handled, salts, identities, overlapped>>

\* State::save: the temporary file is created, or truncated if it is there.
Open(p) ==
    /\ Goto(p, "open", "write")
    /\ temp' = Empty
    /\ fd' = [fd EXCEPT ![p] = "temp"]
    /\ UNCHANGED <<file, mem, handled, salts, identities, overlapped>>

\* A document written over another: what is left of a longer one makes it
\* unreadable.
Overwritten(old, new) == IF old \in {Empty, new} THEN {new} ELSE {new, Torn}

\* State::save: the document goes to the file that was opened, whatever its
\* name is by now, and the file is closed.
Write(p) ==
    /\ Goto(p, "write", "rename")
    /\ CASE fd[p] = "temp" -> temp' \in Overwritten(temp, mem[p]) /\ file' = file
         [] fd[p] = "file" -> file' \in Overwritten(file, mem[p]) /\ temp' = temp
         [] OTHER -> UNCHANGED <<file, temp>>
    /\ fd' = [fd EXCEPT ![p] = "none"]
    /\ UNCHANGED <<mem, handled, salts, identities, overlapped>>

\* State::save: the rename.  When another program has renamed the file first it
\* fails, which is only logged.
Rename(p) ==
    /\ Goto(p, "rename", "ready")
    /\ IF temp = Absent
       THEN UNCHANGED <<file, temp, fd>>
       ELSE /\ file' = temp /\ temp' = Absent
            /\ fd' = [q \in Program |-> CASE fd[q] = "temp" -> "file"
                                          [] fd[q] = "file" -> "none"
                                          [] OTHER -> fd[q]]
    /\ UNCHANGED <<mem, handled, salts, identities, overlapped>>

\* Bug variant: the cursor moves before the crash is handled.
MoveCursorFirst ==
    /\ Goto(Daemon, "ready", "open")
    /\ mem[Daemon].cursor < MaxCrashes
    /\ mem' = [mem EXCEPT ![Daemon].cursor = @ + 1]
    /\ handled' \in {handled, IF mem'[Daemon].cursor > handled THEN handled + 1 ELSE handled}
    /\ identities' = identities \cup {mem[Daemon].salt}
    /\ UNCHANGED <<file, temp, fd, salts, overlapped>>

\* Bug variant: the entry that was handled last is counted again.
HandleTwice ==
    /\ Goto(Daemon, "ready", "open")
    /\ mem' = [mem EXCEPT ![Daemon].cursor = @ + 1]
    /\ handled' = IF mem'[Daemon].cursor > handled THEN mem'[Daemon].cursor ELSE handled
    /\ identities' = identities \cup {mem[Daemon].salt}
    /\ UNCHANGED <<file, temp, fd, salts, overlapped>>

\* The daemon has handled the crash after its cursor: its event is sent under
\* this machine's identity, and the cursor moves past it.
HandleCrash ==
    /\ Goto(Daemon, "ready", "open")
    /\ mem[Daemon].cursor < MaxCrashes
    /\ mem' = [mem EXCEPT ![Daemon].cursor = @ + 1]
    /\ handled' = IF mem'[Daemon].cursor > handled THEN mem'[Daemon].cursor ELSE handled
    /\ identities' = identities \cup {mem[Daemon].salt}
    /\ UNCHANGED <<file, temp, fd, salts, overlapped>>

\* The hook sends the package failures it has found, and exits.
HookSends ==
    /\ Goto(Hook, "ready", "off")
    /\ identities' = identities \cup {mem[Hook].salt}
    /\ UNCHANGED <<file, temp, fd, mem, handled, salts, overlapped>>

\* A program is killed.  What it has open is closed.
Kill(p) ==
    /\ pc[p] # "off" /\ pc' = [pc EXCEPT ![p] = "off"]
    /\ fd' = [fd EXCEPT ![p] = "none"]
    /\ UNCHANGED <<file, temp, mem, handled, salts, identities, overlapped>>

Next ==
    \/ \E p \in Program : Load(p) \/ Open(p) \/ Write(p) \/ Rename(p) \/ Kill(p)
    \/ HandleCrash \/ HookSends

Spec == Init /\ [][Next]_vars
-----------------------------------------------------------------------------
\* Type invariant.
TypeOK ==
    /\ file \in State \cup {Absent, Empty, Torn} /\ temp \in State \cup {Absent, Empty, Torn}
    /\ fd \in [Program -> {"none", "temp", "file"}]
    /\ pc \in [Program -> {"off", "open", "write", "rename", "ready"}]
    /\ mem \in [Program -> State]
    /\ handled \in 0..MaxCrashes /\ salts \in 0..MaxSalts /\ identities \subseteq 1..salts
    /\ overlapped \in BOOLEAN

\* The cursor never runs ahead of the daemon, in the file or in the memory of
\* either program, so no crash is passed over when the daemon starts again
\* (main.rs, and hooks/main.rs, which saves a state it did not make).
CursorNeverAhead ==
    /\ file \in State => file.cursor <= handled
    /\ \A p \in Program : mem[p].cursor <= handled

\* "Write atomically, so a power loss mid-write cannot leave an unparseable state
\* file" (State::save): wherever a writer is killed the file is a whole state,
\* unless both have run at once; their temporary file has one name.
StateIsWhole == overlapped \/ file = Absent \/ file \in State

\* "A package failure and a segfault on the same host report the same machine
\* identity" (hooks/main.rs): one salt for every event, once and for all, unless
\* both programs have run at once before either had saved one, or one has read
\* what the other had torn.
OneIdentity == overlapped \/ Cardinality(identities) <= 1

\* No save undoes another: the cursor in the file never moves back, unless both
\* programs have run at once and one has saved what it read before the other's save.
CursorNeverBack ==
    [][(~overlapped' /\ file \in State /\ file' \in State) => file'.cursor >= file.cursor]_vars
=============================================================================
