-------------------------- MODULE HostStateProofs --------------------------
(***************************************************************************)
(* Proofs about HostState, for every number of crashes and salts.          *)
(***************************************************************************)
EXTENDS HostState, FiniteSetTheorems, TLAPS

\* What a file may hold instead of a state is not a state.
LEMMA NoStates ==
    Absent \notin State /\ Empty \notin State /\ Torn \notin State
<1>1. \A s \in State : DOMAIN s = {"cursor", "salt"}
  BY DEF State
<1>2. /\ DOMAIN Absent = {"none"} /\ DOMAIN Empty = {"none"} /\ DOMAIN Torn = {"none"}
  BY DEF Absent, Empty, Torn
<1>3. {"none"} # {"cursor", "salt"}
  <2>1. "cursor" \in {"cursor", "salt"} /\ "cursor" \notin {"none"}
    OBVIOUS
  <2> QED  BY <2>1
<1> QED  BY <1>1, <1>2, <1>3

\* The fields of a state.
LEMMA Fields ==
    ASSUME NEW s \in State
    PROVE  s.cursor \in 0..MaxCrashes /\ s.salt \in 0..MaxSalts
  BY DEF State

\* What Load begins with is a state.
LEMMA LoadedState == Loaded \in State
  BY BoundAssumption DEF Loaded, Fresh, State, NoSalt

\* Every salt in use has been drawn, and a running program has one.
SaltsWereDrawn ==
    /\ \A p \in Program : mem[p].salt <= salts /\ (pc[p] # "off" => mem[p].salt # NoSalt)
    /\ file \in State => file.salt \in 1..salts
    /\ temp \in State => temp.salt \in 1..salts

\* No state anywhere is ahead of the daemon.
NoStateIsAhead ==
    /\ CursorNeverAhead
    /\ temp \in State => temp.cursor <= handled

\* As long as the programs have never run at once: the one that runs owns the
\* temporary file, and knows all that the state file says.
OneAtATime == ~overlapped =>
    /\ \A p, q \in Program : pc[p] # "off" /\ pc[q] # "off" => p = q
    /\ file \in State \cup {Absent}
    /\ identities # {} => file \in State /\ identities = {file.salt}
    /\ \A p \in Program :
        /\ fd[p] = IF pc[p] = "write" THEN "temp" ELSE "none"
        /\ pc[p] = "write" => temp = Empty
        /\ pc[p] = "rename" => temp = mem[p]
        /\ pc[p] = "ready" => file = mem[p]
        /\ pc[p] # "off" /\ file \in State =>
            file.salt = mem[p].salt /\ file.cursor <= mem[p].cursor

IInv == TypeOK /\ SaltsWereDrawn /\ NoStateIsAhead /\ OneAtATime

-----------------------------------------------------------------------------
\* What a write leaves in the file it was aimed at, and in the other one.
LEMMA Written ==
    ASSUME TypeOK, NEW p \in Program, Write(p)
    PROVE  /\ file' \in {file, mem[p], Torn}
           /\ temp' \in {temp, mem[p], Torn}
  BY DEF Write, Overwritten

LEMMA TypeStep == IInv /\ [Next]_vars => TypeOK'
<1> SUFFICES ASSUME TypeOK, SaltsWereDrawn, NoStateIsAhead, [Next]_vars
             PROVE  TypeOK'
  BY DEF IInv
<1> USE BoundAssumption
<1>1. ASSUME NEW p \in Program, Load(p)
      PROVE  TypeOK'
  <2>1. mem' \in [Program -> State] /\ salts' \in 0..MaxSalts /\ salts <= salts'
    <3>1. CASE Loaded.salt = NoSalt
      <4>1. [Loaded EXCEPT !.salt = salts + 1] \in State
        BY <1>1, <3>1, LoadedState DEF Load, TypeOK, State
      <4> QED  BY <1>1, <3>1, <4>1 DEF Load, TypeOK
    <3>2. CASE Loaded.salt # NoSalt
      BY <1>1, <3>2, LoadedState DEF Load, TypeOK
    <3> QED  BY <3>1, <3>2
  <2> QED  BY <1>1, <2>1 DEF Load, Goto, TypeOK
<1>2. ASSUME NEW p \in Program, Open(p)
      PROVE  TypeOK'
  BY <1>2 DEF Open, Goto, TypeOK
<1>3. ASSUME NEW p \in Program, Write(p)
      PROVE  TypeOK'
  BY <1>3, Written DEF Write, Goto, TypeOK
<1>4. ASSUME NEW p \in Program, Rename(p)
      PROVE  TypeOK'
  BY <1>4 DEF Rename, Goto, TypeOK
<1>5. ASSUME NEW p \in Program, Kill(p)
      PROVE  TypeOK'
  BY <1>5 DEF Kill, TypeOK
<1>6. ASSUME HandleCrash
      PROVE  TypeOK'
  <2>1. Daemon \in Program
    BY DEF Program
  <2>2. [mem[Daemon] EXCEPT !.cursor = @ + 1] \in State
    BY <1>6, <2>1 DEF HandleCrash, TypeOK, State
  <2>3. mem' \in [Program -> State]
    BY <1>6, <2>1, <2>2 DEF HandleCrash, TypeOK
  <2>4. handled' \in 0..MaxCrashes
    BY <1>6, <2>1, <2>3, Fields DEF HandleCrash, TypeOK
  <2>5. mem[Daemon].salt \in 1..salts
    BY <1>6, <2>1, Fields DEF HandleCrash, Goto, TypeOK, SaltsWereDrawn, NoSalt
  <2> QED  BY <1>6, <2>1, <2>3, <2>4, <2>5 DEF HandleCrash, Goto, TypeOK
<1>7. ASSUME HookSends
      PROVE  TypeOK'
  <2>1. Hook \in Program
    BY DEF Program
  <2>2. mem[Hook].salt \in 1..salts
    BY <1>7, <2>1, Fields DEF HookSends, Goto, TypeOK, SaltsWereDrawn, NoSalt
  <2> QED  BY <1>7, <2>1, <2>2 DEF HookSends, Goto, TypeOK
<1>8. CASE UNCHANGED vars
  BY <1>8 DEF vars, TypeOK
<1> QED  BY <1>1, <1>2, <1>3, <1>4, <1>5, <1>6, <1>7, <1>8 DEF Next

LEMMA SaltsStep == IInv /\ [Next]_vars => SaltsWereDrawn'
<1> SUFFICES ASSUME TypeOK, SaltsWereDrawn, [Next]_vars
             PROVE  SaltsWereDrawn'
  BY DEF IInv
<1> USE BoundAssumption
<1>1. ASSUME NEW p \in Program, Load(p)
      PROVE  SaltsWereDrawn'
  <2>1. Loaded.salt \in 0..salts
    BY DEF Loaded, Fresh, NoSalt, SaltsWereDrawn, TypeOK
  <2>2. mem'[p].salt \in 1..salts' /\ salts <= salts'
    <3>1. CASE Loaded.salt = NoSalt
      BY <1>1, <3>1, LoadedState DEF Load, TypeOK, State
    <3>2. CASE Loaded.salt # NoSalt
      BY <1>1, <3>2, <2>1 DEF Load, TypeOK, NoSalt
    <3> QED  BY <3>1, <3>2
  <2>3. \A q \in Program \ {p} : mem'[q] = mem[q] /\ pc'[q] = pc[q]
    BY <1>1 DEF Load, Goto, TypeOK
  <2>4. \A q \in Program : mem[q].salt \in 0..MaxSalts
    BY Fields DEF TypeOK
  <2> QED  BY <1>1, <2>2, <2>3, <2>4 DEF Load, TypeOK, SaltsWereDrawn, NoSalt
<1>2. ASSUME NEW p \in Program, Open(p)
      PROVE  SaltsWereDrawn'
  BY <1>2, NoStates DEF Open, Goto, TypeOK, SaltsWereDrawn
<1>3. ASSUME NEW p \in Program, Write(p)
      PROVE  SaltsWereDrawn'
  <2>1. mem[p].salt \in 1..salts
    BY <1>3, Fields DEF Write, Goto, TypeOK, SaltsWereDrawn, NoSalt
  <2> QED  BY <1>3, <2>1, Written, NoStates DEF Write, Goto, TypeOK, SaltsWereDrawn
<1>4. ASSUME NEW p \in Program, Rename(p)
      PROVE  SaltsWereDrawn'
  BY <1>4, NoStates DEF Rename, Goto, TypeOK, SaltsWereDrawn
<1>5. ASSUME NEW p \in Program, Kill(p)
      PROVE  SaltsWereDrawn'
  BY <1>5 DEF Kill, TypeOK, SaltsWereDrawn
<1>6. ASSUME HandleCrash
      PROVE  SaltsWereDrawn'
  <2>1. \A q \in Program : mem'[q].salt = mem[q].salt
    BY <1>6 DEF HandleCrash, TypeOK, State
  <2> QED  BY <1>6, <2>1 DEF HandleCrash, Goto, TypeOK, SaltsWereDrawn
<1>7. ASSUME HookSends
      PROVE  SaltsWereDrawn'
  BY <1>7 DEF HookSends, Goto, TypeOK, SaltsWereDrawn
<1>8. CASE UNCHANGED vars
  BY <1>8 DEF vars, SaltsWereDrawn
<1> QED  BY <1>1, <1>2, <1>3, <1>4, <1>5, <1>6, <1>7, <1>8 DEF Next

LEMMA AheadStep == IInv /\ [Next]_vars => NoStateIsAhead'
<1> SUFFICES ASSUME TypeOK, NoStateIsAhead, [Next]_vars
             PROVE  NoStateIsAhead'
  BY DEF IInv
<1> USE BoundAssumption DEF NoStateIsAhead, CursorNeverAhead
<1>1. ASSUME NEW p \in Program, Load(p)
      PROVE  NoStateIsAhead'
  <2>1. Loaded.cursor <= handled
    BY DEF Loaded, Fresh, TypeOK
  <2>2. mem'[p].cursor = Loaded.cursor
    BY <1>1, LoadedState DEF Load, TypeOK, State
  <2>3. \A q \in Program \ {p} : mem'[q] = mem[q]
    BY <1>1 DEF Load, TypeOK
  <2> QED  BY <1>1, <2>1, <2>2, <2>3 DEF Load
<1>2. ASSUME NEW p \in Program, Open(p)
      PROVE  NoStateIsAhead'
  BY <1>2, NoStates DEF Open
<1>3. ASSUME NEW p \in Program, Write(p)
      PROVE  NoStateIsAhead'
  BY <1>3, Written, NoStates DEF Write
<1>4. ASSUME NEW p \in Program, Rename(p)
      PROVE  NoStateIsAhead'
  BY <1>4, NoStates DEF Rename
<1>5. ASSUME NEW p \in Program, Kill(p)
      PROVE  NoStateIsAhead'
  BY <1>5 DEF Kill
<1>6. ASSUME HandleCrash
      PROVE  NoStateIsAhead'
  <2>1. handled <= handled' /\ mem'[Daemon].cursor <= handled'
    BY <1>6, Fields DEF HandleCrash, TypeOK, Program, State
  <2>2. \A q \in Program \ {Daemon} : mem'[q] = mem[q]
    BY <1>6 DEF HandleCrash, TypeOK
  <2>3. handled' \in Int /\ handled \in Int /\ \A s \in State : s.cursor \in Int
    BY <1>6, Fields DEF HandleCrash, TypeOK, Program, State
  <2>4. \A q \in Program : mem[q] \in State
    BY DEF TypeOK
  <2> QED  BY <1>6, <2>1, <2>2, <2>3, <2>4 DEF HandleCrash
<1>7. ASSUME HookSends
      PROVE  NoStateIsAhead'
  BY <1>7 DEF HookSends
<1>8. CASE UNCHANGED vars
  BY <1>8 DEF vars
<1> QED  BY <1>1, <1>2, <1>3, <1>4, <1>5, <1>6, <1>7, <1>8 DEF Next
LEMMA OneStep == IInv /\ [Next]_vars => OneAtATime'
<1> SUFFICES ASSUME TypeOK, SaltsWereDrawn, OneAtATime, [Next]_vars, ~overlapped'
             PROVE  OneAtATime'
  BY DEF IInv, OneAtATime
<1> USE BoundAssumption, NoStates
<1>0. ~overlapped
  BY DEF Next, Load, Open, Write, Rename, HandleCrash, HookSends, Kill, vars, TypeOK
<1>1. ASSUME NEW p \in Program, Load(p)
      PROVE  OneAtATime'
  <2>1. \A q \in Program : pc[q] = "off" /\ fd[q] = "none"
    BY <1>0, <1>1 DEF Load, Goto, TypeOK, OneAtATime
  <2>2. \A q \in Program : pc'[q] = (IF q = p THEN "open" ELSE "off")
    BY <1>1, <2>1 DEF Load, Goto, TypeOK
  <2>3. file \in State => mem'[p] = file
    BY <1>1 DEF Load, Loaded, SaltsWereDrawn, TypeOK, NoSalt
  <2>4. file \in State => file.cursor \in Int
    BY Fields
  <2> QED  BY <1>0, <1>1, <2>1, <2>2, <2>3, <2>4 DEF Load, OneAtATime
<1>2. ASSUME NEW p \in Program, Open(p)
      PROVE  OneAtATime'
  BY <1>0, <1>2 DEF Open, Goto, TypeOK, OneAtATime
<1>3. ASSUME NEW p \in Program, Write(p)
      PROVE  OneAtATime'
  <2>1. fd[p] = "temp" /\ temp = Empty
    BY <1>0, <1>3 DEF Write, Goto, OneAtATime
  <2>2. temp' = mem[p] /\ file' = file
    BY <1>3, <2>1 DEF Write, Overwritten
  <2>3. \A q \in Program \ {p} : pc[q] = "off" /\ pc'[q] = "off" /\ fd'[q] = fd[q]
    BY <1>0, <1>3 DEF Write, Goto, TypeOK, OneAtATime
  <2>4. pc'[p] = "rename" /\ fd'[p] = "none" /\ pc[p] = "write"
    BY <1>3 DEF Write, Goto, TypeOK
  <2> QED  BY <1>0, <1>3, <2>2, <2>3, <2>4 DEF Write, OneAtATime
<1>4. ASSUME NEW p \in Program, Rename(p)
      PROVE  OneAtATime'
  <2>1. temp = mem[p] /\ mem[p] \in State /\ pc[p] = "rename"
    BY <1>0, <1>4 DEF Rename, Goto, TypeOK, OneAtATime
  <2>2. \A q \in Program \ {p} : pc[q] = "off" /\ pc'[q] = "off"
    BY <1>0, <1>4 DEF Rename, Goto, TypeOK, OneAtATime
  <2>3. \A q \in Program : fd[q] = "none"
    BY <1>0, <2>1, <2>2 DEF OneAtATime
  <2>4. file' = mem[p] /\ mem' = mem /\ identities' = identities /\ pc'[p] = "ready"
    BY <1>4, <2>1 DEF Rename, Goto, TypeOK
  <2>5. \A q \in Program : fd'[q] = "none"
    BY <1>4, <2>1, <2>3 DEF Rename
  <2>6. identities # {} => identities = {mem[p].salt}
    BY <1>0, <2>1 DEF OneAtATime
  <2>7. mem[p].cursor \in Int
    BY <2>1, Fields
  <2> QED  BY <2>1, <2>2, <2>4, <2>5, <2>6, <2>7 DEF OneAtATime
<1>5. ASSUME NEW p \in Program, Kill(p)
      PROVE  OneAtATime'
  BY <1>0, <1>5 DEF Kill, TypeOK, OneAtATime
<1>6. ASSUME HandleCrash
      PROVE  OneAtATime'
  <2>1. Daemon \in Program /\ pc[Daemon] = "ready" /\ pc'[Daemon] = "open"
    BY <1>6 DEF HandleCrash, Goto, Program, TypeOK
  <2>2. file = mem[Daemon] /\ file \in State
    BY <1>0, <2>1 DEF OneAtATime, TypeOK
  <2>3. \A q \in Program \ {Daemon} : pc[q] = "off" /\ pc'[q] = "off" /\ mem'[q] = mem[q]
    BY <1>0, <1>6, <2>1 DEF HandleCrash, Goto, TypeOK, OneAtATime
  <2>4. mem'[Daemon].salt = file.salt /\ mem'[Daemon].cursor = file.cursor + 1
    BY <1>6, <2>1, <2>2 DEF HandleCrash, TypeOK, State
  <2>5. identities' = {file.salt}
    BY <1>0, <1>6, <2>2 DEF HandleCrash, OneAtATime
  <2>6. file.cursor \in Int
    BY <2>2, Fields
  <2>7. \A q \in Program : fd'[q] = "none"
    BY <1>0, <1>6, <2>1, <2>3 DEF HandleCrash, OneAtATime
  <2> QED  BY <1>6, <2>1, <2>2, <2>3, <2>4, <2>5, <2>6, <2>7 DEF HandleCrash, OneAtATime
<1>7. ASSUME HookSends
      PROVE  OneAtATime'
  <2>1. Hook \in Program /\ pc[Hook] = "ready" /\ pc'[Hook] = "off"
    BY <1>7 DEF HookSends, Goto, Program, TypeOK
  <2>2. file = mem[Hook] /\ file \in State
    BY <1>0, <2>1 DEF OneAtATime, TypeOK
  <2>3. \A q \in Program : pc'[q] = "off" /\ fd'[q] = "none"
    BY <1>0, <1>7, <2>1 DEF HookSends, Goto, TypeOK, OneAtATime
  <2>4. identities' = {file.salt}
    BY <1>0, <1>7, <2>2 DEF HookSends, OneAtATime
  <2> QED  BY <1>7, <2>2, <2>3, <2>4 DEF HookSends, OneAtATime
<1>8. CASE UNCHANGED vars
  BY <1>8 DEF vars, OneAtATime
<1> QED  BY <1>1, <1>2, <1>3, <1>4, <1>5, <1>6, <1>7, <1>8 DEF Next

-----------------------------------------------------------------------------
\* The inductive invariant holds in every state.
THEOREM Invariance == Spec => []IInv
<1>1. ASSUME Init
      PROVE  IInv
  <2>1. Fresh \in State /\ Fresh.cursor = 0 /\ Fresh.salt = 0
    BY BoundAssumption DEF Fresh, State, NoSalt
  <2>2. /\ file = Absent /\ temp = Absent
        /\ \A p \in Program : pc[p] = "off" /\ fd[p] = "none" /\ mem[p] = Fresh
    BY <1>1 DEF Init
  <2>3. TypeOK
    <3>1. fd \in [Program -> {"none", "temp", "file"}]
      BY <1>1 DEF Init
    <3>2. pc \in [Program -> {"off", "open", "write", "rename", "ready"}]
      BY <1>1 DEF Init
    <3>3. mem \in [Program -> State]
      BY <1>1, <2>1 DEF Init
    <3>4. handled \in 0..MaxCrashes /\ salts \in 0..MaxSalts /\ identities \subseteq 1..salts
      BY <1>1, BoundAssumption DEF Init
    <3> QED  BY <1>1, <3>1, <3>2, <3>3, <3>4 DEF Init, TypeOK
  <2>4. SaltsWereDrawn
    BY <1>1, <2>1, <2>2, NoStates DEF Init, SaltsWereDrawn
  <2>5. NoStateIsAhead
    BY <1>1, <2>1, <2>2, NoStates DEF Init, NoStateIsAhead, CursorNeverAhead
  <2>6. OneAtATime
    BY <1>1, <2>2, NoStates DEF Init, OneAtATime
  <2> QED  BY <2>3, <2>4, <2>5, <2>6 DEF IInv
<1>2. IInv /\ [Next]_vars => IInv'
  BY TypeStep, SaltsStep, AheadStep, OneStep DEF IInv
<1> QED  BY <1>1, <1>2, PTL DEF Spec

\* Every variable keeps its type.
THEOREM TypeCorrect == Spec => []TypeOK
  BY Invariance, PTL DEF IInv

\* However daemon and hook interleave and wherever they are killed, no state on
\* disk or in memory is ahead of the crashes the daemon has handled: a restart
\* may handle a crash twice and never passes over one (State::save, main.rs).
THEOREM NoCrashIsPassedOver == Spec => []CursorNeverAhead
  BY Invariance, PTL DEF IInv, NoStateIsAhead

\* If the two programs never run at once, a kill at any step of State::save
\* leaves a whole state or none.
THEOREM SaveIsAtomic == Spec => []StateIsWhole
<1>1. IInv => StateIsWhole
  BY DEF IInv, OneAtATime, StateIsWhole
<1> QED  BY <1>1, Invariance, PTL

\* If the two programs never run at once, all events carry one salt
\* (State::salt).
THEOREM IdentityIsUnique == Spec => []OneIdentity
<1>1. IInv => OneIdentity
  <2> SUFFICES ASSUME IInv, ~overlapped
               PROVE  Cardinality(identities) <= 1
    BY DEF OneIdentity
  <2>1. identities = {} \/ identities = {file.salt}
    BY DEF IInv, OneAtATime
  <2>2. Cardinality({}) = 0 /\ Cardinality({file.salt}) = 1
    BY FS_EmptySet, FS_Singleton
  <2> QED  BY <2>1, <2>2
<1> QED  BY <1>1, Invariance, PTL

\* If the two programs never run at once, no save moves the cursor back.
THEOREM NoSaveIsUndone == Spec => CursorNeverBack
<1>1. IInv /\ [Next]_vars => [(~overlapped' /\ file \in State /\ file' \in State)
                                => file'.cursor >= file.cursor]_vars
  <2> SUFFICES ASSUME IInv, [Next]_vars, ~overlapped', file \in State, file' \in State
               PROVE  file'.cursor >= file.cursor
    OBVIOUS
  <2>1. ~overlapped
    BY DEF IInv, TypeOK, Next, Load, Open, Write, Rename, HandleCrash, HookSends, Kill, vars
  <2>2. CASE file' = file
    BY <2>2, Fields
  <2>3. ASSUME NEW p \in Program, Write(p)
        PROVE  file' = file
    BY <2>1, <2>3 DEF Write, Goto, IInv, OneAtATime
  <2>4. ASSUME NEW p \in Program, Rename(p)
        PROVE  file'.cursor >= file.cursor
    <3>1. temp = mem[p] /\ mem[p] \in State /\ file.cursor <= mem[p].cursor
      BY <2>1, <2>4 DEF Rename, Goto, IInv, TypeOK, OneAtATime
    <3>2. file' = mem[p]
      BY <2>4, <3>1, NoStates DEF Rename
    <3> QED  BY <3>1, <3>2, Fields
  <2> QED  BY <2>2, <2>3, <2>4 DEF Next, Load, Open, Kill, HandleCrash, HookSends, vars
<1> QED  BY <1>1, Invariance, PTL DEF Spec, CursorNeverBack
=============================================================================
