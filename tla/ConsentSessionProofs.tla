------------------------ MODULE ConsentSessionProofs ------------------------
(***************************************************************************)
(* Proofs about ConsentSession, for any number of front ends, signatures   *)
(* and reports.                                                            *)
(***************************************************************************)
EXTENDS ConsentSession, TLAPS

Reports == [crash : Crashes, awaiting : BOOLEAN]

\* A front end's jobs after it has begun, moved on with or ended one.
LEMMA Begun ==
    ASSUME TypeOK, NEW p \in FrontEnd, NEW new \in SUBSET Job, Begin(p, new)
    PROVE  /\ jobs' \in [FrontEnd -> SUBSET Job]
           /\ jobs'[p] = jobs[p] \cup new
           /\ \A q \in FrontEnd \ {p} : jobs'[q] = jobs[q]
  BY DEF TypeOK, Begin

LEMMA Advanced ==
    ASSUME TypeOK, NEW p \in FrontEnd, NEW j \in jobs[p], NEW stage \in Stage, Advance(p, j, stage)
    PROVE  /\ jobs' \in [FrontEnd -> SUBSET Job]
           /\ \E k \in Job : /\ k.entry = j.entry /\ k.kind = j.kind /\ k.stage = stage
                             /\ jobs'[p] = (jobs[p] \ {j}) \cup {k}
           /\ \A q \in FrontEnd \ {p} : jobs'[q] = jobs[q]
<1> DEFINE k == [j EXCEPT !.stage = stage]
<1>1. j \in Job /\ jobs \in [FrontEnd -> SUBSET Job]
  BY DEF TypeOK
<1>2. k \in Job /\ k.entry = j.entry /\ k.kind = j.kind /\ k.stage = stage
  BY <1>1 DEF Job
<1>3. jobs' = [jobs EXCEPT ![p] = (jobs[p] \ {j}) \cup {k}]
  BY DEF Advance
<1> HIDE DEF k
<1> QED  BY <1>1, <1>2, <1>3

LEMMA Finished ==
    ASSUME TypeOK, NEW p \in FrontEnd, NEW j \in jobs[p], Finish(p, j)
    PROVE  /\ jobs' \in [FrontEnd -> SUBSET Job]
           /\ \E k \in Job : /\ k.entry = j.entry /\ k.kind = "sent" /\ k.stage = "core"
                             /\ jobs'[p] = (jobs[p] \ {j}) \cup {k}
           /\ \A q \in FrontEnd \ {p} : jobs'[q] = jobs[q]
<1> DEFINE k == [j EXCEPT !.stage = "core", !.kind = "sent"]
<1>1. j \in Job /\ jobs \in [FrontEnd -> SUBSET Job]
  BY DEF TypeOK
<1>2. k \in Job /\ k.entry = j.entry /\ k.kind = "sent" /\ k.stage = "core"
  BY <1>1 DEF Job, Stage
<1>3. jobs' = [jobs EXCEPT ![p] = (jobs[p] \ {j}) \cup {k}]
  BY DEF Finish
<1> HIDE DEF k
<1> QED  BY <1>1, <1>2, <1>3

LEMMA Ended ==
    ASSUME TypeOK, NEW p \in FrontEnd, NEW j \in jobs[p], End(p, j)
    PROVE  /\ jobs' \in [FrontEnd -> SUBSET Job]
           /\ jobs'[p] = jobs[p] \ {j}
           /\ \A q \in FrontEnd \ {p} : jobs'[q] = jobs[q]
  BY DEF TypeOK, End

\* What the directory lists are entries, one for each file.
LEMMA Listed ==
    ASSUME TypeOK
    PROVE  Listing \subseteq Entry
  BY DEF TypeOK, Listing, Entry

LEMMA Removed ==
    ASSUME TypeOK, NEW s
    PROVE  /\ DOMAIN Remove(reports, s) \subseteq DOMAIN reports
           /\ Remove(reports, s) \in [DOMAIN Remove(reports, s) -> Reports]
  BY DEF TypeOK, Remove, Reports

-----------------------------------------------------------------------------
Saving(j) == j.stage \in {"open", "write", "rename"}

\* Every button belongs to a report that was shown.
LiveSeen == \A p \in FrontEnd : \A e \in live[p] : e.crash \in seen

\* What a job may do, the user has asked for.
JobsKnow == \A p \in FrontEnd : \A j \in jobs[p] :
    /\ j.stage \in {"ask", "upload", "stream"} => j.entry.crash \in consented \cap seen
    /\ j.stage \in {"core", "file"} => j.entry.crash \in settled
    /\ Saving(j) => j.kind = "click" /\ j.entry.signature \in mine[p]

\* A front end saves one list at a time.
OneSave == \A p \in FrontEnd :
    /\ \A i, j \in jobs[p] : Saving(i) /\ Saving(j) => i = j
    /\ mine[p] # {} => \E j \in jobs[p] : Saving(j)

\* As long as no two have saved at once: the one that does owns the temporary
\* file, and its list has all that is in declined.json.
Alone == ~overlapped =>
    /\ \A p, q \in FrontEnd : mine[p] # {} /\ mine[q] # {} => p = q
    /\ \A p \in FrontEnd : mine[p] # {} => declined \subseteq mine[p]
    /\ \A p \in FrontEnd : fd[p] # "none" =>
         fd[p] = "temp" /\ \E j \in jobs[p] : j.stage = "write"
    /\ \A p \in FrontEnd : \A j \in jobs[p] :
         /\ j.stage = "write" => fd[p] = "temp"
         /\ j.stage = "rename" => temp = mine[p]
    /\ ignored \subseteq declined

IInv ==
    /\ TypeOK /\ LiveSeen /\ JobsKnow /\ OneSave /\ Alone
    /\ SentAsConsented /\ CoreGoneMeansDecided

-----------------------------------------------------------------------------
LEMMA Initially == Init => IInv
<1> SUFFICES ASSUME Init PROVE IInv
  OBVIOUS
<1>1. TypeOK
  <2>1. written \in Seq(Signature) /\ Len(written) = 0 /\ Crashes = {}
    BY DEF Init, Crashes
  <2>2. DOMAIN reports = {} /\ reports \in [DOMAIN reports -> Reports]
    BY DEF Init
  <2>3. overlapped \in BOOLEAN
    BY DEF Init
  <2>4. live \in [FrontEnd -> SUBSET Entry] /\ jobs \in [FrontEnd -> SUBSET Job]
    BY DEF Init
  <2>5. mine \in [FrontEnd -> SUBSET Signature] /\ fd \in [FrontEnd -> {"none", "temp", "json", "gone"}]
    BY DEF Init
  <2>8. temp \in {NoFile} \cup SUBSET Signature
    BY Zenon DEF Init
  <2>6. /\ core = {} /\ declined = {} /\ running = {} /\ seen = {}
        /\ consented = {} /\ uploaded = {} /\ settled = {} /\ ignored = {}
    BY DEF Init
  <2>7. Len(written) <= MaxReports
    BY <2>1, ReportsAssumption
  <2> QED  BY <2>1, <2>2, <2>3, <2>4, <2>5, <2>6, <2>7, <2>8, Zenon DEF TypeOK, Reports
<1> QED
  BY <1>1 DEF Init, IInv, LiveSeen, JobsKnow, OneSave, Alone, SentAsConsented,
              CoreGoneMeansDecided, Crashes

LEMMA DaemonStep ==
    ASSUME IInv, NEW s \in Signature, NEW awaiting \in BOOLEAN, DaemonWrites(s, awaiting)
    PROVE  IInv'
<1> DEFINE n == Len(written) + 1
<1>1. /\ written' \in Seq(Signature) /\ Len(written') = n /\ Len(written) \in Nat
      /\ Crashes = 1..Len(written) /\ Crashes' = 1..n
  BY DEF IInv, TypeOK, DaemonWrites, Crashes
<1>2. Crashes \subseteq Crashes' /\ n \in Crashes' /\ Crashes' \subseteq Crashes \cup {n}
  BY <1>1
<1>3. /\ UNCHANGED <<declined, temp, running, live, jobs, mine, fd, seen, consented, uploaded,
                     settled, ignored, overlapped>>
      /\ core' = core \cup {n}
  BY <1>1 DEF DaemonWrites, process, history
<1>4. Entry \subseteq Entry' /\ Job \subseteq Job'
  BY <1>2 DEF Entry, Job, Stage
<1>5. TypeOK'
  <2>1. DOMAIN reports' \subseteq Signature /\ reports' \in [DOMAIN reports' -> Reports']
    <3>1. reports' = Put(reports, s, [crash |-> n, awaiting |-> awaiting])
      BY <1>1 DEF DaemonWrites
    <3>2. [crash |-> n, awaiting |-> awaiting] \in Reports'
      BY <1>2 DEF Reports
    <3>3. \A k \in DOMAIN reports : reports[k] \in Reports'
      BY <1>2 DEF IInv, TypeOK, Reports
    <3>4. DOMAIN reports \subseteq Signature
      BY DEF IInv, TypeOK
    <3> HIDE DEF n
    <3> QED  BY <3>1, <3>2, <3>3, <3>4 DEF Put
  <2>2. Len(written') <= MaxReports
    BY <1>1, ReportsAssumption DEF DaemonWrites
  <2>3. live' \in [FrontEnd -> SUBSET Entry'] /\ jobs' \in [FrontEnd -> SUBSET Job']
    BY <1>3, <1>4 DEF IInv, TypeOK
  <2>4. /\ core' \subseteq Crashes' /\ seen' \subseteq Crashes' /\ consented' \subseteq Crashes'
        /\ uploaded' \subseteq Crashes' /\ settled' \subseteq Crashes'
    BY <1>2, <1>3 DEF IInv, TypeOK
  <2>5. /\ declined' \subseteq Signature /\ temp' \in {NoFile} \cup SUBSET Signature
        /\ running' \subseteq FrontEnd
        /\ mine' \in [FrontEnd -> SUBSET Signature]
        /\ fd' \in [FrontEnd -> {"none", "temp", "json", "gone"}]
        /\ ignored' \subseteq Signature
    BY <1>3 DEF IInv, TypeOK
  <2>6. overlapped' \in BOOLEAN
    BY <1>3 DEF IInv, TypeOK
  <2> QED  BY <1>1, <2>1, <2>2, <2>3, <2>4, <2>5, <2>6 DEF TypeOK, Reports
<1>6. LiveSeen' /\ JobsKnow' /\ OneSave' /\ Alone' /\ SentAsConsented'
  BY <1>3 DEF IInv, LiveSeen, JobsKnow, OneSave, Alone, SentAsConsented, Saving
<1>7. CoreGoneMeansDecided'
  BY <1>2, <1>3 DEF IInv, CoreGoneMeansDecided
<1> QED  BY <1>5, <1>6, <1>7 DEF IInv

LEMMA OpenStep ==
    ASSUME IInv, NEW p \in FrontEnd, Open(p)
    PROVE  IInv'
<1>1. /\ UNCHANGED <<written, reports, core, declined, temp, jobs, mine, fd, consented, uploaded,
                     settled, ignored, overlapped>>
      /\ running' = running \cup {p} /\ live' = [live EXCEPT ![p] = Listing]
      /\ seen' = seen \cup {e.crash : e \in Listing}
  BY DEF Open, files
<1>2. Listing \subseteq Entry
  BY Listed DEF IInv
<1>3. {e.crash : e \in Listing} \subseteq Crashes
  BY <1>2 DEF Entry
<1>4. /\ live' \in [FrontEnd -> SUBSET Entry]
      /\ \A q \in FrontEnd : live'[q] = IF q = p THEN Listing ELSE live[q]
  BY <1>1, <1>2 DEF IInv, TypeOK
<1>5. TypeOK'
  BY <1>1, <1>3, <1>4 DEF IInv, TypeOK, Crashes, Entry, Job
<1>6. LiveSeen'
  BY <1>1, <1>4 DEF IInv, LiveSeen
<1>7. JobsKnow' /\ OneSave' /\ Alone' /\ SentAsConsented' /\ CoreGoneMeansDecided'
  BY <1>1 DEF IInv, JobsKnow, OneSave, Alone, SentAsConsented, CoreGoneMeansDecided, Saving, Crashes
<1> QED  BY <1>5, <1>6, <1>7 DEF IInv

LEMMA PressSendStep ==
    ASSUME IInv, NEW p \in FrontEnd, NEW e \in live[p], PressSend(p, e)
    PROVE  IInv'
<1> DEFINE new == [entry |-> e, stage |-> IF e.awaiting THEN "ask" ELSE "upload", kind |-> "send"]
<1>1. /\ UNCHANGED <<written, reports, core, declined, temp, running, live, mine, fd, seen, uploaded,
                     settled, ignored, overlapped>>
      /\ Begin(p, {new}) /\ consented' = consented \cup {e.crash}
  BY DEF PressSend, files
<1>2. e \in Entry /\ e.crash \in Crashes /\ e.crash \in seen
  BY DEF IInv, TypeOK, Entry, LiveSeen
<1>3. new \in Job /\ new.stage \in {"ask", "upload"} /\ new.entry = e
  BY <1>2 DEF Job, Stage
<1> HIDE DEF new
<1>4. /\ jobs' \in [FrontEnd -> SUBSET Job]
      /\ jobs'[p] = jobs[p] \cup {new}
      /\ \A q \in FrontEnd \ {p} : jobs'[q] = jobs[q]
  BY <1>1, <1>3, Begun DEF IInv
<1>5. TypeOK'
  BY <1>1, <1>2, <1>4 DEF IInv, TypeOK, Crashes, Entry, Job
<1>6. LiveSeen' /\ SentAsConsented' /\ CoreGoneMeansDecided'
  BY <1>1 DEF IInv, LiveSeen, SentAsConsented, CoreGoneMeansDecided, Crashes
<1>7. JobsKnow' /\ OneSave' /\ Alone'
  BY <1>1, <1>2, <1>3, <1>4 DEF IInv, JobsKnow, OneSave, Alone, Saving
<1> QED  BY <1>5, <1>6, <1>7 DEF IInv

LEMMA PressDiscardStep ==
    ASSUME IInv, NEW p \in FrontEnd, NEW e \in live[p], PressDiscard(p, e)
    PROVE  IInv'
<1> DEFINE new == [entry |-> e, stage |-> "core", kind |-> "click"]
<1>1. /\ UNCHANGED <<written, reports, core, declined, temp, running, mine, fd, seen, consented,
                     uploaded, ignored, overlapped>>
      /\ Begin(p, {new}) /\ settled' = settled \cup {e.crash}
      /\ live' = [live EXCEPT ![p] = @ \ {e}]
  BY DEF PressDiscard, files
<1>2. e \in Entry /\ e.crash \in Crashes
  BY DEF IInv, TypeOK, Entry
<1>3. new \in Job /\ new.stage = "core" /\ new.entry = e
  BY <1>2 DEF Job, Stage
<1> HIDE DEF new
<1>4. /\ jobs' \in [FrontEnd -> SUBSET Job]
      /\ jobs'[p] = jobs[p] \cup {new}
      /\ \A q \in FrontEnd \ {p} : jobs'[q] = jobs[q]
  BY <1>1, <1>3, Begun DEF IInv
<1>5. live' \in [FrontEnd -> SUBSET Entry] /\ \A q \in FrontEnd : live'[q] \subseteq live[q]
  BY <1>1 DEF IInv, TypeOK
<1>6. TypeOK'
  BY <1>1, <1>2, <1>4, <1>5 DEF IInv, TypeOK, Crashes, Entry, Job
<1>7. LiveSeen' /\ SentAsConsented' /\ CoreGoneMeansDecided'
  BY <1>1, <1>5 DEF IInv, LiveSeen, SentAsConsented, CoreGoneMeansDecided, Crashes
<1>8. JobsKnow' /\ OneSave' /\ Alone'
  BY <1>1, <1>2, <1>3, <1>4 DEF IInv, JobsKnow, OneSave, Alone, Saving
<1> QED  BY <1>6, <1>7, <1>8 DEF IInv

LEMMA PressIgnoreStep ==
    ASSUME IInv, NEW p \in FrontEnd, NEW e \in live[p], PressIgnore(p, e)
    PROVE  IInv'
<1> DEFINE new == [entry |-> e, stage |-> "open", kind |-> "click"]
<1>1. /\ UNCHANGED <<written, reports, core, declined, temp, running, fd, seen, consented,
                     uploaded, settled, ignored>>
      /\ Begin(p, {new}) /\ ~Busy(p)
      /\ live' = [live EXCEPT ![p] = @ \ {e}]
      /\ mine' = [mine EXCEPT ![p] = declined \cup {e.signature}]
      /\ overlapped' = (overlapped \/ \E q \in FrontEnd \ {p} : mine[q] # {})
  BY DEF PressIgnore, files
<1>2. e \in Entry /\ e.crash \in Crashes /\ e.signature \in Signature
  BY DEF IInv, TypeOK, Entry
<1>3. new \in Job /\ new.stage = "open" /\ new.entry = e /\ new.kind = "click"
  BY <1>2 DEF Job, Stage
<1> HIDE DEF new
<1>4. /\ jobs' \in [FrontEnd -> SUBSET Job]
      /\ jobs'[p] = jobs[p] \cup {new}
      /\ \A q \in FrontEnd \ {p} : jobs'[q] = jobs[q]
  BY <1>1, <1>3, Begun DEF IInv
<1>5. live' \in [FrontEnd -> SUBSET Entry] /\ \A q \in FrontEnd : live'[q] \subseteq live[q]
  BY <1>1 DEF IInv, TypeOK
<1>6. /\ mine' \in [FrontEnd -> SUBSET Signature]
      /\ mine'[p] = declined \cup {e.signature}
      /\ \A q \in FrontEnd \ {p} : mine'[q] = mine[q]
  BY <1>1, <1>2 DEF IInv, TypeOK
<1>7. \A j \in jobs[p] : ~Saving(j)
  BY <1>1 DEF IInv, JobsKnow, Busy
<1>8. TypeOK'
  <2>1. overlapped' \in BOOLEAN
    BY <1>1 DEF IInv, TypeOK
  <2> QED  BY <1>1, <1>2, <1>4, <1>5, <1>6, <2>1 DEF IInv, TypeOK, Crashes, Entry, Job
<1>9. LiveSeen' /\ SentAsConsented' /\ CoreGoneMeansDecided'
  BY <1>1, <1>5 DEF IInv, LiveSeen, SentAsConsented, CoreGoneMeansDecided, Crashes
<1>10. JobsKnow'
  BY <1>1, <1>2, <1>3, <1>4, <1>6, <1>7 DEF IInv, JobsKnow, Saving
<1>11. OneSave'
  <2>1. \A q \in FrontEnd \ {p} : /\ \A i, j \in jobs'[q] : Saving(i) /\ Saving(j) => i = j
                                  /\ mine'[q] # {} => \E j \in jobs'[q] : Saving(j)
    BY <1>4, <1>6 DEF IInv, OneSave
  <2>2. \A i, j \in jobs'[p] : Saving(i) /\ Saving(j) => i = j
    BY <1>4, <1>7
  <2>3. \E j \in jobs'[p] : Saving(j)
    BY <1>3, <1>4 DEF Saving
  <2> QED  BY <2>1, <2>2, <2>3 DEF OneSave
<1>12. Alone'
  <2> SUFFICES ASSUME ~overlapped' PROVE Alone'
    BY DEF Alone
  <2>1. ~overlapped /\ \A q \in FrontEnd \ {p} : mine[q] = {}
    BY <1>1
  <2>2. \A q \in FrontEnd : mine'[q] # {} => q = p
    BY <1>6, <2>1
  <2>3. \A q \in FrontEnd : mine'[q] # {} => declined' \subseteq mine'[q]
    BY <1>1, <1>6, <2>2
  <2>4. \A q \in FrontEnd : fd'[q] # "none" =>
          fd'[q] = "temp" /\ \E j \in jobs'[q] : j.stage = "write"
    BY <1>1, <1>4, <2>1 DEF IInv, Alone
  <2>5. \A q \in FrontEnd : \A j \in jobs'[q] :
         /\ j.stage = "write" => fd'[q] = "temp"
         /\ j.stage = "rename" => temp' = mine'[q]
    BY <1>1, <1>3, <1>4, <1>6, <1>7, <2>1 DEF IInv, Alone, Saving
  <2>6. ignored' \subseteq declined'
    BY <1>1, <2>1 DEF IInv, Alone
  <2> QED  BY <2>2, <2>3, <2>4, <2>5, <2>6 DEF Alone
<1> QED  BY <1>8, <1>9, <1>10, <1>11, <1>12 DEF IInv

LEMMA PressCloseStep ==
    ASSUME IInv, NEW p \in FrontEnd, PressClose(p)
    PROVE  IInv'
<1> DEFINE new == {[entry |-> e, stage |-> "core", kind |-> "close"] : e \in Listing}
<1>1. /\ UNCHANGED <<written, reports, core, declined, temp, running, mine, fd, seen, consented,
                     uploaded, ignored, overlapped>>
      /\ Begin(p, new) /\ settled' = settled \cup {e.crash : e \in Listing}
      /\ live' = [live EXCEPT ![p] = {}]
  BY DEF PressClose, files
<1>2. Listing \subseteq Entry
  BY Listed DEF IInv
<1>3. {e.crash : e \in Listing} \subseteq Crashes
  BY <1>2 DEF Entry
<1>4. \A j \in new : j \in Job /\ j.stage = "core" /\ j.entry \in Listing
  BY <1>2 DEF Job, Stage
<1>5. \A j \in new : j.entry.crash \in settled'
  BY <1>1, <1>4
<1> HIDE DEF new
<1>6. /\ jobs' \in [FrontEnd -> SUBSET Job]
      /\ jobs'[p] = jobs[p] \cup new
      /\ \A q \in FrontEnd \ {p} : jobs'[q] = jobs[q]
  BY <1>1, <1>4, Begun DEF IInv
<1>7. live' \in [FrontEnd -> SUBSET Entry] /\ \A q \in FrontEnd : live'[q] \subseteq live[q]
  BY <1>1 DEF IInv, TypeOK
<1>8. TypeOK'
  BY <1>1, <1>3, <1>6, <1>7 DEF IInv, TypeOK, Crashes, Entry, Job
<1>9. LiveSeen' /\ SentAsConsented' /\ CoreGoneMeansDecided'
  BY <1>1, <1>7 DEF IInv, LiveSeen, SentAsConsented, CoreGoneMeansDecided, Crashes
<1>10. JobsKnow' /\ OneSave' /\ Alone'
  BY <1>1, <1>4, <1>5, <1>6 DEF IInv, JobsKnow, OneSave, Alone, Saving
<1> QED  BY <1>8, <1>9, <1>10 DEF IInv

LEMMA ExitStep ==
    ASSUME IInv, NEW p \in FrontEnd, Exit(p)
    PROVE  IInv'
<1>1. /\ UNCHANGED <<written, reports, core, declined, temp, seen, consented, uploaded, settled,
                     ignored, overlapped>>
      /\ running' = running \ {p}
      /\ live' = [live EXCEPT ![p] = {}] /\ jobs' = [jobs EXCEPT ![p] = {}]
      /\ mine' = [mine EXCEPT ![p] = {}] /\ fd' = [fd EXCEPT ![p] = "none"]
  BY DEF Exit, files, history
<1>2. /\ live' \in [FrontEnd -> SUBSET Entry] /\ jobs' \in [FrontEnd -> SUBSET Job]
      /\ \A q \in FrontEnd : /\ live'[q] = IF q = p THEN {} ELSE live[q]
                             /\ jobs'[q] = IF q = p THEN {} ELSE jobs[q]
  <2>1. live \in [FrontEnd -> SUBSET Entry] /\ jobs \in [FrontEnd -> SUBSET Job]
    BY DEF IInv, TypeOK
  <2>2. live' \in [FrontEnd -> SUBSET Entry] /\ jobs' \in [FrontEnd -> SUBSET Job]
    BY <1>1, <2>1
  <2>3. \A q \in FrontEnd : live'[q] = IF q = p THEN {} ELSE live[q]
    BY <1>1, <2>1
  <2>4. \A q \in FrontEnd : jobs'[q] = IF q = p THEN {} ELSE jobs[q]
    BY <1>1, <2>1
  <2> QED  BY <2>2, <2>3, <2>4
<1>3. /\ mine' \in [FrontEnd -> SUBSET Signature]
      /\ fd' \in [FrontEnd -> {"none", "temp", "json", "gone"}]
      /\ \A q \in FrontEnd : /\ mine'[q] = IF q = p THEN {} ELSE mine[q]
                             /\ fd'[q] = IF q = p THEN "none" ELSE fd[q]
  <2>1. mine \in [FrontEnd -> SUBSET Signature] /\ fd \in [FrontEnd -> {"none", "temp", "json", "gone"}]
    BY DEF IInv, TypeOK
  <2>2. mine' \in [FrontEnd -> SUBSET Signature]
    BY <1>1, <2>1
  <2>3. fd' \in [FrontEnd -> {"none", "temp", "json", "gone"}]
    BY <1>1, <2>1
  <2>4. \A q \in FrontEnd : mine'[q] = IF q = p THEN {} ELSE mine[q]
    BY <1>1, <2>1
  <2>5. \A q \in FrontEnd : fd'[q] = IF q = p THEN "none" ELSE fd[q]
    BY <1>1, <2>1
  <2> QED  BY <2>2, <2>3, <2>4, <2>5
<1>4. TypeOK'
  BY <1>1, <1>2, <1>3 DEF IInv, TypeOK, Crashes, Entry, Job
<1>5. LiveSeen' /\ SentAsConsented' /\ CoreGoneMeansDecided'
  BY <1>1, <1>2 DEF IInv, LiveSeen, SentAsConsented, CoreGoneMeansDecided, Crashes
<1>6. JobsKnow' /\ OneSave' /\ Alone'
  BY <1>1, <1>2, <1>3 DEF IInv, JobsKnow, OneSave, Alone, Saving
<1> QED  BY <1>4, <1>5, <1>6 DEF IInv

-----------------------------------------------------------------------------
(* The steps of a job *)

LEMMA AskStep ==
    ASSUME IInv, NEW p \in FrontEnd, NEW j \in jobs[p], Ask(p, j)
    PROVE  IInv'
<1>1. /\ UNCHANGED <<written, reports, core, declined, temp, running, live, mine, fd, seen,
                     consented, uploaded, ignored, overlapped>>
      /\ j.stage = "ask" /\ j \in Job /\ j.entry.crash \in Crashes
      /\ j.entry.crash \in consented \cap seen
  BY DEF Ask, files, IInv, TypeOK, JobsKnow, Job, Entry
<1>2. /\ LiveSeen' /\ SentAsConsented'
  BY <1>1 DEF IInv, LiveSeen, SentAsConsented, Crashes
<1>3. settled \subseteq settled' /\ settled' \subseteq Crashes
  BY <1>1 DEF Ask, IInv, TypeOK
<1>4. CoreGoneMeansDecided'
  BY <1>1, <1>3 DEF IInv, CoreGoneMeansDecided, Crashes
<1>5. ASSUME jobs' \in [FrontEnd -> SUBSET Job]
      PROVE  TypeOK'
  BY <1>1, <1>3, <1>5 DEF IInv, TypeOK, Crashes, Entry, Job
<1>6. CASE Advance(p, j, "upload") /\ settled' = settled
  <2>1. "upload" \in Stage
    BY DEF Stage
  <2>2. /\ jobs' \in [FrontEnd -> SUBSET Job] /\ \A q \in FrontEnd \ {p} : jobs'[q] = jobs[q]
        /\ \E k \in Job : /\ k.entry = j.entry /\ k.kind = j.kind /\ k.stage = "upload"
                          /\ jobs'[p] = (jobs[p] \ {j}) \cup {k}
    BY <1>6, <2>1, Advanced DEF IInv
  <2>3. JobsKnow' /\ OneSave' /\ Alone'
    BY <1>1, <1>6, <2>2 DEF IInv, JobsKnow, OneSave, Alone, Saving
  <2> QED  BY <1>2, <1>4, <1>5, <2>2, <2>3 DEF IInv
<1>7. CASE Advance(p, j, "core") /\ settled' = settled \cup {j.entry.crash}
  <2>1. "core" \in Stage
    BY DEF Stage
  <2>2. /\ jobs' \in [FrontEnd -> SUBSET Job] /\ \A q \in FrontEnd \ {p} : jobs'[q] = jobs[q]
        /\ \E k \in Job : /\ k.entry = j.entry /\ k.kind = j.kind /\ k.stage = "core"
                          /\ jobs'[p] = (jobs[p] \ {j}) \cup {k}
    BY <1>7, <2>1, Advanced DEF IInv
  <2>3. JobsKnow' /\ OneSave' /\ Alone'
    BY <1>1, <1>7, <2>2 DEF IInv, JobsKnow, OneSave, Alone, Saving
  <2> QED  BY <1>2, <1>4, <1>5, <2>2, <2>3 DEF IInv
<1>8. CASE End(p, j) /\ settled' = settled
  <2>2. /\ jobs' \in [FrontEnd -> SUBSET Job] /\ \A q \in FrontEnd \ {p} : jobs'[q] = jobs[q]
        /\ jobs'[p] = jobs[p] \ {j}
    BY <1>8, Ended DEF IInv
  <2>3. JobsKnow' /\ OneSave' /\ Alone'
    BY <1>1, <1>8, <2>2 DEF IInv, JobsKnow, OneSave, Alone, Saving
  <2> QED  BY <1>2, <1>4, <1>5, <2>2, <2>3 DEF IInv
<1> QED  BY <1>6, <1>7, <1>8 DEF Ask

LEMMA OpenCoreStep ==
    ASSUME IInv, NEW p \in FrontEnd, NEW j \in jobs[p], OpenCore(p, j)
    PROVE  IInv'
<1>1. /\ UNCHANGED <<written, reports, core, declined, temp, running, live, mine, fd, seen,
                     consented, uploaded, settled, ignored, overlapped>>
      /\ j.stage = "upload" /\ j.entry.crash \in consented \cap seen
  BY DEF OpenCore, files, history, IInv, JobsKnow
<1>2. /\ LiveSeen' /\ SentAsConsented' /\ CoreGoneMeansDecided'
  BY <1>1 DEF IInv, LiveSeen, SentAsConsented, CoreGoneMeansDecided, Crashes
<1>3. ASSUME jobs' \in [FrontEnd -> SUBSET Job]
      PROVE  TypeOK'
  BY <1>1, <1>3 DEF IInv, TypeOK, Crashes, Entry, Job
<1>4. CASE Advance(p, j, "stream")
  <2>1. "stream" \in Stage
    BY DEF Stage
  <2>2. /\ jobs' \in [FrontEnd -> SUBSET Job] /\ \A q \in FrontEnd \ {p} : jobs'[q] = jobs[q]
        /\ \E k \in Job : /\ k.entry = j.entry /\ k.kind = j.kind /\ k.stage = "stream"
                          /\ jobs'[p] = (jobs[p] \ {j}) \cup {k}
    BY <1>4, <2>1, Advanced DEF IInv
  <2>3. JobsKnow' /\ OneSave' /\ Alone'
    BY <1>1, <2>2 DEF IInv, JobsKnow, OneSave, Alone, Saving
  <2> QED  BY <1>2, <1>3, <2>2, <2>3 DEF IInv
<1>5. CASE End(p, j)
  <2>1. /\ jobs' \in [FrontEnd -> SUBSET Job] /\ \A q \in FrontEnd \ {p} : jobs'[q] = jobs[q]
        /\ jobs'[p] = jobs[p] \ {j}
    BY <1>5, Ended DEF IInv
  <2>2. JobsKnow' /\ OneSave' /\ Alone'
    BY <1>1, <2>1 DEF IInv, JobsKnow, OneSave, Alone, Saving
  <2> QED  BY <1>2, <1>3, <2>1, <2>2 DEF IInv
<1> QED  BY <1>4, <1>5 DEF OpenCore

LEMMA UploadStep ==
    ASSUME IInv, NEW p \in FrontEnd, NEW j \in jobs[p], Upload(p, j)
    PROVE  IInv'
<1>1. /\ UNCHANGED <<written, reports, core, declined, temp, running, live, mine, fd, seen,
                     consented, ignored, overlapped>>
      /\ j.stage = "stream" /\ j.entry.crash \in Crashes
      /\ j.entry.crash \in consented \cap seen
  BY DEF Upload, files, IInv, TypeOK, JobsKnow, Job, Entry
<1>2. /\ settled \subseteq settled' /\ settled' \subseteq Crashes
      /\ uploaded' \subseteq uploaded \cup {j.entry.crash}
  BY <1>1 DEF Upload, IInv, TypeOK
<1>4. /\ LiveSeen' /\ SentAsConsented' /\ CoreGoneMeansDecided'
  BY <1>1, <1>2 DEF IInv, LiveSeen, SentAsConsented, CoreGoneMeansDecided, Crashes
<1>5. ASSUME jobs' \in [FrontEnd -> SUBSET Job]
      PROVE  TypeOK'
  BY <1>1, <1>2, <1>5 DEF IInv, TypeOK, Crashes, Entry, Job
<1>6. CASE Finish(p, j) /\ settled' = settled \cup {j.entry.crash}
  <2>1. /\ jobs' \in [FrontEnd -> SUBSET Job] /\ \A q \in FrontEnd \ {p} : jobs'[q] = jobs[q]
        /\ \E k \in Job : /\ k.entry = j.entry /\ k.kind = "sent" /\ k.stage = "core"
                          /\ jobs'[p] = (jobs[p] \ {j}) \cup {k}
    BY <1>6, Finished DEF IInv
  <2>2. JobsKnow' /\ OneSave' /\ Alone'
    BY <1>1, <1>6, <2>1 DEF IInv, JobsKnow, OneSave, Alone, Saving
  <2> QED  BY <1>4, <1>5, <2>1, <2>2 DEF IInv
<1>7. CASE End(p, j) /\ settled' = settled
  <2>1. /\ jobs' \in [FrontEnd -> SUBSET Job] /\ \A q \in FrontEnd \ {p} : jobs'[q] = jobs[q]
        /\ jobs'[p] = jobs[p] \ {j}
    BY <1>7, Ended DEF IInv
  <2>2. JobsKnow' /\ OneSave' /\ Alone'
    BY <1>1, <1>7, <2>1 DEF IInv, JobsKnow, OneSave, Alone, Saving
  <2> QED  BY <1>4, <1>5, <2>1, <2>2 DEF IInv
<1> QED  BY <1>6, <1>7 DEF Upload

\* Declined::save touches nothing but the two files and the job.  When it fails, no
\* list is about to be saved, and declined.json can only be torn by a front end that
\* was not alone.
LEMMA GiveUpStep ==
    ASSUME IInv, NEW p \in FrontEnd, NEW j \in jobs[p], Saving(j), GiveUp(p, j),
           UNCHANGED <<written, reports, core, running, live, seen, consented, uploaded, settled,
                       ignored, overlapped>>,
           temp' \in {temp, {}}, declined' \in {declined, IF fd[p] = "json" THEN {} ELSE declined}
    PROVE  IInv'
<1>1. /\ jobs' \in [FrontEnd -> SUBSET Job] /\ \A q \in FrontEnd \ {p} : jobs'[q] = jobs[q]
      /\ jobs'[p] = jobs[p] \ {j}
  BY Ended DEF GiveUp, IInv
<1>2. /\ mine' \in [FrontEnd -> SUBSET Signature] /\ mine'[p] = {}
      /\ \A q \in FrontEnd \ {p} : mine'[q] = mine[q]
      /\ fd' \in [FrontEnd -> {"none", "temp", "json", "gone"}] /\ fd'[p] = "none"
      /\ \A q \in FrontEnd \ {p} : fd'[q] = fd[q]
  BY DEF GiveUp, IInv, TypeOK
<1>3. \A i \in jobs[p] \ {j} : ~Saving(i)
  BY DEF IInv, OneSave
<1>4. TypeOK'
  <2>1. temp' \in {NoFile} \cup SUBSET Signature /\ declined' \subseteq Signature
    BY DEF IInv, TypeOK
  <2> QED  BY <1>1, <1>2, <2>1 DEF IInv, TypeOK, Crashes, Entry, Job
<1>5. LiveSeen' /\ SentAsConsented' /\ CoreGoneMeansDecided'
  BY DEF IInv, LiveSeen, SentAsConsented, CoreGoneMeansDecided, Crashes
<1>6. JobsKnow' /\ OneSave'
  BY <1>1, <1>2, <1>3 DEF IInv, JobsKnow, OneSave, Saving
<1>7. Alone'
  <2> SUFFICES ASSUME ~overlapped PROVE Alone'
    BY DEF Alone
  <2>1. mine[p] # {}
    BY DEF IInv, JobsKnow
  <2>2. \A q \in FrontEnd \ {p} : mine[q] = {} /\ \A i \in jobs[q] : ~Saving(i)
    BY <2>1 DEF IInv, Alone, JobsKnow
  <2>3. \A q \in FrontEnd : mine'[q] = {} /\ \A i \in jobs'[q] : ~Saving(i)
    BY <1>1, <1>2, <1>3, <2>2
  <2>4. \A q \in FrontEnd : fd'[q] = "none"
    BY <1>2, <2>2 DEF IInv, Alone, Saving
  <2>5. declined' = declined /\ ignored \subseteq declined
    BY DEF IInv, Alone
  <2> QED  BY <2>3, <2>4, <2>5 DEF Alone, Saving
<1> QED  BY <1>4, <1>5, <1>6, <1>7 DEF IInv

LEMMA OpenTempDone ==
    ASSUME IInv, NEW p \in FrontEnd, NEW j \in jobs[p], OpenTemp(p, j), Advance(p, j, "write"),
           temp' = {}, fd' = [fd EXCEPT ![p] = "temp"], mine' = mine
    PROVE  IInv'
<1>1. /\ UNCHANGED <<written, reports, core, declined, running, live, mine, seen,
                     consented, uploaded, settled, ignored, overlapped>>
      /\ j.stage = "open" /\ Advance(p, j, "write")
      /\ temp' = {} /\ fd' = [fd EXCEPT ![p] = "temp"]
      /\ "write" \in Stage
  BY DEF OpenTemp, history, Stage
<1>2. /\ jobs' \in [FrontEnd -> SUBSET Job] /\ \A q \in FrontEnd \ {p} : jobs'[q] = jobs[q]
      /\ \E k \in Job : /\ k.entry = j.entry /\ k.kind = j.kind /\ k.stage = "write"
                        /\ jobs'[p] = (jobs[p] \ {j}) \cup {k}
  BY <1>1, Advanced DEF IInv
<1>3. /\ fd' \in [FrontEnd -> {"none", "temp", "json", "gone"}] /\ fd'[p] = "temp"
      /\ \A q \in FrontEnd \ {p} : fd'[q] = fd[q]
  BY <1>1 DEF IInv, TypeOK
<1>4. TypeOK'
  BY <1>1, <1>2, <1>3 DEF IInv, TypeOK, Crashes, Entry, Job
<1>5. LiveSeen' /\ SentAsConsented' /\ CoreGoneMeansDecided'
  BY <1>1 DEF IInv, LiveSeen, SentAsConsented, CoreGoneMeansDecided, Crashes
<1>6. JobsKnow' /\ OneSave'
  BY <1>1, <1>2 DEF IInv, JobsKnow, OneSave, Saving
<1>7. Alone'
  <2> SUFFICES ASSUME ~overlapped PROVE Alone'
    BY <1>1 DEF Alone
  <2>1. mine[p] # {}
    BY <1>1 DEF IInv, JobsKnow, Saving
  <2>2. \A q \in FrontEnd \ {p} : mine[q] = {} /\ \A i \in jobs[q] : ~Saving(i)
    BY <2>1 DEF IInv, Alone, JobsKnow
  <2>3. \A q \in FrontEnd : \A i \in jobs'[q] :
         /\ i.stage = "write" => fd'[q] = "temp"
         /\ i.stage = "rename" => temp' = mine'[q]
    BY <1>1, <1>2, <1>3, <2>2 DEF IInv, OneSave, Saving
  <2>4. \A q \in FrontEnd : fd'[q] # "none" =>
          fd'[q] = "temp" /\ \E i \in jobs'[q] : i.stage = "write"
    BY <1>1, <1>2, <1>3 DEF IInv, Alone
  <2> QED  BY <1>1, <2>3, <2>4 DEF IInv, Alone
<1> QED  BY <1>4, <1>5, <1>6, <1>7 DEF IInv

LEMMA OpenTempStep ==
    ASSUME IInv, NEW p \in FrontEnd, NEW j \in jobs[p], OpenTemp(p, j)
    PROVE  IInv'
<1>1. CASE GiveUp(p, j) /\ temp' = temp
  BY <1>1, GiveUpStep DEF OpenTemp, history, Saving
<1>2. CASE Advance(p, j, "write") /\ temp' = {} /\ fd' = [fd EXCEPT ![p] = "temp"] /\ mine' = mine
  BY <1>2, OpenTempDone
<1> QED  BY <1>1, <1>2 DEF OpenTemp

LEMMA WriteTempDone ==
    ASSUME IInv, NEW p \in FrontEnd, NEW j \in jobs[p], WriteTemp(p, j), Advance(p, j, "rename"),
           mine' = mine, fd' = [fd EXCEPT ![p] = "none"],
           temp' = IF fd[p] = "temp" THEN mine[p] ELSE temp,
           declined' = IF fd[p] = "json" THEN mine[p] ELSE declined
    PROVE  IInv'
<1>1. /\ UNCHANGED <<written, reports, core, running, live, mine, seen,
                     consented, uploaded, settled, ignored, overlapped>>
      /\ j.stage = "write" /\ Advance(p, j, "rename")
      /\ temp' = IF fd[p] = "temp" THEN mine[p] ELSE temp
      /\ declined' = IF fd[p] = "json" THEN mine[p] ELSE declined
      /\ fd' = [fd EXCEPT ![p] = "none"]
      /\ "rename" \in Stage
  BY DEF WriteTemp, history, Stage
<1>2. /\ jobs' \in [FrontEnd -> SUBSET Job] /\ \A q \in FrontEnd \ {p} : jobs'[q] = jobs[q]
      /\ \E k \in Job : /\ k.entry = j.entry /\ k.kind = j.kind /\ k.stage = "rename"
                        /\ jobs'[p] = (jobs[p] \ {j}) \cup {k}
  BY <1>1, Advanced DEF IInv
<1>3. /\ fd' \in [FrontEnd -> {"none", "temp", "json", "gone"}] /\ fd'[p] = "none"
      /\ \A q \in FrontEnd \ {p} : fd'[q] = fd[q]
  BY <1>1 DEF IInv, TypeOK
<1>4. mine[p] \subseteq Signature
  BY DEF IInv, TypeOK
<1>5. TypeOK'
  <2>1. temp' \in {NoFile} \cup SUBSET Signature /\ declined' \subseteq Signature
    BY <1>1, <1>4 DEF IInv, TypeOK
  <2> QED  BY <1>1, <1>2, <1>3, <2>1 DEF IInv, TypeOK, Crashes, Entry, Job
<1>6. LiveSeen' /\ SentAsConsented' /\ CoreGoneMeansDecided'
  BY <1>1 DEF IInv, LiveSeen, SentAsConsented, CoreGoneMeansDecided, Crashes
<1>7. JobsKnow' /\ OneSave'
  BY <1>1, <1>2 DEF IInv, JobsKnow, OneSave, Saving
<1>8. Alone'
  <2> SUFFICES ASSUME ~overlapped PROVE Alone'
    BY <1>1 DEF Alone
  <2>1. mine[p] # {} /\ fd[p] = "temp"
    BY <1>1 DEF IInv, JobsKnow, Saving, Alone
  <2>2. temp' = mine[p] /\ declined' = declined
    BY <1>1, <2>1
  <2>3. \A q \in FrontEnd \ {p} : mine[q] = {} /\ \A i \in jobs[q] : ~Saving(i)
    BY <2>1 DEF IInv, Alone, JobsKnow
  <2>4. \A q \in FrontEnd : \A i \in jobs'[q] :
         /\ i.stage = "write" => fd'[q] = "temp"
         /\ i.stage = "rename" => temp' = mine'[q]
    BY <1>1, <1>2, <1>3, <2>2, <2>3 DEF IInv, OneSave, Saving
  <2>5. \A q \in FrontEnd : fd'[q] # "none" =>
          fd'[q] = "temp" /\ \E i \in jobs'[q] : i.stage = "write"
    BY <1>1, <1>2, <1>3 DEF IInv, Alone
  <2> QED  BY <1>1, <2>2, <2>4, <2>5 DEF IInv, Alone
<1> QED  BY <1>5, <1>6, <1>7, <1>8 DEF IInv

LEMMA WriteTempStep ==
    ASSUME IInv, NEW p \in FrontEnd, NEW j \in jobs[p], WriteTemp(p, j)
    PROVE  IInv'
<1>1. ASSUME GiveUp(p, j), temp' \in {temp, IF fd[p] = "temp" THEN {} ELSE temp},
             declined' \in {declined, IF fd[p] = "json" THEN {} ELSE declined}
      PROVE  IInv'
  BY <1>1, GiveUpStep DEF WriteTemp, history, Saving
<1>2. ASSUME Advance(p, j, "rename"), mine' = mine, fd' = [fd EXCEPT ![p] = "none"],
             temp' = IF fd[p] = "temp" THEN mine[p] ELSE temp,
             declined' = IF fd[p] = "json" THEN mine[p] ELSE declined
      PROVE  IInv'
  BY <1>2, WriteTempDone
<1> QED  BY <1>1, <1>2 DEF WriteTemp

LEMMA RenameTempStep ==
    ASSUME IInv, NEW p \in FrontEnd, NEW j \in jobs[p], RenameTemp(p, j)
    PROVE  IInv'
<1>0. CASE GiveUp(p, j) /\ UNCHANGED <<declined, temp, ignored, settled>>
  BY <1>0, GiveUpStep DEF RenameTemp, Saving
<1>1. /\ UNCHANGED <<written, reports, core, running, live, seen, consented, uploaded, overlapped>>
      /\ j.stage = "rename" /\ mine' = [mine EXCEPT ![p] = {}]
  BY DEF RenameTemp, GiveUp
<1>2. /\ mine' \in [FrontEnd -> SUBSET Signature] /\ mine'[p] = {}
      /\ \A q \in FrontEnd \ {p} : mine'[q] = mine[q]
  BY <1>1 DEF IInv, TypeOK
<1>3. \A i \in jobs[p] \ {j} : ~Saving(i)
  BY <1>1 DEF IInv, OneSave, Saving
<1>4. /\ j.entry.crash \in Crashes /\ j.entry.signature \in Signature
      /\ j.entry.signature \in mine[p] /\ j.kind = "click"
  BY <1>1 DEF IInv, TypeOK, Job, Entry, JobsKnow, Saving
<1>5. LiveSeen' /\ SentAsConsented'
  BY <1>1 DEF IInv, LiveSeen, SentAsConsented
<1>6. ~overlapped =>
        /\ \A q \in FrontEnd \ {p} : mine[q] = {} /\ \A i \in jobs[q] : ~Saving(i)
        /\ \A q \in FrontEnd : fd[q] = "none"
        /\ temp = mine[p] /\ declined \subseteq mine[p]
  <2> SUFFICES ASSUME ~overlapped
               PROVE  /\ \A q \in FrontEnd \ {p} : mine[q] = {} /\ \A i \in jobs[q] : ~Saving(i)
                      /\ \A q \in FrontEnd : fd[q] = "none"
                      /\ temp = mine[p] /\ declined \subseteq mine[p]
    OBVIOUS
  <2>1. \A q \in FrontEnd \ {p} : mine[q] = {} /\ \A i \in jobs[q] : ~Saving(i)
    BY <1>4 DEF IInv, Alone, JobsKnow
  <2>2. \A q \in FrontEnd : fd[q] = "none"
    BY <1>1, <1>3, <2>1 DEF IInv, Alone, Saving
  <2> QED  BY <1>1, <1>4, <2>1, <2>2 DEF IInv, Alone
<1>7. CASE /\ temp # NoFile
           /\ declined' = temp /\ temp' = NoFile
           /\ fd' = [q \in FrontEnd |-> CASE fd[q] = "temp" -> "json"
                                          [] fd[q] = "json" -> "gone"
                                          [] OTHER -> fd[q]]
           /\ ignored' = ignored \cup {j.entry.signature}
           /\ settled' = settled \cup {j.entry.crash}
           /\ Advance(p, j, "core")
  <2>1. "core" \in Stage
    BY DEF Stage
  <2>2. /\ jobs' \in [FrontEnd -> SUBSET Job] /\ \A q \in FrontEnd \ {p} : jobs'[q] = jobs[q]
        /\ \E k \in Job : /\ k.entry = j.entry /\ k.kind = j.kind /\ k.stage = "core"
                          /\ jobs'[p] = (jobs[p] \ {j}) \cup {k}
    BY <1>7, <2>1, Advanced DEF IInv
  <2>3. /\ fd' \in [FrontEnd -> {"none", "temp", "json", "gone"}]
        /\ \A q \in FrontEnd : fd[q] = "none" => fd'[q] = "none"
    BY <1>7 DEF IInv, TypeOK
  <2>4. TypeOK'
    <3>1. declined' \subseteq Signature /\ temp' \in {NoFile} \cup SUBSET Signature
      BY <1>7 DEF IInv, TypeOK
    <3>2. ignored' \subseteq Signature /\ settled' \subseteq Crashes
      BY <1>4, <1>7 DEF IInv, TypeOK
    <3> QED  BY <1>1, <1>2, <2>2, <2>3, <3>1, <3>2 DEF IInv, TypeOK, Crashes, Entry, Job
  <2>5. CoreGoneMeansDecided'
    BY <1>1, <1>7 DEF IInv, CoreGoneMeansDecided, Crashes
  <2>6. JobsKnow' /\ OneSave'
    BY <1>1, <1>2, <1>3, <1>7, <2>2 DEF IInv, JobsKnow, OneSave, Saving
  <2>7. Alone'
    <3> SUFFICES ASSUME ~overlapped PROVE Alone'
      BY <1>1 DEF Alone
    <3>1. \A q \in FrontEnd : mine'[q] = {} /\ fd'[q] = "none"
      BY <1>2, <1>6, <2>3
    <3>2. \A q \in FrontEnd : \A i \in jobs'[q] : ~Saving(i)
      BY <1>3, <1>6, <2>2 DEF Saving
    <3>3. ignored' \subseteq declined'
      BY <1>4, <1>6, <1>7 DEF IInv, Alone
    <3> QED  BY <3>1, <3>2, <3>3 DEF Alone, Saving
  <2> QED  BY <1>5, <2>4, <2>5, <2>6, <2>7 DEF IInv
<1> QED  BY <1>0, <1>7 DEF RenameTemp

LEMMA RemoveCoreStep ==
    ASSUME IInv, NEW p \in FrontEnd, NEW j \in jobs[p], RemoveCore(p, j)
    PROVE  IInv'
<1>1. /\ UNCHANGED <<written, reports, declined, temp, running, live, mine, fd, seen,
                     consented, uploaded, settled, ignored, overlapped>>
      /\ j.stage = "core" /\ Advance(p, j, "file") /\ core' = core \ {j.entry.crash}
      /\ j.entry.crash \in settled /\ "file" \in Stage
  BY DEF RemoveCore, history, Stage, IInv, JobsKnow
<1>2. /\ jobs' \in [FrontEnd -> SUBSET Job] /\ \A q \in FrontEnd \ {p} : jobs'[q] = jobs[q]
      /\ \E k \in Job : /\ k.entry = j.entry /\ k.kind = j.kind /\ k.stage = "file"
                        /\ jobs'[p] = (jobs[p] \ {j}) \cup {k}
  BY <1>1, Advanced DEF IInv
<1>3. TypeOK'
  BY <1>1, <1>2 DEF IInv, TypeOK, Crashes, Entry, Job
<1>4. LiveSeen' /\ SentAsConsented' /\ CoreGoneMeansDecided'
  BY <1>1 DEF IInv, LiveSeen, SentAsConsented, CoreGoneMeansDecided, Crashes
<1>5. JobsKnow' /\ OneSave' /\ Alone'
  BY <1>1, <1>2 DEF IInv, JobsKnow, OneSave, Alone, Saving
<1> QED  BY <1>3, <1>4, <1>5 DEF IInv

LEMMA RemoveFileStep ==
    ASSUME IInv, NEW p \in FrontEnd, NEW j \in jobs[p], RemoveFile(p, j)
    PROVE  IInv'
<1>1. /\ UNCHANGED <<written, core, declined, temp, running, mine, fd, seen,
                     consented, uploaded, settled, ignored, overlapped>>
      /\ j.stage = "file" /\ End(p, j) /\ reports' = Remove(reports, j.entry.signature)
  BY DEF RemoveFile, history
<1>3. live' \in [FrontEnd -> SUBSET Entry] /\ \A q \in FrontEnd : live'[q] \subseteq live[q]
  BY DEF RemoveFile, IInv, TypeOK
<1>2. /\ jobs' \in [FrontEnd -> SUBSET Job] /\ \A q \in FrontEnd \ {p} : jobs'[q] = jobs[q]
      /\ jobs'[p] = jobs[p] \ {j}
  BY <1>1, Ended DEF IInv
<1>4. TypeOK'
  <2>1. DOMAIN reports' \subseteq Signature /\ reports' \in [DOMAIN reports' -> Reports]
    BY <1>1, Removed DEF IInv, TypeOK
  <2> QED  BY <1>1, <1>2, <1>3, <2>1 DEF IInv, TypeOK, Crashes, Entry, Job, Reports
<1>5. LiveSeen' /\ SentAsConsented' /\ CoreGoneMeansDecided'
  BY <1>1, <1>3 DEF IInv, LiveSeen, SentAsConsented, CoreGoneMeansDecided, Crashes
<1>6. JobsKnow' /\ OneSave' /\ Alone'
  BY <1>1, <1>2 DEF IInv, JobsKnow, OneSave, Alone, Saving
<1> QED  BY <1>4, <1>5, <1>6 DEF IInv

-----------------------------------------------------------------------------
\* The invariant holds in every state the directory and its front ends can reach.
THEOREM Inductive == Spec => []IInv
<1>1. IInv /\ [Next]_vars => IInv'
  <2> SUFFICES ASSUME IInv, [Next]_vars PROVE IInv'
    OBVIOUS
  <2>1. CASE UNCHANGED vars
    BY <2>1 DEF vars, files, process, history, IInv, TypeOK, Crashes, Entry, Job, LiveSeen, JobsKnow,
                OneSave, Alone, Saving, SentAsConsented, CoreGoneMeansDecided
  <2>2. ASSUME NEW p \in FrontEnd, NEW j \in jobs[p], Work(p, j)
        PROVE  IInv'
    BY <2>2, AskStep, OpenCoreStep, UploadStep, OpenTempStep, WriteTempStep, RenameTempStep,
       RemoveCoreStep, RemoveFileStep DEF Work
  <2>3. CASE Next
    BY <2>2, <2>3, DaemonStep, OpenStep, PressSendStep, PressDiscardStep, PressIgnoreStep,
       PressCloseStep, ExitStep DEF Next
  <2> QED  BY <2>1, <2>3
<1> QED  BY Initially, <1>1, PTL DEF Spec

\* Every variable keeps its type.
THEOREM TypeCorrect == Spec => []TypeOK
<1>1. IInv => TypeOK
  BY DEF IInv
<1> QED  BY Inductive, <1>1, PTL

\* Nothing is uploaded but what the user saw and pressed Send for.
THEOREM Consent == Spec => []SentAsConsented
<1>1. IInv => SentAsConsented
  BY DEF IInv
<1> QED  BY Inductive, <1>1, PTL

\* A core is removed only for a report that was decided on.
THEOREM CoresAreKept == Spec => []CoreGoneMeansDecided
<1>1. IInv => CoreGoneMeansDecided
  BY DEF IInv
<1> QED  BY Inductive, <1>1, PTL

\* What decline_forever has confirmed stays, unless two front ends were in it at once.
THEOREM IgnoredStays == Spec => []IgnoredStaysIgnored
<1>1. IInv => IgnoredStaysIgnored
  BY DEF IInv, Alone, IgnoredStaysIgnored
<1> QED  BY Inductive, <1>1, PTL

-----------------------------------------------------------------------------
(* The reports and the decisions on them *)

\* A report has its own name, and is the last written of it.
ReportsLatest == \A s \in DOMAIN reports :
    /\ written[reports[s].crash] = s
    /\ \A c \in Crashes : written[c] = s => c <= reports[s].crash

\* So has an entry of a list or of a job.
EntriesNamed == \A p \in FrontEnd :
    /\ \A e \in live[p] : written[e.crash] = e.signature
    /\ \A j \in jobs[p] : written[j.entry.crash] = j.entry.signature

\* A crash has a report, itself or by a later one of its signature, until the user
\* has decided on some report of that signature.
ReportWaits == \A c \in Crashes :
    \/ /\ written[c] \in DOMAIN reports
       /\ reports[written[c]].crash >= c /\ written[reports[written[c]].crash] = written[c]
    \/ \E d \in settled : written[d] = written[c]

DirInv ==
    /\ ReportsLatest /\ EntriesNamed
    /\ \A c \in Crashes : written[c] \in DOMAIN reports \/ \E d \in settled : written[d] = written[c]

\* A step that leaves the files of the reports alone, and takes its entries from the
\* lists, the jobs and the directory.
LEMMA FilesTheSame ==
    ASSUME TypeOK, DirInv, UNCHANGED <<written, reports>>, settled \subseteq settled',
           \A p \in FrontEnd :
               /\ \A e \in live'[p] : e \in live[p] \cup Listing
               /\ \A j \in jobs'[p] : \/ j.entry \in live[p] \cup Listing
                                      \/ \E i \in jobs[p] : i.entry = j.entry
    PROVE  DirInv'
<1>1. \A e \in Listing : written[e.crash] = e.signature
  BY DEF Listing, DirInv, ReportsLatest
<1>2. EntriesNamed'
  <2> SUFFICES ASSUME NEW p \in FrontEnd
               PROVE  /\ \A e \in live'[p] : written[e.crash] = e.signature
                      /\ \A j \in jobs'[p] : written[j.entry.crash] = j.entry.signature
    BY DEF EntriesNamed
  <2>1. \A e \in live[p] \cup Listing : written[e.crash] = e.signature
    BY <1>1 DEF DirInv, EntriesNamed
  <2>2. \A j \in jobs[p] : written[j.entry.crash] = j.entry.signature
    BY DEF DirInv, EntriesNamed
  <2>3. ASSUME NEW j \in jobs'[p] PROVE written[j.entry.crash] = j.entry.signature
    BY <2>1, <2>2
  <2> QED  BY <2>1, <2>3
<1>3. Crashes' = Crashes
  BY DEF Crashes
<1> QED  BY <1>2, <1>3 DEF DirInv, ReportsLatest

LEMMA DirDaemon ==
    ASSUME IInv, DirInv, NEW s \in Signature, NEW awaiting \in BOOLEAN, DaemonWrites(s, awaiting)
    PROVE  DirInv'
<1>1. PICK n \in Nat : n = Len(written) + 1
  BY DEF IInv, TypeOK
<1>2. /\ Crashes = 1..(n - 1) /\ Crashes' = 1..n
      /\ written' = Append(written, s) /\ written'[n] = s
      /\ \A c \in Crashes : written'[c] = written[c]
  BY <1>1 DEF IInv, TypeOK, DaemonWrites, Crashes
<1>3. /\ UNCHANGED <<live, jobs, settled>>
      /\ reports' = Put(reports, s, [crash |-> n, awaiting |-> awaiting])
  BY <1>1, <1>2 DEF DaemonWrites, process, history, IInv, TypeOK
<1>4. /\ DOMAIN reports' = DOMAIN reports \cup {s} /\ reports'[s].crash = n
      /\ \A r \in DOMAIN reports : r # s => reports'[r].crash = reports[r].crash
  BY <1>3 DEF Put
<1>5. /\ \A r \in DOMAIN reports : reports[r].crash \in Crashes
      /\ \A p \in FrontEnd : /\ \A e \in live[p] : e.crash \in Crashes
                             /\ \A j \in jobs[p] : j.entry.crash \in Crashes
      /\ settled \subseteq Crashes
  BY DEF IInv, TypeOK, Entry, Job
<1>6. ReportsLatest'
  <2> SUFFICES ASSUME NEW r \in DOMAIN reports'
               PROVE  /\ written'[reports'[r].crash] = r
                      /\ \A c \in Crashes' : written'[c] = r => c <= reports'[r].crash
    BY DEF ReportsLatest
  <2>1. CASE r = s
    <3>1. reports'[r].crash = n /\ written'[n] = r
      BY <1>2, <1>4, <2>1
    <3>2. \A c \in Crashes' : c <= n
      BY <1>2
    <3> QED  BY <3>1, <3>2
  <2>2. CASE r # s
    <3>1. PICK d \in Crashes : d = reports[r].crash /\ d = reports'[r].crash
      BY <1>4, <1>5, <2>2
    <3>2. written[d] = r /\ \A c \in Crashes : written[c] = r => c <= d
      BY <1>4, <2>2, <3>1 DEF DirInv, ReportsLatest
    <3>3. \A c \in Crashes' : c \in Crashes \/ c = n
      BY <1>2
    <3> QED  BY <1>2, <2>2, <3>1, <3>2, <3>3
  <2> QED  BY <2>1, <2>2
<1>7. EntriesNamed'
  BY <1>2, <1>3, <1>5 DEF DirInv, EntriesNamed
<1>8. ASSUME NEW c \in Crashes'
      PROVE  written'[c] \in DOMAIN reports' \/ \E d \in settled' : written'[d] = written'[c]
  <2>1. c \in Crashes \/ c = n
    BY <1>2
  <2>2. CASE c = n
    BY <1>2, <1>4, <2>2
  <2>3. CASE c \in Crashes
    <3>1. written[c] \in DOMAIN reports \/ \E d \in settled : written[d] = written[c]
      BY <2>3 DEF DirInv
    <3> QED  BY <1>2, <1>3, <1>4, <1>5, <2>3, <3>1
  <2> QED  BY <2>1, <2>2, <2>3
<1> QED  BY <1>6, <1>7, <1>8 DEF DirInv

LEMMA DirRemove ==
    ASSUME IInv, DirInv, NEW p \in FrontEnd, NEW j \in jobs[p], RemoveFile(p, j)
    PROVE  DirInv'
<1>1. /\ UNCHANGED <<written, settled>> /\ End(p, j) /\ Crashes' = Crashes
      /\ DOMAIN reports' = DOMAIN reports \ {j.entry.signature}
      /\ \A r \in DOMAIN reports' : reports'[r] = reports[r]
  BY DEF RemoveFile, Remove, history, Crashes
<1>2. \A q \in FrontEnd : jobs'[q] \subseteq jobs[q] /\ live'[q] \subseteq live[q]
  BY <1>1, Ended DEF IInv, TypeOK, RemoveFile
<1>3. j.entry.crash \in settled /\ written[j.entry.crash] = j.entry.signature
  BY DEF RemoveFile, IInv, JobsKnow, DirInv, EntriesNamed
<1>4. EntriesNamed' /\ ReportsLatest'
  BY <1>1, <1>2 DEF DirInv, EntriesNamed, ReportsLatest
<1>5. ASSUME NEW c \in Crashes
      PROVE  written[c] \in DOMAIN reports' \/ \E d \in settled : written[d] = written[c]
  BY <1>1, <1>3 DEF DirInv
<1> QED  BY <1>1, <1>4, <1>5 DEF DirInv

LEMMA DirWork ==
    ASSUME IInv, DirInv, NEW p \in FrontEnd, NEW j \in jobs[p], Work(p, j)
    PROVE  DirInv'
<1>1. CASE RemoveFile(p, j)
  BY <1>1, DirRemove
<1>2. CASE ~RemoveFile(p, j)
  <2>1. /\ UNCHANGED <<written, reports>> /\ settled \subseteq settled'
        /\ (\E stage \in Stage : Advance(p, j, stage)) \/ Finish(p, j) \/ End(p, j)
        /\ live' = live
    BY <1>2 DEF Work, Ask, OpenCore, Upload, OpenTemp, WriteTemp, RenameTemp, RemoveCore, GiveUp, files,
                history, Stage
  <2>2. \A q \in FrontEnd : live'[q] \subseteq live[q]
    BY <2>1
  <2>3. \A q \in FrontEnd : \A k \in jobs'[q] : \E i \in jobs[q] : i.entry = k.entry
    <3>1. CASE End(p, j)
      BY <3>1, Ended DEF IInv
    <3>2. ASSUME NEW stage \in Stage, Advance(p, j, stage)
          PROVE  \A q \in FrontEnd : \A k \in jobs'[q] : \E i \in jobs[q] : i.entry = k.entry
      <4>1. /\ \E k \in Job : k.entry = j.entry /\ jobs'[p] = (jobs[p] \ {j}) \cup {k}
            /\ \A q \in FrontEnd \ {p} : jobs'[q] = jobs[q]
        BY <3>2, Advanced DEF IInv
      <4> QED  BY <4>1
    <3>3. CASE Finish(p, j)
      <4>1. /\ \E k \in Job : k.entry = j.entry /\ jobs'[p] = (jobs[p] \ {j}) \cup {k}
            /\ \A q \in FrontEnd \ {p} : jobs'[q] = jobs[q]
        BY <3>3, Finished DEF IInv
      <4> QED  BY <4>1
    <3> QED  BY <2>1, <3>1, <3>2, <3>3
  <2> QED  BY <2>1, <2>2, <2>3, FilesTheSame DEF IInv
<1> QED  BY <1>1, <1>2

LEMMA DirClick ==
    ASSUME IInv, DirInv, NEW p \in FrontEnd,
           \/ Open(p) \/ PressClose(p) \/ Exit(p)
           \/ \E e \in live[p] : PressSend(p, e) \/ PressDiscard(p, e) \/ PressIgnore(p, e)
    PROVE  DirInv'
<1>1. live \in [FrontEnd -> SUBSET Entry] /\ jobs \in [FrontEnd -> SUBSET Job] /\ TypeOK
  BY DEF IInv, TypeOK
<1>2. CASE Open(p)
  <2>1. /\ UNCHANGED <<written, reports, jobs, settled>> /\ live' = [live EXCEPT ![p] = Listing]
    BY <1>2 DEF Open, files
  <2> QED  BY <1>1, <2>1, FilesTheSame
<1>3. CASE Exit(p)
  <2>1. /\ UNCHANGED <<written, reports, settled>> /\ live' = [live EXCEPT ![p] = {}]
        /\ jobs' = [jobs EXCEPT ![p] = {}]
    BY <1>3 DEF Exit, files, history
  <2> QED  BY <1>1, <2>1, FilesTheSame
<1>4. CASE PressClose(p)
  <2> DEFINE new == {[entry |-> e, stage |-> "core", kind |-> "close"] : e \in Listing}
  <2>1. /\ UNCHANGED <<written, reports>> /\ settled \subseteq settled'
        /\ live' = [live EXCEPT ![p] = {}] /\ jobs' = [jobs EXCEPT ![p] = @ \cup new]
    BY <1>4 DEF PressClose, Begin, files
  <2>2. \A k \in new : k.entry \in Listing
    OBVIOUS
  <2> HIDE DEF new
  <2> QED  BY <1>1, <2>1, <2>2, FilesTheSame
<1>5. ASSUME NEW e \in live[p], PressSend(p, e) \/ PressDiscard(p, e) \/ PressIgnore(p, e)
      PROVE  DirInv'
  <2>1. /\ UNCHANGED <<written, reports>> /\ settled \subseteq settled'
        /\ live' = live \/ live' = [live EXCEPT ![p] = @ \ {e}]
        /\ \E k : k.entry = e /\ jobs' = [jobs EXCEPT ![p] = @ \cup {k}]
    <3>1. CASE PressSend(p, e)
      <4> DEFINE k == [entry |-> e, stage |-> IF e.awaiting THEN "ask" ELSE "upload", kind |-> "send"]
      <4>1. k.entry = e /\ jobs' = [jobs EXCEPT ![p] = @ \cup {k}]
        BY <3>1 DEF PressSend, Begin
      <4> HIDE DEF k
      <4> QED  BY <3>1, <4>1 DEF PressSend, files
    <3>2. CASE PressDiscard(p, e)
      <4> DEFINE k == [entry |-> e, stage |-> "core", kind |-> "click"]
      <4>1. k.entry = e /\ jobs' = [jobs EXCEPT ![p] = @ \cup {k}]
        BY <3>2 DEF PressDiscard, Begin
      <4> HIDE DEF k
      <4> QED  BY <3>2, <4>1 DEF PressDiscard, files
    <3>3. CASE PressIgnore(p, e)
      <4> DEFINE k == [entry |-> e, stage |-> "open", kind |-> "click"]
      <4>1. k.entry = e /\ jobs' = [jobs EXCEPT ![p] = @ \cup {k}]
        BY <3>3 DEF PressIgnore, Begin
      <4> HIDE DEF k
      <4> QED  BY <3>3, <4>1 DEF PressIgnore, files
    <3> QED  BY <1>5, <3>1, <3>2, <3>3
  <2>2. \A q \in FrontEnd : live'[q] \subseteq live[q]
    BY <1>1, <2>1
  <2>3. \A q \in FrontEnd : \A k \in jobs'[q] : k.entry \in live[q] \/ k \in jobs[q]
    BY <1>1, <2>1
  <2> QED  BY <1>1, <2>1, <2>2, <2>3, FilesTheSame
<1> QED  BY <1>2, <1>3, <1>4, <1>5

\* In every reachable state.
LEMMA DirInductive == Spec => []DirInv
<1>1. Init => DirInv
  BY DEF Init, DirInv, ReportsLatest, EntriesNamed, Crashes
<1>2. ASSUME IInv, DirInv, [Next]_vars PROVE DirInv'
  <2>1. CASE UNCHANGED vars
    <3>1. UNCHANGED <<written, reports, live, jobs, settled>>
      BY <2>1 DEF vars, files, process, history
    <3> QED  BY <1>2, <3>1, FilesTheSame DEF IInv
  <2>2. CASE Next
    <3>1. ASSUME NEW s \in Signature, NEW awaiting \in BOOLEAN, DaemonWrites(s, awaiting) PROVE DirInv'
      BY <1>2, <3>1, DirDaemon
    <3>2. ASSUME NEW p \in FrontEnd, NEW j \in jobs[p], Work(p, j) PROVE DirInv'
      BY <1>2, <3>2, DirWork
    <3>3. ASSUME NEW p \in FrontEnd,
                 \/ Open(p) \/ PressClose(p) \/ Exit(p)
                 \/ \E e \in live[p] : PressSend(p, e) \/ PressDiscard(p, e) \/ PressIgnore(p, e)
          PROVE  DirInv'
      BY <1>2, <3>3, DirClick
    <3> QED  BY <2>2, <3>1, <3>2, <3>3 DEF Next
  <2> QED  BY <1>2, <2>1, <2>2
<1> QED  BY <1>1, <1>2, Inductive, PTL DEF Spec

\* No report is lost to front ends that race with the daemon or are killed: a crash
\* keeps its report, or that of a later crash of its signature, until the user has
\* decided on a report of that signature (write_pending, PendingStore::remove).
THEOREM ReportsWait == Spec => []ReportWaits
<1>1. ASSUME DirInv, IInv PROVE ReportWaits
  <2> SUFFICES ASSUME NEW c \in Crashes, written[c] \in DOMAIN reports
               PROVE  /\ reports[written[c]].crash >= c
                      /\ written[reports[written[c]].crash] = written[c]
    BY <1>1 DEF DirInv, ReportWaits
  <2>1. PICK d \in Crashes : d = reports[written[c]].crash
    BY <1>1 DEF IInv, TypeOK
  <2>2. written[d] = written[c] /\ c <= d
    BY <1>1, <2>1 DEF DirInv, ReportsLatest
  <2>3. c \in Int /\ d \in Int
    BY <1>1 DEF IInv, TypeOK, Crashes
  <2> QED  BY <2>1, <2>2, <2>3
<1>2. DirInv /\ IInv => ReportWaits
  BY <1>1
<1> QED  BY <1>2, DirInductive, Inductive, PTL

\* What takes a report away is a decision on it, or on an earlier report of its
\* signature.
ByDecision == \A s \in DOMAIN reports \ DOMAIN reports' :
    \E d \in settled : written[d] = s /\ d <= reports[s].crash
RemovedByDecision == [][ByDecision]_vars

\* A decision never removes the report of another problem, nor one older than the one
\* decided on: what breaks UnseenIsNeverDiscarded is a newer report of the same
\* signature, or the second listing of a window that closes.
THEOREM ReportsGoByDecision == Spec => RemovedByDecision
<1>1. ASSUME IInv, DirInv, Next PROVE ByDecision
  <2>1. ASSUME NEW p \in FrontEnd, NEW j \in jobs[p], RemoveFile(p, j) PROVE ByDecision
    <3>1. DOMAIN reports \ DOMAIN reports' \subseteq {j.entry.signature}
      BY <2>1 DEF RemoveFile, Remove
    <3>2. j.entry.crash \in settled /\ written[j.entry.crash] = j.entry.signature /\ settled \subseteq Crashes
      BY <1>1, <2>1 DEF RemoveFile, IInv, JobsKnow, DirInv, EntriesNamed, TypeOK
    <3> QED  BY <1>1, <3>1, <3>2 DEF ByDecision, DirInv, ReportsLatest
  <2>2. ASSUME NEW p \in FrontEnd, NEW j \in jobs[p], Work(p, j) PROVE ByDecision
    <3>1. RemoveFile(p, j) \/ reports' = reports
      BY <2>2 DEF Work, Ask, OpenCore, Upload, OpenTemp, WriteTemp, RenameTemp, RemoveCore, files
    <3> QED  BY <2>1, <3>1 DEF ByDecision
  <2>3. CASE reports' = reports
    BY <2>3 DEF ByDecision
  <2>4. ASSUME NEW s \in Signature, NEW awaiting \in BOOLEAN, DaemonWrites(s, awaiting) PROVE ByDecision
    BY <2>4 DEF DaemonWrites, Put, ByDecision
  <2>5. ASSUME NEW p \in FrontEnd,
               \/ Open(p) \/ PressClose(p) \/ Exit(p)
               \/ \E e \in live[p] : PressSend(p, e) \/ PressDiscard(p, e) \/ PressIgnore(p, e)
        PROVE  ByDecision
    <3>1. reports' = reports
      BY <2>5 DEF Open, PressClose, Exit, PressSend, PressDiscard, PressIgnore, files
    <3> QED  BY <2>3, <3>1
  <2> QED  BY <1>1, <2>2, <2>4, <2>5 DEF Next
<1>2. IInv /\ DirInv /\ [Next]_vars => [ByDecision]_vars
  BY <1>1
<1> QED  BY <1>2, Inductive, DirInductive, PTL DEF Spec, RemovedByDecision

=============================================================================
