------------------------- MODULE IngestServerProofs -------------------------
(***************************************************************************)
(* Proofs about IngestServer, for every number of signatures, events,      *)
(* reports and tasks and every quota and batch length.                     *)
(***************************************************************************)
EXTENDS IngestServer, FiniteSetTheorems, TLAPS

\* What Put does to a table: the new row is there, the others are as before.
LEMMA PutRow ==
    ASSUME NEW T, NEW k, NEW r
    PROVE  /\ DOMAIN Put(T, k, r) = DOMAIN T \cup {k}
           /\ Put(T, k, r)[k] = r
           /\ \A j \in DOMAIN T : j # k => Put(T, k, r)[j] = T[j]
  BY DEF Put

\* Put keeps a table a table.
LEMMA PutTable ==
    ASSUME NEW Key, NEW Row, NEW T, IsTable(T, Key, Row), NEW k \in Key, NEW r \in Row
    PROVE  IsTable(Put(T, k, r), Key, Row)
  BY DEF Put, IsTable

\* The row image every upsert starts from is a signature row.
LEMMA RowOfType ==
    ASSUME IsTable(signatures, Signature, SignatureRow), NEW s \in Signature
    PROVE  RowOf(s) \in SignatureRow
  BY DEF IsTable, RowOf, NewRow, SignatureRow

\* Counting keeps a row a row.
LEMMA CountedRow ==
    ASSUME NEW image \in SignatureRow
    PROVE  /\ [image EXCEPT !.events = @ + 1] \in SignatureRow
           /\ [image EXCEPT !.payloads = @ + 1] \in SignatureRow
  BY DEF SignatureRow

-----------------------------------------------------------------------------
\* Type correctness is preserved by every step, given that a task inside a
\* batch has a batch (LocksFollowTransactions).
LEMMA TypeStep == TypeOK /\ LocksFollowTransactions /\ OneUploadPerToken
                    /\ EveryTokenWasWanted /\ [Next]_vars => TypeOK'
<1> SUFFICES ASSUME TypeOK, LocksFollowTransactions, OneUploadPerToken,
                    EveryTokenWasWanted, [Next]_vars
             PROVE  TypeOK'
  OBVIOUS
<1> USE DEF tables, tasks
<1>1. ASSUME NEW h \in Handler, NEW b \in Batches, PostEvents(h, b)
      PROVE  TypeOK'
  <2>1. b \in Seq(Request)
    BY QuotaAssumption DEF Batches
  <2>. QED
    BY <1>1, <2>1 DEF TypeOK, PostEvents, Goto
<1>2. ASSUME NEW h \in Handler, UpsertSignature(h)
      PROVE  TypeOK'
  <2> DEFINE s == Head(batch[h]).signature
  <2>0. Head(batch[h]) \in Request
    BY <1>2 DEF TypeOK, UpsertSignature
  <2>1. s \in Signature
    BY <2>0 DEF Request
  <2>2. [RowOf(s) EXCEPT !.events = @ + 1] \in SignatureRow
    BY <2>1, RowOfType, CountedRow DEF TypeOK
  <2>3. row' \in [Handler -> SignatureRow]
    BY <1>2, <2>2 DEF TypeOK, UpsertSignature
  <2>4. lock' \in [Signature -> Handler \cup {None}]
    BY <1>2, <2>1 DEF TypeOK, UpsertSignature, Lock
  <2>. QED
    BY <1>2, <2>3, <2>4 DEF TypeOK, UpsertSignature, Goto
<1>3. ASSUME NEW h \in Handler, NEW e \in Event, InsertEvent(h, e)
      PROVE  TypeOK'
  <2> DEFINE request == Head(batch[h])
             wanted == NeedPayload(request, row[h])
  <2>0. request \in Request /\ Tail(batch[h]) \in Seq(Request)
    BY <1>3 DEF TypeOK, InsertEvent, Goto, LocksFollowTransactions
  <2>1. /\ request.signature \in Signature /\ request.core_available \in BOOLEAN
        /\ Tail(batch[h]) \in Seq(Request)
    BY <2>0 DEF Request
  <2>2. wanted \in BOOLEAN /\ row[h] \in SignatureRow
    BY <2>1, QuotaAssumption DEF NeedPayload, TypeOK, SignatureRow
  <2>3. IsTable(signatures', Signature, SignatureRow)
    BY <1>3, <2>1, <2>2, PutTable DEF InsertEvent, TypeOK
  <2>4. IsTable(events', Event, EventRow)
    <3>1. [signature |-> request.signature, payload_wanted |-> wanted] \in EventRow
      BY <2>1, <2>2 DEF EventRow
    <3>. QED
      BY <1>3, <3>1, PutTable DEF InsertEvent, TypeOK
  <2>5. NewRow \in SignatureRow
    BY DEF NewRow, SignatureRow
  <2>6. lock' \in [Signature -> Handler \cup {None}]
    BY <1>3 DEF InsertEvent, Unlock, TypeOK
  <2>7. pc' \in [Handler -> {"idle", "next", "insert", "issue", "stream", "report"}]
    BY <1>3 DEF InsertEvent, Goto, TypeOK
  <2>8. batch' \in [Handler -> Seq(Request)]
    BY <1>3, <2>1 DEF InsertEvent, TypeOK
  <2>. QED
    BY <1>3, <2>3, <2>4, <2>5, <2>6, <2>7, <2>8 DEF InsertEvent, TypeOK
<1>4. ASSUME NEW h \in Handler, IssueToken(h)
      PROVE  TypeOK'
  <2> DEFINE new == [signature |-> Head(batch[h]).signature,
                     redeemed |-> FALSE, expired |-> FALSE]
  <2>0. Head(batch[h]) \in Request /\ Tail(batch[h]) \in Seq(Request)
    BY <1>4 DEF TypeOK, IssueToken, Goto, LocksFollowTransactions
  <2>1. current[h] \in Event /\ Tail(batch[h]) \in Seq(Request) /\ new \in TokenRow
    BY <1>4, <2>0 DEF TypeOK, IssueToken, Goto, EveryTokenWasWanted, Request, TokenRow, IsTable
  <2>2. IsTable(upload_tokens', Event, TokenRow)
    BY <1>4, <2>1, PutTable DEF IssueToken, TypeOK
  <2>. QED
    BY <1>4, <2>1, <2>2 DEF TypeOK, IssueToken, Goto
<1>5. ASSUME NEW h \in Handler, Respond(h)
      PROVE  TypeOK'
  BY <1>5 DEF TypeOK, Respond, Goto, Drop, NewRow, SignatureRow
<1>6. ASSUME NEW h \in Handler, NEW t \in Event, RedeemToken(h, t)
      PROVE  TypeOK'
  <2>1. IsTable(upload_tokens', Event, TokenRow)
    BY <1>6 DEF TypeOK, RedeemToken, IsTable, TokenRow
  <2>. QED
    BY <1>6, <2>1 DEF TypeOK, RedeemToken, Goto
<1>7. ASSUME NEW h \in Handler, UpdateSignature(h)
      PROVE  TypeOK'
  <2> DEFINE s == upload_tokens[current[h]].signature
  <2>1. s \in DOMAIN signatures /\ s \in Signature
    BY <1>7 DEF TypeOK, UpdateSignature, Goto, OneUploadPerToken, Uploading,
                EveryTokenWasWanted, IsTable
  <2>2. [signatures[s] EXCEPT !.payloads = @ + 1] \in SignatureRow
    BY <2>1, CountedRow DEF TypeOK, IsTable
  <2>3. row' \in [Handler -> SignatureRow]
    BY <1>7, <2>2 DEF TypeOK, UpdateSignature
  <2>4. lock' \in [Signature -> Handler \cup {None}]
    BY <1>7, <2>1 DEF TypeOK, UpdateSignature, Lock
  <2>. QED
    BY <1>7, <2>3, <2>4 DEF TypeOK, UpdateSignature, Goto
<1>8. ASSUME NEW h \in Handler, NEW r \in Report, CommitReport(h, r)
      PROVE  TypeOK'
  <2> DEFINE s == upload_tokens[current[h]].signature
  <2>1. s \in Signature /\ current[h] \in Event
    BY <1>8 DEF TypeOK, CommitReport, Goto, OneUploadPerToken, Uploading,
                EveryTokenWasWanted, IsTable
  <2>2. IsTable(signatures', Signature, SignatureRow)
    BY <1>8, <2>1, PutTable DEF CommitReport, TypeOK
  <2>3. IsTable(reports', Report, ReportRow)
    <3>1. [event_id |-> current[h], signature |-> s] \in ReportRow
      BY <2>1 DEF ReportRow
    <3>. QED
      BY <1>8, <3>1, PutTable DEF CommitReport, TypeOK
  <2>. QED
    BY <1>8, <2>2, <2>3 DEF TypeOK, CommitReport, Goto, Drop, Unlock, NewRow, SignatureRow
<1>9. ASSUME NEW h \in Handler, Fail(h)
      PROVE  TypeOK'
  BY <1>9 DEF TypeOK, Fail, Drop, Unlock, NewRow, SignatureRow
<1>10. ASSUME NEW t \in Event, TokenExpires(t)
       PROVE  TypeOK'
  <2>1. IsTable(upload_tokens', Event, TokenRow)
    BY <1>10 DEF TypeOK, TokenExpires, IsTable, TokenRow
  <2>. QED
    BY <1>10, <2>1 DEF TypeOK, TokenExpires
<1>11. ASSUME NEW s \in Signature, Suppress(s)
       PROVE  TypeOK'
  <2>1. IsTable(signatures', Signature, SignatureRow)
    BY <1>11 DEF TypeOK, Suppress, IsTable, SignatureRow
  <2>. QED
    BY <1>11, <2>1 DEF TypeOK, Suppress
<1>12. ASSUME UNCHANGED vars
       PROVE  TypeOK'
  BY <1>12 DEF TypeOK, vars
<1>. QED
  BY <1>1, <1>2, <1>3, <1>4, <1>5, <1>6, <1>7, <1>8, <1>9, <1>10, <1>11, <1>12
     DEF Next, Step

\* Issuing a token adds a row under a key that had none.
LEMMA IssueKeepsTokens ==
    ASSUME IInv, NEW h \in Handler, IssueToken(h)
    PROVE  /\ current[h] \in Event \ DOMAIN upload_tokens
           /\ DOMAIN upload_tokens' = DOMAIN upload_tokens \cup {current[h]}
           /\ upload_tokens'[current[h]] = [signature |-> Head(batch[h]).signature,
                                            redeemed |-> FALSE, expired |-> FALSE]
           /\ \A t \in DOMAIN upload_tokens : upload_tokens'[t] = upload_tokens[t]
<1>1. current[h] \in Event \ DOMAIN upload_tokens
  BY DEF IInv, TypeOK, IsTable, EveryTokenWasWanted, IssueToken, Goto
<1>. QED
  BY <1>1 DEF IssueToken, Put

\* A row lock belongs to the open transaction on that row, after every step.
LEMMA LocksStep == IInv /\ [Next]_vars => LocksFollowTransactions'
<1> SUFFICES ASSUME TypeOK, LocksFollowTransactions, EveryTokenWasWanted,
                    OneUploadPerToken, IInv, [Next]_vars
             PROVE  LocksFollowTransactions'
  BY DEF IInv
<1> USE NoneAssumption DEF tables, tasks
<1>1. ASSUME NEW h \in Handler, NEW b \in Batches, PostEvents(h, b)
      PROVE  LocksFollowTransactions'
  BY <1>1 DEF TypeOK, PostEvents, Goto, LocksFollowTransactions
<1>2. ASSUME NEW h \in Handler, UpsertSignature(h)
      PROVE  LocksFollowTransactions'
  BY <1>2 DEF TypeOK, UpsertSignature, Goto, Lock, LocksFollowTransactions
<1>3. ASSUME NEW h \in Handler, NEW e \in Event, InsertEvent(h, e)
      PROVE  LocksFollowTransactions'
  BY <1>3 DEF TypeOK, InsertEvent, Goto, Unlock, LocksFollowTransactions
<1>4. ASSUME NEW h \in Handler, IssueToken(h)
      PROVE  LocksFollowTransactions'
  <2>1. \A g \in Handler : pc[g] = "report" =>
           upload_tokens'[current[g]] = upload_tokens[current[g]]
    BY <1>4, IssueKeepsTokens DEF OneUploadPerToken, Uploading
  <2>2. /\ pc' = [pc EXCEPT ![h] = "next"] /\ pc[h] = "issue"
        /\ batch' = [batch EXCEPT ![h] = Tail(@)]
        /\ UNCHANGED <<lock, current>>
    BY <1>4 DEF IssueToken, Goto
  <2>3. \A g \in Handler : pc'[g] \in {"insert", "issue"} => batch'[g] # <<>>
    BY <2>2 DEF TypeOK, LocksFollowTransactions
  <2>4. ASSUME NEW g \in Handler, NEW s \in Signature
        PROVE  lock'[s] = g <=>
                 \/ pc'[g] = "insert" /\ s = Head(batch'[g]).signature
                 \/ pc'[g] = "report" /\ s = upload_tokens'[current'[g]].signature
    <3>1. lock[s] = g <=> \/ pc[g] = "insert" /\ s = Head(batch[g]).signature
                          \/ pc[g] = "report" /\ s = upload_tokens[current[g]].signature
      BY DEF LocksFollowTransactions
    <3>2. CASE g = h
      BY <2>2, <3>1, <3>2 DEF TypeOK
    <3>3. CASE g # h
      BY <2>1, <2>2, <3>1, <3>3 DEF TypeOK
    <3>. QED
      BY <3>2, <3>3
  <2>. QED
    BY <2>3, <2>4 DEF LocksFollowTransactions
<1>5. ASSUME NEW h \in Handler, Respond(h)
      PROVE  LocksFollowTransactions'
  BY <1>5 DEF TypeOK, Respond, Goto, Drop, LocksFollowTransactions
<1>6. ASSUME NEW h \in Handler, NEW t \in Event, RedeemToken(h, t)
      PROVE  LocksFollowTransactions'
  <2>1. \A u \in DOMAIN upload_tokens :
           upload_tokens'[u].signature = upload_tokens[u].signature
    BY <1>6 DEF TypeOK, RedeemToken, IsTable, TokenRow
  <2>2. \A g \in Handler : pc[g] = "report" => current[g] \in DOMAIN upload_tokens
    BY DEF OneUploadPerToken, Uploading
  <2>. QED
    BY <1>6, <2>1, <2>2 DEF TypeOK, RedeemToken, Goto, LocksFollowTransactions
<1>7. ASSUME NEW h \in Handler, UpdateSignature(h)
      PROVE  LocksFollowTransactions'
  BY <1>7 DEF TypeOK, UpdateSignature, Goto, Lock, LocksFollowTransactions
<1>8. ASSUME NEW h \in Handler, NEW r \in Report, CommitReport(h, r)
      PROVE  LocksFollowTransactions'
  BY <1>8 DEF TypeOK, CommitReport, Goto, Drop, Unlock, LocksFollowTransactions
<1>9. ASSUME NEW h \in Handler, Fail(h)
      PROVE  LocksFollowTransactions'
  BY <1>9 DEF TypeOK, Fail, Drop, Unlock, LocksFollowTransactions
<1>10. ASSUME NEW t \in Event, TokenExpires(t)
       PROVE  LocksFollowTransactions'
  <2>1. \A u \in DOMAIN upload_tokens :
           upload_tokens'[u].signature = upload_tokens[u].signature
    BY <1>10 DEF TypeOK, TokenExpires, IsTable, TokenRow
  <2>2. \A g \in Handler : pc[g] = "report" => current[g] \in DOMAIN upload_tokens
    BY DEF OneUploadPerToken, Uploading
  <2>. QED
    BY <1>10, <2>1, <2>2 DEF TypeOK, TokenExpires, LocksFollowTransactions
<1>11. ASSUME NEW s \in Signature, Suppress(s)
       PROVE  LocksFollowTransactions'
  BY <1>11 DEF TypeOK, Suppress, LocksFollowTransactions
<1>12. ASSUME UNCHANGED vars
       PROVE  LocksFollowTransactions'
  BY <1>12 DEF vars, LocksFollowTransactions
<1>. QED
  BY <1>1, <1>2, <1>3, <1>4, <1>5, <1>6, <1>7, <1>8, <1>9, <1>10, <1>11, <1>12
     DEF Next, Step

\* The row an open transaction works on is locked by its task, and known.
LEMMA OpenTransaction ==
    ASSUME IInv, NEW h \in Handler
    PROVE  /\ pc[h] = "insert" => /\ Head(batch[h]).signature \in Signature
                                  /\ lock[Head(batch[h]).signature] = h
           /\ Uploading(h) => /\ current[h] \in DOMAIN upload_tokens
                              /\ upload_tokens[current[h]].signature \in DOMAIN signatures
                              /\ upload_tokens[current[h]].signature \in Signature
           /\ pc[h] = "report" => lock[upload_tokens[current[h]].signature] = h
<1>1. ASSUME pc[h] = "insert"
      PROVE  Head(batch[h]).signature \in Signature
  <2>1. Head(batch[h]) \in Request
    BY <1>1 DEF IInv, TypeOK, LocksFollowTransactions
  <2>. QED
    BY <2>1 DEF Request
<1>2. ASSUME Uploading(h)
      PROVE  /\ current[h] \in DOMAIN upload_tokens
             /\ upload_tokens[current[h]].signature \in DOMAIN signatures
             /\ upload_tokens[current[h]].signature \in Signature
  BY <1>2 DEF IInv, TypeOK, OneUploadPerToken, EveryTokenWasWanted, IsTable
<1>. QED
  BY <1>1, <1>2 DEF IInv, LocksFollowTransactions, Uploading

\* The image of an open transaction stays the committed row plus its own
\* count, because the row is locked.
LEMMA ImagesStep == IInv /\ [Next]_vars => ImagesAreCurrent'
<1> SUFFICES ASSUME IInv, TypeOK, LocksFollowTransactions, ImagesAreCurrent,
                    [Next]_vars, NEW g \in Handler
             PROVE  /\ pc'[g] = "insert" =>
                        row'[g] = [RowOf(Head(batch[g]).signature)' EXCEPT !.events = @ + 1]
                    /\ pc'[g] = "report" =>
                        row'[g] = [RowOf(upload_tokens[current[g]].signature)'
                                        EXCEPT !.payloads = @ + 1]
  BY DEF IInv, ImagesAreCurrent
<1> DEFINE Goal ==
             /\ pc'[g] = "insert" =>
                 row'[g] = [RowOf(Head(batch[g]).signature)' EXCEPT !.events = @ + 1]
             /\ pc'[g] = "report" =>
                 row'[g] = [RowOf(upload_tokens[current[g]].signature)'
                                 EXCEPT !.payloads = @ + 1]
<1> USE NoneAssumption DEF tables, tasks
<1>0. /\ pc[g] = "insert" => row[g] = [RowOf(Head(batch[g]).signature) EXCEPT !.events = @ + 1]
      /\ pc[g] = "report" =>
           row[g] = [RowOf(upload_tokens[current[g]].signature) EXCEPT !.payloads = @ + 1]
  BY DEF ImagesAreCurrent
<1>1. ASSUME NEW h \in Handler, NEW b \in Batches, PostEvents(h, b)
      PROVE  Goal
  BY <1>0, <1>1 DEF TypeOK, PostEvents, Goto, RowOf
<1>2. ASSUME NEW h \in Handler, UpsertSignature(h)
      PROVE  Goal
  BY <1>0, <1>2 DEF TypeOK, UpsertSignature, Goto, RowOf
<1>3. ASSUME NEW h \in Handler, NEW e \in Event, InsertEvent(h, e)
      PROVE  Goal
  <2>1. /\ pc[h] = "insert" /\ pc'[h] \in {"issue", "next"}
        /\ \A k \in Handler \ {h} : pc'[k] = pc[k] /\ batch'[k] = batch[k]
                                    /\ row'[k] = row[k] /\ current'[k] = current[k]
        /\ upload_tokens' = upload_tokens
    BY <1>3 DEF InsertEvent, Goto, TypeOK
  <2>2. \A s \in Signature : s # Head(batch[h]).signature => RowOf(s)' = RowOf(s)
    BY <1>3 DEF InsertEvent, RowOf, Put
  <2>. QED
    BY <1>0, <2>1, <2>2, OpenTransaction DEF Uploading
<1>4. ASSUME NEW h \in Handler, IssueToken(h)
      PROVE  Goal
  <2>1. \A k \in Handler : pc[k] = "report" =>
           upload_tokens'[current[k]] = upload_tokens[current[k]]
    BY <1>4, IssueKeepsTokens DEF IInv, OneUploadPerToken, Uploading
  <2>. QED
    BY <1>0, <1>4, <2>1 DEF TypeOK, IssueToken, Goto, RowOf
<1>5. ASSUME NEW h \in Handler, Respond(h)
      PROVE  Goal
  BY <1>0, <1>5 DEF TypeOK, Respond, Goto, Drop, RowOf
<1>6. ASSUME NEW h \in Handler, NEW t \in Event, RedeemToken(h, t)
      PROVE  Goal
  <2>1. \A u \in DOMAIN upload_tokens :
           upload_tokens'[u].signature = upload_tokens[u].signature
    BY <1>6 DEF RedeemToken, TypeOK, IsTable, TokenRow
  <2>2. pc[g] = "report" => current[g] \in DOMAIN upload_tokens
    BY OpenTransaction DEF Uploading
  <2>. QED
    BY <1>0, <1>6, <2>1, <2>2 DEF TypeOK, RedeemToken, Goto, RowOf
<1>7. ASSUME NEW h \in Handler, UpdateSignature(h)
      PROVE  Goal
  <2>1. pc[h] = "stream" => upload_tokens[current[h]].signature \in DOMAIN signatures
    BY OpenTransaction DEF Uploading
  <2>. QED
    BY <1>0, <1>7, <2>1 DEF TypeOK, UpdateSignature, Goto, RowOf
<1>8. ASSUME NEW h \in Handler, NEW r \in Report, CommitReport(h, r)
      PROVE  Goal
  <2>1. /\ pc[h] = "report" /\ pc'[h] = "idle"
        /\ \A k \in Handler \ {h} : pc'[k] = pc[k] /\ batch'[k] = batch[k]
                                    /\ row'[k] = row[k] /\ current'[k] = current[k]
        /\ upload_tokens' = upload_tokens
    BY <1>8 DEF CommitReport, Goto, Drop, TypeOK
  <2>2. \A s \in Signature : s # upload_tokens[current[h]].signature => RowOf(s)' = RowOf(s)
    BY <1>8 DEF CommitReport, RowOf, Put
  <2>. QED
    BY <1>0, <2>1, <2>2, OpenTransaction DEF Uploading
<1>9. ASSUME NEW h \in Handler, Fail(h)
      PROVE  Goal
  BY <1>0, <1>9 DEF TypeOK, Fail, Drop, RowOf
<1>10. ASSUME NEW t \in Event, TokenExpires(t)
       PROVE  Goal
  <2>1. \A u \in DOMAIN upload_tokens :
           upload_tokens'[u].signature = upload_tokens[u].signature
    BY <1>10 DEF TokenExpires, TypeOK, IsTable, TokenRow
  <2>2. pc[g] = "report" => current[g] \in DOMAIN upload_tokens
    BY OpenTransaction DEF Uploading
  <2>. QED
    BY <1>0, <1>10, <2>1, <2>2 DEF TokenExpires, RowOf
<1>11. ASSUME NEW s \in Signature, Suppress(s)
       PROVE  Goal
  <2>1. \A q \in Signature : q # s => RowOf(q)' = RowOf(q)
    BY <1>11 DEF Suppress, RowOf
  <2>2. /\ pc[g] = "insert" => Head(batch[g]).signature # s
        /\ pc[g] = "report" => upload_tokens[current[g]].signature # s
    BY <1>11, OpenTransaction DEF Suppress, Uploading
  <2>. QED
    BY <1>0, <1>11, <2>1, <2>2, OpenTransaction DEF Suppress, Uploading
<1>12. ASSUME UNCHANGED vars
       PROVE  Goal
  BY <1>0, <1>12 DEF vars, RowOf
<1>. QED
  BY <1>1, <1>2, <1>3, <1>4, <1>5, <1>6, <1>7, <1>8, <1>9, <1>10, <1>11, <1>12
     DEF Next, Step

\* Tokens keep belonging to wanted events, one issuer each.
LEMMA TokensStep == IInv /\ [Next]_vars => EveryTokenWasWanted'
<1> SUFFICES ASSUME IInv, TypeOK, EveryTokenWasWanted, [Next]_vars
             PROVE  EveryTokenWasWanted'
  BY DEF IInv
<1> USE NoneAssumption DEF tables, tasks
<1>1. ASSUME NEW h \in Handler, NEW b \in Batches, PostEvents(h, b)
      PROVE  EveryTokenWasWanted'
  BY <1>1 DEF TypeOK, PostEvents, Goto, EveryTokenWasWanted
<1>2. ASSUME NEW h \in Handler, UpsertSignature(h)
      PROVE  EveryTokenWasWanted'
  BY <1>2 DEF TypeOK, UpsertSignature, Goto, EveryTokenWasWanted
<1>3. ASSUME NEW h \in Handler, NEW e \in Event, InsertEvent(h, e)
      PROVE  EveryTokenWasWanted'
  <2> DEFINE request == Head(batch[h])
             wanted == NeedPayload(request, row[h])
  <2>1. /\ e \notin DOMAIN events /\ DOMAIN events' = DOMAIN events \cup {e}
        /\ events'[e] = [signature |-> request.signature, payload_wanted |-> wanted]
        /\ \A d \in DOMAIN events : events'[d] = events[d]
        /\ DOMAIN signatures' = DOMAIN signatures \cup {request.signature}
        /\ UNCHANGED upload_tokens
    BY <1>3 DEF InsertEvent, Put
  <2>2. /\ pc'[h] = "issue" => wanted
        /\ pc'[h] = "issue" => batch'[h] = batch[h] /\ current'[h] = e
        /\ \A k \in Handler \ {h} : pc'[k] = pc[k] /\ batch'[k] = batch[k]
                                    /\ current'[k] = current[k]
    BY <1>3 DEF InsertEvent, Goto, TypeOK
  <2>3. \A d \in DOMAIN events' : events'[d].signature \in DOMAIN signatures'
    BY <2>1 DEF EveryTokenWasWanted
  <2>4. \A t \in DOMAIN upload_tokens' :
          /\ t \in DOMAIN events' /\ events'[t].payload_wanted
          /\ upload_tokens'[t].signature = events'[t].signature
    BY <2>1 DEF EveryTokenWasWanted
  <2>5. \A k \in Handler : pc'[k] = "issue" =>
          /\ current'[k] \in DOMAIN events' \ DOMAIN upload_tokens'
          /\ events'[current'[k]].payload_wanted
          /\ events'[current'[k]].signature = Head(batch'[k]).signature
    BY <2>1, <2>2 DEF EveryTokenWasWanted
  <2>6. \A k, g \in Handler :
          pc'[k] = "issue" /\ pc'[g] = "issue" /\ current'[k] = current'[g] => k = g
    BY <2>1, <2>2 DEF EveryTokenWasWanted
  <2>. QED
    BY <2>3, <2>4, <2>5, <2>6 DEF EveryTokenWasWanted
<1>4. ASSUME NEW h \in Handler, IssueToken(h)
      PROVE  EveryTokenWasWanted'
  <2>1. /\ pc[h] = "issue" /\ pc'[h] = "next"
        /\ \A k \in Handler \ {h} : pc'[k] = pc[k] /\ batch'[k] = batch[k]
        /\ UNCHANGED <<current, events, signatures>>
    BY <1>4 DEF IssueToken, Goto, TypeOK
  <2>2. /\ DOMAIN upload_tokens' = DOMAIN upload_tokens \cup {current[h]}
        /\ upload_tokens'[current[h]].signature = Head(batch[h]).signature
        /\ \A t \in DOMAIN upload_tokens : upload_tokens'[t] = upload_tokens[t]
    <3>1. upload_tokens'[current[h]] = [signature |-> Head(batch[h]).signature,
                                        redeemed |-> FALSE, expired |-> FALSE]
      BY <1>4, IssueKeepsTokens
    <3>2. upload_tokens'[current[h]].signature = Head(batch[h]).signature
      BY <3>1
    <3>. QED
      BY <1>4, <3>2, IssueKeepsTokens
  <2>3. \A t \in DOMAIN upload_tokens' :
          /\ t \in DOMAIN events' /\ events'[t].payload_wanted
          /\ upload_tokens'[t].signature = events'[t].signature
    BY <2>1, <2>2 DEF EveryTokenWasWanted
  <2>4. \A k \in Handler : pc'[k] = "issue" =>
          k # h /\ pc[k] = "issue" /\ current[k] # current[h]
    BY <2>1 DEF EveryTokenWasWanted
  <2>. QED
    BY <2>1, <2>2, <2>3, <2>4 DEF EveryTokenWasWanted
<1>5. ASSUME NEW h \in Handler, Respond(h)
      PROVE  EveryTokenWasWanted'
  BY <1>5 DEF TypeOK, Respond, Goto, Drop, EveryTokenWasWanted
<1>6. ASSUME NEW h \in Handler, NEW t \in Event, RedeemToken(h, t)
      PROVE  EveryTokenWasWanted'
  <2>1. /\ DOMAIN upload_tokens' = DOMAIN upload_tokens
        /\ \A u \in DOMAIN upload_tokens :
             upload_tokens'[u].signature = upload_tokens[u].signature
    BY <1>6 DEF RedeemToken, TypeOK, IsTable, TokenRow
  <2>. QED
    BY <1>6, <2>1 DEF TypeOK, RedeemToken, Goto, EveryTokenWasWanted
<1>7. ASSUME NEW h \in Handler, UpdateSignature(h)
      PROVE  EveryTokenWasWanted'
  BY <1>7 DEF TypeOK, UpdateSignature, Goto, EveryTokenWasWanted
<1>8. ASSUME NEW h \in Handler, NEW r \in Report, CommitReport(h, r)
      PROVE  EveryTokenWasWanted'
  <2>1. DOMAIN signatures \subseteq DOMAIN signatures'
    BY <1>8 DEF CommitReport, Put
  <2>. QED
    BY <1>8, <2>1 DEF TypeOK, CommitReport, Goto, Drop, EveryTokenWasWanted
<1>9. ASSUME NEW h \in Handler, Fail(h)
      PROVE  EveryTokenWasWanted'
  BY <1>9 DEF TypeOK, Fail, Drop, EveryTokenWasWanted
<1>10. ASSUME NEW t \in Event, TokenExpires(t)
       PROVE  EveryTokenWasWanted'
  <2>1. /\ DOMAIN upload_tokens' = DOMAIN upload_tokens
        /\ \A u \in DOMAIN upload_tokens :
             upload_tokens'[u].signature = upload_tokens[u].signature
    BY <1>10 DEF TokenExpires, TypeOK, IsTable, TokenRow
  <2>. QED
    BY <1>10, <2>1 DEF TokenExpires, EveryTokenWasWanted
<1>11. ASSUME NEW s \in Signature, Suppress(s)
       PROVE  EveryTokenWasWanted'
  BY <1>11 DEF Suppress, EveryTokenWasWanted
<1>12. ASSUME UNCHANGED vars
       PROVE  EveryTokenWasWanted'
  BY <1>12 DEF vars, EveryTokenWasWanted
<1>. QED
  BY <1>1, <1>2, <1>3, <1>4, <1>5, <1>6, <1>7, <1>8, <1>9, <1>10, <1>11, <1>12
     DEF Next, Step

\* Reports and uploads: what may change them is the redeeming of a token and
\* the commit of a report.
LEMMA ReportsStep == IInv /\ [Next]_vars => EveryReportWasAskedFor' /\ OneUploadPerToken'
<1> DEFINE Goal == EveryReportWasAskedFor' /\ OneUploadPerToken'
<1> SUFFICES ASSUME IInv, TypeOK, EveryTokenWasWanted, EveryReportWasAskedFor,
                    OneUploadPerToken, [Next]_vars
             PROVE  Goal
  BY DEF IInv
<1> USE NoneAssumption DEF tables, tasks, Stored, Uploading
<1>1. ASSUME NEW h \in Handler, NEW b \in Batches, PostEvents(h, b)
      PROVE  Goal
  BY <1>1 DEF TypeOK, PostEvents, Goto, EveryReportWasAskedFor, OneUploadPerToken
<1>2. ASSUME NEW h \in Handler, UpsertSignature(h)
      PROVE  Goal
  BY <1>2 DEF TypeOK, UpsertSignature, Goto, EveryReportWasAskedFor, OneUploadPerToken
<1>3. ASSUME NEW h \in Handler, NEW e \in Event, InsertEvent(h, e)
      PROVE  Goal
  <2>1. /\ DOMAIN events \subseteq DOMAIN events'
        /\ \A d \in DOMAIN events : events'[d] = events[d]
        /\ UNCHANGED <<upload_tokens, reports>>
    BY <1>3 DEF InsertEvent, Put
  <2>2. /\ pc'[h] \in {"issue", "next"}
        /\ \A k \in Handler \ {h} : pc'[k] = pc[k] /\ current'[k] = current[k]
    BY <1>3 DEF InsertEvent, Goto, TypeOK
  <2>. QED
    <3>1. EveryReportWasAskedFor'
      BY <2>1 DEF EveryReportWasAskedFor
    <3>2. \A k \in Handler : Uploading(k)' => Uploading(k) /\ current'[k] = current[k]
      BY <2>2
    <3>. QED
      BY <2>1, <3>1, <3>2 DEF OneUploadPerToken
<1>4. ASSUME NEW h \in Handler, IssueToken(h)
      PROVE  Goal
  <2>1. /\ pc'[h] = "next" /\ \A k \in Handler \ {h} : pc'[k] = pc[k]
        /\ UNCHANGED <<current, events, reports>>
    BY <1>4 DEF IssueToken, Goto, TypeOK
  <2>. QED
    BY <2>1, <1>4, IssueKeepsTokens DEF EveryReportWasAskedFor, OneUploadPerToken
<1>5. ASSUME NEW h \in Handler, Respond(h)
      PROVE  Goal
  BY <1>5 DEF TypeOK, Respond, Goto, Drop, EveryReportWasAskedFor, OneUploadPerToken
<1>6. ASSUME NEW h \in Handler, NEW t \in Event, RedeemToken(h, t)
      PROVE  Goal
  <2>1. /\ t \in DOMAIN upload_tokens /\ ~upload_tokens[t].redeemed
        /\ upload_tokens'[t].redeemed
        /\ DOMAIN upload_tokens' = DOMAIN upload_tokens
        /\ \A u \in DOMAIN upload_tokens \ {t} : upload_tokens'[u] = upload_tokens[u]
        /\ UNCHANGED <<events, reports>>
    BY <1>6 DEF RedeemToken, TypeOK, IsTable, TokenRow
  <2>2. /\ current'[h] = t
        /\ \A k \in Handler \ {h} : pc'[k] = pc[k] /\ current'[k] = current[k]
    BY <1>6 DEF RedeemToken, Goto, TypeOK
  <2>3. ~Stored(t) /\ \A k \in Handler : Uploading(k) => current[k] # t
    BY <2>1 DEF EveryReportWasAskedFor, OneUploadPerToken
  <2>4. EveryReportWasAskedFor'
    BY <2>1 DEF EveryReportWasAskedFor
  <2>. QED
    BY <2>1, <2>2, <2>3, <2>4 DEF OneUploadPerToken
<1>7. ASSUME NEW h \in Handler, UpdateSignature(h)
      PROVE  Goal
  BY <1>7 DEF TypeOK, UpdateSignature, Goto, EveryReportWasAskedFor, OneUploadPerToken
<1>8. ASSUME NEW h \in Handler, NEW r \in Report, CommitReport(h, r)
      PROVE  Goal
  <2> DEFINE e == current[h]
             s == upload_tokens[e].signature
  <2>1. /\ r \notin DOMAIN reports /\ DOMAIN reports' = DOMAIN reports \cup {r}
        /\ reports'[r] = [event_id |-> e, signature |-> s]
        /\ \A q \in DOMAIN reports : reports'[q] = reports[q]
        /\ UNCHANGED <<events, upload_tokens>>
    BY <1>8 DEF CommitReport, Put
  <2>2. /\ pc[h] = "report" /\ pc'[h] = "idle"
        /\ \A k \in Handler \ {h} : pc'[k] = pc[k] /\ current'[k] = current[k]
    BY <1>8 DEF CommitReport, Goto, Drop, TypeOK
  <2>3. /\ e \in DOMAIN upload_tokens /\ upload_tokens[e].redeemed /\ ~Stored(e)
        /\ e \in DOMAIN events /\ events[e].payload_wanted /\ s = events[e].signature
    BY <2>2 DEF OneUploadPerToken, EveryTokenWasWanted
  <2>4. EveryReportWasAskedFor'
    <3>1. \A q \in DOMAIN reports' :
            LET d == reports'[q].event_id IN
            /\ d \in DOMAIN events' /\ events'[d].payload_wanted
            /\ d \in DOMAIN upload_tokens' /\ upload_tokens'[d].redeemed
            /\ reports'[q].signature = events'[d].signature
      BY <2>1, <2>3 DEF EveryReportWasAskedFor
    <3>2. \A q, p \in DOMAIN reports' :
            reports'[q].event_id = reports'[p].event_id => q = p
      BY <2>1, <2>3 DEF EveryReportWasAskedFor
    <3>. QED
      BY <3>1, <3>2 DEF EveryReportWasAskedFor
  <2>5. \A k \in Handler \ {h} : Uploading(k) => current[k] # e
    BY <2>2 DEF OneUploadPerToken
  <2>6. OneUploadPerToken'
    BY <2>1, <2>2, <2>5 DEF OneUploadPerToken
  <2>. QED
    BY <2>4, <2>6
<1>9. ASSUME NEW h \in Handler, Fail(h)
      PROVE  Goal
  BY <1>9 DEF TypeOK, Fail, Drop, EveryReportWasAskedFor, OneUploadPerToken
<1>10. ASSUME NEW t \in Event, TokenExpires(t)
       PROVE  Goal
  <2>1. /\ DOMAIN upload_tokens' = DOMAIN upload_tokens
        /\ \A u \in DOMAIN upload_tokens :
             upload_tokens'[u].redeemed = upload_tokens[u].redeemed
    BY <1>10 DEF TokenExpires, TypeOK, IsTable, TokenRow
  <2>. QED
    BY <1>10, <2>1 DEF TokenExpires, EveryReportWasAskedFor, OneUploadPerToken
<1>11. ASSUME NEW s \in Signature, Suppress(s)
       PROVE  Goal
  BY <1>11 DEF Suppress, EveryReportWasAskedFor, OneUploadPerToken
<1>12. ASSUME UNCHANGED vars
       PROVE  Goal
  BY <1>12 DEF vars, EveryReportWasAskedFor, OneUploadPerToken
<1>. QED
  BY <1>1, <1>2, <1>3, <1>4, <1>5, <1>6, <1>7, <1>8, <1>9, <1>10, <1>11, <1>12
     DEF Next, Step

\* Tables have finitely many rows.
LEMMA FiniteTables ==
    ASSUME TypeOK, NEW s \in Signature
    PROVE  IsFiniteSet(EventsOf(s)) /\ IsFiniteSet(ReportsOf(s))
<1>1. EventsOf(s) \subseteq Event /\ ReportsOf(s) \subseteq Report
  BY DEF TypeOK, IsTable, EventsOf, ReportsOf
<1>. QED
  BY <1>1, FiniteAssumption, FS_Subset

\* Only the two commits and the operator touch what the counters count.
LEMMA CountersFrame ==
    ASSUME CountersMatchRows, UNCHANGED <<events, reports>>,
           \A s \in Signature : /\ RowOf(s)'.events = RowOf(s).events
                                /\ RowOf(s)'.payloads = RowOf(s).payloads
    PROVE  CountersMatchRows'
  BY DEF CountersMatchRows, EventsOf, ReportsOf

\* The counters keep up with the rows.
LEMMA CountersStep == IInv /\ [Next]_vars => CountersMatchRows'
<1> SUFFICES ASSUME IInv, TypeOK, ImagesAreCurrent, CountersMatchRows, [Next]_vars
             PROVE  CountersMatchRows'
  BY DEF IInv
<1> USE DEF tables, tasks
<1>1. ASSUME UNCHANGED <<signatures, events, reports>>
      PROVE  CountersMatchRows'
  BY <1>1, CountersFrame DEF RowOf
<1>2. ASSUME NEW h \in Handler, NEW e \in Event, InsertEvent(h, e)
      PROVE  CountersMatchRows'
  <2> DEFINE s == Head(batch[h]).signature
  <2>1. /\ pc[h] = "insert" /\ e \notin DOMAIN events
        /\ row[h] = [RowOf(s) EXCEPT !.events = @ + 1]
    BY <1>2 DEF InsertEvent, Goto, ImagesAreCurrent
  <2>2. s \in Signature /\ RowOf(s) \in SignatureRow
    BY <2>1, OpenTransaction, RowOfType DEF TypeOK
  <2>3. \A q \in Signature : RowOf(q)' = IF q = s THEN row[h] ELSE RowOf(q)
    BY <1>2 DEF InsertEvent, RowOf, Put
  <2>4. /\ e \notin EventsOf(s)
        /\ \A q \in Signature :
             EventsOf(q)' = IF q = s THEN EventsOf(q) \cup {e} ELSE EventsOf(q)
    <3>1. /\ DOMAIN events' = DOMAIN events \cup {e} /\ events'[e].signature = s
          /\ \A d \in DOMAIN events : events'[d] = events[d]
      BY <1>2, <2>1 DEF InsertEvent, Put
    <3>. QED
      BY <2>1, <3>1 DEF EventsOf
  <2>5. \A q \in Signature : ReportsOf(q)' = ReportsOf(q)
    BY <1>2 DEF InsertEvent, ReportsOf
  <2>6. Cardinality(EventsOf(s) \cup {e}) = Cardinality(EventsOf(s)) + 1
    BY <2>2, <2>4, FiniteTables, FS_AddElement
  <2>7. /\ row[h].events = RowOf(s).events + 1 /\ row[h].payloads = RowOf(s).payloads
    BY <2>1, <2>2 DEF SignatureRow
  <2>. QED
    BY <2>2, <2>3, <2>4, <2>5, <2>6, <2>7 DEF CountersMatchRows
<1>3. ASSUME NEW h \in Handler, NEW r \in Report, CommitReport(h, r)
      PROVE  CountersMatchRows'
  <2> DEFINE s == upload_tokens[current[h]].signature
  <2>1. /\ pc[h] = "report" /\ r \notin DOMAIN reports
        /\ row[h] = [RowOf(s) EXCEPT !.payloads = @ + 1]
    BY <1>3 DEF CommitReport, Goto, ImagesAreCurrent
  <2>2. s \in Signature /\ RowOf(s) \in SignatureRow
    BY <2>1, OpenTransaction, RowOfType DEF TypeOK, Uploading
  <2>3. \A q \in Signature : RowOf(q)' = IF q = s THEN row[h] ELSE RowOf(q)
    BY <1>3 DEF CommitReport, RowOf, Put
  <2>4. /\ r \notin ReportsOf(s)
        /\ \A q \in Signature :
             ReportsOf(q)' = IF q = s THEN ReportsOf(q) \cup {r} ELSE ReportsOf(q)
    <3>1. /\ DOMAIN reports' = DOMAIN reports \cup {r} /\ reports'[r].signature = s
          /\ \A q \in DOMAIN reports : reports'[q] = reports[q]
      BY <1>3, <2>1 DEF CommitReport, Put
    <3>. QED
      BY <2>1, <3>1 DEF ReportsOf
  <2>5. \A q \in Signature : EventsOf(q)' = EventsOf(q)
    BY <1>3 DEF CommitReport, EventsOf
  <2>6. Cardinality(ReportsOf(s) \cup {r}) = Cardinality(ReportsOf(s)) + 1
    BY <2>2, <2>4, FiniteTables, FS_AddElement
  <2>7. /\ row[h].payloads = RowOf(s).payloads + 1 /\ row[h].events = RowOf(s).events
    BY <2>1, <2>2 DEF SignatureRow
  <2>. QED
    BY <2>2, <2>3, <2>4, <2>5, <2>6, <2>7 DEF CountersMatchRows
<1>4. ASSUME NEW s \in Signature, Suppress(s)
      PROVE  CountersMatchRows'
  <2>1. \A q \in Signature : /\ RowOf(q)'.events = RowOf(q).events
                             /\ RowOf(q)'.payloads = RowOf(q).payloads
    BY <1>4 DEF Suppress, RowOf, TypeOK, IsTable, SignatureRow
  <2>. QED
    BY <1>4, <2>1, CountersFrame DEF Suppress
<1>5. CASE \E h \in Handler, e \in Event : InsertEvent(h, e)
  BY <1>2, <1>5
<1>6. CASE \E h \in Handler, r \in Report : CommitReport(h, r)
  BY <1>3, <1>6
<1>7. CASE \E s \in Signature : Suppress(s)
  BY <1>4, <1>7
<1>8. ASSUME ~ \E h \in Handler, e \in Event : InsertEvent(h, e),
             ~ \E h \in Handler, r \in Report : CommitReport(h, r),
             ~ \E s \in Signature : Suppress(s)
      PROVE  UNCHANGED <<signatures, events, reports>>
  <2>1. CASE UNCHANGED vars
    BY <2>1 DEF vars
  <2>2. ASSUME NEW h \in Handler,
               \/ \E b \in Batches : PostEvents(h, b)
               \/ \E t \in Event : RedeemToken(h, t)
               \/ UpsertSignature(h) \/ IssueToken(h) \/ Respond(h)
               \/ UpdateSignature(h) \/ Fail(h)
        PROVE  UNCHANGED <<signatures, events, reports>>
    BY <2>2 DEF PostEvents, RedeemToken, UpsertSignature, IssueToken, Respond,
                UpdateSignature, Fail
  <2>3. ASSUME NEW t \in Event, TokenExpires(t)
        PROVE  UNCHANGED <<signatures, events, reports>>
    BY <2>3 DEF TokenExpires
  <2>. QED
    BY <1>8, <2>1, <2>2, <2>3 DEF Next, Step
<1>. QED
  BY <1>1, <1>5, <1>6, <1>7, <1>8

-----------------------------------------------------------------------------
\* The empty database satisfies the invariant.
LEMMA InitInv == Init => IInv
<1> SUFFICES ASSUME Init
             PROVE  IInv
  OBVIOUS
<1> USE NoneAssumption DEF Init
<1>1. /\ DOMAIN signatures = {} /\ DOMAIN events = {}
      /\ DOMAIN upload_tokens = {} /\ DOMAIN reports = {}
  OBVIOUS
<1>2. TypeOK
  <2>1. NewRow \in SignatureRow
    BY DEF NewRow, SignatureRow
  <2>. QED
    BY <1>1, <2>1 DEF TypeOK, IsTable
<1>3. LocksFollowTransactions /\ ImagesAreCurrent /\ EveryTokenWasWanted
      /\ EveryReportWasAskedFor /\ OneUploadPerToken
  BY <1>1 DEF LocksFollowTransactions, ImagesAreCurrent, EveryTokenWasWanted,
              EveryReportWasAskedFor, OneUploadPerToken, Uploading, Stored
<1>4. CountersMatchRows
  <2>1. \A s \in Signature : EventsOf(s) = {} /\ ReportsOf(s) = {} /\ RowOf(s) = NewRow
    BY <1>1 DEF EventsOf, ReportsOf, RowOf
  <2>2. NewRow.events = 0 /\ NewRow.payloads = 0
    BY DEF NewRow
  <2>3. Cardinality({}) = 0
    BY FS_EmptySet
  <2>. QED
    BY <2>1, <2>2, <2>3 DEF CountersMatchRows
<1>. QED
  BY <1>2, <1>3, <1>4 DEF IInv

\* IInv is inductive.
LEMMA NextInv == IInv /\ [Next]_vars => IInv'
  BY TypeStep, LocksStep, ImagesStep, TokensStep, ReportsStep, CountersStep DEF IInv

\* The inductive invariant holds in every reachable state of the server.
THEOREM Invariance == Spec => []IInv
  BY InitInv, NextInv, PTL DEF Spec

\* Type correctness of the tables and the request tasks.
THEOREM TypeCorrect == Spec => []TypeOK
<1>1. IInv => TypeOK
  BY DEF IInv
<1>. QED
  BY <1>1, Invariance, PTL

\* The counters that decide stage 1 are the true numbers of rows.
THEOREM CountersAreTrue == Spec => []CountersMatchRows
<1>1. IInv => CountersMatchRows
  BY DEF IInv
<1>. QED
  BY <1>1, Invariance, PTL

\* At most one report per event, and only for one whose payload was wanted and
\* whose token was redeemed.
THEOREM ReportsWereAskedFor == Spec => []EveryReportWasAskedFor
<1>1. IInv => EveryReportWasAskedFor
  BY DEF IInv
<1>. QED
  BY <1>1, Invariance, PTL

\* A token admits one upload, ever.
THEOREM TokensAreSingleUse == Spec => []OneUploadPerToken
<1>1. IInv => OneUploadPerToken
  BY DEF IInv
<1>. QED
  BY <1>1, Invariance, PTL

\* The lock task h needs for its next step: that of the row it is about to count in.
WaitsFor(h, s) ==
    \/ pc[h] = "next" /\ batch[h] # <<>> /\ s = Head(batch[h]).signature
    \/ pc[h] = "stream" /\ s = upload_tokens[current[h]].signature

NobodyHoldsAndWaits ==
    \A s \in Signature : lock[s] # None =>
        /\ lock[s] \in Handler
        /\ \A t \in Signature : ~WaitsFor(lock[s], t) /\ (lock[t] = lock[s] => t = s)

\* Row locks cannot deadlock, with any number of tasks, whether requests fail or are
\* dropped: a task that keeps others waiting holds that one row only, and waits
\* for none (record_event, record_report).
THEOREM LocksAreNeverNested == Spec => []NobodyHoldsAndWaits
<1>1. ASSUME IInv PROVE NobodyHoldsAndWaits
  <2> SUFFICES ASSUME NEW s \in Signature, lock[s] # None
               PROVE  /\ lock[s] \in Handler
                      /\ \A t \in Signature : ~WaitsFor(lock[s], t) /\ (lock[t] = lock[s] => t = s)
    BY DEF NobodyHoldsAndWaits
  <2>1. PICK h \in Handler : h = lock[s]
    BY <1>1 DEF IInv, TypeOK
  <2>2. pc[h] \in {"insert", "report"}
    BY <1>1, <2>1 DEF IInv, LocksFollowTransactions
  <2>3. \A t \in Signature : lock[t] = h => t = s
    BY <1>1, <2>1, <2>2 DEF IInv, LocksFollowTransactions
  <2>. QED
    BY <2>1, <2>2, <2>3 DEF WaitsFor
<1>2. IInv => NobodyHoldsAndWaits
  BY <1>1
<1>. QED
  BY <1>2, Invariance, PTL

-----------------------------------------------------------------------------
\* The refinement: the tables implement PayloadLifecycle.

phaseBar == [e \in Event |-> PhaseOf(e)]
subjectBar == [e \in Event |-> IF e \in DOMAIN events THEN events[e].signature ELSE None]
payloadsBar == [s \in Signature |-> RowOf(s).payloads]
suppressedBar == {s \in Signature : RowOf(s).suppressed}

\* A step that leaves the tables alone is a stuttering step of the lifecycle.
LEMMA TablesKept == UNCHANGED tables => UNCHANGED <<phaseBar, subjectBar, payloadsBar, suppressedBar>>
<1> SUFFICES ASSUME UNCHANGED <<signatures, events, upload_tokens, reports>>
             PROVE  UNCHANGED <<phaseBar, subjectBar, payloadsBar, suppressedBar>>
  BY DEF tables
<1>1. \A e \in Event : PhaseOf(e)' = PhaseOf(e)
  BY DEF PhaseOf, Stored
<1>2. \A s \in Signature : RowOf(s)' = RowOf(s)
  BY DEF RowOf
<1>. QED
  BY <1>1, <1>2 DEF phaseBar, subjectBar, payloadsBar, suppressedBar

\* Without a change of signature rows, the counters and closings are kept.
LEMMA RowsKept == UNCHANGED signatures => UNCHANGED <<payloadsBar, suppressedBar>>
<1>1. UNCHANGED signatures => \A s \in Signature : RowOf(s)' = RowOf(s)
  BY DEF RowOf
<1>. QED
  BY <1>1 DEF payloadsBar, suppressedBar

\* Recording an event is Record, and a wanted one found its signature open.
LEMMA InsertIsRecord ==
    ASSUME IInv, NEW h \in Handler, NEW e \in Event, InsertEvent(h, e)
    PROVE  Abstract!Next
<1>0. Head(batch[h]).signature \in Signature
  BY OpenTransaction DEF InsertEvent, Goto
<1> PICK s \in Signature : s = Head(batch[h]).signature
  BY <1>0
<1> DEFINE request == Head(batch[h])
           wanted == NeedPayload(request, row[h])
<1>1. /\ pc[h] = "insert" /\ e \notin DOMAIN events
      /\ row[h] = [RowOf(s) EXCEPT !.events = @ + 1]
  BY DEF InsertEvent, Goto, ImagesAreCurrent, IInv
<1>2. RowOf(s) \in SignatureRow
  BY RowOfType DEF IInv, TypeOK
<1>3. /\ row[h].payloads = RowOf(s).payloads
      /\ row[h].suppressed = RowOf(s).suppressed
  BY <1>1, <1>2 DEF SignatureRow
<1>4. \A q \in Signature : RowOf(q)' = IF q = s THEN row[h] ELSE RowOf(q)
  BY DEF InsertEvent, RowOf, Put
<1>5. UNCHANGED <<payloadsBar, suppressedBar>>
  BY <1>3, <1>4 DEF payloadsBar, suppressedBar
<1>6. /\ DOMAIN events' = DOMAIN events \cup {e}
      /\ events'[e] = [signature |-> s, payload_wanted |-> wanted]
      /\ \A d \in DOMAIN events : events'[d] = events[d]
      /\ UNCHANGED <<upload_tokens, reports>>
  BY DEF InsertEvent, Put
<1>7. subjectBar' = [subjectBar EXCEPT ![e] = s]
  <2>1. events'[e].signature = s
    BY <1>6
  <2>. QED
    BY <1>1, <1>6, <2>1 DEF subjectBar
<1>8. \A d \in Event \ {e} : PhaseOf(d)' = PhaseOf(d)
  BY <1>6 DEF PhaseOf, Stored
<1>9. PhaseOf(e) = "absent"
  BY <1>1 DEF PhaseOf
<1>10. wanted => PhaseOf(e)' = "wanted"
  <2>1. e \notin DOMAIN upload_tokens
    BY <1>1 DEF IInv, EveryTokenWasWanted
  <2>. QED
    BY <1>6, <2>1 DEF PhaseOf
<1>11. ~wanted => PhaseOf(e)' = "refused"
  BY <1>6 DEF PhaseOf
<1>12. wanted => payloadsBar[s] < Quota /\ s \notin suppressedBar
  BY <1>2, <1>3 DEF NeedPayload, payloadsBar, suppressedBar
<1>13. /\ phaseBar[e] = "absent"
       /\ wanted => phaseBar' = [phaseBar EXCEPT ![e] = "wanted"]
       /\ ~wanted => phaseBar' = [phaseBar EXCEPT ![e] = "refused"]
  BY <1>8, <1>9, <1>10, <1>11 DEF phaseBar
<1>14. Abstract!Record(e, s)
  BY <1>5, <1>7, <1>12, <1>13
     DEF Abstract!Record, Abstract!Move, Abstract!Open,
         phaseBar, subjectBar, payloadsBar, suppressedBar
<1>. QED
  BY <1>2, <1>14 DEF Abstract!Next

\* Issuing a token is Offer.
LEMMA IssueIsOffer ==
    ASSUME IInv, NEW h \in Handler, IssueToken(h)
    PROVE  Abstract!Next
<1> DEFINE e == current[h]
<1>1. /\ e \in Event /\ e \in DOMAIN events /\ events[e].payload_wanted
      /\ e \notin DOMAIN upload_tokens /\ ~Stored(e)
  <2>1. /\ e \in DOMAIN events \ DOMAIN upload_tokens /\ events[e].payload_wanted
    BY DEF IInv, EveryTokenWasWanted, IssueToken, Goto
  <2>. QED
    BY <2>1 DEF IInv, TypeOK, IsTable, EveryReportWasAskedFor, Stored
<1>2. /\ UNCHANGED <<signatures, events, reports, current>>
      /\ DOMAIN upload_tokens' = DOMAIN upload_tokens \cup {e}
      /\ upload_tokens'[e] = [signature |-> Head(batch[h]).signature,
                              redeemed |-> FALSE, expired |-> FALSE]
      /\ \A t \in DOMAIN upload_tokens : upload_tokens'[t] = upload_tokens[t]
  BY IssueKeepsTokens DEF IssueToken
<1>3. \A d \in Event \ {e} : PhaseOf(d)' = PhaseOf(d)
  BY <1>2 DEF PhaseOf, Stored
<1>4. PhaseOf(e) = "wanted"
  BY <1>1 DEF PhaseOf
<1>5. phaseBar'[e] = "offered"
  <2>1. /\ upload_tokens'[e].redeemed = FALSE /\ upload_tokens'[e].expired = FALSE
    BY <1>2
  <2>2. \A d \in Event : d = e => PhaseOf(d)' = "offered"
    BY <1>1, <1>2, <2>1 DEF PhaseOf, TokenPhase, Stored
  <2>. QED
    BY <1>1, <2>2 DEF phaseBar
<1>6. phaseBar[e] = "wanted" /\ phaseBar' = [phaseBar EXCEPT ![e] = "offered"]
  BY <1>1, <1>3, <1>4, <1>5 DEF phaseBar
<1>7. UNCHANGED subjectBar
  BY <1>2 DEF subjectBar
<1>8. Abstract!Offer(e)
  BY <1>2, <1>6, <1>7, RowsKept
     DEF Abstract!Offer, Abstract!Move, phaseBar, subjectBar, payloadsBar, suppressedBar
<1>. QED
  BY <1>1, <1>8 DEF Abstract!Next

\* Redeeming a token is Redeem.
LEMMA RedeemIsRedeem ==
    ASSUME IInv, NEW h \in Handler, NEW t \in Event, RedeemToken(h, t)
    PROVE  Abstract!Next
<1>1. /\ t \in DOMAIN upload_tokens /\ ~upload_tokens[t].redeemed /\ ~upload_tokens[t].expired
      /\ upload_tokens'[t].redeemed /\ DOMAIN upload_tokens' = DOMAIN upload_tokens
      /\ \A u \in DOMAIN upload_tokens \ {t} : upload_tokens'[u] = upload_tokens[u]
      /\ UNCHANGED <<signatures, events, reports>>
  BY DEF RedeemToken, IInv, TypeOK, IsTable, TokenRow
<1>2. t \in DOMAIN events /\ events[t].payload_wanted /\ ~Stored(t)
  BY <1>1 DEF IInv, EveryTokenWasWanted, EveryReportWasAskedFor, Stored
<1>3. \A d \in Event \ {t} : PhaseOf(d)' = PhaseOf(d)
  BY <1>1 DEF PhaseOf, Stored
<1>4. PhaseOf(t) = "offered" /\ PhaseOf(t)' = "redeemed"
  BY <1>1, <1>2 DEF PhaseOf, TokenPhase, Stored
<1>5. phaseBar[t] = "offered" /\ phaseBar' = [phaseBar EXCEPT ![t] = "redeemed"]
  BY <1>3, <1>4 DEF phaseBar
<1>6. UNCHANGED subjectBar
  BY <1>1 DEF subjectBar
<1>7. Abstract!Redeem(t)
  BY <1>1, <1>5, <1>6, RowsKept
     DEF Abstract!Redeem, Abstract!Move, phaseBar, subjectBar, payloadsBar, suppressedBar
<1>. QED
  BY <1>7 DEF Abstract!Next

\* The expiry of an unused token is Lapse; of a used one, nothing.
LEMMA ExpiryIsLapse ==
    ASSUME IInv, NEW t \in Event, TokenExpires(t)
    PROVE  Abstract!Next \/ UNCHANGED <<phaseBar, subjectBar, payloadsBar, suppressedBar>>
<1>1. /\ t \in DOMAIN upload_tokens /\ ~upload_tokens[t].expired
      /\ upload_tokens'[t].redeemed = upload_tokens[t].redeemed
      /\ upload_tokens'[t].expired /\ DOMAIN upload_tokens' = DOMAIN upload_tokens
      /\ \A u \in DOMAIN upload_tokens \ {t} : upload_tokens'[u] = upload_tokens[u]
      /\ UNCHANGED <<signatures, events, reports>>
  BY DEF TokenExpires, IInv, TypeOK, IsTable, TokenRow
<1>2. t \in DOMAIN events /\ events[t].payload_wanted
  BY <1>1 DEF IInv, EveryTokenWasWanted
<1>3. \A d \in Event \ {t} : PhaseOf(d)' = PhaseOf(d)
  BY <1>1 DEF PhaseOf, Stored
<1>4. UNCHANGED <<subjectBar, payloadsBar, suppressedBar>>
  BY <1>1, RowsKept DEF subjectBar
<1>5. CASE upload_tokens[t].redeemed
  <2>1. PhaseOf(t)' = PhaseOf(t)
    BY <1>1, <1>5 DEF PhaseOf, TokenPhase, Stored
  <2>. QED
    BY <1>3, <1>4, <2>1 DEF phaseBar
<1>6. CASE ~upload_tokens[t].redeemed
  <2>1. ~Stored(t)
    BY <1>6 DEF IInv, EveryReportWasAskedFor, Stored
  <2>2. PhaseOf(t) = "offered" /\ PhaseOf(t)' = "lapsed"
    BY <1>1, <1>2, <1>6, <2>1 DEF PhaseOf, TokenPhase, Stored
  <2>3. phaseBar[t] = "offered" /\ phaseBar' = [phaseBar EXCEPT ![t] = "lapsed"]
    BY <1>3, <2>2 DEF phaseBar
  <2>4. Abstract!Lapse(t)
    BY <1>4, <2>3
       DEF Abstract!Lapse, Abstract!Move, phaseBar, subjectBar, payloadsBar, suppressedBar
  <2>. QED
    BY <2>4 DEF Abstract!Next
<1>. QED
  BY <1>5, <1>6

\* Committing a report is Store.
LEMMA CommitIsStore ==
    ASSUME IInv, NEW h \in Handler, NEW r \in Report, CommitReport(h, r)
    PROVE  Abstract!Next
<1>1. pc[h] = "report"
  BY DEF CommitReport, Goto
<1>2. /\ current[h] \in DOMAIN upload_tokens /\ current[h] \in Event
      /\ upload_tokens[current[h]].redeemed /\ ~Stored(current[h])
  BY <1>1 DEF IInv, TypeOK, IsTable, OneUploadPerToken, Uploading
<1> PICK e \in Event : e = current[h]
  BY <1>2
<1>3. upload_tokens[e].signature \in Signature
  BY <1>1, OpenTransaction DEF Uploading
<1> PICK s \in Signature : s = upload_tokens[e].signature
  BY <1>3
<1>4. /\ e \in DOMAIN events /\ events[e].payload_wanted /\ events[e].signature = s
  BY <1>2 DEF IInv, EveryTokenWasWanted
<1>5. row[h] = [RowOf(s) EXCEPT !.payloads = @ + 1] /\ RowOf(s) \in SignatureRow
  BY <1>1, RowOfType DEF IInv, TypeOK, ImagesAreCurrent
<1>6. /\ row[h].payloads = RowOf(s).payloads + 1
      /\ row[h].suppressed = RowOf(s).suppressed
  BY <1>5 DEF SignatureRow
<1>7. /\ UNCHANGED <<events, upload_tokens>>
      /\ \A d \in Event : Stored(d)' <=> Stored(d) \/ d = e
      /\ \A q \in Signature : RowOf(q)' = IF q = s THEN row[h] ELSE RowOf(q)
  <2>1. /\ UNCHANGED <<events, upload_tokens>>
        /\ r \notin DOMAIN reports
        /\ reports' = Put(reports, r, [event_id |-> e, signature |-> s])
        /\ signatures' = Put(signatures, s, row[h])
    BY DEF CommitReport
  <2>2. /\ DOMAIN reports' = DOMAIN reports \cup {r}
        /\ reports'[r].event_id = e
        /\ \A q \in DOMAIN reports : reports'[q] = reports[q]
    BY <2>1 DEF Put
  <2>3. \A d \in Event : Stored(d)' <=> Stored(d) \/ d = e
    BY <2>1, <2>2 DEF Stored
  <2>. QED
    BY <2>1, <2>3 DEF RowOf, Put
<1>8. \A d \in Event \ {e} : PhaseOf(d)' = PhaseOf(d)
  BY <1>7 DEF PhaseOf
<1>9. PhaseOf(e) = "redeemed" /\ PhaseOf(e)' = "stored"
  BY <1>2, <1>4, <1>7 DEF PhaseOf, TokenPhase
<1>10. phaseBar[e] = "redeemed" /\ phaseBar' = [phaseBar EXCEPT ![e] = "stored"]
  BY <1>8, <1>9 DEF phaseBar
<1>11. subjectBar[e] = s /\ UNCHANGED subjectBar
  BY <1>4, <1>7 DEF subjectBar
<1>12. payloadsBar' = [payloadsBar EXCEPT ![s] = @ + 1] /\ UNCHANGED suppressedBar
  BY <1>6, <1>7 DEF payloadsBar, suppressedBar
<1>13. Abstract!Store(e)
  BY <1>10, <1>11, <1>12
     DEF Abstract!Store, Abstract!Move, phaseBar, subjectBar, payloadsBar, suppressedBar
<1>. QED
  BY <1>13 DEF Abstract!Next

\* The operator's suppression is Suppress.
LEMMA SuppressIsSuppress ==
    ASSUME IInv, NEW s \in Signature, Suppress(s)
    PROVE  Abstract!Next
<1>1. /\ s \in DOMAIN signatures /\ UNCHANGED <<events, upload_tokens, reports>>
      /\ DOMAIN signatures' = DOMAIN signatures
      /\ signatures'[s].payloads = signatures[s].payloads /\ signatures'[s].suppressed
      /\ \A q \in DOMAIN signatures \ {s} : signatures'[q] = signatures[q]
  BY DEF Suppress, IInv, TypeOK, IsTable, SignatureRow
<1>2. UNCHANGED <<phaseBar, subjectBar, payloadsBar>>
  BY <1>1 DEF phaseBar, PhaseOf, Stored, subjectBar, payloadsBar, RowOf
<1>3. suppressedBar' = suppressedBar \cup {s}
  BY <1>1 DEF suppressedBar, RowOf
<1>4. Abstract!Suppress(s)
  BY <1>2, <1>3 DEF Abstract!Suppress, phaseBar, subjectBar, payloadsBar, suppressedBar
<1>. QED
  BY <1>4 DEF Abstract!Next

\* Every step of the server is a step of the lifecycle, or none.
LEMMA StepSimulation == IInv /\ [Next]_vars => [Abstract!Next]_(Abstract!vars)
<1> SUFFICES ASSUME IInv, [Next]_vars
             PROVE  Abstract!Next \/ UNCHANGED <<phaseBar, subjectBar, payloadsBar, suppressedBar>>
  BY DEF Abstract!vars, phaseBar, subjectBar, payloadsBar, suppressedBar
<1>1. ASSUME NEW h \in Handler,
             \/ \E b \in Batches : PostEvents(h, b)
             \/ UpsertSignature(h) \/ Respond(h) \/ UpdateSignature(h) \/ Fail(h)
      PROVE  UNCHANGED tables
  BY <1>1 DEF PostEvents, UpsertSignature, Respond, UpdateSignature, Fail
<1>2. CASE UNCHANGED vars
  BY <1>2, TablesKept DEF vars
<1>. QED
  BY <1>1, <1>2, TablesKept, InsertIsRecord, IssueIsOffer, RedeemIsRedeem, ExpiryIsLapse,
     CommitIsStore, SuppressIsSuppress DEF Next, Step

\* The server, with all its interleavings and failures, implements the
\* payload lifecycle: a payload is offered only while its signature is open,
\* stored only once and only after its offer was redeemed, and counted.
THEOREM ServerImplementsLifecycle == Spec => Lifecycle
<1>1. Init => Abstract!Init
  <2> SUFFICES ASSUME Init
               PROVE  Abstract!Init
    OBVIOUS
  <2>1. DOMAIN events = {} /\ DOMAIN signatures = {}
    BY DEF Init
  <2>2. /\ \A e \in Event : PhaseOf(e) = "absent"
        /\ \A s \in Signature : RowOf(s) = NewRow
    BY <2>1 DEF PhaseOf, RowOf
  <2>3. NewRow.payloads = 0 /\ NewRow.suppressed = FALSE
    BY DEF NewRow
  <2>. QED
    BY <2>1, <2>2, <2>3 DEF Abstract!Init
<1>. QED
  BY <1>1, Invariance, StepSimulation, PTL DEF Spec, Lifecycle, Abstract!Spec

-----------------------------------------------------------------------------
\* A step that records no event under s promises nothing new for s: it moves a
\* promise from the issuing task to the token, from the token to the uploading
\* task, or ends it.
LEMMA PromisesOnlyMove ==
    ASSUME IInv, NEW s \in Signature, [Next]_vars,
           ~ \E h \in Handler, e \in Event : InsertEvent(h, e)
    PROVE  Promised(s)' \subseteq Promised(s)
<1> SUFFICES ASSUME NEW e \in Event, e \in Promised(s)'
             PROVE  e \in Promised(s)
  BY DEF IInv, TypeOK, IsTable, Promised, EventsOf, Next, Step, vars, tables,
         PostEvents, UpsertSignature, IssueToken, Respond, RedeemToken, UpdateSignature,
         CommitReport, Fail, TokenExpires, Suppress
<1> USE DEF tables, tasks, Promised, EventsOf, Uploading
<1> DEFINE Held(k) == current[k] = e /\ (pc[k] = "issue" \/ Uploading(k))
           Live == /\ e \in DOMAIN upload_tokens
                   /\ ~upload_tokens[e].redeemed /\ ~upload_tokens[e].expired
<1>0. (\E k \in Handler : Held(k)') \/ Live'
  OBVIOUS
<1>1. ASSUME UNCHANGED events, (\E k \in Handler : Held(k)) \/ Live
      PROVE  e \in Promised(s)
  BY <1>1
<1>2. ASSUME NEW h \in Handler, NEW b \in Batches, PostEvents(h, b)
      PROVE  e \in Promised(s)
  BY <1>0, <1>1, <1>2 DEF IInv, TypeOK, PostEvents, Goto
<1>3. ASSUME NEW h \in Handler, UpsertSignature(h)
      PROVE  e \in Promised(s)
  BY <1>0, <1>1, <1>3 DEF IInv, TypeOK, UpsertSignature, Goto
<1>4. ASSUME NEW h \in Handler, IssueToken(h)
      PROVE  e \in Promised(s)
  <2>1. /\ pc[h] = "issue" /\ UNCHANGED <<events, current>>
        /\ \A k \in Handler \ {h} : pc'[k] = pc[k]
        /\ pc'[h] = "next"
    BY <1>4 DEF IInv, TypeOK, IssueToken, Goto
  <2>2. CASE current[h] = e
    BY <1>1, <2>1, <2>2
  <2>3. CASE current[h] # e
    <3>1. /\ DOMAIN upload_tokens' = DOMAIN upload_tokens \cup {current[h]}
          /\ \A t \in DOMAIN upload_tokens : upload_tokens'[t] = upload_tokens[t]
      BY <1>4, IssueKeepsTokens
    <3>2. Live' => Live
      BY <2>3, <3>1
    <3>3. \A k \in Handler : Held(k)' => Held(k)
      BY <2>1
    <3>. QED
      BY <1>0, <1>1, <2>1, <3>2, <3>3
  <2>. QED
    BY <2>2, <2>3
<1>5. ASSUME NEW h \in Handler, Respond(h)
      PROVE  e \in Promised(s)
  BY <1>0, <1>1, <1>5 DEF IInv, TypeOK, Respond, Goto, Drop
<1>6. ASSUME NEW h \in Handler, NEW t \in Event, RedeemToken(h, t)
      PROVE  e \in Promised(s)
  <2>1. /\ t \in DOMAIN upload_tokens /\ ~upload_tokens[t].redeemed /\ ~upload_tokens[t].expired
        /\ DOMAIN upload_tokens' = DOMAIN upload_tokens
        /\ \A u \in DOMAIN upload_tokens \ {t} : upload_tokens'[u] = upload_tokens[u]
        /\ UNCHANGED events
    BY <1>6 DEF RedeemToken, IInv, TypeOK, IsTable, TokenRow
  <2>2. /\ current'[h] = t
        /\ \A k \in Handler \ {h} : pc'[k] = pc[k] /\ current'[k] = current[k]
    BY <1>6 DEF RedeemToken, Goto, IInv, TypeOK
  <2>3. CASE t = e
    BY <1>1, <2>1, <2>3
  <2>4. CASE t # e
    BY <1>0, <1>1, <2>1, <2>2, <2>4
  <2>. QED
    BY <2>3, <2>4
<1>7. ASSUME NEW h \in Handler, UpdateSignature(h)
      PROVE  e \in Promised(s)
  BY <1>0, <1>1, <1>7 DEF IInv, TypeOK, UpdateSignature, Goto
<1>8. ASSUME NEW h \in Handler, NEW r \in Report, CommitReport(h, r)
      PROVE  e \in Promised(s)
  <2>1. UNCHANGED <<events, upload_tokens>>
    BY <1>8 DEF CommitReport
  <2>2. \A k \in Handler : Held(k)' => Held(k)
    BY <1>8 DEF CommitReport, Goto, Drop, IInv, TypeOK
  <2>. QED
    BY <1>0, <1>1, <2>1, <2>2
<1>9. ASSUME NEW h \in Handler, Fail(h)
      PROVE  e \in Promised(s)
  BY <1>0, <1>1, <1>9 DEF IInv, TypeOK, Fail, Drop
<1>10. ASSUME NEW t \in Event, TokenExpires(t)
       PROVE  e \in Promised(s)
  <2>1. /\ DOMAIN upload_tokens' = DOMAIN upload_tokens
        /\ \A u \in DOMAIN upload_tokens :
             /\ upload_tokens'[u].redeemed = upload_tokens[u].redeemed
             /\ upload_tokens[u].expired => upload_tokens'[u].expired
        /\ UNCHANGED <<events, pc, current>>
    BY <1>10 DEF TokenExpires, IInv, TypeOK, IsTable, TokenRow
  <2>. QED
    BY <1>0, <1>1, <2>1
<1>11. ASSUME NEW q \in Signature, Suppress(q)
       PROVE  e \in Promised(s)
  BY <1>0, <1>1, <1>11 DEF Suppress
<1>12. ASSUME UNCHANGED vars
       PROVE  e \in Promised(s)
  BY <1>0, <1>1, <1>12 DEF vars
<1>. QED
  BY <1>2, <1>3, <1>4, <1>5, <1>6, <1>7, <1>8, <1>9, <1>10, <1>11, <1>12 DEF Next, Step

\* An event recorded under a closed signature is promised nothing, and the
\* promises of other events are untouched.
LEMMA ClosedInsertPromisesNothing ==
    ASSUME IInv, NEW s \in Signature, Closed(s),
           NEW h \in Handler, NEW e \in Event, InsertEvent(h, e)
    PROVE  Promised(s)' \subseteq Promised(s)
<1>1. Head(batch[h]).signature \in Signature
  BY OpenTransaction DEF InsertEvent, Goto
<1> PICK q \in Signature : q = Head(batch[h]).signature
  BY <1>1
<1> DEFINE wanted == NeedPayload(Head(batch[h]), row[h])
<1>2. /\ e \notin DOMAIN events /\ UNCHANGED upload_tokens
      /\ DOMAIN events' = DOMAIN events \cup {e}
      /\ events'[e].signature = q
      /\ \A d \in DOMAIN events : events'[d] = events[d]
  BY DEF InsertEvent, Put
<1>3. /\ current'[h] = e /\ pc'[h] = IF wanted THEN "issue" ELSE "next"
      /\ \A k \in Handler \ {h} : pc'[k] = pc[k] /\ current'[k] = current[k]
  BY DEF InsertEvent, Goto, IInv, TypeOK
<1>4. /\ e \notin DOMAIN upload_tokens
      /\ \A k \in Handler : pc[k] = "issue" \/ Uploading(k) => current[k] # e
  BY <1>2 DEF IInv, EveryTokenWasWanted, OneUploadPerToken
<1>5. CASE q = s
  <2>1. row[h] = [RowOf(s) EXCEPT !.events = @ + 1] /\ RowOf(s) \in SignatureRow
    BY <1>5, RowOfType DEF InsertEvent, Goto, IInv, TypeOK, ImagesAreCurrent
  <2>2. row[h].payloads = RowOf(s).payloads /\ row[h].suppressed = RowOf(s).suppressed
    BY <2>1 DEF SignatureRow
  <2>3. ~wanted
    BY <2>1, <2>2, QuotaAssumption DEF Closed, NeedPayload, SignatureRow
  <2>4. pc'[h] = "next"
    BY <1>3, <2>3
  <2>5. \A k \in Handler : pc'[k] = "issue" \/ Uploading(k)' =>
           k # h /\ current'[k] # e /\ current'[k] = current[k] /\ pc'[k] = pc[k]
    BY <1>3, <1>4, <2>4 DEF Uploading
  <2>6. e \notin Promised(s)'
    BY <1>2, <1>4, <2>5 DEF Promised
  <2>7. \A d \in DOMAIN events : d \in Promised(s)' => d \in Promised(s)
    BY <1>2, <2>5 DEF Promised, EventsOf, Uploading
  <2>. QED
    BY <1>2, <2>6, <2>7 DEF Promised, EventsOf
<1>6. CASE q # s
  BY <1>2, <1>3, <1>4, <1>6 DEF Promised, EventsOf, Uploading
<1>. QED
  BY <1>5, <1>6

\* However many requests race, a signature that is at its quota or suppressed
\* only receives payloads that were promised before.
THEOREM ClosedStaysClosed == Spec => ClosedPromisesNothingNew
<1>1. IInv /\ [Next]_vars =>
        \A s \in Signature : Closed(s) => Promised(s)' \subseteq Promised(s)
  BY PromisesOnlyMove, ClosedInsertPromisesNothing
<1>2. IInv /\ [Next]_vars =>
        [\A s \in Signature : Closed(s) => Promised(s)' \subseteq Promised(s)]_vars
  BY <1>1
<1>. QED
  BY <1>2, Invariance, PTL DEF Spec, ClosedPromisesNothingNew
=============================================================================
