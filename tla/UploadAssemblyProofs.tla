------------------------ MODULE UploadAssemblyProofs ------------------------
(***************************************************************************)
(* Theorems about UploadAssembly, for any number of uploads, parts and     *)
(* requests.  The inductive invariant adds to the checked properties that  *)
(* an assembler which still owns its upload keeps the original it stored,  *)
(* and that the clock the collector has read is not ahead of the rows.     *)
(***************************************************************************)
EXTENDS UploadAssembly, TLAPS

\* An original on disk always has the declared bytes: store_original compares
\* the hash, and nothing else writes it.
OriginalsAreGood == \A u \in Uploads : disk[u].original \in {"none", "good"}

\* The collector leaves the original of a request that still owns its upload.
StoredIsKept ==
    \A r \in Requests :
        At(r, "stored") /\ Owns(r) => disk[request[r].upload].original = "good"

\* An upload that had expired when the collector read the clock has expired; if
\* it is still being assembled, its lease was live then.
CollectorClock ==
    \A u \in gc.ttlOut :
        /\ upload[u].ttlOut
        /\ upload[u].state = "assembling" => u \notin gc.leaseOut

\* A request beyond "new" works on an upload.
RequestHasUpload ==
    \A r \in Requests :
        request[r].pc \notin {"new", "done"} => request[r].upload \in Uploads

\* A token is set only while its upload is assembled.
TokenIsHeld ==
    \A u \in Uploads : upload[u].token # NoRequest => upload[u].state = "assembling"

Shape == RequestHasUpload /\ TokenIsHeld

Inv ==
    /\ TypeOK
    /\ Shape
    /\ OriginalsAreGood
    /\ StoredIsKept
    /\ CollectorClock
    /\ DocumentIffCompleted
    /\ CompletedIsIntact

\* The initial state satisfies the invariant.
LEMMA InitInv == Init => Inv
  <1> SUFFICES ASSUME Init PROVE Inv
    OBVIOUS
  <1>1. TypeOK
    BY DEF Init, TypeOK, Row0, Row, Nothing, Contents, States, Files, Fresh, Request
  <1>2. \A r \in Requests : request[r].pc = "new"
    BY DEF Init, Fresh
  <1>3. Shape /\ StoredIsKept
    BY <1>2 DEF Init, Row0, Shape, RequestHasUpload, TokenIsHeld, StoredIsKept, At
  <1>4. OriginalsAreGood /\ CollectorClock
    BY DEF Init, OriginalsAreGood, CollectorClock
  <1>5. DocumentIffCompleted /\ CompletedIsIntact
    BY DEF Init, Row0, DocumentIffCompleted, CompletedIsIntact
  <1> QED
    BY <1>1, <1>3, <1>4, <1>5 DEF Inv

-----------------------------------------------------------------------------
\* The values the actions write are rows, files and requests again.
LEMMA RowValues ==
  ASSUME NEW row \in Row
  PROVE  /\ \A state \in States : [row EXCEPT !.state = state] \in Row
         /\ \A state \in States : Closed(row, state) \in Row
         /\ Released(row) \in Row
         /\ \A r \in Requests : Claimed(row, r) \in Row
         /\ \A p \in Parts, c \in Contents : Received(row, p, c) \in Row
         /\ [row EXCEPT !.ttlOut = TRUE] \in Row
         /\ [row EXCEPT !.leaseOut = TRUE] \in Row
  <1>1. \A p \in Parts, c \in Contents :
           [row.received EXCEPT ![p] = c] \in [Parts -> Contents]
    BY DEF Row
  <1>2. \A p \in Parts, c \in Contents : Received(row, p, c) \in Row
    BY <1>1 DEF Received, Row
  <1>3. \A r \in Requests : Claimed(row, r) \in Row
    BY DEF Claimed, Row, States
  <1>4. \A state \in States : Closed(row, state) \in Row
    BY DEF Closed, Row, States
  <1>5. Released(row) \in Row
    BY DEF Released, Row, States
  <1>6. \A state \in States : [row EXCEPT !.state = state] \in Row
    BY DEF Row
  <1>7. [row EXCEPT !.ttlOut = TRUE] \in Row /\ [row EXCEPT !.leaseOut = TRUE] \in Row
    BY DEF Row
  <1> QED
    BY <1>2, <1>3, <1>4, <1>5, <1>6, <1>7

\* The same for the files.
LEMMA FilesValues ==
  ASSUME NEW files \in Files
  PROVE  /\ \A p \in Parts, c \in Contents : WithPart(files, p, c) \in Files
         /\ \A c \in Contents : [files EXCEPT !.assembled = c] \in Files
         /\ \A c \in Contents : [files EXCEPT !.original = c] \in Files
         /\ \A parts \in SUBSET Parts : Emptied(files, parts) \in Files
  <1>1. \A p \in Parts, c \in Contents :
           [files.parts EXCEPT ![p] = c] \in [Parts -> Contents]
    BY DEF Files
  <1>2. \A p \in Parts, c \in Contents : WithPart(files, p, c) \in Files
    BY <1>1 DEF WithPart, Files
  <1>3. \A parts \in SUBSET Parts :
           [p \in Parts |-> IF p \in parts THEN "none" ELSE files.parts[p]]
              \in [Parts -> Contents]
    BY DEF Files, Contents
  <1>4. \A parts \in SUBSET Parts : Emptied(files, parts) \in Files
    BY <1>3 DEF Emptied, Files, Contents
  <1>5. \A c \in Contents :
           [files EXCEPT !.assembled = c] \in Files /\ [files EXCEPT !.original = c] \in Files
    BY DEF Files
  <1> QED
    BY <1>2, <1>4, <1>5

\* Requests are typed again and still have their upload when one of them moves on,
\* ends or starts.
LEMMA RequestMoves ==
  ASSUME TypeOK, RequestHasUpload, NEW r \in Requests, NEW q \in Request,
         q.pc \notin {"new", "done"} => q.upload \in Uploads,
         request' = [request EXCEPT ![r] = q]
  PROVE  request' \in [Requests -> Request] /\ RequestHasUpload'
  BY DEF TypeOK, RequestHasUpload

\* The request works on an upload.
Busy(r) == request[r].pc \notin {"new", "done"}

\* The two ways in which actions write the request.
LEMMA RequestValues ==
  ASSUME TypeOK, RequestHasUpload, NEW r \in Requests
  PROVE  /\ \A pc \in {"linked", "assembled", "checked", "stored", "committed", "failing",
                       "removing", "cancelled"} :
               Busy(r) /\ Move(r, pc) =>
                  request' \in [Requests -> Request] /\ RequestHasUpload'
         /\ End(r) => request' \in [Requests -> Request] /\ RequestHasUpload'
  <1>1. ASSUME NEW pc \in {"linked", "assembled", "checked", "stored", "committed",
                           "failing", "removing", "cancelled"}, Busy(r), Move(r, pc)
        PROVE  request' \in [Requests -> Request] /\ RequestHasUpload'
    <2> DEFINE q == [request[r] EXCEPT !.pc = pc]
    <2>1. q \in Request /\ q.upload \in Uploads
      BY <1>1 DEF TypeOK, Request, RequestHasUpload, Busy
    <2>2. request' = [request EXCEPT ![r] = q]
      BY <1>1 DEF Move
    <2> HIDE DEF q
    <2> QED
      BY <2>1, <2>2, RequestMoves
  <1>2. ASSUME End(r) PROVE request' \in [Requests -> Request] /\ RequestHasUpload'
    <2>1. Fresh("done") \in Request /\ Fresh("done").pc = "done"
      BY DEF Fresh, Request, Contents
    <2> QED
      BY <1>2, <2>1, RequestMoves DEF End
  <1> QED
    BY <1>1, <1>2

\* Storing a part.
LEMMA PartStepType ==
  ASSUME TypeOK, RequestHasUpload, NEW r \in Requests, PartStep(r)
  PROVE  TypeOK' /\ RequestHasUpload'
  <1>1. ASSUME NEW u \in Uploads, NEW p \in Parts, NEW c \in {"good", "bad"},
               AcceptPart(r, u, p, c)
        PROVE  TypeOK' /\ RequestHasUpload'
    <2> DEFINE q == [pc |-> "accepted", upload |-> u, parts |-> {p}, content |-> c]
    <2>1. q \in Request /\ q.upload \in Uploads
      BY DEF Request, Contents
    <2>2. request' = [request EXCEPT ![r] = q]
      BY <1>1 DEF AcceptPart
    <2>3. request' \in [Requests -> Request] /\ RequestHasUpload'
      BY <2>1, <2>2, RequestMoves
    <2> QED
      BY <1>1, <2>3 DEF AcceptPart, TypeOK
  <1>2. ASSUME NEW p \in Parts, LinkPart(r, p) PROVE TypeOK' /\ RequestHasUpload'
    <2>1. /\ request[r].upload \in Uploads /\ disk[request[r].upload] \in Files
          /\ request[r].content \in Contents /\ Busy(r)
      BY <1>2 DEF LinkPart, At, TypeOK, RequestHasUpload, Request, Busy
    <2>2. WithPart(disk[request[r].upload], p, request[r].content) \in Files
      BY <2>1, FilesValues
    <2>3. disk' \in [Uploads -> Files]
      BY <1>2, <2>1, <2>2 DEF LinkPart, TypeOK
    <2>4. request' \in [Requests -> Request] /\ RequestHasUpload'
      BY <1>2, <2>1, RequestValues DEF LinkPart
    <2> QED
      BY <1>2, <2>3, <2>4 DEF LinkPart, TypeOK
  <1>3. ASSUME NEW p \in Parts, RecordPart(r, p) PROVE TypeOK' /\ RequestHasUpload'
    <2>1. /\ request[r].upload \in Uploads /\ upload[request[r].upload] \in Row
          /\ request[r].content \in Contents
      BY <1>3 DEF RecordPart, At, TypeOK, RequestHasUpload, Request
    <2>2. Received(upload[request[r].upload], p, request[r].content) \in Row
      BY <2>1, RowValues
    <2>3. upload' \in [Uploads -> Row]
      BY <1>3, <2>1, <2>2 DEF RecordPart, TypeOK
    <2>4. request' \in [Requests -> Request] /\ RequestHasUpload'
      BY <1>3, RequestValues DEF RecordPart
    <2> QED
      BY <1>3, <2>3, <2>4 DEF RecordPart, TypeOK
  <1> QED
    BY <1>1, <1>2, <1>3 DEF PartStep

\* Completing an upload.
LEMMA CompleteStepType ==
  ASSUME TypeOK, RequestHasUpload, NEW r \in Requests, CompleteStep(r)
  PROVE  TypeOK' /\ RequestHasUpload'
  <1>1. ASSUME NEW u \in Uploads, RecoverAssembly(r, u) PROVE TypeOK' /\ RequestHasUpload'
    <2>1. Released(upload[u]) \in Row
      BY RowValues DEF TypeOK
    <2> QED
      BY <1>1, <2>1 DEF RecoverAssembly, TypeOK, RequestHasUpload
  <1>2. ASSUME NEW u \in Uploads, ClaimAssembly(r, u) PROVE TypeOK' /\ RequestHasUpload'
    <2> DEFINE q == [pc |-> "claimed", upload |-> u, parts |-> Parts, content |-> "none"]
    <2>1. Claimed(upload[u], r) \in Row
      BY RowValues DEF TypeOK
    <2>2. q \in Request /\ q.upload \in Uploads
      BY DEF Request, Contents
    <2>3. request' = [request EXCEPT ![r] = q]
      BY <1>2 DEF ClaimAssembly
    <2>4. request' \in [Requests -> Request] /\ RequestHasUpload'
      BY <2>2, <2>3, RequestMoves
    <2> QED
      BY <1>2, <2>1, <2>4 DEF ClaimAssembly, TypeOK
  <1>3. CASE ReadParts(r)
    <2> DEFINE c == IF \A p \in Parts : disk[request[r].upload].parts[p] = "good"
                    THEN "good" ELSE "bad"
               q == [request[r] EXCEPT !.pc = "read", !.content = c]
    <2>1. c \in Contents
      BY DEF Contents
    <2> HIDE DEF c
    <2>2. q \in Request /\ q.upload \in Uploads
      BY <1>3, <2>1 DEF ReadParts, At, TypeOK, RequestHasUpload, Request
    <2>3. request' = [request EXCEPT ![r] = q]
      BY <1>3 DEF ReadParts, c
    <2> HIDE DEF q
    <2>4. request' \in [Requests -> Request] /\ RequestHasUpload'
      BY <2>2, <2>3, RequestMoves
    <2> QED
      BY <1>3, <2>4 DEF ReadParts, TypeOK
  <1>4. CASE LinkAssembled(r)
    <2>1. /\ request[r].upload \in Uploads /\ disk[request[r].upload] \in Files
          /\ request[r].content \in Contents /\ Busy(r)
      BY <1>4 DEF LinkAssembled, At, TypeOK, RequestHasUpload, Request, Busy
    <2>2. [disk[request[r].upload] EXCEPT !.assembled = request[r].content] \in Files
      BY <2>1, FilesValues
    <2>3. disk' \in [Uploads -> Files]
      BY <1>4, <2>1, <2>2 DEF LinkAssembled, TypeOK
    <2>4. request' \in [Requests -> Request] /\ RequestHasUpload'
      BY <1>4, <2>1, RequestValues DEF LinkAssembled
    <2> QED
      BY <1>4, <2>3, <2>4 DEF LinkAssembled, TypeOK
  <1>5. CASE CheckAssembled(r)
    <2>1. request' \in [Requests -> Request] /\ RequestHasUpload'
      BY <1>5, RequestValues DEF CheckAssembled, At, Busy
    <2> QED
      BY <1>5, <2>1 DEF CheckAssembled, TypeOK
  <1>6. CASE StoreOriginal(r)
    <2>1. /\ request[r].upload \in Uploads /\ disk[request[r].upload] \in Files
          /\ disk[request[r].upload].assembled \in Contents /\ Busy(r)
      BY <1>6 DEF StoreOriginal, At, TypeOK, RequestHasUpload, Files, Busy
    <2>2. [disk[request[r].upload] EXCEPT !.original = disk[request[r].upload].assembled]
             \in Files
      BY <2>1, FilesValues
    <2>3. disk' \in [Uploads -> Files]
      BY <1>6, <2>1, <2>2 DEF StoreOriginal, TypeOK
    <2>4. request' \in [Requests -> Request] /\ RequestHasUpload'
      BY <1>6, <2>1, RequestValues DEF StoreOriginal
    <2> QED
      BY <1>6, <2>3, <2>4 DEF StoreOriginal, TypeOK
  <1>7. CASE Finish(r)
    <2>1. request[r].upload \in Uploads /\ Busy(r)
      BY <1>7 DEF Finish, At, RequestHasUpload, Busy
    <2>2. Closed(upload[request[r].upload], "completed") \in Row
      BY <2>1, RowValues DEF TypeOK, States
    <2>3. upload' \in [Uploads -> Row]
      BY <1>7, <2>1, <2>2 DEF Finish, TypeOK
    <2>4. request' \in [Requests -> Request] /\ RequestHasUpload'
      BY <1>7, <2>1, RequestValues DEF Finish
    <2> QED
      BY <1>7, <2>1, <2>3, <2>4 DEF Finish, TypeOK
  <1>8. CASE CleanUp(r)
    <2>1. /\ request[r].upload \in Uploads /\ disk[request[r].upload] \in Files
          /\ request[r].parts \in SUBSET Parts
      BY <1>8 DEF CleanUp, At, TypeOK, RequestHasUpload, Request
    <2>2. Emptied(disk[request[r].upload], request[r].parts) \in Files
      BY <2>1, FilesValues
    <2>3. disk' \in [Uploads -> Files]
      BY <1>8, <2>1, <2>2 DEF CleanUp, RemoveParts, TypeOK
    <2>4. request' \in [Requests -> Request] /\ RequestHasUpload'
      BY <1>8, RequestValues DEF CleanUp
    <2> QED
      BY <1>8, <2>3, <2>4 DEF CleanUp, RemoveParts, TypeOK
  <1>9. CASE Raise(r)
    <2>1. request' \in [Requests -> Request] /\ RequestHasUpload'
      BY <1>9, RequestValues DEF Raise, Busy
    <2> QED
      BY <1>9, <2>1 DEF Raise, TypeOK
  <1>10. CASE Revert(r)
    <2>1. request[r].upload \in Uploads
      BY <1>10 DEF Revert, At, RequestHasUpload
    <2>2. Released(upload[request[r].upload]) \in Row
      BY <2>1, RowValues DEF TypeOK
    <2>3. upload' \in [Uploads -> Row]
      BY <1>10, <2>1, <2>2 DEF Revert, TypeOK
    <2>4. request' \in [Requests -> Request] /\ RequestHasUpload'
      BY <1>10, RequestValues DEF Revert
    <2> QED
      BY <1>10, <2>3, <2>4 DEF Revert, TypeOK
  <1> QED
    BY <1>1, <1>2, <1>3, <1>4, <1>5, <1>6, <1>7, <1>8, <1>9, <1>10 DEF CompleteStep

\* Cancelling an upload.
LEMMA CancelStepType ==
  ASSUME TypeOK, RequestHasUpload, NEW r \in Requests, CancelStep(r)
  PROVE  TypeOK' /\ RequestHasUpload'
  <1>1. ASSUME NEW u \in Uploads, CancelRead(r, u) PROVE TypeOK' /\ RequestHasUpload'
    <2> DEFINE q == [pc |-> "cancelling", upload |-> u, content |-> "none",
                     parts |-> {p \in Parts : upload[u].received[p] # "none"}]
    <2>1. q \in Request /\ q.upload \in Uploads
      BY DEF Request, Contents
    <2>2. request' = [request EXCEPT ![r] = q]
      BY <1>1 DEF CancelRead
    <2>3. request' \in [Requests -> Request] /\ RequestHasUpload'
      BY <2>1, <2>2, RequestMoves
    <2> QED
      BY <1>1, <2>3 DEF CancelRead, TypeOK
  <1>2. CASE CancelMark(r)
    <2>1. request[r].upload \in Uploads /\ Busy(r)
      BY <1>2 DEF CancelMark, At, RequestHasUpload, Busy
    <2>2. [upload[request[r].upload] EXCEPT !.state = "cancelled"] \in Row
      BY <2>1, RowValues DEF TypeOK, States
    <2>3. upload' \in [Uploads -> Row]
      BY <1>2, <2>1, <2>2 DEF CancelMark, TypeOK
    <2>4. request' \in [Requests -> Request] /\ RequestHasUpload'
      BY <1>2, <2>1, RequestValues DEF CancelMark
    <2> QED
      BY <1>2, <2>3, <2>4 DEF CancelMark, TypeOK
  <1>3. CASE CancelRemove(r)
    <2>1. /\ request[r].upload \in Uploads /\ disk[request[r].upload] \in Files
          /\ request[r].parts \in SUBSET Parts /\ Busy(r)
      BY <1>3 DEF CancelRemove, At, TypeOK, RequestHasUpload, Request, Busy
    <2>2. Emptied(disk[request[r].upload], request[r].parts) \in Files
      BY <2>1, FilesValues
    <2>3. disk' \in [Uploads -> Files]
      BY <1>3, <2>1, <2>2 DEF CancelRemove, RemoveParts, TypeOK
    <2>4. request' \in [Requests -> Request] /\ RequestHasUpload'
      BY <1>3, <2>1, RequestValues DEF CancelRemove
    <2> QED
      BY <1>3, <2>3, <2>4 DEF CancelRemove, RemoveParts, TypeOK
  <1> QED
    BY <1>1, <1>2, <1>3 DEF CancelStep

\* Creation and the clock.
LEMMA TickType ==
  ASSUME TypeOK, RequestHasUpload, NEW u \in Uploads,
         CreateUpload(u) \/ TtlRunsOut(u) \/ LeaseRunsOut(u)
  PROVE  TypeOK' /\ RequestHasUpload'
  <1>1. /\ [upload[u] EXCEPT !.state = "uploading"] \in Row
        /\ [upload[u] EXCEPT !.ttlOut = TRUE] \in Row
        /\ [upload[u] EXCEPT !.leaseOut = TRUE] \in Row
    BY RowValues DEF TypeOK, States
  <1>2. upload' \in [Uploads -> Row]
    BY <1>1 DEF CreateUpload, TtlRunsOut, LeaseRunsOut, TypeOK
  <1> QED
    BY <1>2 DEF CreateUpload, TtlRunsOut, LeaseRunsOut, TypeOK, RequestHasUpload

\* The collector.
LEMMA GcType ==
  ASSUME TypeOK, RequestHasUpload, GcExpire \/ GcCollect
  PROVE  TypeOK' /\ RequestHasUpload'
  <1>1. CASE GcExpire
    <2>1. \A u \in Uploads : Closed(upload[u], "expired") \in Row
      BY RowValues DEF TypeOK, States
    <2>2. upload' \in [Uploads -> Row]
      BY <1>1, <2>1 DEF GcExpire, TypeOK
    <2> QED
      BY <1>1, <2>2 DEF GcExpire, TypeOK, RequestHasUpload
  <1>2. CASE GcCollect
    <2>1. \A u \in Uploads : disk'[u] \in Files
      BY <1>2 DEF GcCollect, TypeOK, Files, Nothing, Contents
    <2>2. disk' \in [Uploads -> Files]
      BY <1>2, <2>1 DEF GcCollect
    <2> QED
      BY <1>2, <2>2 DEF GcCollect, TypeOK, RequestHasUpload
  <1> QED
    BY <1>1, <1>2

\* All actions together.
LEMMA TypeStep ==
  ASSUME TypeOK, RequestHasUpload, [Next]_vars
  PROVE  TypeOK' /\ RequestHasUpload'
  <1>1. ASSUME NEW r \in Requests, Die(r) PROVE TypeOK' /\ RequestHasUpload'
    BY <1>1, RequestValues DEF Die, TypeOK
  <1>2. CASE UNCHANGED vars
    BY <1>2 DEF vars, TypeOK, RequestHasUpload
  <1> QED
    BY <1>1, <1>2, PartStepType, CompleteStepType, CancelStepType, TickType, GcType
    DEF Next

\* What the row updates do to the fields the invariant speaks of.
LEMMA RowFields ==
  ASSUME NEW row \in Row
  PROVE  /\ \A p \in Parts, c \in Contents :
               /\ Received(row, p, c).state = row.state
               /\ Received(row, p, c).token = row.token
               /\ Received(row, p, c).ttlOut = row.ttlOut
         /\ \A r \in Requests :
               /\ Claimed(row, r).state = "assembling"
               /\ Claimed(row, r).token = r
               /\ Claimed(row, r).ttlOut = row.ttlOut
         /\ \A state \in States :
               /\ Closed(row, state).state = state
               /\ Closed(row, state).token = NoRequest
               /\ Closed(row, state).ttlOut = row.ttlOut
               /\ [row EXCEPT !.state = state].state = state
               /\ [row EXCEPT !.state = state].token = row.token
               /\ [row EXCEPT !.state = state].ttlOut = row.ttlOut
         /\ Released(row).state = "uploading"
         /\ Released(row).token = NoRequest
         /\ Released(row).ttlOut = row.ttlOut
         /\ [row EXCEPT !.ttlOut = TRUE].state = row.state
         /\ [row EXCEPT !.ttlOut = TRUE].token = row.token
         /\ [row EXCEPT !.ttlOut = TRUE].ttlOut
         /\ [row EXCEPT !.leaseOut = TRUE].state = row.state
         /\ [row EXCEPT !.leaseOut = TRUE].token = row.token
         /\ [row EXCEPT !.leaseOut = TRUE].ttlOut = row.ttlOut
  BY DEF Row, Received, Claimed, Closed, Released

\* How a transaction may change one row of document_uploads: requests r get it
\* only by claiming it, and a final state is never left.
RowStep(r, old, new) ==
    /\ old.ttlOut => new.ttlOut
    /\ \/ new.state = old.state /\ new.token = old.token
       \/ old.state = "absent" /\ new.state = "uploading" /\ new.token = old.token
       \/ old.state = "uploading" /\ new.state = "cancelled" /\ new.token = old.token
       \/ /\ old.state = "uploading" /\ ~old.ttlOut
          /\ new.state = "assembling" /\ new.token = r
       \/ /\ old.state = "assembling" /\ new.token = NoRequest
          /\ new.state \in {"uploading", "expired"}
       \/ old.state = "uploading" /\ new.state = "expired" /\ new.token = NoRequest

\* Every step of a request but Finish changes rows in this way.
LEMMA RequestRows ==
  ASSUME TypeOK, RequestHasUpload, TokenIsHeld, NEW r \in Requests,
         PartStep(r) \/ CompleteStep(r) \/ CancelStep(r) \/ Die(r), ~Finish(r)
  PROVE  \A v \in Uploads : RowStep(r, upload[v], upload'[v])
  <1> DEFINE u == request[r].upload
  <1>1. \A v \in Uploads : upload[v] \in Row
    BY DEF TypeOK
  <1>2. CASE UNCHANGED upload
    BY <1>2 DEF RowStep
  <1>3. ASSUME NEW p \in Parts, RecordPart(r, p)
        PROVE  \A v \in Uploads : RowStep(r, upload[v], upload'[v])
    <2>1. u \in Uploads /\ request[r].content \in Contents
      BY <1>3 DEF RecordPart, At, RequestHasUpload, TypeOK, Request
    <2>2. \A v \in Uploads :
             \/ upload'[v] = upload[v]
             \/ upload'[v] = Received(upload[v], p, request[r].content)
      BY <1>3, <2>1 DEF RecordPart, TypeOK
    <2> QED
      BY <1>1, <2>1, <2>2, RowFields DEF RowStep
  <1>4. ASSUME NEW w \in Uploads, RecoverAssembly(r, w)
        PROVE  \A v \in Uploads : RowStep(r, upload[v], upload'[v])
    <2>1. \A v \in Uploads :
             \/ upload'[v] = upload[v]
             \/ upload[v].state = "assembling" /\ upload'[v] = Released(upload[v])
      BY <1>4 DEF RecoverAssembly, TypeOK
    <2> QED
      BY <1>1, <2>1, RowFields DEF RowStep
  <1>5. ASSUME NEW w \in Uploads, ClaimAssembly(r, w)
        PROVE  \A v \in Uploads : RowStep(r, upload[v], upload'[v])
    <2>1. \A v \in Uploads :
             \/ upload'[v] = upload[v]
             \/ /\ upload[v].state = "uploading" /\ ~upload[v].ttlOut
                /\ upload'[v] = Claimed(upload[v], r)
      BY <1>5 DEF ClaimAssembly, Accepting, TypeOK
    <2> QED
      BY <1>1, <2>1, RowFields DEF RowStep
  <1>6. CASE Revert(r)
    <2>1. u \in Uploads
      BY <1>6 DEF Revert, At, RequestHasUpload
    <2>2. MayRevert(r) => upload[u].state = "assembling"
      BY <2>1, NoRequestAssumption DEF MayRevert, TokenIsHeld
    <2>3. \A v \in Uploads :
             \/ upload'[v] = upload[v]
             \/ upload[v].state = "assembling" /\ upload'[v] = Released(upload[v])
      BY <1>6, <2>1, <2>2 DEF Revert, TypeOK
    <2> QED
      BY <1>1, <2>3, RowFields DEF RowStep
  <1>7. CASE CancelMark(r)
    <2>1. \A v \in Uploads :
             \/ upload'[v] = upload[v]
             \/ /\ upload[v].state = "uploading"
                /\ upload'[v] = [upload[v] EXCEPT !.state = "cancelled"]
      BY <1>7 DEF CancelMark, TypeOK
    <2>2. "cancelled" \in States
      BY DEF States
    <2>3. \A v \in Uploads :
             LET new == [upload[v] EXCEPT !.state = "cancelled"]
             IN  /\ new.state = "cancelled" /\ new.token = upload[v].token
                 /\ new.ttlOut = upload[v].ttlOut
      BY <1>1, <2>2 DEF Row
    <2> QED
      BY <2>1, <2>3 DEF RowStep
  <1> QED
    BY <1>2, <1>3, <1>4, <1>5, <1>6, <1>7
    DEF PartStep, AcceptPart, LinkPart, CompleteStep, ReadParts, LinkAssembled,
        CheckAssembled, StoreOriginal, CleanUp, RemoveParts, Raise, CancelStep, CancelRead,
        CancelRemove, Die

\* The steps of the clock and of the collector claim nothing: no request r gets a row.
LEMMA OtherRows ==
  ASSUME TypeOK, TokenIsHeld,
         \/ \E u \in Uploads : CreateUpload(u) \/ TtlRunsOut(u) \/ LeaseRunsOut(u)
         \/ GcExpire
         \/ GcCollect
         \/ UNCHANGED vars
  PROVE  \A v \in Uploads : /\ RowStep(NoRequest, upload[v], upload'[v])
                            /\ upload'[v].state = "assembling" => upload[v].state = "assembling"
  <1>1. \A v \in Uploads : upload[v] \in Row
    BY DEF TypeOK
  <1>2. "uploading" \in States /\ "expired" \in States
    BY DEF States
  <1>3. ASSUME NEW u \in Uploads, CreateUpload(u) \/ TtlRunsOut(u) \/ LeaseRunsOut(u),
               NEW v \in Uploads
        PROVE  /\ RowStep(NoRequest, upload[v], upload'[v])
               /\ upload'[v].state = "assembling" => upload[v].state = "assembling"
    <2>1. \/ upload'[v] = upload[v]
          \/ /\ upload[v].state = "absent"
             /\ upload'[v] = [upload[v] EXCEPT !.state = "uploading"]
          \/ upload'[v] = [upload[v] EXCEPT !.ttlOut = TRUE]
          \/ upload'[v] = [upload[v] EXCEPT !.leaseOut = TRUE]
      BY <1>3 DEF CreateUpload, TtlRunsOut, LeaseRunsOut, TypeOK
    <2> QED
      BY <1>1, <2>1 DEF RowStep, Row
  <1>4. ASSUME GcExpire, NEW v \in Uploads
        PROVE  /\ RowStep(NoRequest, upload[v], upload'[v])
               /\ upload'[v].state = "assembling" => upload[v].state = "assembling"
    <2>1. \/ upload'[v] = upload[v]
          \/ /\ upload[v].state \in {"uploading", "assembling"}
             /\ upload'[v] = Closed(upload[v], "expired")
      BY <1>4 DEF GcExpire, ExpiresAt
    <2> QED
      BY <1>1, <1>2, <2>1, RowFields DEF RowStep
  <1> QED
    BY <1>3, <1>4 DEF GcCollect, vars, RowStep

\* TokenIsHeld is kept by every step.
LEMMA TokenStep ==
  ASSUME TypeOK, RequestHasUpload, TokenIsHeld, [Next]_vars
  PROVE  TokenIsHeld'
  <1>1. ASSUME NEW r \in Requests, Finish(r) PROVE TokenIsHeld'
    <2>1. \A v \in Uploads :
             upload'[v] = upload[v] \/ upload'[v] = Closed(upload[v], "completed")
      BY <1>1 DEF Finish, TypeOK
    <2>2. \A v \in Uploads : upload[v] \in Row
      BY DEF TypeOK
    <2> QED
      BY <2>1, <2>2, RowFields DEF TokenIsHeld, States
  <1>2. ASSUME NEW r, \A v \in Uploads : RowStep(r, upload[v], upload'[v])
        PROVE  TokenIsHeld'
    BY <1>2 DEF RowStep, TokenIsHeld
  <1> QED
    BY <1>1, <1>2, RequestRows, OtherRows DEF Next

-----------------------------------------------------------------------------
\* The invariant without its typing parts.
Facts ==
    /\ OriginalsAreGood
    /\ StoredIsKept
    /\ CollectorClock
    /\ DocumentIffCompleted
    /\ CompletedIsIntact

\* A step that leaves the originals, the documents and the collector alone, changes
\* rows as RowStep allows and lets nobody reach "stored" keeps these facts.
LEMMA QuietStep ==
  ASSUME TypeOK, Shape, Facts, UNCHANGED <<documents, gc>>, NEW r,
         \A v \in Uploads : RowStep(r, upload[v], upload'[v]),
         \A v \in Uploads : disk'[v].original = disk[v].original,
         \A q \in Requests :
            request'[q].pc = "stored" => q # r /\ request'[q] = request[q]
  PROVE  Facts'
  <1>1. OriginalsAreGood' /\ CompletedIsIntact'
    BY DEF Facts, OriginalsAreGood, CompletedIsIntact, TypeOK
  <1>2. ASSUME NEW q \in Requests, At(q, "stored")', Owns(q)'
        PROVE  disk'[request'[q].upload].original = "good"
    <2>1. q # r /\ request'[q] = request[q] /\ At(q, "stored")
      BY <1>2 DEF At
    <2>2. request[q].upload \in Uploads
      BY <2>1 DEF Shape, RequestHasUpload, At
    <2>3. Owns(q)
      BY <1>2, <2>1, <2>2, NoRequestAssumption DEF Owns, RowStep
    <2> QED
      BY <2>1, <2>2, <2>3 DEF Facts, StoredIsKept
  <1>3. StoredIsKept'
    BY <1>2 DEF StoredIsKept
  <1>4. CollectorClock'
    BY DEF Facts, CollectorClock, TypeOK, RowStep
  <1>5. DocumentIffCompleted'
    BY DEF Facts, DocumentIffCompleted, RowStep
  <1> QED
    BY <1>1, <1>3, <1>4, <1>5 DEF Facts

\* All steps of a request are quiet in this sense, except two of complete_upload.
LEMMA RequestFacts ==
  ASSUME TypeOK, Shape, Facts, NEW r \in Requests,
         PartStep(r) \/ CompleteStep(r) \/ CancelStep(r) \/ Die(r),
         ~StoreOriginal(r), ~Finish(r)
  PROVE  Facts'
  <1>1. \A v \in Uploads : RowStep(r, upload[v], upload'[v])
    BY RequestRows DEF Shape
  <1>2. UNCHANGED <<documents, gc>>
    BY DEF PartStep, AcceptPart, LinkPart, RecordPart, CompleteStep, RecoverAssembly,
           ClaimAssembly, ReadParts, LinkAssembled, CheckAssembled, CleanUp, RemoveParts,
           Raise, Revert, CancelStep, CancelRead, CancelMark, CancelRemove, Die
  <1>3. \A v \in Uploads : disk'[v].original = disk[v].original
    <2>1. CASE UNCHANGED disk
      BY <2>1
    <2>2. ASSUME NEW p \in Parts, LinkPart(r, p)
          PROVE  \A v \in Uploads : disk'[v].original = disk[v].original
      BY <2>2 DEF LinkPart, WithPart, TypeOK, Files
    <2>3. CASE LinkAssembled(r)
      BY <2>3 DEF LinkAssembled, TypeOK, Files
    <2>4. CASE RemoveParts(r)
      BY <2>4 DEF RemoveParts, Emptied, TypeOK, Files
    <2> QED
      BY <2>1, <2>2, <2>3, <2>4
      DEF PartStep, AcceptPart, RecordPart, CompleteStep, RecoverAssembly, ClaimAssembly,
          ReadParts, CheckAssembled, CleanUp, Raise, Revert, CancelStep, CancelRead,
          CancelMark, CancelRemove, Die
  <1>4. \A q \in Requests :
           request'[q].pc = "stored" => q # r /\ request'[q] = request[q]
    <2>1. request \in [Requests -> Request]
      BY DEF TypeOK
    <2>2. \A q \in Requests : q # r => request'[q] = request[q]
      BY <2>1
      DEF PartStep, AcceptPart, LinkPart, RecordPart, CompleteStep, RecoverAssembly,
          ClaimAssembly, ReadParts, LinkAssembled, CheckAssembled, CleanUp, Raise, Revert,
          CancelStep, CancelRead, CancelMark, CancelRemove, Die, Move, End
    <2>3. request'[r].pc # "stored"
      <3>1. CASE PartStep(r)
        BY <2>1, <3>1
        DEF PartStep, AcceptPart, LinkPart, RecordPart, Move, End, Fresh, Request
      <3>2. CASE CompleteStep(r)
        <4>1. ASSUME NEW u \in Uploads, RecoverAssembly(r, u) \/ ClaimAssembly(r, u)
              PROVE  request'[r].pc # "stored"
          BY <2>1, <4>1 DEF RecoverAssembly, ClaimAssembly, At
        <4>2. CASE ReadParts(r)
          BY <2>1, <4>2 DEF ReadParts, Request
        <4>3. CASE LinkAssembled(r) \/ CheckAssembled(r) \/ Raise(r)
          BY <2>1, <4>3 DEF LinkAssembled, CheckAssembled, Raise, Move, Request
        <4>4. CASE CleanUp(r) \/ Revert(r)
          BY <2>1, <4>4 DEF CleanUp, Revert, End, Fresh
        <4> QED
          BY <3>2, <4>1, <4>2, <4>3, <4>4 DEF CompleteStep
      <3>3. CASE CancelStep(r)
        BY <2>1, <3>3
        DEF CancelStep, CancelRead, CancelMark, CancelRemove, Move, Request
      <3>4. CASE Die(r)
        BY <2>1, <3>4 DEF Die, End, Fresh
      <3> QED
        BY <3>1, <3>2, <3>3, <3>4
    <2> QED
      BY <2>2, <2>3
  <1> QED
    BY <1>1, <1>2, <1>3, <1>4, QuietStep

\* StoreOriginal puts good bytes in place; Finish turns the claim into a document.
LEMMA StoreFacts ==
  ASSUME TypeOK, Shape, Facts, NEW r \in Requests, StoreOriginal(r) \/ Finish(r)
  PROVE  Facts'
  <1> DEFINE u == request[r].upload
  <1>1. u \in Uploads
    BY DEF StoreOriginal, Finish, At, Shape, RequestHasUpload
  <1>2. \A q \in Requests : q # r => request'[q] = request[q]
    BY DEF StoreOriginal, Finish, Move, TypeOK
  <1>3. request'[r].upload = u /\ (Finish(r) => request'[r].pc = "committed")
    BY DEF StoreOriginal, Finish, Move, TypeOK, Request
  <1>4. \A q \in Requests :
           request[q].pc = "stored" => request[q].upload \in Uploads
    BY DEF Shape, RequestHasUpload
  <1>5. CASE StoreOriginal(r)
    <2>1. disk[u].assembled = "good" /\ UNCHANGED <<upload, documents, gc>>
      BY <1>5 DEF StoreOriginal, HashMatches
    <2>2. \A v \in Uploads : disk'[v].original = IF v = u THEN "good" ELSE disk[v].original
      BY <1>1, <1>5, <2>1 DEF StoreOriginal, TypeOK, Files
    <2>3. OriginalsAreGood' /\ CompletedIsIntact'
      BY <2>1, <2>2 DEF Facts, OriginalsAreGood, CompletedIsIntact, TypeOK
    <2>4. StoredIsKept'
      BY <1>1, <1>2, <1>3, <1>4, <2>1, <2>2 DEF Facts, StoredIsKept, At, Owns
    <2>5. CollectorClock' /\ DocumentIffCompleted'
      BY <2>1 DEF Facts, CollectorClock, DocumentIffCompleted
    <2> QED
      BY <2>3, <2>4, <2>5 DEF Facts
  <1>6. CASE Finish(r)
    <2>1. /\ upload[u].state = "assembling" /\ upload[u].token = r
          /\ disk[u].original = "good"
      BY <1>1, <1>6 DEF Finish, MayFinish, Owns, At, Facts, StoredIsKept
    <2>2. /\ upload' = [upload EXCEPT ![u] = Closed(upload[u], "completed")]
          /\ documents' = documents \cup {u} /\ UNCHANGED <<disk, gc>>
      BY <1>6, <2>1 DEF Finish
    <2>3. /\ upload'[u] = Closed(upload[u], "completed") /\ upload[u] \in Row
          /\ \A v \in Uploads : v # u => upload'[v] = upload[v]
      BY <1>1, <2>2 DEF TypeOK
    <2>4. /\ upload'[u].state = "completed" /\ upload'[u].ttlOut = upload[u].ttlOut
          /\ upload'[u].token = NoRequest
      BY <2>3, RowFields DEF States
    <2>5. OriginalsAreGood' /\ CompletedIsIntact'
      BY <2>1, <2>2 DEF Facts, OriginalsAreGood, CompletedIsIntact
    <2>6. StoredIsKept'
      BY <1>1, <1>2, <1>3, <1>4, <1>6, <2>2, <2>3, <2>4
      DEF Facts, StoredIsKept, At, Owns
    <2>7. CollectorClock'
      BY <1>1, <2>2, <2>3, <2>4 DEF Facts, CollectorClock, TypeOK
    <2>8. DocumentIffCompleted'
      BY <1>1, <2>2, <2>3, <2>4 DEF Facts, DocumentIffCompleted
    <2> QED
      BY <2>5, <2>6, <2>7, <2>8 DEF Facts
  <1> QED
    BY <1>5, <1>6

\* Creation and the clock are quiet too, with nobody as the claiming request.
LEMMA TickFacts ==
  ASSUME TypeOK, Shape, Facts, NEW u \in Uploads,
         CreateUpload(u) \/ TtlRunsOut(u) \/ LeaseRunsOut(u)
  PROVE  Facts'
  <1>1. \A v \in Uploads : RowStep(NoRequest, upload[v], upload'[v])
    BY OtherRows DEF Shape
  <1>2. UNCHANGED <<disk, documents, request, gc>>
    BY DEF CreateUpload, TtlRunsOut, LeaseRunsOut
  <1> QED
    BY <1>1, <1>2, QuietStep, NoRequestAssumption

\* The transaction that expires uploads takes them from their assemblers and
\* fixes the clock: what stays in "assembling" was not both expired and lost.
LEMMA ExpireFacts ==
  ASSUME TypeOK, Shape, Facts, GcExpire
  PROVE  Facts'
  <1>1. \A v \in Uploads : /\ RowStep(NoRequest, upload[v], upload'[v])
                           /\ upload'[v].state = "assembling" => upload[v].state = "assembling"
    BY OtherRows DEF Shape
  <1>2. UNCHANGED <<disk, documents, request>>
    BY DEF GcExpire
  <1>3. OriginalsAreGood' /\ CompletedIsIntact'
    BY <1>2 DEF Facts, OriginalsAreGood, CompletedIsIntact
  <1>4. DocumentIffCompleted'
    BY <1>1, <1>2 DEF Facts, DocumentIffCompleted, RowStep
  <1>5. StoredIsKept'
    BY <1>1, <1>2, NoRequestAssumption
    DEF Facts, StoredIsKept, At, Owns, Shape, RequestHasUpload, RowStep
  <1>6. CollectorClock'
    <2>1. /\ gc'.ttlOut = {u \in Uploads : upload[u].ttlOut}
          /\ gc'.leaseOut = {u \in Uploads : upload[u].leaseOut}
      BY DEF GcExpire
    <2>2. ASSUME NEW u \in Uploads, upload[u].ttlOut, upload[u].leaseOut
          PROVE  upload'[u].state # "assembling"
      <3>1. CASE upload[u].state \in {"uploading", "assembling"}
        <4>1. upload'[u] = Closed(upload[u], "expired") /\ upload[u] \in Row
          BY <2>2, <3>1 DEF GcExpire, ExpiresAt, TypeOK
        <4> QED
          BY <4>1, RowFields DEF States
      <3>2. CASE upload[u].state \notin {"uploading", "assembling"}
        BY <1>1, <3>2
      <3> QED
        BY <3>1, <3>2
    <2> QED
      BY <1>1, <2>1, <2>2 DEF CollectorClock, RowStep
  <1> QED
    BY <1>3, <1>4, <1>5, <1>6 DEF Facts

\* The collector: an upload somebody assembles is active by the clock it read, so
\* its original stays, and so do the originals of the documents.
LEMMA CollectFacts ==
  ASSUME TypeOK, Shape, Facts, GcCollect
  PROVE  Facts'
  <1>1. PICK originals \in SUBSET Uploads :
           /\ \A u \in originals : ~Protected(u)
           /\ \A u \in Uploads :
                 disk'[u].original = IF u \in originals THEN "none" ELSE disk[u].original
    BY DEF GcCollect
  <1>2. UNCHANGED <<upload, documents, request>> /\ gc'.ttlOut = {}
    BY DEF GcCollect
  <1>3. \A u \in Uploads : upload[u].state = "assembling" => u \notin originals
    BY <1>1 DEF Facts, CollectorClock, Protected, Active
  <1>4. StoredIsKept'
    BY <1>1, <1>2, <1>3 DEF Facts, StoredIsKept, At, Owns, Shape, RequestHasUpload
  <1>5. OriginalsAreGood'
    BY <1>1 DEF Facts, OriginalsAreGood
  <1>6. CompletedIsIntact'
    BY <1>1, <1>2 DEF Facts, CompletedIsIntact, Protected, TypeOK
  <1>7. CollectorClock' /\ DocumentIffCompleted'
    BY <1>2 DEF Facts, CollectorClock, DocumentIffCompleted
  <1> QED
    BY <1>4, <1>5, <1>6, <1>7 DEF Facts

\* Every step keeps the facts.
LEMMA FactsStep ==
  ASSUME TypeOK, Shape, Facts, [Next]_vars
  PROVE  Facts'
  <1>1. CASE UNCHANGED vars
    BY <1>1 DEF vars, Facts, OriginalsAreGood, StoredIsKept, CollectorClock,
                DocumentIffCompleted, CompletedIsIntact, At, Owns
  <1> QED
    BY <1>1, RequestFacts, StoreFacts, TickFacts, ExpireFacts, CollectFacts DEF Next

-----------------------------------------------------------------------------
\* The invariant holds in every behaviour.
LEMMA InvHolds == Spec => []Inv
  <1>1. Inv <=> TypeOK /\ Shape /\ Facts
    BY DEF Inv, Facts
  <1>2. Inv /\ [Next]_vars => Inv'
    BY <1>1, TypeStep, TokenStep, FactsStep DEF Inv, Facts, Shape
  <1> QED
    BY <1>2, InitInv, PTL DEF Spec

\* The rows, files and local states have their types in every behaviour.
THEOREM TypeCorrect == Spec => []TypeOK
  BY InvHolds, PTL DEF Inv

\* A document, its batch and its task exist exactly for completed uploads,
\* whatever number of requests assemble, cancel, fail and die.
THEOREM DocumentsAreCompleted == Spec => []DocumentIffCompleted
  BY InvHolds, PTL DEF Inv

\* The original of every document is on disk with the declared bytes: no race with
\* the collector or with another request takes it away.
THEOREM OriginalsStay == Spec => []CompletedIsIntact
  BY InvHolds, PTL DEF Inv

\* A document for each completed upload, with its bytes, for any number of requests.
THEOREM DocumentsStayWhole == Spec => []DocumentsAreWhole
  BY DocumentsAreCompleted, OriginalsStay, PTL DEF DocumentsAreWhole

\* Completed, cancelled and expired uploads never change their state again: a
\* final row is not one that RowStep changes, and Finish needs "assembling".
THEOREM FinalStays == Spec => TerminalIsFinal
  <1>1. ASSUME Inv, Next, NEW u \in Uploads, upload[u].state \in Terminal
        PROVE  upload'[u].state = upload[u].state
    <2>1. ASSUME NEW r, RowStep(r, upload[u], upload'[u])
          PROVE  upload'[u].state = upload[u].state
      BY <1>1, <2>1 DEF RowStep, Terminal
    <2>2. ASSUME NEW r \in Requests, Finish(r)
          PROVE  upload'[u].state = upload[u].state
      BY <1>1, <2>2 DEF Finish, MayFinish, Owns, Terminal, Inv, TypeOK
    <2> QED
      BY <1>1, <2>1, <2>2, RequestRows, OtherRows DEF Next, Inv, Shape
  <1>2. Inv /\ [Next]_vars =>
           [\A u \in Uploads :
              upload[u].state \in Terminal => upload'[u].state = upload[u].state]_vars
    BY <1>1
  <1> QED
    BY <1>2, InvHolds, PTL DEF Spec, TerminalIsFinal
=============================================================================
