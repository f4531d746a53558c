--------------------------- MODULE UploadAssembly ---------------------------
(***************************************************************************)
(* Resumable uploads (document_ingestion.py) and the collector of orphaned *)
(* files (document_maintenance.py).  HTTP threads share the rows of        *)
(* document_uploads and document_upload_parts and the files below staging/ *)
(* and originals/; only the rows are transactional.  Each transaction and  *)
(* each file published by os.link is one action.  A complete request that  *)
(* finds "uploading" draws one uuid4 token: the request is its own token.  *)
(* Time is two events per upload: it expires, its assembly lease runs out. *)
(***************************************************************************)
EXTENDS Naturals, FiniteSets

CONSTANTS
    Uploads, Parts,
    Requests,     \* HTTP requests, each of them handled once
    NoUpload, NoRequest,
    MaxPending    \* unfinished uploads a teacher may have: 2 in the code

ASSUME NoRequestAssumption == NoRequest \notin Requests
ASSUME NoUploadAssumption == NoUpload \notin Uploads

VARIABLES
    upload,       \* [Uploads -> Row]: document_uploads with its part rows
    disk,         \* [Uploads -> Files]: the files kept for the upload
    documents,    \* uploads whose document_files row, batch and task exist
    request,      \* [Requests -> Request]: the local state of each HTTP thread
    gc            \* the local state of the collector

vars == <<upload, disk, documents, request, gc>>

-----------------------------------------------------------------------------
\* "good" bytes are those the teacher declared with the SHA-256 of the document.
Contents == {"none", "good", "bad"}
States == {"absent", "uploading", "assembling", "completed", "cancelled", "expired"}
Terminal == {"completed", "cancelled", "expired"}

Row == [state : States, received : [Parts -> Contents], token : Requests \cup {NoRequest},
        leaseOut : BOOLEAN, ttlOut : BOOLEAN]

Files == [parts : [Parts -> Contents], assembled : Contents, original : Contents]

Nothing == [p \in Parts |-> "none"]

\* parts are those the request writes, reads or removes; content is what it
\* writes: a part, or the assembled document.
Request == [pc : {"new", "accepted", "linked", "claimed", "read", "assembled", "checked",
                  "stored", "committed", "failing", "cancelling", "removing",
                  "cancelled", "done"},
            upload : Uploads \cup {NoUpload}, parts : SUBSET Parts, content : Contents]

Fresh(pc) == [pc |-> pc, upload |-> NoUpload, parts |-> {}, content |-> "none"]

At(r, pc) == request[r].pc = pc
Move(r, pc) == request' = [request EXCEPT ![r].pc = pc]
End(r) == request' = [request EXCEPT ![r] = Fresh("done")]

Row0 == [state |-> "absent", received |-> Nothing, token |-> NoRequest,
         leaseOut |-> FALSE, ttlOut |-> FALSE]

Init ==
    /\ upload = [u \in Uploads |-> Row0]
    /\ disk = [u \in Uploads |->
                  [parts |-> Nothing, assembled |-> "none", original |-> "none"]]
    /\ documents = {}
    /\ request = [r \in Requests |-> Fresh("new")]
    /\ gc = [pc |-> "idle", ttlOut |-> {}, leaseOut |-> {}]

(***************************************************************************)
(* Creating an upload and storing its parts.                               *)
(***************************************************************************)
Pending == {u \in Uploads : upload[u].state \in {"uploading", "assembling"} /\ ~upload[u].ttlOut}

CreateUpload(u) ==
    /\ upload[u].state = "absent"
    /\ Cardinality(Pending) < MaxPending
    /\ upload' = [upload EXCEPT ![u].state = "uploading"]
    /\ UNCHANGED <<disk, documents, request, gc>>

Accepting(u) == upload[u].state = "uploading" /\ ~upload[u].ttlOut

AcceptPart(r, u, p, c) ==
    /\ At(r, "new") /\ Accepting(u)
    /\ request' = [request EXCEPT ![r] =
                     [pc |-> "accepted", upload |-> u, parts |-> {p}, content |-> c]]
    /\ UNCHANGED <<upload, disk, documents, gc>>

\* atomic_write never replaces a file: other bytes at the same key are an error.
Writable(file, content) == file \in {"none", content}

WithPart(files, p, content) == [files EXCEPT !.parts = [@ EXCEPT ![p] = content]]

LinkPart(r, p) ==
    LET u == request[r].upload
    IN  /\ At(r, "accepted") /\ request[r].parts = {p}
        /\ Writable(disk[u].parts[p], request[r].content)
        /\ disk' = [disk EXCEPT ![u] = WithPart(@, p, request[r].content)]
        /\ Move(r, "linked")
        /\ UNCHANGED <<upload, documents, gc>>

Received(row, p, content) == [row EXCEPT !.received = [@ EXCEPT ![p] = content]]

\* The same part again is answered as before; other bytes are refused.
RecordPart(r, p) ==
    LET u == request[r].upload
    IN  /\ At(r, "linked") /\ request[r].parts = {p}
        /\ upload' = IF Accepting(u) /\ upload[u].received[p] = "none"
                     THEN [upload EXCEPT ![u] = Received(@, p, request[r].content)]
                     ELSE upload
        /\ End(r)
        /\ UNCHANGED <<disk, documents, gc>>

(***************************************************************************)
(* Completing an upload: claim it, assemble and store outside any          *)
(* transaction, then check the token again and create the rows.            *)
(***************************************************************************)
\* Mutated form: a failed assembly gets a state of its own.
Released_Failed(row) ==
    [row EXCEPT !.state = "failed", !.token = NoRequest, !.leaseOut = FALSE]

Released(row) ==
    [row EXCEPT !.state = "uploading", !.token = NoRequest, !.leaseOut = FALSE]

RecoverAssembly(r, u) ==
    /\ At(r, "new")
    /\ upload[u].state = "assembling" /\ upload[u].leaseOut
    /\ upload' = [upload EXCEPT ![u] = Released(@)]
    /\ UNCHANGED <<disk, documents, request, gc>>

Claimed(row, r) ==
    [row EXCEPT !.state = "assembling", !.token = r, !.leaseOut = FALSE]

ClaimAssembly(r, u) ==
    /\ At(r, "new") /\ Accepting(u)
    /\ \A p \in Parts : upload[u].received[p] # "none"
    /\ upload' = [upload EXCEPT ![u] = Claimed(@, r)]
    /\ request' = [request EXCEPT ![r] =
                     [pc |-> "claimed", upload |-> u, parts |-> Parts, content |-> "none"]]
    /\ UNCHANGED <<disk, documents, gc>>

Owns(r) ==
    LET row == upload[request[r].upload]
    IN  row.state = "assembling" /\ row.token = r

ReadParts(r) ==
    LET files == disk[request[r].upload].parts
        good == \A p \in Parts : files[p] = "good"
    IN  /\ At(r, "claimed") /\ \A p \in Parts : files[p] # "none"
        /\ request' = [request EXCEPT ![r] =
                         [@ EXCEPT !.pc = "read",
                                   !.content = IF good THEN "good" ELSE "bad"]]
        /\ UNCHANGED <<upload, disk, documents, gc>>

LinkAssembled(r) ==
    LET u == request[r].upload
    IN  /\ At(r, "read") /\ Writable(disk[u].assembled, request[r].content)
        /\ disk' = [disk EXCEPT ![u].assembled = request[r].content]
        /\ Move(r, "assembled")
        /\ UNCHANGED <<upload, documents, gc>>

\* The hash the teacher declared; a file that is not there has none.
HashMatches(content) == content = "good"

\* Outside a transaction: the token, the hash of the bytes written, and the
\* kind of file.
CheckAssembled(r) ==
    /\ At(r, "assembled") /\ Owns(r) /\ HashMatches(request[r].content)
    /\ disk[request[r].upload].assembled # "none"
    /\ Move(r, "checked")
    /\ UNCHANGED <<upload, disk, documents, gc>>

StoreOriginal(r) ==
    LET u == request[r].upload
    IN  /\ At(r, "checked") /\ HashMatches(disk[u].assembled)
        /\ Writable(disk[u].original, disk[u].assembled)
        /\ disk' = [disk EXCEPT ![u].original = disk[u].assembled]
        /\ Move(r, "stored")
        /\ UNCHANGED <<upload, documents, gc>>

\* Mutated form: the final transaction does not look at the upload again.
MayFinish_NoCheck(r) == request[r].upload \notin documents

\* The id of the document is made from that of the upload: a second row for it
\* would break the primary key of document_files.
MayFinish(r) == Owns(r) /\ request[r].upload \notin documents

Closed(row, state) ==
    [row EXCEPT !.state = state, !.token = NoRequest, !.leaseOut = FALSE]

\* The last update repeats the token in its where clause.
Finish(r) ==
    LET u == request[r].upload
    IN  /\ At(r, "stored") /\ MayFinish(r)
        /\ documents' = documents \cup {u}
        /\ upload' = IF upload[u].token = r
                     THEN [upload EXCEPT ![u] = Closed(@, "completed")]
                     ELSE upload
        /\ Move(r, "committed")
        /\ UNCHANGED <<disk, gc>>

\* A file that is missing or differs, a lost token, a full disk or a busy
\* database: any step may raise, and every error ends in the same handler.
Raise(r) ==
    /\ request[r].pc \in {"claimed", "read", "assembled", "checked", "stored"}
    /\ Move(r, "failing")
    /\ UNCHANGED <<upload, disk, documents, gc>>

\* Mutated form: the handler does not name its token.
MayRevert_AnyToken(r) == upload[request[r].upload].state # "completed"

MayRevert(r) == upload[request[r].upload].token = r

Revert(r) ==
    LET u == request[r].upload
    IN  /\ At(r, "failing")
        /\ upload' = IF MayRevert(r) THEN [upload EXCEPT ![u] = Released(@)] ELSE upload
        /\ End(r)
        /\ UNCHANGED <<disk, documents, gc>>

\* _remove_upload_parts: the parts the request has listed, then the assembled file.
Emptied(files, parts) ==
    [files EXCEPT !.parts = [p \in Parts |-> IF p \in parts THEN "none" ELSE @[p]],
                  !.assembled = "none"]

RemoveParts(r) ==
    LET u == request[r].upload
    IN  /\ disk' = [disk EXCEPT ![u] = Emptied(@, request[r].parts)]
        /\ UNCHANGED <<upload, documents, gc>>

CleanUp(r) == At(r, "committed") /\ RemoveParts(r) /\ End(r)

(***************************************************************************)
(* Cancelling an upload: the state is read first, the update names         *)
(* "uploading" but nobody looks at whether it changed a row.               *)
(***************************************************************************)
CancelRead(r, u) ==
    /\ At(r, "new") /\ upload[u].state = "uploading"
    /\ request' = [request EXCEPT ![r] =
                     [pc |-> "cancelling", upload |-> u, content |-> "none",
                      parts |-> {p \in Parts : upload[u].received[p] # "none"}]]
    /\ UNCHANGED <<upload, disk, documents, gc>>

CancelMark(r) ==
    LET u == request[r].upload
    IN  /\ At(r, "cancelling")
        /\ upload' = IF upload[u].state = "uploading"
                     THEN [upload EXCEPT ![u].state = "cancelled"]
                     ELSE upload
        /\ Move(r, "removing")
        /\ UNCHANGED <<disk, documents, gc>>

CancelRemove(r) == At(r, "removing") /\ RemoveParts(r) /\ Move(r, "cancelled")

\* The server stops, or a part request fails: nothing of the request is undone.
Die(r) ==
    /\ request[r].pc \notin {"new", "cancelled", "done"}
    /\ End(r)
    /\ UNCHANGED <<upload, disk, documents, gc>>

(***************************************************************************)
(* collect_orphaned_objects: one transaction expires uploads, a second one *)
(* holds the write lock while files nobody refers to are removed.  Both    *)
(* use the time at which the first one started.                            *)
(***************************************************************************)
ExpiresAt(row, ttlOut, leaseOut) ==
    \/ row.state = "uploading" /\ ttlOut
    \/ row.state = "assembling" /\ ttlOut /\ leaseOut

GcExpire ==
    /\ gc.pc = "idle"
    /\ upload' = [u \in Uploads |->
                    IF ExpiresAt(upload[u], upload[u].ttlOut, upload[u].leaseOut)
                    THEN Closed(upload[u], "expired")
                    ELSE upload[u]]
    /\ gc' = [pc |-> "collecting",
              ttlOut |-> {u \in Uploads : upload[u].ttlOut},
              leaseOut |-> {u \in Uploads : upload[u].leaseOut}]
    /\ UNCHANGED <<disk, documents, request>>

Active(u) ==
    \/ upload[u].state = "uploading" /\ u \notin gc.ttlOut
    \/ upload[u].state = "assembling" /\ (u \notin gc.ttlOut \/ u \notin gc.leaseOut)

\* Mutated form: originals count as referenced only once a row names them.
Protected_ByRow(u) == u \in documents

\* An original is kept for its row, or for the active upload its id comes from.
Protected(u) == u \in documents \/ Active(u)

\* The retention time and failing unlinks choose among the candidates.
GcCollect ==
    /\ gc.pc = "collecting"
    /\ \E staging, originals \in SUBSET Uploads :
          /\ \A u \in staging : ~Active(u)
          /\ \A u \in originals : ~Protected(u)
          /\ disk' = [u \in Uploads |->
                [parts |-> IF u \in staging THEN Nothing ELSE disk[u].parts,
                 assembled |-> IF u \in staging THEN "none" ELSE disk[u].assembled,
                 original |-> IF u \in originals THEN "none" ELSE disk[u].original]]
    /\ gc' = [pc |-> "idle", ttlOut |-> {}, leaseOut |-> {}]
    /\ UNCHANGED <<upload, documents, request>>

(***************************************************************************)
(* Time.                                                                   *)
(***************************************************************************)
TtlRunsOut(u) ==
    /\ upload[u].state \in {"uploading", "assembling"} /\ ~upload[u].ttlOut
    /\ upload' = [upload EXCEPT ![u].ttlOut = TRUE]
    /\ UNCHANGED <<disk, documents, request, gc>>

LeaseRunsOut(u) ==
    /\ upload[u].state = "assembling" /\ ~upload[u].leaseOut
    /\ upload' = [upload EXCEPT ![u].leaseOut = TRUE]
    /\ UNCHANGED <<disk, documents, request, gc>>

-----------------------------------------------------------------------------
PartStep(r) ==
    \/ \E u \in Uploads, p \in Parts, c \in {"good", "bad"} : AcceptPart(r, u, p, c)
    \/ \E p \in Parts : LinkPart(r, p) \/ RecordPart(r, p)

CompleteStep(r) ==
    \/ \E u \in Uploads : RecoverAssembly(r, u) \/ ClaimAssembly(r, u)
    \/ ReadParts(r)
    \/ LinkAssembled(r)
    \/ CheckAssembled(r)
    \/ StoreOriginal(r)
    \/ Finish(r)
    \/ CleanUp(r)
    \/ Raise(r)
    \/ Revert(r)

CancelStep(r) ==
    \/ \E u \in Uploads : CancelRead(r, u)
    \/ CancelMark(r)
    \/ CancelRemove(r)

Next ==
    \/ \E r \in Requests : PartStep(r) \/ CompleteStep(r) \/ CancelStep(r) \/ Die(r)
    \/ \E u \in Uploads : CreateUpload(u) \/ TtlRunsOut(u) \/ LeaseRunsOut(u)
    \/ GcExpire
    \/ GcCollect

Spec == Init /\ [][Next]_vars

-----------------------------------------------------------------------------
\* The rows, the files and the local state of the requests and of the collector
\* hold values the code can give them.
TypeOK ==
    /\ upload \in [Uploads -> Row]
    /\ disk \in [Uploads -> Files]
    /\ documents \subseteq Uploads
    /\ request \in [Requests -> Request]
    /\ gc \in [pc : {"idle", "collecting"}, ttlOut : SUBSET Uploads,
               leaseOut : SUBSET Uploads]

\* A document, its batch and its conversion task exist exactly for completed
\* uploads: an assembler whose lease was taken over, whose upload went back to
\* "uploading" or expired meanwhile, never creates them (complete_upload).
DocumentIffCompleted ==
    \A u \in Uploads : u \in documents <=> upload[u].state = "completed"

\* Every document row refers to an original that is on disk and has the bytes
\* the teacher declared, whatever the collector, a racing cancel, a crash or an
\* earlier assembler did to the files of the upload.
CompletedIsIntact ==
    \A u \in documents : disk[u].original = "good"

\* A teacher finds a document for each completed upload, with the bytes that were sent.
DocumentsAreWhole == DocumentIffCompleted /\ CompletedIsIntact

\* No late request takes an upload out of a final state: not the error handler
\* of an assembler that lost its lease, not a part, not a second cancel.
TerminalIsFinal ==
    [][\A u \in Uploads :
          upload[u].state \in Terminal => upload'[u].state = upload[u].state]_vars

\* The interface table describes the cancel call as marking the upload as
\* cancelled: a teacher who was told "cancelled" has no document of that upload.
\* A completion that claims the upload first breaks this (cancel_upload).
CancelledMeansNoDocument ==
    \A r \in Requests : At(r, "cancelled") => request[r].upload \notin documents
=============================================================================
