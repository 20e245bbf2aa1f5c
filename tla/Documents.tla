------------------------------ MODULE Documents ------------------------------
(***************************************************************************)
(* The document store (backend/app/domains/dms): files whose bytes are     *)
(* written to disk between two transactions, employee documents with their *)
(* immutable versions, and the verification of a document by a workflow    *)
(* request.  Adding a version and asking for verification lock the         *)
(* document row FOR UPDATE, so each is one step; looking a document up     *)
(* before that is a step of the caller (Onboarding).                       *)
(***************************************************************************)
EXTENDS ApprovalRequests, FiniteSets

CONSTANTS DocTypes,      \* codes of dms.document_types
          MaxFiles,      \* bound: files uploaded
          MaxDocs        \* bound: documents created

VARIABLES types,   \* [DocTypes -> is the document type absent, active, inactive]
          files,   \* dms.files: the status of each, in order of upload
          docs     \* dms.documents with their dms.document_versions

None == 0

DocStatuses == {"SUBMITTED", "VERIFIED", "REJECTED"}

\* versions lists the files of a document; the last is its current version.
Document == [owner : Employees, type : DocTypes, status : DocStatuses,
             versions : Seq(1..MaxFiles), link : 0..MaxRequests]

DocumentsInit ==
  /\ types = [t \in DocTypes |-> "absent"]
  /\ files = <<>>
  /\ docs = <<>>

-----------------------------------------------------------------------------
(* The catalogue of document types.                                         *)

CreateType(t) ==
  /\ types[t] = "absent"
  /\ types' = [types EXCEPT ![t] = "active"]
  /\ UNCHANGED <<files, docs, requests>>

PatchType(t, active) ==
  /\ types[t] # "absent"
  /\ types' = [types EXCEPT ![t] = IF active THEN "active" ELSE "inactive"]
  /\ UNCHANGED <<files, docs, requests>>

-----------------------------------------------------------------------------
(* Files.                                                                   *)

\* The row is committed before any byte is written, to reserve its id.
ReserveFile ==
  /\ Len(files) < MaxFiles
  /\ files' = Append(files, "UPLOADING")
  /\ UNCHANGED <<types, docs, requests>>

\* The bytes were written to a temporary file and renamed.
FileStored(f) ==
  /\ files[f] = "UPLOADING"
  /\ files' = [files EXCEPT ![f] = "READY"]
  /\ UNCHANGED <<types, docs, requests>>

FileFails(f) ==
  /\ files[f] = "UPLOADING"
  /\ files' = [files EXCEPT ![f] = "FAILED"]
  /\ UNCHANGED <<types, docs, requests>>

-----------------------------------------------------------------------------
(* Documents.                                                               *)

FileReady(f) == f \in DOMAIN files /\ files[f] = "READY"

CreateDocument(e, t, f) ==
  /\ types[t] = "active"
  /\ FileReady(f)
  /\ Len(docs) < MaxDocs
  /\ docs' = Append(docs, [owner |-> e, type |-> t, status |-> "SUBMITTED",
                           versions |-> <<f>>, link |-> None])
  /\ UNCHANGED <<types, files, requests>>

\* Whatever the status and the verification of the document.
AddVersion(d, f) ==
  /\ FileReady(f)
  /\ Len(docs[d].versions) < MaxFiles
  /\ docs' = [docs EXCEPT ![d].versions = Append(@, f)]
  /\ UNCHANGED <<types, files, requests>>

-----------------------------------------------------------------------------
(* Verification.                                                            *)

\* A decided document takes no verification request.
Verifiable(d) == docs[d].status = "SUBMITTED"

\* Mutant: a request is opened although the document has one.
RequestAnyway(d) ==
  /\ Verifiable(d)
  /\ Open("document", d)
  /\ docs' = [docs EXCEPT ![d].link = NewId]
  /\ UNCHANGED <<types, files>>

\* The document's request is reused, or opened and linked.
RequestVerification(d) ==
  /\ Verifiable(d)
  /\ UNCHANGED <<types, files>>
  /\ \/ docs[d].link # None /\ UNCHANGED <<docs, requests>>
     \/ /\ docs[d].link = None
        /\ Open("document", d)
        /\ docs' = [docs EXCEPT ![d].link = NewId]

\* The request RequestVerification returns.
Verification(d) == IF docs[d].link # None THEN docs[d].link ELSE NewId

\* on_approved, on_rejected, on_cancelled: the first two set the status, the
\* last clears the link if it is this request's.
Verdict(r, verdict) ==
  LET d == requests[r].ref IN
  CASE verdict = "APPROVED" -> [docs EXCEPT ![d].status = "VERIFIED"]
    [] verdict = "REJECTED" -> [docs EXCEPT ![d].status = "REJECTED"]
    [] OTHER -> [docs EXCEPT ![d].link = IF @ = r THEN None ELSE @]

DecideDocument(r, verdict) ==
  /\ requests[r].kind = "document"
  /\ Settle(r, verdict)
  /\ docs' = Verdict(r, verdict)
  /\ UNCHANGED <<types, files>>

-----------------------------------------------------------------------------
(* Properties.                                                              *)

\* A document waiting for its verdict has one request at most that can give
\* it, and that is the one create_verification_request hands out again: a
\* second upload is never sent to a closed request, nor verified twice.
OneOpenVerification ==
  \A d \in DOMAIN docs :
    LET open == {r \in RequestsOf("document", d) : IsOpen(r)} IN
    open = (IF docs[d].status = "SUBMITTED" /\ docs[d].link # None THEN {docs[d].link} ELSE {})

=============================================================================
