---------------------------- MODULE MonthImports ----------------------------
(***************************************************************************)
(* The monthly workbooks of a branch (backend/app/api/v1/imports.py) and   *)
(* what the mobile application shows of them (backend/app/mobile/service.  *)
(* py, repository.py, firestore_sync.py), for one branch and month.        *)
(*                                                                         *)
(* An upload commits its dataset before it parses the file, and its status *)
(* with its rows afterwards.  A publication commits which dataset the      *)
(* month shows and then writes to Firestore document by document, outside  *)
(* of any transaction.  Department boards go like the overall board.       *)
(***************************************************************************)
EXTENDS Naturals, FiniteSets, SequencesExt

CONSTANTS Files,          \* workbooks, told apart by their checksums
          NoFile,
          Codes,          \* employee codes: numbers, in their order
          CodesIn,         \* [Files -> SUBSET Codes]: who a workbook has rows of
          Sales,          \* [Files -> [Codes -> Nat]]: net sales, 0 where there are none
          BoardLimit,     \* settings.mobile_sync_leaderboard_limit
          ImportSessions  \* requests that upload or publish

ASSUME ImportAssumption ==
  /\ NoFile \notin Files /\ Codes \subseteq Nat /\ BoardLimit \in Nat
  /\ CodesIn \in [Files -> SUBSET Codes] /\ Sales \in [Files -> [Codes -> Nat]]
  /\ \A f \in Files : IsFiniteSet(CodesIn[f])

VARIABLES onStaff,    \* codes of active employees of the branch
          dataset,    \* [Files -> row of imports.datasets with its summaries]
          published,  \* month_state.published_dataset_id
          month, docs, board,  \* Firestore: the month, its employees, its leaderboard
          importing,  \* [ImportSessions -> what a request is at]
          crossed     \* history: the last publication crossed another, or an upload

imports == <<onStaff, dataset, published>>
firestore == <<month, docs, board>>
mvars == <<imports, firestore, importing, crossed>>

NoRequestHere == [at |-> "nothing"]
NoDocument == [file |-> NoFile]
NotUploaded == [status |-> "absent", sync |-> "DISABLED", rows |-> {}]

ImportsInit ==
  /\ onStaff = Codes
  /\ dataset = [f \in Files |-> NotUploaded]
  /\ published = NoFile
  /\ month = NoFile /\ docs = [c \in Codes |-> NoDocument] /\ board = [file |-> NoFile, top |-> <<>>]
  /\ importing = [s \in ImportSessions |-> NoRequestHere]
  /\ crossed = FALSE

\* _sort_key: by sales, then by code.
Ahead(f, c, d) == Sales[f][c] > Sales[f][d] \/ (Sales[f][c] = Sales[f][d] /\ c < d)

Ranked(f, rows) ==
  [i \in 1..Cardinality(rows) |->
     CHOOSE c \in rows : Cardinality({d \in rows : Ahead(f, d, c)}) = i - 1]

Goes(s, at, f) == importing' = [importing EXCEPT ![s] = [at |-> at, file |-> f]]
Ends(s) == importing' = [importing EXCEPT ![s] = NoRequestHere]
IsAt(s, at) == importing[s].at = at
FileOf(s) == importing[s].file

\* Employees come and go.
StaffChanges ==
  /\ \E c \in Codes : onStaff' = (onStaff \cup {c}) \ (onStaff \cap {c})
  /\ UNCHANGED <<dataset, published, firestore, importing, crossed>>

-----------------------------------------------------------------------------
(* upload_import.                                                           *)

\* Such a file is answered with its dataset, as it is.
AlreadyStored(f) == dataset[f].status \in {"VALIDATING", "READY"}

UploadLook(s, f) ==
  /\ IsAt(s, "nothing") /\ ~AlreadyStored(f)
  /\ Goes(s, IF dataset[f].status = "absent" THEN "new" ELSE "again", f)
  /\ UNCHANGED <<imports, firestore, crossed>>

\* IntegrityError: somebody else has uploaded it meanwhile.
UploadInsert(s) ==
  /\ IsAt(s, "new")
  /\ IF dataset[FileOf(s)].status = "absent"
     THEN /\ dataset' = [dataset EXCEPT ![FileOf(s)].status = "VALIDATING"]
          /\ Goes(s, "parse", FileOf(s))
     ELSE Ends(s) /\ UNCHANGED dataset
  /\ UNCHANGED <<onStaff, published, firestore, crossed>>

Publishing == {"read", "month", "docs", "board", "done"}

\* A FAILED dataset is validated again, whatever it is by now.
Revalidate(s) ==
  /\ IsAt(s, "again")
  /\ dataset' = [dataset EXCEPT ![FileOf(s)].status = "VALIDATING", ![FileOf(s)].sync = "DISABLED"]
  /\ Goes(s, "reparse", FileOf(s))
  /\ crossed' = (crossed \/ \E r \in ImportSessions : importing[r].at \in Publishing)
  /\ UNCHANGED <<onStaff, published, firestore>>

UploadEnds(s, status, rows) ==
  /\ dataset' = [dataset EXCEPT ![FileOf(s)].status = status, ![FileOf(s)].rows = rows]
  /\ Ends(s)
  /\ UNCHANGED <<onStaff, published, firestore, crossed>>

\* No workbook, no such sheets, or no header in one of them.
ParseFails(s) == IsAt(s, "parse") /\ UploadEnds(s, "FAILED", dataset[FileOf(s)].rows)
ReparseFails(s) == IsAt(s, "reparse") /\ UploadEnds(s, "FAILED", dataset[FileOf(s)].rows)

\* Every employee code has to be known in the branch.
Resolved(f) == CodesIn[f] \subseteq onStaff

StoreSummaries(s) ==
  LET f == FileOf(s) IN
  /\ IsAt(s, "parse")
  /\ IF Resolved(f) THEN UploadEnds(s, "READY", CodesIn[f])
     ELSE UploadEnds(s, "FAILED", dataset[f].rows)

\* The DELETE of the old summaries comes first, and stays.
ReplaceSummaries(s) ==
  LET f == FileOf(s) IN
  /\ IsAt(s, "reparse")
  /\ IF Resolved(f) THEN UploadEnds(s, "READY", CodesIn[f])
     ELSE UploadEnds(s, "FAILED", {})

-----------------------------------------------------------------------------
(* publish_import and sync_month.                                           *)

PublishLook(s, f) ==
  /\ IsAt(s, "nothing") /\ dataset[f].status = "READY"
  /\ importing' = [importing EXCEPT ![s] = [at |-> "publish", file |-> f,
                                            first |-> published = NoFile]]
  /\ UNCHANGED <<imports, firestore, crossed>>

\* The primary key of month_state refuses a second first publication.
MayPublish(s) == IsAt(s, "publish") /\ (importing[s].first => published = NoFile)

PublishCommit(s) ==
  LET f == FileOf(s) IN
  /\ MayPublish(s)
  /\ published' = f
  /\ dataset' = [dataset EXCEPT ![f].sync = "PENDING"]
  /\ crossed' = \/ dataset[f].status # "READY"
                \/ \E r \in ImportSessions \ {s} : importing[r].at \in Publishing \cup {"reparse"}
  /\ Goes(s, "read", f)
  /\ UNCHANGED <<onStaff, firestore>>

\* With mobile_sync_enabled off that is all.
PublishUnsynced(s) ==
  /\ MayPublish(s)
  /\ published' = FileOf(s)
  /\ dataset' = [dataset EXCEPT ![FileOf(s)].sync = "DISABLED"]
  /\ Ends(s)
  /\ UNCHANGED <<onStaff, firestore, crossed>>

\* build_mobile_payload: the rows the dataset has now.
ReadRows(s) ==
  LET f == FileOf(s) IN
  /\ IsAt(s, "read")
  /\ importing' = [importing EXCEPT ![s] = [at |-> "month", file |-> f,
                                            ranked |-> Ranked(f, dataset[f].rows)]]
  /\ UNCHANGED <<imports, firestore, crossed>>

SyncGoes(s, at) == importing' = [importing EXCEPT ![s].at = at]

WriteMonth(s) ==
  /\ IsAt(s, "month") /\ month' = FileOf(s) /\ SyncGoes(s, "docs")
  /\ UNCHANGED <<imports, docs, board, crossed>>

Document(s, c) ==
  [file |-> FileOf(s), rank |-> CHOOSE i \in DOMAIN importing[s].ranked : importing[s].ranked[i] = c]

\* Mutant: only employees without a document are written.
WriteNewEmployees(s) ==
  /\ IsAt(s, "docs") /\ SyncGoes(s, "board")
  /\ docs' = [c \in Codes |-> IF docs[c] = NoDocument /\ c \in ToSet(importing[s].ranked)
                              THEN Document(s, c) ELSE docs[c]]
  /\ UNCHANGED <<imports, month, board, crossed>>

\* One batch; the documents of others stay as they are.
WriteEmployees(s) ==
  /\ IsAt(s, "docs") /\ SyncGoes(s, "board")
  /\ docs' = [c \in Codes |-> IF c \in ToSet(importing[s].ranked) THEN Document(s, c) ELSE docs[c]]
  /\ UNCHANGED <<imports, month, board, crossed>>

WriteBoard(s) ==
  /\ IsAt(s, "board") /\ SyncGoes(s, "done")
  /\ LET ranked == importing[s].ranked
         top == IF Len(ranked) < BoardLimit THEN ranked ELSE SubSeq(ranked, 1, BoardLimit)
     IN  board' = [file |-> FileOf(s), top |-> top]
  /\ UNCHANGED <<imports, month, docs, crossed>>

SyncEnds(s, sync) ==
  /\ dataset' = [dataset EXCEPT ![FileOf(s)].sync = sync]
  /\ Ends(s)
  /\ UNCHANGED <<onStaff, published, firestore, crossed>>

WriteSynced(s) == IsAt(s, "done") /\ SyncEnds(s, "SYNCED")
SyncFails(s) == importing[s].at \in Publishing \ {"done"} /\ SyncEnds(s, "FAILED")

\* A request that fails or a server that stops leaves what is committed, or
\* written, so far.
RequestDies(s) ==
  /\ ~IsAt(s, "nothing") /\ Ends(s)
  /\ UNCHANGED <<imports, firestore, crossed>>

ImportsNext ==
  \/ StaffChanges
  \/ \E s \in ImportSessions :
       \/ \E f \in Files : UploadLook(s, f) \/ PublishLook(s, f)
       \/ UploadInsert(s) \/ ParseFails(s) \/ StoreSummaries(s)
       \/ Revalidate(s) \/ ReparseFails(s) \/ ReplaceSummaries(s)
       \/ PublishCommit(s) \/ PublishUnsynced(s)
       \/ ReadRows(s) \/ WriteMonth(s) \/ WriteEmployees(s) \/ WriteBoard(s)
       \/ WriteSynced(s) \/ SyncFails(s) \/ RequestDies(s)

ImportsSpec == ImportsInit /\ [][ImportsNext]_mvars

-----------------------------------------------------------------------------
(* Properties.                                                              *)

\* A dataset that is READY has the rows of its workbook, all of them, however
\* often it failed and was uploaded again, twice at once too.  And a published
\* dataset that counts as SYNCED is what the mobile application shows: exactly
\* its employees have documents of it, at the ranks its board shows, whatever
\* earlier publications left half written; provided that nothing crossed its
\* publication.
MonthShownIsWhole ==
  /\ \A f \in Files : dataset[f].status = "READY" => dataset[f].rows = CodesIn[f]
  /\ published # NoFile /\ dataset[published].sync = "SYNCED" /\ ~crossed =>
       /\ month = published /\ board.file = published
       /\ {c \in Codes : docs[c].file = published} = CodesIn[published]
       /\ Len(board.top) = IF Cardinality(CodesIn[published]) < BoardLimit
                           THEN Cardinality(CodesIn[published]) ELSE BoardLimit
       /\ \A i \in DOMAIN board.top : docs[board.top[i]] = [file |-> published, rank |-> i]

=============================================================================
