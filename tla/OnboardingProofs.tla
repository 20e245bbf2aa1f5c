-------------------------- MODULE OnboardingProofs --------------------------
(***************************************************************************)
(* Theorems about Onboarding with the document store and profile changes,  *)
(* for any number of employees, tasks, documents, requests and sessions:   *)
(* what waits for a verdict has the one request that can give it, and what *)
(* was decided says so everywhere.                                         *)
(***************************************************************************)
EXTENDS Onboarding, DataLemmas

RequestStates == {"PENDING"} \cup Verdicts
FileStatuses == {"UPLOADING", "READY", "FAILED"}
DocumentRow == [owner : Employees, type : DocTypes, status : DocStatuses,
                versions : Seq(Nat), link : Nat]
TaskRow == [status : {"PENDING", "SUBMITTED", "APPROVED", "REJECTED"},
            doc : Nat, request : Nat, form : ChangeSets \cup {<<>>}]

UploadPlaces == {"storing", "stored", "creating", "versioning", "uploaded", "linking"}
Uploads == [at : UploadPlaces, emp : Employees, code : Codes, file : Nat, doc : Nat,
            request : Nat]
HrUploads == [at : {"storing"}, code : {None}, file : Nat]
Forms == [at : {"form"}, emp : Employees, code : Codes, form : ChangeSets]
Places == {Idle} \cup Forms \cup HrUploads \cup Uploads

\* Change sets are merged and normalised; what they hold does not matter here.
RowsTyped ==
  /\ requests \in Seq(Request) /\ docs \in Seq(DocumentRow) /\ files \in Seq(FileStatuses)
  /\ IsASequence(changes)
  /\ \A i \in DOMAIN changes : /\ changes[i].emp \in Employees
                               /\ changes[i].status \in RequestStates

OnboardingTyped ==
  /\ task \in [Employees -> [Codes -> TaskRow]]
  /\ session \in [Sessions -> Places]

-----------------------------------------------------------------------------
\* Each request is about a row there is, and a profile change about its own.
RequestsRefer ==
  \A r \in DOMAIN requests :
    /\ requests[r].kind = "document" => requests[r].ref \in DOMAIN docs
    /\ requests[r].kind = "profile" =>
         requests[r].ref \in DOMAIN changes /\ changes[requests[r].ref].request = r

ChangesLinked == \A i \in DOMAIN changes : changes[i].request \in DOMAIN requests

\* The half of the invariant that is about requests, documents and changes.
Approvals ==
  RowsTyped /\ RequestsRefer /\ ChangesLinked /\ OneOpenVerification /\ ChangesMirrorRequests

\* A task with a request wants a document, and has one.
TasksLinked ==
  \A e \in Employees, c \in Codes :
    task[e][c].request # None =>
      TaskDef[c].type = "DOCUMENT" /\ task[e][c].doc \in DOMAIN docs

\* So has an upload that got that far, and only one that wants verification
\* carries a request.
SessionsLinked ==
  \A s \in Sessions : session[s] \in Uploads =>
    LET u == session[s] IN
    /\ TaskDef[u.code].type = "DOCUMENT"
    /\ u.at \in {"versioning", "uploaded", "linking"} => u.doc \in DOMAIN docs
    /\ u.request # None => u.at = "linking" /\ TaskDef[u.code].verify

\* The half that is about tasks.
Claims == OnboardingTyped /\ TasksLinked /\ SessionsLinked /\ TasksClaimNoMore

IInv == Approvals /\ Claims

-----------------------------------------------------------------------------
(* Requests, documents and profile changes.                                 *)

\* The requests that are open for a document.
OpenFor(d) ==
  {r \in DOMAIN requests : /\ requests[r].kind = "document" /\ requests[r].ref = d
                           /\ requests[r].status = "PENDING"}

\* The one request a document waits for, if it does.
Awaited(d) == IF docs[d].status = "SUBMITTED" /\ docs[d].link # None THEN {docs[d].link} ELSE {}

\* The property of a run, with its parts named.
LEMMA OneOpenIs ==
  /\ OneOpenVerification <=> \A d \in DOMAIN docs : OpenFor(d) = Awaited(d)
  /\ OneOpenVerification' <=> \A d \in DOMAIN docs' : OpenFor(d)' = Awaited(d)'
BY DEF OneOpenVerification, RequestsOf, IsOpen, OpenFor, Awaited

\* A decided document stays as it was decided.
DocsKeep ==
  \A d \in DOMAIN docs :
    d \in DOMAIN docs' /\ (docs[d].status # "SUBMITTED" => docs'[d].status = docs[d].status)

\* What opening a request does to the list.
LEMMA Opened ==
  ASSUME RowsTyped, NEW kind \in {"document", "profile"}, NEW ref \in Nat, Open(kind, ref)
  PROVE  /\ requests' \in Seq(Request) /\ NewId \in Nat /\ NewId # None
         /\ DOMAIN requests' = DOMAIN requests \cup {NewId} /\ NewId \notin DOMAIN requests
         /\ requests'[NewId].kind = kind /\ requests'[NewId].ref = ref
         /\ requests'[NewId].status = "PENDING"
         /\ \A r \in DOMAIN requests : requests'[r] = requests[r]
<1> DEFINE x == [kind |-> kind, ref |-> ref, status |-> "PENDING"]
<1>1. x \in Request /\ x.kind = kind /\ x.ref = ref /\ x.status = "PENDING" BY DEF Request
<1>2. requests \in Seq(Request) /\ requests' = Append(requests, x) BY DEF RowsTyped, Open
<1> HIDE DEF x
<1>3. /\ requests' \in Seq(Request) /\ Len(requests) \in Nat
      /\ DOMAIN requests = 1..Len(requests) /\ DOMAIN requests' = 1..Len(requests) + 1
      /\ requests'[Len(requests) + 1] = x
      /\ \A r \in 1..Len(requests) : requests'[r] = requests[r]
  BY <1>1, <1>2
<1>4. QED BY <1>1, <1>3 DEF NewId, None

\* And what settling one does.
LEMMA Settled ==
  ASSUME RowsTyped, NEW r \in DOMAIN requests, NEW verdict \in Verdicts, Settle(r, verdict)
  PROVE  /\ requests' \in Seq(Request) /\ DOMAIN requests' = DOMAIN requests
         /\ requests'[r].kind = requests[r].kind /\ requests'[r].ref = requests[r].ref
         /\ requests'[r].status = verdict /\ requests[r].status = "PENDING"
         /\ \A q \in DOMAIN requests : q # r => requests'[q] = requests[q]
<1> DEFINE x == [requests[r] EXCEPT !.status = verdict]
<1>1. requests \in Seq(Request) /\ requests[r] \in Request /\ requests' = [requests EXCEPT ![r] = x]
  BY DEF RowsTyped, Settle
<1>2. /\ x \in Request /\ x.kind = requests[r].kind /\ x.ref = requests[r].ref
      /\ x.status = verdict
  BY <1>1 DEF Request
<1> HIDE DEF x
<1>3. /\ requests' \in Seq(Request) /\ DOMAIN requests' = DOMAIN requests
      /\ requests'[r] = x /\ \A q \in DOMAIN requests : q # r => requests'[q] = requests[q]
  BY <1>1, <1>2
<1>4. QED BY <1>2, <1>3 DEF Settle, IsOpen

\* A row of the document store that there is.
LEMMA DocumentIs ==
  ASSUME RowsTyped, NEW d \in DOMAIN docs
  PROVE  docs[d] \in DocumentRow /\ d \in Nat /\ d # None
BY DEF RowsTyped, None

\* A new document waits for no request.
LEMMA CreateDocumentKeeps ==
  ASSUME Approvals, NEW e \in Employees, NEW t \in DocTypes, NEW f \in DOMAIN files,
         CreateDocument(e, t, f), UNCHANGED changes
  PROVE  Approvals' /\ DocsKeep /\ Len(docs) + 1 \in DOMAIN docs'
<1> DEFINE x == [owner |-> e, type |-> t, status |-> "SUBMITTED", versions |-> <<f>>,
                 link |-> None]
<1> PICK n \in Nat : n = Len(docs) + 1 BY DEF Approvals, RowsTyped
<1>1. f \in Nat BY DEF Approvals, RowsTyped
<1>2. x \in DocumentRow /\ x.link = None BY <1>1 DEF DocumentRow, DocStatuses, None
<1>3. /\ docs' = Append(docs, x) /\ requests' = requests /\ files' = files
      /\ changes' = changes
  BY DEF CreateDocument
<1> HIDE DEF x
<1>4. /\ docs' \in Seq(DocumentRow) /\ DOMAIN docs' = DOMAIN docs \cup {n}
      /\ n \notin DOMAIN docs /\ docs'[n] = x /\ \A d \in DOMAIN docs : docs'[d] = docs[d]
  <2>1. docs \in Seq(DocumentRow) BY DEF Approvals, RowsTyped
  <2>2. /\ Len(docs) \in Nat /\ DOMAIN docs = 1..Len(docs) /\ DOMAIN docs' = 1..n
        /\ docs' \in Seq(DocumentRow) /\ docs'[n] = x
        /\ \A d \in 1..Len(docs) : docs'[d] = docs[d]
    BY <1>2, <1>3, <2>1
  <2>3. QED BY <2>2
<1>5. RowsTyped' BY <1>3, <1>4 DEF Approvals, RowsTyped
<1>6. RequestsRefer' /\ ChangesLinked' /\ ChangesMirrorRequests'
  BY <1>3, <1>4 DEF Approvals, RequestsRefer, ChangesLinked, ChangesMirrorRequests
<1>7. OneOpenVerification'
  <2>1. OpenFor(n)' = {} /\ Awaited(n)' = {}
    BY <1>2, <1>3, <1>4 DEF Approvals, RequestsRefer, OpenFor, Awaited
  <2>2. \A d \in DOMAIN docs : OpenFor(d)' = OpenFor(d) /\ Awaited(d)' = Awaited(d)
    BY <1>3, <1>4 DEF OpenFor, Awaited
  <2>3. QED BY <1>4, <2>1, <2>2, OneOpenIs DEF Approvals
<1>8. QED BY <1>4, <1>5, <1>6, <1>7 DEF Approvals, DocsKeep

\* A new version leaves the verification of the document as it is.
LEMMA AddVersionKeeps ==
  ASSUME Approvals, NEW d \in DOMAIN docs, NEW f \in Nat,
         AddVersion(d, f), UNCHANGED changes
  PROVE  Approvals' /\ DocsKeep
<1> DEFINE x == [docs[d] EXCEPT !.versions = Append(@, f)]
<1>1. docs[d] \in DocumentRow BY DocumentIs DEF Approvals
<1>2. x \in DocumentRow /\ x.status = docs[d].status /\ x.link = docs[d].link
  <2>1. docs[d].versions \in Seq(Nat) BY <1>1 DEF DocumentRow
  <2>2. Append(docs[d].versions, f) \in Seq(Nat) BY <2>1
  <2>3. QED BY <1>1, <2>2 DEF DocumentRow
<1>3. /\ docs' = [docs EXCEPT ![d] = x] /\ requests' = requests /\ files' = files
      /\ changes' = changes
  BY DEF AddVersion
<1> HIDE DEF x
<1>4. /\ docs' \in Seq(DocumentRow) /\ DOMAIN docs' = DOMAIN docs /\ docs'[d] = x
      /\ \A b \in DOMAIN docs : b # d => docs'[b] = docs[b]
  BY <1>2, <1>3 DEF Approvals, RowsTyped
<1>5. RowsTyped' BY <1>3, <1>4 DEF Approvals, RowsTyped
<1>6. RequestsRefer' /\ ChangesLinked' /\ ChangesMirrorRequests'
  BY <1>3, <1>4 DEF Approvals, RequestsRefer, ChangesLinked, ChangesMirrorRequests
<1>7. OneOpenVerification'
  <2>1. \A b \in DOMAIN docs : OpenFor(b)' = OpenFor(b) /\ Awaited(b)' = Awaited(b)
    BY <1>2, <1>3, <1>4 DEF OpenFor, Awaited
  <2>2. QED BY <1>4, <2>1, OneOpenIs DEF Approvals
<1>8. QED BY <1>2, <1>4, <1>5, <1>6, <1>7 DEF Approvals, DocsKeep

\* A request for verification opens one, or hands out the one that is open.
LEMMA RequestVerificationKeeps ==
  ASSUME Approvals, NEW d \in DOMAIN docs, RequestVerification(d), UNCHANGED changes
  PROVE  Approvals' /\ DocsKeep
<1>1. CASE UNCHANGED <<docs, requests>>
  BY <1>1 DEF RequestVerification, Approvals, RowsTyped, RequestsRefer, ChangesLinked,
              OneOpenVerification, RequestsOf, IsOpen, ChangesMirrorRequests, DocsKeep
<1>2. CASE docs[d].link = None /\ Open("document", d) /\ docs' = [docs EXCEPT ![d].link = NewId]
  <2> DEFINE x == [docs[d] EXCEPT !.link = NewId]
  <2>1. /\ requests' \in Seq(Request) /\ NewId \in Nat /\ NewId # None
        /\ DOMAIN requests' = DOMAIN requests \cup {NewId} /\ NewId \notin DOMAIN requests
        /\ requests'[NewId].kind = "document" /\ requests'[NewId].ref = d
        /\ requests'[NewId].status = "PENDING"
        /\ \A r \in DOMAIN requests : requests'[r] = requests[r]
    BY <1>2, Opened, DocumentIs DEF Approvals
  <2>2. docs[d] \in DocumentRow BY DocumentIs DEF Approvals
  <2>3. x \in DocumentRow /\ x.status = docs[d].status /\ x.link = NewId
    BY <2>1, <2>2 DEF DocumentRow
  <2>4. docs' = [docs EXCEPT ![d] = x] /\ docs[d].status = "SUBMITTED"
    BY <1>2 DEF RequestVerification, Verifiable
  <2> HIDE DEF x
  <2>5. /\ docs' \in Seq(DocumentRow) /\ DOMAIN docs' = DOMAIN docs /\ docs'[d] = x
        /\ \A b \in DOMAIN docs : b # d => docs'[b] = docs[b]
    BY <2>3, <2>4 DEF Approvals, RowsTyped
  <2>6. RowsTyped' BY <2>1, <2>5 DEF RequestVerification, Approvals, RowsTyped
  <2>7. RequestsRefer' BY <2>1, <2>5 DEF Approvals, RequestsRefer
  <2>8. ChangesLinked' /\ ChangesMirrorRequests'
    BY <2>1 DEF Approvals, ChangesLinked, ChangesMirrorRequests
  <2>9. OneOpenVerification'
    <3>1. OpenFor(d) = {} BY <1>2, OneOpenIs DEF Approvals, Awaited
    <3>2. OpenFor(d)' = OpenFor(d) \cup {NewId} BY <2>1 DEF OpenFor
    <3>3. Awaited(d)' = {NewId} BY <2>1, <2>3, <2>4, <2>5 DEF Awaited
    <3>4. \A b \in DOMAIN docs : b # d => OpenFor(b)' = OpenFor(b) /\ Awaited(b)' = Awaited(b)
      BY <2>1, <2>5 DEF OpenFor, Awaited
    <3>5. QED BY <2>5, <3>1, <3>2, <3>3, <3>4, OneOpenIs DEF Approvals
  <2>10. QED BY <2>3, <2>5, <2>6, <2>7, <2>8, <2>9 DEF Approvals, DocsKeep
<1>3. QED BY <1>1, <1>2 DEF RequestVerification

\* A verdict reaches a document that waits for it.
LEMMA DecideDocumentKeeps ==
  ASSUME Approvals, NEW r \in DOMAIN requests, NEW v \in Verdicts,
         DecideDocument(r, v), UNCHANGED changes
  PROVE  /\ Approvals' /\ DocsKeep /\ requests[r].ref \in DOMAIN docs
         /\ v = "APPROVED" => docs'[requests[r].ref].status = "VERIFIED"
         /\ v = "REJECTED" => docs'[requests[r].ref].status = "REJECTED"
<1> PICK d : d = requests[r].ref OBVIOUS
<1> DEFINE x == CASE v = "APPROVED" -> [docs[d] EXCEPT !.status = "VERIFIED"]
                  [] v = "REJECTED" -> [docs[d] EXCEPT !.status = "REJECTED"]
                  [] OTHER -> [docs[d] EXCEPT !.link = IF @ = r THEN None ELSE @]
<1>1. /\ requests' \in Seq(Request) /\ DOMAIN requests' = DOMAIN requests
      /\ requests'[r].kind = requests[r].kind /\ requests'[r].ref = d
      /\ requests'[r].status = v /\ requests[r].status = "PENDING"
      /\ \A q \in DOMAIN requests : q # r => requests'[q] = requests[q]
  BY Settled DEF Approvals, DecideDocument
<1>2. requests[r].kind = "document" /\ d \in DOMAIN docs
  BY DEF DecideDocument, Approvals, RequestsRefer
<1>3. docs[d] \in DocumentRow BY <1>2, DocumentIs DEF Approvals
<1>4. OpenFor(d) = {r} /\ docs[d].status = "SUBMITTED" /\ docs[d].link = r
  <2>1. r \in OpenFor(d) BY <1>1, <1>2 DEF OpenFor
  <2>2. OpenFor(d) = Awaited(d) BY <1>2, OneOpenIs DEF Approvals
  <2>3. QED BY <2>1, <2>2 DEF Awaited
<1>5. /\ x \in DocumentRow
      /\ v = "APPROVED" => x.status = "VERIFIED"
      /\ v = "REJECTED" => x.status = "REJECTED"
      /\ v \notin {"APPROVED", "REJECTED"} => x.link = None
  BY <1>3, <1>4 DEF DocumentRow, DocStatuses, None
<1>6. docs' = [docs EXCEPT ![d] = x]
  <2>1. docs' = Verdict(r, v) /\ requests[r].ref = d BY DEF DecideDocument
  <2>2. CASE v = "APPROVED" BY <2>1, <2>2 DEF Verdict
  <2>3. CASE v = "REJECTED" BY <2>1, <2>3 DEF Verdict
  <2>4. CASE v = "CANCELED" BY <2>1, <2>4 DEF Verdict
  <2>5. QED BY <2>2, <2>3, <2>4 DEF Verdicts
<1> HIDE DEF x
<1>7. /\ docs' \in Seq(DocumentRow) /\ DOMAIN docs' = DOMAIN docs /\ docs'[d] = x
      /\ \A b \in DOMAIN docs : b # d => docs'[b] = docs[b]
  BY <1>2, <1>5, <1>6 DEF Approvals, RowsTyped
<1>8. RowsTyped' BY <1>1, <1>7 DEF DecideDocument, Approvals, RowsTyped
<1>9. RequestsRefer'
  BY <1>1, <1>2, <1>7 DEF Approvals, RequestsRefer
<1>10. ChangesLinked' /\ ChangesMirrorRequests'
  BY <1>1, <1>2 DEF Approvals, ChangesLinked, ChangesMirrorRequests
<1>11. OneOpenVerification'
  <2>1. OpenFor(d)' = {} BY <1>1, <1>4 DEF OpenFor, Verdicts
  <2>2. Awaited(d)' = {} BY <1>5, <1>7 DEF Awaited
  <2>3. \A b \in DOMAIN docs : b # d => OpenFor(b)' = OpenFor(b) /\ Awaited(b)' = Awaited(b)
    BY <1>1, <1>2, <1>7, ZenonT(40) DEF OpenFor, Awaited
  <2>4. QED BY <1>7, <2>1, <2>2, <2>3, OneOpenIs DEF Approvals
<1>12. DocsKeep BY <1>4, <1>7 DEF DocsKeep
<1>13. QED BY <1>2, <1>5, <1>7, <1>8, <1>9, <1>10, <1>11, <1>12 DEF Approvals

\* A change set is stored with the request that will decide it.
LEMMA CreateChangeKeeps ==
  ASSUME Approvals, NEW e \in Employees, NEW key, NEW raw, CreateChange(e, key, raw),
         UNCHANGED <<docs, files>>
  PROVE  Approvals'
<1> DEFINE x == [emp |-> e, key |-> key, set |-> Normalize(raw), status |-> "PENDING",
                 request |-> NewId]
<1>1. x.emp = e /\ x.status = "PENDING" /\ x.request = NewId OBVIOUS
<1>2. changes' = Append(changes, x) /\ Open("profile", Len(changes) + 1) BY DEF CreateChange
<1> HIDE DEF x
<1>3. IsASequence(changes) BY DEF Approvals, RowsTyped
<1>4. PICK n \in Nat : n = Len(changes) + 1 BY <1>3, AppendSequence
<1>5. PICK q \in Nat : q = NewId BY DEF Approvals, RowsTyped, NewId
<1>6. /\ IsASequence(changes') /\ DOMAIN changes' = DOMAIN changes \cup {n}
      /\ n \notin DOMAIN changes /\ changes'[n] = x
      /\ \A i \in DOMAIN changes : changes'[i] = changes[i]
  BY <1>2, <1>3, <1>4, AppendSequence
<1>7. /\ requests' \in Seq(Request) /\ DOMAIN requests' = DOMAIN requests \cup {q}
      /\ q \notin DOMAIN requests /\ requests'[q].kind = "profile" /\ requests'[q].ref = n
      /\ requests'[q].status = "PENDING"
      /\ \A r \in DOMAIN requests : requests'[r] = requests[r]
  BY <1>2, <1>4, <1>5, Opened DEF Approvals
<1>8. RowsTyped' BY <1>1, <1>6, <1>7 DEF Approvals, RowsTyped, RequestStates
<1>9. RequestsRefer' BY <1>1, <1>5, <1>6, <1>7 DEF Approvals, RequestsRefer
<1>10. ChangesLinked' BY <1>1, <1>5, <1>6, <1>7 DEF Approvals, ChangesLinked
<1>11. ChangesMirrorRequests'
  BY <1>1, <1>5, <1>6, <1>7 DEF Approvals, ChangesLinked, ChangesMirrorRequests
<1>12. OneOpenVerification'
  <2>1. \A d \in DOMAIN docs : OpenFor(d)' = OpenFor(d) /\ Awaited(d)' = Awaited(d)
    BY <1>7 DEF OpenFor, Awaited
  <2>2. QED BY <2>1, OneOpenIs DEF Approvals
<1>13. QED BY <1>8, <1>9, <1>10, <1>11, <1>12 DEF Approvals

\* A change set and its workflow request are settled together, and no other
\* is touched.
LEMMA FinalizeKeeps ==
  ASSUME Approvals, NEW i \in DOMAIN changes, NEW v \in Verdicts,
         Settle(changes[i].request, v), Finalize(i, v), UNCHANGED <<docs, files>>
  PROVE  Approvals'
<1> PICK r \in DOMAIN requests : r = changes[i].request BY DEF Approvals, ChangesLinked
<1> DEFINE x == [changes[i] EXCEPT !.status = v]
<1>1. /\ requests' \in Seq(Request) /\ DOMAIN requests' = DOMAIN requests
      /\ requests'[r].kind = requests[r].kind /\ requests'[r].ref = requests[r].ref
      /\ requests'[r].status = v
      /\ \A q \in DOMAIN requests : q # r => requests'[q] = requests[q]
  BY Settled DEF Approvals
<1>2. requests[r].kind = "profile" /\ requests[r].ref = i
  BY DEF Approvals, ChangesMirrorRequests
<1>3. x.emp = changes[i].emp /\ x.request = r /\ x.status = v
  OBVIOUS
<1>4. IsASequence(changes) /\ changes' = [changes EXCEPT ![i] = x]
  BY DEF Approvals, RowsTyped, Finalize
<1> HIDE DEF x
<1>5. /\ IsASequence(changes') /\ DOMAIN changes' = DOMAIN changes /\ changes'[i] = x
      /\ \A j \in DOMAIN changes : j # i => changes'[j] = changes[j]
  BY <1>4, ExceptSequence
<1>6. RowsTyped' BY <1>1, <1>3, <1>5 DEF Approvals, RowsTyped, RequestStates
<1>7. RequestsRefer' BY <1>1, <1>2, <1>3, <1>5 DEF Approvals, RequestsRefer
<1>8. ChangesLinked' BY <1>1, <1>3, <1>5 DEF Approvals, ChangesLinked
<1>9. ChangesMirrorRequests'
  <2>1. \A j \in DOMAIN changes : j # i => changes[j].request # r
    BY <1>2 DEF Approvals, ChangesMirrorRequests
  <2>2. QED BY <1>1, <1>2, <1>3, <1>5, <2>1 DEF Approvals, ChangesLinked, ChangesMirrorRequests
<1>10. OneOpenVerification'
  <2>1. \A d \in DOMAIN docs : OpenFor(d)' = OpenFor(d) /\ Awaited(d)' = Awaited(d)
    BY <1>1, <1>2 DEF OpenFor, Awaited
  <2>2. QED BY <2>1, OneOpenIs DEF Approvals
<1>11. QED BY <1>6, <1>7, <1>8, <1>9, <1>10 DEF Approvals

\* A decision about a profile change.
LEMMA DecideChangeKeeps ==
  ASSUME Approvals, NEW r \in DOMAIN requests, NEW v \in Verdicts, DecideChange(r, v),
         UNCHANGED <<docs, files>>
  PROVE  Approvals'
<1> DEFINE i == requests[r].ref
<1>1. i \in DOMAIN changes /\ changes[i].request = r
  BY DEF DecideChange, Approvals, RequestsRefer
<1>2. Settle(changes[i].request, v) /\ Finalize(i, v) BY <1>1 DEF DecideChange
<1>3. QED BY <1>1, <1>2, FinalizeKeeps

\* The employee's withdrawal of one.
LEMMA CancelMineKeeps ==
  ASSUME Approvals, NEW i \in DOMAIN changes, CancelMine(i), UNCHANGED <<docs, files>>
  PROVE  Approvals'
BY FinalizeKeeps DEF CancelMine, Verdicts

\* Other steps store or fail a file at most, or change the profile.
LEMMA OthersKeep ==
  ASSUME Approvals, UNCHANGED <<requests, docs, changes>>, files' \in Seq(FileStatuses)
  PROVE  Approvals' /\ DocsKeep
BY DEF Approvals, RowsTyped, RequestsRefer, ChangesLinked, OneOpenVerification, RequestsOf,
       IsOpen, ChangesMirrorRequests, DocsKeep

-----------------------------------------------------------------------------
(* Tasks and uploads.                                                       *)

\* What SessionsLinked asks of one upload.
UploadLinked(u) ==
  /\ TaskDef[u.code].type = "DOCUMENT"
  /\ u.at \in {"versioning", "uploaded", "linking"} => u.doc \in DOMAIN docs
  /\ u.request # None => u.at = "linking" /\ TaskDef[u.code].verify

\* The two halves of what a session knows of its document.
LEMMA SessionsLinkedIs ==
  /\ SessionsLinked <=> \A s \in Sessions : session[s] \in Uploads => UploadLinked(session[s])
  /\ SessionsLinked' <=>
       \A s \in Sessions : session'[s] \in Uploads => UploadLinked(session[s])'
BY DEF SessionsLinked, UploadLinked

\* A step that leaves tasks and uploads alone.
LEMMA ClaimsStand ==
  ASSUME Claims, DocsKeep, UNCHANGED <<task, session>>
  PROVE  Claims'
<1>1. OnboardingTyped' BY DEF Claims, OnboardingTyped
<1>2. TasksLinked' BY DEF Claims, TasksLinked, DocsKeep
<1>3. SessionsLinked' BY DEF Claims, SessionsLinked, DocsKeep
<1>4. TasksClaimNoMore' BY DEF Claims, TasksLinked, TasksClaimNoMore, DocsKeep
<1>5. QED BY <1>1, <1>2, <1>3, <1>4 DEF Claims

\* A step of one session that writes no task.
LEMMA SessionMoves ==
  ASSUME Claims, DocsKeep, task' = task, NEW s \in Sessions, NEW w \in Places,
         session' = [session EXCEPT ![s] = w],
         w \in Uploads =>
           /\ TaskDef[w.code].type = "DOCUMENT"
           /\ w.at \in {"versioning", "uploaded", "linking"} => w.doc \in DOMAIN docs'
           /\ w.request # None => w.at = "linking" /\ TaskDef[w.code].verify
  PROVE  Claims'
<1>1. session'[s] = w /\ \A t \in Sessions \ {s} : session'[t] = session[t]
  BY DEF Claims, OnboardingTyped
<1>2. OnboardingTyped' BY DEF Claims, OnboardingTyped
<1>3. TasksLinked' BY DEF Claims, TasksLinked, DocsKeep
<1>4. SessionsLinked'
  <2> SUFFICES ASSUME NEW t \in Sessions, session'[t] \in Uploads
               PROVE  UploadLinked(session[t])'
    BY SessionsLinkedIs
  <2>1. CASE t = s BY <1>1, <2>1 DEF UploadLinked
  <2>2. CASE t # s BY <1>1, <2>2, SessionsLinkedIs DEF Claims, UploadLinked, DocsKeep
  <2>3. QED BY <2>1, <2>2
<1>5. TasksClaimNoMore' BY DEF Claims, TasksLinked, TasksClaimNoMore, DocsKeep
<1>6. QED BY <1>2, <1>3, <1>4, <1>5 DEF Claims

\* A step that writes one task: when it links a request, it claims nothing.
LEMMA TaskWritten ==
  ASSUME Claims, docs' = docs, NEW e \in Employees, NEW c \in Codes, NEW t \in TaskRow,
         task' = [task EXCEPT ![e][c] = t],
         t.request # None => /\ TaskDef[c].type = "DOCUMENT" /\ t.doc \in DOMAIN docs
                             /\ t.status \notin {"APPROVED", "REJECTED"},
         \/ session' = session
         \/ \E s \in Sessions : session' = [session EXCEPT ![s] = Idle]
  PROVE  Claims'
<1>1. /\ task'[e][c] = t /\ task' \in [Employees -> [Codes -> TaskRow]]
      /\ \A f \in Employees, b \in Codes : f # e \/ b # c => task'[f][b] = task[f][b]
  BY DEF Claims, OnboardingTyped
<1>2. OnboardingTyped' BY <1>1 DEF Claims, OnboardingTyped, Places
<1>3. TasksLinked' BY <1>1 DEF Claims, TasksLinked
<1>4. SessionsLinked'
  <2> SUFFICES ASSUME NEW u \in Sessions, session'[u] \in Uploads
               PROVE  UploadLinked(session[u])'
    BY SessionsLinkedIs
  <2>1. Idle \notin Uploads BY DEF Idle, Uploads
  <2>2. session'[u] = session[u] BY <2>1 DEF Claims, OnboardingTyped
  <2>3. QED BY <2>2, SessionsLinkedIs DEF Claims, UploadLinked
<1>5. TasksClaimNoMore' BY <1>1 DEF Claims, TasksClaimNoMore
<1>6. QED BY <1>2, <1>3, <1>4, <1>5 DEF Claims

\* Where a session stands tells what it carries.
LEMMA Where ==
  ASSUME Claims, NEW s \in Sessions
  PROVE  /\ session[s].at \in UploadPlaces \ {"storing"} => session[s] \in Uploads
         /\ session[s].at = "storing" => session[s] \in Uploads \cup HrUploads
         /\ session[s].at = "form" => session[s] \in Forms
         /\ session[s] \in Uploads => UploadLinked(session[s])
<1>1. session[s] \in Places BY DEF Claims, OnboardingTyped
<1>2. session[s] \in Uploads => UploadLinked(session[s]) BY SessionsLinkedIs DEF Claims
<1>3. QED BY <1>1, <1>2 DEF Places, Idle, Forms, Uploads, HrUploads, UploadPlaces

\* An upload that moves on keeps its task and its file.
Moved(u, at, d, r) == [u EXCEPT !.at = at, !.doc = d, !.request = r]

\* An upload that goes on is for the task it was for.
LEMMA UploadGoesOn ==
  ASSUME Claims, NEW s \in Sessions, session[s] \in Uploads,
         NEW at \in UploadPlaces, NEW d \in Nat, NEW r \in Nat
  PROVE  LET w == Moved(session[s], at, d, r) IN
         /\ w \in Uploads /\ w \in Places /\ w.code = session[s].code
         /\ w.at = at /\ w.doc = d /\ w.request = r
BY DEF Uploads, Places, Moved

\* A task that is acknowledged wants no document.
LEMMA AckKeeps ==
  ASSUME Claims, NEW e \in Employees, NEW c \in Codes, Ack(e, c) PROVE Claims'
<1> DEFINE t == [task[e][c] EXCEPT !.status = "APPROVED"]
<1>1. task[e][c] \in TaskRow BY DEF Claims, OnboardingTyped
<1>2. t \in TaskRow /\ t.request = task[e][c].request BY <1>1 DEF TaskRow
<1>3. t.request = None BY <1>2 DEF Ack, Claims, TasksLinked
<1>4. task' = [task EXCEPT ![e][c] = t] BY DEF Ack
<1> HIDE DEF t
<1>5. docs' = docs /\ session' = session BY DEF Ack, dms
<1>6. QED BY <1>2, <1>3, <1>4, <1>5, TaskWritten

\* A form that is opened is no upload.
LEMMA FormBeginKeeps ==
  ASSUME Claims, DocsKeep, NEW s \in Sessions, NEW e \in Employees, NEW c \in Codes,
         FormBegin(s, e, c)
  PROVE  Claims'
<1>1. PICK form \in ChangeSets :
        session' = [session EXCEPT ![s] = [at |-> "form", emp |-> e, code |-> c,
                                           form |-> form]]
  BY DEF FormBegin
<1> DEFINE w == [at |-> "form", emp |-> e, code |-> c, form |-> form]
<1>2. w \in Places /\ w \notin Uploads BY DEF Places, Forms, Uploads, UploadPlaces
<1>3. session' = [session EXCEPT ![s] = w] BY <1>1
<1> HIDE DEF w
<1>4. QED BY <1>2, <1>3, SessionMoves DEF FormBegin

\* What is submitted with a form links no document.
LEMMA FormSubmitKeeps ==
  ASSUME Claims, NEW s \in Sessions, FormSubmit(s) PROVE Claims'
<1>1. session[s] \in Forms BY Where DEF FormSubmit
<1>2. PICK e \in Employees, c \in Codes, form \in ChangeSets :
        e = session[s].emp /\ c = session[s].code /\ form = session[s].form
  BY <1>1 DEF Forms
<1> DEFINE t == [task[e][c] EXCEPT !.status = "SUBMITTED", !.form = form]
<1>3. task[e][c] \in TaskRow BY DEF Claims, OnboardingTyped
<1>4. t \in TaskRow /\ t.status = "SUBMITTED" /\ t.request = task[e][c].request
      /\ t.doc = task[e][c].doc
  BY <1>3 DEF TaskRow
<1>5. task' = [task EXCEPT ![e][c] = t] BY <1>2 DEF FormSubmit
<1> HIDE DEF t
<1>6. t.request # None => TaskDef[c].type = "DOCUMENT" /\ t.doc \in DOMAIN docs
  BY <1>4 DEF Claims, TasksLinked
<1>7. docs' = docs /\ session' = [session EXCEPT ![s] = Idle] BY DEF FormSubmit, dms
<1>8. QED BY <1>4, <1>5, <1>6, <1>7, TaskWritten

\* An upload begins with a task of the employee's own.
LEMMA UploadBeginKeeps ==
  ASSUME Approvals, Claims, DocsKeep, NEW s \in Sessions, NEW e \in Employees, NEW c \in Codes,
         UploadBegin(s, e, c)
  PROVE  Claims'
<1> DEFINE w == [at |-> "storing", emp |-> e, code |-> c, file |-> Len(files) + 1,
                 doc |-> None, request |-> None]
<1>1. Len(files) + 1 \in Nat BY DEF Approvals, RowsTyped
<1>2. /\ w \in Places /\ w.code = c /\ w.at = "storing" /\ w.request = None
  BY <1>1 DEF Places, Uploads, UploadPlaces, None
<1>3. /\ session' = [session EXCEPT ![s] = w] /\ task' = task
      /\ TaskDef[c].type = "DOCUMENT"
  BY DEF UploadBegin
<1> HIDE DEF w
<1>4. QED BY <1>2, <1>3, SessionMoves

\* HR's begins with no task at all.
LEMMA HrUploadBeginKeeps ==
  ASSUME Approvals, Claims, DocsKeep, NEW s \in Sessions, HrUploadBegin(s) PROVE Claims'
<1> DEFINE w == [at |-> "storing", code |-> None, file |-> Len(files) + 1]
<1>1. Len(files) + 1 \in Nat BY DEF Approvals, RowsTyped
<1>2. w \in Places /\ w \notin Uploads
  BY <1>1, OnboardingAssumption DEF Places, HrUploads, Uploads, None
<1>3. session' = [session EXCEPT ![s] = w] /\ task' = task BY DEF HrUploadBegin
<1> HIDE DEF w
<1>4. QED BY <1>2, <1>3, SessionMoves

\* A session that gives up, or is done, carries nothing.
LEMMA IdleKeeps ==
  ASSUME Claims, DocsKeep, NEW s \in Sessions, session' = [session EXCEPT ![s] = Idle],
         task' = task
  PROVE  Claims'
<1>1. Idle \in Places /\ Idle \notin Uploads BY DEF Places, Idle, Uploads
<1>2. QED BY <1>1, SessionMoves

\* An upload that goes from one step to the next.
LEMMA MoveKeeps ==
  ASSUME Claims, DocsKeep, task' = task, NEW s \in Sessions, session[s] \in Uploads,
         NEW at \in UploadPlaces, NEW d \in Nat, NEW r \in Nat,
         session' = [session EXCEPT ![s] = Moved(session[s], at, d, r)],
         at \in {"versioning", "uploaded", "linking"} => d \in DOMAIN docs',
         r # None => at = "linking" /\ TaskDef[session[s].code].verify
  PROVE  Claims'
<1> DEFINE w == Moved(session[s], at, d, r)
<1>1. /\ w \in Uploads /\ w \in Places /\ w.code = session[s].code
      /\ w.at = at /\ w.doc = d /\ w.request = r
  BY UploadGoesOn
<1>2. /\ TaskDef[w.code].type = "DOCUMENT"
      /\ w.at \in {"versioning", "uploaded", "linking"} => w.doc \in DOMAIN docs'
      /\ w.request # None => w.at = "linking" /\ TaskDef[w.code].verify
  BY <1>1, Where DEF UploadLinked
<1>3. session' = [session EXCEPT ![s] = w] OBVIOUS
<1> HIDE DEF w
<1>4. QED BY <1>1, <1>2, <1>3, SessionMoves

\* A stored file changes where its upload stands.
LEMMA UploadStoredKeeps ==
  ASSUME Claims, DocsKeep, NEW s \in Sessions, UploadStored(s) PROVE Claims'
<1>1. session[s].at = "storing" /\ task' = task BY DEF UploadStored, At
<1>2. CASE session[s].code = None
  <2>1. session' = [session EXCEPT ![s] = Idle] BY <1>2 DEF UploadStored
  <2>2. QED BY <1>1, <2>1, IdleKeeps
<1>3. CASE session[s].code # None
  <2>1. session[s] \in Uploads BY <1>1, <1>3, Where DEF HrUploads
  <2>2. PICK d \in Nat, r \in Nat : d = session[s].doc /\ r = session[s].request
    BY <2>1 DEF Uploads
  <2>3. [session[s] EXCEPT !.at = "stored"]
          = Moved(session[s], "stored", d, r)
    BY <2>1, <2>2 DEF Uploads, Moved
  <2>4. session' = [session EXCEPT ![s] = Moved(session[s], "stored", d, r)]
    BY <1>3, <2>3 DEF UploadStored
  <2>5. r = None BY <1>1, <2>1, <2>2, Where DEF UploadLinked
  <2>6. "stored" \in UploadPlaces BY DEF UploadPlaces
  <2>7. QED BY <1>1, <2>1, <2>4, <2>5, <2>6, MoveKeeps
<1>4. QED BY <1>2, <1>3

\* The steps whose place is all they change of the upload.
LEMMA PlaceKeeps ==
  ASSUME Claims, DocsKeep, task' = task, NEW s \in Sessions, session[s] \in Uploads,
         NEW at \in UploadPlaces, Move(s, at), session[s].at # "linking",
         at \in {"versioning", "uploaded", "linking"} => session[s].doc \in DOMAIN docs'
  PROVE  Claims'
<1>1. PICK d \in Nat, r \in Nat : d = session[s].doc /\ r = session[s].request
  BY DEF Uploads
<1>2. [session[s] EXCEPT !.at = at] = Moved(session[s], at, d, r)
  BY <1>1 DEF Uploads, Moved
<1>3. session' = [session EXCEPT ![s] = Moved(session[s], at, d, r)] BY <1>2 DEF Move
<1>4. r = None BY <1>1, Where DEF UploadLinked
<1>5. QED BY <1>1, <1>3, <1>4, MoveKeeps

\* What an upload looks up is the document its task has.
LEMMA LookUpKeeps ==
  ASSUME Claims, RowsTyped, DocsKeep, NEW s \in Sessions, LookUp(s) PROVE Claims'
<1>1. session[s].at = "stored" /\ task' = task /\ docs' = docs BY DEF LookUp, At, dms
<1>2. session[s] \in Uploads BY <1>1, Where DEF UploadPlaces
<1>3. CASE Move(s, "creating")
  BY <1>1, <1>2, <1>3, PlaceKeeps DEF UploadPlaces
<1>4. CASE \E d \in DOMAIN docs :
             session' = [session EXCEPT ![s] = [@ EXCEPT !.at = "versioning", !.doc = d]]
  <2>1. PICK d \in DOMAIN docs :
          session' = [session EXCEPT ![s] = [session[s] EXCEPT !.at = "versioning", !.doc = d]]
    BY <1>4
  <2>2. d \in Nat BY DEF RowsTyped
  <2>3. PICK r \in Nat : r = session[s].request BY <1>2 DEF Uploads
  <2>4. [session[s] EXCEPT !.at = "versioning", !.doc = d]
          = Moved(session[s], "versioning", d, r)
    BY <1>2, <2>3 DEF Uploads, Moved
  <2>5. session' = [session EXCEPT ![s] = Moved(session[s], "versioning", d, r)]
    BY <2>1, <2>4
  <2>6. r = None BY <1>1, <1>2, <2>3, Where DEF UploadLinked
  <2>7. "versioning" \in UploadPlaces BY DEF UploadPlaces
  <2>8. QED BY <1>1, <1>2, <2>2, <2>5, <2>6, <2>7, MoveKeeps
<1>5. QED BY <1>3, <1>4 DEF LookUp, Newest

\* An upload that found a document adds a version to it.
LEMMA UploadVersionKeeps ==
  ASSUME Approvals, Claims, NEW s \in Sessions, UploadVersion(s)
  PROVE  Approvals' /\ Claims'
<1>1. /\ session[s].at = "versioning" /\ task' = task /\ Move(s, "uploaded")
      /\ AddVersion(session[s].doc, session[s].file) /\ changes' = changes
  BY DEF UploadVersion, At, hr
<1>2. session[s] \in Uploads BY <1>1, Where DEF UploadPlaces
<1>3. session[s].doc \in DOMAIN docs /\ session[s].file \in Nat
  BY <1>1, <1>2, Where DEF UploadLinked, Uploads
<1>4. Approvals' /\ DocsKeep BY <1>1, <1>3, AddVersionKeeps
<1>5. session[s].doc \in DOMAIN docs' BY <1>3, <1>4 DEF DocsKeep
<1>6. QED BY <1>1, <1>2, <1>4, <1>5, PlaceKeeps DEF UploadPlaces

\* One that found none creates the document.
LEMMA UploadDocumentKeeps ==
  ASSUME Approvals, Claims, NEW s \in Sessions, UploadDocument(s)
  PROVE  Approvals' /\ Claims'
<1>1. /\ session[s].at = "creating" /\ task' = task /\ changes' = changes
      /\ CreateDocument(session[s].emp, TaskDef[session[s].code].doc, session[s].file)
  BY DEF UploadDocument, At, hr
<1>2. session[s] \in Uploads /\ UploadLinked(session[s]) BY <1>1, Where DEF UploadPlaces
<1>3. /\ session[s].emp \in Employees /\ session[s].code \in Codes
      /\ TaskDef[session[s].code].doc \in DocTypes /\ session[s].file \in DOMAIN files
  BY <1>1, <1>2, OnboardingAssumption DEF Uploads, UploadLinked, CreateDocument, FileReady
<1>4. Approvals' /\ DocsKeep /\ Len(docs) + 1 \in DOMAIN docs'
  BY <1>1, <1>3, CreateDocumentKeeps
<1>5. PICK d \in Nat : d = Len(docs) + 1 BY DEF Approvals, RowsTyped
<1>6. PICK r \in Nat : r = session[s].request BY <1>2 DEF Uploads
<1>7. [session[s] EXCEPT !.at = "uploaded", !.doc = d] = Moved(session[s], "uploaded", d, r)
  BY <1>2, <1>6 DEF Uploads, Moved
<1>8. session' = [session EXCEPT ![s] = Moved(session[s], "uploaded", d, r)]
  BY <1>5, <1>7 DEF UploadDocument
<1>9. r = None BY <1>1, <1>2, <1>6 DEF UploadLinked
<1>10. "uploaded" \in UploadPlaces BY DEF UploadPlaces
<1>11. QED BY <1>1, <1>2, <1>4, <1>5, <1>8, <1>9, <1>10, MoveKeeps

\* The verification request an upload opens is for its document.
LEMMA VerifyKeeps ==
  ASSUME Approvals, Claims, NEW s \in Sessions, Verify(s)
  PROVE  Approvals' /\ Claims'
<1>1. /\ session[s].at = "uploaded" /\ task' = task /\ changes' = changes
      /\ RequestVerification(session[s].doc) /\ TaskDef[session[s].code].verify
  BY DEF Verify, At, hr
<1>2. session[s] \in Uploads /\ session[s].doc \in DOMAIN docs
  BY <1>1, Where DEF UploadPlaces, UploadLinked
<1>3. Approvals' /\ DocsKeep BY <1>1, <1>2, RequestVerificationKeeps
<1>4. PICK d \in Nat : d = session[s].doc BY <1>2 DEF Uploads
<1>5. PICK r \in Nat : r = Verification(d)
  <2>1. docs[d].link \in Nat BY <1>2, <1>4, DocumentIs DEF Approvals, DocumentRow
  <2>2. NewId \in Nat BY DEF Approvals, RowsTyped, NewId
  <2>3. QED BY <2>1, <2>2 DEF Verification
<1>6. [session[s] EXCEPT !.at = "linking", !.request = r] = Moved(session[s], "linking", d, r)
  BY <1>2, <1>4 DEF Uploads, Moved
<1>7. session' = [session EXCEPT ![s] = Moved(session[s], "linking", d, r)]
  BY <1>4, <1>5, <1>6 DEF Verify
<1>8. "linking" \in UploadPlaces /\ d \in DOMAIN docs' BY <1>2, <1>3, <1>4 DEF UploadPlaces, DocsKeep
<1>9. QED BY <1>1, <1>2, <1>3, <1>7, <1>8, MoveKeeps

\* A task whose document needs no verification is told of none.
LEMMA SkipVerificationKeeps ==
  ASSUME Claims, DocsKeep, NEW s \in Sessions, SkipVerification(s) PROVE Claims'
<1>1. session[s].at = "uploaded" /\ Move(s, "linking") /\ task' = task
  BY DEF SkipVerification, At
<1>2. session[s] \in Uploads /\ session[s].doc \in DOMAIN docs
  BY <1>1, Where DEF UploadPlaces, UploadLinked
<1>3. QED BY <1>1, <1>2, PlaceKeeps DEF DocsKeep, UploadPlaces

\* What an upload links to its task was asked for, and is not decided yet as
\* far as the task knows.
LEMMA LinkTaskKeeps ==
  ASSUME Claims, NEW s \in Sessions, LinkTask(s) PROVE Claims'
<1>1. session[s].at = "linking" BY DEF LinkTask, At
<1>2. session[s] \in Uploads /\ UploadLinked(session[s]) BY <1>1, Where DEF UploadPlaces
<1>3. PICK e \in Employees, c \in Codes, d \in Nat, r \in Nat :
        e = session[s].emp /\ c = session[s].code /\ d = session[s].doc /\ r = session[s].request
  BY <1>2 DEF Uploads
<1> DEFINE st == IF TaskDef[c].verify THEN "SUBMITTED" ELSE "APPROVED"
           t == [task[e][c] EXCEPT !.status = st, !.doc = d, !.request = r]
<1>4. task[e][c] \in TaskRow BY DEF Claims, OnboardingTyped
<1>5. t \in TaskRow /\ t.status = st /\ t.doc = d /\ t.request = r BY <1>4 DEF TaskRow
<1>6. task' = [task EXCEPT ![e][c] = t] BY <1>3 DEF LinkTask
<1>7. docs' = docs /\ session' = [session EXCEPT ![s] = Idle] BY DEF LinkTask, dms
<1>8. r # None => TaskDef[c].type = "DOCUMENT" /\ d \in DOMAIN docs /\ st = "SUBMITTED"
  BY <1>1, <1>2, <1>3 DEF UploadLinked
<1> HIDE DEF t, st
<1>9. t.request # None => /\ TaskDef[c].type = "DOCUMENT" /\ t.doc \in DOMAIN docs
                          /\ t.status \notin {"APPROVED", "REJECTED"}
  BY <1>5, <1>8
<1>10. QED BY <1>5, <1>6, <1>7, <1>9, TaskWritten

\* The verdict reaches every task of the document, and no other.
LEMMA DecideVerificationKeeps ==
  ASSUME Approvals, Claims, NEW r \in DOMAIN requests, NEW v \in Verdicts,
         DecideVerification(r, v)
  PROVE  Approvals' /\ Claims'
<1>1. DecideDocument(r, v) /\ changes' = changes /\ session' = session
  BY DEF DecideVerification, hr
<1>2. PICK d : d = requests[r].ref OBVIOUS
<1>3. /\ Approvals' /\ DocsKeep /\ d \in DOMAIN docs
      /\ v = "APPROVED" => docs'[d].status = "VERIFIED"
      /\ v = "REJECTED" => docs'[d].status = "REJECTED"
  BY <1>1, <1>2, DecideDocumentKeeps
<1>4. ASSUME NEW e \in Employees, NEW c \in Codes
      PROVE  /\ task'[e][c] \in TaskRow
             /\ task'[e][c].doc = task[e][c].doc /\ task'[e][c].request = task[e][c].request
             /\ \/ task'[e][c].status = task[e][c].status
                \/ task[e][c].doc = d /\ v \in {"APPROVED", "REJECTED"} /\ task'[e][c].status = v
  <2>1. task[e][c] \in TaskRow BY DEF Claims, OnboardingTyped
  <2>2. task'[e][c] = IF /\ v \in {"APPROVED", "REJECTED"} /\ task[e][c].doc = d
                         /\ task[e][c].request # None
                      THEN [task[e][c] EXCEPT !.status = v] ELSE task[e][c]
    BY <1>2 DEF DecideVerification, Outcome
  <2>3. QED BY <2>1, <2>2 DEF TaskRow
<1>5. OnboardingTyped'
  <2>1. task' = [e \in Employees |-> [c \in Codes |-> task'[e][c]]]
    BY DEF DecideVerification, Outcome
  <2>2. QED BY <1>1, <1>4, <2>1 DEF Claims, OnboardingTyped
<1>6. TasksLinked' BY <1>3, <1>4 DEF Claims, TasksLinked, DocsKeep
<1>7. SessionsLinked' BY <1>1, <1>3 DEF Claims, SessionsLinked, DocsKeep
<1>8. TasksClaimNoMore'
  <2> SUFFICES ASSUME NEW e \in Employees, NEW c \in Codes, task'[e][c].request # None
               PROVE  /\ task'[e][c].status = "APPROVED" =>
                           docs'[task'[e][c].doc].status = "VERIFIED"
                      /\ task'[e][c].status = "REJECTED" =>
                           docs'[task'[e][c].doc].status = "REJECTED"
    BY DEF TasksClaimNoMore
  <2>1. task[e][c].doc \in DOMAIN docs BY <1>4 DEF Claims, TasksLinked
  <2>2. QED BY <1>3, <1>4, <2>1 DEF Claims, TasksClaimNoMore, DocsKeep
<1>9. QED BY <1>3, <1>5, <1>6, <1>7, <1>8 DEF Claims

-----------------------------------------------------------------------------
\* Nothing is open, claimed or written at first.
LEMMA InvInit == Init => IInv
<1> SUFFICES ASSUME Init PROVE IInv OBVIOUS
<1>1. /\ requests = <<>> /\ docs = <<>> /\ files = <<>> /\ changes = <<>>
      /\ task = [e \in Employees |-> [c \in Codes |-> Blank]]
      /\ session = [s \in Sessions |-> Idle]
  BY DEF Init, DocumentsInit, ProfileInit
<1>2. IsASequence(changes) BY <1>1 DEF IsASequence
<1>3. Approvals
  BY <1>1, <1>2 DEF Approvals, RowsTyped, RequestsRefer, ChangesLinked, OneOpenVerification,
     ChangesMirrorRequests
<1>4. Blank \in TaskRow /\ Blank.request = None BY DEF Blank, TaskRow, None
<1>5. Idle \in Places /\ Idle \notin Uploads BY DEF Places, Idle, Uploads
<1>6. Claims
  BY <1>1, <1>4, <1>5 DEF Claims, OnboardingTyped, TasksLinked, SessionsLinked, TasksClaimNoMore
<1>7. QED BY <1>3, <1>6 DEF IInv

\* The steps of an upload.
LEMMA UploadStepKeeps ==
  ASSUME IInv, NEW s \in Sessions, UploadStep(s) PROVE IInv'
<1> USE DEF IInv
<1>1. files \in Seq(FileStatuses) BY DEF Approvals, RowsTyped
<1>2. ASSUME \/ \E e \in Employees, c \in Codes : UploadBegin(s, e, c)
             \/ HrUploadBegin(s) \/ UploadStored(s) \/ UploadFails(s)
      PROVE  UNCHANGED <<requests, docs, changes>> /\ files' \in Seq(FileStatuses)
  BY <1>1, <1>2 DEF UploadBegin, HrUploadBegin, UploadStored, UploadFails, ReserveFile,
     FileStored, FileFails, hr, FileStatuses
<1>3. CASE \E e \in Employees, c \in Codes : UploadBegin(s, e, c)
  BY <1>2, <1>3, OthersKeep, UploadBeginKeeps
<1>4. CASE HrUploadBegin(s) BY <1>2, <1>4, OthersKeep, HrUploadBeginKeeps
<1>5. CASE UploadStored(s) BY <1>2, <1>5, OthersKeep, UploadStoredKeeps
<1>6. CASE UploadFails(s)
  <2>1. session' = [session EXCEPT ![s] = Idle] /\ task' = task BY <1>6 DEF UploadFails
  <2>2. QED BY <1>2, <1>6, <2>1, OthersKeep, IdleKeeps
<1>7. ASSUME LookUp(s) \/ SkipVerification(s) \/ LinkTask(s)
      PROVE  Approvals' /\ DocsKeep
  <2>1. UNCHANGED <<requests, docs, changes, files>>
    BY <1>7 DEF LookUp, SkipVerification, LinkTask, dms, hr
  <2>2. QED BY <1>1, <2>1, OthersKeep
<1>8. CASE LookUp(s) BY <1>7, <1>8, LookUpKeeps DEF Approvals
<1>9. CASE SkipVerification(s) BY <1>7, <1>9, SkipVerificationKeeps
<1>10. CASE LinkTask(s) BY <1>7, <1>10, LinkTaskKeeps
<1>11. CASE UploadVersion(s) BY <1>11, UploadVersionKeeps
<1>12. CASE UploadDocument(s) BY <1>12, UploadDocumentKeeps
<1>13. CASE Verify(s) BY <1>13, VerifyKeeps
<1>14. QED BY <1>3, <1>4, <1>5, <1>6, <1>8, <1>9, <1>10, <1>11, <1>12, <1>13 DEF UploadStep

\* What HR does with documents.
LEMMA DocumentStepKeeps ==
  ASSUME IInv, DocumentStep, UNCHANGED <<hr, onboarding>> PROVE IInv'
<1> USE DEF IInv
<1>1. changes' = changes /\ task' = task /\ session' = session BY DEF hr, onboarding
<1>2. Approvals' /\ DocsKeep
  <2>1. CASE UNCHANGED <<requests, docs, files>>
    <3>1. files' \in Seq(FileStatuses) BY <2>1 DEF Approvals, RowsTyped
    <3>2. QED BY <1>1, <2>1, <3>1, OthersKeep
  <2>2. CASE \E f \in DOMAIN files, e \in Employees, t \in DocTypes : CreateDocument(e, t, f)
    BY <1>1, <2>2, CreateDocumentKeeps
  <2>3. CASE \E d \in DOMAIN docs, f \in DOMAIN files : AddVersion(d, f)
    <3>1. PICK d \in DOMAIN docs, f \in DOMAIN files : AddVersion(d, f) BY <2>3
    <3>2. f \in Nat BY DEF Approvals, RowsTyped
    <3>3. QED BY <1>1, <3>1, <3>2, AddVersionKeeps
  <2>4. CASE \E d \in DOMAIN docs : RequestVerification(d)
    BY <1>1, <2>4, RequestVerificationKeeps
  <2>5. QED BY <2>1, <2>2, <2>3, <2>4 DEF DocumentStep, CreateType, PatchType
<1>3. QED BY <1>1, <1>2, ClaimsStand

\* What employees and HR do with profiles.
LEMMA ProfileStepKeeps ==
  ASSUME IInv, ProfileStep, UNCHANGED <<dms, onboarding>> PROVE IInv'
<1> USE DEF IInv
<1>1. docs' = docs /\ files' = files /\ task' = task /\ session' = session
  BY DEF dms, onboarding
<1>2. Approvals'
  <2>1. CASE \E e \in Employees, k \in Keys \cup {NoKey}, c \in ChangeSets :
               CreateChange(e, k, c)
    BY <1>1, <2>1, CreateChangeKeeps
  <2>2. CASE \E i \in DOMAIN changes : CancelMine(i) BY <1>1, <2>2, CancelMineKeeps
  <2>3. CASE \E e \in Employees, p \in Phones : EditDirectly(e, p)
    <3>1. requests' = requests /\ changes' = changes BY <2>3 DEF EditDirectly
    <3>2. files' \in Seq(FileStatuses) BY <1>1 DEF Approvals, RowsTyped
    <3>3. QED BY <1>1, <3>1, <3>2, OthersKeep
  <2>4. QED BY <2>1, <2>2, <2>3 DEF ProfileStep
<1>3. QED BY <1>1, <1>2, ClaimsStand DEF DocsKeep

\* Every step keeps the invariant.
LEMMA InvNext == IInv /\ [Next]_vars => IInv'
<1> SUFFICES ASSUME IInv, [Next]_vars PROVE IInv' OBVIOUS
<1> USE DEF IInv
<1>1. ASSUME UNCHANGED <<requests, dms, hr>> PROVE Approvals' /\ DocsKeep
  <2>1. UNCHANGED <<requests, docs, files, changes>> BY <1>1 DEF dms, hr
  <2>2. files' \in Seq(FileStatuses) BY <2>1 DEF Approvals, RowsTyped
  <2>3. QED BY <2>1, <2>2, OthersKeep
<1>2. CASE UNCHANGED vars
  <2>1. UNCHANGED <<requests, dms, hr>> /\ task' = task /\ session' = session
    BY <1>2 DEF vars, dms, hr
  <2>2. QED BY <1>1, <2>1, ClaimsStand
<1>3. CASE DocumentStep /\ UNCHANGED <<hr, onboarding>> BY <1>3, DocumentStepKeeps
<1>4. CASE ProfileStep /\ UNCHANGED <<dms, onboarding>> BY <1>4, ProfileStepKeeps
<1>5. CASE \E c \in Codes : AddTemplateTask(c)
  <2>1. UNCHANGED <<requests, dms, hr>> /\ task' = task /\ session' = session
    BY <1>5 DEF AddTemplateTask
  <2>2. QED BY <1>1, <2>1, ClaimsStand
<1>6. CASE \E e \in Employees : CreateBundle(e)
  <2>1. UNCHANGED <<requests, dms, hr>> /\ task' = task /\ session' = session
    BY <1>6 DEF CreateBundle
  <2>2. QED BY <1>1, <2>1, ClaimsStand
<1>7. CASE \E e \in Employees : SubmitPacket(e)
  <2>1. PICK e \in Employees : SubmitPacket(e) BY <1>7
  <2>2. /\ CreateChange(e, PacketKey, Merged(e)) /\ docs' = docs /\ files' = files
        /\ task' = task /\ session' = session
    BY <2>1 DEF SubmitPacket, dms, onboarding
  <2>3. QED BY <2>2, CreateChangeKeeps, ClaimsStand DEF DocsKeep
<1>8. CASE \E e \in Employees, c \in Codes : Ack(e, c)
  BY <1>1, <1>8, AckKeeps DEF Ack
<1>9. CASE \E s \in Sessions, e \in Employees, c \in Codes : FormBegin(s, e, c)
  BY <1>1, <1>9, FormBeginKeeps DEF FormBegin
<1>10. CASE \E s \in Sessions : FormSubmit(s) BY <1>1, <1>10, FormSubmitKeeps DEF FormSubmit
<1>11. CASE \E s \in Sessions : UploadStep(s) BY <1>11, UploadStepKeeps
<1>12. CASE \E s \in Sessions : Abandon(s)
  <2>1. PICK s \in Sessions : Abandon(s) BY <1>12
  <2>2. /\ UNCHANGED <<requests, dms, hr>> /\ task' = task
        /\ session' = [session EXCEPT ![s] = Idle]
    BY <2>1 DEF Abandon
  <2>3. QED BY <1>1, <2>2, IdleKeeps
<1>13. CASE \E r \in DOMAIN requests, v \in Verdicts : DecideVerification(r, v)
  BY <1>13, DecideVerificationKeeps
<1>14. CASE \E r \in DOMAIN requests, v \in Verdicts :
              DecideChange(r, v) /\ UNCHANGED <<dms, onboarding>>
  <2>1. PICK r \in DOMAIN requests, v \in Verdicts :
          DecideChange(r, v) /\ UNCHANGED <<dms, onboarding>>
    BY <1>14
  <2>2. docs' = docs /\ files' = files /\ task' = task /\ session' = session
    BY <2>1 DEF dms, onboarding
  <2>3. QED BY <2>1, <2>2, DecideChangeKeeps, ClaimsStand DEF DocsKeep
<1>15. QED
  BY <1>2, <1>3, <1>4, <1>5, <1>6, <1>7, <1>8, <1>9, <1>10, <1>11, <1>12, <1>13, <1>14
  DEF Next

\* Whatever the interleaving, the rows are as the invariant describes.
THEOREM Invariance == Spec => []IInv
BY InvInit, InvNext, PTL DEF Spec

\* A document that waits for its verdict has one request that can give it, the
\* one create_verification_request hands out again; any other has none.
THEOREM OneOpenVerificationCorrect == Spec => []OneOpenVerification
<1>1. IInv => OneOpenVerification BY DEF IInv, Approvals
<1>2. QED BY <1>1, Invariance, PTL

\* A profile change request and its workflow request are in the same state.
THEOREM ChangesMirrorRequestsCorrect == Spec => []ChangesMirrorRequests
<1>1. IInv => ChangesMirrorRequests BY DEF IInv, Approvals
<1>2. QED BY <1>1, Invariance, PTL

\* A task that wants verification is approved or rejected only with its
\* document, however uploads and decisions cross.
THEOREM TasksClaimNoMoreCorrect == Spec => []TasksClaimNoMore
<1>1. IInv => TasksClaimNoMore BY DEF IInv, Claims
<1>2. QED BY <1>1, Invariance, PTL

-----------------------------------------------------------------------------
(* The profile and what changed it.                                         *)

Fields == {"phone", "bank"}

Profiled ==
  /\ IsASequence(effects)
  /\ DOMAIN profile = Employees /\ profile = [e \in Employees |-> profile[e]]
  /\ \A e \in Employees : profile[e] = [f \in Fields |-> profile[e][f]]

\* The effects that set a field of an employee.
Own(e, f) == {k \in DOMAIN effects : effects[k].emp = e /\ f \in DOMAIN effects[k].set}

\* The changes that set a field have a last one.
LEMMA OwnHasLast ==
  ASSUME IsASequence(effects), NEW e, NEW f, Own(e, f) # {}
  PROVE  Max(Own(e, f)) \in Own(e, f) /\ Max(Own(e, f)) \in DOMAIN effects
<1>1. Len(effects) \in Nat /\ DOMAIN effects = 1..Len(effects) BY DEF IsASequence
<1>2. Own(e, f) \subseteq Nat /\ \A k \in Own(e, f) : k <= Len(effects) BY <1>1 DEF Own
<1>3. QED BY <1>1, <1>2, MaxIsGreatest DEF Own

\* A change that takes effect sets its fields, and the last to set them is it.
LEMMA EffectReplayed ==
  ASSUME Profiled, ProfileReplaysEffects, NEW e \in Employees, NEW set, NEW p,
         effects' = Append(effects, [emp |-> e, set |-> set]),
         profile' = [profile EXCEPT ![e] = p],
         p = [f \in Fields |-> IF f \in DOMAIN set THEN set[f] ELSE profile[e][f]]
  PROVE  Profiled' /\ ProfileReplaysEffects'
<1> DEFINE x == [emp |-> e, set |-> set]
<1>1. x.emp = e /\ x.set = set OBVIOUS
<1>2. PICK n \in Nat : n = Len(effects) + 1 BY AppendSequence DEF Profiled
<1>3. effects' = Append(effects, x) OBVIOUS
<1> HIDE DEF x
<1>4. /\ IsASequence(effects') /\ DOMAIN effects' = DOMAIN effects \cup {n}
      /\ n \notin DOMAIN effects /\ effects'[n] = x
      /\ \A k \in DOMAIN effects : k < n /\ k \in Nat /\ effects'[k] = effects[k]
  <2>1. IsASequence(effects) BY DEF Profiled
  <2>2. Len(effects) \in Nat /\ DOMAIN effects = 1..Len(effects) BY <2>1, AppendSequence
  <2>3. QED BY <1>2, <1>3, <2>1, <2>2, AppendSequence
<1>5. profile'[e] = p /\ \A d \in Employees : d # e => profile'[d] = profile[d]
  BY DEF Profiled
<1>6. Profiled' BY <1>4, <1>5, ZenonT(40) DEF Profiled
<1>7. ASSUME NEW d \in Employees, NEW f \in Fields PROVE profile'[d][f] = LastSet(d, f)'
  <2>1. profile[d][f] = LastSet(d, f) BY DEF Profiled, ProfileReplaysEffects
  <2>2. CASE d = e /\ f \in DOMAIN set
    <3>1. Own(d, f)' = Own(d, f) \cup {n} BY <1>1, <1>4, <2>2 DEF Own
    <3>2. \A k \in Own(d, f)' : k \in Nat /\ k <= n
      BY <1>4, <3>1 DEF Own
    <3>3. Max(Own(d, f)') = n
      <4>1. Max(Own(d, f)') \in Own(d, f)' /\ \A k \in Own(d, f)' : k <= Max(Own(d, f)')
        BY <3>1, <3>2, MaxIsGreatest
      <4>2. n \in Own(d, f)' BY <3>1
      <4>3. PICK m : m = Max(Own(d, f)') OBVIOUS
      <4>4. m \in Nat /\ m <= n /\ n <= m BY <3>2, <4>1, <4>2, <4>3
      <4>5. QED BY <4>3, <4>4
    <3>4. LastSet(d, f)' = set[f] BY <1>1, <1>4, <3>1, <3>3 DEF LastSet, Own
    <3>5. QED BY <1>5, <2>2, <3>4
  <2>3. CASE d # e \/ f \notin DOMAIN set
    <3>1. Own(d, f)' = Own(d, f) BY <1>1, <1>4, <2>3 DEF Own
    <3>2. Own(d, f) # {} => effects'[Max(Own(d, f))] = effects[Max(Own(d, f))]
      BY <1>4, OwnHasLast DEF Profiled
    <3>3. LastSet(d, f)' = LastSet(d, f) BY <3>1, <3>2 DEF LastSet, Own
    <3>4. profile'[d][f] = profile[d][f] BY <1>5, <2>3
    <3>5. QED BY <2>1, <3>3, <3>4
  <2>4. QED BY <2>2, <2>3
<1>8. ProfileReplaysEffects'
  <2>1. \A d \in Employees : DOMAIN profile'[d] = Fields BY <1>6 DEF Profiled
  <2>2. QED BY <1>7, <2>1 DEF ProfileReplaysEffects
<1>9. QED BY <1>6, <1>8

\* A decision replays like that when it approves.
LEMMA FinalizeReplayed ==
  ASSUME Profiled, ProfileReplaysEffects, NEW i \in DOMAIN changes, NEW v, Finalize(i, v),
         changes[i].emp \in Employees
  PROVE  Profiled' /\ ProfileReplaysEffects'
<1>1. CASE v = "APPROVED"
  <2> PICK e, set : e = changes[i].emp /\ e \in Employees /\ set = changes[i].set OBVIOUS
  <2>1. /\ effects' = Append(effects, [emp |-> e, set |-> set])
        /\ profile' = [profile EXCEPT ![e] = Patch(profile[e], set)]
    BY <1>1 DEF Finalize
  <2>2. DOMAIN profile[e] = Fields BY DEF Profiled
  <2>3. QED BY <2>1, <2>2, EffectReplayed DEF Patch
<1>2. CASE v # "APPROVED"
  <2>1. UNCHANGED <<profile, effects>> BY <1>2, SMTT(30) DEF Finalize
  <2>2. QED BY <2>1 DEF Profiled, ProfileReplaysEffects, LastSet
<1>3. QED BY <1>1, <1>2

\* Every step keeps profiles what the effects say.
LEMMA ReplayNext ==
  ASSUME IInv, Profiled, ProfileReplaysEffects, [Next]_vars
  PROVE  Profiled' /\ ProfileReplaysEffects'
<1>1. CASE UNCHANGED <<profile, effects>>
  BY <1>1, SMTT(30) DEF Profiled, ProfileReplaysEffects, LastSet
<1>2. CASE \E i \in DOMAIN changes : \E v : Finalize(i, v)
  BY <1>2, FinalizeReplayed DEF IInv, Approvals, RowsTyped
<1>3. CASE \E e \in Employees, phone \in Phones : EditDirectly(e, phone)
  <2>1. PICK e \in Employees, phone \in Phones : EditDirectly(e, phone) BY <1>3
  <2> DEFINE p == [profile[e] EXCEPT !.phone = phone]
             set == [phone |-> phone]
  <2>2. profile[e] = [f \in Fields |-> profile[e][f]] BY DEF Profiled
  <2>3. p = [f \in Fields |-> IF f \in DOMAIN set THEN set[f] ELSE profile[e][f]]
    BY <2>2 DEF Fields
  <2>4. /\ effects' = Append(effects, [emp |-> e, set |-> set])
        /\ profile' = [profile EXCEPT ![e] = p]
    BY <2>1 DEF EditDirectly
  <2> HIDE DEF p, set
  <2>5. QED BY <2>3, <2>4, EffectReplayed
<1>4. CASE \E r \in DOMAIN requests, v \in Verdicts : DecideChange(r, v)
  <2>1. PICK r \in DOMAIN requests, v \in Verdicts : DecideChange(r, v) BY <1>4
  <2>2. requests[r].ref \in DOMAIN changes
    BY <2>1 DEF DecideChange, IInv, Approvals, RequestsRefer
  <2>3. QED BY <1>2, <2>1, <2>2 DEF DecideChange
<1>5. CASE Next /\ UNCHANGED hr BY <1>1, <1>5 DEF hr
<1>6. QED
  BY <1>1, <1>2, <1>3, <1>4, <1>5 DEF Next, vars, ProfileStep, CreateChange, CancelMine, hr,
     AddTemplateTask, CreateBundle, SubmitPacket, Ack, FormBegin, FormSubmit, Abandon,
     UploadStep, UploadBegin, HrUploadBegin, UploadStored, UploadFails, LookUp,
     UploadVersion, UploadDocument, Verify, SkipVerification, LinkTask, DecideVerification

\* A profile is what the change sets that were approved, and the direct edits,
\* left in the order they took effect, field by field.
THEOREM ProfileReplaysEffectsCorrect == Spec => []ProfileReplaysEffects
<1>1. Init => Profiled /\ ProfileReplaysEffects
  <2> SUFFICES ASSUME Init PROVE Profiled /\ ProfileReplaysEffects OBVIOUS
  <2>1. effects = <<>> /\ profile = [e \in Employees |-> [phone |-> NoPhone, bank |-> <<>>]]
    BY DEF Init, ProfileInit
  <2>2. Profiled BY <2>1 DEF Profiled, IsASequence, Fields
  <2>3. ProfileReplaysEffects BY <2>1 DEF ProfileReplaysEffects, LastSet
  <2>4. QED BY <2>2, <2>3
<1>2. /\ IInv /\ (Profiled /\ ProfileReplaysEffects) /\ [Next]_vars
      => (Profiled /\ ProfileReplaysEffects)'
  BY ReplayNext
<1>3. QED BY <1>1, <1>2, Invariance, PTL DEF Spec

=============================================================================
