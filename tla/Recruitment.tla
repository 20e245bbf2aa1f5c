---------------------------- MODULE Recruitment ----------------------------
(***************************************************************************)
(* Recruitment for one opening (backend/app/hr, api/v1/openings.py,        *)
(* screening_runs.py and ats.py): resumes are uploaded, parsed and         *)
(* embedded, screening runs rank them and explain the ranking, all by jobs *)
(* on the RQ queue "hr"; the ranked resumes become applications.           *)
(*                                                                         *)
(* Jobs and requests work on rows they read in an earlier transaction,     *)
(* with no lock: each commit is a step.  PostgreSQL holds the rows, Redis  *)
(* the queue; nothing ties a commit to a push.                             *)
(***************************************************************************)
EXTENDS Naturals, FiniteSets, SequencesExt

CONSTANTS Resumes,
          Runs,        \* screening runs, numbered as they are created
          HrWorkers,   \* RQ worker processes
          TopN,        \* top_n of every run
          Stages,      \* pipeline stages that requests name
          MaxQueue     \* bound: jobs queued

ASSUME RecruitmentAssumption ==
  /\ Runs \subseteq Nat \ {0} /\ IsFiniteSet(Runs) /\ IsFiniteSet(Resumes)
  /\ TopN \in Nat \ {0}

VARIABLES resume,      \* hr.resumes: status and embedding_status
          views,       \* resumes whose embeddings are in hr.resume_views
          run,         \* status of each hr.screening_runs row, "absent" before
          results,     \* hr.screening_results of each run, by rank
          explained,   \* hr.screening_explanations, as <<run, resume>>
          application, \* hr.applications by resume
          queue,       \* the jobs in Redis
          lost,        \* jobs of workers that died, in RQ's failed registry
          unsent,      \* jobs a request has still to push
          hrworker,    \* what each worker is doing
          request      \* the API request in progress, if it takes several steps

rvars == <<resume, views, run, results, explained, application,
           queue, lost, unsent, hrworker, request>>
rows == <<resume, views, run, results, explained, application>>
redis == <<queue, lost>>

Job(kind, of) == [kind |-> kind, of |-> of]
Free == [at |-> "free"]
NoRequest == [at |-> "none"]
NoSource == 0

RecruitmentInit ==
  /\ resume = [r \in Resumes |-> [status |-> "absent", embedding |-> "PENDING"]]
  /\ views = {} /\ explained = {}
  /\ run = [x \in Runs |-> "absent"]
  /\ results = [x \in Runs |-> <<>>]
  /\ application = [r \in Resumes |-> {}]
  /\ queue = <<>> /\ lost = {} /\ unsent = {}
  /\ hrworker = [w \in HrWorkers |-> Free]
  /\ request = NoRequest

-----------------------------------------------------------------------------
(* Requests that start jobs.                                                *)

Upload(r) ==
  /\ resume[r].status = "absent"
  /\ resume' = [resume EXCEPT ![r].status = "UPLOADED"]
  /\ unsent' = unsent \cup {Job("parse", r)}
  /\ UNCHANGED <<views, run, results, explained, application, redis, hrworker, request>>

\* create_screening_run, and retry_screening_run, which makes a new run.
CreateRun(x) ==
  /\ run[x] = "absent" /\ \A y \in Runs : y < x => run[y] # "absent"
  /\ run' = [run EXCEPT ![x] = "QUEUED"]
  /\ unsent' = unsent \cup {Job("screen", x)}
  /\ UNCHANGED <<resume, views, results, explained, application, redis, hrworker, request>>

Push(job) ==
  /\ Len(queue) < MaxQueue
  /\ queue' = Append(queue, job)
  /\ UNCHANGED lost

Send(job) ==
  /\ job \in unsent
  /\ Push(job)
  /\ unsent' = unsent \ {job}
  /\ UNCHANGED <<rows, hrworker, request>>

\* Redis refuses the job of a run, which is marked FAILED.
SendFails(x) ==
  /\ Job("screen", x) \in unsent
  /\ unsent' = unsent \ {Job("screen", x)}
  /\ run' = [run EXCEPT ![x] = "FAILED"]
  /\ UNCHANGED <<resume, views, results, explained, application, redis, hrworker, request>>

\* enqueue_opening_embeddings pushes the job first ...
EmbedAgain(r, force) ==
  /\ request = NoRequest
  /\ resume[r].status = "PARSED" /\ (force \/ resume[r].embedding # "EMBEDDED")
  /\ Push(Job("embed", r))
  /\ request' = [at |-> "embeddings", of |-> r]
  /\ UNCHANGED <<rows, unsent, hrworker>>

\* ... and commits PENDING after the loop over the resumes.
EmbedAgainCommit ==
  /\ request.at = "embeddings"
  /\ resume' = [resume EXCEPT ![request.of].embedding = "PENDING"]
  /\ request' = NoRequest
  /\ UNCHANGED <<views, run, results, explained, application, redis, unsent, hrworker>>

\* cancel_screening_run reads the status ...
CancelLook(x) ==
  /\ request = NoRequest
  /\ run[x] \notin {"absent", "DONE", "FAILED"}
  /\ request' = [at |-> "cancel", of |-> x]
  /\ UNCHANGED <<rows, redis, unsent, hrworker>>

\* ... and then writes, whatever it has become.
CancelCommit ==
  /\ request.at = "cancel"
  /\ run' = [run EXCEPT ![request.of] = "CANCELLED"]
  /\ request' = NoRequest
  /\ UNCHANGED <<resume, views, results, explained, application, redis, unsent, hrworker>>

\* POST .../explanations, for a run that is DONE.
AskExplanations(x) ==
  /\ run[x] = "DONE"
  /\ Push(Job("explain", x))
  /\ UNCHANGED <<rows, unsent, hrworker, request>>

-----------------------------------------------------------------------------
(* Workers.                                                                 *)

At(w, kind, pc) == hrworker[w].at = pc /\ hrworker[w].job.kind = kind
Of(w) == hrworker[w].job.of
Goto(w, pc) == hrworker' = [hrworker EXCEPT ![w].at = pc]
Finish(w) == hrworker' = [hrworker EXCEPT ![w] = Free]

Take(w) ==
  /\ hrworker[w] = Free /\ queue # <<>>
  /\ hrworker' = [hrworker EXCEPT ![w] = [at |-> "begin", job |-> Head(queue)]]
  /\ queue' = Tail(queue)
  /\ UNCHANGED <<rows, lost, unsent, request>>

\* The worker is killed: its transaction is rolled back, what it committed
\* stays.
Die(w) ==
  /\ hrworker[w] # Free
  /\ lost' = lost \cup {hrworker[w].job}
  /\ Finish(w)
  /\ UNCHANGED <<rows, queue, unsent, request>>

\* An operator requeues a failed job.
Requeue(job) ==
  /\ job \in lost /\ Len(queue) < MaxQueue
  /\ queue' = Append(queue, job)
  /\ lost' = lost \ {job}
  /\ UNCHANGED <<rows, unsent, hrworker, request>>

SetResume(r, status, embedding) ==
  /\ resume' = [resume EXCEPT ![r] = [status |-> status, embedding |-> embedding]]
  /\ UNCHANGED <<views, run, results, explained, application>>

\* parse_resume: a parsed resume is not parsed again, but its embedding is
\* requested if it is missing.
ParseBegin(w) ==
  /\ At(w, "parse", "begin")
  /\ UNCHANGED <<redis, unsent, request>>
  /\ IF resume[Of(w)].status = "PARSED"
     THEN /\ IF resume[Of(w)].embedding # "EMBEDDED" THEN Goto(w, "follow") ELSE Finish(w)
          /\ UNCHANGED rows
     ELSE /\ SetResume(Of(w), "PARSING", resume[Of(w)].embedding)
          /\ Goto(w, "parsing")

ParseCommit(w) ==
  /\ At(w, "parse", "parsing")
  /\ SetResume(Of(w), "PARSED", "PENDING")
  /\ Goto(w, "follow")
  /\ UNCHANGED <<redis, unsent, request>>

ParseFollow(w) ==
  /\ At(w, "parse", "follow")
  /\ Push(Job("embed", Of(w)))
  /\ Finish(w)
  /\ UNCHANGED <<rows, unsent, request>>

ParseFails(w) ==
  /\ At(w, "parse", "parsing")
  /\ SetResume(Of(w), "FAILED", resume[Of(w)].embedding)
  /\ Finish(w)
  /\ UNCHANGED <<redis, unsent, request>>

\* embed_resume
EmbedBegin(w) ==
  LET r == Of(w) IN
  /\ At(w, "embed", "begin")
  /\ UNCHANGED <<redis, unsent, request>>
  /\ IF resume[r].status # "PARSED" \/ (r \in views /\ resume[r].embedding = "EMBEDDED")
     THEN Finish(w) /\ UNCHANGED rows
     ELSE SetResume(r, "PARSED", "EMBEDDING") /\ Goto(w, "embedding")

\* The views are looked up one by one before any is inserted.
EmbedLook(w) ==
  /\ At(w, "embed", "embedding")
  /\ Goto(w, IF Of(w) \in views THEN "update" ELSE "insert")
  /\ UNCHANGED <<rows, redis, unsent, request>>

\* Mutant: the status is committed before the views.
StoreLater(w) ==
  /\ hrworker[w].at \in {"insert", "update"} /\ hrworker[w].job.kind = "embed"
  /\ SetResume(Of(w), "PARSED", "EMBEDDED")
  /\ Goto(w, "mark")
  /\ UNCHANGED <<redis, unsent, request>>

\* Of two jobs that insert, the second breaks the unique index and its
\* resume is FAILED, which EmbedFails says.
EmbedStore(w) ==
  /\ \/ At(w, "embed", "insert") /\ Of(w) \notin views
     \/ At(w, "embed", "update")
  /\ views' = views \cup {Of(w)}
  /\ Goto(w, "mark")
  /\ UNCHANGED <<resume, run, results, explained, application, redis, unsent, request>>

EmbedMark(w) ==
  /\ At(w, "embed", "mark")
  /\ SetResume(Of(w), "PARSED", "EMBEDDED")
  /\ Finish(w)
  /\ UNCHANGED <<redis, unsent, request>>

EmbedFails(w) ==
  /\ hrworker[w].at \in {"embedding", "insert", "update"} /\ hrworker[w].job.kind = "embed"
  /\ SetResume(Of(w), "PARSED", "FAILED")
  /\ Finish(w)
  /\ UNCHANGED <<redis, unsent, request>>

SetRun(x, status) ==
  /\ run' = [run EXCEPT ![x] = status]
  /\ UNCHANGED <<resume, views, results, explained, application>>

\* Mutant: a run that is DONE is ranked again.
RunLookAgain(w) ==
  /\ At(w, "screen", "begin")
  /\ IF run[Of(w)] = "CANCELLED" THEN Finish(w) ELSE Goto(w, "starting")
  /\ UNCHANGED <<rows, redis, unsent, request>>

\* run_screening
RunLook(w) ==
  LET x == Of(w) IN
  /\ At(w, "screen", "begin")
  /\ IF run[x] = "CANCELLED" \/ (run[x] = "DONE" /\ results[x] # <<>>)
     THEN Finish(w) ELSE Goto(w, "starting")
  /\ UNCHANGED <<rows, redis, unsent, request>>

RunStart(w) ==
  /\ At(w, "screen", "starting")
  /\ UNCHANGED <<redis, unsent, request>>
  /\ IF views = {}
     THEN SetRun(Of(w), "FAILED") /\ Finish(w)
     ELSE SetRun(Of(w), "RUNNING") /\ Goto(w, "retrieving")

\* The pool is read; it is reranked in batches, and the row is refreshed
\* before each.  Without a reranker there is no batch.
RunRetrieve(w) ==
  /\ At(w, "screen", "retrieving")
  /\ \E batches \in {"reranking", "ranked"} :
       hrworker' = [hrworker EXCEPT ![w] = [at |-> batches, job |-> @.job, pool |-> views]]
  /\ UNCHANGED <<rows, redis, unsent, request>>

RunRerank(w) ==
  /\ At(w, "screen", "reranking")
  /\ IF run[Of(w)] = "CANCELLED"
     THEN Finish(w)
     ELSE \E pc \in {"reranking", "ranked"} : Goto(w, pc)
  /\ UNCHANGED <<rows, redis, unsent, request>>

Least(a, b) == IF a < b THEN a ELSE b

Rankings(pool) ==
  {s \in [1..Least(TopN, Cardinality(pool)) -> pool] : IsInjective(s)}

\* The results are replaced and the run is DONE, in one transaction.
RunCommit(w) ==
  LET x == Of(w) IN
  /\ At(w, "screen", "ranked")
  /\ \E s \in Rankings(hrworker[w].pool) : results' = [results EXCEPT ![x] = s]
  /\ run' = [run EXCEPT ![x] = "DONE"]
  /\ hrworker' = [hrworker EXCEPT ![w] = [at |-> "follow", job |-> @.job]]
  /\ UNCHANGED <<resume, views, explained, application, redis, unsent, request>>

\* Explanations are asked for if Gemini is configured; no failure matters.
RunFollow(w) ==
  /\ At(w, "screen", "follow")
  /\ Finish(w)
  /\ Push(Job("explain", Of(w))) \/ UNCHANGED redis
  /\ UNCHANGED <<rows, unsent, request>>

RunFails(w) ==
  /\ hrworker[w].at \in {"retrieving", "reranking", "ranked"}
  /\ SetRun(Of(w), "FAILED")
  /\ Finish(w)
  /\ UNCHANGED <<redis, unsent, request>>

\* explain_run: the results are listed, then explained one by one, the run
\* refreshed before each.
ExplainBegin(w) ==
  /\ At(w, "explain", "begin")
  /\ IF run[Of(w)] = "DONE"
     THEN hrworker' = [hrworker EXCEPT ![w] = [at |-> "explaining", job |-> @.job, todo |-> results[Of(w)]]]
     ELSE Finish(w)
  /\ UNCHANGED <<rows, redis, unsent, request>>

ExplainNext(w) ==
  LET todo == hrworker[w].todo IN
  /\ At(w, "explain", "explaining")
  /\ IF todo = <<>> \/ run[Of(w)] = "CANCELLED"
     THEN Finish(w) /\ UNCHANGED explained
     ELSE /\ hrworker' = [hrworker EXCEPT ![w].todo = Tail(@)]
          /\ explained' = IF resume[Head(todo)].status = "PARSED"
                          THEN explained \cup {<<Of(w), Head(todo)>>} ELSE explained
  /\ UNCHANGED <<resume, views, run, results, application, redis, unsent, request>>

-----------------------------------------------------------------------------
(* Applications.                                                            *)

Applied(rs, stage, source) ==
  application' = [r \in Resumes |->
    IF r \in rs THEN {[stage |-> stage, status |-> "ACTIVE", source |-> source]} ELSE application[r]]

\* create_applications_from_run for the top n: results and applications are
\* read ...
ShortlistLook(x, n) ==
  /\ request = NoRequest
  /\ run[x] = "DONE"
  /\ LET top == {results[x][i] : i \in 1..Least(n, Len(results[x]))} IN
     request' = [at |-> "shortlist", of |-> x, new |-> {r \in top : application[r] = {}}]
  /\ UNCHANGED <<rows, redis, unsent, hrworker>>

\* ... and the missing applications inserted, all or, if one exists by now
\* (unique opening and resume), none.
ShortlistCommit ==
  /\ request.at = "shortlist"
  /\ request' = NoRequest
  /\ IF \A r \in request.new : application[r] = {}
     THEN Applied(request.new, "Screened", request.of) ELSE UNCHANGED application
  /\ UNCHANGED <<resume, views, run, results, explained, redis, unsent, hrworker>>

\* create_application: an existing application is returned.
Apply(r, stage) ==
  /\ resume[r].status # "absent" /\ application[r] = {}
  /\ Applied({r}, stage, NoSource)
  /\ UNCHANGED <<resume, views, run, results, explained, redis, unsent, hrworker, request>>

Change(r, fields) ==
  /\ application[r] # {}
  /\ application' = [application EXCEPT ![r] = {[f \in DOMAIN a |-> IF f \in DOMAIN fields THEN fields[f] ELSE a[f]] : a \in @}]
  /\ UNCHANGED <<resume, views, run, results, explained, redis, unsent, hrworker, request>>

\* update_application moves any application to any stage.
MoveStage(r, stage) == Change(r, [stage |-> stage])

\* reject_application and hire_application, whatever the status was.
Settle(r, verdict) ==
  Change(r, [status |-> verdict, stage |-> IF verdict = "HIRED" THEN "Hired" ELSE "Rejected"])

-----------------------------------------------------------------------------

WorkerStep(w) ==
  \/ ParseBegin(w) \/ ParseCommit(w) \/ ParseFollow(w) \/ ParseFails(w)
  \/ EmbedBegin(w) \/ EmbedLook(w) \/ EmbedStore(w) \/ EmbedMark(w) \/ EmbedFails(w)
  \/ RunLook(w) \/ RunStart(w) \/ RunRetrieve(w) \/ RunRerank(w) \/ RunCommit(w)
  \/ RunFollow(w) \/ RunFails(w) \/ ExplainBegin(w) \/ ExplainNext(w)

RecruitmentNext ==
  \/ \E r \in Resumes : Upload(r) \/ \E force \in BOOLEAN : EmbedAgain(r, force)
  \/ \E x \in Runs : CreateRun(x) \/ SendFails(x) \/ CancelLook(x) \/ AskExplanations(x)
  \/ \E job \in unsent : Send(job)
  \/ \E job \in lost : Requeue(job)
  \/ EmbedAgainCommit \/ CancelCommit \/ ShortlistCommit
  \/ \E w \in HrWorkers : Take(w) \/ Die(w) \/ WorkerStep(w)
  \/ \E x \in Runs, n \in 1..TopN : ShortlistLook(x, n)
  \/ \E r \in Resumes, s \in Stages : Apply(r, s) \/ MoveStage(r, s)
  \/ \E r \in Resumes, v \in {"HIRED", "REJECTED"} : Settle(r, v)

RecruitmentSpec == RecruitmentInit /\ [][RecruitmentNext]_rvars

-----------------------------------------------------------------------------
(* Properties.                                                              *)

\* What is built on a ranking stays justified by it: applications made from
\* a run and explanations of it are of resumes that are in its results now,
\* although jobs are requeued and runs cancelled after they are DONE.
WorkFollowsResults ==
  /\ \A r \in Resumes : \A a \in application[r] :
       a.source # NoSource => r \in Range(results[a.source])
  /\ \A e \in explained : e[2] \in Range(results[e[1]])

\* A resume shown as EMBEDDED can be found: its vectors are stored, although
\* jobs for one resume overlap and requests put it back to PENDING.
EmbeddedIsIndexed ==
  \A r \in Resumes : resume[r].embedding = "EMBEDDED" => r \in views

=============================================================================
