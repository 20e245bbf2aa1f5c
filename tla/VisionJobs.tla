------------------------------ MODULE VisionJobs ------------------------------
(***************************************************************************)
(* Video jobs of one branch (backend/app/api/v1/videos.py, jobs.py,        *)
(* worker/tasks.py, worker/rollup.py, worker/artifacts.py): a video is     *)
(* uploaded and finalized, a job for it is queued, a worker turns its      *)
(* footage into events, and the events of all DONE jobs of the day into    *)
(* attendance.                                                             *)
(*                                                                         *)
(* A job row is read, and written later, without a lock by requests and by *)
(* the worker, which commits many times on the way: each commit and each   *)
(* read that a later write relies on is a step.  What the pipeline finds   *)
(* in the footage is not modelled here (DoorTracks is); its rows are told  *)
(* apart by the attempt that inserted them.                                *)
(***************************************************************************)
EXTENDS Naturals, FiniteSets, Sequences

CONSTANTS Videos,
          Path,          \* [Videos -> file path: camera and day]
          Day,           \* [Videos -> business_date]
          Jobs,
          VisionWorkers,
          Parts,         \* batches of rows a whole video makes: 1..Parts
          MaxAttempts    \* bound: attempts at jobs

ASSUME VisionAssumption == Parts \in Nat \ {0} /\ MaxAttempts \in Nat

Paths == {Path[v] : v \in Videos}
Dates == {Day[v] : v \in Videos}
Nothing == 0

VARIABLES video,     \* [Videos -> vision.videos: absent, created or finalized]
          file,      \* [Paths -> the video whose upload wrote the file]
          job,       \* [Jobs -> status, and the video]
          unqueued,  \* jobs whose request has still to push to Redis
          jobs,      \* the RQ queue
          cancelling,\* jobs a cancel request has looked at
          worker,    \* where each worker stands
          output,    \* [Jobs -> events and tracks, as <<attempt, part>>]
          derived,   \* [Jobs -> the rows metrics and exports were made of]
          attendance,     \* [Dates -> the rows attendance_daily was made of]
          attempts,  \* attempts so far
          disturbed, \* history: jobs restarted under a running attempt, days
          crowded    \* on which two recomputations overlapped

rowsOfVideos == <<video, file>>
results == <<output, derived, attendance>>
history == <<attempts, disturbed, crowded>>
vvars == <<rowsOfVideos, job, unqueued, jobs, cancelling, worker, results, history>>

Ready == [at |-> "free"]

VisionInit ==
  /\ video = [v \in Videos |-> "absent"]
  /\ file = [p \in Paths |-> Nothing]
  /\ job = [j \in Jobs |-> [status |-> "absent", video |-> Nothing]]
  /\ unqueued = {} /\ jobs = <<>> /\ cancelling = {}
  /\ worker = [w \in VisionWorkers |-> Ready]
  /\ output = [j \in Jobs |-> {}]
  /\ derived = [j \in Jobs |-> {}]
  /\ attendance = [d \in Dates |-> {}]
  /\ attempts = 0 /\ disturbed = {} /\ crowded = {}

Status(j) == job[j].status
SetStatus(j, s) == job' = [job EXCEPT ![j].status = s]
DayOf(j) == Day[job[j].video]

-----------------------------------------------------------------------------
(* Videos.  Two videos of one camera and day share a path.                  *)

InitVideo(v) ==
  /\ video[v] = "absent"
  /\ video' = [video EXCEPT ![v] = "created"]
  /\ UNCHANGED <<file, job, unqueued, jobs, cancelling, worker, results, history>>

UploadFile(v) ==
  /\ video[v] # "absent" /\ file[Path[v]] # v
  /\ file' = [file EXCEPT ![Path[v]] = v]
  /\ UNCHANGED <<video, job, unqueued, jobs, cancelling, worker, results, history>>

FinalizeVideo(v) ==
  /\ video[v] = "created" /\ file[Path[v]] # Nothing
  /\ video' = [video EXCEPT ![v] = "finalized"]
  /\ UNCHANGED <<file, job, unqueued, jobs, cancelling, worker, results, history>>

-----------------------------------------------------------------------------
(* Requests about jobs.                                                     *)

CreateJob(j, v) ==
  /\ Status(j) = "absent"
  /\ video[v] = "finalized" /\ file[Path[v]] # Nothing
  /\ job' = [job EXCEPT ![j] = [status |-> "PENDING", video |-> v]]
  /\ unqueued' = unqueued \cup {j}
  /\ UNCHANGED <<rowsOfVideos, jobs, cancelling, worker, results, history>>

Working(j) == \E w \in VisionWorkers : worker[w] # Ready /\ worker[w].job = j

Disturbs(j) == disturbed' = IF Working(j) THEN disturbed \cup {j} ELSE disturbed

RetryJob(j) ==
  /\ Status(j) \in {"FAILED", "CANCELED"}
  /\ SetStatus(j, "PENDING")
  /\ unqueued' = unqueued \cup {j}
  /\ Disturbs(j)
  /\ UNCHANGED <<rowsOfVideos, jobs, cancelling, worker, results, attempts, crowded>>

PushJob(j) ==
  /\ j \in unqueued
  /\ unqueued' = unqueued \ {j}
  /\ jobs' = Append(jobs, j)
  /\ UNCHANGED <<rowsOfVideos, job, cancelling, worker, results, history>>

PushJobFails(j) ==
  /\ j \in unqueued
  /\ unqueued' = unqueued \ {j}
  /\ SetStatus(j, "FAILED")
  /\ Disturbs(j)
  /\ UNCHANGED <<rowsOfVideos, jobs, cancelling, worker, results, attempts, crowded>>

\* cancel_job looks at the status ...
CancelJobLook(j) ==
  /\ j \notin cancelling
  /\ Status(j) \notin {"absent", "DONE", "FAILED"}
  /\ cancelling' = cancelling \cup {j}
  /\ UNCHANGED <<rowsOfVideos, job, unqueued, jobs, worker, results, history>>

\* ... and writes, whatever it has become.
CancelJobCommit(j) ==
  /\ j \in cancelling
  /\ cancelling' = cancelling \ {j}
  /\ SetStatus(j, "CANCELED")
  /\ UNCHANGED <<rowsOfVideos, unqueued, jobs, worker, results, history>>

-----------------------------------------------------------------------------
(* process_video_job.                                                       *)

JobOf(w) == worker[w].job
Stands(w, pc) == worker[w].at = pc
Advance(w, pc) == worker' = [worker EXCEPT ![w].at = pc]
Release(w) == worker' = [worker EXCEPT ![w] = Ready]

TakeVideo(w) ==
  /\ worker[w] = Ready /\ jobs # <<>> /\ attempts < MaxAttempts
  /\ worker' = [worker EXCEPT ![w] = [at |-> "begin", job |-> Head(jobs), attempt |-> attempts + 1,
                                      part |-> 1, related |-> {}]]
  /\ attempts' = attempts + 1
  /\ jobs' = Tail(jobs)
  /\ UNCHANGED <<rowsOfVideos, job, unqueued, cancelling, results, disturbed, crowded>>

Overlaps(w) == \E v \in VisionWorkers \ {w} : worker[v] # Ready /\ JobOf(v) = JobOf(w)

\* Mutant: outputs of an earlier attempt stay.
ClearNothing(j) == UNCHANGED <<output, derived>>

\* _clear_job_outputs
Clear(j) ==
  /\ output' = [output EXCEPT ![j] = {}]
  /\ derived' = [derived EXCEPT ![j] = {}]

\* A job that is POSTPROCESSING is started again as well.
BeginJob(w) ==
  LET j == JobOf(w) IN
  /\ Stands(w, "begin")
  /\ IF Status(j) \in {"RUNNING", "DONE", "CANCELED"}
     THEN Release(w) /\ UNCHANGED <<job, output, derived, disturbed>>
     ELSE /\ SetStatus(j, "RUNNING")
          /\ Clear(j)
          /\ Advance(w, "track")
          /\ disturbed' = IF Overlaps(w) THEN disturbed \cup {j} ELSE disturbed
  /\ UNCHANGED <<rowsOfVideos, unqueued, jobs, cancelling, attendance, attempts, crowded>>

\* The pipeline commits its rows in batches.  It asks now and then whether
\* the job was cancelled, and then stops with what it has.
TrackFootage(w) ==
  LET j == JobOf(w) IN
  /\ Stands(w, "track")
  /\ output' = [output EXCEPT ![j] = @ \cup {<<worker[w].attempt, worker[w].part>>}]
  /\ IF worker[w].part = Parts THEN Advance(w, "tracked")
     ELSE worker' = [worker EXCEPT ![w].part = @ + 1]
  /\ UNCHANGED <<rowsOfVideos, job, unqueued, jobs, cancelling, derived, attendance, history>>

TrackStops(w) ==
  /\ Stands(w, "track")
  /\ Status(JobOf(w)) = "CANCELED"
  /\ Advance(w, "tracked")
  /\ UNCHANGED <<rowsOfVideos, job, unqueued, jobs, cancelling, results, history>>

Refresh(w) ==
  /\ Stands(w, "tracked")
  /\ IF Status(JobOf(w)) = "CANCELED" THEN Release(w) ELSE Advance(w, "postprocess")
  /\ UNCHANGED <<rowsOfVideos, job, unqueued, jobs, cancelling, results, history>>

Done(d) == {j \in Jobs : Status(j) = "DONE" /\ DayOf(j) = d}

\* Mutant: only the job's own events are counted.
RelatedAlone(j) == {j}

\* get_related_job_ids, and the job itself.
Related(j) == Done(DayOf(j)) \cup {j}

\* A worker read which jobs are DONE and has not said that its own is.
Recomputing(d) ==
  \E w \in VisionWorkers : /\ worker[w].at \in {"rollup", "finish"}
                           /\ DayOf(JobOf(w)) = d

Crowds(d) == crowded' = IF Recomputing(d) THEN crowded \cup {d} ELSE crowded

RowsOf(js) == UNION {{<<j, row[1], row[2]>> : row \in output[j]} : j \in js}

Postprocess(w) ==
  LET j == JobOf(w) IN
  /\ Stands(w, "postprocess")
  /\ SetStatus(j, "POSTPROCESSING")
  /\ worker' = [worker EXCEPT ![w] = [@ EXCEPT !.at = "rollup", !.related = Related(j)]]
  /\ Crowds(DayOf(j))
  /\ UNCHANGED <<rowsOfVideos, unqueued, jobs, cancelling, results, attempts, disturbed>>

\* The metrics of the job, all attendance rows of the day, the export files.
Rollup(j, related) ==
  /\ derived' = [derived EXCEPT ![j] = output[j]]
  /\ attendance' = [attendance EXCEPT ![DayOf(j)] = RowsOf(related)]
  /\ UNCHANGED output

RollupStep(w) ==
  /\ Stands(w, "rollup")
  /\ Rollup(JobOf(w), worker[w].related)
  /\ Advance(w, "finish")
  /\ UNCHANGED <<rowsOfVideos, job, unqueued, jobs, cancelling, history>>

FinishJob(w) ==
  /\ Stands(w, "finish")
  /\ IF Status(JobOf(w)) = "CANCELED" THEN UNCHANGED job ELSE SetStatus(JobOf(w), "DONE")
  /\ Release(w)
  /\ UNCHANGED <<rowsOfVideos, unqueued, jobs, cancelling, results, history>>

\* Any error after the job is RUNNING: an unreadable video, rows whose track
\* key another attempt has used.
JobFails(w) ==
  /\ worker[w] # Ready /\ ~Stands(w, "begin")
  /\ SetStatus(JobOf(w), "FAILED")
  /\ Release(w)
  /\ UNCHANGED <<rowsOfVideos, unqueued, jobs, cancelling, results, history>>

\* The worker is killed.  Its job keeps the status it had.
VisionWorkerDies(w) ==
  /\ worker[w] # Ready
  /\ Release(w)
  /\ UNCHANGED <<rowsOfVideos, job, unqueued, jobs, cancelling, results, history>>

\* recompute_job: identities are attached to rows of the job, the day and
\* the exports are made again from DONE jobs and this one, whatever its
\* status is unless RUNNING.
RecomputeJob(j) ==
  /\ Status(j) \notin {"absent", "RUNNING"}
  /\ Rollup(j, Related(j))
  /\ Crowds(DayOf(j))
  /\ UNCHANGED <<rowsOfVideos, job, unqueued, jobs, cancelling, worker, attempts, disturbed>>

-----------------------------------------------------------------------------

VisionWorkerStep(w) ==
  \/ TakeVideo(w) \/ BeginJob(w) \/ TrackFootage(w) \/ TrackStops(w) \/ Refresh(w)
  \/ Postprocess(w) \/ RollupStep(w) \/ FinishJob(w) \/ JobFails(w) \/ VisionWorkerDies(w)

VisionNext ==
  \/ \E v \in Videos : InitVideo(v) \/ UploadFile(v) \/ FinalizeVideo(v)
  \/ \E j \in Jobs, v \in Videos : CreateJob(j, v)
  \/ \E j \in Jobs : RetryJob(j) \/ PushJob(j) \/ PushJobFails(j) \/ CancelJobLook(j) \/ CancelJobCommit(j)
                       \/ RecomputeJob(j)
  \/ \E w \in VisionWorkers : VisionWorkerStep(w)

VisionSpec == VisionInit /\ [][VisionNext]_vvars

-----------------------------------------------------------------------------
(* Properties.                                                              *)

\* The events of a job that is DONE come from one attempt, which saw the
\* whole video, and its metrics and exports are made of them, however often it was
\* cancelled, failed, killed and tried again: unless it was tried again
\* under the feet of an attempt that had not yet noticed the cancellation.
DoneIsWhole ==
  \A j \in Jobs \ disturbed : Status(j) = "DONE" =>
    /\ \E a \in 1..attempts : output[j] = {<<a, p>> : p \in 1..Parts}
    /\ derived[j] = output[j]

\* The attendance of a day counts every job that is DONE, unless two were
\* postprocessed at the same time, when neither saw the other.
DayCountsDoneJobs ==
  \A d \in Dates \ crowded :
    (\A j \in Done(d) : j \notin disturbed) =>
      RowsOf(Done(d)) \subseteq attendance[d]

=============================================================================
