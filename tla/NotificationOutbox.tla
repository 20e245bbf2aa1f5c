------------------------- MODULE NotificationOutbox -------------------------
(***************************************************************************)
(* The notification workers, backend/app/worker/notification_worker.py:    *)
(* rows of workflow.notification_outbox become rows of                     *)
(* workflow.notifications.  Several workers run consume_once in a loop;    *)
(* each call is one transaction over a batch of rows it has locked with    *)
(* FOR UPDATE SKIP LOCKED, so what it writes is seen when it commits.      *)
(*                                                                         *)
(* Preparing the INSERT of a row may raise in the process (a value the     *)
(* driver cannot adapt): the except branch counts an attempt and the batch *)
(* goes on.  Any error of the server aborts the transaction, the except    *)
(* branch's UPDATE fails as well, and the whole batch is rolled back as if *)
(* the worker had been killed: both are Crash.                             *)
(***************************************************************************)
EXTENDS Integers, FiniteSets, FiniteSetsExt

CONSTANTS Rows,          \* outbox rows, numbered by created_at
          Workers,
          Limit,         \* LIMIT of a batch
          MaxAttempts,   \* MAX_ATTEMPTS
          Unadaptable    \* rows whose INSERT raises in the process

ASSUME OutboxAssumption ==
  /\ Rows \subseteq Nat /\ IsFiniteSet(Rows)
  /\ Limit \in Nat \ {0} /\ MaxAttempts \in Nat \ {0}
  /\ Unadaptable \subseteq Rows

VARIABLES status,      \* notification_outbox.status, "absent" before it is enqueued
          attempts,    \* notification_outbox.attempts
          waiting,     \* rows whose next_retry_at is still to come
          notified,    \* outbox_id of the rows of workflow.notifications
          at,          \* where each worker stands: "idle" or "batch"
          todo,        \* rows of its batch it has still to do
          inserted,    \* rows it has inserted a notification for
          failed       \* rows it has counted a failed attempt of

outboxvars == <<status, attempts, waiting, notified, at, todo, inserted, failed>>
table == <<status, attempts, waiting, notified>>

Batch(w) == todo[w] \cup inserted[w] \cup failed[w]
First(w) == CHOOSE r \in todo[w] : \A q \in todo[w] : r <= q

OutboxInit ==
  /\ status = [r \in Rows |-> "absent"]
  /\ attempts = [r \in Rows |-> 0]
  /\ waiting = {}
  /\ notified = {}
  /\ at = [w \in Workers |-> "idle"]
  /\ todo = [w \in Workers |-> {}]
  /\ inserted = [w \in Workers |-> {}]
  /\ failed = [w \in Workers |-> {}]

\* A producer (workflow engine, DMS, payroll) commits rows.
Enqueue(rs) ==
  /\ \A r \in rs : status[r] = "absent"
  /\ status' = [r \in Rows |-> IF r \in rs THEN "PENDING" ELSE status[r]]
  /\ UNCHANGED <<attempts, waiting, notified, at, todo, inserted, failed>>

\* The retry delay of a row is over.
RetryDue(r) ==
  /\ r \in waiting
  /\ waiting' = waiting \ {r}
  /\ UNCHANGED <<status, attempts, notified, at, todo, inserted, failed>>

Due == {r \in Rows : status[r] = "PENDING" /\ r \notin waiting}

\* The oldest rows of a set, as many as a batch takes.
Oldest(rs) == {r \in rs : Cardinality({q \in rs : q < r}) < Limit}

\* Mutant: SELECT without FOR UPDATE SKIP LOCKED.
SelectUnlocked(w) ==
  /\ at[w] = "idle"
  /\ Due # {}
  /\ at' = [at EXCEPT ![w] = "batch"]
  /\ todo' = [todo EXCEPT ![w] = Oldest(Due)]
  /\ UNCHANGED <<inserted, failed>> /\ UNCHANGED table

SelectBatch(w) ==
  LET free == Due \ UNION {Batch(v) : v \in Workers} IN
  /\ at[w] = "idle"
  /\ free # {}
  /\ at' = [at EXCEPT ![w] = "batch"]
  /\ todo' = [todo EXCEPT ![w] = Oldest(free)]
  /\ UNCHANGED <<inserted, failed>> /\ UNCHANGED table

\* INSERT ... ON CONFLICT (outbox_id) DO NOTHING and UPDATE to SENT.
Convert(w) ==
  LET r == First(w) IN
  /\ todo[w] # {} /\ r \notin Unadaptable
  /\ todo' = [todo EXCEPT ![w] = @ \ {r}]
  /\ inserted' = [inserted EXCEPT ![w] = @ \cup {r}]
  /\ UNCHANGED <<at, failed>> /\ UNCHANGED table

\* The except branch.
CountFailure(w) ==
  LET r == First(w) IN
  /\ todo[w] # {} /\ r \in Unadaptable
  /\ todo' = [todo EXCEPT ![w] = @ \ {r}]
  /\ failed' = [failed EXCEPT ![w] = @ \cup {r}]
  /\ UNCHANGED <<at, inserted>> /\ UNCHANGED table

Exhausted(r) == attempts[r] + 1 >= MaxAttempts

EndBatch(w) ==
  /\ at' = [at EXCEPT ![w] = "idle"]
  /\ todo' = [todo EXCEPT ![w] = {}]
  /\ inserted' = [inserted EXCEPT ![w] = {}]
  /\ failed' = [failed EXCEPT ![w] = {}]

\* Mutant: failed rows are put off, but the attempt is not counted.
CommitForgetsFailures(w) ==
  /\ at[w] = "batch" /\ todo[w] = {}
  /\ status' = [r \in Rows |-> IF r \in inserted[w] THEN "SENT" ELSE status[r]]
  /\ waiting' = waiting \cup failed[w]
  /\ notified' = notified \cup inserted[w]
  /\ EndBatch(w)
  /\ UNCHANGED attempts

Commit(w) ==
  LET retry == {r \in failed[w] : ~Exhausted(r)} IN
  /\ at[w] = "batch" /\ todo[w] = {}
  /\ status' = [r \in Rows |-> IF r \in inserted[w] THEN "SENT"
                               ELSE IF r \in failed[w] \ retry THEN "FAILED" ELSE status[r]]
  /\ attempts' = [r \in Rows |-> IF r \in failed[w] THEN attempts[r] + 1 ELSE attempts[r]]
  /\ waiting' = waiting \cup retry
  /\ notified' = notified \cup inserted[w]
  /\ EndBatch(w)

\* The worker is killed, loses its connection or gets an error from the
\* server: its transaction is rolled back and it starts over.
Crash(w) ==
  /\ at[w] = "batch"
  /\ EndBatch(w)
  /\ UNCHANGED table

Work(w) == SelectBatch(w) \/ Convert(w) \/ CountFailure(w) \/ Commit(w)

Deliver ==
  \/ \E r \in Rows : RetryDue(r)
  \/ \E w \in Workers : Work(w) \/ Crash(w)

OutboxNext == Deliver \/ \E r \in Rows : Enqueue({r})

OutboxSpec == OutboxInit /\ [][OutboxNext]_outboxvars

\* A worker polls in an endless loop, time passes, and crashes and
\* server errors end.
OutboxFairness ==
  /\ \A r \in Rows : WF_outboxvars(RetryDue(r))
  /\ \A w \in Workers : WF_outboxvars(Work(w))
  /\ <>[][\A w \in Workers : ~Crash(w)]_outboxvars

OutboxLiveSpec == OutboxSpec /\ OutboxFairness

-----------------------------------------------------------------------------
(* Properties.                                                              *)

\* Once a row is settled the books agree: SENT rows and no others have a
\* notification, FAILED rows and no others have used up their attempts.
SettledRowsBalance ==
  \A r \in Rows :
    /\ r \in notified <=> status[r] = "SENT"
    /\ attempts[r] = MaxAttempts <=> status[r] = "FAILED"

\* Every enqueued row is delivered or given up after MAX_ATTEMPTS.
EveryRowSettles ==
  \A r \in Rows : status[r] = "PENDING" ~> status[r] \in {"SENT", "FAILED"}

=============================================================================
