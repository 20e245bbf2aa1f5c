----------------------------- MODULE PunchClock -----------------------------
(***************************************************************************)
(* Punching in and out of one branch, the worker that closes abandoned     *)
(* sessions, and the daily rollup both of them keep                        *)
(* (backend/app/domains/attendance/service_punching.py, service_rollup.py  *)
(* and backend/app/worker/attendance_session_worker.py).                   *)
(*                                                                         *)
(* Each punch and each worker run is one transaction: its writes are in    *)
(* the action that commits it.  A punch in takes its time first, then      *)
(* checks, then inserts; a punch out locks the open session first.  Time   *)
(* is counted in ticks, and stands for minutes as well.                    *)
(***************************************************************************)
EXTENDS Integers, Sequences, FiniteSetsExt, Functions

CONSTANTS Employees,
          Tx,            \* database sessions of the API
          Closers,       \* runs of the auto-close worker
          Keys, NoKey,   \* idempotency keys; NoKey when none is sent
          DayLength,     \* ticks from midnight to midnight
          SettingsOf,    \* punch_settings an admin may choose
          OnLeave,       \* <<employee, day>> with an ON_LEAVE override
          MaxTime,       \* bound: the clock stops
          MaxSessions    \* bound: work sessions opened

ASSUME ClockAssumption ==
  /\ DayLength \in Nat \ {0}
  /\ NoKey \notin Keys
  /\ \A c \in SettingsOf : c.max \in Nat \ {0} /\ {c.enabled, c.multiple} \subseteq BOOLEAN
  /\ MaxTime \in Nat /\ MaxSessions \in Nat

VARIABLES now,         \* the clock
          settings,    \* punch_settings: enabled, multiple, max
          sessions,    \* work_sessions, each with its punches
          daily,       \* [Employees -> [Days -> attendance_daily row or NoRow]]
          pc,          \* where each API transaction stands
          wk           \* where each worker run stands

vars == <<now, settings, sessions, daily, pc, wk>>

BusinessDate(t) == t \div DayLength
Midnight(d) == (d + 1) * DayLength
Days == 0..BusinessDate(MaxTime)

Idle == [at |-> "idle"]
NoRow == [minutes |-> 0, first |-> -1, last |-> -1, open |-> FALSE]

Ids == 1..Len(sessions)
Open(e) == {i \in Ids : sessions[i].emp = e /\ sessions[i].status = "OPEN"}

\* The unique index on (tenant, employee, idempotency key) of punches.
KeyUsed(e, k) ==
  k # NoKey /\ \E i \in Ids : sessions[i].emp = e /\ k \in {sessions[i].inKey, sessions[i].outKey}

Held(i) ==
  \/ \E t \in Tx : pc[t].at = "close" /\ pc[t].ses = i
  \/ \E w \in Closers : wk[w].at = "run" /\ i \in wk[w].held

Init ==
  /\ now = 0
  /\ settings \in SettingsOf
  /\ sessions = <<>>
  /\ daily = [e \in Employees |-> [d \in Days |-> NoRow]]
  /\ pc = [t \in Tx |-> Idle]
  /\ wk = [w \in Closers |-> Idle]

Tick ==
  /\ now < MaxTime
  /\ now' = now + 1
  /\ UNCHANGED <<settings, sessions, daily, pc, wk>>

\* update_punch_settings.
ChangeSettings ==
  /\ settings' \in SettingsOf \ {settings}
  /\ UNCHANGED <<now, sessions, daily, pc, wk>>

-----------------------------------------------------------------------------
(* punch_in.                                                                *)

\* The time of the punch is taken before anything is looked up.
PunchInBegin(t, e, k) ==
  /\ pc[t] = Idle
  /\ settings.enabled
  /\ <<e, BusinessDate(now)>> \notin OnLeave
  /\ pc' = [pc EXCEPT ![t] = [at |-> "check", emp |-> e, key |-> k, ts |-> now,
                              multiple |-> settings.multiple]]
  /\ UNCHANGED <<now, settings, sessions, daily, wk>>

\* No such key is stored, no session open, and no session was closed today if
\* only one is allowed a day.
MayPunchIn(c) ==
  /\ ~KeyUsed(c.emp, c.key)
  /\ Open(c.emp) = {}
  /\ \/ c.multiple
     \/ \A i \in Ids : ~(/\ sessions[i].emp = c.emp /\ sessions[i].status # "OPEN"
                         /\ sessions[i].day = BusinessDate(c.ts))

PunchInCheck(t) ==
  /\ pc[t].at = "check" /\ MayPunchIn(pc[t])
  /\ pc' = [pc EXCEPT ![t].at = "insert"]
  /\ UNCHANGED <<now, settings, sessions, daily, wk>>

NewSession(c) ==
  [emp |-> c.emp, day |-> BusinessDate(c.ts), start |-> c.ts, end |-> c.ts,
   status |-> "OPEN", anomaly |-> "none", inKey |-> c.key, outKey |-> NoKey, out |-> -1]

\* _upsert_daily_on_punch_in.
Presence(row, ts) ==
  [row EXCEPT !.open = TRUE, !.first = IF @ = -1 THEN ts ELSE Min({@, ts})]

\* Punch, open session and daily row are inserted and committed.
InsertSession(t) ==
  LET c == pc[t] IN
  /\ c.at = "insert" /\ ~KeyUsed(c.emp, c.key) /\ Len(sessions) < MaxSessions
  /\ sessions' = Append(sessions, NewSession(c))
  /\ daily' = [daily EXCEPT ![c.emp][BusinessDate(c.ts)] = Presence(@, c.ts)]
  /\ pc' = [pc EXCEPT ![t] = Idle]
  /\ UNCHANGED <<now, settings, wk>>

PunchInCommit(t) == pc[t].at = "insert" /\ Open(pc[t].emp) = {} /\ InsertSession(t)

-----------------------------------------------------------------------------
(* Closing a session.                                                       *)

\* Mutant: a session may cross midnight.
EndOfLongest(s, ts, max) == Min({ts, s.start + max})

\* Where a session ends that is closed at ts: not after midnight, and not
\* longer than the maximum.
EndOf(s, ts, max) == Min({ts, Midnight(s.day), s.start + max})

\* The later of the two clamps of punch_out names the anomaly.
Anomaly(s, ts, max) ==
  IF Min({ts, Midnight(s.day)}) > s.start + max THEN "SESSION_TOO_LONG"
  ELSE IF ts > Midnight(s.day) THEN "CROSSED_MIDNIGHT"
  ELSE "none"

\* Mutant: the rollup only knows the session that is being closed.
RollupOfLast(ss, e, d) ==
  LET is == {i \in DOMAIN ss : ss[i].emp = e /\ ss[i].day = d /\ ss[i].status # "OPEN"}
      s == ss[Max(is)]
  IN  [minutes |-> s.end - s.start, first |-> s.start, last |-> s.end, open |-> FALSE]

Minutes(ss) == [i \in DOMAIN ss |-> ss[i].end - ss[i].start]

\* recompute_daily, of sessions as the closing transaction sees them.
Rollup(ss, e, d) ==
  LET is == {i \in DOMAIN ss : ss[i].emp = e /\ ss[i].day = d /\ ss[i].status # "OPEN"} IN
  [minutes |-> SumFunctionOnSet(Minutes(ss), is),
   first |-> Min({ss[i].start : i \in is}),
   last |-> Max({ss[i].end : i \in is}),
   open |-> \E i \in DOMAIN ss : ss[i].emp = e /\ ss[i].status = "OPEN"]

-----------------------------------------------------------------------------
(* punch_out.                                                               *)

PunchOutBegin(t, e, k) ==
  /\ pc[t] = Idle
  /\ ~KeyUsed(e, k)
  /\ pc' = [pc EXCEPT ![t] = [at |-> "lock", emp |-> e, key |-> k]]
  /\ UNCHANGED <<now, settings, sessions, daily, wk>>

\* SELECT ... WHERE status = 'OPEN' FOR UPDATE, then the time is taken.
PunchOutLock(t) ==
  /\ pc[t].at = "lock"
  /\ \E i \in Open(pc[t].emp) :
       /\ ~Held(i)
       /\ pc' = [pc EXCEPT ![t] = [at |-> "close", emp |-> @.emp, key |-> @.key,
                                   ses |-> i, ts |-> now]]
  /\ UNCHANGED <<now, settings, sessions, daily, wk>>

CloseSession(t) ==
  LET c == pc[t]
      s == sessions[c.ses]
      closed == [s EXCEPT !.status = "CLOSED", !.end = EndOf(s, c.ts, settings.max),
                          !.anomaly = Anomaly(s, c.ts, settings.max),
                          !.outKey = c.key, !.out = c.ts]
  IN  /\ c.at = "close"
      /\ sessions' = [sessions EXCEPT ![c.ses] = closed]
      /\ daily' = [daily EXCEPT ![c.emp][s.day] = Rollup(sessions', c.emp, s.day)]
      /\ pc' = [pc EXCEPT ![t] = Idle]
      /\ UNCHANGED <<now, settings, wk>>

\* Mutant: no unique index on the idempotency key of punches.
PunchOutCommitTwice(t) == CloseSession(t)

PunchOutCommit(t) == pc[t].at = "close" /\ ~KeyUsed(pc[t].emp, pc[t].key) /\ CloseSession(t)

\* Any other error, or a crash.
Rollback(t) ==
  /\ pc[t] # Idle
  /\ pc' = [pc EXCEPT ![t] = Idle]
  /\ UNCHANGED <<now, settings, sessions, daily, wk>>

\* attendance.punch.already_in, not_in, multiple_sessions_not_allowed, or the
\* unique index on keys: the transaction ends without a change.
Refused(t) ==
  /\ \/ pc[t].at = "check" /\ ~MayPunchIn(pc[t])
     \/ pc[t].at = "insert" /\ (Open(pc[t].emp) # {} \/ KeyUsed(pc[t].emp, pc[t].key))
     \/ pc[t].at = "lock" /\ Open(pc[t].emp) = {}
     \/ pc[t].at = "close" /\ KeyUsed(pc[t].emp, pc[t].key)
  /\ Rollback(t)

-----------------------------------------------------------------------------
(* run_once of the session worker: one transaction over all open sessions.  *)

\* Mutant: sessions are only closed for their length.
ShouldAutoCloseLong(s, max) == now - s.start > max

ShouldAutoClose(s, max) == now - s.start > max \/ BusinessDate(now) > s.day

\* The open sessions are listed without a lock.
WorkerList(w) ==
  LET due == {i \in Ids : /\ sessions[i].status = "OPEN"
                          /\ ShouldAutoClose(sessions[i], settings.max)}
  IN  /\ wk[w] = Idle /\ due # {}
      /\ wk' = [wk EXCEPT ![w] = [at |-> "run", ts |-> now, max |-> settings.max,
                                  todo |-> due, held |-> {}]]
      /\ UNCHANGED <<now, settings, sessions, daily, pc>>

\* Mutant: the status is not looked at again once the row is locked.
WorkerLockStale(w) ==
  /\ wk[w].at = "run"
  /\ \E i \in wk[w].todo :
       /\ \A j \in wk[w].todo : sessions[i].start <= sessions[j].start
       /\ ~Held(i)
       /\ wk' = [wk EXCEPT ![w].todo = @ \ {i}, ![w].held = @ \cup {i}]
  /\ UNCHANGED <<now, settings, sessions, daily, pc>>

\* The oldest is locked, and skipped if it is not OPEN any more.
WorkerLock(w) ==
  /\ wk[w].at = "run"
  /\ \E i \in wk[w].todo :
       /\ \A j \in wk[w].todo : sessions[i].start <= sessions[j].start
       /\ ~Held(i)
       /\ wk' = [wk EXCEPT ![w].todo = @ \ {i},
                           ![w].held = IF sessions[i].status = "OPEN" THEN @ \cup {i} ELSE @]
  /\ UNCHANGED <<now, settings, sessions, daily, pc>>

WorkerCommit(w) ==
  LET c == wk[w] IN
  /\ c.at = "run" /\ c.todo = {}
  /\ sessions' = [i \in Ids |-> IF i \in c.held
                                THEN [sessions[i] EXCEPT !.status = "AUTO_CLOSED",
                                        !.end = EndOf(sessions[i], c.ts, c.max),
                                        !.anomaly = "MISSING_OUT"]
                                ELSE sessions[i]]
  /\ daily' = [e \in Employees |-> [d \in Days |->
                 IF \E i \in c.held : sessions[i].emp = e /\ sessions[i].day = d
                 THEN Rollup(sessions', e, d) ELSE daily[e][d]]]
  /\ wk' = [wk EXCEPT ![w] = Idle]
  /\ UNCHANGED <<now, settings, pc>>

WorkerCrash(w) ==
  /\ wk[w] # Idle
  /\ wk' = [wk EXCEPT ![w] = Idle]
  /\ UNCHANGED <<now, settings, sessions, daily, pc>>

-----------------------------------------------------------------------------
Punch(t) ==
  \/ \E e \in Employees, k \in Keys \cup {NoKey} : PunchInBegin(t, e, k) \/ PunchOutBegin(t, e, k)
  \/ PunchInCheck(t) \/ PunchInCommit(t) \/ PunchOutLock(t) \/ PunchOutCommit(t)
  \/ Refused(t)

AutoClose(w) == WorkerList(w) \/ WorkerLock(w) \/ WorkerCommit(w)

Next ==
  \/ Tick \/ ChangeSettings
  \/ \E t \in Tx : Punch(t) \/ Rollback(t)
  \/ \E w \in Closers : AutoClose(w) \/ WorkerCrash(w)

Spec == Init /\ [][Next]_vars

\* The worker is run again and again, row locks are queued for, transactions
\* go on, and from some point on nothing crashes.
Fairness ==
  /\ \A w \in Closers :
       WF_vars(WorkerList(w)) /\ SF_vars(WorkerLock(w)) /\ WF_vars(WorkerCommit(w))
  /\ \A t \in Tx : WF_vars(PunchOutCommit(t)) /\ WF_vars(Refused(t))
  /\ <>[][/\ \A t \in Tx : Rollback(t) => Refused(t)
          /\ \A w \in Closers : WorkerCrash(w) => WorkerCommit(w)]_vars

LiveSpec == Spec /\ Fairness

-----------------------------------------------------------------------------
(* Properties.                                                              *)

\* However many devices punch in at once, an employee has one open session.
OneOpenSession ==
  \A i, j \in Ids : {i, j} \subseteq Open(sessions[i].emp) => i = j

\* A retried punch counts once: no key stands for two punches of an employee.
\* In particular a late retry of a punch out never closes the next session.
OnePunchPerKey ==
  \A i, j \in Ids :
    sessions[i].emp = sessions[j].emp =>
      /\ sessions[i].inKey = sessions[j].inKey /\ i # j => sessions[i].inKey = NoKey
      /\ sessions[i].outKey = sessions[j].outKey /\ i # j => sessions[i].outKey = NoKey
      /\ sessions[i].inKey = sessions[j].outKey => sessions[i].inKey = NoKey

\* What a punch means to the employee: it opens or closes one session, once.
PunchesCountOnce == OneOpenSession /\ OnePunchPerKey

\* The daily row is what its sessions amount to, although three transactions
\* write it, one of them without recomputing it: the minutes are those of the
\* closed sessions, the open flag says whether one is open, and the first
\* punch is the earliest start.
DailyMirrorsSessions ==
  \A e \in Employees, d \in Days :
    LET mine == {i \in Ids : sessions[i].emp = e /\ sessions[i].day = d}
        closed == {i \in mine : sessions[i].status # "OPEN"}
        row == daily[e][d]
    IN  /\ row.minutes = SumFunctionOnSet(Minutes(sessions), closed)
        /\ row.open = (mine # closed)
        /\ row.first = IF mine = {} THEN -1 ELSE Min({sessions[i].start : i \in mine})
        /\ row.last = IF closed = {} THEN -1 ELSE Max({sessions[i].end : i \in closed})

\* Whoever closes a session and however late, it lies within its business
\* day, is no longer than a maximum an admin has set, and says why if it does
\* not end where the employee punched out.
SessionsWithinTheirDay ==
  \A i \in Ids :
    LET s == sessions[i] IN
    s.status # "OPEN" =>
      /\ s.start <= s.end /\ s.end <= Midnight(s.day) /\ BusinessDate(s.start) = s.day
      /\ \E c \in SettingsOf : s.end - s.start <= c.max
      /\ s.anomaly = "none" <=> s.out = s.end

\* The worker and a punch out may be after the same session; whoever commits
\* first has closed it for good.
ClosedForGood ==
  [][\A i \in Ids : sessions[i].status # "OPEN" => sessions'[i] = sessions[i]]_vars

\* A session nobody punches out of is closed once its day is over.
AbandonedSessionsClose ==
  \A i \in 1..MaxSessions :
    (i \in Ids /\ sessions[i].status = "OPEN" /\ BusinessDate(now) > sessions[i].day)
      ~> (i \in Ids /\ sessions[i].status # "OPEN")

=============================================================================
