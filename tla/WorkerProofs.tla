---------------------------- MODULE WorkerProofs ----------------------------
(***************************************************************************)
(* Proofs about what background workers share with requests and with each  *)
(* other: punches and the worker that closes sessions (PunchClock), the    *)
(* outbox and the reminders that go through it (DocumentExpiry), the jobs  *)
(* of recruitment (Recruitment).                                           *)
(***************************************************************************)
EXTENDS PunchClock, DocumentExpiry, Recruitment, DataLemmas

-----------------------------------------------------------------------------
(* PunchClock: the shape of the data.                                       *)

SessionRows ==
  [emp : Employees, day : Days, start : Nat, end : Nat,
   status : {"OPEN", "CLOSED", "AUTO_CLOSED"},
   anomaly : {"none", "SESSION_TOO_LONG", "CROSSED_MIDNIGHT", "MISSING_OUT"},
   inKey : Keys \cup {NoKey}, outKey : Keys \cup {NoKey}, out : Int]

WithinItsDay(s) ==
  /\ s.start <= s.end /\ s.end <= Midnight(s.day)
  /\ \E c \in SettingsOf : s.end - s.start <= c.max
  /\ s.anomaly = "none" <=> s.out = s.end

\* A session began in the past and on its day; it has no punch out while it is
\* open, and lies within its day once it is not.
SessionFits(s) ==
  /\ s \in SessionRows
  /\ s.start <= now /\ s.day = BusinessDate(s.start)
  /\ s.status = "OPEN" => s.outKey = NoKey /\ s.out = -1
  /\ s.status # "OPEN" => WithinItsDay(s)

PunchStates ==
  {Idle}
    \cup [at : {"check", "insert"}, emp : Employees, key : Keys \cup {NoKey}, ts : Nat,
          multiple : BOOLEAN]
    \cup [at : {"lock"}, emp : Employees, key : Keys \cup {NoKey}]
    \cup [at : {"close"}, emp : Employees, key : Keys \cup {NoKey}, ses : Nat, ts : Nat]

\* A punch took its time in the past; the session it closes is still open.
PunchStands(p) ==
  /\ p \in PunchStates
  /\ p.at \in {"check", "insert", "close"} => p.ts <= now
  /\ p.at = "close" => /\ p.ses \in Ids /\ sessions[p.ses].status = "OPEN"
                       /\ sessions[p.ses].emp = p.emp /\ sessions[p.ses].start <= p.ts

CloserStates ==
  {Idle} \cup [at : {"run"}, ts : Nat, max : Nat, todo : SUBSET Nat, held : SUBSET Nat]

\* A worker run listed sessions of its past; those it holds are still open.
CloserStands(c) ==
  /\ c \in CloserStates
  /\ c.at = "run" => /\ c.ts <= now /\ \E s \in SettingsOf : c.max = s.max
                     /\ c.todo \subseteq Ids /\ c.held \subseteq Ids
                     /\ \A i \in c.todo \cup c.held : sessions[i].start <= c.ts
                     /\ \A i \in c.held : sessions[i].status = "OPEN"

PunchHolds(p, i) == p.at = "close" /\ p.ses = i
CloserHolds(c, i) == c.at = "run" /\ i \in c.held

\* A row is locked by one transaction.
OneHolder ==
  /\ \A t, u \in Tx : \A i \in Ids : PunchHolds(pc[t], i) /\ PunchHolds(pc[u], i) => t = u
  /\ \A v, w \in Closers : \A i \in Ids : CloserHolds(wk[v], i) /\ CloserHolds(wk[w], i) => v = w
  /\ \A t \in Tx, w \in Closers : \A i \in Ids : ~(PunchHolds(pc[t], i) /\ CloserHolds(wk[w], i))

Clocked == now \in 0..MaxTime /\ settings \in SettingsOf

SessionsFit == IsASequence(sessions) /\ \A i \in Ids : SessionFits(sessions[i])

TransactionsStand ==
  /\ pc \in [Tx -> PunchStates] /\ \A t \in Tx : PunchStands(pc[t])
  /\ wk \in [Closers -> CloserStates] /\ \A w \in Closers : CloserStands(wk[w])

\* What the daily row of an employee is made of.
Mine(ss, e, d) == {i \in DOMAIN ss : ss[i].emp = e /\ ss[i].day = d}
Over(ss, e, d) == {i \in Mine(ss, e, d) : ss[i].status # "OPEN"}
RowOf(ss, e, d) ==
  [minutes |-> SumFunctionOnSet(Minutes(ss), Over(ss, e, d)),
   first |-> IF Mine(ss, e, d) = {} THEN -1 ELSE Min({ss[i].start : i \in Mine(ss, e, d)}),
   last |-> IF Over(ss, e, d) = {} THEN -1 ELSE Max({ss[i].end : i \in Over(ss, e, d)}),
   open |-> Mine(ss, e, d) # Over(ss, e, d)]

DailyStands ==
  /\ daily = [e \in Employees |-> [d \in Days |-> daily[e][d]]]
  /\ \A e \in Employees, d \in Days : daily[e][d] = RowOf(sessions, e, d)

ClockInv ==
  /\ Clocked /\ SessionsFit /\ TransactionsStand /\ OneHolder
  /\ PunchesCountOnce /\ DailyStands

-----------------------------------------------------------------------------
(* PunchClock: time.                                                        *)

\* A tick belongs to a day that has begun and is not over.
LEMMA DayOfTick ==
  ASSUME NEW t \in Nat
  PROVE  /\ BusinessDate(t) \in Nat /\ t < Midnight(BusinessDate(t))
         /\ Midnight(BusinessDate(t)) \in Nat
         /\ \A u \in Nat : t <= u => BusinessDate(t) <= BusinessDate(u)
<1>1. DayLength \in Nat \ {0} BY ClockAssumption
<1>2. t \div DayLength \in Nat BY <1>1
<1>3. t < (t \div DayLength + 1) * DayLength BY <1>1
<1>4. \A u \in Nat : t <= u => t \div DayLength <= u \div DayLength BY <1>1
<1>5. (t \div DayLength + 1) * DayLength \in Nat BY <1>1, <1>2
<1>6. QED BY <1>2, <1>3, <1>4, <1>5 DEF BusinessDate, Midnight

\* Every day the clock reaches has a daily row.
LEMMA DayHasRow ==
  ASSUME NEW t \in Nat, t <= MaxTime
  PROVE  BusinessDate(t) \in Days
<1>1. MaxTime \in Nat BY ClockAssumption
<1>2. BusinessDate(t) \in Nat /\ BusinessDate(t) <= BusinessDate(MaxTime)
  BY <1>1, DayOfTick
<1>3. BusinessDate(MaxTime) \in Nat BY <1>1, DayOfTick
<1>4. QED BY <1>2, <1>3 DEF Days

\* A session closed at a later time ends within its day and its maximum, and
\* the anomaly says whether that is where it was closed.
LEMMA EndOfFits ==
  ASSUME NEW s, s.start \in Nat, s.day = BusinessDate(s.start),
         NEW ts \in Nat, s.start <= ts, NEW max \in Nat
  PROVE  /\ EndOf(s, ts, max) \in Nat
         /\ s.start <= EndOf(s, ts, max) /\ EndOf(s, ts, max) <= Midnight(s.day)
         /\ EndOf(s, ts, max) - s.start <= max
         /\ Anomaly(s, ts, max) = "none" <=> ts = EndOf(s, ts, max)
         /\ Anomaly(s, ts, max) \in {"none", "SESSION_TOO_LONG", "CROSSED_MIDNIGHT"}
<1> PICK start, mid, long : start = s.start /\ mid = Midnight(s.day) /\ long = s.start + max
  OBVIOUS
<1>1. mid \in Nat /\ start \in Nat /\ start <= mid /\ long \in Nat /\ start <= long
  BY DayOfTick
<1> PICK end, near : end = Min({ts, mid, long}) /\ near = Min({ts, mid}) OBVIOUS
<1>2. end \in {ts, mid, long} /\ end <= ts /\ end <= mid /\ end <= long
  <2>1. {ts, mid, long} \subseteq Nat /\ {ts, mid, long} # {} BY <1>1
  <2>2. end \in {ts, mid, long} /\ \A m \in {ts, mid, long} : end <= m BY <2>1, MinIsLeast
  <2>3. QED BY <2>2
<1>3. near \in {ts, mid} /\ near <= ts /\ near <= mid
  <2>1. {ts, mid} \subseteq Nat /\ {ts, mid} # {} BY <1>1
  <2>2. near \in {ts, mid} /\ \A m \in {ts, mid} : near <= m BY <2>1, MinIsLeast
  <2>3. QED BY <2>2
<1>4. EndOf(s, ts, max) = end BY DEF EndOf
<1>5. Anomaly(s, ts, max) = IF near > long THEN "SESSION_TOO_LONG"
                            ELSE IF ts > mid THEN "CROSSED_MIDNIGHT" ELSE "none"
  BY DEF Anomaly
<1>6. (near <= long /\ ts <= mid) <=> ts = end BY <1>1, <1>2, <1>3
<1>7. end \in Nat /\ start <= end /\ end - start <= max BY <1>1, <1>2
<1>8. Anomaly(s, ts, max) = "none" <=> ts = end
  BY <1>1, <1>3, <1>5, <1>6
<1>9. Anomaly(s, ts, max) \in {"none", "SESSION_TOO_LONG", "CROSSED_MIDNIGHT"} BY <1>5
<1>10. QED BY <1>2, <1>4, <1>7, <1>8, <1>9

-----------------------------------------------------------------------------
(* PunchClock: transactions that only move.                                 *)

\* What another transaction does with the tables unchanged leaves standing.
LEMMA PunchStandsOn ==
  ASSUME NEW p, PunchStands(p), Clocked, UNCHANGED sessions, now' \in Nat, now <= now'
  PROVE  PunchStands(p)'
<1>1. p.at \in {"check", "insert", "close"} => p.ts \in Nat
  BY DEF PunchStands, PunchStates, Idle
<1>2. now \in Nat BY ClockAssumption DEF Clocked
<1>3. p \in PunchStates /\ (p.at \in {"check", "insert", "close"} => p.ts <= now')
  BY <1>1, <1>2 DEF PunchStands
<1>4. Ids' = Ids BY DEF Ids
<1>5. PunchStates' = PunchStates BY DEF PunchStates, Idle
<1>6. QED BY <1>3, <1>4, <1>5 DEF PunchStands

LEMMA CloserStandsOn ==
  ASSUME NEW c, CloserStands(c), Clocked, UNCHANGED sessions, now' \in Nat, now <= now'
  PROVE  CloserStands(c)'
<1>1. c.at = "run" => c.ts \in Nat BY DEF CloserStands, CloserStates, Idle
<1>2. now \in Nat BY ClockAssumption DEF Clocked
<1>3. c \in CloserStates /\ (c.at = "run" => c.ts <= now') BY <1>1, <1>2 DEF CloserStands
<1>4. Ids' = Ids BY DEF Ids
<1>5. QED BY <1>3, <1>4 DEF CloserStands

\* The tables keep what holds of them while only the clock goes on.
LEMMA TablesKeep ==
  ASSUME ClockInv, UNCHANGED <<sessions, daily>>, Clocked', now <= now'
  PROVE  SessionsFit' /\ PunchesCountOnce' /\ DailyStands'
<1>1. SessionsFit'
  <2>1. \A i \in Ids : SessionFits(sessions[i])'
    <3> SUFFICES ASSUME NEW i \in Ids PROVE SessionFits(sessions[i])' OBVIOUS
    <3>1. SessionFits(sessions[i]) BY DEF ClockInv, SessionsFit
    <3>2. sessions[i].start \in Nat BY <3>1 DEF SessionFits, SessionRows
    <3>3. QED BY <3>1, <3>2 DEF SessionFits, WithinItsDay, ClockInv, Clocked
  <2>2. QED BY <2>1 DEF ClockInv, SessionsFit, Ids
<1>2. PunchesCountOnce'
  BY DEF ClockInv, PunchesCountOnce, OneOpenSession, OnePunchPerKey, Open, Ids
<1>3. DailyStands' BY DEF ClockInv, DailyStands
<1>4. QED BY <1>1, <1>2, <1>3

\* An API transaction goes to state p.
PunchMove(t, p) ==
  /\ pc' = [pc EXCEPT ![t] = p]
  /\ UNCHANGED <<now, settings, sessions, daily, wk>>
  /\ PunchStands(p)
  /\ \A i \in Ids : PunchHolds(p, i) => ~Held(i)

LEMMA PunchMoveKeeps ==
  ASSUME ClockInv, NEW t \in Tx, NEW p, PunchMove(t, p)
  PROVE  ClockInv'
<1>1. pc' = [pc EXCEPT ![t] = p] /\ UNCHANGED <<now, settings, sessions, daily, wk>>
  BY DEF PunchMove
<1>2. Clocked' /\ now <= now' /\ now' \in Nat BY <1>1, ClockAssumption DEF ClockInv, Clocked
<1>3. SessionsFit' /\ PunchesCountOnce' /\ DailyStands' BY <1>1, <1>2, TablesKeep
<1>4. pc \in [Tx -> PunchStates] /\ p \in PunchStates
  BY DEF ClockInv, TransactionsStand, PunchMove, PunchStands
<1>5. TransactionsStand'
  <2>1. \A u \in Tx : PunchStands(pc'[u])
    BY <1>1, <1>4 DEF ClockInv, TransactionsStand, PunchMove
  <2>2. \A u \in Tx : PunchStands(pc[u])'
    <3> SUFFICES ASSUME NEW u \in Tx PROVE PunchStands(pc[u])' OBVIOUS
    <3> PICK q : q = pc'[u] OBVIOUS
    <3>1. PunchStands(q) BY <2>1
    <3>2. PunchStands(q)' BY <1>1, <1>2, <3>1, PunchStandsOn DEF ClockInv
    <3>3. QED BY <3>2
  <2>3. \A w \in Closers : CloserStands(wk[w])'
    <3> SUFFICES ASSUME NEW w \in Closers PROVE CloserStands(wk[w])' OBVIOUS
    <3> PICK c : c = wk[w] OBVIOUS
    <3>1. CloserStands(c) BY DEF ClockInv, TransactionsStand
    <3>2. CloserStands(c)' BY <1>1, <1>2, <3>1, CloserStandsOn DEF ClockInv
    <3>3. QED BY <1>1, <3>2
  <2>4. pc' \in [Tx -> PunchStates] /\ wk' \in [Closers -> CloserStates]
    BY <1>1, <1>4 DEF ClockInv, TransactionsStand
  <2>5. QED BY <2>2, <2>3, <2>4 DEF TransactionsStand
<1>6. OneHolder'
  <2>1. \A i \in Ids : PunchHolds(p, i) =>
          /\ \A u \in Tx : ~PunchHolds(pc[u], i)
          /\ \A w \in Closers : ~CloserHolds(wk[w], i)
    BY DEF PunchMove, Held, PunchHolds, CloserHolds
  <2>2. \A u \in Tx : pc'[u] = IF u = t THEN p ELSE pc[u] BY <1>1, <1>4
  <2>3. Ids' = Ids /\ wk' = wk BY <1>1 DEF Ids
  <2>4. \A u \in Tx : \A i \in Ids : PunchHolds(pc[u]', i) =>
          \/ u # t /\ PunchHolds(pc[u], i)
          \/ u = t /\ PunchHolds(p, i)
    BY <2>2
  <2>5. \A u, v \in Tx : \A i \in Ids : PunchHolds(pc[u]', i) /\ PunchHolds(pc[v]', i) => u = v
    BY <2>1, <2>4 DEF ClockInv, OneHolder
  <2>6. \A u \in Tx, w \in Closers : \A i \in Ids : ~(PunchHolds(pc[u]', i) /\ CloserHolds(wk[w], i))
    BY <2>1, <2>4 DEF ClockInv, OneHolder
  <2>7. QED BY <2>3, <2>5, <2>6 DEF ClockInv, OneHolder, PunchHolds, CloserHolds
<1>7. QED BY <1>2, <1>3, <1>5, <1>6 DEF ClockInv

\* A worker run goes to state c, in which it holds a row nobody held before, if
\* any that it did not hold.
CloserMove(w, c) ==
  /\ wk' = [wk EXCEPT ![w] = c]
  /\ UNCHANGED <<now, settings, sessions, daily, pc>>
  /\ CloserStands(c)
  /\ \A i \in Ids : CloserHolds(c, i) => CloserHolds(wk[w], i) \/ ~Held(i)

LEMMA CloserMoveKeeps ==
  ASSUME ClockInv, NEW w \in Closers, NEW c, CloserMove(w, c)
  PROVE  ClockInv'
<1>1. wk' = [wk EXCEPT ![w] = c] /\ UNCHANGED <<now, settings, sessions, daily, pc>>
  BY DEF CloserMove
<1>2. Clocked' /\ now <= now' /\ now' \in Nat BY <1>1, ClockAssumption DEF ClockInv, Clocked
<1>3. SessionsFit' /\ PunchesCountOnce' /\ DailyStands' BY <1>1, <1>2, TablesKeep
<1>4. wk \in [Closers -> CloserStates] /\ c \in CloserStates
  BY DEF ClockInv, TransactionsStand, CloserMove, CloserStands
<1>5. TransactionsStand'
  <2>1. \A v \in Closers : CloserStands(wk'[v])
    BY <1>1, <1>4 DEF ClockInv, TransactionsStand, CloserMove
  <2>2. \A v \in Closers : CloserStands(wk[v])'
    <3> SUFFICES ASSUME NEW v \in Closers PROVE CloserStands(wk[v])' OBVIOUS
    <3> PICK q : q = wk'[v] OBVIOUS
    <3>1. CloserStands(q) BY <2>1
    <3>2. CloserStands(q)' BY <1>1, <1>2, <3>1, CloserStandsOn DEF ClockInv
    <3>3. QED BY <3>2
  <2>3. \A t \in Tx : PunchStands(pc[t])'
    <3> SUFFICES ASSUME NEW t \in Tx PROVE PunchStands(pc[t])' OBVIOUS
    <3> PICK p : p = pc[t] OBVIOUS
    <3>1. PunchStands(p) BY DEF ClockInv, TransactionsStand
    <3>2. PunchStands(p)' BY <1>1, <1>2, <3>1, PunchStandsOn DEF ClockInv
    <3>3. QED BY <1>1, <3>2
  <2>4. pc' \in [Tx -> PunchStates] /\ wk' \in [Closers -> CloserStates]
    BY <1>1, <1>4 DEF ClockInv, TransactionsStand
  <2>5. QED BY <2>2, <2>3, <2>4 DEF TransactionsStand
<1>6. OneHolder'
  <2>1. \A i \in Ids : CloserHolds(c, i) =>
          /\ \A u \in Tx : ~PunchHolds(pc[u], i)
          /\ \A v \in Closers : v # w => ~CloserHolds(wk[v], i)
    BY DEF CloserMove, Held, PunchHolds, CloserHolds, ClockInv, OneHolder
  <2>2. \A v \in Closers : wk'[v] = IF v = w THEN c ELSE wk[v] BY <1>1, <1>4
  <2>3. Ids' = Ids /\ pc' = pc BY <1>1 DEF Ids
  <2>4. \A v \in Closers : \A i \in Ids : CloserHolds(wk[v]', i) =>
          \/ v # w /\ CloserHolds(wk[v], i)
          \/ v = w /\ CloserHolds(c, i)
    BY <2>2
  <2>5. \A u, v \in Closers : \A i \in Ids :
          CloserHolds(wk[u]', i) /\ CloserHolds(wk[v]', i) => u = v
    BY <2>1, <2>4 DEF ClockInv, OneHolder
  <2>6. \A t \in Tx, v \in Closers : \A i \in Ids :
          ~(PunchHolds(pc[t], i) /\ CloserHolds(wk[v]', i))
    BY <2>1, <2>4 DEF ClockInv, OneHolder
  <2>7. QED BY <2>3, <2>5, <2>6 DEF ClockInv, OneHolder, PunchHolds, CloserHolds
<1>7. QED BY <1>2, <1>3, <1>5, <1>6 DEF ClockInv

\* The clock goes on, or an admin changes the settings.
LEMMA ClockKeeps ==
  ASSUME ClockInv, UNCHANGED <<sessions, daily, pc, wk>>, Clocked', now <= now'
  PROVE  ClockInv'
<1>1. SessionsFit' /\ PunchesCountOnce' /\ DailyStands' BY TablesKeep
<1>2. now' \in Nat /\ Ids' = Ids BY ClockAssumption DEF Clocked, Ids
<1>3. \A t \in Tx : PunchStands(pc[t])'
  <2> SUFFICES ASSUME NEW t \in Tx PROVE PunchStands(pc[t])' OBVIOUS
  <2> PICK p : p = pc[t] OBVIOUS
  <2>1. PunchStands(p) BY DEF ClockInv, TransactionsStand
  <2>2. PunchStands(p)' BY <1>2, <2>1, PunchStandsOn DEF ClockInv
  <2>3. QED BY <2>2
<1>4. \A w \in Closers : CloserStands(wk[w])'
  <2> SUFFICES ASSUME NEW w \in Closers PROVE CloserStands(wk[w])' OBVIOUS
  <2> PICK c : c = wk[w] OBVIOUS
  <2>1. CloserStands(c) BY DEF ClockInv, TransactionsStand
  <2>2. CloserStands(c)' BY <1>2, <2>1, CloserStandsOn DEF ClockInv
  <2>3. QED BY <2>2
<1>5. TransactionsStand' BY <1>3, <1>4 DEF ClockInv, TransactionsStand
<1>6. OneHolder' BY <1>2 DEF ClockInv, OneHolder, PunchHolds, CloserHolds
<1>7. QED BY <1>1, <1>5, <1>6 DEF ClockInv

\* What a transaction that only moves may do.
LEMMA PunchesMove ==
  ASSUME ClockInv, NEW t \in Tx, NEW e \in Employees, NEW k \in Keys \cup {NoKey},
         \/ PunchInBegin(t, e, k) \/ PunchOutBegin(t, e, k) \/ PunchInCheck(t)
         \/ PunchOutLock(t) \/ Rollback(t)
  PROVE  ClockInv'
<1>1. now \in Nat /\ pc \in [Tx -> PunchStates] /\ PunchStands(pc[t])
  BY ClockAssumption DEF ClockInv, Clocked, TransactionsStand
<1>2. ASSUME NEW p, PunchMove(t, p) PROVE ClockInv' BY <1>2, PunchMoveKeeps
<1>3. CASE PunchInBegin(t, e, k)
  <2> PICK p : p = [at |-> "check", emp |-> e, key |-> k, ts |-> now, multiple |-> settings.multiple]
    OBVIOUS
  <2>1. settings.multiple \in BOOLEAN BY ClockAssumption DEF ClockInv, Clocked
  <2>2. PunchStands(p) BY <1>1, <2>1 DEF PunchStands, PunchStates
  <2>3. PunchMove(t, p) BY <1>3, <2>2 DEF PunchInBegin, PunchMove, PunchHolds
  <2>4. QED BY <1>2, <2>3
<1>4. CASE PunchOutBegin(t, e, k)
  <2> PICK p : p = [at |-> "lock", emp |-> e, key |-> k] OBVIOUS
  <2>1. PunchStands(p) BY DEF PunchStands, PunchStates
  <2>2. PunchMove(t, p) BY <1>4, <2>1 DEF PunchOutBegin, PunchMove, PunchHolds
  <2>3. QED BY <1>2, <2>2
<1>5. CASE PunchInCheck(t)
  <2> PICK c, p : c = pc[t] /\ p = [c EXCEPT !.at = "insert"] OBVIOUS
  <2>1. c.at = "check" /\ PunchStands(c) /\ pc' = [pc EXCEPT ![t] = p]
    BY <1>1, <1>5 DEF PunchInCheck
  <2>2. c \in [at : {"check", "insert"}, emp : Employees, key : Keys \cup {NoKey}, ts : Nat,
               multiple : BOOLEAN]
    BY <2>1 DEF PunchStands, PunchStates, Idle
  <2>3. /\ p \in [at : {"check", "insert"}, emp : Employees, key : Keys \cup {NoKey}, ts : Nat,
                  multiple : BOOLEAN]
        /\ p.at = "insert" /\ p.ts = c.ts
    BY <2>2
  <2>4. PunchStands(p) BY <2>1, <2>3 DEF PunchStands, PunchStates
  <2>5. PunchMove(t, p) BY <1>5, <2>1, <2>3, <2>4 DEF PunchInCheck, PunchMove, PunchHolds
  <2>6. QED BY <1>2, <2>5
<1>6. CASE PunchOutLock(t)
  <2> PICK c : c = pc[t] OBVIOUS
  <2>1. PICK i \in Open(c.emp) :
          ~Held(i) /\ pc' = [pc EXCEPT ![t] = [at |-> "close", emp |-> c.emp, key |-> c.key,
                                               ses |-> i, ts |-> now]]
    BY <1>1, <1>6 DEF PunchOutLock
  <2> PICK p : p = [at |-> "close", emp |-> c.emp, key |-> c.key, ses |-> i, ts |-> now] OBVIOUS
  <2>2. c \in [at : {"lock"}, emp : Employees, key : Keys \cup {NoKey}]
    BY <1>1, <1>6 DEF PunchStands, PunchStates, Idle, PunchOutLock
  <2>3. /\ i \in Ids /\ i \in Nat /\ sessions[i].status = "OPEN" /\ sessions[i].emp = c.emp
        /\ sessions[i].start <= now
    BY DEF Open, ClockInv, SessionsFit, SessionFits, Ids
  <2>4. PunchStands(p) BY <1>1, <2>2, <2>3 DEF PunchStands, PunchStates
  <2>5. PunchMove(t, p) BY <1>6, <2>1, <2>4 DEF PunchOutLock, PunchMove, PunchHolds
  <2>6. QED BY <1>2, <2>5
<1>7. CASE Rollback(t)
  <2>1. PunchStands(Idle) BY DEF PunchStands, PunchStates, Idle
  <2>2. PunchMove(t, Idle) BY <1>7, <2>1 DEF Rollback, PunchMove, PunchHolds, Idle
  <2>3. QED BY <1>2, <2>2
<1>8. QED BY <1>3, <1>4, <1>5, <1>6, <1>7

LEMMA ClosersMove ==
  ASSUME ClockInv, NEW w \in Closers, WorkerList(w) \/ WorkerLock(w) \/ WorkerCrash(w)
  PROVE  ClockInv'
<1>1. now \in Nat /\ wk \in [Closers -> CloserStates] /\ CloserStands(wk[w]) /\ Ids \subseteq Nat
  BY ClockAssumption DEF ClockInv, Clocked, TransactionsStand, Ids
<1>2. ASSUME NEW c, CloserMove(w, c) PROVE ClockInv' BY <1>2, CloserMoveKeeps
<1>3. CASE WorkerList(w)
  <2> PICK due : due = {i \in Ids : /\ sessions[i].status = "OPEN"
                                    /\ ShouldAutoClose(sessions[i], settings.max)}
    OBVIOUS
  <2> PICK c : c = [at |-> "run", ts |-> now, max |-> settings.max, todo |-> due, held |-> {}]
    OBVIOUS
  <2>1. settings \in SettingsOf /\ settings.max \in Nat BY ClockAssumption DEF ClockInv, Clocked
  <2>2. due \subseteq Ids /\ due \in SUBSET Nat BY <1>1
  <2>3. \A i \in due : sessions[i].start <= now
    BY <2>2 DEF ClockInv, SessionsFit, SessionFits
  <2>4. c \in CloserStates BY <1>1, <2>1, <2>2 DEF CloserStates
  <2>5. CloserStands(c) BY <1>1, <2>1, <2>2, <2>3, <2>4 DEF CloserStands
  <2>6. CloserMove(w, c) BY <1>3, <2>5 DEF WorkerList, CloserMove, CloserHolds
  <2>7. QED BY <1>2, <2>6
<1>4. CASE WorkerLock(w)
  <2> PICK b : b = wk[w] OBVIOUS
  <2>1. b \in [at : {"run"}, ts : Nat, max : Nat, todo : SUBSET Nat, held : SUBSET Nat]
    <3>1. b \in CloserStates /\ b.at = "run" BY <1>1, <1>4 DEF CloserStands, WorkerLock
    <3>2. QED BY <3>1 DEF CloserStates, Idle
  <2>2. PICK i \in b.todo :
          /\ ~Held(i)
          /\ wk' = [wk EXCEPT ![w].todo = @ \ {i},
                              ![w].held = IF sessions[i].status = "OPEN" THEN @ \cup {i} ELSE @]
    BY <1>4 DEF WorkerLock
  <2> PICK held : held = IF sessions[i].status = "OPEN" THEN b.held \cup {i} ELSE b.held OBVIOUS
  <2> PICK c : c = [at |-> "run", ts |-> b.ts, max |-> b.max, todo |-> b.todo \ {i}, held |-> held]
    OBVIOUS
  <2>3. wk' = [wk EXCEPT ![w] = c]
    <3>1. [b EXCEPT !.todo = b.todo \ {i}, !.held = held] = c
      <4> PICK left : left = b.todo \ {i} OBVIOUS
      <4>1. b = [at |-> "run", ts |-> b.ts, max |-> b.max, todo |-> b.todo, held |-> b.held]
        BY <2>1
      <4> PICK mid : mid = [at |-> "run", ts |-> b.ts, max |-> b.max, todo |-> left, held |-> b.held]
        OBVIOUS
      <4>2. mid = [b EXCEPT !.todo = left] BY <4>1
      <4>3. c = [mid EXCEPT !.held = held] BY SMTT(30)
      <4>4. [b EXCEPT !.todo = left, !.held = held] = [[b EXCEPT !.todo = left] EXCEPT !.held = held]
        OBVIOUS
      <4>5. QED BY <4>2, <4>3, <4>4
    <3>2. wk' = [wk EXCEPT ![w] = [b EXCEPT !.todo = b.todo \ {i}, !.held = held]]
      BY <1>1, <2>1, <2>2
    <3>3. QED BY <3>1, <3>2
  <2>4. /\ b.ts <= now /\ \E s \in SettingsOf : b.max = s.max
        /\ b.todo \subseteq Ids /\ b.held \subseteq Ids
        /\ \A j \in b.todo \cup b.held : sessions[j].start <= b.ts
        /\ \A j \in b.held : sessions[j].status = "OPEN"
    BY <1>1, <2>1 DEF CloserStands
  <2>5. c \in CloserStates
    <3>1. held \in SUBSET Nat /\ b.todo \ {i} \in SUBSET Nat BY <2>1
    <3>2. QED BY <2>1, <3>1 DEF CloserStates
  <2>6. CloserStands(c)
    <3>1. /\ held \subseteq Ids /\ \A j \in held : sessions[j].status = "OPEN"
          /\ \A j \in (b.todo \ {i}) \cup held : sessions[j].start <= b.ts
      BY <2>4
    <3>2. QED BY <2>4, <2>5, <3>1 DEF CloserStands
  <2>7. \A j \in Ids : CloserHolds(c, j) => CloserHolds(b, j) \/ ~Held(j)
    BY <2>1, <2>2 DEF CloserHolds
  <2>8. CloserMove(w, c) BY <1>4, <2>3, <2>6, <2>7 DEF WorkerLock, CloserMove
  <2>9. QED BY <1>2, <2>8
<1>5. CASE WorkerCrash(w)
  <2>1. CloserStands(Idle) BY DEF CloserStands, CloserStates, Idle
  <2>2. CloserMove(w, Idle) BY <1>5, <2>1 DEF WorkerCrash, CloserMove, CloserHolds, Idle
  <2>3. QED BY <1>2, <2>2
<1>6. QED BY <1>3, <1>4, <1>5

-----------------------------------------------------------------------------
(* PunchClock: daily rows.                                                  *)

\* The same sessions make the same row.
Alike(ss, tt, e, d) ==
  /\ Mine(tt, e, d) = Mine(ss, e, d)
  /\ \A i \in Mine(ss, e, d) : tt[i] = ss[i]

Finitely(ss) ==
  /\ IsFiniteSet(DOMAIN ss)
  /\ \A i \in DOMAIN ss : ss[i].start \in Nat /\ ss[i].end \in Nat

LEMMA SameSessionsSameRow ==
  ASSUME NEW ss, NEW tt, NEW e, NEW d, Finitely(ss), Finitely(tt), Alike(ss, tt, e, d)
  PROVE  RowOf(tt, e, d) = RowOf(ss, e, d)
<1> PICK mine, over : mine = Mine(ss, e, d) /\ over = Over(ss, e, d) OBVIOUS
<1>1. mine = Mine(tt, e, d) /\ \A i \in mine : tt[i] = ss[i] BY DEF Alike
<1>2. over = Over(tt, e, d) /\ over \subseteq mine BY <1>1 DEF Over
<1>3. mine \subseteq DOMAIN ss /\ mine \subseteq DOMAIN tt BY <1>1 DEF Mine
<1>4. SumFunctionOnSet(Minutes(tt), over) = SumFunctionOnSet(Minutes(ss), over)
  <2> PICK f, h : f = Minutes(ss) /\ h = Minutes(tt) OBVIOUS
  <2>1. IsFiniteSet(over) BY <1>2, <1>3, FS_Subset DEF Finitely
  <2>2. \A i \in over : f[i] \in Int /\ h[i] = f[i] BY <1>1, <1>2, <1>3 DEF Minutes, Finitely
  <2>3. SumFunctionOnSet(h, over) = SumFunctionOnSet(f, over) BY <2>1, <2>2, SumSame
  <2>4. QED BY <2>3
<1>5. {tt[i].start : i \in mine} = {ss[i].start : i \in mine} BY <1>1
<1>6. {tt[i].end : i \in over} = {ss[i].end : i \in over} BY <1>1, <1>2
<1>7. RowOf(ss, e, d) =
        [minutes |-> SumFunctionOnSet(Minutes(ss), over),
         first |-> IF mine = {} THEN -1 ELSE Min({ss[i].start : i \in mine}),
         last |-> IF over = {} THEN -1 ELSE Max({ss[i].end : i \in over}),
         open |-> mine # over]
  BY DEF RowOf
<1>8. RowOf(tt, e, d) =
        [minutes |-> SumFunctionOnSet(Minutes(tt), over),
         first |-> IF mine = {} THEN -1 ELSE Min({tt[i].start : i \in mine}),
         last |-> IF over = {} THEN -1 ELSE Max({tt[i].end : i \in over}),
         open |-> mine # over]
  BY <1>1, <1>2 DEF RowOf
<1>9. QED BY <1>4, <1>5, <1>6, <1>7, <1>8

\* With no session open any more, the rollup of a day with sessions is its row.
LEMMA RollupIsRow ==
  ASSUME NEW ss, NEW e, NEW d, Mine(ss, e, d) # {},
         \A i \in DOMAIN ss : ss[i].emp = e => ss[i].status # "OPEN"
  PROVE  Rollup(ss, e, d) = RowOf(ss, e, d)
<1> PICK mine : mine = Mine(ss, e, d) OBVIOUS
<1>1. mine = Over(ss, e, d) BY DEF Over, Mine
<1>2. mine = {i \in DOMAIN ss : ss[i].emp = e /\ ss[i].day = d /\ ss[i].status # "OPEN"}
  BY DEF Mine
<1>3. RowOf(ss, e, d) =
        [minutes |-> SumFunctionOnSet(Minutes(ss), mine),
         first |-> Min({ss[i].start : i \in mine}),
         last |-> Max({ss[i].end : i \in mine}),
         open |-> FALSE]
  BY <1>1 DEF RowOf
<1>4. ~\E i \in DOMAIN ss : ss[i].emp = e /\ ss[i].status = "OPEN" OBVIOUS
<1>5. Rollup(ss, e, d) =
        [minutes |-> SumFunctionOnSet(Minutes(ss), mine),
         first |-> Min({ss[i].start : i \in mine}),
         last |-> Max({ss[i].end : i \in mine}),
         open |-> FALSE]
  BY <1>2, <1>4 DEF Rollup
<1>6. QED BY <1>3, <1>5

\* Sessions are numbered.
LEMMA SessionsAreFinite ==
  ASSUME NEW ss, IsASequence(ss), \A i \in DOMAIN ss : ss[i].start \in Nat /\ ss[i].end \in Nat
  PROVE  DOMAIN ss = 1..Len(ss) /\ Len(ss) \in Nat /\ Finitely(ss)
<1>1. Len(ss) \in Nat /\ DOMAIN ss = 1..Len(ss) BY DEF IsASequence
<1>2. IsFiniteSet(1..Len(ss)) BY <1>1, FS_Interval
<1>3. IsFiniteSet(DOMAIN ss) BY <1>1, <1>2
<1>4. QED BY <1>1, <1>3 DEF Finitely

-----------------------------------------------------------------------------
(* PunchClock: transactions that close sessions.                            *)

\* The sessions D are closed, each with the rollup of its day.
Closes(D) ==
  /\ D \subseteq Ids
  /\ UNCHANGED <<now, settings>>
  /\ IsASequence(sessions)' /\ Ids' = Ids
  /\ \A i \in Ids \ D : sessions'[i] = sessions[i]
  /\ \A i \in D : /\ sessions[i].status = "OPEN" /\ SessionFits(sessions'[i])
                  /\ sessions'[i].status # "OPEN"
                  /\ sessions'[i].emp = sessions[i].emp /\ sessions'[i].day = sessions[i].day
                  /\ sessions'[i].start = sessions[i].start
  /\ daily' = [e \in Employees |-> [d \in Days |->
                 IF \E i \in D : sessions[i].emp = e /\ sessions[i].day = d
                 THEN Rollup(sessions', e, d) ELSE daily[e][d]]]

LEMMA ClosingKeepsTables ==
  ASSUME ClockInv, NEW D, Closes(D)
  PROVE  Clocked' /\ SessionsFit' /\ OneOpenSession' /\ DailyStands'
<1>1. /\ D \subseteq Ids /\ UNCHANGED <<now, settings>> /\ IsASequence(sessions)' /\ Ids' = Ids
      /\ \A i \in Ids \ D : sessions'[i] = sessions[i]
      /\ \A i \in D : /\ sessions[i].status = "OPEN" /\ SessionFits(sessions'[i])
                      /\ sessions'[i].status # "OPEN"
                      /\ sessions'[i].emp = sessions[i].emp /\ sessions'[i].day = sessions[i].day
                      /\ sessions'[i].start = sessions[i].start
  BY DEF Closes
<1>2. Clocked' BY <1>1 DEF ClockInv, Clocked
<1>3. SessionsFit'
  <2>1. \A i \in Ids : SessionFits(sessions'[i])
    <3>1. \A i \in Ids : SessionFits(sessions[i]) BY DEF ClockInv, SessionsFit
    <3>2. QED BY <1>1, <3>1
  <2>2. \A i \in Ids : SessionFits(sessions[i])'
    <3> SUFFICES ASSUME NEW i \in Ids PROVE SessionFits(sessions[i])' OBVIOUS
    <3> PICK s : s = sessions'[i] OBVIOUS
    <3>1. SessionFits(s) BY <2>1
    <3>2. SessionFits(s)' BY <1>1, <3>1 DEF SessionFits, SessionRows, WithinItsDay
    <3>3. QED BY <3>2
  <2>3. QED BY <1>1, <2>2 DEF SessionsFit
<1>4. \A i \in Ids : /\ sessions'[i].status = "OPEN" => sessions[i].status = "OPEN"
                     /\ sessions'[i].emp = sessions[i].emp /\ sessions'[i].day = sessions[i].day
  BY <1>1
<1>5. \A i, j \in Ids : sessions[i].status = "OPEN" /\ sessions[j].status = "OPEN"
                          /\ sessions[i].emp = sessions[j].emp => i = j
  BY DEF ClockInv, PunchesCountOnce, OneOpenSession, Open
<1>6. OneOpenSession'
  <2>1. \A i, j \in Ids : sessions'[i].status = "OPEN" /\ sessions'[j].status = "OPEN"
                            /\ sessions'[i].emp = sessions'[j].emp => i = j
    BY <1>4, <1>5
  <2>2. QED BY <1>1, <2>1 DEF OneOpenSession, Open
<1>7. /\ DOMAIN sessions = Ids /\ DOMAIN sessions' = Ids
      /\ Finitely(sessions) /\ Finitely(sessions')
  <2> PICK ss, tt : ss = sessions /\ tt = sessions' OBVIOUS
  <2>1. IsASequence(ss) /\ IsASequence(tt) BY <1>3 DEF ClockInv, SessionsFit
  <2>2. Ids = 1..Len(ss) /\ Ids' = 1..Len(tt) BY DEF Ids
  <2>3. DOMAIN ss = Ids /\ DOMAIN tt = Ids BY <1>1, <2>1, <2>2 DEF IsASequence
  <2>4. \A i \in Ids : SessionFits(ss[i]) /\ SessionFits(tt[i])'
    BY <1>1, <1>3 DEF ClockInv, SessionsFit
  <2>5. \A i \in Ids : /\ ss[i].start \in Nat /\ ss[i].end \in Nat
                       /\ tt[i].start \in Nat /\ tt[i].end \in Nat
    BY <2>4 DEF SessionFits, SessionRows
  <2>6. Finitely(ss) /\ Finitely(tt) BY <2>1, <2>3, <2>5, SessionsAreFinite
  <2>7. QED BY <2>3, <2>6
<1>8. \A e \in Employees, d \in Days : daily'[e][d] = RowOf(sessions', e, d)
  <2> SUFFICES ASSUME NEW e \in Employees, NEW d \in Days
               PROVE  daily'[e][d] = RowOf(sessions', e, d)
    OBVIOUS
  <2>1. Mine(sessions', e, d) = Mine(sessions, e, d) BY <1>4, <1>7 DEF Mine
  <2>2. CASE \E i \in D : sessions[i].emp = e /\ sessions[i].day = d
    <3>1. daily'[e][d] = Rollup(sessions', e, d) BY <2>2 DEF Closes
    <3>2. PICK i \in D : sessions[i].emp = e /\ sessions[i].day = d BY <2>2
    <3>3. i \in Mine(sessions', e, d) BY <1>1, <1>7, <2>1, <3>2 DEF Mine
    <3>4. \A j \in Ids : sessions'[j].emp = e => sessions'[j].status # "OPEN"
      BY <1>1, <1>4, <1>5, <3>2
    <3>5. Rollup(sessions', e, d) = RowOf(sessions', e, d)
      <4> PICK ss : ss = sessions' OBVIOUS
      <4>1. Rollup(ss, e, d) = RowOf(ss, e, d) BY <1>7, <3>3, <3>4, RollupIsRow
      <4>2. QED BY <4>1
    <3>6. QED BY <3>1, <3>5
  <2>3. CASE ~\E i \in D : sessions[i].emp = e /\ sessions[i].day = d
    <3>1. daily'[e][d] = daily[e][d] BY <2>3 DEF Closes
    <3>2. \A i \in Mine(sessions, e, d) : sessions'[i] = sessions[i]
      BY <1>1, <1>7, <2>3 DEF Mine
    <3>3. Alike(sessions, sessions', e, d) BY <2>1, <3>2 DEF Alike
    <3>4. RowOf(sessions', e, d) = RowOf(sessions, e, d)
      BY <1>7, <3>3, SameSessionsSameRow
    <3>5. daily[e][d] = RowOf(sessions, e, d) BY DEF ClockInv, DailyStands
    <3>6. QED BY <3>1, <3>4, <3>5
  <2>4. QED BY <2>2, <2>3
<1>9. DailyStands'
  <2>1. daily' = [e \in Employees |-> [d \in Days |-> daily'[e][d]]] BY DEF Closes
  <2>2. QED BY <1>8, <2>1 DEF DailyStands
<1>10. QED BY <1>2, <1>3, <1>6, <1>9

\* The tables grow, or sessions nobody else holds are closed: what others do
\* stands.
Continued(D) ==
  /\ Ids \subseteq Ids' /\ UNCHANGED now
  /\ \A i \in Ids : /\ sessions'[i].emp = sessions[i].emp
                    /\ sessions'[i].start = sessions[i].start
                    /\ i \notin D => sessions'[i].status = sessions[i].status

LEMMA PunchContinues ==
  ASSUME NEW D, Continued(D), NEW p, PunchStands(p), \A i \in D : ~PunchHolds(p, i)
  PROVE  PunchStands(p)'
<1>1. p \in PunchStates /\ PunchStates' = PunchStates BY DEF PunchStands, PunchStates, Idle
<1>2. p.at \in {"check", "insert", "close"} => p.ts <= now' BY DEF PunchStands, Continued
<1>3. p.at = "close" => /\ p.ses \in Ids' /\ sessions'[p.ses].status = "OPEN"
                        /\ sessions'[p.ses].emp = p.emp /\ sessions'[p.ses].start <= p.ts
  BY DEF PunchStands, Continued, PunchHolds
<1>4. QED BY <1>1, <1>2, <1>3 DEF PunchStands

LEMMA CloserContinues ==
  ASSUME NEW D, Continued(D), NEW c, CloserStands(c), \A i \in D : ~CloserHolds(c, i)
  PROVE  CloserStands(c)'
<1>1. c \in CloserStates BY DEF CloserStands
<1>2. c.at = "run" => /\ c.ts <= now' /\ \E s \in SettingsOf : c.max = s.max
                      /\ c.todo \subseteq Ids' /\ c.held \subseteq Ids'
                      /\ \A i \in c.todo \cup c.held : sessions'[i].start <= c.ts
                      /\ \A i \in c.held : sessions'[i].status = "OPEN"
  BY DEF CloserStands, Continued, CloserHolds
<1>3. QED BY <1>1, <1>2 DEF CloserStands

\* A session that is punched out of.
PunchedOut(s, end, anomaly, key, ts) ==
  [s EXCEPT !.status = "CLOSED", !.end = end, !.anomaly = anomaly, !.outKey = key, !.out = ts]

IsPunchedOut(s, r, end, anomaly, key, ts) ==
  /\ r.emp = s.emp /\ r.day = s.day /\ r.start = s.start
  /\ r.inKey = s.inKey /\ r.status = "CLOSED" /\ r.end = end
  /\ r.anomaly = anomaly /\ r.outKey = key /\ r.out = ts
  /\ r \in SessionRows

LEMMA PunchedOutRow ==
  ASSUME NEW s \in SessionRows, NEW end \in Nat,
         NEW anomaly \in {"none", "SESSION_TOO_LONG", "CROSSED_MIDNIGHT"},
         NEW key \in Keys \cup {NoKey}, NEW ts \in Nat
  PROVE  IsPunchedOut(s, PunchedOut(s, end, anomaly, key, ts), end, anomaly, key, ts)
<1>1. PICK r : r = PunchedOut(s, end, anomaly, key, ts) OBVIOUS
<1>2. PICK q : q = [s EXCEPT !.status = "CLOSED", !.end = end, !.anomaly = anomaly] OBVIOUS
<1>3. /\ q.emp = s.emp /\ q.day = s.day /\ q.start = s.start
      /\ q.inKey = s.inKey /\ q.status = "CLOSED" /\ q.end = end
      /\ q.anomaly = anomaly /\ q \in SessionRows
  BY <1>2 DEF SessionRows
<1>4. r = [q EXCEPT !.outKey = key, !.out = ts] BY <1>1, <1>2 DEF PunchedOut
<1>5. PICK q1 : q1 = [q EXCEPT !.outKey = key] OBVIOUS
<1>6. /\ q1.emp = q.emp /\ q1.day = q.day /\ q1.start = q.start
      /\ q1.inKey = q.inKey /\ q1.status = q.status /\ q1.end = q.end
      /\ q1.anomaly = q.anomaly /\ q1.outKey = key /\ q1 \in SessionRows
  BY <1>3, <1>5 DEF SessionRows
<1>7. r = [q1 EXCEPT !.out = ts] BY <1>4, <1>5
<1>8. /\ r.emp = q1.emp /\ r.day = q1.day /\ r.start = q1.start
      /\ r.inKey = q1.inKey /\ r.status = q1.status /\ r.end = q1.end
      /\ r.anomaly = q1.anomaly /\ r.outKey = q1.outKey /\ r.out = ts /\ r \in SessionRows
  BY <1>6, <1>7 DEF SessionRows
<1>9. IsPunchedOut(s, r, end, anomaly, key, ts) BY <1>3, <1>6, <1>8 DEF IsPunchedOut
<1>10. QED BY <1>1, <1>9

LEMMA PunchOutKeeps ==
  ASSUME ClockInv, NEW t \in Tx, PunchOutCommit(t)
  PROVE  ClockInv'
<1>1. PICK c, s, n, closed :
        /\ c = pc[t] /\ n = c.ses /\ s = sessions[n]
        /\ closed = PunchedOut(s, EndOf(s, c.ts, settings.max), Anomaly(s, c.ts, settings.max),
                               c.key, c.ts)
  OBVIOUS
<1>2. /\ PunchStands(c) /\ c.at = "close" /\ ~KeyUsed(c.emp, c.key)
      /\ now \in Nat /\ settings.max \in Nat /\ settings \in SettingsOf
  BY <1>1, ClockAssumption DEF ClockInv, Clocked, TransactionsStand, PunchOutCommit
<1>3. /\ c.emp \in Employees /\ c.key \in Keys \cup {NoKey} /\ c.ts \in Nat /\ c.ts <= now
      /\ n \in Ids /\ s.status = "OPEN" /\ s.emp = c.emp /\ s.start <= c.ts
  BY <1>1, <1>2 DEF PunchStands, PunchStates, Idle
<1>4. SessionFits(s) /\ s \in SessionRows /\ s.start \in Nat /\ s.start <= now
      /\ s.day = BusinessDate(s.start) /\ s.day \in Days
  BY <1>1, <1>3 DEF ClockInv, SessionsFit, SessionFits, SessionRows
<1>5. PICK end, anomaly :
        /\ closed = PunchedOut(s, end, anomaly, c.key, c.ts)
        /\ end \in Nat /\ s.start <= end /\ end <= Midnight(s.day)
        /\ end - s.start <= settings.max
        /\ anomaly = "none" <=> c.ts = end
        /\ anomaly \in {"none", "SESSION_TOO_LONG", "CROSSED_MIDNIGHT"}
  BY <1>1, <1>2, <1>3, <1>4, EndOfFits, ZenonT(40)
<1>6. /\ closed.emp = s.emp /\ closed.day = s.day /\ closed.start = s.start
      /\ closed.inKey = s.inKey /\ closed.status = "CLOSED" /\ closed.end = end
      /\ closed.anomaly = anomaly /\ closed.outKey = c.key /\ closed.out = c.ts
      /\ closed \in SessionRows
  <2>1. PICK key, ts : key = c.key /\ ts = c.ts OBVIOUS
  <2>2. key \in Keys \cup {NoKey} /\ ts \in Nat /\ closed = PunchedOut(s, end, anomaly, key, ts)
    BY <1>3, <1>5, <2>1
  <2>3. s \in SessionRows /\ end \in Nat
        /\ anomaly \in {"none", "SESSION_TOO_LONG", "CROSSED_MIDNIGHT"}
    BY <1>4, <1>5
  <2>4. IsPunchedOut(s, closed, end, anomaly, key, ts) BY <2>2, <2>3, PunchedOutRow
  <2>5. QED BY <2>1, <2>4 DEF IsPunchedOut
<1>7. SessionFits(closed)
  <2>1. WithinItsDay(closed) BY <1>2, <1>5, <1>6 DEF WithinItsDay
  <2>2. QED BY <1>4, <1>6, <2>1 DEF SessionFits
<1>8. /\ sessions' = [sessions EXCEPT ![n] = closed]
      /\ daily' = [daily EXCEPT ![c.emp][s.day] = Rollup(sessions', c.emp, s.day)]
      /\ pc' = [pc EXCEPT ![t] = Idle] /\ UNCHANGED <<now, settings, wk>>
  BY <1>1 DEF PunchOutCommit, CloseSession, PunchedOut
<1>9. /\ IsASequence(sessions)' /\ Ids' = Ids /\ sessions[n] = s
      /\ sessions'[n] = closed /\ \A i \in Ids : i # n => sessions'[i] = sessions[i]
  <2>1. PICK ss, tt : ss = sessions /\ tt = sessions' OBVIOUS
  <2>2. IsASequence(ss) /\ DOMAIN ss = 1..Len(ss) /\ tt = [ss EXCEPT ![n] = closed]
    BY <1>8, <2>1 DEF ClockInv, SessionsFit, IsASequence
  <2>3. n \in DOMAIN ss BY <1>3, <2>1, <2>2 DEF Ids
  <2>4. /\ IsASequence(tt) /\ Len(tt) = Len(ss) /\ tt[n] = closed
        /\ \A i \in DOMAIN ss : i # n => tt[i] = ss[i]
    BY <2>2, <2>3, ExceptSequence
  <2>5. QED BY <1>1, <2>1, <2>2, <2>4 DEF Ids
<1>10. Closes({n})
  <2>1. daily' = [e \in Employees |-> [d \in Days |->
                   IF \E i \in {n} : sessions[i].emp = e /\ sessions[i].day = d
                   THEN Rollup(sessions', e, d) ELSE daily[e][d]]]
    <3>1. PICK row, e0, d0 : row = Rollup(sessions', c.emp, s.day) /\ e0 = c.emp /\ d0 = s.day
      OBVIOUS
    <3>2. daily = [e \in Employees |-> [d \in Days |-> daily[e][d]]] BY DEF ClockInv, DailyStands
    <3>3. e0 \in Employees /\ d0 \in Days BY <1>3, <1>4, <3>1
    <3>4. daily' = [daily EXCEPT ![e0] = [daily[e0] EXCEPT ![d0] = row]] BY <1>8, <3>1
    <3>5. daily' = [e \in Employees |-> [d \in Days |->
                     IF e = e0 /\ d = d0 THEN row ELSE daily[e][d]]]
      BY <3>2, <3>3, <3>4
    <3>6. \A e \in Employees, d \in Days :
            (IF e = e0 /\ d = d0 THEN row ELSE daily[e][d])
              = (IF \E i \in {n} : sessions[i].emp = e /\ sessions[i].day = d
                 THEN Rollup(sessions', e, d) ELSE daily[e][d])
      BY <1>3, <1>9, <3>1
    <3>7. QED BY <3>5, <3>6
  <2>2. \A i \in {n} : /\ sessions[i].status = "OPEN" /\ SessionFits(sessions'[i])
                       /\ sessions'[i].status # "OPEN"
                       /\ sessions'[i].emp = sessions[i].emp /\ sessions'[i].day = sessions[i].day
                       /\ sessions'[i].start = sessions[i].start
    BY <1>3, <1>6, <1>7, <1>9
  <2>3. QED BY <1>3, <1>8, <1>9, <2>1, <2>2 DEF Closes
<1>11. Clocked' /\ SessionsFit' /\ OneOpenSession' /\ DailyStands' BY <1>10, ClosingKeepsTables
<1>12. OnePunchPerKey'
  <2>1. \A i \in Ids : sessions[i].emp = c.emp => c.key = NoKey \/
                         (c.key # sessions[i].inKey /\ c.key # sessions[i].outKey)
    BY <1>2 DEF KeyUsed
  <2>2. \A i \in Ids : sessions'[i].emp = sessions[i].emp /\ sessions'[i].inKey = sessions[i].inKey
    BY <1>6, <1>9
  <2>3. \A i \in Ids : sessions'[i].outKey = IF i = n THEN c.key ELSE sessions[i].outKey
    BY <1>6, <1>9
  <2>4. OnePunchPerKey BY DEF ClockInv, PunchesCountOnce
  <2>5. sessions[n].emp = c.emp BY <1>3, <1>9
  <2>6. \A i, j \in Ids : sessions'[i].emp = sessions'[j].emp =>
          /\ sessions'[i].inKey = sessions'[j].inKey /\ i # j => sessions'[i].inKey = NoKey
          /\ sessions'[i].outKey = sessions'[j].outKey /\ i # j => sessions'[i].outKey = NoKey
          /\ sessions'[i].inKey = sessions'[j].outKey => sessions'[i].inKey = NoKey
    BY <2>1, <2>2, <2>3, <2>4, <2>5 DEF OnePunchPerKey
  <2>7. QED BY <1>9, <2>6 DEF OnePunchPerKey
<1>13. Continued({n}) BY <1>6, <1>8, <1>9 DEF Continued
<1>14. PunchHolds(pc[t], n) /\ n \in Ids BY <1>1, <1>2, <1>3 DEF PunchHolds
<1>15. pc \in [Tx -> PunchStates] /\ \A u \in Tx : pc'[u] = IF u = t THEN Idle ELSE pc[u]
  BY <1>8 DEF ClockInv, TransactionsStand
<1>16. TransactionsStand'
  <2>1. ASSUME NEW u \in Tx PROVE PunchStands(pc[u])'
    <3>1. PICK q : q = pc'[u] OBVIOUS
    <3>2. CASE u = t
      <4>1. q = Idle BY <1>15, <3>1, <3>2
      <4>2. PunchStands(q)' BY <4>1 DEF PunchStands, PunchStates, Idle
      <4>3. QED BY <3>1, <4>2
    <3>3. CASE u # t
      <4>1. q = pc[u] /\ PunchStands(q) BY <1>15, <3>1, <3>3 DEF ClockInv, TransactionsStand
      <4>2. ~PunchHolds(q, n) BY <1>14, <3>3, <4>1 DEF ClockInv, OneHolder
      <4>3. PunchStands(q)' BY <1>13, <4>1, <4>2, PunchContinues
      <4>4. QED BY <3>1, <4>3
    <3>4. QED BY <3>2, <3>3
  <2>2. ASSUME NEW w \in Closers PROVE CloserStands(wk[w])'
    <3>1. PICK q : q = wk[w] OBVIOUS
    <3>2. CloserStands(q) BY <3>1 DEF ClockInv, TransactionsStand
    <3>3. ~CloserHolds(q, n) BY <1>14, <3>1 DEF ClockInv, OneHolder
    <3>4. CloserStands(q)' BY <1>13, <3>2, <3>3, CloserContinues
    <3>5. QED BY <1>8, <3>1, <3>4
  <2>3. pc' \in [Tx -> PunchStates]
    <3>1. Idle \in PunchStates BY DEF PunchStates
    <3>2. QED BY <1>8, <1>15, <3>1
  <2>4. wk' \in [Closers -> CloserStates] BY <1>8 DEF ClockInv, TransactionsStand
  <2>5. QED BY <2>1, <2>2, <2>3, <2>4 DEF TransactionsStand
<1>17. OneHolder'
  <2>1. \A u \in Tx : \A i \in Ids : PunchHolds(pc'[u], i) => PunchHolds(pc[u], i)
    BY <1>15 DEF PunchHolds, Idle
  <2>2. wk' = wk /\ Ids' = Ids BY <1>8, <1>9
  <2>3. \A u, v \in Tx : \A i \in Ids : PunchHolds(pc'[u], i) /\ PunchHolds(pc'[v], i) => u = v
    BY <2>1 DEF ClockInv, OneHolder
  <2>4. \A u \in Tx, w \in Closers : \A i \in Ids : ~(PunchHolds(pc'[u], i) /\ CloserHolds(wk[w], i))
    BY <2>1 DEF ClockInv, OneHolder
  <2>5. QED BY <2>2, <2>3, <2>4 DEF ClockInv, OneHolder, PunchHolds, CloserHolds
<1>18. QED BY <1>11, <1>12, <1>16, <1>17 DEF ClockInv, PunchesCountOnce

LEMMA WorkerCommitKeeps ==
  ASSUME ClockInv, NEW w \in Closers, WorkerCommit(w)
  PROVE  ClockInv'
<1>1. PICK c, held : c = wk[w] /\ held = c.held OBVIOUS
<1>2. /\ CloserStands(c) /\ c.at = "run" /\ now \in Nat /\ Ids \subseteq Nat
      /\ wk \in [Closers -> CloserStates]
  <2>1. c.at = "run" BY <1>1 DEF WorkerCommit
  <2>2. QED BY <1>1, <2>1, ClockAssumption DEF ClockInv, Clocked, TransactionsStand, Ids
<1>3. /\ c.ts \in Nat /\ c.max \in Nat /\ c.ts <= now /\ \E s \in SettingsOf : c.max = s.max
      /\ held \subseteq Ids
      /\ \A i \in held : sessions[i].status = "OPEN" /\ sessions[i].start <= c.ts
  BY <1>1, <1>2 DEF CloserStands, CloserStates, Idle
<1> DEFINE closed(i) == [sessions[i] EXCEPT !.status = "AUTO_CLOSED",
                           !.end = EndOf(sessions[i], c.ts, c.max), !.anomaly = "MISSING_OUT"]
<1>4. ASSUME NEW i \in held
      PROVE  /\ SessionFits(closed(i)) /\ closed(i).status = "AUTO_CLOSED"
             /\ closed(i).emp = sessions[i].emp /\ closed(i).day = sessions[i].day
             /\ closed(i).start = sessions[i].start /\ closed(i).inKey = sessions[i].inKey
             /\ closed(i).outKey = sessions[i].outKey
  <2> PICK s, end, r : s = sessions[i] /\ end = EndOf(s, c.ts, c.max) /\ r = closed(i) OBVIOUS
  <2>1. /\ SessionFits(s) /\ s \in SessionRows /\ s.start \in Nat /\ s.start <= now
        /\ s.day = BusinessDate(s.start) /\ s.status = "OPEN" /\ s.start <= c.ts /\ s.out = -1
    BY <1>3 DEF ClockInv, SessionsFit, SessionFits, SessionRows
  <2>2. /\ end \in Nat /\ s.start <= end /\ end <= Midnight(s.day) /\ end - s.start <= c.max
    BY <1>3, <2>1, EndOfFits
  <2>3. r = [s EXCEPT !.status = "AUTO_CLOSED", !.end = end, !.anomaly = "MISSING_OUT"] OBVIOUS
  <2> HIDE DEF closed
  <2>4. /\ r.emp = s.emp /\ r.day = s.day /\ r.start = s.start
        /\ r.inKey = s.inKey /\ r.status = "AUTO_CLOSED" /\ r.end = end
        /\ r.anomaly = "MISSING_OUT" /\ r.outKey = s.outKey /\ r.out = s.out
        /\ r \in SessionRows
    BY <2>1, <2>2, <2>3 DEF SessionRows
  <2>5. s.out # end BY <2>1, <2>2
  <2>6. WithinItsDay(r) BY <1>3, <2>2, <2>4, <2>5 DEF WithinItsDay
  <2>7. SessionFits(r) BY <2>1, <2>4, <2>6 DEF SessionFits
  <2>8. QED BY <2>4, <2>7
<1>5. /\ sessions' = [i \in Ids |-> IF i \in held THEN closed(i) ELSE sessions[i]]
      /\ daily' = [e \in Employees |-> [d \in Days |->
           IF \E i \in held : sessions[i].emp = e /\ sessions[i].day = d
           THEN Rollup(sessions', e, d) ELSE daily[e][d]]]
      /\ wk' = [wk EXCEPT ![w] = Idle] /\ UNCHANGED <<now, settings, pc>>
  BY <1>1 DEF WorkerCommit
<1> HIDE DEF closed
<1>6. /\ IsASequence(sessions)' /\ Ids' = Ids
      /\ \A i \in Ids \ held : sessions'[i] = sessions[i]
      /\ \A i \in held : sessions'[i] = closed(i)
  <2>1. PICK ss, tt : ss = sessions /\ tt = sessions' OBVIOUS
  <2>2. Len(ss) \in Nat /\ Ids = 1..Len(ss) BY <2>1 DEF ClockInv, SessionsFit, IsASequence, Ids
  <2>3. DOMAIN tt = 1..Len(ss) /\ tt = [i \in 1..Len(ss) |-> tt[i]] BY <1>5, <2>1, <2>2
  <2>4. IsASequence(tt) BY <2>2, <2>3, SequenceIsFunction
  <2>5. Len(tt) = Len(ss)
    <3>1. DOMAIN tt = 1..Len(tt) /\ Len(tt) \in Nat BY <2>4 DEF IsASequence
    <3>2. QED BY <2>2, <2>3, <3>1
  <2>6. QED BY <1>3, <1>5, <2>1, <2>2, <2>4, <2>5 DEF Ids
<1>7. Closes(held)
  <2>1. \A i \in held : /\ sessions[i].status = "OPEN" /\ SessionFits(sessions'[i])
                        /\ sessions'[i].status # "OPEN"
                        /\ sessions'[i].emp = sessions[i].emp /\ sessions'[i].day = sessions[i].day
                        /\ sessions'[i].start = sessions[i].start
    <3> SUFFICES ASSUME NEW i \in held
                 PROVE  /\ sessions[i].status = "OPEN" /\ SessionFits(sessions'[i])
                        /\ sessions'[i].status # "OPEN"
                        /\ sessions'[i].emp = sessions[i].emp /\ sessions'[i].day = sessions[i].day
                        /\ sessions'[i].start = sessions[i].start
      OBVIOUS
    <3>1. sessions'[i] = closed(i) BY <1>6
    <3>2. QED BY <1>3, <1>4, <3>1
  <2>2. QED BY <1>3, <1>5, <1>6, <2>1 DEF Closes
<1>8. Clocked' /\ SessionsFit' /\ OneOpenSession' /\ DailyStands' BY <1>7, ClosingKeepsTables
<1>9. OnePunchPerKey'
  <2>1. \A i \in Ids : /\ sessions'[i].emp = sessions[i].emp
                       /\ sessions'[i].inKey = sessions[i].inKey
                       /\ sessions'[i].outKey = sessions[i].outKey
    <3> SUFFICES ASSUME NEW i \in Ids
                 PROVE  /\ sessions'[i].emp = sessions[i].emp
                        /\ sessions'[i].inKey = sessions[i].inKey
                        /\ sessions'[i].outKey = sessions[i].outKey
      OBVIOUS
    <3>1. CASE i \in held
      <4>1. sessions'[i] = closed(i) BY <1>6, <3>1
      <4>2. QED BY <1>4, <3>1, <4>1
    <3>2. CASE i \notin held BY <1>6, <3>2
    <3>3. QED BY <3>1, <3>2
  <2>2. OnePunchPerKey BY DEF ClockInv, PunchesCountOnce
  <2>3. QED BY <1>6, <2>1, <2>2 DEF OnePunchPerKey
<1>10. Continued(held)
  <2>1. \A i \in held : sessions'[i].emp = sessions[i].emp /\ sessions'[i].start = sessions[i].start
    BY <1>7 DEF Closes
  <2>2. QED BY <1>5, <1>6, <2>1 DEF Continued
<1>11. \A i \in held : CloserHolds(wk[w], i) /\ i \in Ids BY <1>1, <1>2, <1>3 DEF CloserHolds
<1>12. \A v \in Closers : wk'[v] = IF v = w THEN Idle ELSE wk[v] BY <1>2, <1>5
<1>13. TransactionsStand'
  <2>1. ASSUME NEW u \in Tx PROVE PunchStands(pc[u])'
    <3>1. PICK q : q = pc[u] OBVIOUS
    <3>2. PunchStands(q) BY <3>1 DEF ClockInv, TransactionsStand
    <3>3. \A i \in held : ~PunchHolds(q, i) BY <1>11, <3>1 DEF ClockInv, OneHolder
    <3>4. PunchStands(q)' BY <1>10, <3>2, <3>3, PunchContinues
    <3>5. QED BY <1>5, <3>1, <3>4
  <2>2. ASSUME NEW v \in Closers PROVE CloserStands(wk[v])'
    <3>1. PICK q : q = wk'[v] OBVIOUS
    <3>2. CASE v = w
      <4>1. q = Idle BY <1>12, <3>1, <3>2
      <4>2. CloserStands(q)' BY <4>1 DEF CloserStands, CloserStates, Idle
      <4>3. QED BY <3>1, <4>2
    <3>3. CASE v # w
      <4>1. q = wk[v] /\ CloserStands(q) BY <1>12, <3>1, <3>3 DEF ClockInv, TransactionsStand
      <4>2. \A i \in held : ~CloserHolds(q, i) BY <1>11, <3>3, <4>1 DEF ClockInv, OneHolder
      <4>3. CloserStands(q)' BY <1>10, <4>1, <4>2, CloserContinues
      <4>4. QED BY <3>1, <4>3
    <3>4. QED BY <3>2, <3>3
  <2>3. wk' \in [Closers -> CloserStates]
    <3>1. Idle \in CloserStates BY DEF CloserStates
    <3>2. QED BY <1>2, <1>5, <3>1
  <2>4. pc' \in [Tx -> PunchStates] BY <1>5 DEF ClockInv, TransactionsStand
  <2>5. QED BY <2>1, <2>2, <2>3, <2>4 DEF TransactionsStand
<1>14. OneHolder'
  <2>1. \A v \in Closers : \A i \in Ids : CloserHolds(wk'[v], i) => CloserHolds(wk[v], i)
    BY <1>12 DEF CloserHolds, Idle
  <2>2. pc' = pc /\ Ids' = Ids BY <1>5, <1>6
  <2>3. \A u, v \in Closers : \A i \in Ids :
          CloserHolds(wk'[u], i) /\ CloserHolds(wk'[v], i) => u = v
    BY <2>1 DEF ClockInv, OneHolder
  <2>4. \A t \in Tx, v \in Closers : \A i \in Ids :
          ~(PunchHolds(pc[t], i) /\ CloserHolds(wk'[v], i))
    BY <2>1 DEF ClockInv, OneHolder
  <2>5. QED BY <2>2, <2>3, <2>4 DEF ClockInv, OneHolder, PunchHolds, CloserHolds
<1>15. QED BY <1>8, <1>9, <1>13, <1>14 DEF ClockInv, PunchesCountOnce

-----------------------------------------------------------------------------
(* PunchClock: a punch in.                                                  *)

\* With one open session more, which is the only one of the employee, the
\* daily row shows a presence and counts no minutes.
LEMMA PresenceIsRow ==
  ASSUME NEW ss, NEW tt, Finitely(ss), NEW n, n \notin DOMAIN ss,
         NEW e, NEW d, NEW ts \in Nat,
         DOMAIN tt = DOMAIN ss \cup {n}, \A i \in DOMAIN ss : tt[i] = ss[i],
         tt[n].emp = e, tt[n].day = d, tt[n].start = ts, tt[n].end \in Nat, tt[n].status = "OPEN"
  PROVE  Presence(RowOf(ss, e, d), ts) = RowOf(tt, e, d)
<1>1. PICK mine, over, starts, more :
        /\ mine = Mine(ss, e, d) /\ over = Over(ss, e, d)
        /\ starts = {ss[i].start : i \in mine} /\ more = {tt[i].start : i \in mine \cup {n}}
  OBVIOUS
<1>2. mine \subseteq DOMAIN ss /\ over \subseteq mine /\ n \notin mine BY <1>1 DEF Mine, Over
<1>3. Mine(tt, e, d) = mine \cup {n} /\ Over(tt, e, d) = over BY <1>1 DEF Mine, Over
<1>4. more = starts \cup {ts} BY <1>1, <1>2
<1>5. starts \subseteq Nat BY <1>1, <1>2 DEF Finitely
<1>6. PICK minutes, last, first :
        /\ minutes = SumFunctionOnSet(Minutes(ss), over)
        /\ last = (IF over = {} THEN -1 ELSE Max({ss[i].end : i \in over}))
        /\ first = (IF mine = {} THEN -1 ELSE Min(starts))
  OBVIOUS
<1>7. SumFunctionOnSet(Minutes(tt), over) = minutes
  <2>1. PICK f, h : f = Minutes(ss) /\ h = Minutes(tt) OBVIOUS
  <2>2. IsFiniteSet(over) BY <1>2, FS_Subset DEF Finitely
  <2>3. \A i \in over : f[i] \in Int /\ h[i] = f[i] BY <1>2, <2>1 DEF Minutes, Finitely
  <2>4. SumFunctionOnSet(h, over) = SumFunctionOnSet(f, over) BY <2>2, <2>3, SumSame
  <2>5. QED BY <1>6, <2>1, <2>4
<1>8. {tt[i].end : i \in over} = {ss[i].end : i \in over} BY <1>2
<1>9. RowOf(tt, e, d) = [minutes |-> minutes, first |-> Min(more), last |-> last, open |-> TRUE]
  <2>1. mine \cup {n} # {} /\ mine \cup {n} # over BY <1>2
  <2>2. RowOf(tt, e, d) =
          [minutes |-> SumFunctionOnSet(Minutes(tt), over),
           first |-> IF mine \cup {n} = {} THEN -1 ELSE Min({tt[i].start : i \in mine \cup {n}}),
           last |-> IF over = {} THEN -1 ELSE Max({tt[i].end : i \in over}),
           open |-> mine \cup {n} # over]
    BY <1>3 DEF RowOf
  <2>3. QED BY <1>1, <1>6, <1>7, <1>8, <2>1, <2>2
<1>10. PICK open : RowOf(ss, e, d) = [minutes |-> minutes, first |-> first, last |-> last, open |-> open]
  BY <1>1, <1>6 DEF RowOf
<1>11. PICK next : next = (IF first = -1 THEN ts ELSE Min({first, ts})) OBVIOUS
<1>12. Presence(RowOf(ss, e, d), ts)
         = [minutes |-> minutes, first |-> next, last |-> last, open |-> TRUE]
  <2>1. PICK row : row = [minutes |-> minutes, first |-> first, last |-> last, open |-> open]
    OBVIOUS
  <2>2. [row EXCEPT !.open = TRUE, !.first = next]
          = [minutes |-> minutes, first |-> next, last |-> last, open |-> TRUE]
    <3>1. PICK shown : shown = [row EXCEPT !.open = TRUE] OBVIOUS
    <3>2. shown = [minutes |-> minutes, first |-> first, last |-> last, open |-> TRUE]
      BY <2>1, <3>1
    <3>3. PICK new : new = [shown EXCEPT !.first = next] OBVIOUS
    <3>4. new = [minutes |-> minutes, first |-> next, last |-> last, open |-> TRUE]
      BY <3>2, <3>3
    <3>5. [row EXCEPT !.open = TRUE, !.first = next]
            = [[row EXCEPT !.open = TRUE] EXCEPT !.first = next]
      OBVIOUS
    <3>6. QED BY <3>1, <3>3, <3>4, <3>5
  <2>3. Presence(row, ts) = [row EXCEPT !.open = TRUE, !.first = next]
    BY <1>11, <2>1 DEF Presence
  <2>4. QED BY <1>10, <2>1, <2>2, <2>3
<1>13. next = Min(more)
  <2>1. CASE mine = {}
    <3>1. first = -1 /\ starts = {} BY <1>1, <1>6, <2>1
    <3>2. more = {ts} BY <1>4, <3>1
    <3>3. Min({ts}) = ts BY MinIsLeast
    <3>4. QED BY <1>11, <3>1, <3>2, <3>3
  <2>2. CASE mine # {}
    <3>1. starts # {} BY <1>1, <2>2
    <3>2. first = Min(starts) /\ first \in Nat BY <1>5, <1>6, <2>2, <3>1, MinIsLeast
    <3>3. Min(starts \cup {ts}) = Min({Min(starts), ts}) BY <1>5, <3>1, LeastWithOneMore
    <3>4. QED BY <1>4, <1>11, <3>2, <3>3
  <2>3. QED BY <2>1, <2>2
<1>14. QED BY <1>9, <1>12, <1>13

LEMMA PunchInKeeps ==
  ASSUME ClockInv, NEW t \in Tx, PunchInCommit(t)
  PROVE  ClockInv'
<1>1. PICK c, s, n, d :
        c = pc[t] /\ s = NewSession(c) /\ n = Len(sessions) + 1 /\ d = BusinessDate(c.ts)
  OBVIOUS
<1>2. /\ c.at = "insert" /\ PunchStands(c) /\ ~KeyUsed(c.emp, c.key) /\ Open(c.emp) = {}
      /\ now \in Nat /\ now <= MaxTime /\ pc \in [Tx -> PunchStates]
  <2>1. c.at = "insert" /\ ~KeyUsed(c.emp, c.key) /\ Open(c.emp) = {}
    BY <1>1 DEF PunchInCommit, InsertSession
  <2>2. QED BY <1>1, <2>1, ClockAssumption DEF ClockInv, Clocked, TransactionsStand
<1>3. c.emp \in Employees /\ c.key \in Keys \cup {NoKey} /\ c.ts \in Nat /\ c.ts <= now
  BY <1>2 DEF PunchStands, PunchStates, Idle
<1>4. d \in Days
  <2>1. c.ts <= MaxTime BY <1>2, <1>3, ClockAssumption
  <2>2. QED BY <1>1, <1>3, <2>1, DayHasRow
<1>5. /\ s.emp = c.emp /\ s.day = d /\ s.start = c.ts /\ s.end = c.ts /\ s.status = "OPEN"
      /\ s.inKey = c.key /\ s.outKey = NoKey /\ s.out = -1 /\ s \in SessionRows
  BY <1>1, <1>3, <1>4 DEF NewSession, SessionRows
<1>6. SessionFits(s) BY <1>1, <1>3, <1>5 DEF SessionFits
<1>7. /\ sessions' = Append(sessions, s)
      /\ daily' = [daily EXCEPT ![c.emp][d] = Presence(daily[c.emp][d], c.ts)]
      /\ pc' = [pc EXCEPT ![t] = Idle] /\ UNCHANGED <<now, settings, wk>>
  BY <1>1 DEF PunchInCommit, InsertSession
<1>8. /\ IsASequence(sessions)' /\ Ids' = Ids \cup {n} /\ n \notin Ids
      /\ sessions'[n] = s /\ \A i \in Ids : sessions'[i] = sessions[i]
      /\ DOMAIN sessions = Ids /\ DOMAIN sessions' = Ids' /\ IsFiniteSet(Ids)
  <2>1. PICK ss, tt : ss = sessions /\ tt = sessions' OBVIOUS
  <2>2. IsASequence(ss) /\ tt = Append(ss, s) BY <1>7, <2>1 DEF ClockInv, SessionsFit
  <2>3. /\ IsASequence(tt)
        /\ Len(ss) \in Nat /\ DOMAIN ss = 1..Len(ss) /\ Len(tt) = Len(ss) + 1
        /\ DOMAIN tt = DOMAIN ss \cup {Len(ss) + 1} /\ Len(ss) + 1 \notin DOMAIN ss
        /\ tt[Len(ss) + 1] = s /\ \A i \in DOMAIN ss : tt[i] = ss[i]
    BY <2>2, AppendSequence
  <2>4. n = Len(ss) + 1 BY <1>1, <2>1
  <2>5. Ids = DOMAIN ss /\ Ids' = 1..Len(tt) BY <2>1, <2>3 DEF Ids
  <2>6. Ids' = DOMAIN tt BY <2>3, <2>5
  <2>7. IsFiniteSet(1..Len(ss)) BY <2>3, FS_Interval
  <2>8. QED BY <2>1, <2>3, <2>4, <2>5, <2>6, <2>7
<1>9. Clocked' BY <1>7 DEF ClockInv, Clocked
<1>10. SessionsFit'
  <2>1. \A i \in Ids' : SessionFits(sessions'[i])
    BY <1>6, <1>8 DEF ClockInv, SessionsFit
  <2>2. ASSUME NEW i \in Ids' PROVE SessionFits(sessions[i])'
    <3>1. PICK r : r = sessions'[i] OBVIOUS
    <3>2. SessionFits(r) BY <2>1, <2>2, <3>1
    <3>3. SessionFits(r)' BY <1>7, <3>2 DEF SessionFits, SessionRows, WithinItsDay
    <3>4. QED BY <3>1, <3>3
  <2>3. QED BY <1>8, <2>2 DEF SessionsFit
<1>11. OneOpenSession'
  <2>1. \A i \in Ids : sessions[i].emp = c.emp => sessions[i].status # "OPEN" BY <1>2 DEF Open
  <2>2. \A i, j \in Ids : sessions[i].status = "OPEN" /\ sessions[j].status = "OPEN"
                            /\ sessions[i].emp = sessions[j].emp => i = j
    BY DEF ClockInv, PunchesCountOnce, OneOpenSession, Open
  <2>3. \A i, j \in Ids' : sessions'[i].status = "OPEN" /\ sessions'[j].status = "OPEN"
                             /\ sessions'[i].emp = sessions'[j].emp => i = j
    BY <1>5, <1>8, <2>1, <2>2
  <2>4. QED BY <2>3 DEF OneOpenSession, Open
<1>12. OnePunchPerKey'
  <2>1. \A i \in Ids : sessions[i].emp = c.emp => c.key = NoKey \/
                         (c.key # sessions[i].inKey /\ c.key # sessions[i].outKey)
    BY <1>2 DEF KeyUsed
  <2>2. OnePunchPerKey BY DEF ClockInv, PunchesCountOnce
  <2>3. \A i, j \in Ids' : sessions'[i].emp = sessions'[j].emp =>
          /\ sessions'[i].inKey = sessions'[j].inKey /\ i # j => sessions'[i].inKey = NoKey
          /\ sessions'[i].outKey = sessions'[j].outKey /\ i # j => sessions'[i].outKey = NoKey
          /\ sessions'[i].inKey = sessions'[j].outKey => sessions'[i].inKey = NoKey
    <3> SUFFICES ASSUME NEW i \in Ids', NEW j \in Ids', sessions'[i].emp = sessions'[j].emp
                 PROVE  /\ sessions'[i].inKey = sessions'[j].inKey /\ i # j => sessions'[i].inKey = NoKey
                        /\ sessions'[i].outKey = sessions'[j].outKey /\ i # j => sessions'[i].outKey = NoKey
                        /\ sessions'[i].inKey = sessions'[j].outKey => sessions'[i].inKey = NoKey
      OBVIOUS
    <3>1. CASE i \in Ids /\ j \in Ids
      <4>1. sessions'[i] = sessions[i] /\ sessions'[j] = sessions[j] BY <1>8, <3>1
      <4>2. QED BY <2>2, <3>1, <4>1 DEF OnePunchPerKey
    <3>2. CASE i \in Ids /\ j = n
      <4>1. sessions'[i] = sessions[i] /\ sessions'[j] = s BY <1>8, <3>2
      <4>2. QED BY <1>5, <2>1, <3>2, <4>1
    <3>3. CASE i = n /\ j \in Ids
      <4>1. sessions'[j] = sessions[j] /\ sessions'[i] = s BY <1>8, <3>3
      <4>2. QED BY <1>5, <2>1, <3>3, <4>1
    <3>4. CASE i = n /\ j = n
      <4>1. sessions'[i] = s /\ sessions'[j] = s BY <1>8, <3>4
      <4>2. QED BY <1>5, <3>4, <4>1
    <3>5. QED BY <1>8, <3>1, <3>2, <3>3, <3>4
  <2>4. QED BY <2>3 DEF OnePunchPerKey
<1>13. DailyStands'
  <2>1. PICK ss, tt, e0, row :
          ss = sessions /\ tt = sessions' /\ e0 = c.emp /\ row = Presence(daily[c.emp][d], c.ts)
    OBVIOUS
  <2>2. /\ Finitely(ss) /\ Finitely(tt) /\ n \notin DOMAIN ss
        /\ DOMAIN tt = DOMAIN ss \cup {n} /\ \A i \in DOMAIN ss : tt[i] = ss[i]
    <3>1. \A i \in Ids : ss[i].start \in Nat /\ ss[i].end \in Nat
      BY <2>1 DEF ClockInv, SessionsFit, SessionFits, SessionRows
    <3>2. IsFiniteSet(Ids \cup {n}) BY <1>8, FS_AddElement
    <3>3. QED BY <1>3, <1>5, <1>8, <2>1, <3>1, <3>2 DEF Finitely
  <2>3. row = RowOf(tt, e0, d)
    <3>1. row = Presence(RowOf(ss, e0, d), c.ts) BY <1>3, <1>4, <2>1 DEF ClockInv, DailyStands
    <3>2. PICK ts : ts = c.ts OBVIOUS
    <3>3. /\ tt[n].emp = e0 /\ tt[n].day = d /\ tt[n].start = ts /\ tt[n].end \in Nat
          /\ tt[n].status = "OPEN" /\ ts \in Nat
      BY <1>3, <1>5, <1>8, <2>1, <3>2
    <3>4. Presence(RowOf(ss, e0, d), ts) = RowOf(tt, e0, d) BY <2>2, <3>3, PresenceIsRow
    <3>5. QED BY <3>1, <3>2, <3>4
  <2>4. daily' = [e \in Employees |-> [b \in Days |->
                   IF e = e0 /\ b = d THEN row ELSE daily[e][b]]]
    <3>1. daily = [e \in Employees |-> [b \in Days |-> daily[e][b]]] BY DEF ClockInv, DailyStands
    <3>2. e0 \in Employees BY <1>3, <2>1
    <3>3. daily' = [daily EXCEPT ![e0] = [daily[e0] EXCEPT ![d] = row]] BY <1>7, <2>1
    <3>4. QED BY <1>4, <3>1, <3>2, <3>3
  <2>5. \A e \in Employees, b \in Days : daily'[e][b] = RowOf(tt, e, b)
    <3> SUFFICES ASSUME NEW e \in Employees, NEW b \in Days PROVE daily'[e][b] = RowOf(tt, e, b)
      OBVIOUS
    <3>1. CASE e = e0 /\ b = d BY <2>3, <2>4, <3>1
    <3>2. CASE ~(e = e0 /\ b = d)
      <4>1. tt[n].emp = e0 /\ tt[n].day = d BY <1>5, <1>8, <2>1
      <4>2. Alike(ss, tt, e, b) BY <2>2, <3>2, <4>1 DEF Alike, Mine
      <4>3. RowOf(tt, e, b) = RowOf(ss, e, b) BY <2>2, <4>2, SameSessionsSameRow
      <4>4. daily[e][b] = RowOf(ss, e, b) BY <2>1 DEF ClockInv, DailyStands
      <4>5. daily'[e][b] = daily[e][b] BY <2>4, <3>2
      <4>6. QED BY <4>3, <4>4, <4>5
    <3>3. QED BY <3>1, <3>2
  <2>6. daily' = [e \in Employees |-> [b \in Days |-> daily'[e][b]]] BY <2>4
  <2>7. QED BY <2>1, <2>5, <2>6 DEF DailyStands
<1>14. Continued({}) BY <1>7, <1>8 DEF Continued
<1>15. \A u \in Tx : pc'[u] = IF u = t THEN Idle ELSE pc[u] BY <1>2, <1>7
<1>16. TransactionsStand'
  <2>1. ASSUME NEW u \in Tx PROVE PunchStands(pc[u])'
    <3>1. PICK q : q = pc'[u] OBVIOUS
    <3>2. CASE u = t
      <4>1. q = Idle BY <1>15, <3>1, <3>2
      <4>2. PunchStands(q)' BY <4>1 DEF PunchStands, PunchStates, Idle
      <4>3. QED BY <3>1, <4>2
    <3>3. CASE u # t
      <4>1. q = pc[u] /\ PunchStands(q) BY <1>15, <3>1, <3>3 DEF ClockInv, TransactionsStand
      <4>2. PunchStands(q)' BY <1>14, <4>1, PunchContinues
      <4>3. QED BY <3>1, <4>2
    <3>4. QED BY <3>2, <3>3
  <2>2. ASSUME NEW w \in Closers PROVE CloserStands(wk[w])'
    <3>1. PICK q : q = wk[w] OBVIOUS
    <3>2. CloserStands(q) BY <3>1 DEF ClockInv, TransactionsStand
    <3>3. CloserStands(q)' BY <1>14, <3>2, CloserContinues
    <3>4. QED BY <1>7, <3>1, <3>3
  <2>3. pc' \in [Tx -> PunchStates]
    <3>1. Idle \in PunchStates BY DEF PunchStates
    <3>2. QED BY <1>2, <1>7, <3>1
  <2>4. wk' \in [Closers -> CloserStates] BY <1>7 DEF ClockInv, TransactionsStand
  <2>5. QED BY <2>1, <2>2, <2>3, <2>4 DEF TransactionsStand
<1>17. OneHolder'
  <2>1. \A u \in Tx : \A i \in Ids' : PunchHolds(pc'[u], i) => PunchHolds(pc[u], i) /\ i \in Ids
    <3>1. \A u \in Tx : pc[u].at = "close" => pc[u].ses \in Ids
      BY DEF ClockInv, TransactionsStand, PunchStands
    <3>2. QED BY <1>15, <3>1 DEF PunchHolds, Idle
  <2>2. \A w \in Closers : \A i \in Ids' : CloserHolds(wk'[w], i) => CloserHolds(wk[w], i) /\ i \in Ids
    BY <1>7 DEF CloserHolds, ClockInv, TransactionsStand, CloserStands
  <2>3. \A u, v \in Tx : \A i \in Ids' : PunchHolds(pc'[u], i) /\ PunchHolds(pc'[v], i) => u = v
    BY <2>1 DEF ClockInv, OneHolder
  <2>4. \A u, v \in Closers : \A i \in Ids' : CloserHolds(wk'[u], i) /\ CloserHolds(wk'[v], i) => u = v
    BY <2>2 DEF ClockInv, OneHolder
  <2>5. \A u \in Tx, w \in Closers : \A i \in Ids' : ~(PunchHolds(pc'[u], i) /\ CloserHolds(wk'[w], i))
    BY <2>1, <2>2 DEF ClockInv, OneHolder
  <2>6. QED BY <2>3, <2>4, <2>5 DEF OneHolder, PunchHolds, CloserHolds
<1>18. QED BY <1>9, <1>10, <1>11, <1>12, <1>13, <1>16, <1>17 DEF ClockInv, PunchesCountOnce

-----------------------------------------------------------------------------
(* PunchClock: the theorems.                                                *)

LEMMA ClockInitInv == Init => ClockInv
<1> SUFFICES ASSUME Init PROVE ClockInv OBVIOUS
<1>1. PICK ss : ss = sessions /\ ss = << >> BY DEF Init
<1>2. IsASequence(ss) /\ Len(ss) = 0 /\ DOMAIN ss = {}
  <2>1. DOMAIN ss = 1..0 /\ ss = [i \in 1..0 |-> ss[i]] BY <1>1
  <2>2. IsASequence(ss) BY <2>1, SequenceIsFunction
  <2>3. QED BY <1>1, <2>1, <2>2
<1>3. Ids = {} BY <1>1, <1>2 DEF Ids
<1>4. Clocked BY ClockAssumption DEF Init, Clocked
<1>5. SessionsFit BY <1>1, <1>2, <1>3 DEF SessionsFit
<1>6. TransactionsStand
  <2>1. PunchStands(Idle) /\ Idle \in PunchStates BY DEF PunchStands, PunchStates, Idle
  <2>2. CloserStands(Idle) /\ Idle \in CloserStates BY DEF CloserStands, CloserStates, Idle
  <2>3. QED BY <2>1, <2>2 DEF TransactionsStand, Init
<1>7. OneHolder BY <1>3 DEF OneHolder
<1>8. PunchesCountOnce BY <1>3 DEF PunchesCountOnce, OneOpenSession, OnePunchPerKey
<1>9. DailyStands
  <2>1. ASSUME NEW e \in Employees, NEW d \in Days PROVE RowOf(ss, e, d) = NoRow
    <3>1. Mine(ss, e, d) = {} /\ Over(ss, e, d) = {} BY <1>2 DEF Mine, Over
    <3>2. SumFunctionOnSet(Minutes(ss), {}) = 0
      <4>1. PICK f : f = Minutes(ss) OBVIOUS
      <4>2. SumFunctionOnSet(f, {}) = 0 BY FS_EmptySet, SumStep
      <4>3. QED BY <4>1, <4>2
    <3>3. QED BY <3>1, <3>2 DEF RowOf, NoRow
  <2>2. daily = [e \in Employees |-> [d \in Days |-> NoRow]] BY DEF Init
  <2>3. \A e \in Employees, d \in Days : daily[e][d] = RowOf(ss, e, d) BY <2>1, <2>2
  <2>4. QED BY <1>1, <2>2, <2>3 DEF DailyStands
<1>10. QED BY <1>4, <1>5, <1>6, <1>7, <1>8, <1>9 DEF ClockInv

LEMMA ClockStep == ClockInv /\ [Next]_vars => ClockInv'
<1> SUFFICES ASSUME ClockInv, [Next]_vars PROVE ClockInv' OBVIOUS
<1>1. now \in Nat /\ now \in 0..MaxTime /\ settings \in SettingsOf
  BY ClockAssumption DEF ClockInv, Clocked
<1>2. CASE Tick
  <2>1. now' = now + 1 /\ now < MaxTime /\ UNCHANGED <<settings, sessions, daily, pc, wk>>
    BY <1>2 DEF Tick
  <2>2. Clocked' /\ now <= now' BY <1>1, <2>1, ClockAssumption DEF Clocked
  <2>3. QED BY <2>1, <2>2, ClockKeeps
<1>3. CASE ChangeSettings
  <2>1. settings' \in SettingsOf /\ UNCHANGED <<now, sessions, daily, pc, wk>>
    BY <1>3 DEF ChangeSettings
  <2>2. Clocked' /\ now <= now' BY <1>1, <2>1 DEF Clocked
  <2>3. QED BY <2>1, <2>2, ClockKeeps
<1>4. CASE \E t \in Tx : Punch(t) \/ Rollback(t)
  <2>1. PICK t \in Tx : Punch(t) \/ Rollback(t) BY <1>4
  <2>2. CASE \E e \in Employees, k \in Keys \cup {NoKey} : PunchInBegin(t, e, k) \/ PunchOutBegin(t, e, k)
    <3>1. PICK e \in Employees, k \in Keys \cup {NoKey} : PunchInBegin(t, e, k) \/ PunchOutBegin(t, e, k)
      BY <2>2
    <3>2. QED BY <3>1, PunchesMove
  <2>3. CASE PunchInCheck(t) \/ PunchOutLock(t) \/ Rollback(t)
    <3>1. pc[t] # Idle
      BY <2>3 DEF PunchInCheck, PunchOutLock, Rollback, Idle
    <3>2. PICK e \in Employees : TRUE
      BY <3>1 DEF ClockInv, TransactionsStand, PunchStands, PunchStates
    <3>3. QED BY <2>3, PunchesMove
  <2>4. CASE PunchInCommit(t) BY <2>4, PunchInKeeps
  <2>5. CASE PunchOutCommit(t) BY <2>5, PunchOutKeeps
  <2>6. Refused(t) => Rollback(t) BY DEF Refused
  <2>7. QED BY <2>1, <2>2, <2>3, <2>4, <2>5, <2>6 DEF Punch
<1>5. CASE \E w \in Closers : AutoClose(w) \/ WorkerCrash(w)
  <2>1. PICK w \in Closers : AutoClose(w) \/ WorkerCrash(w) BY <1>5
  <2>2. CASE WorkerCommit(w) BY <2>2, WorkerCommitKeeps
  <2>3. CASE WorkerList(w) \/ WorkerLock(w) \/ WorkerCrash(w) BY <2>3, ClosersMove
  <2>4. QED BY <2>1, <2>2, <2>3 DEF AutoClose
<1>6. CASE UNCHANGED vars
  <2>1. Clocked' /\ now <= now' BY <1>1, <1>6 DEF vars, Clocked
  <2>2. QED BY <1>6, <2>1, ClockKeeps DEF vars
<1>7. QED BY <1>2, <1>3, <1>4, <1>5, <1>6 DEF Next

\* The inductive invariant of punching.
THEOREM ClockInvariance == Spec => []ClockInv
<1>1. QED BY ClockInitInv, ClockStep, PTL DEF Spec

\* However many devices punch in at once and however often a punch is retried,
\* an employee has one open session, and no key stands for two punches.
THEOREM PunchesCountOnceCorrect == Spec => []PunchesCountOnce
<1>1. ClockInv => PunchesCountOnce BY DEF ClockInv
<1>2. QED BY ClockInvariance, <1>1, PTL

\* The daily row is what its sessions amount to, whichever of the three
\* transactions wrote it.
THEOREM DailyMirrorsSessionsCorrect == Spec => []DailyMirrorsSessions
<1>1. ClockInv => DailyMirrorsSessions
  <2> SUFFICES ASSUME ClockInv, NEW e \in Employees, NEW d \in Days
               PROVE  LET mine == {i \in Ids : sessions[i].emp = e /\ sessions[i].day = d}
                          closed == {i \in mine : sessions[i].status # "OPEN"}
                          row == daily[e][d]
                      IN  /\ row.minutes = SumFunctionOnSet(Minutes(sessions), closed)
                          /\ row.open = (mine # closed)
                          /\ row.first = IF mine = {} THEN -1
                                         ELSE Min({sessions[i].start : i \in mine})
                          /\ row.last = IF closed = {} THEN -1
                                        ELSE Max({sessions[i].end : i \in closed})
    BY DEF DailyMirrorsSessions
  <2>1. Ids = DOMAIN sessions BY DEF ClockInv, SessionsFit, IsASequence, Ids
  <2>2. PICK mine, closed :
          /\ mine = {i \in Ids : sessions[i].emp = e /\ sessions[i].day = d}
          /\ closed = {i \in mine : sessions[i].status # "OPEN"}
    OBVIOUS
  <2>3. mine = Mine(sessions, e, d) /\ closed = Over(sessions, e, d)
    BY <2>1, <2>2 DEF Mine, Over
  <2>4. daily[e][d] =
          [minutes |-> SumFunctionOnSet(Minutes(sessions), closed),
           first |-> IF mine = {} THEN -1 ELSE Min({sessions[i].start : i \in mine}),
           last |-> IF closed = {} THEN -1 ELSE Max({sessions[i].end : i \in closed}),
           open |-> mine # closed]
    BY <2>3 DEF ClockInv, DailyStands, RowOf
  <2>5. QED BY <2>2, <2>4
<1>2. QED BY ClockInvariance, <1>1, PTL

\* Whoever closes a session and however late, it lies within its business day,
\* is no longer than a maximum an admin has set, and says why if it does not end
\* where the employee punched out.
THEOREM SessionsWithinTheirDayCorrect == Spec => []SessionsWithinTheirDay
<1>1. ClockInv => SessionsWithinTheirDay
  BY DEF ClockInv, SessionsFit, SessionFits, WithinItsDay, SessionsWithinTheirDay
<1>2. QED BY ClockInvariance, <1>1, PTL

\* The worker and a punch out may be after the same session; whoever commits
\* first has closed it for good.
THEOREM ClosedForGoodCorrect == Spec => ClosedForGood
<1>1. ASSUME ClockInv, [Next]_vars
      PROVE  [\A i \in Ids : sessions[i].status # "OPEN" => sessions'[i] = sessions[i]]_vars
  <2>1. Ids = DOMAIN sessions /\ IsASequence(sessions)
    <3>1. IsASequence(sessions) BY <1>1 DEF ClockInv, SessionsFit
    <3>2. QED BY <3>1 DEF IsASequence, Ids
  <2>2. ASSUME NEW t \in Tx, PunchInCommit(t)
        PROVE  \A i \in Ids : sessions'[i] = sessions[i]
    <3>1. PICK ss, s : ss = sessions /\ s = NewSession(pc[t]) OBVIOUS
    <3>2. sessions' = Append(ss, s) BY <2>2, <3>1 DEF PunchInCommit, InsertSession
    <3>3. \A i \in DOMAIN ss : Append(ss, s)[i] = ss[i] BY <2>1, <3>1, AppendSequence
    <3>4. QED BY <2>1, <3>1, <3>2, <3>3
  <2>3. ASSUME NEW t \in Tx, PunchOutCommit(t)
        PROVE  \A i \in Ids : sessions[i].status # "OPEN" => sessions'[i] = sessions[i]
    <3>1. PICK n, x : n = pc[t].ses /\ sessions' = [sessions EXCEPT ![n] = x]
      BY <2>3 DEF PunchOutCommit, CloseSession
    <3>2. sessions[n].status = "OPEN"
      <4>1. pc[t].at = "close" /\ PunchStands(pc[t])
        BY <1>1, <2>3 DEF ClockInv, TransactionsStand, PunchOutCommit
      <4>2. QED BY <3>1, <4>1 DEF PunchStands
    <3>3. QED BY <2>1, <3>1, <3>2
  <2>4. ASSUME NEW w \in Closers, WorkerCommit(w)
        PROVE  \A i \in Ids : sessions[i].status # "OPEN" => sessions'[i] = sessions[i]
    <3>1. \A i \in wk[w].held : sessions[i].status = "OPEN"
      <4>1. wk[w].at = "run" /\ CloserStands(wk[w])
        BY <1>1, <2>4 DEF ClockInv, TransactionsStand, WorkerCommit
      <4>2. QED BY <4>1 DEF CloserStands
    <3>2. QED BY <2>4, <3>1 DEF WorkerCommit
  <2>5. \/ UNCHANGED sessions
        \/ \E t \in Tx : PunchInCommit(t) \/ PunchOutCommit(t)
        \/ \E w \in Closers : WorkerCommit(w)
    BY <1>1 DEF Next, vars, Tick, ChangeSettings, Punch, PunchInBegin, PunchOutBegin, PunchInCheck,
       PunchOutLock, Refused, Rollback, AutoClose, WorkerList, WorkerLock, WorkerCrash
  <2>6. QED BY <2>2, <2>3, <2>4, <2>5
<1>2. QED BY ClockInvariance, <1>1, PTL DEF Spec, ClosedForGood

-----------------------------------------------------------------------------
(* NotificationOutbox.                                                      *)

OutboxTyped ==
  /\ status \in [Rows -> {"absent", "PENDING", "SENT", "FAILED"}]
  /\ attempts \in [Rows -> Nat]
  /\ waiting \subseteq Rows /\ notified \subseteq Rows
  /\ at \in [Workers -> {"idle", "batch"}]
  /\ todo \in [Workers -> SUBSET Rows]
  /\ inserted \in [Workers -> SUBSET Rows]
  /\ failed \in [Workers -> SUBSET Rows]

\* A worker does to a row one thing at a time, to rows nobody else has.
BatchesApart ==
  /\ \A w \in Workers : /\ todo[w] \cap inserted[w] = {} /\ todo[w] \cap failed[w] = {}
                        /\ inserted[w] \cap failed[w] = {}
                        /\ at[w] = "idle" => Batch(w) = {}
                        /\ \A r \in Batch(w) : status[r] = "PENDING"
  /\ \A v, w \in Workers : v # w => Batch(v) \cap Batch(w) = {}

\* What is not given up has an attempt left.
AttemptsLeft == \A r \in Rows : attempts[r] <= MaxAttempts

OutboxInv == OutboxTyped /\ BatchesApart /\ AttemptsLeft /\ SettledRowsBalance

\* A worker takes the oldest row it has.
LEMMA FirstIsTodo ==
  ASSUME OutboxTyped, NEW w \in Workers, todo[w] # {}
  PROVE  First(w) \in todo[w]
<1>1. PICK T : T = todo[w] OBVIOUS
<1>2. T \subseteq Nat /\ T # {} BY <1>1, OutboxAssumption DEF OutboxTyped
<1>3. \E r \in T : \A q \in T : r <= q BY <1>2, LeastNumber
<1>4. QED BY <1>1, <1>3 DEF First

\* A row goes from what a worker has to do to what it has done.
LEMMA RowDone ==
  ASSUME OutboxInv, NEW w \in Workers, Convert(w) \/ CountFailure(w)
  PROVE  OutboxInv'
<1>1. PICK r : r = First(w) OBVIOUS
<1>2. r \in todo[w] /\ todo' = [todo EXCEPT ![w] = @ \ {r}] /\ UNCHANGED <<at, table>>
  BY <1>1, FirstIsTodo DEF OutboxInv, Convert, CountFailure
<1>3. \/ inserted' = [inserted EXCEPT ![w] = @ \cup {r}] /\ UNCHANGED failed
      \/ failed' = [failed EXCEPT ![w] = @ \cup {r}] /\ UNCHANGED inserted
  BY <1>1 DEF Convert, CountFailure
<1>4. OutboxTyped' BY <1>2, <1>3 DEF OutboxInv, OutboxTyped, table
<1>5. \A v \in Workers : Batch(v)' = Batch(v) BY <1>2, <1>3 DEF OutboxInv, OutboxTyped, Batch
<1>6. \A v \in Workers : /\ todo'[v] \cap inserted'[v] = {} /\ todo'[v] \cap failed'[v] = {}
                         /\ inserted'[v] \cap failed'[v] = {}
  BY <1>2, <1>3 DEF OutboxInv, OutboxTyped, BatchesApart
<1>7. BatchesApart' BY <1>2, <1>5, <1>6 DEF OutboxInv, BatchesApart, table
<1>8. AttemptsLeft' /\ SettledRowsBalance'
  BY <1>2 DEF OutboxInv, AttemptsLeft, SettledRowsBalance, table
<1>9. QED BY <1>4, <1>7, <1>8 DEF OutboxInv

LEMMA BatchTaken ==
  ASSUME OutboxInv, NEW w \in Workers, SelectBatch(w)
  PROVE  OutboxInv'
<1>1. PICK free : free = Due \ UNION {Batch(v) : v \in Workers} OBVIOUS
<1>2. /\ at[w] = "idle" /\ at' = [at EXCEPT ![w] = "batch"]
      /\ todo' = [todo EXCEPT ![w] = Oldest(free)] /\ UNCHANGED <<inserted, failed, table>>
  BY <1>1 DEF SelectBatch
<1>3. /\ Oldest(free) \subseteq Rows /\ \A r \in Oldest(free) : status[r] = "PENDING"
      /\ \A v \in Workers : Oldest(free) \cap Batch(v) = {}
  BY <1>1 DEF Oldest, Due
<1>4. OutboxTyped' BY <1>2, <1>3 DEF OutboxInv, OutboxTyped, table
<1>5. inserted[w] = {} /\ failed[w] = {} BY <1>2 DEF OutboxInv, BatchesApart, Batch
<1>6. \A v \in Workers : Batch(v)' = IF v = w THEN Oldest(free) ELSE Batch(v)
  BY <1>2, <1>5 DEF OutboxInv, OutboxTyped, Batch
<1>7. \A v \in Workers : todo'[v] = IF v = w THEN Oldest(free) ELSE todo[v]
  BY <1>2 DEF OutboxInv, OutboxTyped
<1>8. \A v \in Workers : /\ todo'[v] \cap inserted'[v] = {} /\ todo'[v] \cap failed'[v] = {}
                         /\ inserted'[v] \cap failed'[v] = {}
  BY <1>2, <1>5, <1>7 DEF OutboxInv, BatchesApart
<1>9. \A v \in Workers : at'[v] = "idle" => v # w /\ at[v] = "idle"
  BY <1>2 DEF OutboxInv, OutboxTyped
<1>10. BatchesApart' BY <1>2, <1>3, <1>6, <1>8, <1>9 DEF OutboxInv, BatchesApart, table
<1>11. AttemptsLeft' /\ SettledRowsBalance'
  BY <1>2 DEF OutboxInv, AttemptsLeft, SettledRowsBalance, table
<1>12. QED BY <1>4, <1>10, <1>11 DEF OutboxInv

\* A batch ends: its worker has nothing, the others have what they had.
LEMMA BatchEnds ==
  ASSUME OutboxInv, NEW w \in Workers, EndBatch(w),
         status' \in [Rows -> {"absent", "PENDING", "SENT", "FAILED"}],
         \A r \in Rows : r \notin Batch(w) => status'[r] = status[r]
  PROVE  /\ BatchesApart'
         /\ at' \in [Workers -> {"idle", "batch"}] /\ todo' \in [Workers -> SUBSET Rows]
         /\ inserted' \in [Workers -> SUBSET Rows] /\ failed' \in [Workers -> SUBSET Rows]
<1>1. \A v \in Workers : /\ todo'[v] = IF v = w THEN {} ELSE todo[v]
                         /\ inserted'[v] = IF v = w THEN {} ELSE inserted[v]
                         /\ failed'[v] = IF v = w THEN {} ELSE failed[v]
                         /\ at'[v] = IF v = w THEN "idle" ELSE at[v]
  BY DEF OutboxInv, OutboxTyped, EndBatch
<1>2. \A v \in Workers : Batch(v)' = IF v = w THEN {} ELSE Batch(v) BY <1>1 DEF Batch
<1>3. \A v \in Workers : Batch(v) \subseteq Rows BY DEF OutboxInv, OutboxTyped, Batch
<1>4. \A v \in Workers : v # w => \A r \in Batch(v) : status'[r] = "PENDING"
  BY <1>3 DEF OutboxInv, BatchesApart
<1>5. BatchesApart' BY <1>1, <1>2, <1>4 DEF OutboxInv, BatchesApart
<1>6. QED BY <1>5 DEF OutboxInv, OutboxTyped, EndBatch

LEMMA BatchCommitted ==
  ASSUME OutboxInv, NEW w \in Workers, Commit(w)
  PROVE  OutboxInv'
<1>1. PICK retry : retry = {r \in failed[w] : ~Exhausted(r)} OBVIOUS
<1>2. /\ status' = [r \in Rows |-> IF r \in inserted[w] THEN "SENT"
                                   ELSE IF r \in failed[w] \ retry THEN "FAILED" ELSE status[r]]
      /\ attempts' = [r \in Rows |-> IF r \in failed[w] THEN attempts[r] + 1 ELSE attempts[r]]
      /\ waiting' = waiting \cup retry /\ notified' = notified \cup inserted[w]
      /\ EndBatch(w)
  BY <1>1 DEF Commit
<1>3. /\ inserted[w] \subseteq Rows /\ failed[w] \subseteq Rows /\ inserted[w] \cap failed[w] = {}
      /\ \A r \in inserted[w] \cup failed[w] : status[r] = "PENDING"
  BY DEF OutboxInv, OutboxTyped, BatchesApart, Batch
<1>4. \A r \in Rows : /\ attempts[r] \in Nat /\ attempts[r] <= MaxAttempts
                      /\ r \in notified <=> status[r] = "SENT"
                      /\ attempts[r] = MaxAttempts <=> status[r] = "FAILED"
  BY DEF OutboxInv, OutboxTyped, AttemptsLeft, SettledRowsBalance
<1>5. status' \in [Rows -> {"absent", "PENDING", "SENT", "FAILED"}]
  BY <1>2 DEF OutboxInv, OutboxTyped
<1>6. \A r \in Rows : r \notin Batch(w) => status'[r] = status[r] BY <1>2 DEF Batch
<1>7. /\ BatchesApart'
      /\ at' \in [Workers -> {"idle", "batch"}] /\ todo' \in [Workers -> SUBSET Rows]
      /\ inserted' \in [Workers -> SUBSET Rows] /\ failed' \in [Workers -> SUBSET Rows]
  BY <1>2, <1>5, <1>6, BatchEnds
<1>8. retry \subseteq Rows BY <1>1, <1>3
<1>9. OutboxTyped' BY <1>2, <1>3, <1>4, <1>5, <1>7, <1>8 DEF OutboxInv, OutboxTyped
<1>10. \A r \in failed[w] : attempts[r] < MaxAttempts /\ (r \in retry <=> attempts[r] + 1 # MaxAttempts)
  <2> SUFFICES ASSUME NEW r \in failed[w]
               PROVE  attempts[r] < MaxAttempts /\ (r \in retry <=> attempts[r] + 1 # MaxAttempts)
    OBVIOUS
  <2>1. r \in Rows /\ status[r] = "PENDING" BY <1>3
  <2>2. attempts[r] \in Nat /\ attempts[r] < MaxAttempts /\ MaxAttempts \in Nat
    <3>1. attempts[r] \in Nat /\ attempts[r] <= MaxAttempts /\ attempts[r] # MaxAttempts
      BY <1>4, <2>1
    <3>2. MaxAttempts \in Nat BY OutboxAssumption
    <3>3. QED BY <3>1, <3>2
  <2>3. r \in retry <=> ~(attempts[r] + 1 >= MaxAttempts) BY <1>1 DEF Exhausted
  <2>4. QED BY <2>2, <2>3
<1>11. ASSUME NEW r \in Rows
       PROVE  /\ attempts'[r] <= MaxAttempts
              /\ r \in notified' <=> status'[r] = "SENT"
              /\ attempts'[r] = MaxAttempts <=> status'[r] = "FAILED"
  <2>1. CASE r \in inserted[w]
    <3>1. status'[r] = "SENT" /\ attempts'[r] = attempts[r] /\ r \in notified' BY <1>2, <1>3, <2>1
    <3>2. QED BY <1>3, <1>4, <2>1, <3>1
  <2>2. CASE r \in failed[w]
    <3>1. r \notin inserted[w] /\ status[r] = "PENDING" BY <1>3, <2>2
    <3>2. /\ status'[r] = IF r \in retry THEN "PENDING" ELSE "FAILED"
          /\ attempts'[r] = attempts[r] + 1
          /\ r \in notified' <=> r \in notified
      BY <1>2, <2>2, <3>1
    <3>3. MaxAttempts \in Nat BY OutboxAssumption
    <3>4. QED BY <1>4, <1>10, <2>2, <3>1, <3>2, <3>3
  <2>3. CASE r \notin inserted[w] /\ r \notin failed[w]
    <3>1. status'[r] = status[r] /\ attempts'[r] = attempts[r] /\ (r \in notified' <=> r \in notified)
      BY <1>2, <2>3
    <3>2. QED BY <1>4, <3>1
  <2>4. QED BY <2>1, <2>2, <2>3
<1>12. AttemptsLeft' /\ SettledRowsBalance' BY <1>11 DEF AttemptsLeft, SettledRowsBalance
<1>13. QED BY <1>7, <1>9, <1>12 DEF OutboxInv

LEMMA OutboxKeeps ==
  ASSUME OutboxInv, Deliver \/ UNCHANGED outboxvars
  PROVE  OutboxInv'
<1>1. ASSUME NEW r \in Rows, RetryDue(r) PROVE OutboxInv'
  BY <1>1 DEF RetryDue, OutboxInv, OutboxTyped, BatchesApart, AttemptsLeft, SettledRowsBalance, Batch
<1>2. ASSUME NEW w \in Workers, Crash(w) PROVE OutboxInv'
  <2>1. EndBatch(w) /\ UNCHANGED table BY <1>2 DEF Crash
  <2>2. /\ BatchesApart'
        /\ at' \in [Workers -> {"idle", "batch"}] /\ todo' \in [Workers -> SUBSET Rows]
        /\ inserted' \in [Workers -> SUBSET Rows] /\ failed' \in [Workers -> SUBSET Rows]
    <3>1. status' \in [Rows -> {"absent", "PENDING", "SENT", "FAILED"}] /\ status' = status
      BY <2>1 DEF OutboxInv, OutboxTyped, table
    <3>2. QED BY <2>1, <3>1, BatchEnds
  <2>3. QED BY <2>1, <2>2 DEF OutboxInv, OutboxTyped, AttemptsLeft, SettledRowsBalance, table
<1>3. CASE UNCHANGED outboxvars
  BY <1>3 DEF outboxvars, OutboxInv, OutboxTyped, BatchesApart, AttemptsLeft, SettledRowsBalance, Batch
<1>4. QED BY <1>1, <1>2, <1>3, RowDone, BatchTaken, BatchCommitted DEF Deliver, Work

\* Rows that are not in the table yet are enqueued.
LEMMA EnqueueKeeps ==
  ASSUME OutboxInv, NEW rs, Enqueue(rs)
  PROVE  OutboxInv'
<1>1. /\ \A r \in rs : status[r] = "absent"
      /\ status' = [r \in Rows |-> IF r \in rs THEN "PENDING" ELSE status[r]]
      /\ UNCHANGED <<attempts, waiting, notified, at, todo, inserted, failed>>
  BY DEF Enqueue
<1>2. OutboxTyped' BY <1>1 DEF OutboxInv, OutboxTyped
<1>3. \A w \in Workers : Batch(w)' = Batch(w) /\ Batch(w) \subseteq Rows
  BY <1>1 DEF OutboxInv, OutboxTyped, Batch
<1>4. BatchesApart' BY <1>1, <1>3 DEF OutboxInv, BatchesApart
<1>5. AttemptsLeft' /\ SettledRowsBalance'
  BY <1>1 DEF OutboxInv, AttemptsLeft, SettledRowsBalance
<1>6. QED BY <1>2, <1>4, <1>5 DEF OutboxInv

\* Whatever the batches of the workers hold, however often they are retried and
\* whenever a worker dies, the books of the outbox agree.
THEOREM SettledRowsBalanceCorrect == OutboxSpec => []SettledRowsBalance
<1>1. OutboxInit => OutboxInv
  BY OutboxAssumption
  DEF OutboxInit, OutboxInv, OutboxTyped, BatchesApart, AttemptsLeft, SettledRowsBalance, Batch
<1>2. OutboxInv /\ [OutboxNext]_outboxvars => OutboxInv'
  BY OutboxKeeps, EnqueueKeeps DEF OutboxNext
<1>3. OutboxInv => SettledRowsBalance BY DEF OutboxInv
<1>4. QED BY <1>1, <1>2, <1>3, PTL DEF OutboxSpec

-----------------------------------------------------------------------------
(* DocumentExpiry.                                                          *)

Reminders == Papers \X Nat \X Users

\* A prepared event was asked for by a rule, which is still there: rules are
\* only added.
EventsJustified ==
  /\ events \subseteq Papers \X Nat
  /\ \A ev \in events : /\ ev[1] \in papers /\ Expires[ev[1]] # NoExpiry
                        /\ \E r \in rules : /\ r[1] = PaperType[ev[1]] /\ r[3]
                                            /\ Expires[ev[1]] - r[2] = ev[2]

ExpiryTyped ==
  /\ today \in Nat \ {0}
  /\ papers \subseteq Papers
  /\ rules \subseteq PaperTypes \X Offsets \X BOOLEAN
  /\ mail \in Seq(Reminders)

\* There is an outbox row for every reminder sent.
RowsSuffice == Len(mail) <= Cardinality(Rows)

ExpiryInv == OutboxInv /\ ExpiryTyped /\ EventsJustified /\ RowsSuffice /\ RemindersAsOwed

\* A finite set makes a sequence of its elements, each once.
LEMMA SequenceOfSet ==
  ASSUME NEW S, IsFiniteSet(S)
  PROVE  /\ SetToSeq(S) \in Seq(S) /\ Len(SetToSeq(S)) = Cardinality(S)
         /\ Range(SetToSeq(S)) = S /\ IsInjective(SetToSeq(S))
<1>1. PICK n : n = Cardinality(S) OBVIOUS
<1>2. n \in Nat BY <1>1, FS_CardinalityType
<1>3. \E f \in [1..n -> S] : IsInjective(f)
  BY <1>1, FS_CardinalityType DEF ExistsBijection, Bijection, Injection
<1>4. PICK f : f = SetToSeq(S) OBVIOUS
<1>5. f \in [1..n -> S] /\ IsInjective(f)
  BY <1>1, <1>3, <1>4 DEF SetToSeq
<1>6. f \in Seq(S) BY <1>2, <1>5, SeqDef
<1>7. Len(f) = n BY <1>2, <1>5, <1>6, LenProperties
<1>8. Range(f) = S
  <2>1. f \in Injection(1..n, S) BY <1>5 DEF Injection
  <2>2. Cardinality(1..n) = n BY <1>2, FS_Interval
  <2>3. f \in Surjection(1..n, S) BY <1>1, <2>1, <2>2, FS_Injection
  <2>4. QED BY <1>5, <2>3 DEF Surjection, Range
<1>9. QED BY <1>1, <1>4, <1>5, <1>6, <1>7, <1>8

\* Sequences that hold each element once and share none, one after the other.
LEMMA JoinedSequences ==
  ASSUME NEW S, NEW s \in Seq(S), NEW t \in Seq(S), IsInjective(s), IsInjective(t),
         Range(s) \cap Range(t) = {}
  PROVE  /\ s \o t \in Seq(S) /\ Len(s \o t) = Len(s) + Len(t)
         /\ Range(s \o t) = Range(s) \cup Range(t) /\ IsInjective(s \o t)
<1>1. PICK m, n : m = Len(s) /\ n = Len(t) OBVIOUS
<1>2. m \in Nat /\ n \in Nat /\ DOMAIN s = 1..m /\ DOMAIN t = 1..n BY <1>1, LenProperties
<1>3. PICK q : q = s \o t OBVIOUS
<1>4. /\ q \in Seq(S) /\ Len(q) = m + n
      /\ \A i \in 1..m + n : q[i] = IF i <= m THEN s[i] ELSE t[i - m]
  BY <1>1, <1>3, ConcatProperties
<1>5. DOMAIN q = 1..m + n BY <1>4, LenProperties
<1>6. \A i \in 1..m : q[i] = s[i] /\ q[i] \in Range(s)
  <2> SUFFICES ASSUME NEW i \in 1..m PROVE q[i] = s[i] /\ q[i] \in Range(s) OBVIOUS
  <2>1. i \in 1..m + n /\ i <= m BY <1>2
  <2>2. q[i] = s[i] BY <1>4, <2>1
  <2>3. QED BY <1>2, <2>2 DEF Range
<1>7. \A i \in 1..n : q[m + i] = t[i] /\ m + i \in DOMAIN q
  <2> SUFFICES ASSUME NEW i \in 1..n PROVE q[m + i] = t[i] /\ m + i \in DOMAIN q OBVIOUS
  <2>1. PICK k : k = m + i OBVIOUS
  <2>2. k \in 1..m + n /\ ~(k <= m) /\ k - m = i BY <1>2, <2>1
  <2>3. q[k] = t[k - m] BY <1>4, <2>2
  <2>4. QED BY <1>5, <2>1, <2>2, <2>3
<1>8. \A i \in 1..m + n : i \in 1..m \/ \E j \in 1..n : i = m + j
  <2> SUFFICES ASSUME NEW i \in 1..m + n, i \notin 1..m PROVE \E j \in 1..n : i = m + j OBVIOUS
  <2>1. i - m \in 1..n /\ i = m + (i - m) BY <1>2
  <2>2. QED BY <2>1
<1>9. \A i \in 1..n : t[i] \in Range(t) BY <1>2 DEF Range
<1>10. 1..m \subseteq 1..m + n BY <1>2
<1>11. Range(q) = Range(s) \cup Range(t)
  <2>1. \A x \in Range(q) : x \in Range(s) \cup Range(t)
    BY <1>5, <1>6, <1>7, <1>8, <1>9 DEF Range
  <2>2. \A x \in Range(s) : x \in Range(q) BY <1>2, <1>5, <1>6, <1>10 DEF Range
  <2>3. \A x \in Range(t) : x \in Range(q) BY <1>2, <1>7 DEF Range
  <2>4. QED BY <2>1, <2>2, <2>3
<1>12. IsInjective(q)
  <2> SUFFICES ASSUME NEW a \in 1..m + n, NEW b \in 1..m + n, q[a] = q[b] PROVE a = b
    BY <1>5 DEF IsInjective
  <2>1. CASE a \in 1..m /\ b \in 1..m BY <1>2, <1>6, <2>1 DEF IsInjective
  <2>2. ASSUME NEW i \in 1..n, NEW j \in 1..n, a = m + i, b = m + j PROVE a = b
    BY <1>2, <1>7, <2>2 DEF IsInjective
  <2>3. ASSUME NEW i \in 1..m, NEW j \in 1..n PROVE q[i] # q[m + j]
    BY <1>6, <1>7, <1>9
  <2>4. QED BY <1>8, <2>1, <2>2, <2>3
<1>13. QED BY <1>1, <1>3, <1>4, <1>11, <1>12

\* What the job sends is what it finds due and had not sent before; with that,
\* everything a rule asked for on a day the job ran is sent, and nothing else.
LEMMA RunSendsWhatIsOwed ==
  ASSUME ExpiryInv, RunOnce
  PROVE  /\ Range(mail') = owed' /\ IsInjective(mail') /\ mail' \in Seq(Reminders)
         /\ \E rs : /\ Enqueue(rs) /\ \A r \in Rows : r \in rs <=> r \in DOMAIN mail' \ DOMAIN mail
         /\ DOMAIN mail \subseteq DOMAIN mail' /\ DOMAIN mail' = 1..Len(mail')
         /\ Len(mail') <= Cardinality(Rows)
<1>1. PICK all, due, new, used :
        /\ all = events \cup EventsAhead /\ due = {ev \in all : ev[2] = today}
        /\ new = Notices(due) /\ used = Len(mail)
  OBVIOUS
<1>2. /\ used + Cardinality(new) <= Cardinality(Rows)
      /\ mail' = mail \o SetToSeq(new)
      /\ Enqueue((used + 1)..(used + Cardinality(new)))
      /\ owed' = owed \cup {x \in papers \X {today} \X Users :
                   /\ <<Owner[x[1]], x[3]>> \in links
                   /\ <<PaperType[x[1]], Expires[x[1]] - today, TRUE>> \in rules}
  BY <1>1 DEF RunOnce
<1>3. /\ today \in Nat \ {0} /\ papers \subseteq Papers /\ mail \in Seq(Reminders)
      /\ rules \subseteq PaperTypes \X Offsets \X BOOLEAN
      /\ events \subseteq Papers \X Nat
      /\ \A ev \in events : /\ ev[1] \in papers
                            /\ \E r \in rules : /\ r[1] = PaperType[ev[1]] /\ r[3]
                                                /\ Expires[ev[1]] - r[2] = ev[2]
  BY DEF ExpiryInv, ExpiryTyped, EventsJustified
<1>4. Range(mail) = owed /\ IsInjective(mail) BY DEF ExpiryInv, RemindersAsOwed
<1>5. \A d \in papers : \A r \in rules :
        r[1] = PaperType[d] /\ r[3] /\ Expires[d] - r[2] = today
          => <<PaperType[d], Expires[d] - today, TRUE>> \in rules
  <2>1. PICK B : B = BOOLEAN OBVIOUS
  <2>2. \A r \in PaperTypes \X Offsets \X B : r = <<r[1], r[2], r[3]>> /\ r[2] \in Offsets /\ r[3] \in B
    OBVIOUS
  <2>3. \A r \in rules : r = <<r[1], r[2], r[3]>> /\ r[2] \in Nat /\ r[3] \in BOOLEAN
    BY <1>3, <2>1, <2>2, ExpiryAssumption
  <2>4. \A d \in papers : Expires[d] \in Nat BY <1>3, ExpiryAssumption
  <2>5. ASSUME NEW d \in papers, NEW r \in rules, r[1] = PaperType[d], r[3] = TRUE,
               Expires[d] - r[2] = today
        PROVE  <<PaperType[d], Expires[d] - today, TRUE>> \in rules
    <3>1. Expires[d] - today = r[2] BY <1>3, <2>3, <2>4, <2>5
    <3>2. r = <<r[1], r[2], r[3]>> BY <2>3
    <3>3. QED BY <2>5, <3>1, <3>2
  <2>6. QED BY <2>3, <2>5
<1>6. \A d \in Papers : <<d, today>> \in all <=>
        d \in papers /\ <<PaperType[d], Expires[d] - today, TRUE>> \in rules
  <2> SUFFICES ASSUME NEW d \in Papers
               PROVE  <<d, today>> \in all <=>
                        d \in papers /\ <<PaperType[d], Expires[d] - today, TRUE>> \in rules
    OBVIOUS
  <2>1. today \in Window
    <3>1. Lookahead \in Nat BY ExpiryAssumption
    <3>2. QED BY <1>3, <3>1 DEF Window
  <2>2. ASSUME d \in papers, <<PaperType[d], Expires[d] - today, TRUE>> \in rules
        PROVE  <<d, today>> \in EventsAhead
    <3>1. PICK r \in rules : r = <<PaperType[d], Expires[d] - today, TRUE>> BY <2>2
    <3>2. r[1] = PaperType[d] /\ r[2] = Expires[d] - today /\ r[3] BY <3>1
    <3>3. r[2] \in Nat /\ Expires[d] \in Nat BY <1>3, ExpiryAssumption
    <3>4. Expires[d] - r[2] = today /\ Expires[d] # NoExpiry BY <1>3, <3>2, <3>3 DEF NoExpiry
    <3>5. QED BY <2>1, <2>2, <3>2, <3>4 DEF EventsAhead
  <2>3. ASSUME <<d, today>> \in EventsAhead
        PROVE  d \in papers /\ <<PaperType[d], Expires[d] - today, TRUE>> \in rules
    <3>1. d \in papers /\ \E r \in rules : r[1] = PaperType[d] /\ r[3] /\ Expires[d] - r[2] = today
      BY <2>3 DEF EventsAhead
    <3>2. QED BY <1>5, <3>1
  <2>4. ASSUME <<d, today>> \in events
        PROVE  d \in papers /\ <<PaperType[d], Expires[d] - today, TRUE>> \in rules
    <3>1. d \in papers /\ \E r \in rules : r[1] = PaperType[d] /\ r[3] /\ Expires[d] - r[2] = today
      BY <1>3, <2>4
    <3>2. QED BY <1>5, <3>1
  <2>5. QED BY <1>1, <2>2, <2>3, <2>4
<1>7. \A ev \in due : ev[1] \in Papers /\ ev = <<ev[1], today>>
  <2>1. \A ev \in EventsAhead : ev \in papers \X Window BY DEF EventsAhead
  <2>2. \A ev \in events : ev \in Papers \X Nat BY <1>3
  <2>3. QED BY <1>1, <1>3, <2>1, <2>2
<1>8. new = {x \in papers \X {today} \X Users :
               /\ <<Owner[x[1]], x[3]>> \in links
               /\ <<PaperType[x[1]], Expires[x[1]] - today, TRUE>> \in rules} \ Range(mail)
  <2> DEFINE asked == {x \in papers \X {today} \X Users :
                         /\ <<Owner[x[1]], x[3]>> \in links
                         /\ <<PaperType[x[1]], Expires[x[1]] - today, TRUE>> \in rules}
             found == UNION {{DedupeKey(ev, u) : u \in Recipients(ev[1])} : ev \in due}
  <2>1. ASSUME NEW x \in asked PROVE x \in found
    <3>1. /\ x = <<x[1], today, x[3]>> /\ x[1] \in papers /\ x[3] \in Recipients(x[1])
          /\ <<PaperType[x[1]], Expires[x[1]] - today, TRUE>> \in rules
      BY DEF Recipients
    <3>2. <<x[1], today>> \in due BY <1>1, <1>3, <1>6, <3>1
    <3>3. x = DedupeKey(<<x[1], today>>, x[3]) BY <3>1 DEF DedupeKey
    <3>4. QED BY <3>1, <3>2, <3>3
  <2>2. ASSUME NEW x \in found PROVE x \in asked
    <3>1. PICK ev \in due : \E u \in Recipients(ev[1]) : x = DedupeKey(ev, u) BY <2>2
    <3>2. PICK u \in Recipients(ev[1]) : x = DedupeKey(ev, u) BY <3>1
    <3>3. ev[1] \in Papers /\ ev[2] = today /\ ev = <<ev[1], today>> BY <1>7
    <3>4. x = <<ev[1], today, u>> BY <3>2, <3>3 DEF DedupeKey
    <3>5. ev[1] \in papers /\ <<PaperType[ev[1]], Expires[ev[1]] - today, TRUE>> \in rules
      BY <1>1, <1>6, <3>3
    <3>6. u \in Users /\ <<Owner[ev[1]], u>> \in links BY <3>2 DEF Recipients
    <3>7. QED BY <3>4, <3>5, <3>6
  <2>3. QED BY <1>1, <2>1, <2>2 DEF Notices
<1>9. new \subseteq Reminders /\ IsFiniteSet(new) /\ new \cap Range(mail) = {}
  <2>1. new \subseteq papers \X {today} \X Users /\ new \cap Range(mail) = {} BY <1>8
  <2>2. IsFiniteSet(Papers \X {today} \X Users)
    <3>1. IsFiniteSet(Papers) /\ IsFiniteSet(Users) BY ExpiryAssumption
    <3>2. IsFiniteSet({today} \X Users)
      <4>1. IsFiniteSet({today}) BY FS_Singleton
      <4>2. QED BY <3>1, <4>1, FS_Product
    <3>3. PICK P : P = Papers \X ({today} \X Users) /\ IsFiniteSet(P) BY <3>1, <3>2, FS_Product
    <3>4. PICK f : f = [p \in P |-> <<p[1], p[2][1], p[2][2]>>] OBVIOUS
    <3>5. f \in Surjection(P, Papers \X {today} \X Users)
      <4>1. f \in [P -> Papers \X {today} \X Users] BY <3>3, <3>4
      <4>2. \A x \in Papers \X {today} \X Users : \E p \in P : f[p] = x
        <5> SUFFICES ASSUME NEW x \in Papers \X {today} \X Users PROVE \E p \in P : f[p] = x OBVIOUS
        <5>1. <<x[1], <<x[2], x[3]>>>> \in P BY <3>3
        <5>2. f[<<x[1], <<x[2], x[3]>>>>] = x BY <3>4, <5>1
        <5>3. QED BY <5>1, <5>2
      <4>3. QED BY <4>1, <4>2 DEF Surjection
    <3>6. QED BY <3>3, <3>5, FS_Surjection
  <2>3. new \subseteq Papers \X {today} \X Users BY <1>3, <2>1
  <2>4. IsFiniteSet(new) BY <2>2, <2>3, FS_Subset
  <2>5. QED BY <1>3, <2>1, <2>3, <2>4 DEF Reminders
<1>10. PICK c, t : c = Cardinality(new) /\ t = SetToSeq(new) OBVIOUS
<1>11. /\ c \in Nat /\ t \in Seq(Reminders) /\ Len(t) = c /\ Range(t) = new /\ IsInjective(t)
  <2>1. /\ SetToSeq(new) \in Seq(new) /\ Len(SetToSeq(new)) = Cardinality(new)
        /\ Range(SetToSeq(new)) = new /\ IsInjective(SetToSeq(new))
    BY <1>9, SequenceOfSet
  <2>2. c \in Nat BY <1>9, <1>10, FS_CardinalityType
  <2>3. t \in Seq(Reminders) BY <1>9, <1>10, <2>1, SeqMonotonic
  <2>4. QED BY <1>10, <2>1, <2>2, <2>3
<1>12. /\ mail' \in Seq(Reminders) /\ Len(mail') = used + c
       /\ Range(mail') = Range(mail) \cup new /\ IsInjective(mail')
  <2>1. mail' = mail \o t BY <1>2, <1>10
  <2>2. Range(mail) \cap Range(t) = {} BY <1>9, <1>11
  <2>3. mail \in Seq(Reminders) /\ t \in Seq(Reminders) /\ IsInjective(mail) /\ IsInjective(t)
    BY <1>3, <1>4, <1>11
  <2>4. /\ mail \o t \in Seq(Reminders) /\ Len(mail \o t) = Len(mail) + Len(t)
        /\ Range(mail \o t) = Range(mail) \cup Range(t) /\ IsInjective(mail \o t)
    BY <2>2, <2>3, JoinedSequences
  <2>5. QED BY <1>1, <1>11, <2>1, <2>4
<1>13. Range(mail') = owed' BY <1>2, <1>4, <1>8, <1>12
<1>14. used \in Nat /\ DOMAIN mail = 1..used /\ DOMAIN mail' = 1..(used + c)
  BY <1>1, <1>3, <1>12, LenProperties
<1>15. \A r : r \in (used + 1)..(used + c) <=> r \in DOMAIN mail' \ DOMAIN mail
  BY <1>11, <1>14
<1>16. Enqueue((used + 1)..(used + c)) BY <1>2, <1>10
<1>17. used + c <= Cardinality(Rows) BY <1>2, <1>10
<1>18. DOMAIN mail \subseteq DOMAIN mail' BY <1>11, <1>14
<1>19. QED BY <1>12, <1>13, <1>14, <1>15, <1>16, <1>17, <1>18

LEMMA RunKeeps ==
  ASSUME ExpiryInv, RunOnce
  PROVE  ExpiryInv'
<1>1. PICK rs : /\ Enqueue(rs) /\ \A r \in Rows : r \in rs <=> r \in DOMAIN mail' \ DOMAIN mail
  BY RunSendsWhatIsOwed
<1>2. /\ Range(mail') = owed' /\ IsInjective(mail') /\ mail' \in Seq(Reminders)
      /\ DOMAIN mail \subseteq DOMAIN mail' /\ Len(mail') <= Cardinality(Rows)
  BY RunSendsWhatIsOwed
<1>3. OutboxInv'
  <2>1. OutboxInv BY DEF ExpiryInv
  <2>2. QED BY <1>1, <2>1, EnqueueKeeps
<1>4. UNCHANGED <<today, papers, rules, links>> /\ events' = events \cup EventsAhead
  BY DEF RunOnce
<1>5. EventsJustified'
  <2>1. Window \subseteq Nat
    <3>1. today \in Nat /\ Lookahead \in Nat BY ExpiryAssumption DEF ExpiryInv, ExpiryTyped
    <3>2. QED BY <3>1 DEF Window
  <2>2. papers \subseteq Papers BY DEF ExpiryInv, ExpiryTyped
  <2>3. EventsAhead \subseteq Papers \X Nat BY <2>1, <2>2 DEF EventsAhead
  <2>4. \A ev \in EventsAhead :
          /\ ev[1] \in papers /\ Expires[ev[1]] # NoExpiry
          /\ \E r \in rules : r[1] = PaperType[ev[1]] /\ r[3] /\ Expires[ev[1]] - r[2] = ev[2]
    BY DEF EventsAhead
  <2>5. QED BY <1>4, <2>3, <2>4 DEF ExpiryInv, EventsJustified
<1>6. ExpiryTyped' BY <1>2, <1>4 DEF ExpiryInv, ExpiryTyped
<1>7. \A r \in Rows : status'[r] # "absent" <=> r \in DOMAIN mail'
  <2>1. \A r \in Rows : status[r] # "absent" <=> r \in DOMAIN mail
    BY DEF ExpiryInv, RemindersAsOwed
  <2>2. \A r \in Rows : status'[r] = IF r \in rs THEN "PENDING" ELSE status[r]
    BY <1>1 DEF Enqueue
  <2>3. QED BY <1>1, <1>2, <2>1, <2>2
<1>8. QED BY <1>2, <1>3, <1>5, <1>6, <1>7 DEF ExpiryInv, RowsSuffice, RemindersAsOwed

\* The workers of the outbox settle rows, they make and drop none.
LEMMA DeliverKeepsRows ==
  ASSUME OutboxInv, Deliver \/ UNCHANGED outboxvars
  PROVE  \A r \in Rows : status'[r] = "absent" <=> status[r] = "absent"
<1>1. ASSUME NEW w \in Workers, Commit(w)
      PROVE  \A r \in Rows : status'[r] = "absent" <=> status[r] = "absent"
  <2>1. PICK retry : status' = [r \in Rows |-> IF r \in inserted[w] THEN "SENT"
                                  ELSE IF r \in failed[w] \ retry THEN "FAILED" ELSE status[r]]
    BY <1>1 DEF Commit
  <2>2. \A r \in inserted[w] \cup failed[w] : status[r] = "PENDING"
    BY DEF OutboxInv, BatchesApart, Batch
  <2>3. QED BY <2>1, <2>2
<1>2. UNCHANGED status \/ \E w \in Workers : Commit(w)
  BY DEF Deliver, Work, RetryDue, SelectBatch, Convert, CountFailure, Crash, table, outboxvars
<1>3. QED BY <1>1, <1>2

THEOREM ExpiryInvariance == ExpirySpec => []ExpiryInv
<1>1. ExpiryInit => ExpiryInv
  <2> SUFFICES ASSUME ExpiryInit PROVE ExpiryInv OBVIOUS
  <2>1. OutboxInv
    BY OutboxAssumption
    DEF ExpiryInit, OutboxInit, OutboxInv, OutboxTyped, BatchesApart, AttemptsLeft,
        SettledRowsBalance, Batch
  <2>2. ExpiryTyped /\ EventsJustified BY DEF ExpiryInit, ExpiryTyped, EventsJustified
  <2>3. RowsSuffice
    <3>1. Len(mail) = 0 BY DEF ExpiryInit
    <3>2. Cardinality(Rows) \in Nat BY OutboxAssumption, FS_CardinalityType
    <3>3. QED BY <3>1, <3>2 DEF RowsSuffice
  <2>4. RemindersAsOwed
    BY DEF ExpiryInit, OutboxInit, RemindersAsOwed, Range, IsInjective
  <2>5. QED BY <2>1, <2>2, <2>3, <2>4 DEF ExpiryInv
<1>2. ExpiryInv /\ [ExpiryNext]_<<outboxvars, evars>> => ExpiryInv'
  <2> SUFFICES ASSUME ExpiryInv, [ExpiryNext]_<<outboxvars, evars>> PROVE ExpiryInv' OBVIOUS
  <2>1. ASSUME UNCHANGED outboxvars, UNCHANGED <<mail, owed>>
        PROVE  OutboxInv' /\ RemindersAsOwed' /\ RowsSuffice'
    <3>1. OutboxInv' BY <2>1, OutboxKeeps DEF ExpiryInv
    <3>2. QED BY <2>1, <3>1 DEF ExpiryInv, RemindersAsOwed, RowsSuffice, outboxvars
  <2>2. ASSUME NEW d \in Papers, CreatePaper(d) PROVE ExpiryInv'
    BY <2>1, <2>2 DEF CreatePaper, ExpiryInv, ExpiryTyped, EventsJustified
  <2>3. ASSUME NEW t \in PaperTypes, NEW k \in Offsets, NEW a \in BOOLEAN, CreateRule(t, k, a)
        PROVE ExpiryInv'
    <3>1. /\ rules' = rules \cup {<<t, k, a>>} /\ <<t, k, a>> \in PaperTypes \X Offsets \X BOOLEAN
          /\ UNCHANGED <<today, papers, links, events, mail, owed>> /\ UNCHANGED outboxvars
      BY <2>3 DEF CreateRule
    <3>2. ExpiryTyped' BY <3>1 DEF ExpiryInv, ExpiryTyped
    <3>3. EventsJustified' BY <3>1 DEF ExpiryInv, EventsJustified
    <3>4. QED BY <2>1, <3>1, <3>2, <3>3 DEF ExpiryInv
  <2>4. ASSUME NEW e \in Staff, NEW u \in Users, LinkUser(e, u) PROVE ExpiryInv'
    BY <2>1, <2>4 DEF LinkUser, ExpiryInv, ExpiryTyped, EventsJustified
  <2>5. ASSUME NextDay PROVE ExpiryInv'
    BY <2>1, <2>5 DEF NextDay, ExpiryInv, ExpiryTyped, EventsJustified
  <2>6. ASSUME Deliver \/ UNCHANGED outboxvars, UNCHANGED evars PROVE ExpiryInv'
    <3>1. OutboxInv' BY <2>6, OutboxKeeps DEF ExpiryInv
    <3>2. \A r \in Rows : status'[r] = "absent" <=> status[r] = "absent"
      BY <2>6, DeliverKeepsRows DEF ExpiryInv
    <3>3. RemindersAsOwed' BY <2>6, <3>2 DEF evars, ExpiryInv, RemindersAsOwed
    <3>4. ExpiryTyped' /\ EventsJustified' /\ RowsSuffice'
      BY <2>6 DEF evars, ExpiryInv, ExpiryTyped, EventsJustified, RowsSuffice
    <3>5. QED BY <3>1, <3>3, <3>4 DEF ExpiryInv
  <2>7. QED BY <2>2, <2>3, <2>4, <2>5, <2>6, RunKeeps DEF ExpiryNext, ExpiryStep
<1>3. QED BY <1>1, <1>2, PTL DEF ExpirySpec

\* However events were prepared on earlier days, runs of the job repeated and
\* batches retried, an inbox gets what the rules asked for, once, and no more.
THEOREM RemindersAsOwedCorrect == ExpirySpec => []RemindersAsOwed
<1>1. ExpiryInv => RemindersAsOwed BY DEF ExpiryInv
<1>2. QED BY ExpiryInvariance, <1>1, PTL

\* The books of the outbox agree with the reminders going through it as well.
THEOREM ExpiryRowsBalance == ExpirySpec => []SettledRowsBalance
<1>1. ExpiryInv => SettledRowsBalance BY DEF ExpiryInv, OutboxInv
<1>2. QED BY ExpiryInvariance, <1>1, PTL

-----------------------------------------------------------------------------
(* Recruitment.                                                             *)

Jobs == [kind : {"parse", "embed"}, of : Resumes] \cup [kind : {"screen", "explain"}, of : Runs]

ResumeRows == [status : {"absent", "UPLOADED", "PARSING", "PARSED", "FAILED"},
               embedding : {"PENDING", "EMBEDDING", "EMBEDDED", "FAILED"}]

Applications == [stage : Stages \cup {"Screened", "Hired", "Rejected"},
                 status : {"ACTIVE", "HIRED", "REJECTED"}, source : Runs \cup {NoSource}]

\* Steps of a worker that keep nothing but the job.
PlainSteps ==
  {"begin", "parsing", "follow", "embedding", "insert", "update", "mark", "starting", "retrieving"}

WorkerStates ==
  {Free} \cup [at : PlainSteps, job : Jobs]
         \cup [at : {"reranking", "ranked"}, job : Jobs, pool : SUBSET Resumes]
         \cup [at : {"explaining"}, job : Jobs, todo : Seq(Resumes)]

Requests ==
  {NoRequest} \cup [at : {"embeddings"}, of : Resumes] \cup [at : {"cancel"}, of : Runs]
              \cup [at : {"shortlist"}, of : Runs, new : SUBSET Resumes]

RowsTyped ==
  /\ resume \in [Resumes -> ResumeRows]
  /\ views \subseteq Resumes
  /\ run \in [Runs -> {"absent", "QUEUED", "RUNNING", "DONE", "FAILED", "CANCELLED"}]
  /\ results \in [Runs -> Seq(Resumes)]
  /\ explained \subseteq Runs \X Resumes
  /\ application \in [Resumes -> SUBSET Applications]

JobsTyped ==
  /\ queue \in Seq(Jobs) /\ lost \subseteq Jobs /\ unsent \subseteq Jobs
  /\ hrworker \in [HrWorkers -> WorkerStates]
  /\ request \in Requests

Works(w, job) == hrworker[w] # Free /\ hrworker[w].job = job

QueuedOnce(q, job) == \A i, j \in DOMAIN q : q[i] = job /\ q[j] = job => i = j

\* A job is to be sent, in the queue, with a worker or among the lost ones.
Nowhere(job) ==
  job \notin Range(queue) \cup lost \cup unsent /\ \A w \in HrWorkers : ~Works(w, job)

\* It is in one of these places.
InOnePlace(job) ==
  /\ QueuedOnce(queue, job)
  /\ \A v, w \in HrWorkers : Works(v, job) /\ Works(w, job) => v = w
  /\ job \in Range(queue) => job \notin lost \cup unsent /\ \A w \in HrWorkers : ~Works(w, job)
  /\ job \in lost \cup unsent => \A w \in HrWorkers : ~Works(w, job)
  /\ job \notin lost \cap unsent

\* There is one job for a run, and none before it is created.
ScreenedOnce ==
  \A x \in Runs : /\ InOnePlace(Job("screen", x))
                  /\ run[x] = "absent" => Nowhere(Job("screen", x))

Ranking == {"starting", "retrieving", "reranking", "ranked"}

\* A worker ranks a run that has no results; it explains what is in them; it
\* marks a resume whose vectors are stored.
Stands(q) ==
  /\ q.at \in Ranking => q.job.kind = "screen" /\ results[q.job.of] = <<>>
  /\ q.at = "explaining" =>
       q.job.kind = "explain" /\ Range(q.todo) \subseteq Range(results[q.job.of])
  /\ q.at = "mark" => q.job.of \in views

WorkersStand == \A w \in HrWorkers : Stands(hrworker[w])

\* A run with results is not ranked again.
ResultsStand ==
  \A x \in Runs : results[x] # <<>> => run[x] \in {"DONE", "CANCELLED"} /\ Job("screen", x) \notin unsent

RequestStands ==
  /\ request.at = "cancel" => run[request.of] # "absent"
  /\ request.at = "shortlist" => request.new \subseteq Range(results[request.of])

RecruitmentInv ==
  /\ RowsTyped /\ JobsTyped /\ ScreenedOnce /\ WorkersStand /\ ResultsStand /\ RequestStands
  /\ EmbeddedIsIndexed /\ WorkFollowsResults

\* The jobs of runs are like no other.
LEMMA ScreenJobs ==
  /\ \A x, y : Job("screen", x) = Job("screen", y) => x = y
  /\ \A x, y, kind : kind # "screen" => Job(kind, y) # Job("screen", x)
  /\ \A job \in Jobs : /\ job = Job(job.kind, job.of)
                       /\ job.kind \in {"parse", "embed"} => job.of \in Resumes
                       /\ job.kind \in {"screen", "explain"} => job.of \in Runs
<1>1. \A x, y, k, l : Job(k, x) = Job(l, y) => k = l /\ x = y
  <2> SUFFICES ASSUME NEW x, NEW y, NEW k, NEW l, Job(k, x) = Job(l, y) PROVE k = l /\ x = y
    OBVIOUS
  <2>1. PICK m, n : m = Job(k, x) /\ n = Job(l, y) OBVIOUS
  <2>2. m.kind = k /\ m.of = x /\ n.kind = l /\ n.of = y BY <2>1 DEF Job
  <2>3. QED BY <2>1, <2>2
<1>2. \A job \in Jobs : /\ job = Job(job.kind, job.of)
                        /\ job.kind \in {"parse", "embed"} => job.of \in Resumes
                        /\ job.kind \in {"screen", "explain"} => job.of \in Runs
  BY DEF Jobs, Job
<1>3. QED BY <1>1, <1>2

\* A job more in the queue, or one less.
LEMMA JobQueued ==
  ASSUME NEW q \in Seq(Jobs), NEW k \in Jobs
  PROVE  /\ Append(q, k) \in Seq(Jobs) /\ Range(Append(q, k)) = Range(q) \cup {k}
         /\ \A job : QueuedOnce(q, job) /\ (job = k => job \notin Range(q))
                       => QueuedOnce(Append(q, k), job)
<1>1. PICK n, t : n = Len(q) /\ t = Append(q, k) OBVIOUS
<1>2. /\ n \in Nat /\ DOMAIN q = 1..n /\ t \in Seq(Jobs) /\ DOMAIN t = 1..n + 1
      /\ t[n + 1] = k /\ \A i \in 1..n : t[i] = q[i]
  BY <1>1
<1>3. DOMAIN t = DOMAIN q \cup {n + 1} /\ n + 1 \notin DOMAIN q BY <1>2
<1>4. Range(t) = Range(q) \cup {k} BY <1>2, <1>3 DEF Range
<1>5. \A job : QueuedOnce(q, job) /\ (job = k => job \notin Range(q)) => QueuedOnce(t, job)
  BY <1>2, <1>3 DEF QueuedOnce, Range
<1>6. QED BY <1>1, <1>2, <1>4, <1>5

LEMMA JobTaken ==
  ASSUME NEW q \in Seq(Jobs), q # <<>>
  PROVE  /\ Tail(q) \in Seq(Jobs) /\ Head(q) \in Jobs /\ Head(q) \in Range(q)
         /\ Range(Tail(q)) \subseteq Range(q)
         /\ \A job : QueuedOnce(q, job) => /\ QueuedOnce(Tail(q), job)
                                           /\ job = Head(q) => job \notin Range(Tail(q))
<1>1. PICK n, t : n = Len(q) /\ t = Tail(q) OBVIOUS
<1>2. /\ n \in Nat \ {0} /\ DOMAIN q = 1..n /\ t \in Seq(Jobs) /\ DOMAIN t = 1..n - 1
      /\ Head(q) = q[1] /\ \A i \in 1..n - 1 : t[i] = q[i + 1]
  BY <1>1
<1>3. \A i \in DOMAIN t : i \in Nat /\ i + 1 \in DOMAIN q /\ i + 1 # 1 /\ t[i] = q[i + 1] BY <1>2
<1>4. 1 \in DOMAIN q /\ q[1] \in Jobs BY <1>2
<1>5. Range(t) \subseteq Range(q) /\ q[1] \in Range(q) BY <1>3, <1>4 DEF Range
<1>6. ASSUME NEW job, QueuedOnce(q, job) PROVE QueuedOnce(t, job)
  <2> SUFFICES ASSUME NEW i \in DOMAIN t, NEW j \in DOMAIN t, t[i] = job, t[j] = job PROVE i = j
    BY DEF QueuedOnce
  <2>1. i + 1 = j + 1 BY <1>3, <1>6 DEF QueuedOnce
  <2>2. QED BY <1>3, <2>1
<1>7. ASSUME NEW job, QueuedOnce(q, job), job = q[1] PROVE job \notin Range(t)
  BY <1>3, <1>4, <1>7 DEF QueuedOnce, Range
<1>8. QED BY <1>1, <1>2, <1>4, <1>5, <1>6, <1>7

\* A worker goes on with its job, or drops it.
WorkerMove(w, q) ==
  /\ hrworker' = [hrworker EXCEPT ![w] = q] /\ q \in WorkerStates
  /\ hrworker[w] # Free /\ (q # Free => q.job = hrworker[w].job)

\* What a worker pushes is not the job of a run.
PushesOther ==
  queue' = queue \/ \E job \in Jobs : job.kind # "screen" /\ queue' = Append(queue, job)

\* What a worker has at a step of its job.
LEMMA WorkerAt ==
  ASSUME JobsTyped, NEW w \in HrWorkers, hrworker[w].at # "free"
  PROVE  /\ hrworker[w] # Free /\ hrworker[w].job \in Jobs /\ hrworker[w] \in WorkerStates
         /\ hrworker[w].job.kind \in {"parse", "embed"} => Of(w) \in Resumes
         /\ hrworker[w].job.kind \in {"screen", "explain"} => Of(w) \in Runs
         /\ hrworker[w].job = Job(hrworker[w].job.kind, Of(w))
         /\ hrworker[w].at \in {"reranking", "ranked"} => hrworker[w].pool \subseteq Resumes
         /\ hrworker[w].at = "explaining" => hrworker[w].todo \in Seq(Resumes)
<1>1. PICK q : q = hrworker[w] /\ q \in WorkerStates /\ q.at # "free" BY DEF JobsTyped
<1>2. q # Free BY <1>1 DEF Free
<1>3. /\ q.job \in Jobs
      /\ q.at \in {"reranking", "ranked"} => q.pool \subseteq Resumes
      /\ q.at = "explaining" => q.todo \in Seq(Resumes)
  BY <1>1, <1>2 DEF WorkerStates, PlainSteps
<1>4. QED BY <1>1, <1>2, <1>3, ScreenJobs DEF Of

LEMMA GotoMoves ==
  ASSUME JobsTyped, NEW w \in HrWorkers, NEW step, Goto(w, step),
         \/ hrworker[w].at \in PlainSteps /\ step \in PlainSteps
         \/ hrworker[w].at \in {"reranking", "ranked"} /\ step \in {"reranking", "ranked"}
  PROVE  \E q : WorkerMove(w, q) /\ q.at = step /\ q # Free
<1>1. PICK p : p = hrworker[w] /\ p \in WorkerStates /\ p # Free
  <2>1. hrworker[w].at # "free" BY DEF PlainSteps
  <2>2. QED BY <2>1 DEF JobsTyped, Free
<1>2. PICK q : q = [p EXCEPT !.at = step] OBVIOUS
<1>3. q \in WorkerStates /\ q.at = step /\ q.job = p.job
  <2>1. CASE p.at \in PlainSteps /\ step \in PlainSteps
    <3>1. p \in [at : PlainSteps, job : Jobs] BY <1>1, <2>1 DEF WorkerStates, PlainSteps
    <3>2. q \in [at : PlainSteps, job : Jobs] /\ q.at = step /\ q.job = p.job
      BY <1>2, <2>1, <3>1
    <3>3. QED BY <3>2 DEF WorkerStates
  <2>2. CASE p.at \in {"reranking", "ranked"} /\ step \in {"reranking", "ranked"}
    <3>1. p \in [at : {"reranking", "ranked"}, job : Jobs, pool : SUBSET Resumes]
      BY <1>1, <2>2 DEF WorkerStates, PlainSteps
    <3>2. /\ q \in [at : {"reranking", "ranked"}, job : Jobs, pool : SUBSET Resumes]
          /\ q.at = step /\ q.job = p.job
      BY <1>2, <2>2, <3>1
    <3>3. QED BY <3>2 DEF WorkerStates
  <2>3. QED BY <1>1, <2>1, <2>2
<1>4. q # Free BY <1>3 DEF Free, PlainSteps
<1>5. hrworker' = [hrworker EXCEPT ![w] = q] BY <1>1, <1>2 DEF Goto
<1>6. QED BY <1>1, <1>3, <1>4, <1>5 DEF WorkerMove

LEMMA FinishMoves ==
  ASSUME NEW w \in HrWorkers, hrworker[w].at # "free", Finish(w)
  PROVE  WorkerMove(w, Free) /\ Stands(Free)'
<1>1. hrworker[w] # Free BY DEF Free
<1>2. Free \in WorkerStates BY DEF WorkerStates
<1>3. Free.at = "free" BY DEF Free
<1>4. Stands(Free)' BY <1>3 DEF Stands, Ranking
<1>5. QED BY <1>1, <1>2, <1>4 DEF WorkerMove, Finish

LEMMA JobsStay ==
  ASSUME JobsTyped, NEW w \in HrWorkers, NEW q, WorkerMove(w, q),
         PushesOther, UNCHANGED <<lost, unsent, request>>
  PROVE  /\ JobsTyped'
         /\ \A v \in HrWorkers : hrworker'[v] = IF v = w THEN q ELSE hrworker[v]
         /\ \A v \in HrWorkers : \A job : Works(v, job)' => Works(v, job)
         /\ \A x \in Runs : LET job == Job("screen", x) IN
              /\ QueuedOnce(queue, job) => QueuedOnce(queue', job)
              /\ job \in Range(queue') => job \in Range(queue)
<1>1. \A v \in HrWorkers : hrworker'[v] = IF v = w THEN q ELSE hrworker[v]
  BY DEF JobsTyped, WorkerMove
<1>2. \A v \in HrWorkers : \A job : Works(v, job)' => Works(v, job) BY <1>1 DEF Works, WorkerMove
<1>3. /\ queue' \in Seq(Jobs)
      /\ \A x \in Runs : /\ QueuedOnce(queue, Job("screen", x)) => QueuedOnce(queue', Job("screen", x))
                         /\ Job("screen", x) \in Range(queue') => Job("screen", x) \in Range(queue)
  <2>1. queue \in Seq(Jobs) BY DEF JobsTyped
  <2>2. CASE queue' = queue BY <2>1, <2>2
  <2>3. ASSUME NEW k \in Jobs, k.kind # "screen", queue' = Append(queue, k) PROVE <1>3
    <3>1. \A x \in Runs : k # Job("screen", x) BY <2>3, ScreenJobs
    <3>2. QED BY <2>1, <2>3, <3>1, JobQueued
  <2>4. QED BY <2>2, <2>3 DEF PushesOther
<1>4. JobsTyped'
  <2>1. hrworker' \in [HrWorkers -> WorkerStates] BY DEF JobsTyped, WorkerMove
  <2>2. QED BY <1>3, <2>1 DEF JobsTyped
<1>5. QED BY <1>1, <1>2, <1>3, <1>4

\* What jobs are done on stays as it is while places of jobs get fewer.
LEMMA OnceKept ==
  ASSUME ScreenedOnce,
         \A x \in Runs : LET job == Job("screen", x) IN
           /\ QueuedOnce(queue, job) => QueuedOnce(queue', job)
           /\ job \in Range(queue') => job \in Range(queue)
           /\ job \in lost' => job \in lost
           /\ job \in unsent' => job \in unsent
           /\ \A v \in HrWorkers : Works(v, job)' => Works(v, job)
           /\ run'[x] = "absent" => run[x] = "absent"
  PROVE  ScreenedOnce'
<1> SUFFICES ASSUME NEW x \in Runs, NEW job, job = Job("screen", x)
             PROVE  InOnePlace(job)' /\ (run'[x] = "absent" => Nowhere(job)')
  BY DEF ScreenedOnce
<1>1. InOnePlace(job) /\ (run[x] = "absent" => Nowhere(job)) BY DEF ScreenedOnce
<1>2. QED BY <1>1 DEF InOnePlace, Nowhere

\* Results are written once, by the worker that has the job of the run.
ResultsMove(w, q) ==
  /\ results' \in [Runs -> Seq(Resumes)]
  /\ \A x \in Runs :
       \/ results'[x] = results[x]
       \/ results[x] = <<>> /\ hrworker[w].job = Job("screen", x) /\ q.at \notin Ranking
  /\ \A x \in Runs : /\ run'[x] = "absent" => run[x] = "absent"
                     /\ results'[x] # <<>> => run'[x] \in {"DONE", "CANCELLED"}

\* A step of a worker keeps what relates jobs, runs and results.
LEMMA WorkerFrame ==
  ASSUME RecruitmentInv, NEW w \in HrWorkers, NEW q, WorkerMove(w, q), Stands(q)',
         PushesOther, UNCHANGED <<lost, unsent, request>>, ResultsMove(w, q), views \subseteq views'
  PROVE  /\ JobsTyped' /\ ScreenedOnce' /\ WorkersStand' /\ ResultsStand' /\ RequestStands'
         /\ \A x \in Runs : Range(results[x]) \subseteq Range(results'[x])
<1>1. JobsTyped /\ ScreenedOnce /\ WorkersStand /\ ResultsStand /\ RequestStands
  BY DEF RecruitmentInv
<1>2. /\ JobsTyped'
      /\ \A v \in HrWorkers : hrworker'[v] = IF v = w THEN q ELSE hrworker[v]
      /\ \A v \in HrWorkers : \A job : Works(v, job)' => Works(v, job)
      /\ \A x \in Runs : LET job == Job("screen", x) IN
           /\ QueuedOnce(queue, job) => QueuedOnce(queue', job)
           /\ job \in Range(queue') => job \in Range(queue)
  BY <1>1, JobsStay
<1>3. ScreenedOnce' BY <1>1, <1>2, OnceKept DEF ResultsMove
<1>4. \A x \in Runs : Range(results[x]) \subseteq Range(results'[x])
  <2>1. Range(<<>>) = {} BY DEF Range
  <2>2. QED BY <2>1 DEF ResultsMove
<1>5. ASSUME NEW v \in HrWorkers, v # w PROVE Stands(hrworker[v])'
  <2>1. hrworker'[v] = hrworker[v] /\ Stands(hrworker[v]) BY <1>1, <1>2, <1>5 DEF WorkersStand
  <2>2. PICK p : p = hrworker[v] OBVIOUS
  <2>3. p.at \in Ranking => p.job.kind = "screen" /\ results'[p.job.of] = <<>>
    <3> SUFFICES ASSUME p.at \in Ranking PROVE p.job.kind = "screen" /\ results'[p.job.of] = <<>>
      OBVIOUS
    <3>1. p.job.kind = "screen" /\ results[p.job.of] = <<>> BY <2>1, <2>2 DEF Stands
    <3>2. p # Free /\ p.job.of \in Runs /\ p.job = Job("screen", p.job.of)
      <4>1. p.at # "free" BY DEF Ranking
      <4>2. QED BY <1>1, <2>2, <3>1, <4>1, WorkerAt DEF Of
    <3>3. Works(v, Job("screen", p.job.of)) BY <2>2, <3>2 DEF Works
    <3>4. hrworker[w].job # Job("screen", p.job.of)
      <4>1. ~Works(w, Job("screen", p.job.of)) BY <1>1, <1>5, <3>2, <3>3 DEF ScreenedOnce, InOnePlace, Nowhere
      <4>2. QED BY <4>1 DEF Works, WorkerMove
    <3>5. QED BY <3>1, <3>2, <3>4 DEF ResultsMove
  <2>4. p.at = "explaining" =>
          p.job.kind = "explain" /\ Range(p.todo) \subseteq Range(results'[p.job.of])
    <3> SUFFICES ASSUME p.at = "explaining"
                 PROVE  p.job.kind = "explain" /\ Range(p.todo) \subseteq Range(results'[p.job.of])
      OBVIOUS
    <3>1. p.job.kind = "explain" /\ Range(p.todo) \subseteq Range(results[p.job.of])
      BY <2>1, <2>2 DEF Stands
    <3>2. p.job.of \in Runs BY <1>1, <2>2, <3>1, WorkerAt DEF Of
    <3>3. QED BY <1>4, <3>1, <3>2
  <2>5. p.at = "mark" => p.job.of \in views' BY <2>1, <2>2 DEF Stands
  <2>6. Stands(p)' BY <2>3, <2>4, <2>5 DEF Stands
  <2>7. QED BY <2>1, <2>2, <2>6 DEF Stands
<1>6. WorkersStand'
  <2>1. ASSUME NEW v \in HrWorkers PROVE Stands(hrworker[v])'
    <3>1. CASE v # w BY <1>5, <3>1
    <3>2. CASE v = w
      <4>1. hrworker'[v] = q BY <1>2, <3>2
      <4>2. QED BY <4>1 DEF Stands
    <3>3. QED BY <3>1, <3>2
  <2>2. QED BY <2>1 DEF WorkersStand
<1>7. ResultsStand'
  <2> SUFFICES ASSUME NEW x \in Runs, results'[x] # <<>>
               PROVE  run'[x] \in {"DONE", "CANCELLED"} /\ Job("screen", x) \notin unsent'
    BY DEF ResultsStand
  <2>1. run'[x] \in {"DONE", "CANCELLED"} BY DEF ResultsMove
  <2>2. CASE results'[x] = results[x] BY <1>1, <2>1, <2>2 DEF ResultsStand
  <2>3. CASE hrworker[w].job = Job("screen", x)
    <3>1. Works(w, Job("screen", x)) BY <2>3 DEF Works, WorkerMove
    <3>2. Job("screen", x) \notin unsent BY <1>1, <3>1 DEF ScreenedOnce, InOnePlace, Nowhere
    <3>3. QED BY <2>1, <3>2
  <2>4. QED BY <2>2, <2>3 DEF ResultsMove
<1>8. RequestStands'
  <2>1. PICK rq : rq = request /\ rq \in Requests BY <1>1 DEF JobsTyped
  <2>2. request' = rq BY <2>1
  <2>3. rq.at = "cancel" => rq.of \in Runs /\ run[rq.of] # "absent"
    BY <1>1, <2>1 DEF RequestStands, Requests, NoRequest
  <2>4. rq.at = "shortlist" => rq.of \in Runs /\ rq.new \subseteq Range(results[rq.of])
    BY <1>1, <2>1 DEF RequestStands, Requests, NoRequest
  <2>5. rq.at = "cancel" => run'[rq.of] # "absent" BY <2>3 DEF ResultsMove
  <2>6. rq.at = "shortlist" => rq.new \subseteq Range(results'[rq.of]) BY <1>4, <2>4
  <2>7. QED BY <2>2, <2>5, <2>6 DEF RequestStands
<1>9. QED BY <1>2, <1>3, <1>4, <1>6, <1>7, <1>8

\* Work on resumes leaves runs and what is built on them alone.
LEMMA ResumeWork ==
  ASSUME RecruitmentInv, NEW w \in HrWorkers, NEW q, WorkerMove(w, q), Stands(q)',
         PushesOther, UNCHANGED <<lost, unsent, request>>,
         UNCHANGED <<run, results, explained, application>>,
         views \subseteq views', views' \subseteq Resumes,
         resume' \in [Resumes -> ResumeRows], EmbeddedIsIndexed'
  PROVE  RecruitmentInv'
<1>1. RowsTyped' BY DEF RecruitmentInv, RowsTyped
<1>2. ResultsMove(w, q) BY DEF RecruitmentInv, RowsTyped, ResultsStand, ResultsMove
<1>3. JobsTyped' /\ ScreenedOnce' /\ WorkersStand' /\ ResultsStand' /\ RequestStands'
  BY <1>2, WorkerFrame
<1>4. WorkFollowsResults' BY DEF RecruitmentInv, WorkFollowsResults
<1>5. QED BY <1>1, <1>3, <1>4 DEF RecruitmentInv

\* A resume that is shown as EMBEDDED has its vectors stored, or had before.
LEMMA ResumeSet ==
  ASSUME RecruitmentInv, NEW r \in Resumes, NEW s, NEW e, SetResume(r, s, e),
         s \in {"PARSING", "PARSED", "FAILED"},
         \/ e = resume[r].embedding
         \/ e \in {"PENDING", "EMBEDDING", "FAILED"}
         \/ e = "EMBEDDED" /\ r \in views
  PROVE  /\ views' = views /\ views \subseteq Resumes
         /\ resume' \in [Resumes -> ResumeRows] /\ EmbeddedIsIndexed'
         /\ UNCHANGED <<run, results, explained, application>>
<1>1. resume \in [Resumes -> ResumeRows] /\ views \subseteq Resumes /\ EmbeddedIsIndexed
  BY DEF RecruitmentInv, RowsTyped
<1>2. PICK row : row = [status |-> s, embedding |-> e] OBVIOUS
<1>3. row \in ResumeRows /\ (row.embedding = "EMBEDDED" => r \in views)
  <2>1. resume[r] \in ResumeRows BY <1>1
  <2>2. resume[r].embedding \in {"PENDING", "EMBEDDING", "EMBEDDED", "FAILED"}
    BY <2>1 DEF ResumeRows
  <2>3. QED BY <1>1, <1>2, <2>2 DEF ResumeRows, EmbeddedIsIndexed
<1>4. resume' = [resume EXCEPT ![r] = row] /\ views' = views BY <1>2 DEF SetResume
<1>5. \A t \in Resumes : resume'[t] = IF t = r THEN row ELSE resume[t] BY <1>1, <1>4
<1>6. EmbeddedIsIndexed' BY <1>1, <1>3, <1>4, <1>5 DEF EmbeddedIsIndexed
<1>7. QED BY <1>1, <1>3, <1>4, <1>6 DEF SetResume

LEMMA ParsingKeeps ==
  ASSUME RecruitmentInv, NEW w \in HrWorkers,
         ParseBegin(w) \/ ParseCommit(w) \/ ParseFollow(w) \/ ParseFails(w)
  PROVE  RecruitmentInv'
<1>1. JobsTyped /\ RowsTyped /\ EmbeddedIsIndexed BY DEF RecruitmentInv
<1>2. /\ hrworker[w].job.kind = "parse" /\ hrworker[w].at \in {"begin", "parsing", "follow"}
      /\ UNCHANGED <<lost, unsent, request>>
  BY DEF ParseBegin, ParseCommit, ParseFollow, ParseFails, At, redis, Push
<1>3. hrworker[w].at # "free" /\ hrworker[w].at \in PlainSteps BY <1>2 DEF PlainSteps
<1>4. Of(w) \in Resumes BY <1>1, <1>2, <1>3, WorkerAt
<1>5. PushesOther
  <2>1. CASE ParseFollow(w)
    <3>1. Job("embed", Of(w)) \in Jobs /\ Job("embed", Of(w)).kind = "embed"
      BY <1>4 DEF Job, Jobs
    <3>2. QED BY <2>1, <3>1 DEF ParseFollow, Push, PushesOther
  <2>2. CASE ParseBegin(w) \/ ParseCommit(w) \/ ParseFails(w)
    BY <2>2 DEF ParseBegin, ParseCommit, ParseFails, redis, PushesOther
  <2>3. QED BY <2>1, <2>2
<1>6. \E q : WorkerMove(w, q) /\ Stands(q)'
  <2>1. CASE Finish(w) BY <1>3, <2>1, FinishMoves
  <2>2. ASSUME NEW step \in {"parsing", "follow"}, Goto(w, step) PROVE <1>6
    <3>1. step \in PlainSteps BY DEF PlainSteps
    <3>2. PICK q : WorkerMove(w, q) /\ q.at = step BY <1>1, <1>3, <2>2, <3>1, GotoMoves
    <3>3. Stands(q)' BY <3>2 DEF Stands, Ranking
    <3>4. QED BY <3>2, <3>3
  <2>3. Finish(w) \/ Goto(w, "parsing") \/ Goto(w, "follow")
    BY DEF ParseBegin, ParseCommit, ParseFollow, ParseFails
  <2>4. QED BY <2>1, <2>2, <2>3
<1>7. /\ views' = views /\ views \subseteq Resumes
      /\ resume' \in [Resumes -> ResumeRows] /\ EmbeddedIsIndexed'
      /\ UNCHANGED <<run, results, explained, application>>
  <2>1. CASE UNCHANGED rows BY <1>1, <2>1 DEF rows, RowsTyped, EmbeddedIsIndexed
  <2>2. \/ UNCHANGED rows
        \/ SetResume(Of(w), "PARSING", resume[Of(w)].embedding)
        \/ SetResume(Of(w), "PARSED", "PENDING")
        \/ SetResume(Of(w), "FAILED", resume[Of(w)].embedding)
    BY DEF ParseBegin, ParseCommit, ParseFollow, ParseFails
  <2>3. PICK r \in Resumes : r = Of(w) BY <1>4
  <2>4. PICK e : e = resume[r].embedding OBVIOUS
  <2>5. \/ UNCHANGED rows
        \/ \E s \in {"PARSING", "PARSED", "FAILED"}, f \in {e, "PENDING"} : SetResume(r, s, f)
    BY <2>2, <2>3, <2>4
  <2>6. ASSUME NEW s \in {"PARSING", "PARSED", "FAILED"}, NEW f \in {e, "PENDING"}, SetResume(r, s, f)
        PROVE  <1>7
    <3>1. f = resume[r].embedding \/ f = "PENDING" BY <2>4
    <3>2. QED BY <2>6, <3>1, ResumeSet
  <2>7. QED BY <2>1, <2>5, <2>6
<1>8. views \subseteq views' /\ views' \subseteq Resumes BY <1>7
<1>9. QED BY <1>2, <1>5, <1>6, <1>7, <1>8, ResumeWork

LEMMA EmbeddingKeeps ==
  ASSUME RecruitmentInv, NEW w \in HrWorkers,
         EmbedBegin(w) \/ EmbedLook(w) \/ EmbedStore(w) \/ EmbedMark(w) \/ EmbedFails(w)
  PROVE  RecruitmentInv'
<1>1. JobsTyped /\ RowsTyped /\ EmbeddedIsIndexed /\ WorkersStand BY DEF RecruitmentInv
<1>2. /\ hrworker[w].job.kind = "embed"
      /\ hrworker[w].at \in {"begin", "embedding", "insert", "update", "mark"}
      /\ UNCHANGED <<queue, lost, unsent, request>>
  BY DEF EmbedBegin, EmbedLook, EmbedStore, EmbedMark, EmbedFails, At, redis
<1>3. hrworker[w].at # "free" /\ hrworker[w].at \in PlainSteps BY <1>2 DEF PlainSteps
<1>4. Of(w) \in Resumes BY <1>1, <1>2, <1>3, WorkerAt
<1>5. PushesOther BY <1>2 DEF PushesOther
<1>6. \E q : WorkerMove(w, q) /\ Stands(q)'
  <2>1. CASE Finish(w) BY <1>3, <2>1, FinishMoves
  <2>2. ASSUME NEW step \in {"embedding", "insert", "update"}, Goto(w, step) PROVE <1>6
    <3>1. step \in PlainSteps BY DEF PlainSteps
    <3>2. PICK q : WorkerMove(w, q) /\ q.at = step BY <1>1, <1>3, <2>2, <3>1, GotoMoves
    <3>3. Stands(q)' BY <3>2 DEF Stands, Ranking
    <3>4. QED BY <3>2, <3>3
  <2>3. CASE EmbedStore(w)
    <3>1. Goto(w, "mark") /\ "mark" \in PlainSteps /\ views' = views \cup {Of(w)}
      BY <2>3 DEF EmbedStore, PlainSteps
    <3>2. PICK q : WorkerMove(w, q) /\ q.at = "mark" /\ q # Free BY <1>1, <1>3, <3>1, GotoMoves
    <3>3. q.job.of \in views' BY <3>1, <3>2 DEF WorkerMove, Of
    <3>4. Stands(q)' BY <3>2, <3>3 DEF Stands, Ranking
    <3>5. QED BY <3>2, <3>4
  <2>4. Finish(w) \/ Goto(w, "embedding") \/ Goto(w, "insert") \/ Goto(w, "update") \/ EmbedStore(w)
    BY DEF EmbedBegin, EmbedLook, EmbedMark, EmbedFails
  <2>5. QED BY <2>1, <2>2, <2>3, <2>4
<1>7. /\ views \subseteq views' /\ views' \subseteq Resumes
      /\ resume' \in [Resumes -> ResumeRows] /\ EmbeddedIsIndexed'
      /\ UNCHANGED <<run, results, explained, application>>
  <2>1. CASE UNCHANGED rows BY <1>1, <2>1 DEF rows, RowsTyped, EmbeddedIsIndexed
  <2>2. CASE EmbedStore(w) BY <1>1, <1>4, <2>2 DEF EmbedStore, RowsTyped, EmbeddedIsIndexed
  <2>3. CASE EmbedMark(w)
    <3>1. Of(w) \in views
      <4>1. Stands(hrworker[w]) /\ hrworker[w].at = "mark" BY <1>1, <2>3 DEF WorkersStand, EmbedMark, At
      <4>2. QED BY <4>1 DEF Stands, Of
    <3>2. SetResume(Of(w), "PARSED", "EMBEDDED") BY <2>3 DEF EmbedMark
    <3>3. PICK r \in Resumes : r = Of(w) BY <1>4
    <3>4. SetResume(r, "PARSED", "EMBEDDED") /\ r \in views BY <3>1, <3>2, <3>3
    <3>5. QED BY <3>4, ResumeSet
  <2>4. CASE EmbedBegin(w) \/ EmbedFails(w)
    <3>1. PICK r \in Resumes : r = Of(w) BY <1>4
    <3>2. UNCHANGED rows \/ \E e \in {"EMBEDDING", "FAILED"} : SetResume(r, "PARSED", e)
      BY <2>4, <3>1 DEF EmbedBegin, EmbedFails
    <3>3. ASSUME NEW e \in {"EMBEDDING", "FAILED"}, SetResume(r, "PARSED", e) PROVE <1>7
      BY <3>3, ResumeSet
    <3>4. QED BY <2>1, <3>2, <3>3
  <2>5. CASE EmbedLook(w) BY <2>1, <2>5 DEF EmbedLook
  <2>6. QED BY <2>2, <2>3, <2>4, <2>5
<1>8. QED BY <1>2, <1>5, <1>6, <1>7, ResumeWork

RunStates == {"absent", "QUEUED", "RUNNING", "DONE", "FAILED", "CANCELLED"}

\* Work on runs leaves resumes alone; what it explains is in the results.
LEMMA RunWork ==
  ASSUME RecruitmentInv, NEW w \in HrWorkers, NEW q, WorkerMove(w, q), Stands(q)',
         PushesOther, UNCHANGED <<lost, unsent, request>>,
         UNCHANGED <<resume, views, application>>, ResultsMove(w, q), run' \in [Runs -> RunStates],
         explained' \subseteq Runs \X Resumes,
         \A e \in explained' : e \in explained \/ e[2] \in Range(results[e[1]])
  PROVE  RecruitmentInv'
<1>1. RowsTyped /\ EmbeddedIsIndexed /\ WorkFollowsResults BY DEF RecruitmentInv
<1>2. RowsTyped' BY <1>1 DEF RowsTyped, ResultsMove, RunStates
<1>3. /\ JobsTyped' /\ ScreenedOnce' /\ WorkersStand' /\ ResultsStand' /\ RequestStands'
      /\ \A x \in Runs : Range(results[x]) \subseteq Range(results'[x])
  BY WorkerFrame
<1>4. EmbeddedIsIndexed' BY <1>1 DEF EmbeddedIsIndexed
<1>5. \A r \in Resumes : \A a \in application[r] : a.source \in Runs \cup {NoSource}
  <2>1. \A a \in Applications : a.source \in Runs \cup {NoSource} BY DEF Applications
  <2>2. QED BY <1>1, <2>1 DEF RowsTyped
<1>6. \A e \in explained' : e[1] \in Runs /\ e[2] \in Range(results[e[1]])
  BY <1>1 DEF WorkFollowsResults
<1>7. WorkFollowsResults' BY <1>1, <1>3, <1>5, <1>6 DEF WorkFollowsResults
<1>8. QED BY <1>2, <1>3, <1>4, <1>7 DEF RecruitmentInv

\* A worker does not touch the results, and sets its run only while there are none.
LEMMA RunSet ==
  ASSUME RecruitmentInv, NEW w \in HrWorkers, NEW q, UNCHANGED results,
         \/ UNCHANGED run
         \/ \E x \in Runs, s \in RunStates \ {"absent"} :
              run' = [run EXCEPT ![x] = s] /\ results[x] = <<>>
  PROVE  ResultsMove(w, q) /\ run' \in [Runs -> RunStates]
<1>1. run \in [Runs -> RunStates] /\ results \in [Runs -> Seq(Resumes)]
  BY DEF RecruitmentInv, RowsTyped, RunStates
<1>2. \A x \in Runs : results[x] # <<>> => run[x] \in {"DONE", "CANCELLED"}
  BY DEF RecruitmentInv, ResultsStand
<1>3. CASE UNCHANGED run BY <1>1, <1>2, <1>3 DEF ResultsMove
<1>4. ASSUME NEW x \in Runs, NEW s \in RunStates \ {"absent"},
             run' = [run EXCEPT ![x] = s], results[x] = <<>>
      PROVE  ResultsMove(w, q) /\ run' \in [Runs -> RunStates]
  <2>1. run' \in [Runs -> RunStates] /\ \A y \in Runs : run'[y] = IF y = x THEN s ELSE run[y]
    BY <1>1, <1>4
  <2>2. s # "absent" OBVIOUS
  <2>3. QED BY <1>1, <1>2, <1>4, <2>1, <2>2 DEF ResultsMove
<1>5. QED BY <1>3, <1>4

LEMMA RankingStarts ==
  ASSUME RecruitmentInv, NEW w \in HrWorkers, RunLook(w) \/ RunStart(w) \/ RunFails(w)
  PROVE  RecruitmentInv'
<1>1. JobsTyped /\ RowsTyped /\ WorkersStand /\ ResultsStand BY DEF RecruitmentInv
<1>2. /\ hrworker[w].at \in {"begin", "starting", "retrieving", "reranking", "ranked"}
      /\ UNCHANGED <<queue, lost, unsent, request>> /\ UNCHANGED <<resume, views, application>>
      /\ explained' = explained /\ results' = results
  BY DEF RunLook, RunStart, RunFails, At, redis, rows, SetRun
<1>3. hrworker[w].at # "free" BY <1>2
<1>4. hrworker[w].job.kind = "screen"
  <2>1. Stands(hrworker[w]) BY <1>1 DEF WorkersStand
  <2>2. QED BY <2>1 DEF Stands, Ranking, RunLook, RunStart, RunFails, At
<1>5. PICK x \in Runs : x = Of(w) BY <1>1, <1>3, <1>4, WorkerAt
<1>6. PushesOther BY <1>2 DEF PushesOther
<1>7. hrworker[w].at # "begin" => results[x] = <<>>
  <2>1. Stands(hrworker[w]) BY <1>1 DEF WorkersStand
  <2>2. QED BY <1>2, <1>5, <2>1 DEF Stands, Ranking, Of
<1>8. \E q : WorkerMove(w, q) /\ Stands(q)'
  <2>1. CASE Finish(w) BY <1>3, <2>1, FinishMoves
  <2>2. ASSUME NEW step \in {"starting", "retrieving"}, Goto(w, step), results[x] = <<>>,
               hrworker[w].at \in {"begin", "starting"}
        PROVE  <1>8
    <3>1. step \in PlainSteps /\ hrworker[w].at \in PlainSteps BY <2>2 DEF PlainSteps
    <3>2. PICK q : WorkerMove(w, q) /\ q.at = step /\ q # Free BY <1>1, <2>2, <3>1, GotoMoves
    <3>3. q.job.kind = "screen" /\ results'[q.job.of] = <<>>
      BY <1>2, <1>4, <1>5, <2>2, <3>2 DEF WorkerMove, Of
    <3>4. Stands(q)' BY <3>2, <3>3 DEF Stands
    <3>5. QED BY <3>2, <3>4
  <2>3. CASE RunLook(w)
    <3>1. CASE run[x] = "CANCELLED" \/ (run[x] = "DONE" /\ results[x] # <<>>)
      BY <1>5, <2>1, <2>3, <3>1 DEF RunLook
    <3>2. CASE ~(run[x] = "CANCELLED" \/ (run[x] = "DONE" /\ results[x] # <<>>))
      <4>1. results[x] = <<>> BY <1>1, <3>2 DEF ResultsStand
      <4>2. Goto(w, "starting") /\ hrworker[w].at = "begin" BY <1>5, <2>3, <3>2 DEF RunLook, At
      <4>3. QED BY <2>2, <4>1, <4>2
    <3>3. QED BY <3>1, <3>2
  <2>4. CASE RunStart(w)
    <3>1. hrworker[w].at = "starting" /\ (Finish(w) \/ Goto(w, "retrieving")) BY <2>4 DEF RunStart, At
    <3>2. QED BY <1>7, <2>1, <2>2, <3>1
  <2>5. CASE RunFails(w) BY <2>1, <2>5 DEF RunFails
  <2>6. QED BY <2>3, <2>4, <2>5
<1>9. PICK q : WorkerMove(w, q) /\ Stands(q)' BY <1>8
<1>10. ResultsMove(w, q) /\ run' \in [Runs -> RunStates]
  <2>1. \/ UNCHANGED run
        \/ \E s \in {"FAILED", "RUNNING"} : run' = [run EXCEPT ![x] = s] /\ results[x] = <<>>
    BY <1>5, <1>7 DEF RunLook, RunStart, RunFails, At, rows, SetRun
  <2>2. {"FAILED", "RUNNING"} \subseteq RunStates \ {"absent"} BY DEF RunStates
  <2>3. \/ UNCHANGED run
        \/ \E y \in Runs, s \in RunStates \ {"absent"} : run' = [run EXCEPT ![y] = s] /\ results[y] = <<>>
    BY <2>1, <2>2
  <2>4. QED BY <1>2, <2>3, RunSet
<1>11. explained' \subseteq Runs \X Resumes BY <1>1, <1>2 DEF RowsTyped
<1>12. QED BY <1>2, <1>6, <1>9, <1>10, <1>11, RunWork

LEMMA RankingReads ==
  ASSUME RecruitmentInv, NEW w \in HrWorkers, RunRetrieve(w) \/ RunRerank(w)
  PROVE  RecruitmentInv'
<1>1. JobsTyped /\ RowsTyped /\ WorkersStand BY DEF RecruitmentInv
<1>2. /\ hrworker[w].at \in {"retrieving", "reranking"}
      /\ UNCHANGED <<queue, lost, unsent, request>> /\ UNCHANGED <<resume, views, application>>
      /\ explained' = explained /\ results' = results /\ run' = run
  BY DEF RunRetrieve, RunRerank, At, redis, rows
<1>3. hrworker[w].at # "free" BY <1>2
<1>4. hrworker[w].job.kind = "screen" /\ results[Of(w)] = <<>>
  <2>1. Stands(hrworker[w]) BY <1>1 DEF WorkersStand
  <2>2. QED BY <1>2, <2>1 DEF Stands, Ranking, Of
<1>5. PushesOther BY <1>2 DEF PushesOther
<1>6. ASSUME NEW q, WorkerMove(w, q), q # Free, q.at \in Ranking PROVE Stands(q)'
  <2>1. q.job.kind = "screen" /\ results'[q.job.of] = <<>> BY <1>2, <1>4, <1>6 DEF WorkerMove, Of
  <2>2. QED BY <1>6, <2>1 DEF Stands, Ranking
<1>7. \E q : WorkerMove(w, q) /\ Stands(q)'
  <2>1. CASE Finish(w) BY <1>3, <2>1, FinishMoves
  <2>2. ASSUME NEW step \in {"reranking", "ranked"}, Goto(w, step), hrworker[w].at = "reranking"
        PROVE  <1>7
    <3>1. PICK q : WorkerMove(w, q) /\ q.at = step /\ q # Free BY <1>1, <2>2, GotoMoves
    <3>2. Stands(q)' BY <1>6, <3>1 DEF Ranking
    <3>3. QED BY <3>1, <3>2
  <2>3. CASE RunRetrieve(w)
    <3>1. PICK step \in {"reranking", "ranked"} :
            hrworker' = [hrworker EXCEPT ![w] = [at |-> step, job |-> @.job, pool |-> views]]
      BY <2>3 DEF RunRetrieve
    <3>2. PICK j : j = hrworker[w].job /\ j \in Jobs BY <1>1, <1>3, WorkerAt
    <3>3. PICK q : q = [at |-> step, job |-> j, pool |-> views] OBVIOUS
    <3>4. q \in WorkerStates /\ q.at = step /\ q.job = j
      BY <1>1, <3>2, <3>3 DEF WorkerStates, RowsTyped
    <3>5. q # Free BY <3>4 DEF Free
    <3>6. hrworker' = [hrworker EXCEPT ![w] = q] BY <3>1, <3>2, <3>3
    <3>7. hrworker[w] # Free BY <1>3 DEF Free
    <3>8. WorkerMove(w, q) BY <3>2, <3>4, <3>6, <3>7 DEF WorkerMove
    <3>9. Stands(q)' BY <1>6, <3>4, <3>5, <3>8 DEF Ranking
    <3>10. QED BY <3>8, <3>9
  <2>4. CASE RunRerank(w)
    <3>1. hrworker[w].at = "reranking" /\ (Finish(w) \/ \E step \in {"reranking", "ranked"} : Goto(w, step))
      BY <2>4 DEF RunRerank, At
    <3>2. QED BY <2>1, <2>2, <3>1
  <2>5. QED BY <2>3, <2>4
<1>8. PICK q : WorkerMove(w, q) /\ Stands(q)' BY <1>7
<1>9. ResultsMove(w, q) /\ run' \in [Runs -> RunStates] BY <1>2, RunSet
<1>10. explained' \subseteq Runs \X Resumes BY <1>1, <1>2 DEF RowsTyped
<1>11. QED BY <1>2, <1>5, <1>8, <1>9, <1>10, RunWork

LEMMA RankingCommits ==
  ASSUME RecruitmentInv, NEW w \in HrWorkers, RunCommit(w)
  PROVE  RecruitmentInv'
<1>1. JobsTyped /\ RowsTyped /\ WorkersStand /\ ResultsStand BY DEF RecruitmentInv
<1>2. /\ hrworker[w].at = "ranked" /\ hrworker[w].at # "free"
      /\ UNCHANGED <<queue, lost, unsent, request>> /\ UNCHANGED <<resume, views, application>>
      /\ explained' = explained
  BY DEF RunCommit, At, redis
<1>3. hrworker[w].job.kind = "screen" /\ results[Of(w)] = <<>>
  <2>1. Stands(hrworker[w]) BY <1>1 DEF WorkersStand
  <2>2. QED BY <1>2, <2>1 DEF Stands, Ranking, Of
<1>4. PICK x \in Runs : x = Of(w) BY <1>1, <1>2, <1>3, WorkerAt
<1>5. PICK j : j = hrworker[w].job /\ j \in Jobs /\ j = Job("screen", x)
  BY <1>1, <1>2, <1>3, <1>4, WorkerAt
<1>6. PICK pool : pool = hrworker[w].pool /\ pool \subseteq Resumes BY <1>1, <1>2, WorkerAt
<1>7. PICK s \in Rankings(pool) : results' = [results EXCEPT ![x] = s]
  BY <1>4, <1>6 DEF RunCommit
<1>8. s \in Seq(Resumes)
  <2>1. PICK n : n = Least(TopN, Cardinality(pool)) OBVIOUS
  <2>2. n \in Nat
    <3>1. TopN \in Nat /\ IsFiniteSet(Resumes) BY RecruitmentAssumption
    <3>2. Cardinality(pool) \in Nat BY <1>6, <3>1, FS_Subset, FS_CardinalityType
    <3>3. QED BY <2>1, <3>1, <3>2 DEF Least
  <2>3. s \in [1..n -> pool] BY <2>1 DEF Rankings
  <2>4. s \in [1..n -> Resumes] BY <1>6, <2>3
  <2>5. QED BY <2>2, <2>4, SeqDef
<1>9. PICK q : q = [at |-> "follow", job |-> j] OBVIOUS
<1>10. q.at = "follow" /\ q.job = j /\ q \in WorkerStates
  BY <1>5, <1>9 DEF WorkerStates, PlainSteps
<1>11. WorkerMove(w, q)
  <2>1. hrworker' = [hrworker EXCEPT ![w] = q] BY <1>5, <1>9 DEF RunCommit
  <2>2. hrworker[w] # Free BY <1>2 DEF Free
  <2>3. QED BY <1>5, <1>10, <2>1, <2>2 DEF WorkerMove
<1>12. Stands(q)' BY <1>10 DEF Stands, Ranking
<1>13. run' = [run EXCEPT ![x] = "DONE"] BY <1>4 DEF RunCommit
<1>14. ResultsMove(w, q) /\ run' \in [Runs -> RunStates]
  <2>1. run \in [Runs -> RunStates] /\ results \in [Runs -> Seq(Resumes)]
    BY <1>1 DEF RowsTyped, RunStates
  <2>2. \A y \in Runs : results[y] # <<>> => run[y] \in {"DONE", "CANCELLED"} BY <1>1 DEF ResultsStand
  <2>3. /\ run' \in [Runs -> RunStates] /\ results' \in [Runs -> Seq(Resumes)]
        /\ \A y \in Runs : run'[y] = IF y = x THEN "DONE" ELSE run[y]
        /\ \A y \in Runs : y # x => results'[y] = results[y]
    BY <1>7, <1>8, <1>13, <2>1 DEF RunStates
  <2>4. results[x] = <<>> /\ hrworker[w].job = Job("screen", x) /\ q.at \notin Ranking
    BY <1>3, <1>4, <1>5, <1>10 DEF Ranking
  <2>5. QED BY <2>2, <2>3, <2>4 DEF ResultsMove
<1>15. PushesOther BY <1>2 DEF PushesOther
<1>16. explained' \subseteq Runs \X Resumes BY <1>1, <1>2 DEF RowsTyped
<1>17. QED BY <1>2, <1>11, <1>12, <1>14, <1>15, <1>16, RunWork

LEMMA FollowingKeeps ==
  ASSUME RecruitmentInv, NEW w \in HrWorkers, RunFollow(w)
  PROVE  RecruitmentInv'
<1>1. JobsTyped /\ RowsTyped BY DEF RecruitmentInv
<1>2. /\ hrworker[w].at # "free" /\ hrworker[w].job.kind = "screen" /\ Finish(w)
      /\ UNCHANGED <<lost, unsent, request>> /\ UNCHANGED <<resume, views, application>>
      /\ explained' = explained /\ results' = results /\ run' = run
  BY DEF RunFollow, At, redis, rows, Push
<1>3. PushesOther
  <2>1. Of(w) \in Runs BY <1>1, <1>2, WorkerAt
  <2>2. Job("explain", Of(w)) \in Jobs /\ Job("explain", Of(w)).kind = "explain"
    BY <2>1 DEF Job, Jobs
  <2>3. QED BY <2>2 DEF RunFollow, Push, redis, PushesOther
<1>4. WorkerMove(w, Free) /\ Stands(Free)' BY <1>2, FinishMoves
<1>5. ResultsMove(w, Free) /\ run' \in [Runs -> RunStates] BY <1>2, RunSet
<1>6. explained' \subseteq Runs \X Resumes BY <1>1, <1>2 DEF RowsTyped
<1>7. QED BY <1>2, <1>3, <1>4, <1>5, <1>6, RunWork

\* What is left to explain, and what has been, are results of the run.
LEMMA ExplainingKeeps ==
  ASSUME RecruitmentInv, NEW w \in HrWorkers, ExplainBegin(w) \/ ExplainNext(w)
  PROVE  RecruitmentInv'
<1>1. JobsTyped /\ RowsTyped /\ WorkersStand BY DEF RecruitmentInv
<1>2. /\ hrworker[w].at \in {"begin", "explaining"} /\ hrworker[w].job.kind = "explain"
      /\ UNCHANGED <<queue, lost, unsent, request>> /\ UNCHANGED <<resume, views, application>>
      /\ results' = results /\ run' = run
  BY DEF ExplainBegin, ExplainNext, At, redis, rows
<1>3. hrworker[w].at # "free" /\ hrworker[w] # Free BY <1>2 DEF Free
<1>4. PICK x \in Runs : x = Of(w) BY <1>1, <1>2, <1>3, WorkerAt
<1>5. PICK j : j = hrworker[w].job /\ j \in Jobs /\ j.kind = "explain" /\ j.of = x
  BY <1>1, <1>2, <1>3, <1>4, WorkerAt DEF Of
<1>6. PushesOther BY <1>2 DEF PushesOther
<1>7. ASSUME NEW rest \in Seq(Resumes), Range(rest) \subseteq Range(results[x]),
             hrworker' = [hrworker EXCEPT ![w] = [at |-> "explaining", job |-> j, todo |-> rest]]
      PROVE  \E q : WorkerMove(w, q) /\ Stands(q)'
  <2>1. PICK q : q = [at |-> "explaining", job |-> j, todo |-> rest] OBVIOUS
  <2>2. q.at = "explaining" /\ q.job = j /\ q.todo = rest /\ q \in WorkerStates
    BY <1>5, <2>1 DEF WorkerStates
  <2>3. WorkerMove(w, q) BY <1>3, <1>5, <1>7, <2>1, <2>2 DEF WorkerMove
  <2>4. Stands(q)' BY <1>2, <1>5, <1>7, <2>2 DEF Stands, Ranking
  <2>5. QED BY <2>3, <2>4
<1>8. /\ \E q : WorkerMove(w, q) /\ Stands(q)'
      /\ \A e \in explained' : \/ e \in explained
                               \/ e \in Runs \X Resumes /\ e[2] \in Range(results[e[1]])
  <2>1. CASE Finish(w) /\ UNCHANGED explained BY <1>3, <2>1, FinishMoves
  <2>2. CASE ExplainBegin(w) /\ ~Finish(w)
    <3>1. hrworker' = [hrworker EXCEPT ![w] = [at |-> "explaining", job |-> j, todo |-> results[x]]]
      BY <1>4, <1>5, <2>2 DEF ExplainBegin
    <3>2. results[x] \in Seq(Resumes) BY <1>1 DEF RowsTyped
    <3>3. explained' = explained BY <2>2 DEF ExplainBegin, rows
    <3>4. QED BY <1>7, <3>1, <3>2, <3>3
  <2>3. CASE ExplainNext(w) /\ ~(Finish(w) /\ UNCHANGED explained)
    <3>1. PICK left : left = hrworker[w].todo OBVIOUS
    <3>2. left # <<>> /\ hrworker' = [hrworker EXCEPT ![w].todo = Tail(@)] BY <2>3, <3>1 DEF ExplainNext
    <3>3. hrworker[w].at = "explaining" BY <2>3 DEF ExplainNext, At
    <3>4. left \in Seq(Resumes) /\ Range(left) \subseteq Range(results[x])
      <4>1. Stands(hrworker[w]) BY <1>1 DEF WorkersStand
      <4>2. Range(left) \subseteq Range(results[x]) BY <1>4, <3>1, <3>3, <4>1 DEF Stands, Of
      <4>3. QED BY <1>1, <1>3, <3>1, <3>3, <4>2, WorkerAt
    <3>5. PICK rest, first : rest = Tail(left) /\ first = Head(left) OBVIOUS
    <3>6. rest \in Seq(Resumes) /\ Range(rest) \subseteq Range(left) /\ first \in Range(left) /\ first \in Resumes
      <4>1. PICK n : n = Len(left) OBVIOUS
      <4>2. /\ n \in Nat \ {0} /\ DOMAIN left = 1..n /\ rest \in Seq(Resumes)
            /\ DOMAIN rest = 1..n - 1 /\ first = left[1] /\ \A i \in 1..n - 1 : rest[i] = left[i + 1]
        BY <3>2, <3>4, <3>5, <4>1
      <4>3. \A i \in DOMAIN rest : i + 1 \in DOMAIN left /\ rest[i] = left[i + 1] BY <4>2
      <4>4. 1 \in DOMAIN left /\ left[1] \in Resumes BY <3>4, <4>2
      <4>5. QED BY <4>2, <4>3, <4>4 DEF Range
    <3>7. hrworker' = [hrworker EXCEPT ![w] = [at |-> "explaining", job |-> j, todo |-> rest]]
      <4>1. PICK p : p = hrworker[w] OBVIOUS
      <4>2. p \in [at : {"explaining"}, job : Jobs, todo : Seq(Resumes)]
        <5>1. p \in WorkerStates /\ p.at = "explaining" BY <1>1, <3>3, <4>1 DEF JobsTyped
        <5>2. QED BY <5>1 DEF WorkerStates, PlainSteps, Free
      <4>3. [p EXCEPT !.todo = rest] = [at |-> "explaining", job |-> j, todo |-> rest]
        BY <1>5, <4>1, <4>2
      <4>4. hrworker' = [hrworker EXCEPT ![w] = [p EXCEPT !.todo = rest]]
        BY <3>1, <3>2, <3>5, <4>1
      <4>5. QED BY <4>3, <4>4
    <3>8. explained' = explained \/ explained' = explained \cup {<<x, first>>}
      BY <1>4, <2>3, <3>1, <3>5 DEF ExplainNext
    <3>9. \E q : WorkerMove(w, q) /\ Stands(q)'
      <4>1. Range(rest) \subseteq Range(results[x]) BY <3>4, <3>6
      <4>2. QED BY <1>7, <3>6, <3>7, <4>1
    <3>10. PICK e \in Runs \X Resumes : e = <<x, first>> BY <3>6
    <3>11. e[1] = x /\ e[2] \in Range(results[x]) BY <3>4, <3>6, <3>10
    <3>12. QED BY <3>8, <3>9, <3>10, <3>11
  <2>4. ExplainBegin(w) => explained' = explained BY DEF ExplainBegin, rows
  <2>5. QED BY <2>1, <2>2, <2>3, <2>4
<1>9. PICK q : WorkerMove(w, q) /\ Stands(q)' BY <1>8
<1>10. ResultsMove(w, q) /\ run' \in [Runs -> RunStates] BY <1>2, RunSet
<1>11. explained' \subseteq Runs \X Resumes BY <1>1, <1>8 DEF RowsTyped
<1>12. QED BY <1>2, <1>6, <1>8, <1>9, <1>10, <1>11, RunWork

-----------------------------------------------------------------------------

\* Requests that change resumes, and what does not matter to runs.
LEMMA ResumeRequests ==
  ASSUME RecruitmentInv,
         \/ \E r \in Resumes : Upload(r)
         \/ \E r \in Resumes, force \in BOOLEAN : EmbedAgain(r, force)
         \/ EmbedAgainCommit
         \/ \E x \in Runs : AskExplanations(x)
  PROVE  RecruitmentInv'
<1>1. JobsTyped /\ RowsTyped /\ ScreenedOnce /\ WorkersStand /\ ResultsStand /\ RequestStands
        /\ EmbeddedIsIndexed /\ WorkFollowsResults
  BY DEF RecruitmentInv
<1>2. /\ UNCHANGED <<views, run, results, explained, application, lost, hrworker>>
      /\ PushesOther
      /\ \A job \in unsent' : job \in unsent \/ (job \in Jobs /\ job.kind # "screen")
  <2>1. ASSUME NEW r \in Resumes, Upload(r) PROVE <1>2
    <3>1. Job("parse", r) \in Jobs /\ Job("parse", r).kind = "parse" BY DEF Job, Jobs
    <3>2. QED BY <2>1, <3>1 DEF Upload, redis, PushesOther
  <2>2. ASSUME NEW r \in Resumes, NEW force \in BOOLEAN, EmbedAgain(r, force) PROVE <1>2
    <3>1. Job("embed", r) \in Jobs /\ Job("embed", r).kind = "embed" BY DEF Job, Jobs
    <3>2. QED BY <2>2, <3>1 DEF EmbedAgain, Push, rows, PushesOther
  <2>3. CASE EmbedAgainCommit BY <2>3 DEF EmbedAgainCommit, redis, PushesOther
  <2>4. ASSUME NEW x \in Runs, AskExplanations(x) PROVE <1>2
    <3>1. Job("explain", x) \in Jobs /\ Job("explain", x).kind = "explain" BY DEF Job, Jobs
    <3>2. QED BY <2>4, <3>1 DEF AskExplanations, Push, rows, PushesOther
  <2>5. QED BY <2>1, <2>2, <2>3, <2>4
<1>3. /\ queue' \in Seq(Jobs)
      /\ \A x \in Runs : /\ QueuedOnce(queue, Job("screen", x)) => QueuedOnce(queue', Job("screen", x))
                         /\ Job("screen", x) \in Range(queue') => Job("screen", x) \in Range(queue)
  <2>1. queue \in Seq(Jobs) BY <1>1 DEF JobsTyped
  <2>2. CASE queue' = queue BY <2>1, <2>2
  <2>3. ASSUME NEW k \in Jobs, k.kind # "screen", queue' = Append(queue, k) PROVE <1>3
    <3>1. \A x \in Runs : k # Job("screen", x) BY <2>3, ScreenJobs
    <3>2. QED BY <2>1, <2>3, <3>1, JobQueued
  <2>4. QED BY <1>2, <2>2, <2>3 DEF PushesOther
<1>4. \A x \in Runs : Job("screen", x) \in unsent' => Job("screen", x) \in unsent
  BY <1>2, ScreenJobs
<1>5. ScreenedOnce'
  <2>1. \A v \in HrWorkers : \A job : Works(v, job)' => Works(v, job) BY <1>2 DEF Works
  <2>2. QED BY <1>1, <1>2, <1>3, <1>4, <2>1, OnceKept
<1>6. request' \in Requests /\ (request' = request \/ request'.at \notin {"cancel", "shortlist"})
  <2>1. ASSUME NEW r \in Resumes, request' = [at |-> "embeddings", of |-> r] PROVE <1>6
    BY <2>1 DEF Requests
  <2>2. \/ request' = request \/ request' = NoRequest
        \/ \E r \in Resumes : request' = [at |-> "embeddings", of |-> r]
    BY DEF Upload, EmbedAgain, EmbedAgainCommit, AskExplanations
  <2>3. QED BY <1>1, <2>1, <2>2 DEF JobsTyped, Requests, NoRequest
<1>7. JobsTyped'
  <2>1. unsent' \subseteq Jobs BY <1>1, <1>2 DEF JobsTyped
  <2>2. QED BY <1>1, <1>2, <1>3, <1>6, <2>1 DEF JobsTyped
<1>8. WorkersStand' /\ ResultsStand' /\ RequestStands' /\ WorkFollowsResults'
  BY <1>1, <1>2, <1>4, <1>6
  DEF WorkersStand, Stands, Of, ResultsStand, RequestStands, WorkFollowsResults
<1>9. /\ resume' \in [Resumes -> ResumeRows]
      /\ \A r \in Resumes : resume'[r].embedding = "EMBEDDED" => resume[r].embedding = "EMBEDDED"
  <2>1. resume \in [Resumes -> ResumeRows] BY <1>1 DEF RowsTyped
  <2>2. ASSUME NEW r \in Resumes, Upload(r) PROVE <1>9
    <3>1. PICK row : row = [resume[r] EXCEPT !.status = "UPLOADED"] OBVIOUS
    <3>2. row \in ResumeRows /\ row.embedding = resume[r].embedding BY <2>1, <3>1 DEF ResumeRows
    <3>3. resume' = [resume EXCEPT ![r] = row] BY <2>2, <3>1 DEF Upload
    <3>4. QED BY <2>1, <3>2, <3>3
  <2>3. ASSUME EmbedAgainCommit PROVE <1>9
    <3>1. PICK r \in Resumes : resume' = [resume EXCEPT ![r].embedding = "PENDING"]
      <4>1. request \in Requests /\ request.at = "embeddings" BY <1>1, <2>3 DEF JobsTyped, EmbedAgainCommit
      <4>2. request.of \in Resumes BY <4>1 DEF Requests, NoRequest
      <4>3. QED BY <2>3, <4>2 DEF EmbedAgainCommit
    <3>2. PICK row : row = [resume[r] EXCEPT !.embedding = "PENDING"] OBVIOUS
    <3>3. row \in ResumeRows /\ row.embedding = "PENDING" BY <2>1, <3>2 DEF ResumeRows
    <3>4. resume' = [resume EXCEPT ![r] = row] BY <3>1, <3>2
    <3>5. QED BY <2>1, <3>3, <3>4
  <2>4. UNCHANGED resume \/ EmbedAgainCommit \/ \E r \in Resumes : Upload(r)
    BY DEF EmbedAgain, AskExplanations, rows
  <2>5. QED BY <2>1, <2>2, <2>3, <2>4
<1>10. RowsTyped' /\ EmbeddedIsIndexed' BY <1>1, <1>2, <1>9 DEF RowsTyped, EmbeddedIsIndexed
<1>11. QED BY <1>5, <1>7, <1>8, <1>10 DEF RecruitmentInv

\* A job gets from one place to the next.
LEMMA JobsMove ==
  ASSUME RecruitmentInv,
         \/ \E job \in unsent : Send(job)
         \/ \E job \in lost : Requeue(job)
         \/ \E w \in HrWorkers : Take(w) \/ Die(w)
  PROVE  RecruitmentInv'
<1>1. JobsTyped /\ RowsTyped /\ ScreenedOnce /\ WorkersStand /\ ResultsStand /\ RequestStands
        /\ EmbeddedIsIndexed /\ WorkFollowsResults
  BY DEF RecruitmentInv
<1>2. /\ UNCHANGED <<resume, views, run, results, explained, application, request>>
      /\ unsent' \subseteq unsent
  BY DEF Send, Requeue, Take, Die, rows
<1>3. RowsTyped' /\ RequestStands' /\ EmbeddedIsIndexed' /\ WorkFollowsResults'
  BY <1>1, <1>2 DEF RowsTyped, RequestStands, EmbeddedIsIndexed, WorkFollowsResults
<1>4. ResultsStand' BY <1>1, <1>2 DEF ResultsStand
<1>5. queue \in Seq(Jobs) /\ lost \subseteq Jobs /\ unsent \subseteq Jobs BY <1>1 DEF JobsTyped
<1>6. ASSUME NEW k \in Jobs, queue' = Append(queue, k), UNCHANGED hrworker,
             \/ k \in unsent /\ unsent' = unsent \ {k} /\ lost' = lost
             \/ k \in lost /\ lost' = lost \ {k} /\ unsent' = unsent
      PROVE  JobsTyped' /\ ScreenedOnce' /\ WorkersStand'
  <2>1. /\ queue' \in Seq(Jobs) /\ Range(queue') = Range(queue) \cup {k}
        /\ \A job : QueuedOnce(queue, job) /\ (job = k => job \notin Range(queue))
                      => QueuedOnce(queue', job)
    BY <1>5, <1>6, JobQueued
  <2>2. JobsTyped' BY <1>1, <1>2, <1>6, <2>1 DEF JobsTyped
  <2>3. \A v \in HrWorkers : \A job : Works(v, job)' <=> Works(v, job) BY <1>6 DEF Works
  <2>4. ScreenedOnce'
    <3> SUFFICES ASSUME NEW x \in Runs, NEW job, job = Job("screen", x)
                 PROVE  InOnePlace(job)' /\ (run'[x] = "absent" => Nowhere(job)')
      BY DEF ScreenedOnce
    <3>1. InOnePlace(job) /\ (run[x] = "absent" => Nowhere(job)) BY <1>1 DEF ScreenedOnce
    <3>2. CASE job = k
      <4>1. job \notin Range(queue) /\ run[x] # "absent" /\ \A w \in HrWorkers : ~Works(w, job)
        BY <1>6, <3>1, <3>2 DEF InOnePlace, Nowhere
      <4>2. job \notin lost' \cup unsent' BY <1>6, <3>1, <3>2 DEF InOnePlace, Nowhere
      <4>3. QED BY <1>2, <2>1, <2>3, <3>1, <4>1, <4>2 DEF InOnePlace, Nowhere
    <3>3. CASE job # k
      <4>1. (job \in Range(queue') <=> job \in Range(queue)) /\ QueuedOnce(queue', job)
        BY <2>1, <3>1, <3>3 DEF InOnePlace, Nowhere
      <4>2. (job \in lost' <=> job \in lost) /\ (job \in unsent' <=> job \in unsent) BY <1>6, <3>3
      <4>3. QED BY <1>2, <2>3, <3>1, <4>1, <4>2 DEF InOnePlace, Nowhere
    <3>4. QED BY <3>2, <3>3
  <2>5. WorkersStand' BY <1>1, <1>2, <1>6 DEF WorkersStand, Stands
  <2>6. QED BY <2>2, <2>4, <2>5
<1>7. ASSUME NEW w \in HrWorkers, Take(w) PROVE JobsTyped' /\ ScreenedOnce' /\ WorkersStand'
  <2>1. PICK k : k = Head(queue) OBVIOUS
  <2>2. /\ hrworker[w] = Free /\ queue # <<>> /\ queue' = Tail(queue)
        /\ hrworker' = [hrworker EXCEPT ![w] = [at |-> "begin", job |-> k]]
        /\ UNCHANGED <<lost, unsent>>
    BY <1>7, <2>1 DEF Take
  <2>3. /\ queue' \in Seq(Jobs) /\ k \in Jobs /\ k \in Range(queue) /\ Range(queue') \subseteq Range(queue)
        /\ \A job : QueuedOnce(queue, job) => /\ QueuedOnce(queue', job)
                                              /\ job = k => job \notin Range(queue')
    BY <1>5, <2>1, <2>2, JobTaken
  <2>4. PICK q : q = [at |-> "begin", job |-> k] OBVIOUS
  <2>5. q \in WorkerStates /\ q.at = "begin" /\ q.job = k /\ q # Free
    BY <2>3, <2>4 DEF WorkerStates, PlainSteps, Free
  <2>6. \A v \in HrWorkers : hrworker'[v] = IF v = w THEN q ELSE hrworker[v]
    BY <1>1, <2>2, <2>4 DEF JobsTyped
  <2>7. \A v \in HrWorkers : \A job : Works(v, job)' <=> IF v = w THEN job = k ELSE Works(v, job)
    BY <2>5, <2>6 DEF Works
  <2>8. \A job : ~Works(w, job) BY <2>2 DEF Works
  <2>9. JobsTyped' BY <1>1, <1>2, <2>2, <2>3, <2>4, <2>5 DEF JobsTyped
  <2>10. ScreenedOnce'
    <3> SUFFICES ASSUME NEW x \in Runs, NEW job, job = Job("screen", x)
                 PROVE  InOnePlace(job)' /\ (run'[x] = "absent" => Nowhere(job)')
      BY DEF ScreenedOnce
    <3>1. InOnePlace(job) /\ (run[x] = "absent" => Nowhere(job)) BY <1>1 DEF ScreenedOnce
    <3>2. CASE job = k
      <4>1. /\ job \notin lost \cup unsent /\ run[x] # "absent" /\ job \notin Range(queue')
            /\ \A v \in HrWorkers : ~Works(v, job)
        BY <2>3, <3>1, <3>2 DEF InOnePlace, Nowhere
      <4>2. \A v \in HrWorkers : Works(v, job)' => v = w BY <2>7, <4>1
      <4>3. QED BY <1>2, <2>2, <2>3, <3>1, <4>1, <4>2 DEF InOnePlace, Nowhere
    <3>3. CASE job # k
      <4>1. \A v \in HrWorkers : Works(v, job)' => Works(v, job) BY <2>7, <3>3
      <4>2. QED BY <1>2, <2>2, <2>3, <3>1, <4>1 DEF InOnePlace, Nowhere
    <3>4. QED BY <3>2, <3>3
  <2>11. Stands(q)' BY <2>5 DEF Stands, Ranking
  <2>12. \A v \in HrWorkers : Stands(hrworker[v])'
    <3> SUFFICES ASSUME NEW v \in HrWorkers PROVE Stands(hrworker[v])' OBVIOUS
    <3>1. CASE v = w
      <4>1. hrworker'[v] = q BY <2>6, <3>1
      <4>2. QED BY <2>11, <4>1 DEF Stands
    <3>2. CASE v # w
      <4>1. hrworker'[v] = hrworker[v] /\ Stands(hrworker[v]) BY <1>1, <2>6, <3>2 DEF WorkersStand
      <4>2. QED BY <1>2, <4>1 DEF Stands
    <3>3. QED BY <3>1, <3>2
  <2>13. QED BY <2>9, <2>10, <2>12 DEF WorkersStand
<1>8. ASSUME NEW w \in HrWorkers, Die(w) PROVE JobsTyped' /\ ScreenedOnce' /\ WorkersStand'
  <2>1. PICK k : k = hrworker[w].job OBVIOUS
  <2>2. /\ hrworker[w] # Free /\ lost' = lost \cup {k} /\ Finish(w) /\ UNCHANGED <<queue, unsent>>
    BY <1>8, <2>1 DEF Die
  <2>3. k \in Jobs
    <3>1. hrworker[w] \in WorkerStates BY <1>1 DEF JobsTyped
    <3>2. QED BY <2>1, <2>2, <3>1 DEF WorkerStates
  <2>4. Free \in WorkerStates /\ Free.at = "free" BY DEF WorkerStates, Free
  <2>5. \A v \in HrWorkers : hrworker'[v] = IF v = w THEN Free ELSE hrworker[v]
    BY <1>1, <2>2 DEF JobsTyped, Finish
  <2>6. \A v \in HrWorkers : \A job : Works(v, job)' <=> v # w /\ Works(v, job)
    BY <2>5 DEF Works
  <2>7. JobsTyped' BY <1>1, <1>2, <2>2, <2>3, <2>4 DEF JobsTyped, Finish
  <2>8. Works(w, k) BY <2>1, <2>2 DEF Works
  <2>9. ScreenedOnce'
    <3> SUFFICES ASSUME NEW x \in Runs, NEW job, job = Job("screen", x)
                 PROVE  InOnePlace(job)' /\ (run'[x] = "absent" => Nowhere(job)')
      BY DEF ScreenedOnce
    <3>1. InOnePlace(job) /\ (run[x] = "absent" => Nowhere(job)) BY <1>1 DEF ScreenedOnce
    <3>2. CASE job = k
      <4>1. job \notin Range(queue) \cup lost \cup unsent /\ run[x] # "absent"
        BY <2>8, <3>1, <3>2 DEF InOnePlace, Nowhere
      <4>2. \A v \in HrWorkers : ~Works(v, job)' BY <2>6, <2>8, <3>1, <3>2 DEF InOnePlace, Nowhere
      <4>3. QED BY <1>2, <2>2, <3>1, <4>1, <4>2 DEF InOnePlace, Nowhere
    <3>3. CASE job # k
      <4>1. job \in lost' <=> job \in lost BY <2>2, <3>3
      <4>2. QED BY <1>2, <2>2, <2>6, <3>1, <4>1 DEF InOnePlace, Nowhere
    <3>4. QED BY <3>2, <3>3
  <2>10. \A v \in HrWorkers : Stands(hrworker[v])'
    <3> SUFFICES ASSUME NEW v \in HrWorkers PROVE Stands(hrworker[v])' OBVIOUS
    <3>1. CASE v = w BY <2>4, <2>5, <3>1 DEF Stands, Ranking
    <3>2. CASE v # w
      <4>1. hrworker'[v] = hrworker[v] /\ Stands(hrworker[v]) BY <1>1, <2>5, <3>2 DEF WorkersStand
      <4>2. QED BY <1>2, <4>1 DEF Stands
    <3>3. QED BY <3>1, <3>2
  <2>11. QED BY <2>7, <2>9, <2>10 DEF WorkersStand
<1>9. ASSUME NEW k \in unsent, Send(k) PROVE JobsTyped' /\ ScreenedOnce' /\ WorkersStand'
  <2>1. k \in Jobs /\ queue' = Append(queue, k) /\ unsent' = unsent \ {k} /\ UNCHANGED <<lost, hrworker>>
    BY <1>5, <1>9 DEF Send, Push
  <2>2. QED BY <1>6, <2>1
<1>10. ASSUME NEW k \in lost, Requeue(k) PROVE JobsTyped' /\ ScreenedOnce' /\ WorkersStand'
  <2>1. k \in Jobs /\ queue' = Append(queue, k) /\ lost' = lost \ {k} /\ UNCHANGED <<unsent, hrworker>>
    BY <1>5, <1>10 DEF Requeue
  <2>2. QED BY <1>6, <2>1
<1>11. JobsTyped' /\ ScreenedOnce' /\ WorkersStand' BY <1>7, <1>8, <1>9, <1>10
<1>12. QED BY <1>3, <1>4, <1>11 DEF RecruitmentInv

\* A run is created with its job, fails without it, or is cancelled.
LEMMA RunRequests ==
  ASSUME RecruitmentInv,
         \/ \E x \in Runs : CreateRun(x) \/ SendFails(x) \/ CancelLook(x)
         \/ CancelCommit
  PROVE  RecruitmentInv'
<1>1. JobsTyped /\ RowsTyped /\ ScreenedOnce /\ WorkersStand /\ ResultsStand /\ RequestStands
        /\ EmbeddedIsIndexed /\ WorkFollowsResults
  BY DEF RecruitmentInv
<1>2. UNCHANGED <<resume, views, results, explained, application, queue, lost, hrworker>>
  BY DEF CreateRun, SendFails, CancelLook, CancelCommit, redis, rows
<1>3. EmbeddedIsIndexed' /\ WorkFollowsResults' /\ WorkersStand'
  BY <1>1, <1>2 DEF EmbeddedIsIndexed, WorkFollowsResults, WorkersStand, Stands
<1>4. \A v \in HrWorkers : \A job : Works(v, job)' <=> Works(v, job) BY <1>2 DEF Works
<1>5. run \in [Runs -> RunStates] BY <1>1 DEF RowsTyped, RunStates
<1>6. ASSUME NEW x \in Runs, NEW s \in RunStates, run' = [run EXCEPT ![x] = s]
      PROVE  RowsTyped' /\ \A y \in Runs : run'[y] = IF y = x THEN s ELSE run[y]
  <2>1. run' \in [Runs -> RunStates] /\ \A y \in Runs : run'[y] = IF y = x THEN s ELSE run[y]
    BY <1>5, <1>6
  <2>2. QED BY <1>1, <1>2, <2>1 DEF RowsTyped, RunStates
<1>7. ASSUME NEW x \in Runs, CreateRun(x) PROVE RecruitmentInv'
  <2>1. PICK k : k = Job("screen", x) OBVIOUS
  <2>2. /\ run[x] = "absent" /\ run' = [run EXCEPT ![x] = "QUEUED"]
        /\ unsent' = unsent \cup {k} /\ request' = request
    BY <1>7, <2>1 DEF CreateRun
  <2>3. /\ RowsTyped' /\ \A y \in Runs : run'[y] = IF y = x THEN "QUEUED" ELSE run[y]
    BY <1>6, <2>2 DEF RunStates
  <2>4. k \in Jobs BY <2>1 DEF Job, Jobs
  <2>5. JobsTyped' BY <1>1, <1>2, <2>2, <2>4 DEF JobsTyped
  <2>6. ScreenedOnce'
    <3> SUFFICES ASSUME NEW y \in Runs, NEW job, job = Job("screen", y)
                 PROVE  InOnePlace(job)' /\ (run'[y] = "absent" => Nowhere(job)')
      BY DEF ScreenedOnce
    <3>1. InOnePlace(job) /\ (run[y] = "absent" => Nowhere(job)) BY <1>1 DEF ScreenedOnce
    <3>2. job = k => y = x BY <2>1, ScreenJobs
    <3>3. QED BY <1>2, <1>4, <2>2, <2>3, <3>1, <3>2 DEF InOnePlace, Nowhere
  <2>7. ResultsStand'
    <3>1. \A y \in Runs : Job("screen", y) = k => y = x BY <2>1, ScreenJobs
    <3>2. QED BY <1>1, <1>2, <2>2, <2>3, <3>1 DEF ResultsStand
  <2>8. RequestStands'
    <3>1. request.at = "cancel" => request.of \in Runs BY <1>1 DEF JobsTyped, Requests, NoRequest
    <3>2. QED BY <1>1, <1>2, <2>2, <2>3, <3>1 DEF RequestStands
  <2>9. QED BY <1>3, <2>3, <2>5, <2>6, <2>7, <2>8 DEF RecruitmentInv
<1>8. ASSUME NEW x \in Runs, NEW s \in RunStates \ {"absent"}, run' = [run EXCEPT ![x] = s],
             run[x] # "absent", unsent' \subseteq unsent, request' \in {request, NoRequest},
             results[x] # <<>> => s = "CANCELLED"
      PROVE  RecruitmentInv'
  <2>1. /\ RowsTyped' /\ \A y \in Runs : run'[y] = IF y = x THEN s ELSE run[y]
    BY <1>6, <1>8
  <2>2. JobsTyped' BY <1>1, <1>2, <1>8 DEF JobsTyped, Requests
  <2>3. \A y \in Runs : run'[y] = "absent" => run[y] = "absent" BY <2>1
  <2>4. ScreenedOnce' BY <1>1, <1>2, <1>4, <1>8, <2>3, OnceKept
  <2>5. ResultsStand' BY <1>1, <1>2, <1>8, <2>1 DEF ResultsStand
  <2>6. RequestStands'
    <3>1. request.at = "cancel" => request.of \in Runs BY <1>1 DEF JobsTyped, Requests, NoRequest
    <3>2. CASE request' = request BY <1>1, <1>2, <2>3, <3>1, <3>2 DEF RequestStands
    <3>3. CASE request' = NoRequest BY <3>3 DEF RequestStands, NoRequest
    <3>4. QED BY <1>8, <3>2, <3>3
  <2>7. QED BY <1>3, <2>1, <2>2, <2>4, <2>5, <2>6 DEF RecruitmentInv
<1>9. ASSUME NEW x \in Runs, SendFails(x) PROVE RecruitmentInv'
  <2>1. /\ Job("screen", x) \in unsent /\ unsent' \subseteq unsent
        /\ run' = [run EXCEPT ![x] = "FAILED"] /\ request' = request
    BY <1>9 DEF SendFails
  <2>2. run[x] # "absent" /\ results[x] = <<>> BY <1>1, <2>1 DEF ScreenedOnce, ResultsStand, InOnePlace, Nowhere
  <2>3. "FAILED" \in RunStates \ {"absent"} BY DEF RunStates
  <2>4. QED BY <1>8, <2>1, <2>2, <2>3
<1>10. ASSUME CancelCommit PROVE RecruitmentInv'
  <2>1. PICK x \in Runs : x = request.of /\ run[x] # "absent"
    <3>1. request.of \in Runs
      BY <1>1, <1>10 DEF JobsTyped, CancelCommit, Requests, NoRequest
    <3>2. QED BY <1>1, <1>10, <3>1 DEF CancelCommit, RequestStands
  <2>2. run' = [run EXCEPT ![x] = "CANCELLED"] /\ unsent' = unsent /\ request' = NoRequest
    BY <1>10, <2>1 DEF CancelCommit
  <2>3. "CANCELLED" \in RunStates \ {"absent"} BY DEF RunStates
  <2>4. QED BY <1>8, <2>1, <2>2, <2>3
<1>11. ASSUME NEW x \in Runs, CancelLook(x) PROVE RecruitmentInv'
  <2>1. PICK rq : rq = [at |-> "cancel", of |-> x] OBVIOUS
  <2>2. rq \in Requests /\ rq.at = "cancel" /\ rq.of = x BY <2>1 DEF Requests
  <2>3. request' = rq /\ run[x] # "absent" /\ run' = run /\ unsent' = unsent
    BY <1>11, <2>1 DEF CancelLook, rows
  <2>4. RowsTyped' /\ JobsTyped' BY <1>1, <1>2, <2>2, <2>3 DEF RowsTyped, JobsTyped
  <2>5. ScreenedOnce' BY <1>1, <1>2, <1>4, <2>3, OnceKept
  <2>6. ResultsStand' BY <1>1, <1>2, <2>3 DEF ResultsStand
  <2>7. RequestStands' BY <1>2, <2>2, <2>3 DEF RequestStands
  <2>8. QED BY <1>3, <2>4, <2>5, <2>6, <2>7 DEF RecruitmentInv
<1>12. QED BY <1>7, <1>9, <1>10, <1>11

\* Whoever creates applications or changes them, those made from a run name it
\* for resumes in its results.
LEMMA ApplicationsKeep ==
  ASSUME RecruitmentInv,
         \/ ShortlistCommit
         \/ \E x \in Runs, n \in 1..TopN : ShortlistLook(x, n)
         \/ \E r \in Resumes, s \in Stages : Apply(r, s) \/ MoveStage(r, s)
         \/ \E r \in Resumes, v \in {"HIRED", "REJECTED"} : Settle(r, v)
  PROVE  RecruitmentInv'
<1>1. JobsTyped /\ RowsTyped /\ ScreenedOnce /\ WorkersStand /\ ResultsStand /\ RequestStands
        /\ EmbeddedIsIndexed /\ WorkFollowsResults
  BY DEF RecruitmentInv
<1>2. UNCHANGED <<resume, views, run, results, explained, queue, lost, unsent, hrworker>>
  BY DEF ShortlistCommit, ShortlistLook, Apply, MoveStage, Settle, Change, redis, rows
<1>3. EmbeddedIsIndexed' /\ WorkersStand' /\ ResultsStand'
  BY <1>1, <1>2 DEF EmbeddedIsIndexed, WorkersStand, Stands, ResultsStand
<1>4. ScreenedOnce'
  <2>1. \A v \in HrWorkers : \A job : Works(v, job)' <=> Works(v, job) BY <1>2 DEF Works
  <2>2. QED BY <1>1, <1>2, <2>1, OnceKept
<1>5. ASSUME NEW x \in Runs, NEW n \in 1..TopN, ShortlistLook(x, n)
      PROVE  JobsTyped' /\ RequestStands' /\ application' = application
  <2>1. PICK new : /\ new = {r \in {results[x][i] : i \in 1..Least(n, Len(results[x]))} : application[r] = {}}
                   /\ request' = [at |-> "shortlist", of |-> x, new |-> new]
    BY <1>5 DEF ShortlistLook
  <2>2. new \subseteq Range(results[x]) /\ Range(results[x]) \subseteq Resumes
    <3>1. PICK s \in Seq(Resumes) : s = results[x] BY <1>1 DEF RowsTyped
    <3>2. Len(s) \in Nat /\ DOMAIN s = 1..Len(s) /\ \A i \in DOMAIN s : s[i] \in Resumes
      BY <3>1
    <3>3. TopN \in Nat BY RecruitmentAssumption
    <3>4. 1..Least(n, Len(s)) \subseteq DOMAIN s BY <3>2, <3>3 DEF Least
    <3>5. QED BY <2>1, <3>1, <3>2, <3>4 DEF Range
  <2>3. PICK rq : rq = [at |-> "shortlist", of |-> x, new |-> new] OBVIOUS
  <2>4. rq \in Requests /\ rq.at = "shortlist" /\ rq.of = x /\ rq.new = new
    BY <2>2, <2>3 DEF Requests
  <2>5. request' = rq BY <2>1, <2>3
  <2>6. JobsTyped' BY <1>1, <1>2, <2>4, <2>5 DEF JobsTyped
  <2>7. RequestStands' BY <1>2, <2>2, <2>4, <2>5 DEF RequestStands
  <2>8. QED BY <1>5, <2>6, <2>7 DEF ShortlistLook, rows
<1>6. ASSUME request' \in {request, NoRequest} PROVE JobsTyped' /\ RequestStands'
  <2>1. JobsTyped' BY <1>1, <1>2, <1>6 DEF JobsTyped, Requests
  <2>2. CASE request' = request BY <1>1, <1>2, <2>1, <2>2 DEF RequestStands
  <2>3. CASE request' = NoRequest BY <2>1, <2>3 DEF RequestStands, NoRequest
  <2>4. QED BY <1>6, <2>2, <2>3
<1>7. JobsTyped' /\ RequestStands'
  <2>1. \/ request' \in {request, NoRequest}
        \/ \E x \in Runs, n \in 1..TopN : ShortlistLook(x, n)
    BY DEF ShortlistCommit, Apply, MoveStage, Settle, Change
  <2>2. QED BY <1>5, <1>6, <2>1
<1>8. \A r \in Resumes : application[r] \subseteq Applications BY <1>1 DEF RowsTyped
<1>9. \A r \in Resumes : \A a \in application[r] :
        a.source # NoSource => r \in Range(results[a.source])
  BY <1>1 DEF WorkFollowsResults
<1>10. /\ application' \in [Resumes -> SUBSET Applications]
       /\ \A r \in Resumes : \A a \in application'[r] :
            a.source # NoSource => r \in Range(results[a.source])
  <2>1. ASSUME NEW rs, NEW stage \in Stages \cup {"Screened"}, NEW source \in Runs \cup {NoSource},
               Applied(rs, stage, source), source # NoSource => rs \subseteq Range(results[source])
        PROVE  <1>10
    <3>1. PICK a : a = [stage |-> stage, status |-> "ACTIVE", source |-> source] OBVIOUS
    <3>2. a \in Applications /\ a.source = source BY <3>1 DEF Applications
    <3>3. application' = [r \in Resumes |-> IF r \in rs THEN {a} ELSE application[r]]
      BY <2>1, <3>1 DEF Applied
    <3>4. QED BY <1>8, <1>9, <2>1, <3>2, <3>3
  <2>2. CASE ShortlistCommit
    <3>1. CASE UNCHANGED application BY <1>1, <1>9, <3>1 DEF RowsTyped
    <3>2. CASE Applied(request.new, "Screened", request.of)
      <4>1. request.of \in Runs /\ request.new \subseteq Range(results[request.of])
        BY <1>1, <2>2 DEF ShortlistCommit, RequestStands, JobsTyped, Requests, NoRequest
      <4>2. PICK x \in Runs : x = request.of BY <4>1
      <4>3. PICK new : new = request.new OBVIOUS
      <4>4. Applied(new, "Screened", x) /\ new \subseteq Range(results[x]) BY <3>2, <4>1, <4>2, <4>3
      <4>5. QED BY <2>1, <4>4
    <3>3. QED BY <2>2, <3>1, <3>2 DEF ShortlistCommit
  <2>3. ASSUME NEW r \in Resumes, NEW s \in Stages, Apply(r, s) PROVE <1>10
    <3>1. Applied({r}, s, NoSource) BY <2>3 DEF Apply
    <3>2. QED BY <2>1, <3>1
  <2>4. ASSUME NEW r \in Resumes, NEW fields, Change(r, fields),
               fields \in [stage : Stages] \cup [status : {"HIRED", "REJECTED"}, stage : {"Hired", "Rejected"}]
        PROVE  <1>10
    <3>1. PICK changed : changed =
            {[f \in DOMAIN a |-> IF f \in DOMAIN fields THEN fields[f] ELSE a[f]] : a \in application[r]}
      OBVIOUS
    <3>2. application' = [application EXCEPT ![r] = changed] BY <2>4, <3>1 DEF Change
    <3>3. ASSUME NEW a \in application[r], NEW b,
                 b = [f \in DOMAIN a |-> IF f \in DOMAIN fields THEN fields[f] ELSE a[f]]
          PROVE  b \in Applications /\ b.source = a.source
      <4>1. a \in Applications BY <1>8
      <4>2. DOMAIN a = {"stage", "status", "source"} BY <4>1 DEF Applications
      <4>3. "source" \notin DOMAIN fields
        BY <2>4
      <4>4. b.source = a.source /\ DOMAIN b = {"stage", "status", "source"} BY <3>3, <4>2, <4>3
      <4>5. b.stage = IF "stage" \in DOMAIN fields THEN fields.stage ELSE a.stage BY <3>3, <4>2
      <4>6. b.status = IF "status" \in DOMAIN fields THEN fields.status ELSE a.status BY <3>3, <4>2
      <4>7. b.stage \in Stages \cup {"Screened", "Hired", "Rejected"} BY <2>4, <4>1, <4>5 DEF Applications
      <4>8. b.status \in {"ACTIVE", "HIRED", "REJECTED"} BY <2>4, <4>1, <4>6 DEF Applications
      <4>9. b = [stage |-> b.stage, status |-> b.status, source |-> b.source]
        BY <3>3, <4>4
      <4>10. a.source \in Runs \cup {NoSource} BY <4>1 DEF Applications
      <4>11. QED BY <4>4, <4>7, <4>8, <4>9, <4>10 DEF Applications
    <3>4. \A b \in changed : b \in Applications /\ \E a \in application[r] : b.source = a.source
      BY <3>1, <3>3
    <3>5. changed \subseteq Applications BY <3>4
    <3>6. application' \in [Resumes -> SUBSET Applications] BY <1>1, <3>2, <3>5 DEF RowsTyped
    <3>7. \A t \in Resumes : application'[t] = IF t = r THEN changed ELSE application[t]
      BY <1>1, <3>2 DEF RowsTyped
    <3>8. QED BY <1>9, <3>4, <3>6, <3>7
  <2>5. ASSUME NEW r \in Resumes, NEW s \in Stages, MoveStage(r, s) PROVE <1>10
    <3>1. PICK fields : fields = [stage |-> s] OBVIOUS
    <3>2. Change(r, fields) BY <2>5, <3>1 DEF MoveStage
    <3>3. fields \in [stage : Stages] BY <3>1
    <3>4. QED BY <2>4, <3>2, <3>3
  <2>6. ASSUME NEW r \in Resumes, NEW v \in {"HIRED", "REJECTED"}, Settle(r, v) PROVE <1>10
    <3>1. PICK fields : fields = [status |-> v, stage |-> IF v = "HIRED" THEN "Hired" ELSE "Rejected"]
      OBVIOUS
    <3>2. Change(r, fields) BY <2>6, <3>1 DEF Settle
    <3>3. fields \in [status : {"HIRED", "REJECTED"}, stage : {"Hired", "Rejected"}] BY <3>1
    <3>4. QED BY <2>4, <3>2, <3>3
  <2>7. ASSUME NEW x \in Runs, NEW n \in 1..TopN, ShortlistLook(x, n) PROVE <1>10
    BY <1>1, <1>5, <1>9, <2>7 DEF RowsTyped
  <2>8. QED BY <2>2, <2>3, <2>5, <2>6, <2>7
<1>11. RowsTyped' BY <1>1, <1>2, <1>10 DEF RowsTyped
<1>12. WorkFollowsResults' BY <1>1, <1>2, <1>10 DEF WorkFollowsResults
<1>13. QED BY <1>3, <1>4, <1>7, <1>11, <1>12 DEF RecruitmentInv

THEOREM RecruitmentInvariance == RecruitmentSpec => []RecruitmentInv
<1>1. RecruitmentInit => RecruitmentInv
  <2> SUFFICES ASSUME RecruitmentInit PROVE RecruitmentInv OBVIOUS
  <2>1. RowsTyped
    BY DEF RecruitmentInit, RowsTyped, ResumeRows
  <2>2. JobsTyped BY DEF RecruitmentInit, JobsTyped, WorkerStates, Requests
  <2>3. \A w \in HrWorkers : hrworker[w] = Free BY DEF RecruitmentInit
  <2>4. Free.at = "free" BY DEF Free
  <2>5. WorkersStand BY <2>3, <2>4 DEF WorkersStand, Stands, Ranking
  <2>6. ScreenedOnce
    <3>1. queue = <<>> /\ lost = {} /\ unsent = {} /\ Range(queue) = {} BY DEF RecruitmentInit, Range
    <3>2. \A w \in HrWorkers : \A job : ~Works(w, job) BY <2>3 DEF Works
    <3>3. QED BY <3>1, <3>2 DEF ScreenedOnce, QueuedOnce, InOnePlace, Nowhere
  <2>7. ResultsStand /\ RequestStands
    BY DEF RecruitmentInit, ResultsStand, RequestStands, NoRequest
  <2>8. EmbeddedIsIndexed /\ WorkFollowsResults
    BY DEF RecruitmentInit, EmbeddedIsIndexed, WorkFollowsResults
  <2>9. QED BY <2>1, <2>2, <2>5, <2>6, <2>7, <2>8 DEF RecruitmentInv
<1>2. RecruitmentInv /\ [RecruitmentNext]_rvars => RecruitmentInv'
  <2> SUFFICES ASSUME RecruitmentInv, [RecruitmentNext]_rvars PROVE RecruitmentInv' OBVIOUS
  <2>1. ASSUME NEW w \in HrWorkers, WorkerStep(w) PROVE RecruitmentInv'
    BY <2>1, ParsingKeeps, EmbeddingKeeps, RankingStarts, RankingReads, RankingCommits,
       FollowingKeeps, ExplainingKeeps
    DEF WorkerStep
  <2>2. CASE UNCHANGED rvars
    BY <2>2
    DEF rvars, RecruitmentInv, RowsTyped, JobsTyped, ScreenedOnce, WorkersStand, Stands, Works,
        QueuedOnce, ResultsStand, RequestStands, EmbeddedIsIndexed, WorkFollowsResults, InOnePlace, Nowhere
  <2>3. QED BY <2>1, <2>2, ResumeRequests, RunRequests, JobsMove, ApplicationsKeep
        DEF RecruitmentNext
<1>3. QED BY <1>1, <1>2, PTL DEF RecruitmentSpec

\* Although jobs are requeued and runs cancelled after they are DONE, what was
\* made from a ranking stays justified by it: results are written once.
THEOREM WorkFollowsResultsCorrect == RecruitmentSpec => []WorkFollowsResults
<1>1. RecruitmentInv => WorkFollowsResults BY DEF RecruitmentInv
<1>2. QED BY RecruitmentInvariance, <1>1, PTL

\* Although jobs for one resume overlap, a resume is marked EMBEDDED only after
\* its vectors are stored, and they stay.
THEOREM EmbeddedIsIndexedCorrect == RecruitmentSpec => []EmbeddedIsIndexed
<1>1. RecruitmentInv => EmbeddedIsIndexed BY DEF RecruitmentInv
<1>2. QED BY RecruitmentInvariance, <1>1, PTL

=============================================================================
