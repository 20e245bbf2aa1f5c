------------------------- MODULE OrganizationProofs -------------------------
(***************************************************************************)
(* Theorems about the workflow engine, by itself and under an organization *)
(* whose managers change, for any number of users, roles, definitions,     *)
(* requests and sessions: requests are decided along the chain they were   *)
(* created with, the people concerned are told, and the log replays.  And  *)
(* about reporting lines, for any employees and levels: what the two       *)
(* recursive queries find are the ways up the lines, so that managers may  *)
(* see exactly their teams.                                                *)
(***************************************************************************)
EXTENDS Organization, DataLemmas

RequestFields ==
  {"creator", "key", "body", "chain", "status", "cur", "decisions", "remarks", "events"}

Submissions ==
  [user : Requesters, key : Keys \cup {NoKey}, body : Bodies, steps : StepLists \ {<<>>}]

\* A request has a chain of steps, stands at one of them, and each has
\* somebody assigned to it.
WellFormed(q) ==
  /\ DOMAIN q = RequestFields
  /\ q.status \in {"submitted"} \cup Terminal
  /\ IsASequence(q.chain) /\ IsASequence(q.decisions)
  /\ q.cur \in DOMAIN q.chain
  /\ \A i \in DOMAIN q.chain : q.chain[i] # {}

\* ChainOfCommand, of one request.
Commanded(q) ==
  LET n == Len(q.decisions) IN
  /\ \A i \in 1..n : q.decisions[i].by \in q.chain[i]
  /\ \A i \in 1..(n - 1) : q.decisions[i].outcome = "approved"
  /\ q.status \in {"submitted", "cancelled"} =>
       q.cur = n + 1 /\ (n > 0 => q.decisions[n].outcome = "approved")
  /\ q.status = "submitted" => q.chain[q.cur] # {}
  /\ q.status = "approved" => n = Len(q.chain) /\ q.decisions[n].outcome = "approved"
  /\ q.status = "rejected" => n = q.cur /\ q.decisions[n].outcome = "rejected"

\* RightPeopleTold, of the assignments and of the outcome of one request.
AssigneesTold(r, q, out) ==
  /\ \A i \in 1..q.cur : Assigned(r, i, q.chain) \subseteq out
  /\ \A n \in out : n[1] = "step.assigned" /\ n[2] = r =>
       \E i \in 1..q.cur : n \in Assigned(r, i, q.chain)

OutcomeTold(r, q, out) ==
  {n \in out : n[1] = "request.finalized" /\ n[2] = r} =
    Finalized(r, q.status, CASE q.status = "submitted" -> {}
                             [] q.status = "cancelled" -> q.chain[q.cur]
                             [] OTHER -> {q.creator})

EngineTyped ==
  /\ steps \in [Definitions -> StepLists \cup {<<>>}] /\ active \subseteq Definitions
  /\ creating \in [Sessions -> Submissions \cup {NoCreate}]
  /\ IsASequence(reqs)

\* What is not about a request does not tell of its steps or its outcome.
AboutRequests(out, n) ==
  \A x \in out : x[1] \in {"step.assigned", "request.finalized"} => x[2] \in 1..n

IInv ==
  /\ EngineTyped
  /\ AboutRequests(outbox, Len(reqs))
  /\ \A r \in Ids : /\ WellFormed(reqs[r]) /\ Commanded(reqs[r])
                    /\ AssigneesTold(r, reqs[r], outbox) /\ OutcomeTold(r, reqs[r], outbox)

-----------------------------------------------------------------------------
\* The properties of the runs, request by request.
LEMMA PropertiesAre ==
  ASSUME IInv PROVE ChainOfCommand /\ RightPeopleTold
<1>1. ChainOfCommand BY DEF IInv, Commanded, ChainOfCommand
<1>2. ASSUME NEW r \in Ids
      PROVE  {n \in outbox : n[1] = "step.assigned" /\ n[2] = r} =
               UNION {{<<"step.assigned", r, i, u>> : u \in reqs[r].chain[i]} : i \in 1..reqs[r].cur}
  <2>1. AssigneesTold(r, reqs[r], outbox) BY DEF IInv
  <2>2. QED BY <2>1 DEF AssigneesTold, Assigned
<1>3. RightPeopleTold BY <1>2 DEF IInv, OutcomeTold, Finalized, RightPeopleTold
<1>4. QED BY <1>1, <1>3

\* What is sent about one request says nothing of another.
LEMMA OthersToldAlike ==
  ASSUME NEW r \in Nat, NEW p \in Nat \ {r}, NEW q, NEW new,
         \A n \in new : n[1] \in {"step.assigned", "request.finalized"} => n[2] = r
  PROVE  /\ AssigneesTold(p, q, outbox) => AssigneesTold(p, q, outbox \cup new)
         /\ OutcomeTold(p, q, outbox) => OutcomeTold(p, q, outbox \cup new)
<1>1. ASSUME NEW k \in {"step.assigned", "request.finalized"}
      PROVE  {n \in outbox \cup new : n[1] = k /\ n[2] = p} = {n \in outbox : n[1] = k /\ n[2] = p}
  OBVIOUS
<1>2. QED BY <1>1 DEF AssigneesTold, OutcomeTold

\* A step that writes one request and sends messages about it.
LEMMA RequestWritten ==
  ASSUME IInv, NEW r \in Ids, NEW q, NEW new,
         reqs' = [reqs EXCEPT ![r] = q], outbox' = outbox \cup new,
         \A n \in new : n[1] \in {"step.assigned", "request.finalized"} => n[2] = r,
         WellFormed(q), Commanded(q),
         AssigneesTold(r, q, outbox'), OutcomeTold(r, q, outbox'),
         UNCHANGED <<steps, active, creating>>
  PROVE  IInv'
<1>1. /\ IsASequence(reqs) /\ DOMAIN reqs = Ids /\ Len(reqs) \in Nat
  BY AppendSequence DEF IInv, EngineTyped, Ids
<1>2. /\ IsASequence(reqs') /\ Len(reqs') = Len(reqs) /\ Ids' = Ids /\ reqs'[r] = q
      /\ \A p \in Ids : p # r => reqs'[p] = reqs[p]
  BY <1>1, ExceptSequence DEF Ids
<1>3. EngineTyped' BY <1>2 DEF IInv, EngineTyped
<1>4. AboutRequests(outbox', Len(reqs'))
  BY <1>2 DEF IInv, AboutRequests, Ids
<1>5. ASSUME NEW p \in Ids'
      PROVE  /\ WellFormed(reqs'[p]) /\ Commanded(reqs'[p])
             /\ AssigneesTold(p, reqs'[p], outbox') /\ OutcomeTold(p, reqs'[p], outbox')
  <2>1. CASE p = r BY <1>2, <2>1
  <2>2. CASE p # r
    <3>1. p \in Ids /\ reqs'[p] = reqs[p] BY <1>2, <2>2
    <3>2. p \in Nat /\ r \in Nat BY <1>1, <3>1 DEF Ids
    <3>3. QED BY <2>2, <3>1, <3>2, OthersToldAlike DEF IInv
  <2>3. QED BY <2>1, <2>2
<1>6. QED BY <1>3, <1>4, <1>5 DEF IInv, WellFormed, Commanded, AssigneesTold, OutcomeTold,
         AboutRequests, Assigned, Finalized

\* A step that adds a request and sends messages about it.
LEMMA RequestAdded ==
  ASSUME IInv, NEW q, NEW new, NEW s \in Sessions,
         reqs' = Append(reqs, q), outbox' = outbox \cup new,
         \A n \in new : n[1] \in {"step.assigned", "request.finalized"} => n[2] = Len(reqs) + 1,
         WellFormed(q), Commanded(q),
         AssigneesTold(Len(reqs) + 1, q, new), OutcomeTold(Len(reqs) + 1, q, new),
         creating' = [creating EXCEPT ![s] = NoCreate], UNCHANGED <<steps, active>>
  PROVE  IInv'
<1>1. PICK r \in Nat : r = Len(reqs) + 1 BY AppendSequence DEF IInv, EngineTyped
<1>2. /\ IsASequence(reqs') /\ Len(reqs') = r /\ reqs'[r] = q /\ Len(reqs) \in Nat
      /\ Ids' = Ids \cup {r} /\ r \notin Ids
      /\ \A p \in Ids : p \in Nat /\ reqs'[p] = reqs[p]
  BY <1>1, AppendSequence DEF Ids, IInv, EngineTyped
<1>3. EngineTyped' BY <1>2 DEF IInv, EngineTyped
<1>4. AboutRequests(outbox', Len(reqs'))
  BY <1>1, <1>2 DEF IInv, AboutRequests, Ids
<1>5. AssigneesTold(r, q, outbox') /\ OutcomeTold(r, q, outbox')
  <2>1. ASSUME NEW k \in {"step.assigned", "request.finalized"}
        PROVE  {n \in outbox' : n[1] = k /\ n[2] = r} = {n \in new : n[1] = k /\ n[2] = r}
    BY <1>1, <1>2 DEF IInv, AboutRequests
  <2>2. AssigneesTold(r, q, new) /\ OutcomeTold(r, q, new) BY <1>1
  <2>3. AssigneesTold(r, q, outbox') BY <2>1, <2>2 DEF AssigneesTold
  <2>4. OutcomeTold(r, q, outbox') BY <2>1, <2>2 DEF OutcomeTold
  <2>5. QED BY <2>3, <2>4
<1>6. ASSUME NEW p \in Ids'
      PROVE  /\ WellFormed(reqs'[p]) /\ Commanded(reqs'[p])
             /\ AssigneesTold(p, reqs'[p], outbox') /\ OutcomeTold(p, reqs'[p], outbox')
  <2>1. CASE p = r BY <1>2, <1>5, <2>1
  <2>2. CASE p # r
    <3>1. p \in Ids /\ p \in Nat \ {r} /\ reqs'[p] = reqs[p] BY <1>2, <2>2
    <3>2. QED BY <1>1, <3>1, OthersToldAlike DEF IInv
  <2>3. QED BY <2>1, <2>2
<1>7. QED BY <1>3, <1>4, <1>6 DEF IInv, WellFormed, Commanded, AssigneesTold, OutcomeTold,
         AboutRequests, Assigned, Finalized

\* A step that leaves the requests alone, and what is sent about them.
LEMMA RequestsStand ==
  ASSUME IInv, reqs' = reqs, NEW new, outbox' = outbox \cup new,
         \A n \in new : n[1] \notin {"step.assigned", "request.finalized"}, EngineTyped'
  PROVE  IInv'
<1>1. AboutRequests(outbox', Len(reqs')) BY DEF IInv, AboutRequests
<1>2. ASSUME NEW k \in {"step.assigned", "request.finalized"}, NEW r
      PROVE  {n \in outbox' : n[1] = k /\ n[2] = r} = {n \in outbox : n[1] = k /\ n[2] = r}
  OBVIOUS
<1>3. \A r \in Ids : AssigneesTold(r, reqs[r], outbox') /\ OutcomeTold(r, reqs[r], outbox')
  BY <1>2 DEF IInv, AssigneesTold, OutcomeTold
<1>4. QED BY <1>1, <1>3 DEF IInv, Ids, WellFormed, Commanded, AssigneesTold, OutcomeTold,
         AboutRequests, Assigned, Finalized

-----------------------------------------------------------------------------
(* Creation.                                                                *)

\* A submission under way has steps.
LEMMA CreateCheckKeeps ==
  ASSUME IInv, NEW s \in Sessions, NEW u \in Requesters, NEW k \in Keys \cup {NoKey},
         NEW b \in Bodies, CreateCheck(s, u, k, b)
  PROVE  IInv'
<1>1. PICK d \in ActiveDefinitions :
        /\ steps[d] # <<>>
        /\ creating' = [creating EXCEPT ![s] =
                          [user |-> u, key |-> k, body |-> b, steps |-> steps[d]]]
  BY DEF CreateCheck
<1>2. d \in Definitions BY DEF ActiveDefinitions, ActiveIn, IInv, EngineTyped
<1>3. steps[d] \in StepLists \ {<<>>} BY <1>1, <1>2 DEF IInv, EngineTyped
<1>4. EngineTyped' BY <1>1, <1>3 DEF IInv, EngineTyped, Submissions, CreateCheck
<1>5. PICK new : new = {} OBVIOUS
<1>6. reqs' = reqs /\ outbox' = outbox \cup new BY <1>5 DEF CreateCheck
<1>7. QED BY <1>4, <1>5, <1>6, RequestsStand

\* A request that is inserted stands at its first step, and whom that is
\* assigned to is told.
LEMMA CreateInsertKeeps ==
  ASSUME IInv, NEW s \in Sessions, CreateInsert(s) PROVE IInv'
<1> PICK c, chain : c = creating[s] /\ chain = ChainOf(c) OBVIOUS
<1> DEFINE q == NewRequest(c, chain)
           r == Len(reqs) + 1
           new == Assigned(r, 1, chain)
<1>1. /\ \A i \in DOMAIN c.steps : chain[i] # {}
      /\ reqs' = Append(reqs, q)
      /\ outbox' = outbox \cup Assigned(Len(reqs'), 1, chain)
      /\ creating' = [creating EXCEPT ![s] = NoCreate]
      /\ UNCHANGED <<steps, active>>
  BY DEF CreateInsert, InsertRequest, CreateEnd
<1>2. Len(reqs') = r BY <1>1, AppendSequence DEF IInv, EngineTyped
<1>3. c.steps \in StepLists \ {<<>>}
  BY DEF CreateInsert, IInv, EngineTyped, Submissions
<1>4. PICK n \in Nat \ {0} : DOMAIN c.steps = 1..n
  <2>1. c.steps \in Seq(StepSpecs) /\ c.steps # <<>> BY <1>3, EngineAssumption
  <2>2. Len(c.steps) \in Nat \ {0} /\ DOMAIN c.steps = 1..Len(c.steps) BY <2>1
  <2>3. QED BY <2>2
<1>5. IsASequence(chain) /\ DOMAIN chain = 1..n
  BY <1>4, SequenceIsFunction DEF ChainOf
<1>6. /\ q.chain = chain /\ q.status = "submitted" /\ q.cur = 1 /\ q.decisions = <<>>
      /\ DOMAIN q = RequestFields
  BY DEF NewRequest, RequestFields
<1>7. \A x \in new : x[1] = "step.assigned" /\ x[2] = r BY DEF Assigned
<1> HIDE DEF q
<1>8. WellFormed(q)
  <2>1. IsASequence(q.decisions) BY <1>6 DEF IsASequence
  <2>2. QED BY <1>1, <1>4, <1>5, <1>6, <2>1 DEF WellFormed
<1>9. Commanded(q) BY <1>1, <1>4, <1>5, <1>6 DEF Commanded
<1>10. AssigneesTold(r, q, new) BY <1>6, <1>7 DEF AssigneesTold
<1>11. OutcomeTold(r, q, new) BY <1>6, <1>7 DEF OutcomeTold, Finalized
<1> HIDE DEF new
<1>12. outbox' = outbox \cup new BY <1>1, <1>2 DEF new
<1>13. QED BY <1>1, <1>7, <1>8, <1>9, <1>10, <1>11, <1>12, RequestAdded

-----------------------------------------------------------------------------
(* Decisions and remarks.                                                   *)

\* What a decision finds: the current step is undecided, and the deciding
\* user assigned to it.
LEMMA DecisionFinds ==
  ASSUME IInv, NEW u, NEW r \in Ids, MayDecide(u, r)
  PROVE  LET q == reqs[r]
             n == Len(q.decisions)
         IN  /\ WellFormed(q) /\ q.status = "submitted" /\ u \in q.chain[q.cur]
             /\ n \in Nat /\ q.cur = n + 1
             /\ \A i \in 1..n : /\ q.decisions[i].by \in q.chain[i]
                                /\ q.decisions[i].outcome = "approved"
             /\ AssigneesTold(r, q, outbox) /\ OutcomeTold(r, q, outbox)
<1> DEFINE q == reqs[r]
           n == Len(q.decisions)
<1>1. /\ WellFormed(q) /\ q.status = "submitted" /\ u \in q.chain[q.cur] /\ Commanded(q)
      /\ AssigneesTold(r, q, outbox) /\ OutcomeTold(r, q, outbox)
  BY DEF MayDecide, IInv
<1>2. n \in Nat BY <1>1, AppendSequence DEF WellFormed
<1> HIDE DEF q, n
<1>3. /\ q.cur = n + 1 /\ \A i \in 1..n : q.decisions[i].by \in q.chain[i]
      /\ (n > 0 => q.decisions[n].outcome = "approved")
      /\ \A i \in 1..(n - 1) : q.decisions[i].outcome = "approved"
  BY <1>1 DEF Commanded, n
<1>4. \A i \in 1..n : q.decisions[i].outcome = "approved"
  <2>1. \A i \in 1..n : i = n \/ i \in 1..(n - 1) BY <1>2
  <2>2. QED BY <1>2, <1>3, <2>1
<1>5. QED BY <1>1, <1>2, <1>3, <1>4 DEF q, n

\* The decisions of a request after one more.
LEMMA OneMoreDecision ==
  ASSUME IInv, NEW u, NEW r \in Ids, MayDecide(u, r), NEW outcome
  PROVE  LET q == reqs[r]
             ds == Decided(u, r, outcome)
         IN  /\ IsASequence(ds) /\ Len(ds) = q.cur /\ q.cur \in Nat \ {0}
             /\ ds[q.cur].outcome = outcome
             /\ \A i \in 1..q.cur : ds[i].by \in q.chain[i]
             /\ \A i \in 1..(q.cur - 1) : ds[i].outcome = "approved"
<1> DEFINE q == reqs[r]
           d == [by |-> u, outcome |-> outcome]
<1>1. d.by = u /\ d.outcome = outcome OBVIOUS
<1> HIDE DEF d
<1>2. PICK n \in Nat : n = Len(q.decisions) BY DecisionFinds
<1>3. /\ IsASequence(q.decisions) /\ q.cur = n + 1 /\ u \in q.chain[n + 1]
      /\ \A i \in 1..n : /\ q.decisions[i].by \in q.chain[i]
                         /\ q.decisions[i].outcome = "approved"
  BY <1>2, DecisionFinds DEF WellFormed
<1> HIDE DEF q
<1> DEFINE ds == Append(q.decisions, d)
<1>4. /\ IsASequence(ds) /\ Len(ds) = n + 1 /\ ds[n + 1] = d
      /\ \A i \in 1..n : ds[i] = q.decisions[i]
  BY <1>2, <1>3, AppendSequence
<1> HIDE DEF ds
<1>5. \A i \in 1..(n + 1) : i \in 1..n \/ i = n + 1 BY <1>2
<1>6. (n + 1) - 1 = n BY <1>2
<1>7. QED BY <1>1, <1>3, <1>4, <1>5, <1>6 DEF q, d, ds, Decided

\* An approval that is not the last: the next step's assignees are told.
LEMMA ApproveNextKeeps ==
  ASSUME IInv, NEW u \in Users, NEW r \in Ids, ApproveNext(u, r) PROVE IInv'
<1> PICK q, ds, es : /\ q = reqs[r] /\ ds = Decided(u, r, "approved")
                     /\ es = q.events \o ApprovalEvents(q.cur)
  OBVIOUS
<1> DEFINE x == [q EXCEPT !.decisions = ds, !.cur = @ + 1, !.events = es]
           new == Assigned(r, q.cur + 1, q.chain)
<1>1. /\ MayDecide(u, r) /\ q.cur < Len(q.chain)
      /\ reqs' = [reqs EXCEPT ![r] = x] /\ outbox' = outbox \cup new
      /\ UNCHANGED <<steps, active, creating>>
  BY DEF ApproveNext
<1>2. PICK n \in Nat \ {0} : n = q.cur BY <1>1, OneMoreDecision
<1>3. /\ WellFormed(q) /\ q.status = "submitted"
      /\ AssigneesTold(r, q, outbox) /\ OutcomeTold(r, q, outbox)
  BY <1>1, DecisionFinds
<1>4. /\ IsASequence(ds) /\ Len(ds) = n /\ ds[n].outcome = "approved"
      /\ \A i \in 1..n : ds[i].by \in q.chain[i]
      /\ \A i \in 1..(n - 1) : ds[i].outcome = "approved"
  BY <1>1, <1>2, OneMoreDecision
<1>5. /\ x.chain = q.chain /\ x.status = q.status /\ x.cur = n + 1 /\ x.decisions = ds
      /\ x.creator = q.creator /\ DOMAIN x = RequestFields
  BY <1>2, <1>3 DEF WellFormed, RequestFields
<1>6. n + 1 \in DOMAIN q.chain
  <2>1. Len(q.chain) \in Nat /\ DOMAIN q.chain = 1..Len(q.chain)
    BY <1>3, AppendSequence DEF WellFormed
  <2>2. QED BY <1>1, <1>2, <2>1
<1> HIDE DEF x
<1>7. WellFormed(x) BY <1>3, <1>4, <1>5, <1>6 DEF WellFormed
<1>8. Commanded(x) BY <1>3, <1>4, <1>5, <1>6 DEF Commanded, WellFormed, Terminal
<1>9. AssigneesTold(r, x, outbox')
  <2>1. \A i \in 1..(n + 1) : i \in 1..n \/ i = n + 1 OBVIOUS
  <2>2. QED BY <1>1, <1>2, <1>3, <1>5, <2>1 DEF AssigneesTold
<1>10. OutcomeTold(r, x, outbox')
  <2>1. {m \in outbox' : m[1] = "request.finalized" /\ m[2] = r}
          = {m \in outbox : m[1] = "request.finalized" /\ m[2] = r}
    BY <1>1 DEF Assigned
  <2>2. QED BY <1>3, <1>5, <2>1 DEF OutcomeTold
<1>11. \A m \in new : m[2] = r BY DEF Assigned
<1> HIDE DEF new
<1>12. QED BY <1>1, <1>7, <1>8, <1>9, <1>10, <1>11, RequestWritten

\* A decision that finalizes the request: its creator is told, once.
LEMMA FinalizeKeeps ==
  ASSUME IInv, NEW u \in Users, NEW r \in Ids, NEW outcome \in {"approved", "rejected"},
         NEW stepEvent, NEW event, Finalize(u, r, outcome, stepEvent, event),
         outcome = "approved" => reqs[r].cur = Len(reqs[r].chain)
  PROVE  IInv'
<1> PICK q, ds, es : /\ q = reqs[r] /\ ds = Decided(u, r, outcome)
                     /\ es = q.events \o << <<stepEvent, q.cur>>, <<event>> >>
  OBVIOUS
<1> DEFINE x == [q EXCEPT !.decisions = ds, !.status = outcome, !.events = es]
           new == Finalized(r, outcome, {q.creator})
<1>1. /\ MayDecide(u, r)
      /\ reqs' = [reqs EXCEPT ![r] = x] /\ outbox' = outbox \cup new
      /\ UNCHANGED <<steps, active, creating>>
  BY DEF Finalize
<1>2. PICK n \in Nat \ {0} : n = q.cur BY <1>1, OneMoreDecision
<1>3. /\ WellFormed(q) /\ q.status = "submitted"
      /\ AssigneesTold(r, q, outbox) /\ OutcomeTold(r, q, outbox)
  BY <1>1, DecisionFinds
<1>4. /\ IsASequence(ds) /\ Len(ds) = n /\ ds[n].outcome = outcome
      /\ \A i \in 1..n : ds[i].by \in q.chain[i]
      /\ \A i \in 1..(n - 1) : ds[i].outcome = "approved"
  BY <1>1, <1>2, OneMoreDecision
<1>5. /\ x.chain = q.chain /\ x.status = outcome /\ x.cur = n /\ x.decisions = ds
      /\ x.creator = q.creator /\ DOMAIN x = RequestFields
  BY <1>2, <1>3 DEF WellFormed, RequestFields
<1> HIDE DEF x
<1>6. WellFormed(x) BY <1>2, <1>3, <1>4, <1>5 DEF WellFormed, Terminal
<1>7. Commanded(x) BY <1>2, <1>4, <1>5 DEF Commanded
<1>8. \A m \in new : m[1] = "request.finalized" /\ m[2] = r BY DEF Finalized
<1>9. AssigneesTold(r, x, outbox') BY <1>1, <1>2, <1>3, <1>5, <1>8 DEF AssigneesTold
<1>10. OutcomeTold(r, x, outbox')
  <2>1. {m \in outbox : m[1] = "request.finalized" /\ m[2] = r} = {}
    BY <1>3 DEF OutcomeTold, Finalized
  <2>2. {m \in outbox' : m[1] = "request.finalized" /\ m[2] = r} = new BY <1>1, <1>8, <2>1
  <2>3. QED BY <1>5, <2>2 DEF OutcomeTold
<1> HIDE DEF new
<1>11. QED BY <1>1, <1>6, <1>7, <1>8, <1>9, <1>10, RequestWritten

\* A cancellation leaves the request where it stood, and tells the assignees
\* of that step.
LEMMA CancelKeeps ==
  ASSUME IInv, NEW u \in Users, NEW r \in Ids, Cancel(u, r) PROVE IInv'
<1> PICK q, es : q = reqs[r] /\ es = Append(q.events, <<"REQUEST_CANCELLED">>) OBVIOUS
<1> DEFINE x == [q EXCEPT !.status = "cancelled", !.events = es]
           new == Finalized(r, "cancelled", q.chain[q.cur])
<1>1. /\ q.status = "submitted"
      /\ reqs' = [reqs EXCEPT ![r] = x] /\ outbox' = outbox \cup new
      /\ UNCHANGED <<steps, active, creating>>
  BY DEF Cancel, MayCancel
<1>2. /\ WellFormed(q) /\ Commanded(q)
      /\ AssigneesTold(r, q, outbox) /\ OutcomeTold(r, q, outbox)
  BY DEF IInv
<1>3. /\ x.chain = q.chain /\ x.status = "cancelled" /\ x.cur = q.cur
      /\ x.decisions = q.decisions /\ x.creator = q.creator /\ DOMAIN x = RequestFields
  BY <1>2 DEF WellFormed, RequestFields
<1> HIDE DEF x
<1>4. WellFormed(x) BY <1>2, <1>3 DEF WellFormed, Terminal
<1>5. Commanded(x) BY <1>1, <1>2, <1>3 DEF Commanded
<1>6. \A m \in new : m[1] = "request.finalized" /\ m[2] = r BY DEF Finalized
<1>7. AssigneesTold(r, x, outbox') BY <1>1, <1>2, <1>3, <1>6 DEF AssigneesTold
<1>8. OutcomeTold(r, x, outbox')
  <2>1. {m \in outbox : m[1] = "request.finalized" /\ m[2] = r} = {}
    BY <1>1, <1>2 DEF OutcomeTold, Finalized
  <2>2. {m \in outbox' : m[1] = "request.finalized" /\ m[2] = r} = new BY <1>1, <1>6, <2>1
  <2>3. QED BY <1>3, <2>2 DEF OutcomeTold
<1> HIDE DEF new
<1>9. QED BY <1>1, <1>4, <1>5, <1>6, <1>7, <1>8, RequestWritten

\* A remark changes nothing of this, in whatever state the request is.
LEMMA RemarkKeeps ==
  ASSUME IInv, NEW u \in Users, NEW r \in Ids, NEW event, Remark(u, r, event), NEW new,
         outbox' = outbox \cup new, \A m \in new : m[1] = "comment.added"
  PROVE  IInv'
<1> PICK q, es : q = reqs[r] /\ es = Append(q.events, <<event>>) OBVIOUS
<1> DEFINE x == [q EXCEPT !.remarks = @ + 1, !.events = es]
<1>1. reqs' = [reqs EXCEPT ![r] = x] /\ UNCHANGED <<steps, active, creating>>
  BY DEF Remark
<1>2. /\ WellFormed(q) /\ Commanded(q)
      /\ AssigneesTold(r, q, outbox) /\ OutcomeTold(r, q, outbox)
  BY DEF IInv
<1>3. /\ x.chain = q.chain /\ x.status = q.status /\ x.cur = q.cur
      /\ x.decisions = q.decisions /\ x.creator = q.creator /\ DOMAIN x = RequestFields
  BY <1>2 DEF WellFormed, RequestFields
<1> HIDE DEF x
<1>4. WellFormed(x) /\ Commanded(x) BY <1>2, <1>3 DEF WellFormed, Commanded
<1>5. AssigneesTold(r, x, outbox') BY <1>2, <1>3 DEF AssigneesTold
<1>6. OutcomeTold(r, x, outbox')
  <2>1. {m \in outbox' : m[1] = "request.finalized" /\ m[2] = r}
          = {m \in outbox : m[1] = "request.finalized" /\ m[2] = r}
    OBVIOUS
  <2>2. QED BY <1>2, <1>3, <2>1 DEF OutcomeTold
<1>7. QED BY <1>1, <1>4, <1>5, <1>6, RequestWritten

-----------------------------------------------------------------------------
\* Every step of the engine keeps the invariant.
LEMMA EngineKeeps == ASSUME IInv, EngineStep PROVE IInv'
<1>1. PICK none : none = {} OBVIOUS
<1>2. CASE \E d \in Definitions : ReplaceSteps(d) \/ Activate(d)
  <2>1. PICK d \in Definitions : ReplaceSteps(d) \/ Activate(d) BY <1>2
  <2>2. reqs' = reqs /\ outbox' = outbox \cup none /\ creating' = creating
    BY <1>1, <2>1 DEF ReplaceSteps, Activate
  <2>3. EngineTyped'
    BY <2>1, <2>2 DEF ReplaceSteps, Activate, IInv, EngineTyped
  <2>4. QED BY <1>1, <2>2, <2>3, RequestsStand
<1>3. CASE \E role \in Roles : ChangeMembers(role)
  <2>1. reqs' = reqs /\ outbox' = outbox \cup none /\ UNCHANGED <<steps, active, creating>>
    BY <1>1, <1>3 DEF ChangeMembers
  <2>2. EngineTyped' BY <2>1 DEF IInv, EngineTyped
  <2>3. QED BY <1>1, <2>1, <2>2, RequestsStand
<1>4. CASE \E s \in Sessions :
             \/ \E u \in Requesters, k \in Keys \cup {NoKey}, b \in Bodies : CreateCheck(s, u, k, b)
             \/ CreateInsert(s)
  BY <1>4, CreateCheckKeeps, CreateInsertKeeps
<1>5. CASE \E s \in Sessions : CreateFails(s)
  <2>1. reqs' = reqs /\ outbox' = outbox \cup none BY <1>1, <1>5 DEF CreateFails
  <2>2. EngineTyped' BY <1>5 DEF CreateFails, CreateEnd, IInv, EngineTyped
  <2>3. QED BY <1>1, <2>1, <2>2, RequestsStand
<1>6. CASE \E u \in Users, r \in Ids :
             ApproveNext(u, r) \/ ApproveLast(u, r) \/ Reject(u, r) \/ Cancel(u, r)
  BY <1>6, ApproveNextKeeps, FinalizeKeeps, CancelKeeps DEF ApproveLast, Reject
<1>7. CASE \E u \in Users, r \in Ids : AddComment(u, r) \/ AddAttachment(u, r)
  <2>1. PICK u \in Users, r \in Ids : AddComment(u, r) \/ AddAttachment(u, r) BY <1>7
  <2>2. CASE AddComment(u, r)
    <3>1. PICK told : outbox' = outbox \cup {<<"comment.added", r, reqs[r].remarks, v>> : v \in told}
      BY <2>2 DEF AddComment
    <3>2. PICK new : new = {<<"comment.added", r, reqs[r].remarks, v>> : v \in told} OBVIOUS
    <3>3. outbox' = outbox \cup new /\ \A m \in new : m[1] = "comment.added" BY <3>1, <3>2
    <3>4. QED BY <2>2, <3>3, RemarkKeeps DEF AddComment
  <2>3. CASE AddAttachment(u, r)
    <3>1. outbox' = outbox \cup none BY <1>1, <2>3 DEF AddAttachment
    <3>2. QED BY <1>1, <2>3, <3>1, RemarkKeeps DEF AddAttachment
  <2>4. QED BY <2>1, <2>2, <2>3
<1>8. QED BY <1>2, <1>3, <1>4, <1>5, <1>6, <1>7 DEF EngineStep

\* There is no request at first.
LEMMA EngineInit == Init => IInv
<1> SUFFICES ASSUME Init PROVE IInv OBVIOUS
<1>1. reqs = <<>> /\ outbox = {} BY DEF Init
<1>2. IsASequence(reqs) /\ Len(reqs) = 0 /\ Ids = {} BY <1>1 DEF IsASequence, Ids
<1>3. EngineTyped BY <1>2 DEF Init, EngineTyped
<1>4. QED BY <1>1, <1>2, <1>3 DEF IInv, AboutRequests

\* What HR changes reaches neither requests nor what is sent about them.
LEMMA OrgKeeps == ASSUME IInv, OrgStep PROVE IInv'
<1>1. PICK new : /\ UNCHANGED <<members, steps, active, creating, reqs>>
                 /\ outbox' = outbox \cup new /\ \A m \in new : m[1] = "EMPLOYEE_LINKED"
  <2>1. PICK none : none = {} OBVIOUS
  <2>2. CASE \E e \in Employees, u \in Users : LinkUser(e, u)
    <3>1. PICK e \in Employees, u \in Users : LinkUser(e, u) BY <2>2
    <3>2. PICK new : new = {<<"EMPLOYEE_LINKED", 0, e, u>>} OBVIOUS
    <3>3. \A m \in new : m[1] = "EMPLOYEE_LINKED" BY <3>2
    <3>4. /\ UNCHANGED <<members, steps, active, creating, reqs>>
          /\ outbox' = outbox \cup new
      BY <3>1, <3>2 DEF LinkUser
    <3>5. QED BY <3>3, <3>4
  <2>3. CASE ~\E e \in Employees, u \in Users : LinkUser(e, u)
    <3>1. UNCHANGED engine
      BY <2>3 DEF OrgStep, PatchStatus, CreateEmployee, ChangeBegin, ChangeCommit, ChangeFails
    <3>2. outbox' = outbox \cup none BY <2>1, <3>1 DEF engine
    <3>3. \A m \in none : m[1] = "EMPLOYEE_LINKED" BY <2>1
    <3>4. QED BY <3>1, <3>2, <3>3 DEF engine
  <2>4. QED BY <2>2, <2>3
<1>2. EngineTyped' BY <1>1 DEF IInv, EngineTyped
<1>3. QED BY <1>1, <1>2, RequestsStand

\* Nor does a manager who changes by other means, or a step of nothing.
LEMMA ManagersKeep ==
  ASSUME IInv, UNCHANGED <<members, steps, active, creating, reqs, outbox>> PROVE IInv'
<1>1. EngineTyped' BY DEF IInv, EngineTyped
<1>2. PICK none : none = {} OBVIOUS
<1>3. reqs' = reqs /\ outbox' = outbox \cup none BY <1>2
<1>4. QED BY <1>1, <1>2, <1>3, RequestsStand

-----------------------------------------------------------------------------
(* The event log: what FoldLeft means of it, and that each step adds to it  *)
(* what it does.                                                            *)

\* Where a log starts, where it ends, and where it stands after the events at
\* a set t of its places.
Start == <<"none", 0>>

StateAfter(s) == FoldLeft(Replay, Start, s)

ReplaysTo(s, g) ==
  \A t \in SUBSET DOMAIN s :
    g[t] = IF t = {} THEN Start ELSE Replay(g[t \ {Max(t)}], s[Max(t)])

\* What FoldLeft means of a log.
LEMMA LogIsFold ==
  ASSUME NEW s, IsASequence(s)
  PROVE  \E g : ReplaysTo(s, g) /\ StateAfter(s) = g[DOMAIN s]
<1> DEFINE S == DOMAIN s
           V == {"none", "submitted", "approved", "rejected", "cancelled"}
                  \X ({0} \cup {s[i][2] : i \in S})
           c == [t \in SUBSET S |-> Max(t)]
           step == [p \in S \X V |-> Replay(p[2], s[p[1]])]
           Iter(g) == [t \in SUBSET S |->
                         IF t = {} THEN Start ELSE Replay(g[t \ {Max(t)}], s[Max(t)])]
<1>1. Len(s) \in Nat /\ S = 1..Len(s) /\ IsFiniteSet(S)
  BY AppendSequence, FS_Interval
<1>2. \A t \in SUBSET S : t # {} => Max(t) \in t
  <2>1. ASSUME NEW t \in SUBSET S, t # {} PROVE Max(t) \in t
    <3>1. t \subseteq Nat /\ \A m \in t : m <= Len(s) BY <1>1
    <3>2. QED BY <1>1, <2>1, <3>1, MaxIsGreatest
  <2>2. QED BY <2>1
<1>3. \A t \in SUBSET S : c[t] = Max(t) OBVIOUS
<1>4. \A t \in SUBSET S : t # {} => c[t] \in t BY <1>2, <1>3
<1>5. step \in [S \X V -> V]
  <2>1. ASSUME NEW i \in S, NEW v \in V PROVE Replay(v, s[i]) \in V BY DEF Replay
  <2>2. QED BY <2>1
<1>6. \A i \in S, v \in V : step[<<i, v>>] = Replay(v, s[i]) OBVIOUS
<1>7. Start \in V BY DEF Start
<1> HIDE DEF c, step, V
<1>8. PICK g : FoldsTo(S, V, Start, c, step, g)
  <2> HIDE DEF S
  <2>1. QED BY <1>1, <1>4, <1>5, <1>7, FoldExists
<1>9. /\ g \in [SUBSET S -> V]
      /\ \A t \in SUBSET S : g[t] = IF t = {} THEN Start ELSE step[<<c[t], g[t \ {c[t]}]>>]
  BY <1>8 DEF FoldsTo
<1>10. ASSUME NEW t \in SUBSET S
       PROVE  g[t] = IF t = {} THEN Start ELSE Replay(g[t \ {Max(t)}], s[Max(t)])
  <2>1. CASE t = {} BY <1>9, <2>1
  <2>2. CASE t # {}
    <3>1. PICK m \in S : m = Max(t) BY <1>2, <2>2
    <3>2. c[t] = m /\ g[t \ {m}] \in V BY <1>3, <1>9, <3>1
    <3>3. g[t] = step[<<m, g[t \ {m}]>>] BY <1>9, <2>2, <3>2
    <3>4. g[t] = Replay(g[t \ {m}], s[m]) BY <1>6, <3>2, <3>3
    <3>5. QED BY <2>2, <3>1, <3>4
  <2>3. QED BY <2>1, <2>2
<1>11. g = Iter(g) BY <1>9, <1>10
<1> DEFINE h == CHOOSE h : h = Iter(h)
<1>12. h = Iter(h) BY <1>11
<1>13. StateAfter(s) = h[S] BY DEF StateAfter, FoldLeft, MapThenFoldSet
<1> HIDE DEF h
<1>14. ReplaysTo(s, h) BY <1>12 DEF ReplaysTo
<1>15. QED BY <1>13, <1>14

\* An event that is appended is replayed last.
LEMMA LastIsReplayedLast ==
  ASSUME NEW s, IsASequence(s), NEW e
  PROVE  StateAfter(Append(s, e)) = Replay(StateAfter(s), e)
<1> PICK n \in Nat : n = Len(s) BY AppendSequence
<1>1. PICK z : n = Len(s) /\ z = Append(s, e) OBVIOUS
<1>2. /\ IsASequence(z) /\ DOMAIN s = 1..n /\ DOMAIN z = 1..(n + 1)
      /\ z[n + 1] = e /\ \A i \in DOMAIN s : z[i] = s[i]
  <2>1. DOMAIN z = 1..n \cup {n + 1} BY <1>1, AppendSequence
  <2>2. DOMAIN z = 1..(n + 1) BY <2>1
  <2>3. QED BY <1>1, <2>2, AppendSequence
<1>3. PICK g : ReplaysTo(s, g) /\ StateAfter(s) = g[DOMAIN s]
  BY LogIsFold
<1>4. PICK h : ReplaysTo(z, h) /\ StateAfter(z) = h[DOMAIN z]
  BY <1>2, LogIsFold
<1>5. ASSUME NEW t \in SUBSET (1..(n + 1)), t # {} PROVE Max(t) \in t /\ \A i \in t : i <= Max(t)
  <2>1. t \subseteq Nat /\ \A m \in t : m <= n + 1 BY <1>2
  <2>2. n + 1 \in Nat OBVIOUS
  <2>3. QED BY <1>5, <2>1, <2>2, MaxIsGreatest
<1> DEFINE differ == {t \in SUBSET (1..n) : g[t] # h[t]}
<1>6. differ = {}
  <2> SUFFICES ASSUME differ # {} PROVE FALSE OBVIOUS
  <2>1. differ \subseteq SUBSET (1..n) /\ IsFiniteSet(1..n) BY FS_Interval
  <2>2. PICK t \in differ : \A u \in SUBSET t : u # t => u \notin differ
    <3> HIDE DEF differ
    <3>1. QED BY <2>1, SmallestSet
  <2>3. t \in SUBSET (DOMAIN s) /\ t \in SUBSET (DOMAIN z) BY <1>2
  <2>4. t # {}
    <3>1. t = {} => g[t] = Start /\ h[t] = Start BY <1>3, <1>4, <2>3 DEF ReplaysTo
    <3>2. QED BY <2>2, <3>1
  <2>5. PICK m \in t : m = Max(t) BY <1>2, <1>5, <2>3, <2>4
  <2>6. g[t \ {m}] = h[t \ {m}]
    <3>1. t \ {m} \in SUBSET t /\ t \ {m} # t OBVIOUS
    <3>2. t \ {m} \notin differ BY <2>2, <3>1
    <3>3. QED BY <1>2, <2>3, <3>2
  <2>7. s[m] = z[m] BY <1>2, <2>3
  <2>8. g[t] = Replay(g[t \ {m}], s[m]) BY <1>3, <2>3, <2>4, <2>5 DEF ReplaysTo
  <2>9. h[t] = Replay(h[t \ {m}], z[m]) BY <1>4, <2>3, <2>4, <2>5 DEF ReplaysTo
  <2>10. QED BY <2>2, <2>6, <2>7, <2>8, <2>9
<1>7. Max(DOMAIN z) = n + 1
  <2>1. n + 1 \in DOMAIN z /\ DOMAIN z \in SUBSET (1..(n + 1)) BY <1>2
  <2>2. PICK m : m = Max(DOMAIN z) OBVIOUS
  <2>3. m \in 1..(n + 1) /\ n + 1 <= m BY <1>2, <1>5, <2>1, <2>2
  <2>4. QED BY <2>2, <2>3
<1>8. DOMAIN z \ {n + 1} = DOMAIN s BY <1>2
<1>9. h[DOMAIN z] = Replay(h[DOMAIN s], e)
  <2>1. DOMAIN z \in SUBSET DOMAIN z /\ DOMAIN z # {} BY <1>2
  <2>2. h[DOMAIN z] = Replay(h[DOMAIN z \ {Max(DOMAIN z)}], z[Max(DOMAIN z)])
    BY <1>4, <2>1 DEF ReplaysTo
  <2>3. QED BY <1>2, <1>7, <1>8, <2>2
<1>10. h[DOMAIN s] = g[DOMAIN s] BY <1>2, <1>6
<1>11. QED BY <1>1, <1>3, <1>4, <1>9, <1>10


-----------------------------------------------------------------------------
(* The event log.                                                           *)

\* LogReplays, of one request.
Logged(q) ==
  /\ IsASequence(q.events)
  /\ StateAfter(q.events) = <<q.status, q.cur>>

Logs == \A r \in Ids : Logged(reqs[r])

\* A log of nothing stands at the start.
LEMMA EmptyLog == IsASequence(<<>>) /\ StateAfter(<<>>) = Start
<1>1. IsASequence(<<>>) /\ DOMAIN <<>> = {} BY DEF IsASequence
<1>2. PICK s : s = <<>> OBVIOUS
<1>3. PICK g : ReplaysTo(s, g) /\ StateAfter(s) = g[DOMAIN s]
  BY <1>1, <1>2, LogIsFold
<1>4. g[{}] = Start BY <1>1, <1>2, <1>3 DEF ReplaysTo
<1>5. QED BY <1>1, <1>2, <1>3, <1>4

\* Two events at once are one after the other.
LEMMA TwoEvents ==
  ASSUME NEW s, IsASequence(s), NEW d, NEW e
  PROVE  s \o <<d, e>> = Append(Append(s, d), e)
<1> DEFINE R == {s[i] : i \in DOMAIN s} \cup {d, e}
<1>1. s \in Seq(R)
  <2>1. s \in Seq({s[i] : i \in DOMAIN s}) BY DEF IsASequence
  <2>2. QED BY <2>1, SeqMonotonic
<1>2. d \in R /\ e \in R /\ <<d, e>> \in Seq(R) OBVIOUS
<1> HIDE DEF R
<1>3. Append(Append(s, d), e) \in Seq(R) /\ s \o <<d, e>> \in Seq(R) BY <1>1, <1>2
<1>4. PICK n \in Nat : n = Len(s) BY <1>1
<1>5. /\ Len(Append(Append(s, d), e)) = n + 2 /\ Len(s \o <<d, e>>) = n + 2
      /\ Append(Append(s, d), e)[n + 1] = d /\ Append(Append(s, d), e)[n + 2] = e
      /\ \A i \in 1..n : Append(Append(s, d), e)[i] = s[i]
  BY <1>1, <1>2, <1>4
<1>6. /\ (s \o <<d, e>>)[n + 1] = d /\ (s \o <<d, e>>)[n + 2] = e
      /\ \A i \in 1..n : (s \o <<d, e>>)[i] = s[i]
  BY <1>1, <1>2, <1>4
<1>7. \A i \in 1..(n + 2) : i \in 1..n \/ i = n + 1 \/ i = n + 2 BY <1>4
<1>8. \A i \in 1..(n + 2) : Append(Append(s, d), e)[i] = (s \o <<d, e>>)[i] BY <1>5, <1>6, <1>7
<1>9. QED BY <1>3, <1>5, <1>8, SeqEqual

\* What two more events make of a log.
LEMMA EventsAppended ==
  ASSUME NEW s, IsASequence(s), NEW d, NEW e, NEW v, NEW w,
         v = Replay(StateAfter(s), d), w = Replay(v, e)
  PROVE  IsASequence(s \o <<d, e>>) /\ StateAfter(s \o <<d, e>>) = w
<1>1. PICK y : y = Append(s, d) OBVIOUS
<1>2. IsASequence(y) /\ StateAfter(y) = v
  BY <1>1, AppendSequence, LastIsReplayedLast
<1>3. /\ IsASequence(Append(y, e))
      /\ StateAfter(Append(y, e)) = w
  BY <1>2, AppendSequence, LastIsReplayedLast
<1>4. s \o <<d, e>> = Append(y, e) BY <1>1, TwoEvents
<1>5. QED BY <1>3, <1>4

-----------------------------------------------------------------------------
\* A step that writes one request, and its log with it.
LEMMA LogKept ==
  ASSUME IInv, Logs, NEW r \in Ids, NEW q, reqs' = [reqs EXCEPT ![r] = q], Logged(q)
  PROVE  Logs'
<1>1. IsASequence(reqs) /\ DOMAIN reqs = Ids
  BY AppendSequence DEF IInv, EngineTyped, Ids
<1>2. /\ Len(reqs') = Len(reqs) /\ Ids' = Ids /\ reqs'[r] = q
      /\ \A p \in Ids : p # r => reqs'[p] = reqs[p]
  BY <1>1, ExceptSequence DEF Ids
<1>3. \A p \in Ids : Logged(reqs'[p]) BY <1>2 DEF Logs
<1>4. QED BY <1>2, <1>3 DEF Logs, Logged

\* A new request is logged with its first step.
LEMMA InsertLogs ==
  ASSUME IInv, Logs, NEW s \in Sessions, CreateInsert(s) PROVE Logs'
<1> PICK c, chain : c = creating[s] /\ chain = ChainOf(c) OBVIOUS
<1> DEFINE q == NewRequest(c, chain)
           d == <<"REQUEST_CREATED">>
           e == <<"STEP_ASSIGNED", 1>>
<1>1. reqs' = Append(reqs, q) BY DEF CreateInsert, InsertRequest
<1>2. q.status = "submitted" /\ q.cur = 1 /\ q.events = <<d, e>> BY DEF NewRequest
<1>3. Logged(q)
  <2>1. PICK none : none = <<>> OBVIOUS
  <2>2. <<d, e>> = none \o <<d, e>> BY <2>1
  <2>3. PICK w : w = <<"submitted", 1>> OBVIOUS
  <2>4. PICK v : v = <<"submitted", 0>> OBVIOUS
  <2>5. v = Replay(Start, d) /\ w = Replay(v, e) BY <2>3, <2>4 DEF Replay, Start
  <2> HIDE DEF d, e
  <2>6. IsASequence(none) /\ StateAfter(none) = Start BY <2>1, EmptyLog
  <2>7. IsASequence(none \o <<d, e>>) /\ StateAfter(none \o <<d, e>>) = w
    BY <2>5, <2>6, EventsAppended
  <2>8. QED BY <1>2, <2>2, <2>3, <2>7 DEF Logged
<1> HIDE DEF q
<1>4. PICK r \in Nat : r = Len(reqs) + 1 BY AppendSequence DEF IInv, EngineTyped
<1>5. reqs'[r] = q /\ Ids' = Ids \cup {r} /\ \A p \in Ids : reqs'[p] = reqs[p]
  BY <1>1, <1>4, AppendSequence DEF Ids, IInv, EngineTyped
<1>6. \A p \in Ids' : Logged(reqs'[p]) BY <1>3, <1>5 DEF Logs
<1>7. QED BY <1>6 DEF Logs, Logged

\* What a decision, a cancellation or a remark does is in the log.
LEMMA RequestLogs ==
  ASSUME IInv, Logs, NEW u \in Users, NEW r \in Ids,
         \/ ApproveNext(u, r) \/ ApproveLast(u, r) \/ Reject(u, r) \/ Cancel(u, r)
         \/ Remark(u, r, "COMMENT_ADDED") \/ Remark(u, r, "ATTACHMENT_ADDED")
  PROVE  Logs'
<1> PICK q, log : q = reqs[r] /\ log = q.events OBVIOUS
<1>1. /\ DOMAIN q = RequestFields /\ q.status \in {"submitted"} \cup Terminal
      /\ IsASequence(log)
      /\ StateAfter(log) = <<q.status, q.cur>>
  BY DEF IInv, WellFormed, Logs, Logged
<1>2. CASE ApproveNext(u, r)
  <2>1. PICK n, ds, d, e : /\ n = q.cur /\ ds = Decided(u, r, "approved")
                           /\ d = <<"STEP_APPROVED", n>> /\ e = <<"STEP_ASSIGNED", n + 1>>
    OBVIOUS
  <2> DEFINE x == [q EXCEPT !.decisions = ds, !.cur = n + 1, !.events = log \o <<d, e>>]
  <2>2. reqs' = [reqs EXCEPT ![r] = x] BY <1>2, <2>1 DEF ApproveNext, ApprovalEvents
  <2>3. x.status = q.status /\ x.cur = n + 1 /\ x.events = log \o <<d, e>>
    BY <1>1, <2>1 DEF RequestFields
  <2> HIDE DEF x
  <2>4. PICK w : w = <<q.status, n + 1>> OBVIOUS
  <2>5. PICK v : v = <<q.status, n>> OBVIOUS
  <2>6. v = Replay(v, d) /\ w = Replay(v, e) BY <2>1, <2>4, <2>5 DEF Replay
  <2>7. StateAfter(log) = v BY <1>1, <2>1, <2>5
  <2>8. IsASequence(log \o <<d, e>>) /\ StateAfter(log \o <<d, e>>) = w
    BY <1>1, <2>6, <2>7, EventsAppended
  <2>9. Logged(x) BY <2>3, <2>4, <2>8 DEF Logged
  <2>10. QED BY <2>2, <2>9, LogKept
<1>3. ASSUME NEW outcome, NEW stepEvent, NEW event, Finalize(u, r, outcome, stepEvent, event),
             <<outcome, stepEvent, event>> \in
               {<<"approved", "STEP_APPROVED", "REQUEST_APPROVED">>,
                <<"rejected", "STEP_REJECTED", "REQUEST_REJECTED">>}
      PROVE  Logs'
  <2>1. PICK n, ds, d, e : /\ n = q.cur /\ ds = Decided(u, r, outcome)
                           /\ d = <<stepEvent, n>> /\ e = <<event>>
    OBVIOUS
  <2> DEFINE x == [q EXCEPT !.decisions = ds, !.status = outcome, !.events = log \o <<d, e>>]
  <2>2. reqs' = [reqs EXCEPT ![r] = x] BY <1>3, <2>1 DEF Finalize
  <2>3. x.status = outcome /\ x.cur = n /\ x.events = log \o <<d, e>>
    BY <1>1, <2>1 DEF RequestFields
  <2> HIDE DEF x
  <2>4. PICK w : w = <<outcome, n>> OBVIOUS
  <2>5. PICK v : v = <<q.status, n>> OBVIOUS
  <2>6. v = Replay(v, d) /\ w = Replay(v, e) BY <1>3, <2>1, <2>4, <2>5 DEF Replay
  <2>7. StateAfter(log) = v BY <1>1, <2>1, <2>5
  <2>8. IsASequence(log \o <<d, e>>) /\ StateAfter(log \o <<d, e>>) = w
    BY <1>1, <2>6, <2>7, EventsAppended
  <2>9. Logged(x) BY <2>3, <2>4, <2>8 DEF Logged
  <2>10. QED BY <2>2, <2>9, LogKept
<1>4. CASE Cancel(u, r)
  <2>1. PICK n, d : n = q.cur /\ d = <<"REQUEST_CANCELLED">> OBVIOUS
  <2> DEFINE x == [q EXCEPT !.status = "cancelled", !.events = Append(log, d)]
  <2>2. reqs' = [reqs EXCEPT ![r] = x] BY <1>4, <2>1 DEF Cancel
  <2>3. x.status = "cancelled" /\ x.cur = n /\ x.events = Append(log, d)
    BY <1>1, <2>1 DEF RequestFields
  <2> HIDE DEF x
  <2>4. Replay(<<q.status, n>>, d) = <<"cancelled", n>> BY <2>1 DEF Replay
  <2>5. /\ IsASequence(Append(log, d))
        /\ StateAfter(Append(log, d)) = Replay(StateAfter(log), d)
    BY <1>1, AppendSequence, LastIsReplayedLast
  <2>6. Logged(x) BY <1>1, <2>1, <2>3, <2>4, <2>5 DEF Logged
  <2>7. QED BY <2>2, <2>6, LogKept
<1>5. ASSUME NEW event \in {"COMMENT_ADDED", "ATTACHMENT_ADDED"}, Remark(u, r, event) PROVE Logs'
  <2>1. PICK n, d : n = q.cur /\ d = <<event>> OBVIOUS
  <2> DEFINE x == [q EXCEPT !.remarks = @ + 1, !.events = Append(log, d)]
  <2>2. reqs' = [reqs EXCEPT ![r] = x] BY <1>5, <2>1 DEF Remark
  <2>3. x.status = q.status /\ x.cur = n /\ x.events = Append(log, d)
    BY <1>1, <2>1 DEF RequestFields
  <2> HIDE DEF x
  <2>4. Replay(<<q.status, n>>, d) = <<q.status, n>> BY <1>5, <2>1 DEF Replay
  <2>5. /\ IsASequence(Append(log, d))
        /\ StateAfter(Append(log, d)) = Replay(StateAfter(log), d)
    BY <1>1, AppendSequence, LastIsReplayedLast
  <2>6. Logged(x) BY <1>1, <2>1, <2>3, <2>4, <2>5 DEF Logged
  <2>7. QED BY <2>2, <2>6, LogKept
<1>6. QED BY <1>2, <1>3, <1>4, <1>5 DEF ApproveLast, Reject

\* The logs of requests that stand still stand still.
LEMMA LogsStand == ASSUME Logs, reqs' = reqs PROVE Logs'
BY DEF Logs, Ids, Logged

\* Every step of the engine is logged.
LEMMA EngineLogs == ASSUME IInv, Logs, EngineStep PROVE Logs'
<1>1. CASE \/ \E d \in Definitions : ReplaceSteps(d) \/ Activate(d)
           \/ \E role \in Roles : ChangeMembers(role)
           \/ \E s \in Sessions :
                \/ \E u \in Requesters, k \in Keys \cup {NoKey}, b \in Bodies : CreateCheck(s, u, k, b)
                \/ CreateFails(s)
  BY <1>1, LogsStand DEF ReplaceSteps, Activate, ChangeMembers, CreateCheck, CreateFails
<1>2. CASE \E s \in Sessions : CreateInsert(s) BY <1>2, InsertLogs
<1>3. CASE \E u \in Users, r \in Ids :
             \/ ApproveNext(u, r) \/ ApproveLast(u, r) \/ Reject(u, r) \/ Cancel(u, r)
             \/ AddComment(u, r) \/ AddAttachment(u, r)
  BY <1>3, RequestLogs DEF AddComment, AddAttachment
<1>4. QED BY <1>1, <1>2, <1>3 DEF EngineStep

-----------------------------------------------------------------------------
\* Whatever users and administrators do, requests are as the invariant
\* describes.
THEOREM EngineInvariance == Spec => []IInv
<1>1. IInv /\ [Next]_vars => IInv'
  BY EngineKeeps, ManagersKeep DEF Next, ChangeManager, vars
<1>2. QED BY EngineInit, <1>1, PTL DEF Spec

\* A request is decided step by step by the users it was assigned to, however
\* definitions, roles and managers change meanwhile.
THEOREM ChainOfCommandCorrect == Spec => []ChainOfCommand
BY EngineInvariance, PropertiesAre, PTL

\* Those and only those who are assigned, or whose request it is, are told.
THEOREM RightPeopleToldCorrect == Spec => []RightPeopleTold
BY EngineInvariance, PropertiesAre, PTL

\* Replaying the event log of a request gives the status and the step it has.
THEOREM LogReplaysCorrect == Spec => []LogReplays
<1>1. Init => Logs BY DEF Init, Logs, Ids
<1>2. IInv /\ Logs /\ [Next]_vars => Logs'
  BY EngineLogs, LogsStand DEF Next, ChangeManager, vars
<1>3. Logs => LogReplays BY DEF Logs, Logged, LogReplays, StateAfter, Start
<1>4. QED BY EngineInvariance, <1>1, <1>2, <1>3, PTL DEF Spec

\* The same under an organization that hires, links and moves its employees.
THEOREM EngineUnderOrganization ==
  OrgSpec => [](ChainOfCommand /\ RightPeopleTold /\ LogReplays)
<1>1. OrgInit => IInv /\ Logs
  <2>1. Init => Logs BY DEF Init, Logs, Ids
  <2>2. QED BY <2>1, EngineInit DEF OrgInit
<1>2. IInv /\ [OrgNext]_orgvars => IInv'
  BY EngineKeeps, OrgKeeps, ManagersKeep DEF OrgNext, orgvars, vars
<1>3. IInv /\ Logs /\ [OrgNext]_orgvars => Logs'
  <2>1. OrgStep => reqs' = reqs
    BY DEF OrgStep, engine, PatchStatus, CreateEmployee, ChangeBegin, ChangeCommit,
           ChangeFails, LinkUser
  <2>2. QED BY <2>1, EngineLogs, LogsStand DEF OrgNext, orgvars, vars
<1>4. Logs => LogReplays BY DEF Logs, Logged, LogReplays, StateAfter, Start
<1>5. QED BY <1>1, <1>2, <1>3, <1>4, PropertiesAre, PTL DEF OrgSpec

-----------------------------------------------------------------------------
(* The team: what both recursive queries find are the ways up the lines.    *)

\* A way of n lines, each from somebody to a manager of hers.
Way(lines, n, p) == \A i \in 1..n : <<p[i - 1], p[i]>> \in lines

ArePairs(lines) == \A l \in lines : l = <<l[1], l[2]>>

\* Who has a line to one of these.
Below(lines, above) == {l[1] : l \in {l \in lines : l[2] \in above}}

LEMMA BelowIs ==
  ASSUME NEW lines, ArePairs(lines), NEW above, NEW x
  PROVE  x \in Below(lines, above) <=> \E y \in above : <<x, y>> \in lines
<1>1. ASSUME x \in Below(lines, above) PROVE \E y \in above : <<x, y>> \in lines
  <2>1. PICK l \in lines : l[2] \in above /\ x = l[1] BY <1>1 DEF Below
  <2>2. l = <<x, l[2]>> BY <2>1 DEF ArePairs
  <2>3. QED BY <2>1, <2>2
<1>2. ASSUME NEW y \in above, <<x, y>> \in lines PROVE x \in Below(lines, above)
  <2>1. PICK l \in lines : l = <<x, y>> BY <1>2
  <2>2. l[2] = y /\ l[1] = x BY <2>1
  <2>3. QED BY <2>1, <2>2 DEF Below
<1>3. QED BY <1>1, <1>2

\* The n-th level below somebody is where ways of n lines to her begin.
LEMMA LevelsAreWays ==
  ASSUME NEW lines, ArePairs(lines), NEW a
  PROVE  \A n \in 1..MaxDepth : \A x :
           x \in Levels(lines, a)[n] <=> \E p : Way(lines, n, p) /\ p[0] = x /\ p[n] = a
<1> DEFINE W == {l[1] : l \in lines}
           V == SUBSET W
           step == [v \in V |-> Below(lines, v)]
           base == Below(lines, {a})
           Iter(g) == [n \in 1..MaxDepth |-> Below(lines, IF n = 1 THEN {a} ELSE g[n - 1])]
           L == CHOOSE g : g = Iter(g)
<1>1. MaxDepth \in Nat BY OrganizationAssumption
<1>2. base \in V /\ step \in [V -> V] BY DEF Below
<1>3. \A v \in V : step[v] = Below(lines, v) OBVIOUS
<1>4. PICK g \in [1..MaxDepth -> V] :
        \A n \in 1..MaxDepth : g[n] = IF n = 1 THEN base ELSE step[g[n - 1]]
  <2> HIDE DEF V, base, step
  <2>1. QED BY <1>1, <1>2, StepsExist, SMTT(30)
<1>5. g = Iter(g)
  <2>1. ASSUME NEW n \in 1..MaxDepth PROVE g[n] = Below(lines, IF n = 1 THEN {a} ELSE g[n - 1])
    <3>1. CASE n = 1 BY <1>4, <3>1
    <3>2. CASE n # 1
      <4>1. n - 1 \in 1..MaxDepth BY <1>1, <3>2
      <4>2. g[n - 1] \in V /\ g[n] = step[g[n - 1]] BY <1>4, <3>2, <4>1
      <4>3. g[n] = Below(lines, g[n - 1]) BY <1>3, <4>2
      <4>4. QED BY <3>2, <4>3
    <3>3. QED BY <3>1, <3>2
  <2>2. QED BY <2>1
<1>6. L = Iter(L) BY <1>5
<1>7. Levels(lines, a) = L BY DEF Levels, Below
<1> HIDE DEF L
<1>8. \A n \in 1..MaxDepth : L[n] = Below(lines, IF n = 1 THEN {a} ELSE L[n - 1]) BY <1>6
<1>9. \A v, x : x \in Below(lines, v) <=> \E y \in v : <<x, y>> \in lines BY BelowIs
<1> DEFINE Ends(x, n) == \E p : Way(lines, n, p) /\ p[0] = x /\ p[n] = a
           bad == {n \in 1..MaxDepth : ~\A x : x \in L[n] <=> Ends(x, n)}
<1>10. \A x : x \in L[1] <=> Ends(x, 1)
  <2>1. 1 \in 1..MaxDepth BY OrganizationAssumption
  <2>2. L[1] = Below(lines, {a}) BY <1>8, <2>1
  <2>3. PICK one : one = {a} OBVIOUS
  <2>4. \A x : x \in Below(lines, one) <=> \E y \in one : <<x, y>> \in lines BY BelowIs
  <2>5. \A x : x \in L[1] <=> \E y \in one : <<x, y>> \in lines BY <2>2, <2>3, <2>4
  <2>6. \A x : x \in L[1] <=> <<x, a>> \in lines BY <2>3, <2>5
  <2>7. ASSUME NEW x, <<x, a>> \in lines PROVE Ends(x, 1)
    <3> DEFINE p == [i \in 0..1 |-> IF i = 0 THEN x ELSE a]
    <3>1. p[0] = x /\ p[1] = a OBVIOUS
    <3> HIDE DEF p
    <3>2. \A i \in 1..1 : i = 1 /\ i - 1 = 0 OBVIOUS
    <3>3. Way(lines, 1, p) BY <2>7, <3>1, <3>2 DEF Way
    <3>4. QED BY <3>1, <3>3
  <2>8. ASSUME NEW x, Ends(x, 1) PROVE <<x, a>> \in lines
    <3>1. PICK p : Way(lines, 1, p) /\ p[0] = x /\ p[1] = a BY <2>8
    <3>2. 1 \in 1..1 /\ 1 - 1 = 0 OBVIOUS
    <3>3. QED BY <3>1, <3>2 DEF Way
  <2>9. QED BY <2>6, <2>7, <2>8
<1>11. ASSUME NEW n \in 1..MaxDepth, n # 1, \A x : x \in L[n - 1] <=> Ends(x, n - 1)
       PROVE  \A x : x \in L[n] <=> Ends(x, n)
  <2>1. L[n] = Below(lines, L[n - 1]) BY <1>8, <1>11
  <2>2. PICK v : v = L[n - 1] OBVIOUS
  <2>3. \A x : x \in Below(lines, v) <=> \E y \in v : <<x, y>> \in lines BY <1>9
  <2>4. L[n] = Below(lines, v) BY <2>1, <2>2
  <2>5. \A x : x \in L[n] <=> \E y \in v : <<x, y>> \in lines BY <2>3, <2>4
  <2>6. \A x : x \in L[n] <=> \E y \in L[n - 1] : <<x, y>> \in lines BY <2>2, <2>5
  <2>7. ASSUME NEW x, NEW y, Ends(y, n - 1), <<x, y>> \in lines PROVE Ends(x, n)
    <3>1. PICK p : Way(lines, n - 1, p) /\ p[0] = y /\ p[n - 1] = a BY <2>7
    <3> DEFINE q == [i \in 0..n |-> IF i = 0 THEN x ELSE p[i - 1]]
    <3>2. q[0] = x /\ \A i \in 1..n : q[i] = p[i - 1] OBVIOUS
    <3> HIDE DEF q
    <3>3. ASSUME NEW i \in 1..n PROVE <<q[i - 1], q[i]>> \in lines
      <4>1. CASE i = 1
        <5>1. 1 - 1 = 0 OBVIOUS
        <5>2. q[1] = y BY <3>1, <3>2, <4>1, <5>1
        <5>3. QED BY <2>7, <3>2, <4>1, <5>1, <5>2
      <4>2. CASE i # 1
        <5>1. i - 1 \in 1..n /\ i - 1 \in 1..(n - 1) BY <4>2
        <5>2. q[i] = p[i - 1] /\ q[i - 1] = p[(i - 1) - 1] BY <3>2, <5>1
        <5>3. <<p[(i - 1) - 1], p[i - 1]>> \in lines BY <3>1, <5>1 DEF Way
        <5>4. QED BY <5>2, <5>3
      <4>3. QED BY <4>1, <4>2
    <3>4. q[n] = a BY <3>1, <3>2
    <3>5. QED BY <3>2, <3>3, <3>4 DEF Way
  <2>8. ASSUME NEW x, Ends(x, n) PROVE \E y : Ends(y, n - 1) /\ <<x, y>> \in lines
    <3>1. PICK p : Way(lines, n, p) /\ p[0] = x /\ p[n] = a BY <2>8
    <3> DEFINE q == [i \in 0..(n - 1) |-> p[i + 1]]
    <3>2. \A i \in 0..(n - 1) : q[i] = p[i + 1] OBVIOUS
    <3> HIDE DEF q
    <3>3. ASSUME NEW i \in 1..(n - 1) PROVE <<q[i - 1], q[i]>> \in lines
      <4>1. i + 1 \in 1..n /\ (i + 1) - 1 = i /\ i - 1 \in 0..(n - 1) /\ (i - 1) + 1 = i
            /\ i \in 0..(n - 1)
        BY <1>11
      <4>2. <<p[(i + 1) - 1], p[i + 1]>> \in lines BY <3>1, <4>1 DEF Way
      <4>3. QED BY <3>2, <4>1, <4>2
    <3>4. Way(lines, n - 1, q) BY <3>3 DEF Way
    <3>5. 0 \in 0..(n - 1) /\ n - 1 \in 0..(n - 1) /\ (n - 1) + 1 = n /\ 0 + 1 = 1 /\ 1 - 1 = 0
          /\ 1 \in 1..n
      BY <1>11
    <3>6. q[0] = p[1] /\ q[n - 1] = a BY <3>1, <3>2, <3>5
    <3>7. <<x, p[1]>> \in lines
      <4>1. <<p[1 - 1], p[1]>> \in lines BY <3>1, <3>5 DEF Way
      <4>2. QED BY <3>1, <3>5, <4>1
    <3>8. QED BY <3>4, <3>6, <3>7
  <2> HIDE DEF Ends
  <2>9. \A y : y \in L[n - 1] <=> Ends(y, n - 1) BY <1>11
  <2>10. QED BY <2>6, <2>7, <2>8, <2>9
<1> HIDE DEF Ends
<1>12. bad = {}
  <2> SUFFICES ASSUME bad # {} PROVE FALSE OBVIOUS
  <2>1. bad \subseteq Nat BY <1>1
  <2>2. PICK n \in bad : \A k \in bad : n <= k
    <3> HIDE DEF bad
    <3>1. QED BY <2>1, LeastNumber
  <2>3. n \in 1..MaxDepth /\ n # 1 BY <1>10
  <2>4. n - 1 \in 1..MaxDepth /\ ~(n <= n - 1) BY <1>1, <2>3
  <2>5. n - 1 \notin bad BY <2>2, <2>4
  <2>6. n \notin bad BY <1>11, <2>3, <2>4, <2>5
  <2>7. QED BY <2>6
<1>13. QED BY <1>7, <1>12 DEF Ends

\* Who has a line from one of these, line by line.
From(lines, some) == {l \in lines : l[1] \in some}

\* The n-th lines of ways up from somebody.
LEMMA ChainsAreWays ==
  ASSUME NEW lines, ArePairs(lines), NEW e, NEW a
  PROVE  InSubtree(lines, a, e) <=>
           \E n \in 1..MaxDepth : \E p : Way(lines, n, p) /\ p[0] = e /\ p[n] = a
<1> DEFINE Tops(v) == {l[2] : l \in v}
           V == SUBSET lines
           step == [v \in V |-> From(lines, Tops(v))]
           base == From(lines, {e})
           Iter(g) == [n \in 1..MaxDepth |->
                         From(lines, IF n = 1 THEN {e} ELSE {l[2] : l \in g[n - 1]})]
           C == CHOOSE g : g = Iter(g)
<1>1. MaxDepth \in Nat BY OrganizationAssumption
<1>2. base \in V /\ step \in [V -> V] BY DEF From
<1>3. \A v \in V : step[v] = From(lines, Tops(v)) OBVIOUS
<1>4. PICK g \in [1..MaxDepth -> V] :
        \A n \in 1..MaxDepth : g[n] = IF n = 1 THEN base ELSE step[g[n - 1]]
  <2> HIDE DEF V, base, step
  <2>1. QED BY <1>1, <1>2, StepsExist
<1>5. g = Iter(g)
  <2>1. ASSUME NEW n \in 1..MaxDepth PROVE g[n] = From(lines, IF n = 1 THEN {e} ELSE Tops(g[n - 1]))
    <3>1. CASE n = 1 BY <1>4, <3>1
    <3>2. CASE n # 1
      <4>1. n - 1 \in 1..MaxDepth BY <1>1, <3>2
      <4>2. g[n - 1] \in V /\ g[n] = step[g[n - 1]] BY <1>4, <3>2, <4>1
      <4>3. g[n] = From(lines, Tops(g[n - 1])) BY <1>3, <4>2
      <4>4. QED BY <3>2, <4>3
    <3>3. QED BY <3>1, <3>2
  <2>2. QED BY <2>1
<1>6. C = Iter(C) BY <1>5
<1>7. InSubtree(lines, a, e) <=> \E n \in 1..MaxDepth : \E l \in C[n] : l[2] = a
  BY DEF InSubtree, From
<1> HIDE DEF C
<1>8. \A n \in 1..MaxDepth : C[n] = From(lines, IF n = 1 THEN {e} ELSE Tops(C[n - 1])) BY <1>6
<1>9. \A v, l : l \in From(lines, v) <=> l \in lines /\ l[1] \in v BY DEF From
<1> DEFINE Ends(l, n) == \E p : Way(lines, n, p) /\ p[0] = e /\ l = <<p[n - 1], p[n]>>
           bad == {n \in 1..MaxDepth : ~\A l : l \in C[n] <=> Ends(l, n)}
<1>10. \A l : l \in C[1] <=> Ends(l, 1)
  <2>1. 1 \in 1..MaxDepth BY OrganizationAssumption
  <2>2. C[1] = From(lines, {e}) BY <1>8, <2>1
  <2>3. PICK one : one = {e} OBVIOUS
  <2>4. \A l : l \in From(lines, one) <=> l \in lines /\ l[1] \in one BY <1>9
  <2>5. \A l : l \in C[1] <=> l \in lines /\ l[1] = e BY <2>2, <2>3, <2>4
  <2>6. ASSUME NEW l \in lines, l[1] = e PROVE Ends(l, 1)
    <3> DEFINE p == [i \in 0..1 |-> IF i = 0 THEN e ELSE l[2]]
    <3>1. p[0] = e /\ p[1] = l[2] OBVIOUS
    <3> HIDE DEF p
    <3>2. (\A i \in 1..1 : i = 1 /\ i - 1 = 0) /\ 1 - 1 = 0 OBVIOUS
    <3>3. l = <<e, l[2]>> BY <2>6 DEF ArePairs
    <3>4. Way(lines, 1, p) BY <3>1, <3>2, <3>3 DEF Way
    <3>5. QED BY <3>1, <3>2, <3>3, <3>4
  <2>7. ASSUME NEW l, Ends(l, 1) PROVE l \in lines /\ l[1] = e
    <3>1. PICK p : Way(lines, 1, p) /\ p[0] = e /\ l = <<p[1 - 1], p[1]>> BY <2>7
    <3>2. 1 \in 1..1 /\ 1 - 1 = 0 OBVIOUS
    <3>3. l \in lines BY <3>1, <3>2 DEF Way
    <3>4. l = <<e, p[1]>> BY <3>1, <3>2
    <3>5. QED BY <3>3, <3>4
  <2>8. QED BY <2>5, <2>6, <2>7
<1>11. ASSUME NEW n \in 1..MaxDepth, n # 1, \A l : l \in C[n - 1] <=> Ends(l, n - 1)
       PROVE  \A l : l \in C[n] <=> Ends(l, n)
  <2>1. C[n] = From(lines, Tops(C[n - 1])) BY <1>8, <1>11
  <2>2. \A l : l \in C[n] <=> l \in lines /\ \E k \in C[n - 1] : l[1] = k[2]
    BY <1>9, <2>1
  <2>3. ASSUME NEW l \in lines, NEW k, Ends(k, n - 1), l[1] = k[2] PROVE Ends(l, n)
    <3>1. PICK p : Way(lines, n - 1, p) /\ p[0] = e /\ k = <<p[(n - 1) - 1], p[n - 1]>> BY <2>3
    <3> DEFINE q == [i \in 0..n |-> IF i = n THEN l[2] ELSE p[i]]
    <3>2. q[n] = l[2] /\ \A i \in 0..(n - 1) : q[i] = p[i] OBVIOUS
    <3> HIDE DEF q
    <3>3. l = <<p[n - 1], l[2]>> BY <2>3, <3>1 DEF ArePairs
    <3>4. n - 1 \in 0..(n - 1) /\ 0 \in 0..(n - 1) BY <1>11
    <3>5. ASSUME NEW i \in 1..n PROVE <<q[i - 1], q[i]>> \in lines
      <4>1. CASE i = n BY <2>3, <3>2, <3>3, <3>4, <4>1
      <4>2. CASE i # n
        <5>1. i \in 1..(n - 1) /\ i \in 0..(n - 1) /\ i - 1 \in 0..(n - 1) BY <4>2
        <5>2. <<p[i - 1], p[i]>> \in lines BY <3>1, <5>1 DEF Way
        <5>3. QED BY <3>2, <5>1, <5>2
      <4>3. QED BY <4>1, <4>2
    <3>6. q[0] = e /\ l = <<q[n - 1], q[n]>> BY <3>1, <3>2, <3>3, <3>4
    <3>7. QED BY <3>5, <3>6 DEF Way
  <2>4. ASSUME NEW l, Ends(l, n)
        PROVE  l \in lines /\ \E k : Ends(k, n - 1) /\ l[1] = k[2]
    <3>1. PICK p : Way(lines, n, p) /\ p[0] = e /\ l = <<p[n - 1], p[n]>> BY <2>4
    <3>2. n \in 1..n /\ \A i \in 1..(n - 1) : i \in 1..n BY <1>11
    <3>3. l \in lines BY <3>1, <3>2 DEF Way
    <3>4. Way(lines, n - 1, p) BY <3>1, <3>2 DEF Way
    <3>5. PICK k : k = <<p[(n - 1) - 1], p[n - 1]>> OBVIOUS
    <3>6. Ends(k, n - 1) BY <3>1, <3>4, <3>5
    <3>7. l[1] = k[2] BY <3>1, <3>5
    <3> HIDE DEF Ends
    <3>8. QED BY <3>3, <3>6, <3>7
  <2> HIDE DEF Ends
  <2>5. \A k : k \in C[n - 1] <=> Ends(k, n - 1) BY <1>11
  <2>6. QED BY <2>2, <2>3, <2>4, <2>5
<1> HIDE DEF Ends
<1>12. bad = {}
  <2> SUFFICES ASSUME bad # {} PROVE FALSE OBVIOUS
  <2>1. bad \subseteq Nat BY <1>1
  <2>2. PICK n \in bad : \A k \in bad : n <= k
    <3> HIDE DEF bad
    <3>1. QED BY <2>1, LeastNumber
  <2>3. n \in 1..MaxDepth /\ n # 1 BY <1>10
  <2>4. n - 1 \in 1..MaxDepth /\ ~(n <= n - 1) BY <1>1, <2>3
  <2>5. n - 1 \notin bad BY <2>2, <2>4
  <2>6. n \notin bad BY <1>11, <2>3, <2>4, <2>5
  <2>7. QED BY <2>6
<1>13. \A n \in 1..MaxDepth : \A l : l \in C[n] <=> Ends(l, n) BY <1>12
<1>14. ASSUME NEW n \in 1..MaxDepth, NEW l, Ends(l, n), l[2] = a
       PROVE  \E p : Way(lines, n, p) /\ p[0] = e /\ p[n] = a
  <2>1. PICK p : Way(lines, n, p) /\ p[0] = e /\ l = <<p[n - 1], p[n]>> BY <1>14 DEF Ends
  <2>2. p[n] = a BY <1>14, <2>1
  <2>3. QED BY <2>1, <2>2
<1>15. ASSUME NEW n \in 1..MaxDepth, NEW p, Way(lines, n, p), p[0] = e, p[n] = a
       PROVE  \E l : Ends(l, n) /\ l[2] = a
  <2>1. PICK l : l = <<p[n - 1], p[n]>> OBVIOUS
  <2>2. Ends(l, n) /\ l[2] = a BY <1>15, <2>1 DEF Ends
  <2>3. QED BY <2>2
<1>16. QED BY <1>7, <1>13, <1>14, <1>15

\* Everybody has one line at most: ways that begin alike go on alike.
OneLineEach(lines) == \A x, y, z : <<x, y>> \in lines /\ <<x, z>> \in lines => y = z

LEMMA WaysAgree ==
  ASSUME NEW lines, OneLineEach(lines), NEW n \in Nat, NEW k \in Nat, n <= k,
         NEW p, Way(lines, n, p), NEW q, Way(lines, k, q), p[0] = q[0]
  PROVE  \A i \in 0..n : p[i] = q[i]
<1> DEFINE bad == {i \in 0..n : p[i] # q[i]}
<1>1. bad = {}
  <2> SUFFICES ASSUME bad # {} PROVE FALSE OBVIOUS
  <2>1. bad \subseteq Nat OBVIOUS
  <2>2. PICK i \in bad : \A j \in bad : i <= j
    <3> HIDE DEF bad
    <3>1. QED BY <2>1, LeastNumber
  <2>3. i \in 1..n /\ i \in 1..k /\ i - 1 \in 0..n /\ ~(i <= i - 1) BY <2>2
  <2>4. p[i - 1] = q[i - 1] BY <2>2, <2>3
  <2>5. <<p[i - 1], p[i]>> \in lines /\ <<q[i - 1], q[i]>> \in lines BY <2>3 DEF Way
  <2>6. p[i] = q[i] BY <2>4, <2>5 DEF OneLineEach
  <2>7. QED BY <2>2, <2>6
<1>2. QED BY <1>1

\* Somebody on two levels is below a circle.
LEMMA TwoLevelsCircle ==
  ASSUME NEW lines, ArePairs(lines), OneLineEach(lines), NEW a,
         NEW n \in 1..MaxDepth, NEW k \in 1..MaxDepth, n < k,
         Levels(lines, a)[n] \cap Levels(lines, a)[k] # {}
  PROVE  InSubtree(lines, a, a)
<1>1. MaxDepth \in Nat BY OrganizationAssumption
<1>2. PICK x : x \in Levels(lines, a)[n] /\ x \in Levels(lines, a)[k] OBVIOUS
<1>3. PICK p : Way(lines, n, p) /\ p[0] = x /\ p[n] = a BY <1>2, LevelsAreWays
<1>4. PICK q : Way(lines, k, q) /\ q[0] = x /\ q[k] = a BY <1>2, LevelsAreWays
<1>5. n \in Nat /\ k \in Nat /\ n <= k /\ n \in 0..n BY <1>1
<1>6. q[n] = a BY <1>3, <1>4, <1>5, WaysAgree
<1> DEFINE r == [i \in 0..(k - n) |-> q[i + n]]
<1>7. /\ \A i \in 1..(k - n) : i \in 0..(k - n) /\ i - 1 \in 0..(k - n) /\ i + n \in 1..k
                               /\ (i - 1) + n = (i + n) - 1
      /\ k - n \in 1..MaxDepth /\ k - n \in 0..(k - n) /\ (k - n) + n = k
      /\ 0 \in 0..(k - n) /\ 0 + n = n
  BY <1>1
<1>8. \A i \in 0..(k - n) : r[i] = q[i + n] OBVIOUS
<1> HIDE DEF r
<1>9. r[0] = a /\ r[k - n] = a BY <1>4, <1>6, <1>7, <1>8
<1>10. ASSUME NEW i \in 1..(k - n) PROVE <<r[i - 1], r[i]>> \in lines
  <2>1. <<q[(i + n) - 1], q[i + n]>> \in lines BY <1>4, <1>7 DEF Way
  <2>2. r[i] = q[i + n] /\ r[i - 1] = q[(i + n) - 1] BY <1>7, <1>8
  <2>3. QED BY <2>1, <2>2
<1>11. Way(lines, k - n, r) BY <1>10 DEF Way
<1>12. QED BY <1>7, <1>9, <1>11, ChainsAreWays

LEMMA LinesAreLines ==
  ASSUME NEW es PROVE ArePairs(ReportingLines(es)) /\ OneLineEach(ReportingLines(es))
BY DEF ArePairs, OneLineEach, ReportingLines

-----------------------------------------------------------------------------
(* The tables of HR.                                                        *)

EmploymentRows ==
  [employee : Employees, manager : Employees \cup {NoEmployee}, from : Dates,
   primary : BOOLEAN, open : BOOLEAN, id : Int]

LinksStand ==
  /\ links \in [Employees -> Users \cup {NoUser}]
  /\ \A e, f \in Employees : links[e] = links[f] /\ links[e] # NoUser => e = f

EmploymentsStand ==
  /\ IsASequence(employments)
  /\ \A k \in DOMAIN employments : employments[k] \in EmploymentRows
  /\ DOMAIN changing = HrSessions
  /\ \A s \in HrSessions : changing[s] # Idle => changing[s].to \in EmploymentRows

OrgInv ==
  /\ LinksStand /\ EmploymentsStand
  /\ manager \in {ManagerMap(employments, links, first) : first \in BOOLEAN}

LEMMA NewEmployment ==
  ASSUME NEW e \in Employees, NEW m \in Employees \cup {NoEmployee}, NEW d \in Dates,
         NEW primary \in BOOLEAN
  PROVE  Employment(e, m, d, primary) \in EmploymentRows
BY DEF Employment, EmploymentRows

LEMMA EmploymentsKeep == ASSUME EmploymentsStand, OrgStep PROVE EmploymentsStand'
<1>1. CASE UNCHANGED <<employments, changing>> BY <1>1 DEF EmploymentsStand
<1>2. ASSUME NEW row \in EmploymentRows, employments' = Append(employments, row), changing' = changing
      PROVE  EmploymentsStand'
  <2>1. PICK es : es = Append(employments, row) OBVIOUS
  <2>2. /\ IsASequence(es) /\ DOMAIN es = DOMAIN employments \cup {Len(employments) + 1}
        /\ es[Len(employments) + 1] = row /\ \A k \in DOMAIN employments : es[k] = employments[k]
    BY <2>1, AppendSequence DEF EmploymentsStand
  <2>3. \A k \in DOMAIN es : es[k] \in EmploymentRows BY <2>2 DEF EmploymentsStand
  <2>4. QED BY <1>2, <2>1, <2>2, <2>3 DEF EmploymentsStand
<1>3. ASSUME NEW e \in Employees, NEW m \in Employees \cup {NoEmployee}, NEW d \in Dates,
             NEW primary \in BOOLEAN, CreateEmployee(e, m, d, primary)
      PROVE  EmploymentsStand'
  BY <1>2, <1>3, NewEmployment DEF CreateEmployee
<1>4. ASSUME NEW e \in Employees, NEW m \in Employees \cup {NoEmployee}, NEW d \in Dates,
             NEW s \in HrSessions, ChangeBegin(s, e, m, d)
      PROVE  EmploymentsStand'
  <2>1. PICK c : /\ c = [row |-> Current(employments, e), to |-> Employment(e, m, d, TRUE)]
                 /\ changing' = [changing EXCEPT ![s] = c] /\ employments' = employments
    BY <1>4 DEF ChangeBegin
  <2>2. c.to \in EmploymentRows BY <2>1, NewEmployment
  <2>3. QED BY <2>1, <2>2 DEF EmploymentsStand
<1>5. ASSUME NEW s \in HrSessions, ChangeFails(s) PROVE EmploymentsStand'
  <2>1. changing' = [changing EXCEPT ![s] = Idle] /\ employments' = employments
    BY <1>5 DEF ChangeFails
  <2>2. QED BY <2>1 DEF EmploymentsStand
<1>6. ASSUME NEW s \in HrSessions, ChangeCommit(s) PROVE EmploymentsStand'
  <2>1. PICK id \in {-1, 0, 1} :
          employments' = Append([employments EXCEPT ![changing[s].row].open = FALSE],
                                [changing[s].to EXCEPT !.id = id])
    BY <1>6 DEF ChangeCommit
  <2>2. changing' = [changing EXCEPT ![s] = Idle] /\ changing[s].to \in EmploymentRows
    BY <1>6 DEF ChangeCommit, EmploymentsStand
  <2>3. PICK k, row : k = changing[s].row /\ row = [changing[s].to EXCEPT !.id = id] OBVIOUS
  <2>4. row \in EmploymentRows BY <2>2, <2>3 DEF EmploymentRows
  <2>5. PICK closed : closed = [employments EXCEPT ![k].open = FALSE] OBVIOUS
  <2>6. /\ IsASequence(closed) /\ DOMAIN closed = DOMAIN employments
        /\ \A j \in DOMAIN closed : closed[j] \in EmploymentRows
    <3>1. CASE k \in DOMAIN employments
      <4>1. PICK x : x = [employments[k] EXCEPT !.open = FALSE] OBVIOUS
      <4>2. x \in EmploymentRows BY <3>1, <4>1 DEF EmploymentsStand, EmploymentRows
      <4>3. closed = [employments EXCEPT ![k] = x] BY <2>5, <4>1
      <4>4. QED BY <3>1, <4>2, <4>3, ExceptSequence DEF EmploymentsStand
    <3>2. CASE k \notin DOMAIN employments
      <4>1. employments = [j \in DOMAIN employments |-> employments[j]]
        BY DEF EmploymentsStand, IsASequence
      <4>2. closed = employments BY <2>5, <3>2, <4>1
      <4>3. QED BY <4>2 DEF EmploymentsStand
    <3>3. QED BY <3>1, <3>2
  <2>7. PICK es : es = Append(closed, row) OBVIOUS
  <2>8. /\ IsASequence(es) /\ DOMAIN es = DOMAIN closed \cup {Len(closed) + 1}
        /\ es[Len(closed) + 1] = row /\ \A j \in DOMAIN closed : es[j] = closed[j]
    BY <2>6, <2>7, AppendSequence
  <2>9. \A j \in DOMAIN es : es[j] \in EmploymentRows BY <2>4, <2>6, <2>8
  <2>10. employments' = es BY <2>1, <2>3, <2>5, <2>7
  <2>11. QED BY <2>2, <2>8, <2>9, <2>10 DEF EmploymentsStand
<1>7. QED BY <1>1, <1>3, <1>4, <1>5, <1>6 DEF OrgStep, PatchStatus, LinkUser

LEMMA LinksKeep == ASSUME LinksStand, OrgStep PROVE LinksStand'
<1>1. CASE links' = links BY <1>1 DEF LinksStand
<1>2. ASSUME NEW e \in Employees, NEW u \in Users, LinkUser(e, u) PROVE LinksStand'
  BY <1>2 DEF LinkUser, LinksStand
<1>3. QED
  BY <1>1, <1>2
  DEF OrgStep, PatchStatus, CreateEmployee, ChangeBegin, ChangeCommit, ChangeFails

LEMMA OrgInvInit == OrgInit => OrgInv
<1> SUFFICES ASSUME OrgInit PROVE OrgInv OBVIOUS
<1>1. employments = <<>> /\ IsASequence(employments) /\ DOMAIN employments = {}
  BY DEF OrgInit, IsASequence
<1>2. EmploymentsStand BY <1>1 DEF OrgInit, EmploymentsStand
<1>3. LinksStand BY DEF OrgInit, LinksStand
<1>4. QED BY <1>2, <1>3 DEF OrgInv, OrgInit

LEMMA OrgInvStep == OrgInv /\ [OrgNext]_orgvars => OrgInv'
<1> SUFFICES ASSUME OrgInv, [OrgNext]_orgvars PROVE OrgInv' OBVIOUS
<1>1. CASE OrgStep BY <1>1, LinksKeep, EmploymentsKeep DEF OrgInv, OrgStep
<1>2. CASE UNCHANGED <<manager, org>>
  BY <1>2 DEF org, OrgInv, LinksStand, EmploymentsStand
<1>3. QED BY <1>1, <1>2 DEF OrgNext, orgvars, vars

\* What an employee submits comes to the manager her team list shows.
LEMMA ManagerIsAbove ==
  ASSUME OrgInv, NEW e \in Employees,
         links[e] \in Requesters, manager[links[e]] # NoUser, ~TwoAtOnce(e)
  PROVE  \E m \in Employees :
           links[m] = manager[links[e]] /\ <<e, m>> \in ReportingLines(employments)
<1> PICK u : u = links[e] OBVIOUS
<1>1. PICK first \in BOOLEAN : manager = ManagerMap(employments, links, first) BY DEF OrgInv
<1>2. manager[u] = ManagerUser(employments, links, u, first) BY <1>1 DEF ManagerMap
<1>3. PICK rows : rows = Best(employments, e) OBVIOUS
<1>4. u # NoUser BY EngineAssumption
<1>5. {x \in Employees : links[x] = u} = {e} BY <1>4 DEF OrgInv, LinksStand
<1>6. UNION {Best(employments, x) : x \in {x \in Employees : links[x] = u}} = rows
  BY <1>3, <1>5
<1>7. /\ Len(employments) \in Nat /\ rows \subseteq 1..Len(employments)
      /\ DOMAIN employments = 1..Len(employments)
  BY <1>3, AppendSequence DEF OrgInv, EmploymentsStand, Best, Open
<1>8. IsFiniteSet(rows) /\ Cardinality(rows) \in Nat
  <2>1. PICK all : all = 1..Len(employments) /\ IsFiniteSet(all) BY <1>7, FS_Interval
  <2>2. QED BY <1>7, <2>1, FS_Subset, FS_CardinalityType
<1>9. rows # {} BY <1>2, <1>6 DEF ManagerUser
<1>10. PICK k \in rows : rows = {k}
  <2>1. Cardinality(rows) <= 1 BY <1>3, <1>8 DEF TwoAtOnce
  <2>2. PICK k \in rows : TRUE BY <1>9
  <2>3. Cardinality(rows \ {k}) = Cardinality(rows) - 1 /\ IsFiniteSet(rows \ {k})
    BY <1>8, <2>2, FS_RemoveElement
  <2>4. Cardinality(rows \ {k}) \in Nat BY <2>3, FS_CardinalityType
  <2>5. Cardinality(rows \ {k}) = 0 BY <1>8, <2>1, <2>3, <2>4
  <2>6. rows \ {k} = {} BY <2>3, <2>5, FS_EmptySet
  <2>7. QED BY <2>2, <2>6
<1>11. k \in Nat /\ k # 0 /\ k \in DOMAIN employments BY <1>7, <1>10
<1>12. Min(rows) = k /\ Max(rows) = k
  <2>1. rows \subseteq Nat /\ \A j \in rows : j <= k BY <1>10, <1>11
  <2>2. QED BY <1>9, <1>10, <1>11, <2>1, MinIsLeast, MaxIsGreatest
<1> PICK m : m = employments[k].manager OBVIOUS
<1>13. manager[u] = IF m = NoEmployee THEN NoUser ELSE links[m]
  <2>1. manager[u] = LET boss == IF rows = {} THEN NoEmployee
                                 ELSE employments[IF first THEN Min(rows) ELSE Max(rows)].manager
                     IN  IF boss = NoEmployee THEN NoUser ELSE links[boss]
    BY <1>2, <1>6 DEF ManagerUser
  <2>2. QED BY <1>9, <1>12, <2>1, SMTT(30)
<1>14. m \in Employees /\ links[m] = manager[u]
  <2>1. m # NoEmployee /\ links[m] = manager[u] BY <1>13
  <2>2. m \in Employees \cup {NoEmployee}
    BY <1>11 DEF OrgInv, EmploymentsStand, EmploymentRows
  <2>3. QED BY <2>1, <2>2
<1>15. Current(employments, e) = k
  <2>1. employments[k].id \in Int BY <1>11 DEF OrgInv, EmploymentsStand, EmploymentRows
  <2>2. {x \in rows : \A j \in rows : employments[j].id <= employments[x].id} = rows
    BY <1>10, <2>1
  <2>3. QED BY <1>3, <1>9, <1>12, <2>2 DEF Current
<1>16. <<e, m>> \in ReportingLines(employments) BY <1>11, <1>15 DEF ReportingLines
<1>17. QED BY <1>14, <1>16

\* A manager may open exactly the profiles her team list shows, nobody is
\* listed twice who is not below a circle, and what her employees submit comes
\* to her: for any number of employees, employments, levels and HR sessions.
THEOREM TeamIsWhoYouMaySeeCorrect == OrgSpec => []TeamIsWhoYouMaySee
<1>1. OrgInv => TeamIsWhoYouMaySee
  <2> SUFFICES ASSUME OrgInv PROVE TeamIsWhoYouMaySee OBVIOUS
  <2> PICK lines : lines = ReportingLines(employments) OBVIOUS
  <2> PICK sees : sees = {l \in Employees \X Employees : InSubtree(lines, l[1], l[2])} OBVIOUS
  <2>1. ArePairs(lines) /\ OneLineEach(lines) BY LinesAreLines
  <2>2. \A a, e \in Employees : <<a, e>> \in sees <=> InSubtree(lines, a, e) OBVIOUS
  <2>3. ASSUME NEW a \in Employees, NEW e \in Employees
        PROVE  e \in Listed(lines, a) <=> InSubtree(lines, a, e)
    <3>1. e \in Listed(lines, a) <=> \E n \in 1..MaxDepth : e \in Levels(lines, a)[n]
      BY DEF Listed
    <3>2. \A n \in 1..MaxDepth :
            e \in Levels(lines, a)[n] <=> \E p : Way(lines, n, p) /\ p[0] = e /\ p[n] = a
      BY <2>1, LevelsAreWays
    <3>3. InSubtree(lines, a, e) <=>
            \E n \in 1..MaxDepth : \E p : Way(lines, n, p) /\ p[0] = e /\ p[n] = a
      BY <2>1, ChainsAreWays
    <3>4. QED BY <3>1, <3>2, <3>3
  <2>4. \A a, e \in Employees : e \in Listed(lines, a) <=> <<a, e>> \in sees BY <2>2, <2>3
  <2>5. ASSUME NEW a \in Employees, NEW n \in 1..MaxDepth, NEW k \in 1..MaxDepth, n < k,
               Levels(lines, a)[n] \cap Levels(lines, a)[k] # {}
        PROVE  \E x \in Employees : <<x, x>> \in sees
    BY <2>1, <2>2, <2>5, TwoLevelsCircle
  <2>6. \A e \in Employees :
          links[e] \in Requesters /\ manager[links[e]] # NoUser /\ ~TwoAtOnce(e) =>
            \E m \in Employees : links[m] = manager[links[e]] /\ <<e, m>> \in lines
    BY ManagerIsAbove
  <2>7. QED BY <2>4, <2>5, <2>6 DEF TeamIsWhoYouMaySee, SubtreeLines
<1>2. QED BY <1>1, OrgInvInit, OrgInvStep, PTL DEF OrgSpec

=============================================================================
