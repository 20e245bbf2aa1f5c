--------------------------- MODULE DocumentExpiry ---------------------------
(***************************************************************************)
(* Reminders of expiring documents, from the rule to the user's inbox      *)
(* (backend/app/domains/dms/service_expiry.py,                             *)
(* backend/app/worker/dms_expiry_worker.py): a daily job turns documents   *)
(* and rules into dms.expiry_events for the days ahead, and the events of  *)
(* the day into rows of the notification outbox, whose workers deliver     *)
(* them.  A run of the job is one transaction, and two that overlap wait   *)
(* for each other on the unique index of the events.                       *)
(***************************************************************************)
EXTENDS NotificationOutbox, SequencesExt

CONSTANTS Papers,     \* documents that may be created
          PaperType,  \* [Papers -> document type]
          Expires,    \* [Papers -> expires_at, a day, or NoExpiry]
          Owner,      \* [Papers -> owner_employee_id]
          Offsets,    \* days_before of the rules HR may create
          Users,      \* ESS users
          Lookahead,  \* lookahead_days
          MaxDay      \* bound: days that pass

NoExpiry == 0
PaperTypes == {PaperType[d] : d \in Papers}
Staff == {Owner[d] : d \in Papers}

ASSUME ExpiryAssumption ==
  /\ MaxDay \in Nat /\ Lookahead \in Nat /\ Offsets \subseteq Nat
  /\ IsFiniteSet(Papers) /\ IsFiniteSet(Users)
  /\ \A d \in Papers : Expires[d] \in Nat
  /\ Rows = 1..Cardinality(Rows)

VARIABLES today,
          papers,  \* dms.documents
          rules,   \* dms.expiry_rules as <<document type, days_before, is_active>>
          links,   \* hr_core.employee_user_links as <<employee, user>>
          events,  \* dms.expiry_events as <<document, notify_on_date>>
          mail,    \* what each outbox row is about: its dedupe key
          owed     \* history: reminders the rules asked for on days the job ran

evars == <<today, papers, rules, links, events, mail, owed>>

ExpiryInit ==
  /\ OutboxInit
  /\ today = 1 /\ papers = {} /\ rules = {} /\ links = {}
  /\ events = {} /\ mail = <<>> /\ owed = {}

-----------------------------------------------------------------------------

\* expires_at is set by the upload and never changed.
CreatePaper(d) ==
  /\ d \notin papers
  /\ papers' = papers \cup {d}
  /\ UNCHANGED <<today, rules, links, events, mail, owed>> /\ UNCHANGED outboxvars

\* One rule per type and offset (a unique index).
CreateRule(t, k, active) ==
  /\ \A a \in BOOLEAN : <<t, k, a>> \notin rules
  /\ rules' = rules \cup {<<t, k, active>>}
  /\ UNCHANGED <<today, papers, links, events, mail, owed>> /\ UNCHANGED outboxvars

\* A user has one employee and an employee one user (two unique indexes).
LinkUser(e, u) ==
  /\ \A l \in links : l[1] # e /\ l[2] # u
  /\ links' = links \cup {<<e, u>>}
  /\ UNCHANGED <<today, papers, rules, events, mail, owed>> /\ UNCHANGED outboxvars

NextDay ==
  /\ today < MaxDay
  /\ today' = today + 1
  /\ UNCHANGED <<papers, rules, links, events, mail, owed>> /\ UNCHANGED outboxvars

\* Mutant: the window starts the day after the run.
WindowFromTomorrow == (today + 1)..(today + Lookahead)

Window == today..(today + Lookahead)

\* The events of papers with an expiry date whose day falls into the window.
EventsAhead ==
  {ev \in papers \X Window :
     /\ Expires[ev[1]] # NoExpiry
     /\ \E r \in rules : r[1] = PaperType[ev[1]] /\ r[3] /\ Expires[ev[1]] - r[2] = ev[2]}

\* Mutant: the key forgets which event it is about.
DedupeKeyOfDay(event, user) == <<"any", event[2], user>>

\* The key names the event by its id: its document and day.
DedupeKey(event, user) == <<event[1], event[2], user>>

Recipients(d) == {u \in Users : <<Owner[d], u>> \in links}

\* Rows the job inserts; ON CONFLICT on the dedupe key drops the others.
Notices(due) == (UNION {{DedupeKey(ev, u) : u \in Recipients(ev[1])} : ev \in due}) \ Range(mail)

\* run_once
RunOnce ==
  LET all == events \cup EventsAhead
      new == Notices({ev \in all : ev[2] = today})
      used == Len(mail)
  IN /\ used + Cardinality(new) <= Cardinality(Rows)
     /\ events' = all
     /\ mail' = mail \o SetToSeq(new)
     /\ Enqueue((used + 1)..(used + Cardinality(new)))
     /\ owed' = owed \cup {x \in papers \X {today} \X Users :
                  /\ <<Owner[x[1]], x[3]>> \in links
                  /\ <<PaperType[x[1]], Expires[x[1]] - today, TRUE>> \in rules}
     /\ UNCHANGED <<today, papers, rules, links>>

ExpiryStep ==
  \/ \E d \in Papers : CreatePaper(d)
  \/ \E t \in PaperTypes, k \in Offsets, a \in BOOLEAN : CreateRule(t, k, a)
  \/ \E e \in Staff, u \in Users : LinkUser(e, u)
  \/ NextDay
  \/ RunOnce

ExpiryNext == ExpiryStep \/ (Deliver /\ UNCHANGED evars)

ExpirySpec == ExpiryInit /\ [][ExpiryNext]_<<outboxvars, evars>> /\ OutboxFairness

-----------------------------------------------------------------------------
(* Properties.                                                              *)

\* The inbox of a user holds the reminders the rules ask for and no others:
\* however events were prepared on earlier days, job runs repeated, batches
\* retried and workers killed, what is delivered was owed, once, and what was
\* owed is delivered, waits in the outbox or was given up.
RemindersAsOwed ==
  /\ Range(mail) = owed /\ IsInjective(mail)
  /\ \A r \in Rows : status[r] # "absent" <=> r \in DOMAIN mail

=============================================================================
