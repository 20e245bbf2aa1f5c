---------------------------- MODULE VisionProofs ----------------------------
(***************************************************************************)
(* Proofs about the video jobs, the tracks at a door, the workbooks of a   *)
(* month and the accounts of the mobile application.                       *)
(***************************************************************************)
EXTENDS VisionJobs, DoorTracks, MonthImports, MobileAccounts, DataLemmas

-----------------------------------------------------------------------------
(* Accounts of the mobile application.                                      *)

AccountRows == [uid : uids, active : BOOLEAN]

\* The stages each kind of request goes through.
Stages ==
  ({"create"} \X {"create", "insert", "refresh", "map"})
    \cup ({"reactivate"} \X {"reactivate", "refresh", "enable", "map"})
    \cup ({"revoke"} \X {"deactivate", "refresh", "disable", "resolve", "map"})
    \cup ({"resync"} \X {"map"})

Requests ==
  {h \in [kind : {"create", "reactivate", "revoke", "resync"},
          at : {"create", "insert", "refresh", "map", "reactivate", "enable", "deactivate",
                "disable", "resolve"},
          person : People, row : AccountRows \cup {NoAccount}] :
     <<h.kind, h.at>> \in Stages}

AccountsTyped ==
  /\ account \in [People -> AccountRows \cup {NoAccount}]
  /\ signin \in [uids -> {"none", "enabled", "disabled"}]
  /\ mapping \in [uids -> [person : People \cup {NoPerson}, active : BOOLEAN]]
  /\ handling \in [AccountSessions -> Requests \cup {Unused}]
  /\ smooth \in [People -> BOOLEAN]

\* A user of Firebase Auth belongs to one account at most, and a document to
\* the account that has its uid.
UidsAreOwn ==
  /\ \A p \in People : account[p] # NoAccount => signin[account[p].uid] # "none"
  /\ \A p, q \in People : account[p] # NoAccount /\ account[p].uid = account[q].uid => p = q
  /\ \A u \in uids : mapping[u].person # NoPerson => account[mapping[u].person].uid = u

\* A user that a request has just created is nobody's.
Fresh(h) ==
  /\ h.row \in AccountRows /\ h.row.active
  /\ signin[h.row.uid] = "enabled"
  /\ \A p \in People : account[p].uid # h.row.uid

\* A request knows the uid of its account, or has one that is nobody's.
RequestsHoldTheirs ==
  /\ \A s \in AccountSessions : handling[s] # Unused =>
       /\ Stage(s) = "insert" => Fresh(handling[s])
       /\ Stage(s) \notin {"create", "insert"} =>
            HeldRow(s) \in AccountRows /\ account[Person(s)].uid = HeldRow(s).uid
  /\ \A s, t \in AccountSessions :
       Stage(s) = "insert" /\ Stage(t) = "insert" /\ HeldRow(s).uid = HeldRow(t).uid => s = t

SignsIn(p) == signin[account[p].uid] = IF account[p].active THEN "enabled" ELSE "disabled"

Settled(p) ==
  SignsIn(p) /\ mapping[account[p].uid] = [person |-> p, active |-> account[p].active]

\* How far a request that crosses no other has come.
OnItsWay(s) ==
  LET p == Person(s) IN
  /\ Stage(s) \in {"create", "insert"} => account[p] = NoAccount
  /\ Stage(s) \in {"reactivate", "deactivate", "enable", "disable", "resolve", "map"} =>
       HeldRow(s) = account[p]
  /\ Stage(s) = "refresh" => account[p].active = (handling[s].kind # "revoke")
  /\ Stage(s) = "refresh" /\ handling[s].kind = "create" => SignsIn(p)
  /\ Stage(s) = "enable" => account[p].active
  /\ Stage(s) = "disable" => ~account[p].active
  /\ Stage(s) \in {"resolve", "map"} => SignsIn(p)

SmoothIsSmooth ==
  \A p \in People : smooth[p] =>
    /\ Alone(p) /\ account[p] # NoAccount => Settled(p)
    /\ \A s, t \in AccountSessions : Person(s) = p /\ Person(t) = p => s = t
    /\ \A s \in AccountSessions : Person(s) = p => OnItsWay(s)

AccountsInv == AccountsTyped /\ UidsAreOwn /\ RequestsHoldTheirs /\ SmoothIsSmooth

\* A request that goes on is still one about the same employee.
LEMMA Proceeding ==
  ASSUME AccountsTyped, NEW s \in AccountSessions, handling[s] # Unused,
         NEW at, NEW row \in AccountRows \cup {NoAccount},
         <<handling[s].kind, at>> \in Stages, Proceeds(s, at, row)
  PROVE  /\ handling' \in [AccountSessions -> Requests \cup {Unused}]
         /\ handling'[s] \in Requests /\ handling'[s] # Unused
         /\ handling'[s].kind = handling[s].kind /\ handling'[s].person = handling[s].person
         /\ handling'[s].at = at /\ handling'[s].row = row
         /\ \A t \in AccountSessions : t # s => handling'[t] = handling[t]
<1> PICK h : h = handling[s] OBVIOUS
<1>1. h \in Requests BY DEF AccountsTyped
<1>2. PICK g : g = [[h EXCEPT !.at = at] EXCEPT !.row = row] OBVIOUS
<1>3. handling' = [handling EXCEPT ![s] = g] BY <1>2 DEF Proceeds, AccountsTyped
<1>4. g.kind = h.kind /\ g.person = h.person /\ g.at = at /\ g.row = row
  BY <1>1, <1>2 DEF Requests
<1>5. at \in {"create", "insert", "refresh", "map", "reactivate", "enable", "deactivate",
              "disable", "resolve"}
  BY DEF Stages
<1>6. g \in Requests BY <1>1, <1>2, <1>4, <1>5 DEF Requests
<1>7. g # Unused BY <1>4, <1>5 DEF Unused
<1>8. QED BY <1>3, <1>4, <1>6, <1>7 DEF AccountsTyped

\* A request about somebody is none about nobody.
LEMMA PersonOf ==
  ASSUME AccountsTyped, NEW s \in AccountSessions
  PROVE  /\ handling[s] # Unused => Person(s) \in People /\ handling[s] \in Requests
                                    /\ Stage(s) # "unused"
         /\ handling[s] = Unused => Person(s) = NoPerson /\ Stage(s) = "unused"
BY AccountAssumption DEF AccountsTyped, Person, Stage, Unused, Requests, Stages

\* SmoothIsSmooth, of one employee.
SmoothOf(p) ==
  /\ Alone(p) /\ account[p] # NoAccount => Settled(p)
  /\ \A s, t \in AccountSessions : Person(s) = p /\ Person(t) = p => s = t
  /\ \A s \in AccountSessions : Person(s) = p => OnItsWay(s)

\* A request leaves those alone whom it is not about.
LEMMA OthersSmooth ==
  ASSUME AccountsInv, NEW q \in People, smooth[q],
         \A t \in AccountSessions :
           /\ (handling'[t].person = q) = (handling[t].person = q)
           /\ handling[t].person = q => handling'[t] = handling[t],
         account'[q] = account[q],
         account[q] # NoAccount => /\ signin'[account[q].uid] = signin[account[q].uid]
                                   /\ mapping'[account[q].uid] = mapping[account[q].uid]
  PROVE  SmoothOf(q)'
<1>1. /\ Alone(q) /\ account[q] # NoAccount => Settled(q)
      /\ \A s, t \in AccountSessions : Person(s) = q /\ Person(t) = q => s = t
      /\ \A s \in AccountSessions : Person(s) = q => OnItsWay(s)
  BY DEF AccountsInv, SmoothIsSmooth
<1>2. Alone(q)' /\ account'[q] # NoAccount => Settled(q)'
  BY <1>1 DEF Alone, Person, Settled, SignsIn
<1>3. \A s, t \in AccountSessions : Person(s)' = q /\ Person(t)' = q => s = t
  BY <1>1 DEF Person
<1>4. ASSUME NEW s \in AccountSessions, Person(s)' = q PROVE OnItsWay(s)'
  <2>1. OnItsWay(s) /\ Person(s) = q /\ handling'[s] = handling[s] BY <1>1, <1>4 DEF Person
  <2>2. account[q] = NoAccount \/ SignsIn(q)' = SignsIn(q) BY DEF SignsIn
  <2>3. Stage(s) \in {"resolve", "map", "enable", "disable", "refresh"} => account[q] # NoAccount
    <3>1. handling[s] # Unused BY <2>1, PersonOf, AccountAssumption DEF AccountsInv
    <3>2. Stage(s) \in {"resolve", "map", "enable", "disable", "refresh"} => account[q].uid \in uids
      BY <2>1, <3>1 DEF AccountsInv, RequestsHoldTheirs, AccountRows
    <3>3. QED BY <3>2 DEF NoAccount, uids
  <2>4. QED BY <2>1, <2>2, <2>3 DEF OnItsWay, Stage, Person, HeldRow
<1>5. QED BY <1>2, <1>3, <1>4 DEF SmoothOf

\* Refresh the row, or find the employee: nothing else changes.
LEMMA RefreshKeeps ==
  ASSUME AccountsInv, NEW s \in AccountSessions, RefreshRow(s) \/ ResolveEmployee(s)
  PROVE  AccountsInv'
<1> PICK h, p : h = handling[s] /\ p = h.person OBVIOUS
<1>1. /\ AccountsTyped /\ UidsAreOwn /\ RequestsHoldTheirs /\ SmoothIsSmooth
      /\ h # Unused /\ p \in People /\ h \in Requests
  BY PersonOf DEF AccountsInv, RefreshRow, ResolveEmployee, Stage, Unused, Person
<1>2. h.row \in AccountRows /\ account[p].uid = h.row.uid /\ account[p] \in AccountRows
  <2>1. h.row \in AccountRows /\ account[p].uid = h.row.uid
    BY <1>1 DEF RefreshRow, ResolveEmployee, RequestsHoldTheirs, Stage, HeldRow, Person
  <2>2. account[p].uid # 0 BY <2>1 DEF AccountRows, uids
  <2>3. QED BY <1>1, <2>1, <2>2 DEF AccountsTyped, NoAccount
<1>3. /\ UNCHANGED <<account, firebase, smooth>>
      /\ handling' \in [AccountSessions -> Requests \cup {Unused}]
      /\ handling'[s] # Unused /\ handling'[s].person = p /\ handling'[s].kind = h.kind
      /\ \A t \in AccountSessions : t # s => handling'[t] = handling[t]
      /\ \/ /\ h.at = "refresh" /\ handling'[s].row = account[p]
            /\ handling'[s].at = CASE h.kind = "revoke" -> "disable"
                   [] h.kind = "reactivate" -> "enable" [] OTHER -> "map"
         \/ h.at = "resolve" /\ handling'[s].at = "map" /\ handling'[s].row = h.row
  <2>1. CASE RefreshRow(s)
    <3>1. PICK at : at = CASE h.kind = "revoke" -> "disable"
                   [] h.kind = "reactivate" -> "enable" [] OTHER -> "map" OBVIOUS
    <3>2. <<h.kind, at>> \in Stages BY <1>1, <2>1, <3>1 DEF RefreshRow, Stage, Requests, Stages
    <3>3. Proceeds(s, at, account[p]) BY <2>1, <3>1 DEF RefreshRow, Person
    <3>4. QED BY <1>1, <1>2, <2>1, <3>1, <3>2, <3>3, Proceeding DEF RefreshRow, Stage
  <2>2. CASE ResolveEmployee(s)
    <3>1. <<h.kind, "map">> \in Stages BY <1>1, <2>2 DEF ResolveEmployee, Stage, Requests, Stages
    <3>2. Proceeds(s, "map", h.row) BY <2>2 DEF ResolveEmployee, HeldRow
    <3>3. QED BY <1>1, <1>2, <2>2, <3>1, <3>2, Proceeding DEF ResolveEmployee, Stage
  <2>3. QED BY <2>1, <2>2
<1>4. AccountsTyped' BY <1>1, <1>3 DEF AccountsTyped, firebase
<1>5. UidsAreOwn' BY <1>1, <1>3 DEF UidsAreOwn, firebase
<1>6. RequestsHoldTheirs'
  BY <1>1, <1>2, <1>3 DEF RequestsHoldTheirs, firebase, Stage, HeldRow, Person, Fresh
<1>7. ASSUME NEW q \in People, smooth[q]'
      PROVE  /\ Alone(q)' /\ account'[q] # NoAccount => Settled(q)'
             /\ \A r, t \in AccountSessions : Person(r)' = q /\ Person(t)' = q => r = t
             /\ \A r \in AccountSessions : Person(r)' = q => OnItsWay(r)'
  <2>1. smooth[q] /\ \A r \in AccountSessions : Person(r)' = Person(r)
    BY <1>3, <1>7 DEF Person
  <2>2. Alone(q)' /\ account'[q] # NoAccount => Settled(q)'
    BY <1>1, <1>3, <2>1 DEF SmoothIsSmooth, Alone, Settled, SignsIn, firebase
  <2>3. \A r, t \in AccountSessions : Person(r)' = q /\ Person(t)' = q => r = t
    BY <1>1, <2>1 DEF SmoothIsSmooth
  <2>4. ASSUME NEW r \in AccountSessions, Person(r)' = q PROVE OnItsWay(r)'
    <3>1. OnItsWay(r) /\ Person(r) = q BY <1>1, <2>1, <2>4 DEF SmoothIsSmooth
    <3>2. CASE r # s BY <1>3, <3>1, <3>2 DEF OnItsWay, Stage, HeldRow, Person, SignsIn, firebase
    <3>3. CASE r = s /\ h.at = "resolve"
      BY <1>3, <3>1, <3>3 DEF OnItsWay, Stage, HeldRow, Person, SignsIn, firebase
    <3>4. CASE r = s /\ h.at = "refresh"
      <4>1. h.kind \in {"create", "reactivate", "revoke"} BY <1>1, <3>4 DEF Requests, Stages
      <4>2. /\ handling'[s].row = account'[p] /\ Person(s) = p /\ Person(s)' = p
            /\ account' = account /\ signin' = signin
        BY <1>3, <3>4 DEF Person, firebase
      <4>3. account[p].active = (h.kind # "revoke") /\ (h.kind = "create" => SignsIn(p))
        BY <3>1, <3>4, <4>2 DEF OnItsWay, Stage
      <4>4. handling'[s].at \in {"disable", "enable", "map"} BY <1>3, <3>4, <4>1
      <4>5. QED
        BY <1>3, <3>4, <4>1, <4>2, <4>3, <4>4 DEF OnItsWay, Stage, HeldRow, SignsIn
    <3>5. QED BY <1>3, <3>2, <3>3, <3>4
  <2>5. QED BY <2>2, <2>3, <2>4
<1>8. QED BY <1>4, <1>5, <1>6, <1>7 DEF AccountsInv, SmoothIsSmooth

\* A request begins with the row it finds.
LEMMA StartKeeps ==
  ASSUME AccountsInv, NEW s \in AccountSessions, NEW p \in People,
         Provision(s, p) \/ Revoke(s, p) \/ Resync(s, p)
  PROVE  AccountsInv'
<1>1. AccountsTyped /\ UidsAreOwn /\ RequestsHoldTheirs /\ SmoothIsSmooth BY DEF AccountsInv
<1>2. PICK kind, at :
        /\ StartsWith(s, p, kind, at) /\ <<kind, at>> \in Stages
        /\ at \in {"create", "reactivate", "deactivate", "map"}
        /\ at = "create" => account[p] = NoAccount
        /\ at # "create" => account[p] # NoAccount
        /\ smooth'[p] = ((at = "map" => smooth[p]) /\ Alone(p))
        /\ \A q \in People : q # p => smooth'[q] = smooth[q]
        /\ smooth' \in [People -> BOOLEAN]
  <2>1. CASE Provision(s, p)
    <3>1. smooth' = [smooth EXCEPT ![p] = Alone(p)] BY <2>1 DEF Provision
    <3>2. /\ smooth'[p] = Alone(p) /\ \A q \in People : q # p => smooth'[q] = smooth[q]
          /\ smooth' \in [People -> BOOLEAN]
      BY <1>1, <3>1 DEF AccountsTyped, Alone
    <3>3. CASE account[p] = NoAccount
      <4>1. StartsWith(s, p, "create", "create") BY <2>1, <3>3 DEF Provision
      <4>2. QED BY <3>2, <3>3, <4>1 DEF Stages
    <3>4. CASE account[p] # NoAccount
      <4>1. StartsWith(s, p, "reactivate", "reactivate") BY <2>1, <3>4 DEF Provision
      <4>2. QED BY <3>2, <3>4, <4>1 DEF Stages
    <3>5. QED BY <3>3, <3>4
  <2>2. CASE Revoke(s, p)
    <3>1. smooth' = [smooth EXCEPT ![p] = Alone(p)] BY <2>2 DEF Revoke
    <3>2. /\ smooth'[p] = Alone(p) /\ \A q \in People : q # p => smooth'[q] = smooth[q]
          /\ smooth' \in [People -> BOOLEAN]
      BY <1>1, <3>1 DEF AccountsTyped, Alone
    <3>3. QED BY <2>2, <3>2 DEF Revoke, Stages
  <2>3. CASE Resync(s, p)
    <3>1. smooth' = [smooth EXCEPT ![p] = smooth[p] /\ Alone(p)] BY <2>3 DEF Resync
    <3>2. /\ smooth'[p] = (smooth[p] /\ Alone(p))
          /\ \A q \in People : q # p => smooth'[q] = smooth[q]
          /\ smooth' \in [People -> BOOLEAN]
      BY <1>1, <3>1 DEF AccountsTyped, Alone
    <3>3. QED BY <2>3, <3>2 DEF Resync, Stages
  <2>4. QED BY <2>1, <2>2, <2>3
<1>3. PICK h : h = [kind |-> kind, at |-> at, person |-> p, row |-> account[p]] OBVIOUS
<1>4. /\ handling[s] = Unused /\ handling' = [handling EXCEPT ![s] = h]
      /\ UNCHANGED <<account, signin, mapping>>
  BY <1>2, <1>3 DEF StartsWith, firebase
<1>5. h \in Requests
  BY <1>1, <1>2, <1>3 DEF Requests, AccountsTyped, Stages
<1>6. AccountsTyped'
  <2>1. smooth' \in [People -> BOOLEAN] BY <1>1, <1>2 DEF AccountsTyped
  <2>2. handling' \in [AccountSessions -> Requests \cup {Unused}] BY <1>1, <1>4, <1>5 DEF AccountsTyped
  <2>3. QED BY <1>1, <1>4, <2>1, <2>2 DEF AccountsTyped
<1>7. UidsAreOwn' BY <1>1, <1>4 DEF UidsAreOwn
<1>8. /\ handling'[s] = h /\ h.at = at /\ h.person = p /\ h.row = account[p]
      /\ \A t \in AccountSessions : t # s => handling'[t] = handling[t]
  BY <1>1, <1>3, <1>4 DEF AccountsTyped
<1>9. RequestsHoldTheirs'
  <2>1. account[p] # NoAccount => account[p] \in AccountRows BY <1>1 DEF AccountsTyped
  <2>2. QED
    BY <1>1, <1>2, <1>4, <1>8, <2>1 DEF RequestsHoldTheirs, Stage, HeldRow, Person, Fresh
<1>10. ASSUME NEW q \in People, smooth'[q] PROVE SmoothOf(q)'
  <2>1. CASE q # p
    <3>1. smooth[q] BY <1>1, <1>2, <1>10, <2>1 DEF AccountsTyped
    <3>2. handling[s].person # q BY <1>4, AccountAssumption DEF Unused
    <3>3. QED BY <1>4, <1>8, <2>1, <3>1, <3>2, OthersSmooth
  <2>2. CASE q = p
    <3>1. Alone(p) /\ (at = "map" => smooth[p]) BY <1>1, <1>2, <1>10, <2>2 DEF AccountsTyped
    <3>2. \A t \in AccountSessions : Person(t)' = p => t = s BY <1>8, <3>1 DEF Alone, Person
    <3>3. ~Alone(p)' BY <1>8 DEF Alone, Person
    <3>4. at = "map" => SignsIn(p)
      BY <1>1, <1>2, <3>1 DEF SmoothIsSmooth, Settled
    <3>5. OnItsWay(s)'
      BY <1>2, <1>4, <1>8, <3>4 DEF OnItsWay, Stage, HeldRow, Person, SignsIn
    <3>6. QED BY <2>2, <3>2, <3>3, <3>5 DEF SmoothOf
  <2>3. QED BY <2>1, <2>2
<1>11. QED BY <1>6, <1>7, <1>9, <1>10 DEF AccountsInv, SmoothIsSmooth, SmoothOf

\* A request that fails does not count as smooth.
LEMMA FailsKeeps ==
  ASSUME AccountsInv, NEW s \in AccountSessions, RequestFails(s)
  PROVE  AccountsInv'
<1>1. AccountsTyped /\ UidsAreOwn /\ RequestsHoldTheirs /\ SmoothIsSmooth BY DEF AccountsInv
<1> PICK p : p = handling[s].person OBVIOUS
<1>2. /\ p \in People /\ handling' = [handling EXCEPT ![s] = Unused]
      /\ smooth' = [smooth EXCEPT ![p] = FALSE] /\ UNCHANGED <<account, signin, mapping>>
  BY <1>1, PersonOf DEF RequestFails, firebase, Person
<1>3. /\ handling'[s] = Unused
      /\ \A t \in AccountSessions : t # s => handling'[t] = handling[t]
  BY <1>1, <1>2 DEF AccountsTyped
<1>4. AccountsTyped'
  <2>1. smooth' \in [People -> BOOLEAN] BY <1>1, <1>2 DEF AccountsTyped
  <2>2. handling' \in [AccountSessions -> Requests \cup {Unused}] BY <1>1, <1>2 DEF AccountsTyped
  <2>3. QED BY <1>1, <1>2, <2>1, <2>2 DEF AccountsTyped
<1>5. UidsAreOwn' BY <1>1, <1>2 DEF UidsAreOwn
<1>6. RequestsHoldTheirs'
  <2>1. Stage(s)' = "unused" BY <1>3 DEF Stage, Unused
  <2>2. QED BY <1>1, <1>2, <1>3, <2>1 DEF RequestsHoldTheirs, Stage, HeldRow, Person, Fresh
<1>7. ASSUME NEW q \in People, smooth'[q] PROVE SmoothOf(q)'
  <2>1. q # p /\ smooth[q] BY <1>1, <1>2, <1>7 DEF AccountsTyped
  <2>2. handling[s].person # q /\ handling'[s].person # q
    BY <1>3, <2>1, AccountAssumption DEF Unused
  <2>3. QED BY <1>2, <1>3, <2>1, <2>2, OthersSmooth
<1>8. QED BY <1>4, <1>5, <1>6, <1>7 DEF AccountsInv, SmoothIsSmooth, SmoothOf

\* The user created is one nobody has.
LEMMA CreateUserKeeps ==
  ASSUME AccountsInv, NEW s \in AccountSessions, CreateUser(s)
  PROVE  AccountsInv'
<1> PICK h, p : h = handling[s] /\ p = h.person OBVIOUS
<1>1. /\ AccountsTyped /\ UidsAreOwn /\ RequestsHoldTheirs /\ SmoothIsSmooth
      /\ h # Unused /\ p \in People /\ h \in Requests /\ h.at = "create"
  BY PersonOf DEF AccountsInv, CreateUser, Stage, Unused, Person
<1>2. PICK u \in uids :
        /\ signin[u] = "none" /\ signin' = [signin EXCEPT ![u] = "enabled"]
        /\ Proceeds(s, "insert", [uid |-> u, active |-> TRUE])
  BY DEF CreateUser
<1>3. PICK row : row = [uid |-> u, active |-> TRUE] OBVIOUS
<1>4. row \in AccountRows /\ row.uid = u /\ row.active BY <1>3 DEF AccountRows
<1>5. /\ UNCHANGED <<account, mapping, smooth>>
      /\ handling' \in [AccountSessions -> Requests \cup {Unused}]
      /\ handling'[s] # Unused /\ handling'[s].person = p /\ handling'[s].row = row
      /\ handling'[s].at = "insert"
      /\ \A t \in AccountSessions : t # s => handling'[t] = handling[t]
  <2>1. <<h.kind, "insert">> \in Stages BY <1>1 DEF Requests, Stages
  <2>2. QED BY <1>1, <1>2, <1>3, <1>4, <2>1, Proceeding DEF CreateUser
<1>6. /\ signin' \in [uids -> {"none", "enabled", "disabled"}] /\ signin'[u] = "enabled"
      /\ \A v \in uids : v # u => signin'[v] = signin[v]
  BY <1>1, <1>2 DEF AccountsTyped
<1>7. /\ \A q \in People : account[q].uid # u
      /\ \A t \in AccountSessions : Stage(t) = "insert" => HeldRow(t) \in AccountRows /\ HeldRow(t).uid # u
  <2>1. \A q \in People : account[q].uid # u
    BY <1>1, <1>2 DEF UidsAreOwn, NoAccount, uids
  <2>2. \A t \in AccountSessions : Stage(t) = "insert" => handling[t] # Unused BY DEF Stage, Unused
  <2>3. QED BY <1>1, <1>2, <2>1, <2>2 DEF RequestsHoldTheirs, Fresh, HeldRow
<1>8. AccountsTyped' BY <1>1, <1>5, <1>6 DEF AccountsTyped
<1>9. UidsAreOwn'
  <2>1. \A q \in People : account[q] # NoAccount => account[q].uid \in uids
    BY <1>1 DEF AccountsTyped, AccountRows
  <2>2. \A q \in People : account'[q] # NoAccount => signin'[account'[q].uid] # "none"
    BY <1>1, <1>5, <1>6, <1>7, <2>1 DEF UidsAreOwn
  <2>3. QED BY <1>1, <1>5, <2>2 DEF UidsAreOwn
<1>10. RequestsHoldTheirs'
  <2>1. ASSUME NEW t \in AccountSessions, handling'[t] # Unused
        PROVE  /\ Stage(t)' = "insert" => Fresh(handling[t])'
               /\ Stage(t)' \notin {"create", "insert"} =>
                    HeldRow(t)' \in AccountRows /\ account'[Person(t)'].uid = HeldRow(t)'.uid
    <3>1. CASE t = s BY <1>4, <1>5, <1>6, <1>7, <3>1 DEF Stage, Fresh
    <3>2. CASE t # s
      <4>1. handling'[t] = handling[t] BY <1>5, <3>2
      <4>2. Stage(t) = "insert" => Fresh(handling[t]) /\ HeldRow(t).uid \in uids /\ HeldRow(t).uid # u
        BY <1>1, <1>7, <2>1, <4>1 DEF RequestsHoldTheirs, AccountRows
      <4>3. Stage(t)' = "insert" => Fresh(handling[t])'
        BY <1>5, <1>6, <4>1, <4>2 DEF Fresh, HeldRow, Stage
      <4>4. Stage(t)' \notin {"create", "insert"} =>
              HeldRow(t)' \in AccountRows /\ account'[Person(t)'].uid = HeldRow(t)'.uid
        BY <1>1, <1>5, <2>1, <4>1 DEF RequestsHoldTheirs, Stage, HeldRow, Person
      <4>5. QED BY <4>3, <4>4
    <3>3. QED BY <3>1, <3>2
  <2>2. \A t, r \in AccountSessions :
          Stage(t)' = "insert" /\ Stage(r)' = "insert" /\ HeldRow(t)'.uid = HeldRow(r)'.uid => t = r
    BY <1>1, <1>4, <1>5, <1>7 DEF RequestsHoldTheirs, Stage, HeldRow
  <2>3. QED BY <2>1, <2>2 DEF RequestsHoldTheirs
<1>11. ASSUME NEW q \in People, smooth'[q] PROVE SmoothOf(q)'
  <2>1. smooth[q] BY <1>5, <1>11
  <2>2. CASE q # p
    <3>1. account[q] # NoAccount => account[q].uid \in uids BY <1>1 DEF AccountsTyped, AccountRows
    <3>2. QED BY <1>5, <1>6, <1>7, <2>1, <2>2, <3>1, OthersSmooth
  <2>3. CASE q = p
    <3>1. /\ account[p] = NoAccount
          /\ \A t \in AccountSessions : Person(t) = p => t = s
      BY <1>1, <2>1, <2>3 DEF SmoothIsSmooth, OnItsWay, Stage, Person
    <3>2. /\ \A t \in AccountSessions : Person(t)' = p => t = s
          /\ ~Alone(p)'
      BY <1>5, <3>1 DEF Person, Alone
    <3>3. OnItsWay(s)' BY <1>5, <3>1 DEF OnItsWay, Stage, Person
    <3>4. QED BY <2>3, <3>2, <3>3 DEF SmoothOf
  <2>4. QED BY <2>2, <2>3
<1>12. QED BY <1>8, <1>9, <1>10, <1>11 DEF AccountsInv, SmoothIsSmooth, SmoothOf

\* Of two requests that insert the row of somebody, one wins.
LEMMA InsertKeeps ==
  ASSUME AccountsInv, NEW s \in AccountSessions, InsertAccount(s)
  PROVE  AccountsInv'
<1> PICK h, p, row : h = handling[s] /\ p = h.person /\ row = h.row OBVIOUS
<1>1. /\ AccountsTyped /\ UidsAreOwn /\ RequestsHoldTheirs /\ SmoothIsSmooth
      /\ h # Unused /\ p \in People /\ h \in Requests /\ h.at = "insert"
  BY PersonOf DEF AccountsInv, InsertAccount, Stage, Unused, Person
<1>2. /\ row \in AccountRows /\ row.active /\ signin[row.uid] = "enabled"
      /\ \A q \in People : account[q].uid # row.uid
  BY <1>1 DEF RequestsHoldTheirs, Stage, Fresh
<1>3. <<h.kind, "map">> \in Stages /\ <<h.kind, "refresh">> \in Stages /\ h.kind = "create"
  BY <1>1 DEF Requests, Stages
<1>4. CASE account[p] = NoAccount
  <2>1. /\ account' = [account EXCEPT ![p] = row] /\ Proceeds(s, "refresh", row)
        /\ UNCHANGED <<signin, mapping, smooth>>
    BY <1>4 DEF InsertAccount, HeldRow, firebase, Person
  <2>2. /\ handling' \in [AccountSessions -> Requests \cup {Unused}]
        /\ handling'[s] # Unused /\ handling'[s].person = p /\ handling'[s].row = row
        /\ handling'[s].at = "refresh" /\ handling'[s].kind = "create"
        /\ \A t \in AccountSessions : t # s => handling'[t] = handling[t]
    BY <1>1, <1>2, <1>3, <2>1, Proceeding
  <2>3. /\ account' \in [People -> AccountRows \cup {NoAccount}] /\ account'[p] = row
        /\ \A q \in People : q # p => account'[q] = account[q]
    BY <1>1, <1>2, <2>1 DEF AccountsTyped
  <2>4. AccountsTyped' BY <1>1, <2>1, <2>2, <2>3 DEF AccountsTyped
  <2>5. UidsAreOwn'
    <3>1. \A u \in uids : mapping[u].person # NoPerson => mapping[u].person \in People
      BY <1>1 DEF AccountsTyped
    <3>2. \A u \in uids : mapping[u].person # p BY <1>1, <1>4, AccountAssumption DEF UidsAreOwn, NoAccount, uids
    <3>3. \A u \in uids : mapping'[u].person # NoPerson => account'[mapping'[u].person].uid = u
      BY <1>1, <2>1, <2>3, <3>1, <3>2 DEF UidsAreOwn
    <3>4. \A q \in People : account'[q] # NoAccount => signin'[account'[q].uid] # "none"
      BY <1>1, <1>2, <2>1, <2>3 DEF UidsAreOwn
    <3>5. \A q, r \in People : account'[q] # NoAccount /\ account'[q].uid = account'[r].uid => q = r
      BY <1>1, <1>2, <2>3 DEF UidsAreOwn
    <3>6. QED BY <3>3, <3>4, <3>5 DEF UidsAreOwn
  <2>6. RequestsHoldTheirs'
    <3>1. ASSUME NEW t \in AccountSessions, handling'[t] # Unused
          PROVE  /\ Stage(t)' = "insert" => Fresh(handling[t])'
                 /\ Stage(t)' \notin {"create", "insert"} =>
                      HeldRow(t)' \in AccountRows /\ account'[Person(t)'].uid = HeldRow(t)'.uid
      <4>1. CASE t = s BY <1>2, <2>2, <2>3, <4>1 DEF Stage, HeldRow, Person
      <4>2. CASE t # s
        <5>1. handling'[t] = handling[t] /\ handling[t] # Unused BY <2>2, <3>1, <4>2
        <5>2. Stage(t) = "insert" => Fresh(handling[t]) /\ HeldRow(t).uid # row.uid
          BY <1>1, <4>2, <5>1 DEF RequestsHoldTheirs, Stage, HeldRow
        <5>3. Stage(t) \notin {"create", "insert"} =>
                /\ HeldRow(t) \in AccountRows /\ account[Person(t)].uid = HeldRow(t).uid
                /\ Person(t) # p
          <6>1. Stage(t) \notin {"create", "insert"} =>
                  HeldRow(t) \in AccountRows /\ account[Person(t)].uid = HeldRow(t).uid
            BY <1>1, <5>1 DEF RequestsHoldTheirs
          <6>2. HeldRow(t) \in AccountRows => HeldRow(t).uid # 0 BY DEF AccountRows, uids
          <6>3. QED BY <1>4, <6>1, <6>2 DEF NoAccount
        <5>4. Person(t) \in People BY <1>1, <5>1, PersonOf
        <5>5. Stage(t)' = Stage(t) /\ HeldRow(t)' = HeldRow(t) /\ Person(t)' = Person(t)
          BY <5>1 DEF Stage, HeldRow, Person
        <5>6. Stage(t) = "insert" => Fresh(handling[t])'
          BY <1>1, <2>1, <2>3, <5>1, <5>2 DEF Fresh, HeldRow
        <5>7. QED BY <2>3, <5>3, <5>4, <5>5, <5>6
      <4>3. QED BY <4>1, <4>2
    <3>2. \A t, r \in AccountSessions :
            Stage(t)' = "insert" /\ Stage(r)' = "insert" /\ HeldRow(t)'.uid = HeldRow(r)'.uid => t = r
      BY <1>1, <2>2 DEF RequestsHoldTheirs, Stage, HeldRow
    <3>3. QED BY <3>1, <3>2 DEF RequestsHoldTheirs
  <2>7. ASSUME NEW q \in People, smooth'[q] PROVE SmoothOf(q)'
    <3>1. smooth[q] BY <2>1, <2>7
    <3>2. CASE q # p BY <2>1, <2>2, <2>3, <3>1, <3>2, OthersSmooth
    <3>3. CASE q = p
      <4>1. \A t \in AccountSessions : Person(t) = p => t = s
        BY <1>1, <3>1, <3>3 DEF SmoothIsSmooth, Person
      <4>2. /\ \A t \in AccountSessions : Person(t)' = p => t = s
            /\ ~Alone(p)'
        BY <2>2, <4>1 DEF Person, Alone
      <4>3. account'[p].active = TRUE /\ signin'[account'[p].uid] = "enabled"
        BY <1>2, <2>1, <2>3 DEF AccountRows
      <4>4. SignsIn(p)' BY <4>3 DEF SignsIn
      <4>5. OnItsWay(s)' BY <2>2, <4>3, <4>4 DEF OnItsWay, Stage, Person
      <4>6. QED BY <3>3, <4>2, <4>5 DEF SmoothOf
    <3>4. QED BY <3>2, <3>3
  <2>8. QED BY <2>4, <2>5, <2>6, <2>7 DEF AccountsInv, SmoothIsSmooth, SmoothOf
<1>5. CASE account[p] # NoAccount
  <2>1. Proceeds(s, "map", account[p]) /\ UNCHANGED <<account, signin, mapping, smooth>>
    BY <1>5 DEF InsertAccount, HeldRow, firebase, Person
  <2>2. account[p] \in AccountRows BY <1>1, <1>5 DEF AccountsTyped
  <2>3. /\ handling' \in [AccountSessions -> Requests \cup {Unused}]
        /\ handling'[s] # Unused /\ handling'[s].person = p /\ handling'[s].row = account[p]
        /\ handling'[s].at = "map"
        /\ \A t \in AccountSessions : t # s => handling'[t] = handling[t]
    BY <1>1, <1>3, <2>1, <2>2, Proceeding
  <2>4. AccountsTyped' BY <1>1, <2>1, <2>3 DEF AccountsTyped
  <2>5. UidsAreOwn' BY <1>1, <2>1 DEF UidsAreOwn
  <2>6. RequestsHoldTheirs'
    BY <1>1, <2>1, <2>2, <2>3 DEF RequestsHoldTheirs, Stage, HeldRow, Person, Fresh
  <2>7. ASSUME NEW q \in People, smooth'[q] PROVE SmoothOf(q)'
    <3>1. q # p
      BY <1>1, <1>5, <2>1, <2>7 DEF SmoothIsSmooth, OnItsWay, Stage, Person
    <3>2. QED BY <2>1, <2>3, <2>7, <3>1, OthersSmooth
  <2>8. QED BY <2>4, <2>5, <2>6, <2>7 DEF AccountsInv, SmoothIsSmooth, SmoothOf
<1>6. QED BY <1>4, <1>5

\* A request past its first stages is about an account, whose uid it has.
LEMMA AccountOf ==
  ASSUME AccountsInv, NEW s \in AccountSessions, handling[s] # Unused,
         handling[s].at \notin {"create", "insert"}
  PROVE  /\ handling[s] \in Requests /\ handling[s].person \in People
         /\ handling[s].row \in AccountRows /\ handling[s].row.uid \in uids
         /\ account[handling[s].person] \in AccountRows
         /\ account[handling[s].person].uid = handling[s].row.uid
         /\ account[handling[s].person] # NoAccount
         /\ \A q \in People : q # handling[s].person => account[q].uid # handling[s].row.uid
<1>1. AccountsTyped /\ UidsAreOwn /\ RequestsHoldTheirs BY DEF AccountsInv
<1> PICK h, p : h = handling[s] /\ p = h.person OBVIOUS
<1>2. h \in Requests /\ p \in People BY <1>1, PersonOf DEF Person
<1>3. h.row \in AccountRows /\ account[p].uid = h.row.uid
  BY <1>1 DEF RequestsHoldTheirs, Stage, HeldRow, Person
<1>4. h.row.uid \in uids /\ h.row.uid # 0 BY <1>3 DEF AccountRows, uids
<1>5. account[p] # NoAccount BY <1>3, <1>4 DEF NoAccount
<1>6. account[p] \in AccountRows BY <1>1, <1>2, <1>5 DEF AccountsTyped
<1>7. \A q \in People : q # p => account[q].uid # h.row.uid
  BY <1>1, <1>2, <1>3, <1>5 DEF UidsAreOwn
<1>8. QED BY <1>2, <1>3, <1>4, <1>5, <1>6, <1>7

\* The row is made active or inactive.
LEMMA ActivityKeeps ==
  ASSUME AccountsInv, NEW s \in AccountSessions, Reactivate(s) \/ Deactivate(s)
  PROVE  AccountsInv'
<1> PICK h, p : h = handling[s] /\ p = h.person OBVIOUS
<1>1. /\ AccountsTyped /\ UidsAreOwn /\ RequestsHoldTheirs /\ SmoothIsSmooth
      /\ h # Unused /\ h.at \in {"reactivate", "deactivate"}
  BY DEF AccountsInv, Reactivate, Deactivate, Stage, Unused
<1>2. /\ h \in Requests /\ p \in People /\ h.row \in AccountRows /\ account[p] \in AccountRows
      /\ account[p].uid = h.row.uid
  BY <1>1, AccountOf
<1>3. PICK v \in BOOLEAN :
        /\ account' = [account EXCEPT ![p].active = v]
        /\ Proceeds(s, "refresh", h.row) /\ UNCHANGED <<signin, mapping, smooth>>
        /\ h.row = account[p] => v = (h.kind # "revoke")
  <2>1. CASE Reactivate(s)
    <3>1. PICK v : v = (account[p].active \/ ~h.row.active) OBVIOUS
    <3>2. v \in BOOLEAN /\ (h.row = account[p] => v = TRUE) BY <3>1
    <3>3. account' = [account EXCEPT ![p].active = v]
      BY <2>1, <3>1 DEF Reactivate, HeldRow, Person
    <3>4. h.kind = "reactivate" BY <1>2, <2>1 DEF Reactivate, Stage, Requests, Stages
    <3>5. QED BY <2>1, <3>2, <3>3, <3>4 DEF Reactivate, HeldRow, firebase
  <2>2. CASE Deactivate(s)
    <3>1. PICK v : v = (account[p].active /\ ~h.row.active) OBVIOUS
    <3>2. v \in BOOLEAN /\ (h.row = account[p] => v = FALSE) BY <3>1
    <3>3. account' = [account EXCEPT ![p].active = v]
      BY <2>2, <3>1 DEF Deactivate, HeldRow, Person
    <3>4. h.kind = "revoke" BY <1>2, <2>2 DEF Deactivate, Stage, Requests, Stages
    <3>5. QED BY <2>2, <3>2, <3>3, <3>4 DEF Deactivate, HeldRow, firebase
  <2>3. QED BY <1>1, <2>1, <2>2
<1>4. /\ handling' \in [AccountSessions -> Requests \cup {Unused}]
      /\ handling'[s] # Unused /\ handling'[s].person = p /\ handling'[s].row = h.row
      /\ handling'[s].at = "refresh" /\ handling'[s].kind = h.kind
      /\ \A t \in AccountSessions : t # s => handling'[t] = handling[t]
  <2>1. <<h.kind, "refresh">> \in Stages /\ h.kind # "create"
    BY <1>1, <1>2 DEF Requests, Stages
  <2>2. QED BY <1>1, <1>2, <1>3, <2>1, Proceeding
<1>5. /\ account' \in [People -> AccountRows \cup {NoAccount}]
      /\ account'[p].uid = account[p].uid /\ account'[p].active = v /\ account'[p] \in AccountRows
      /\ \A q \in People : q # p => account'[q] = account[q]
  <2>1. PICK r : r = [account[p] EXCEPT !.active = v] OBVIOUS
  <2>2. r \in AccountRows /\ r.uid = account[p].uid /\ r.active = v
    BY <1>2, <2>1 DEF AccountRows
  <2>3. account' = [account EXCEPT ![p] = r] BY <1>3, <2>1
  <2>4. QED BY <1>1, <1>2, <2>2, <2>3 DEF AccountsTyped
<1>6. /\ \A q \in People : account'[q].uid = account[q].uid
      /\ \A q \in People : account'[q] # NoAccount => account[q] # NoAccount
  <2>1. account[p] # NoAccount BY <1>1, AccountOf
  <2>2. QED BY <1>5, <2>1
<1>7. AccountsTyped' BY <1>1, <1>3, <1>4, <1>5 DEF AccountsTyped
<1>8. UidsAreOwn'
  <2>1. \A u \in uids : mapping[u].person \in People \cup {NoPerson} BY <1>1 DEF AccountsTyped
  <2>2. QED BY <1>1, <1>3, <1>6, <2>1 DEF UidsAreOwn
<1>9. RequestsHoldTheirs'
  <2>1. ASSUME NEW t \in AccountSessions, handling'[t] # Unused
        PROVE  /\ Stage(t)' = "insert" => Fresh(handling[t])'
               /\ Stage(t)' \notin {"create", "insert"} =>
                    HeldRow(t)' \in AccountRows /\ account'[Person(t)'].uid = HeldRow(t)'.uid
    <3>1. CASE t = s BY <1>2, <1>4, <1>5, <3>1 DEF Stage, HeldRow, Person
    <3>2. CASE t # s
      <4>1. handling'[t] = handling[t] /\ Person(t) \in People
        BY <1>1, <1>4, <2>1, <3>2, PersonOf
      <4>2. QED
        BY <1>1, <1>3, <1>6, <2>1, <4>1 DEF RequestsHoldTheirs, Stage, Fresh, HeldRow, Person
    <3>3. QED BY <3>1, <3>2
  <2>2. \A t, r \in AccountSessions :
          Stage(t)' = "insert" /\ Stage(r)' = "insert" /\ HeldRow(t)'.uid = HeldRow(r)'.uid => t = r
    BY <1>1, <1>4 DEF RequestsHoldTheirs, Stage, HeldRow
  <2>3. QED BY <2>1, <2>2 DEF RequestsHoldTheirs
<1>10. ASSUME NEW q \in People, smooth'[q] PROVE SmoothOf(q)'
  <2>1. smooth[q] BY <1>3, <1>10
  <2>2. CASE q # p BY <1>3, <1>4, <1>5, <2>1, <2>2, OthersSmooth
  <2>3. CASE q = p
    <3>1. /\ \A t \in AccountSessions : Person(t) = p => t = s
          /\ h.row = account[p]
      BY <1>1, <2>1, <2>3 DEF SmoothIsSmooth, OnItsWay, Stage, Person, HeldRow
    <3>2. /\ \A t \in AccountSessions : Person(t)' = p => t = s
          /\ ~Alone(p)'
      BY <1>4, <3>1 DEF Person, Alone
    <3>3. h.kind # "create" BY <1>1, <1>2 DEF Requests, Stages
    <3>4. OnItsWay(s)' BY <1>3, <1>4, <1>5, <3>1, <3>3 DEF OnItsWay, Stage, Person
    <3>5. QED BY <2>3, <3>2, <3>4 DEF SmoothOf
  <2>4. QED BY <2>2, <2>3
<1>11. QED BY <1>7, <1>8, <1>9, <1>10 DEF AccountsInv, SmoothIsSmooth, SmoothOf

\* The user of the account is enabled or disabled.
LEMMA SignInKeeps ==
  ASSUME AccountsInv, NEW s \in AccountSessions, EnableUser(s) \/ DisableUser(s)
  PROVE  AccountsInv'
<1> PICK h, p, u : h = handling[s] /\ p = h.person /\ u = h.row.uid OBVIOUS
<1>1. /\ AccountsTyped /\ UidsAreOwn /\ RequestsHoldTheirs /\ SmoothIsSmooth
      /\ h # Unused /\ h.at \in {"enable", "disable"}
  BY DEF AccountsInv, EnableUser, DisableUser, Stage, Unused
<1>2. /\ h \in Requests /\ p \in People /\ h.row \in AccountRows /\ account[p] \in AccountRows
      /\ account[p].uid = u /\ u \in uids
      /\ \A q \in People : q # p => account[q].uid # u
  BY <1>1, AccountOf
<1>3. PICK at, how :
        /\ signin' = [signin EXCEPT ![u] = how] /\ Proceeds(s, at, h.row)
        /\ UNCHANGED <<account, mapping, smooth>>
        /\ <<h.kind, at>> \in Stages /\ at \in {"map", "resolve"}
        /\ \/ h.at = "enable" /\ how = "enabled"
           \/ h.at = "disable" /\ how = "disabled"
  <2>1. CASE EnableUser(s)
    <3>1. <<h.kind, "map">> \in Stages BY <1>2, <2>1 DEF EnableUser, Stage, Requests, Stages
    <3>2. QED BY <2>1, <3>1 DEF EnableUser, HeldRow, Stage
  <2>2. CASE DisableUser(s)
    <3>1. <<h.kind, "resolve">> \in Stages BY <1>2, <2>2 DEF DisableUser, Stage, Requests, Stages
    <3>2. QED BY <2>2, <3>1 DEF DisableUser, HeldRow, Stage
  <2>3. QED BY <1>1, <2>1, <2>2
<1>4. /\ handling' \in [AccountSessions -> Requests \cup {Unused}]
      /\ handling'[s] # Unused /\ handling'[s].person = p /\ handling'[s].row = h.row
      /\ handling'[s].at = at /\ handling'[s].kind = h.kind
      /\ \A t \in AccountSessions : t # s => handling'[t] = handling[t]
  BY <1>1, <1>2, <1>3, Proceeding
<1>5. /\ signin' \in [uids -> {"none", "enabled", "disabled"}] /\ signin'[u] = how
      /\ \A v \in uids : v # u => signin'[v] = signin[v]
  BY <1>1, <1>2, <1>3 DEF AccountsTyped
<1>6. \A q \in People : account[q] # NoAccount => account[q].uid \in uids
  BY <1>1 DEF AccountsTyped, AccountRows
<1>7. AccountsTyped' BY <1>1, <1>3, <1>4, <1>5 DEF AccountsTyped
<1>8. UidsAreOwn'
  <2>1. \A q \in People : account[q] # NoAccount => signin'[account[q].uid] # "none"
    BY <1>1, <1>2, <1>3, <1>5, <1>6 DEF UidsAreOwn
  <2>2. QED BY <1>1, <1>3, <2>1 DEF UidsAreOwn
<1>9. RequestsHoldTheirs'
  <2>1. ASSUME NEW t \in AccountSessions, handling'[t] # Unused
        PROVE  /\ Stage(t)' = "insert" => Fresh(handling[t])'
               /\ Stage(t)' \notin {"create", "insert"} =>
                    HeldRow(t)' \in AccountRows /\ account'[Person(t)'].uid = HeldRow(t)'.uid
    <3>1. CASE t = s BY <1>2, <1>3, <1>4, <3>1 DEF Stage, HeldRow, Person
    <3>2. CASE t # s
      <4>1. handling'[t] = handling[t] BY <1>4, <3>2
      <4>2. Stage(t) = "insert" => Fresh(handling[t]) /\ HeldRow(t).uid \in uids /\ HeldRow(t).uid # u
        BY <1>1, <1>2, <2>1, <4>1 DEF RequestsHoldTheirs, AccountRows, Fresh, HeldRow
      <4>3. Stage(t)' = "insert" => Fresh(handling[t])'
        BY <1>3, <1>5, <4>1, <4>2 DEF Fresh, HeldRow, Stage
      <4>4. QED BY <1>1, <1>3, <2>1, <4>1, <4>3 DEF RequestsHoldTheirs, Stage, HeldRow, Person
    <3>3. QED BY <3>1, <3>2
  <2>2. \A t, r \in AccountSessions :
          Stage(t)' = "insert" /\ Stage(r)' = "insert" /\ HeldRow(t)'.uid = HeldRow(r)'.uid => t = r
    BY <1>1, <1>3, <1>4 DEF RequestsHoldTheirs, Stage, HeldRow
  <2>3. QED BY <2>1, <2>2 DEF RequestsHoldTheirs
<1>10. ASSUME NEW q \in People, smooth'[q] PROVE SmoothOf(q)'
  <2>1. smooth[q] BY <1>3, <1>10
  <2>2. CASE q # p BY <1>2, <1>3, <1>4, <1>5, <1>6, <2>1, <2>2, OthersSmooth
  <2>3. CASE q = p
    <3>1. \A t \in AccountSessions : Person(t) = p => t = s
      BY <1>1, <2>1, <2>3 DEF SmoothIsSmooth, Person
    <3>2. OnItsWay(s) BY <1>1, <2>1, <2>3 DEF SmoothIsSmooth, Person
    <3>3. /\ \A t \in AccountSessions : Person(t)' = p => t = s
          /\ ~Alone(p)'
      BY <1>4, <3>1 DEF Person, Alone
    <3>4. h.row = account[p] /\ how = IF account[p].active THEN "enabled" ELSE "disabled"
      BY <1>1, <1>3, <3>2 DEF OnItsWay, Stage, HeldRow, Person
    <3>5. SignsIn(p)' BY <1>2, <1>3, <1>5, <3>4 DEF SignsIn
    <3>6. OnItsWay(s)' BY <1>3, <1>4, <3>4, <3>5 DEF OnItsWay, Stage, HeldRow, Person
    <3>7. QED BY <2>3, <3>3, <3>6 DEF SmoothOf
  <2>4. QED BY <2>2, <2>3
<1>11. QED BY <1>7, <1>8, <1>9, <1>10 DEF AccountsInv, SmoothIsSmooth, SmoothOf

\* The document is written last, and settles what the request was about.
LEMMA MappingKeeps ==
  ASSUME AccountsInv, NEW s \in AccountSessions, WriteMapping(s)
  PROVE  AccountsInv'
<1> PICK h, p, u : h = handling[s] /\ p = h.person /\ u = h.row.uid OBVIOUS
<1>1. /\ AccountsTyped /\ UidsAreOwn /\ RequestsHoldTheirs /\ SmoothIsSmooth
      /\ h # Unused /\ h.at = "map"
  BY DEF AccountsInv, WriteMapping, Stage, Unused
<1>2. /\ h \in Requests /\ p \in People /\ h.row \in AccountRows /\ account[p] \in AccountRows
      /\ account[p].uid = u /\ u \in uids
      /\ \A q \in People : q # p => account[q].uid # u
  BY <1>1, AccountOf
<1>3. PICK d : d = [person |-> p, active |-> h.row.active] OBVIOUS
<1>4. /\ mapping' = [mapping EXCEPT ![u] = d] /\ handling' = [handling EXCEPT ![s] = Unused]
      /\ UNCHANGED <<account, signin, smooth>>
  BY <1>3 DEF WriteMapping, HeldRow, Person
<1>5. /\ mapping' \in [uids -> [person : People \cup {NoPerson}, active : BOOLEAN]]
      /\ mapping'[u] = d /\ d.person = p
      /\ \A v \in uids : v # u => mapping'[v] = mapping[v]
  <2>1. d \in [person : People \cup {NoPerson}, active : BOOLEAN] BY <1>2, <1>3 DEF AccountRows
  <2>2. QED BY <1>1, <1>2, <1>3, <1>4, <2>1 DEF AccountsTyped
<1>6. /\ handling' \in [AccountSessions -> Requests \cup {Unused}] /\ handling'[s] = Unused
      /\ \A t \in AccountSessions : t # s => handling'[t] = handling[t]
  BY <1>1, <1>4 DEF AccountsTyped
<1>7. AccountsTyped' BY <1>1, <1>4, <1>5, <1>6 DEF AccountsTyped
<1>8. UidsAreOwn' BY <1>1, <1>2, <1>4, <1>5 DEF UidsAreOwn
<1>9. RequestsHoldTheirs'
  <2>1. Stage(s)' = "unused" BY <1>6 DEF Stage, Unused
  <2>2. QED BY <1>1, <1>4, <1>6, <2>1 DEF RequestsHoldTheirs, Stage, HeldRow, Person, Fresh
<1>10. ASSUME NEW q \in People, smooth'[q] PROVE SmoothOf(q)'
  <2>1. smooth[q] BY <1>4, <1>10
  <2>2. Person(s)' = NoPerson /\ NoPerson \notin People BY <1>6, AccountAssumption DEF Person, Unused
  <2>3. CASE q # p
    <3>1. account[q] # NoAccount => account[q].uid \in uids BY <1>1 DEF AccountsTyped, AccountRows
    <3>2. handling'[s].person # q BY <2>2 DEF Person
    <3>3. QED BY <1>2, <1>4, <1>5, <1>6, <2>1, <2>3, <3>1, <3>2, OthersSmooth
  <2>4. CASE q = p
    <3>1. /\ \A t \in AccountSessions : Person(t) = p => t = s
          /\ h.row = account[p] /\ SignsIn(p)
      BY <1>1, <2>1, <2>4 DEF SmoothIsSmooth, OnItsWay, Stage, Person, HeldRow
    <3>2. \A t \in AccountSessions : Person(t)' # p BY <1>2, <1>6, <2>2, <3>1 DEF Person
    <3>3. Settled(p)' BY <1>2, <1>3, <1>4, <1>5, <3>1 DEF Settled, SignsIn
    <3>4. QED BY <2>4, <3>2, <3>3 DEF SmoothOf
  <2>5. QED BY <2>3, <2>4
<1>11. QED BY <1>7, <1>8, <1>9, <1>10 DEF AccountsInv, SmoothIsSmooth, SmoothOf

\* At first there are neither accounts nor users.
LEMMA AccountsInitInv == AccountsInit => AccountsInv
<1> SUFFICES ASSUME AccountsInit PROVE AccountsInv OBVIOUS
<1>1. AccountsTyped BY DEF AccountsInit, AccountsTyped
<1>2. UidsAreOwn BY DEF AccountsInit, UidsAreOwn
<1>3. RequestsHoldTheirs BY DEF AccountsInit, RequestsHoldTheirs, Stage, Unused
<1>4. SmoothIsSmooth
  BY AccountAssumption DEF AccountsInit, SmoothIsSmooth, Person, Unused
<1>5. QED BY <1>1, <1>2, <1>3, <1>4 DEF AccountsInv

\* Who comes or goes changes no account.
LEMMA AccountsStand ==
  ASSUME AccountsInv, UNCHANGED <<account, firebase, handling, smooth>>
  PROVE  AccountsInv'
<1>1. AccountsTyped' BY DEF AccountsInv, AccountsTyped, firebase
<1>2. UidsAreOwn' BY DEF AccountsInv, UidsAreOwn, firebase
<1>3. RequestsHoldTheirs'
  BY DEF AccountsInv, RequestsHoldTheirs, Stage, HeldRow, Person, Fresh, firebase
<1>4. SmoothIsSmooth'
  BY DEF AccountsInv, SmoothIsSmooth, OnItsWay, Settled, SignsIn, Alone, Stage, HeldRow, Person, firebase
<1>5. QED BY <1>1, <1>2, <1>3, <1>4 DEF AccountsInv

\* Whatever administrators do at once, and whatever fails: documents belong to
\* the account that has their uid, and a request that met no other leaves
\* Firebase as Postgres has it.
THEOREM FirebaseFollowsAccountsCorrect == AccountsSpec => []FirebaseFollowsAccounts
<1>1. AccountsInv /\ [AccountsNext]_avars => AccountsInv'
  BY StartKeeps, FailsKeeps, CreateUserKeeps, InsertKeeps, ActivityKeeps, SignInKeeps, MappingKeeps,
     RefreshKeeps, AccountsStand DEF AccountsNext, Leaves, avars
<1>2. AccountsInv => FirebaseFollowsAccounts
  BY DEF AccountsInv, UidsAreOwn, SmoothIsSmooth, Settled, SignsIn, FirebaseFollowsAccounts
<1>3. QED BY AccountsInitInv, <1>1, <1>2, PTL DEF AccountsSpec

-----------------------------------------------------------------------------
(* Video jobs.                                                              *)

Statuses == {"absent", "PENDING", "RUNNING", "POSTPROCESSING", "DONE", "FAILED", "CANCELED"}

WorkerStates ==
  [at : {"begin", "track", "tracked", "postprocess", "rollup", "finish"}, job : Jobs,
   attempt : 1..attempts, part : 1..Parts, related : SUBSET Jobs]

VisionTyped ==
  /\ job \in [Jobs -> [status : Statuses, video : Videos \cup {Nothing}]]
  /\ \A j \in Jobs : Status(j) # "absent" => job[j].video \in Videos
  /\ attempts \in Nat
  /\ jobs \in Seq(Jobs) /\ unqueued \subseteq Jobs /\ cancelling \subseteq Jobs
  /\ worker \in [VisionWorkers -> WorkerStates \cup {Ready}]
  /\ output \in [Jobs -> SUBSET ((1..attempts) \X (1..Parts))]
  /\ \A w \in VisionWorkers : Stands(w, "begin") => worker[w].part = 1
  /\ DOMAIN derived = Jobs /\ DOMAIN attendance = Dates
  /\ disturbed \subseteq Jobs

\* Only jobs that were created are waited for, cancelled and worked on.
JobsExist ==
  /\ \A j \in unqueued \cup cancelling : Status(j) # "absent"
  /\ \A i \in DOMAIN jobs : Status(jobs[i]) # "absent"
  /\ \A w \in VisionWorkers : worker[w] # Ready => Status(JobOf(w)) # "absent"

\* A worker has begun to work on the job.
WorksOn(w, j) == worker[w] # Ready /\ JobOf(w) = j /\ ~Stands(w, "begin")

Batches(a, n) == {a} \X (1..n)

Whole(j) == \E a \in 1..attempts : output[j] = Batches(a, Parts)

\* What an attempt has made when the worker stands there, and what has become of
\* the job meanwhile.
AttemptAt(w, j) ==
  /\ Stands(w, "track") => output[j] = Batches(worker[w].attempt, worker[w].part - 1)
  /\ Stands(w, "tracked") => Whole(j) \/ Status(j) = "CANCELED"
  /\ worker[w].at \in {"postprocess", "rollup", "finish"} => Whole(j)
  /\ Stands(w, "finish") => derived[j] = output[j]
  /\ worker[w].at \in {"rollup", "finish"} => Status(j) \in {"POSTPROCESSING", "CANCELED"}
  /\ worker[w].at \notin {"rollup", "finish"} => Status(j) \in {"RUNNING", "CANCELED"}

\* One attempt at a time works on a job that was not disturbed.
AloneOf(j) ==
  /\ \A v, w \in VisionWorkers : WorksOn(v, j) /\ WorksOn(w, j) => v = w
  /\ \A w \in VisionWorkers : WorksOn(w, j) => AttemptAt(w, j)
  /\ Status(j) = "DONE" => Whole(j) /\ derived[j] = output[j]

AttemptsAreAlone == \A j \in Jobs \ disturbed : AloneOf(j)

\* The rows of one job in the attendance of its day.
RowsOfJob(j) == {<<j, row[1], row[2]>> : row \in output[j]}

Postprocesses(w, d) == worker[w].at \in {"rollup", "finish"} /\ DayOf(JobOf(w)) = d

\* A worker that makes the attendance of a day knows all jobs that are DONE, and
\* its attendance stands until its own job is DONE too.
FreshOf(d) ==
  /\ \A v, w \in VisionWorkers : Postprocesses(v, d) /\ Postprocesses(w, d) => v = w
  /\ \A w \in VisionWorkers : Stands(w, "rollup") /\ Postprocesses(w, d) =>
       Done(d) \cup {JobOf(w)} \subseteq worker[w].related
  /\ \A w \in VisionWorkers :
       Stands(w, "finish") /\ Postprocesses(w, d) /\ JobOf(w) \notin disturbed =>
         RowsOfJob(JobOf(w)) \subseteq attendance[d]
  /\ \A j \in Done(d) \ disturbed : RowsOfJob(j) \subseteq attendance[d]

AttendanceIsFresh == \A d \in Dates \ crowded : FreshOf(d)

VisionInv == VisionTyped /\ JobsExist /\ AttemptsAreAlone /\ AttendanceIsFresh

\* A worker that is not free has a job, of a day.
LEMMA WorkerHasJob ==
  ASSUME VisionTyped, JobsExist, NEW w \in VisionWorkers, worker[w] # Ready
  PROVE  /\ worker[w] \in WorkerStates /\ JobOf(w) \in Jobs /\ worker[w].attempt \in 1..attempts
         /\ worker[w].part \in 1..Parts /\ worker[w].related \subseteq Jobs
         /\ Status(JobOf(w)) # "absent" /\ job[JobOf(w)].video \in Videos /\ DayOf(JobOf(w)) \in Dates
         /\ worker[w].at \in {"begin", "track", "tracked", "postprocess", "rollup", "finish"}
<1>1. worker[w] \in WorkerStates BY DEF VisionTyped
<1>2. JobOf(w) \in Jobs BY <1>1 DEF WorkerStates, JobOf
<1>3. Status(JobOf(w)) # "absent" BY DEF JobsExist
<1>4. job[JobOf(w)].video \in Videos BY <1>2, <1>3 DEF VisionTyped
<1>5. QED BY <1>1, <1>2, <1>3, <1>4 DEF WorkerStates, DayOf, Dates

\* A worker that has moved.
LEMMA WorkerMoves ==
  ASSUME VisionTyped, JobsExist, NEW w \in VisionWorkers, worker[w] # Ready,
         NEW pc \in {"track", "tracked", "postprocess", "rollup", "finish"}, Advance(w, pc)
  PROVE  /\ worker' \in [VisionWorkers -> WorkerStates \cup {Ready}]
         /\ worker'[w] # Ready /\ worker'[w].at = pc /\ worker'[w].job = worker[w].job
         /\ worker'[w].attempt = worker[w].attempt /\ worker'[w].part = worker[w].part
         /\ worker'[w].related = worker[w].related
         /\ \A v \in VisionWorkers : v # w => worker'[v] = worker[v]
<1>1. PICK x : x = [worker[w] EXCEPT !.at = pc] OBVIOUS
<1>2. worker[w] \in WorkerStates BY DEF VisionTyped
<1>3. x \in WorkerStates /\ x.at = pc /\ x.job = worker[w].job /\ x.attempt = worker[w].attempt
      /\ x.part = worker[w].part /\ x.related = worker[w].related
  BY <1>1, <1>2 DEF WorkerStates
<1>4. x # Ready BY <1>3 DEF Ready
<1>5. worker' = [worker EXCEPT ![w] = x] BY <1>1 DEF Advance, VisionTyped
<1>6. QED BY <1>3, <1>4, <1>5 DEF VisionTyped

\* A worker that is free again.
LEMMA WorkerReleased ==
  ASSUME VisionTyped, NEW w \in VisionWorkers, Release(w)
  PROVE  /\ worker' \in [VisionWorkers -> WorkerStates \cup {Ready}] /\ worker'[w] = Ready
         /\ \A v \in VisionWorkers : v # w => worker'[v] = worker[v]
BY DEF Release, VisionTyped

\* A step that writes the status of a job.
LEMMA StatusWritten ==
  ASSUME VisionTyped, NEW j \in Jobs, NEW s \in Statuses \ {"absent"}, SetStatus(j, s),
         Status(j) # "absent"
  PROVE  /\ job' \in [Jobs -> [status : Statuses, video : Videos \cup {Nothing}]]
         /\ \A i \in Jobs : (Status(i) # "absent")' => job'[i].video \in Videos
         /\ Status(j)' = s /\ \A i \in Jobs : i # j => Status(i)' = Status(i)
         /\ \A i \in Jobs : job'[i].video = job[i].video
<1>1. PICK x : x = [job[j] EXCEPT !.status = s] OBVIOUS
<1>2. x \in [status : Statuses, video : Videos \cup {Nothing}] /\ x.status = s /\ x.video = job[j].video
  BY <1>1 DEF VisionTyped
<1>3. job' = [job EXCEPT ![j] = x] BY <1>1 DEF SetStatus, VisionTyped
<1>4. /\ job' \in [Jobs -> [status : Statuses, video : Videos \cup {Nothing}]] /\ job'[j] = x
      /\ \A i \in Jobs : i # j => job'[i] = job[i]
  BY <1>2, <1>3 DEF VisionTyped
<1>5. QED BY <1>2, <1>4 DEF VisionTyped, Status

\* A job stays alone while nobody new begins with it and its rows and status
\* stand.
LEMMA AloneStays ==
  ASSUME VisionTyped, VisionTyped', NEW j \in Jobs, AloneOf(j),
         \A w \in VisionWorkers : WorksOn(w, j)' => worker'[w] = worker[w],
         Status(j)' = Status(j) \/ Status(j)' = "CANCELED",
         output'[j] = output[j], derived'[j] = derived[j] \/ derived'[j] = output[j],
         attempts <= attempts'
  PROVE  AloneOf(j)'
<1>1. \A w \in VisionWorkers : WorksOn(w, j)' => WorksOn(w, j) /\ worker'[w] = worker[w]
  BY DEF WorksOn, JobOf, Stands
<1>2. Whole(j) => Whole(j)'
  <2>1. 1..attempts \subseteq 1..attempts' BY DEF VisionTyped
  <2>2. QED BY <2>1 DEF Whole
<1>3. \A v, w \in VisionWorkers : WorksOn(v, j)' /\ WorksOn(w, j)' => v = w
  BY <1>1 DEF AloneOf
<1>4. Status(j)' = "DONE" => Whole(j)' /\ derived'[j] = output'[j]
  BY <1>2 DEF AloneOf
<1>5. ASSUME NEW w \in VisionWorkers, WorksOn(w, j)' PROVE AttemptAt(w, j)'
  <2>1. AttemptAt(w, j) /\ worker'[w] = worker[w] BY <1>1, <1>5 DEF AloneOf
  <2>2. QED BY <1>2, <2>1 DEF AttemptAt, Stands
<1>6. QED BY <1>3, <1>4, <1>5 DEF AloneOf

\* The attendance of a day stays fresh while nobody new makes it and no job of
\* the day gets DONE.
LEMMA FreshStays ==
  ASSUME VisionTyped, JobsExist, NEW d \in Dates, FreshOf(d),
         \A w \in VisionWorkers : Postprocesses(w, d)' => worker'[w] = worker[w],
         \A i \in Jobs : Status(i) # "absent" => job'[i].video = job[i].video,
         \A i \in Jobs : Status(i)' = "DONE" => Status(i) = "DONE",
         disturbed \subseteq disturbed', attendance'[d] = attendance[d],
         \A i \in Jobs \ disturbed' :
           Status(i)' = "DONE" \/ (\E w \in VisionWorkers : JobOf(w) = i /\ Stands(w, "finish")) =>
             output'[i] = output[i]
  PROVE  FreshOf(d)'
<1>1. ASSUME NEW w \in VisionWorkers, Postprocesses(w, d)'
      PROVE  Postprocesses(w, d) /\ worker'[w] = worker[w] /\ JobOf(w) \in Jobs
  <2>1. worker'[w] = worker[w] /\ worker[w].at \in {"rollup", "finish"} BY <1>1 DEF Postprocesses
  <2>2. worker[w] # Ready BY <2>1 DEF Ready
  <2>3. JobOf(w) \in Jobs /\ Status(JobOf(w)) # "absent" BY <2>2, WorkerHasJob
  <2>4. job'[JobOf(w)].video = job[JobOf(w)].video BY <2>3
  <2>5. QED BY <1>1, <2>1, <2>3, <2>4 DEF Postprocesses, DayOf, JobOf
<1>2. \A i \in Done(d)' : i \in Done(d) /\ i \in Jobs /\ Status(i)' = "DONE"
  BY DEF Done, DayOf
<1>3. \A v, w \in VisionWorkers : Postprocesses(v, d)' /\ Postprocesses(w, d)' => v = w
  BY <1>1 DEF FreshOf
<1>4. ASSUME NEW w \in VisionWorkers, Stands(w, "rollup")', Postprocesses(w, d)'
      PROVE  (Done(d) \cup {JobOf(w)} \subseteq worker[w].related)'
  <2>1. Stands(w, "rollup") /\ Postprocesses(w, d) /\ worker'[w] = worker[w]
    BY <1>1, <1>4 DEF Stands
  <2>2. Done(d) \cup {JobOf(w)} \subseteq worker[w].related BY <2>1 DEF FreshOf
  <2>3. JobOf(w)' = JobOf(w) BY <2>1 DEF JobOf
  <2>4. QED BY <1>2, <2>1, <2>2, <2>3
<1>5. ASSUME NEW w \in VisionWorkers, Stands(w, "finish")', Postprocesses(w, d)',
             JobOf(w)' \notin disturbed'
      PROVE  (RowsOfJob(JobOf(w)) \subseteq attendance[d])'
  <2>1. Stands(w, "finish") /\ Postprocesses(w, d) /\ worker'[w] = worker[w] /\ JobOf(w) \in Jobs
    BY <1>1, <1>5 DEF Stands
  <2>2. JobOf(w)' = JobOf(w) BY <2>1 DEF JobOf
  <2>3. RowsOfJob(JobOf(w)) \subseteq attendance[d] BY <1>5, <2>1, <2>2 DEF FreshOf
  <2>4. output'[JobOf(w)] = output[JobOf(w)] BY <1>5, <2>1, <2>2
  <2>5. QED BY <2>2, <2>3, <2>4 DEF RowsOfJob
<1>6. ASSUME NEW i \in Done(d)', i \notin disturbed'
      PROVE  (RowsOfJob(i) \subseteq attendance[d])'
  <2>1. RowsOfJob(i) \subseteq attendance[d] BY <1>2, <1>6 DEF FreshOf
  <2>2. output'[i] = output[i] BY <1>2, <1>6
  <2>3. QED BY <2>1, <2>2 DEF RowsOfJob
<1>7. QED BY <1>3, <1>4, <1>5, <1>6 DEF FreshOf

\* Videos, the queue and a look at a job change neither jobs nor workers.
LEMMA QueueKeeps ==
  ASSUME VisionInv,
         \/ \E v \in Videos : InitVideo(v) \/ UploadFile(v) \/ FinalizeVideo(v)
         \/ \E j \in Jobs : PushJob(j) \/ CancelJobLook(j)
         \/ UNCHANGED vvars
  PROVE  VisionInv'
<1>1. VisionTyped /\ JobsExist /\ AttemptsAreAlone /\ AttendanceIsFresh BY DEF VisionInv
<1>2. UNCHANGED <<job, worker, output, derived, attendance, attempts, disturbed, crowded>>
  BY DEF InitVideo, UploadFile, FinalizeVideo, PushJob, CancelJobLook, vvars, results, history
<1>3. /\ unqueued' \subseteq unqueued
      /\ \/ jobs' = jobs
         \/ \E j \in unqueued : jobs' = Append(jobs, j)
      /\ \/ cancelling' = cancelling
         \/ \E j \in Jobs : Status(j) # "absent" /\ cancelling' = cancelling \cup {j}
  BY DEF InitVideo, UploadFile, FinalizeVideo, PushJob, CancelJobLook, vvars
<1>4. jobs' \in Seq(Jobs) /\ \A i \in DOMAIN jobs' : Status(jobs'[i]) # "absent"
  <2>1. CASE jobs' = jobs BY <1>1, <2>1 DEF VisionTyped, JobsExist
  <2>2. ASSUME NEW j \in unqueued, jobs' = Append(jobs, j)
        PROVE  jobs' \in Seq(Jobs) /\ \A i \in DOMAIN jobs' : Status(jobs'[i]) # "absent"
    <3>1. j \in Jobs /\ jobs \in Seq(Jobs) BY <1>1 DEF VisionTyped
    <3>2. jobs' \in Seq(Jobs) /\ Len(jobs') = Len(jobs) + 1 BY <2>2, <3>1
    <3>3. \A i \in DOMAIN jobs' : i \in DOMAIN jobs \/ i = Len(jobs) + 1 BY <3>1, <3>2
    <3>4. /\ jobs'[Len(jobs) + 1] = j
          /\ \A i \in DOMAIN jobs : jobs'[i] = jobs[i]
      BY <2>2, <3>1
    <3>5. QED BY <1>1, <3>2, <3>3, <3>4 DEF JobsExist
  <2>3. QED BY <1>3, <2>1, <2>2
<1>5. VisionTyped' BY <1>1, <1>2, <1>3, <1>4 DEF VisionTyped, Status, WorkerStates, Stands
<1>6. JobsExist' BY <1>1, <1>2, <1>3, <1>4 DEF JobsExist, Status, JobOf
<1>7. AttemptsAreAlone'
  BY <1>1, <1>2 DEF AttemptsAreAlone, AloneOf, WorksOn, AttemptAt, Whole, Status, JobOf, Stands
<1>8. AttendanceIsFresh'
  <2>1. ASSUME NEW d \in Dates, d \notin crowded' PROVE FreshOf(d)'
    <3>1. FreshOf(d) BY <1>1, <1>2, <2>1 DEF AttendanceIsFresh
    <3>2. QED BY <1>1, <1>2, <3>1, FreshStays DEF Status
  <2>2. QED BY <2>1 DEF AttendanceIsFresh, Dates
<1>9. QED BY <1>5, <1>6, <1>7, <1>8 DEF VisionInv

\* A job is created for a video.
LEMMA CreateJobKeeps ==
  ASSUME VisionInv, NEW j \in Jobs, NEW v \in Videos, CreateJob(j, v)
  PROVE  VisionInv'
<1>1. VisionTyped /\ JobsExist /\ AttemptsAreAlone /\ AttendanceIsFresh BY DEF VisionInv
<1>2. PICK x : x = [status |-> "PENDING", video |-> v] OBVIOUS
<1>3. /\ Status(j) = "absent" /\ job' = [job EXCEPT ![j] = x] /\ unqueued' = unqueued \cup {j}
      /\ UNCHANGED <<jobs, cancelling, worker, output, derived, attendance, attempts, disturbed, crowded>>
  BY <1>2 DEF CreateJob, results, history
<1>4. /\ job' \in [Jobs -> [status : Statuses, video : Videos \cup {Nothing}]]
      /\ job'[j].status = "PENDING" /\ job'[j].video = v
      /\ \A i \in Jobs : i # j => job'[i] = job[i]
  BY <1>1, <1>2, <1>3 DEF VisionTyped, Statuses
<1>5. VisionTyped'
  <2>1. \A i \in Jobs : (Status(i) # "absent")' => job'[i].video \in Videos
    BY <1>1, <1>4 DEF VisionTyped, Status
  <2>2. QED BY <1>1, <1>3, <1>4, <2>1 DEF VisionTyped, WorkerStates, Stands
<1>6. \A i \in Jobs : Status(i) # "absent" => Status(i)' # "absent" /\ i # j
  BY <1>3, <1>4 DEF Status
<1>7. JobsExist'
  <2>1. \A i \in unqueued \cup cancelling : i \in Jobs BY <1>1 DEF VisionTyped
  <2>2. \A i \in DOMAIN jobs : jobs[i] \in Jobs BY <1>1 DEF VisionTyped
  <2>3. \A w \in VisionWorkers : worker[w] # Ready => JobOf(w) \in Jobs
    BY <1>1, WorkerHasJob
  <2>4. \A w \in VisionWorkers : JobOf(w)' = JobOf(w) BY <1>3 DEF JobOf
  <2>5. Status(j)' # "absent" BY <1>4 DEF Status
  <2>6. QED BY <1>1, <1>3, <1>6, <2>1, <2>2, <2>3, <2>4, <2>5 DEF JobsExist
<1>8. AttemptsAreAlone'
  <2>1. ASSUME NEW i \in Jobs, i \notin disturbed' PROVE AloneOf(i)'
    <3>1. AloneOf(i) BY <1>1, <1>3, <2>1 DEF AttemptsAreAlone
    <3>2. CASE i # j
      <4>1. Status(i)' = Status(i) BY <1>4, <3>2 DEF Status
      <4>2. attempts <= attempts' BY <1>1, <1>3 DEF VisionTyped
      <4>3. QED BY <1>1, <1>3, <1>5, <3>1, <4>1, <4>2, AloneStays
    <3>3. CASE i = j
      <4>1. \A w \in VisionWorkers : ~WorksOn(w, i)'
        BY <1>1, <1>3, <3>3, WorkerHasJob DEF WorksOn, JobOf
      <4>2. Status(i)' = "PENDING" BY <1>4, <3>3 DEF Status
      <4>3. QED BY <4>1, <4>2 DEF AloneOf
    <3>4. QED BY <3>2, <3>3
  <2>2. QED BY <2>1 DEF AttemptsAreAlone
<1>9. AttendanceIsFresh'
  <2>1. ASSUME NEW d \in Dates, d \notin crowded' PROVE FreshOf(d)'
    <3>1. FreshOf(d) BY <1>1, <1>3, <2>1 DEF AttendanceIsFresh
    <3>2. \A i \in Jobs : Status(i) # "absent" => job'[i].video = job[i].video
      BY <1>4, <1>6
    <3>3. \A i \in Jobs : Status(i)' = "DONE" => Status(i) = "DONE"
      BY <1>4 DEF Status
    <3>4. QED BY <1>1, <1>3, <3>1, <3>2, <3>3, FreshStays
  <2>2. QED BY <2>1 DEF AttendanceIsFresh, Dates
<1>10. QED BY <1>5, <1>7, <1>8, <1>9 DEF VisionInv

\* A request sets a job's status: retried, not pushed, or cancelled.
LEMMA RequestKeeps ==
  ASSUME VisionInv, NEW j \in Jobs, RetryJob(j) \/ PushJobFails(j) \/ CancelJobCommit(j)
  PROVE  VisionInv'
<1>1. VisionTyped /\ JobsExist /\ AttemptsAreAlone /\ AttendanceIsFresh BY DEF VisionInv
<1>2. Status(j) # "absent"
  BY <1>1 DEF RetryJob, PushJobFails, CancelJobCommit, JobsExist
<1>3. PICK s \in {"PENDING", "FAILED", "CANCELED"} :
        /\ SetStatus(j, s)
        /\ UNCHANGED <<jobs, worker, output, derived, attendance, attempts, crowded>>
        /\ unqueued' \subseteq unqueued \cup {j} /\ cancelling' \subseteq cancelling
        /\ \/ s # "CANCELED" /\ Disturbs(j)
           \/ s = "CANCELED" /\ disturbed' = disturbed
  BY DEF RetryJob, PushJobFails, CancelJobCommit, results, history
<1>4. s \in Statuses \ {"absent"} BY DEF Statuses
<1>5. /\ job' \in [Jobs -> [status : Statuses, video : Videos \cup {Nothing}]]
      /\ \A i \in Jobs : (Status(i) # "absent")' => job'[i].video \in Videos
      /\ Status(j)' = s /\ \A i \in Jobs : i # j => Status(i)' = Status(i)
      /\ \A i \in Jobs : job'[i].video = job[i].video
  BY <1>1, <1>2, <1>3, <1>4, StatusWritten
<1>6. /\ disturbed \subseteq disturbed' /\ disturbed' \subseteq Jobs
      /\ s # "CANCELED" /\ Working(j) => j \in disturbed'
  BY <1>1, <1>3 DEF Disturbs, VisionTyped
<1>7. VisionTyped' BY <1>1, <1>3, <1>5, <1>6 DEF VisionTyped, WorkerStates, Stands
<1>8. JobsExist'
  <2>1. \A i \in Jobs : Status(i) # "absent" => Status(i)' # "absent" BY <1>3, <1>5
  <2>2. \A i \in unqueued \cup cancelling : i \in Jobs BY <1>1 DEF VisionTyped
  <2>3. \A i \in DOMAIN jobs : jobs[i] \in Jobs BY <1>1 DEF VisionTyped
  <2>4. \A w \in VisionWorkers : worker[w] # Ready => JobOf(w) \in Jobs
    BY <1>1, WorkerHasJob
  <2>5. \A w \in VisionWorkers : JobOf(w)' = JobOf(w) BY <1>3 DEF JobOf
  <2>6. Status(j)' # "absent" BY <1>3, <1>5
  <2>7. QED BY <1>1, <1>3, <2>1, <2>2, <2>3, <2>4, <2>5, <2>6 DEF JobsExist
<1>9. ASSUME NEW i \in Jobs, i \notin disturbed' PROVE AloneOf(i)'
  <2>1. AloneOf(i) BY <1>1, <1>6, <1>9 DEF AttemptsAreAlone
  <2>2. attempts <= attempts' BY <1>1, <1>3 DEF VisionTyped
  <2>3. CASE i # j \/ s = "CANCELED"
    BY <1>1, <1>3, <1>5, <1>7, <2>1, <2>2, <2>3, AloneStays
  <2>4. CASE i = j /\ s # "CANCELED"
    <3>1. \A w \in VisionWorkers : ~WorksOn(w, i)'
      BY <1>3, <1>6, <1>9, <2>4 DEF Working, WorksOn, JobOf
    <3>2. Status(i)' # "DONE" BY <1>3, <1>5, <2>4
    <3>3. QED BY <3>1, <3>2 DEF AloneOf
  <2>5. QED BY <2>3, <2>4
<1>10. ASSUME NEW d \in Dates, d \notin crowded' PROVE FreshOf(d)'
  <2>1. FreshOf(d) BY <1>1, <1>3, <1>10 DEF AttendanceIsFresh
  <2>2. \A i \in Jobs : Status(i)' = "DONE" => Status(i) = "DONE" BY <1>3, <1>5
  <2>3. QED BY <1>1, <1>3, <1>5, <1>6, <2>1, <2>2, FreshStays
<1>11. QED BY <1>7, <1>8, <1>9, <1>10 DEF VisionInv, AttemptsAreAlone, AttendanceIsFresh, Dates

\* A worker stops and leaves everything as it is.
LEMMA ReleaseKeeps ==
  ASSUME VisionInv, NEW w \in VisionWorkers, worker[w] # Ready, Release(w),
         UNCHANGED <<job, unqueued, jobs, cancelling, results, history>>
  PROVE  VisionInv'
<1>1. VisionTyped /\ JobsExist /\ AttemptsAreAlone /\ AttendanceIsFresh BY DEF VisionInv
<1>2. /\ worker' \in [VisionWorkers -> WorkerStates \cup {Ready}] /\ worker'[w] = Ready
      /\ \A v \in VisionWorkers : v # w => worker'[v] = worker[v]
      /\ UNCHANGED <<job, unqueued, jobs, cancelling, output, derived, attendance, attempts, disturbed,
                     crowded>>
  BY <1>1, WorkerReleased DEF results, history
<1>3. VisionTyped'
  <2>1. \A v \in VisionWorkers : Stands(v, "begin")' => worker'[v].part = 1
    <3>1. ~Stands(w, "begin")' BY <1>2 DEF Stands, Ready
    <3>2. QED BY <1>1, <1>2, <3>1 DEF VisionTyped, Stands
  <2>2. QED BY <1>1, <1>2, <2>1 DEF VisionTyped, Status, WorkerStates
<1>4. JobsExist' BY <1>1, <1>2 DEF JobsExist, Status, JobOf
<1>5. ASSUME NEW i \in Jobs, i \notin disturbed' PROVE AloneOf(i)'
  <2>1. AloneOf(i) BY <1>1, <1>2, <1>5 DEF AttemptsAreAlone
  <2>2. attempts <= attempts' BY <1>1, <1>2 DEF VisionTyped
  <2>3. \A v \in VisionWorkers : WorksOn(v, i)' => worker'[v] = worker[v]
    BY <1>2 DEF WorksOn
  <2>4. QED BY <1>1, <1>2, <1>3, <2>1, <2>2, <2>3, AloneStays DEF Status
<1>6. ASSUME NEW d \in Dates, d \notin crowded' PROVE FreshOf(d)'
  <2>1. FreshOf(d) BY <1>1, <1>2, <1>6 DEF AttendanceIsFresh
  <2>2. \A v \in VisionWorkers : Postprocesses(v, d)' => worker'[v] = worker[v]
    BY <1>2 DEF Postprocesses, Ready
  <2>3. QED BY <1>1, <1>2, <2>1, <2>2, FreshStays DEF Status
<1>7. QED BY <1>3, <1>4, <1>5, <1>6 DEF VisionInv, AttemptsAreAlone, AttendanceIsFresh, Dates

\* A worker takes the next job of the queue.
LEMMA TakeKeeps ==
  ASSUME VisionInv, NEW w \in VisionWorkers, TakeVideo(w)
  PROVE  VisionInv'
<1>1. VisionTyped /\ JobsExist /\ AttemptsAreAlone /\ AttendanceIsFresh BY DEF VisionInv
<1>2. PICK j : j = Head(jobs) OBVIOUS
<1>3. PICK x : x = [at |-> "begin", job |-> j, attempt |-> attempts + 1, part |-> 1, related |-> {}]
  OBVIOUS
<1>4. /\ worker[w] = Ready /\ jobs # <<>> /\ attempts' = attempts + 1 /\ jobs' = Tail(jobs)
      /\ worker' = [worker EXCEPT ![w] = x]
      /\ UNCHANGED <<job, unqueued, cancelling, output, derived, attendance, disturbed, crowded>>
  BY <1>2, <1>3 DEF TakeVideo, results
<1>5. /\ j \in Jobs /\ Status(j) # "absent" /\ jobs' \in Seq(Jobs)
      /\ \A i \in DOMAIN jobs' : Status(jobs'[i]) # "absent"
  <2>1. jobs \in Seq(Jobs) /\ Len(jobs) \in Nat /\ Len(jobs) > 0 /\ DOMAIN jobs = 1..Len(jobs)
    BY <1>1, <1>4 DEF VisionTyped
  <2>2. j = jobs[1] /\ 1 \in DOMAIN jobs BY <1>2, <2>1
  <2>3. /\ jobs' \in Seq(Jobs) /\ DOMAIN jobs' = 1..(Len(jobs) - 1)
        /\ \A i \in 1..(Len(jobs) - 1) : jobs'[i] = jobs[i + 1]
    BY <1>4, <2>1
  <2>4. \A i \in 1..(Len(jobs) - 1) : i + 1 \in DOMAIN jobs BY <2>1
  <2>5. QED BY <1>1, <2>1, <2>2, <2>3, <2>4 DEF JobsExist
<1>6. attempts \in Nat /\ attempts + 1 \in Nat /\ 1..attempts \subseteq 1..(attempts + 1) /\ 1 \in 1..Parts
      /\ attempts + 1 \in 1..(attempts + 1) /\ attempts <= attempts + 1
  BY <1>1, VisionAssumption DEF VisionTyped
<1>7. /\ x \in WorkerStates' /\ x # Ready /\ x.at = "begin" /\ x.job = j /\ x.part = 1
      /\ WorkerStates \subseteq WorkerStates'
  BY <1>3, <1>4, <1>5, <1>6 DEF WorkerStates, Ready
<1>8. /\ worker' \in [VisionWorkers -> WorkerStates' \cup {Ready}] /\ worker'[w] = x
      /\ \A v \in VisionWorkers : v # w => worker'[v] = worker[v]
  BY <1>1, <1>4, <1>7 DEF VisionTyped
<1>9. VisionTyped'
  <2>1. output \in [Jobs -> SUBSET ((1..attempts') \X (1..Parts))]
    BY <1>1, <1>4, <1>6 DEF VisionTyped
  <2>2. QED BY <1>1, <1>4, <1>5, <1>6, <1>7, <1>8, <2>1 DEF VisionTyped, Status, Stands
<1>10. JobsExist' BY <1>1, <1>4, <1>5, <1>7, <1>8 DEF JobsExist, Status, JobOf
<1>11. ASSUME NEW i \in Jobs, i \notin disturbed' PROVE AloneOf(i)'
  <2>1. AloneOf(i) BY <1>1, <1>4, <1>11 DEF AttemptsAreAlone
  <2>2. \A v \in VisionWorkers : WorksOn(v, i)' => worker'[v] = worker[v]
    BY <1>7, <1>8 DEF WorksOn, Stands
  <2>3. QED BY <1>1, <1>4, <1>6, <1>9, <2>1, <2>2, AloneStays DEF Status
<1>12. ASSUME NEW d \in Dates, d \notin crowded' PROVE FreshOf(d)'
  <2>1. FreshOf(d) BY <1>1, <1>4, <1>12 DEF AttendanceIsFresh
  <2>2. \A v \in VisionWorkers : Postprocesses(v, d)' => worker'[v] = worker[v]
    BY <1>7, <1>8 DEF Postprocesses
  <2>3. QED BY <1>1, <1>4, <2>1, <2>2, FreshStays DEF Status
<1>13. QED BY <1>9, <1>10, <1>11, <1>12 DEF VisionInv, AttemptsAreAlone, AttendanceIsFresh, Dates

\* The worker starts the job over, from nothing.
LEMMA BeginKeeps ==
  ASSUME VisionInv, NEW w \in VisionWorkers, BeginJob(w)
  PROVE  VisionInv'
<1>1. VisionTyped /\ JobsExist /\ AttemptsAreAlone /\ AttendanceIsFresh BY DEF VisionInv
<1> PICK j : j = JobOf(w) OBVIOUS
<1>2. worker[w] # Ready /\ worker[w].at = "begin" BY DEF BeginJob, Stands, Ready
<1>3. /\ worker[w] \in WorkerStates /\ j \in Jobs /\ Status(j) # "absent" /\ worker[w].part = 1
      /\ worker[w].job = j
  BY <1>1, <1>2, WorkerHasJob DEF VisionTyped, Stands, JobOf
<1>4. CASE Status(j) \in {"RUNNING", "DONE", "CANCELED"}
  <2>1. /\ Release(w)
        /\ UNCHANGED <<job, unqueued, jobs, cancelling, results, history>>
    BY <1>4 DEF BeginJob, results, history
  <2>2. QED BY <1>2, <2>1, ReleaseKeeps
<1>5. CASE Status(j) \notin {"RUNNING", "DONE", "CANCELED"}
  <2>1. /\ SetStatus(j, "RUNNING") /\ Clear(j) /\ Advance(w, "track")
        /\ disturbed' = IF Overlaps(w) THEN disturbed \cup {j} ELSE disturbed
        /\ UNCHANGED <<unqueued, jobs, cancelling, attendance, attempts, crowded>>
    BY <1>5 DEF BeginJob
  <2>2. /\ job' \in [Jobs -> [status : Statuses, video : Videos \cup {Nothing}]]
        /\ \A i \in Jobs : (Status(i) # "absent")' => job'[i].video \in Videos
        /\ Status(j)' = "RUNNING" /\ \A i \in Jobs : i # j => Status(i)' = Status(i)
        /\ \A i \in Jobs : job'[i].video = job[i].video
    BY <1>1, <1>3, <2>1, StatusWritten DEF Statuses
  <2>3. /\ worker' \in [VisionWorkers -> WorkerStates \cup {Ready}]
        /\ worker'[w] # Ready /\ worker'[w].at = "track" /\ worker'[w].job = j
        /\ worker'[w].attempt = worker[w].attempt /\ worker'[w].part = 1
        /\ \A v \in VisionWorkers : v # w => worker'[v] = worker[v]
    BY <1>1, <1>2, <1>3, <2>1, WorkerMoves
  <2>4. /\ output' = [output EXCEPT ![j] = {}] /\ output'[j] = {} /\ DOMAIN derived' = Jobs
        /\ \A i \in Jobs : i # j => output'[i] = output[i] /\ derived'[i] = derived[i]
    BY <1>1, <1>3, <2>1 DEF Clear, VisionTyped
  <2>5. /\ disturbed \subseteq disturbed' /\ disturbed' \subseteq Jobs
        /\ \A v \in VisionWorkers : v # w /\ worker[v] # Ready /\ JobOf(v) = j => j \in disturbed'
    BY <1>1, <1>3, <2>1 DEF Overlaps, VisionTyped
  <2>6. VisionTyped'
    <3>1. output' \in [Jobs -> SUBSET ((1..attempts) \X (1..Parts))]
      BY <1>1, <1>3, <2>4 DEF VisionTyped
    <3>2. \A v \in VisionWorkers : Stands(v, "begin")' => worker'[v].part = 1
      BY <1>1, <2>3 DEF VisionTyped, Stands
    <3>3. QED BY <1>1, <2>1, <2>2, <2>3, <2>4, <2>5, <3>1, <3>2 DEF VisionTyped, WorkerStates
  <2>7. JobsExist'
    <3>1. \A i \in Jobs : Status(i) # "absent" => Status(i)' # "absent" BY <2>2
    <3>2. \A i \in unqueued \cup cancelling : i \in Jobs BY <1>1 DEF VisionTyped
    <3>3. \A i \in DOMAIN jobs : jobs[i] \in Jobs BY <1>1 DEF VisionTyped
    <3>4. \A v \in VisionWorkers : worker'[v] # Ready => JobOf(v)' = JobOf(v) /\ JobOf(v) \in Jobs /\ worker[v] # Ready
      BY <1>1, <1>2, <1>3, <2>3, WorkerHasJob DEF JobOf
    <3>5. QED BY <1>1, <2>1, <3>1, <3>2, <3>3, <3>4 DEF JobsExist
  <2>8. ASSUME NEW i \in Jobs, i \notin disturbed' PROVE AloneOf(i)'
    <3>1. CASE i # j
      <4>1. AloneOf(i) BY <1>1, <2>5, <2>8 DEF AttemptsAreAlone
      <4>2. \A v \in VisionWorkers : WorksOn(v, i)' => worker'[v] = worker[v]
        BY <2>3, <3>1 DEF WorksOn, JobOf
      <4>3. attempts <= attempts' BY <1>1, <2>1 DEF VisionTyped
      <4>4. QED BY <1>1, <2>2, <2>4, <2>6, <3>1, <4>1, <4>2, <4>3, AloneStays
    <3>2. CASE i = j
      <4>1. \A v \in VisionWorkers : WorksOn(v, i)' => v = w
        BY <2>3, <2>5, <2>8, <3>2 DEF WorksOn, JobOf
      <4>2. AttemptAt(w, i)'
        <5>1. Batches(worker'[w].attempt, worker'[w].part - 1) = {} BY <2>3 DEF Batches
        <5>2. QED BY <2>2, <2>3, <2>4, <3>2, <5>1 DEF AttemptAt, Stands
      <4>3. QED BY <2>2, <3>2, <4>1, <4>2 DEF AloneOf
    <3>3. QED BY <3>1, <3>2
  <2>9. ASSUME NEW d \in Dates, d \notin crowded' PROVE FreshOf(d)'
    <3>1. FreshOf(d) BY <1>1, <2>1, <2>9 DEF AttendanceIsFresh
    <3>2. \A v \in VisionWorkers : Postprocesses(v, d)' => worker'[v] = worker[v]
      BY <2>3 DEF Postprocesses
    <3>3. ASSUME NEW i \in Jobs, i \notin disturbed',
                 Status(i)' = "DONE" \/ \E v \in VisionWorkers : JobOf(v) = i /\ Stands(v, "finish")
          PROVE  output'[i] = output[i]
      <4>1. \A v \in VisionWorkers : Stands(v, "finish") => v # w /\ worker[v] # Ready
        BY <1>2 DEF Stands, Ready
      <4>2. i # j BY <2>2, <2>5, <3>3, <4>1
      <4>3. QED BY <2>4, <4>2
    <3>4. \A i \in Jobs : Status(i)' = "DONE" => Status(i) = "DONE" BY <2>2
    <3>5. QED BY <1>1, <2>1, <2>2, <2>5, <3>1, <3>2, <3>3, <3>4, FreshStays
  <2>10. QED BY <2>6, <2>7, <2>8, <2>9 DEF VisionInv, AttemptsAreAlone, AttendanceIsFresh, Dates
<1>6. QED BY <1>4, <1>5

\* The pipeline commits the next batch.
LEMMA TrackKeeps ==
  ASSUME VisionInv, NEW w \in VisionWorkers, TrackFootage(w)
  PROVE  VisionInv'
<1>1. VisionTyped /\ JobsExist /\ AttemptsAreAlone /\ AttendanceIsFresh BY DEF VisionInv
<1> PICK j : j = JobOf(w) OBVIOUS
<1>2. worker[w] # Ready /\ worker[w].at = "track" BY DEF TrackFootage, Stands, Ready
<1>3. /\ worker[w] \in WorkerStates /\ j \in Jobs /\ worker[w].job = j
      /\ worker[w].attempt \in 1..attempts /\ worker[w].part \in 1..Parts
  BY <1>1, <1>2, WorkerHasJob DEF JobOf
<1>4. PICK a \in 1..attempts, n \in 1..Parts : a = worker[w].attempt /\ n = worker[w].part BY <1>3
<1>5. PICK x : x = IF n = Parts THEN [worker[w] EXCEPT !.at = "tracked"]
                   ELSE [worker[w] EXCEPT !.part = n + 1]
  OBVIOUS
<1>6. /\ worker' = [worker EXCEPT ![w] = x] /\ output' = [output EXCEPT ![j] = @ \cup {<<a, n>>}]
      /\ UNCHANGED <<job, unqueued, jobs, cancelling, derived, attendance, attempts, disturbed, crowded>>
  <2>1. CASE n = Parts BY <1>4, <1>5, <2>1 DEF TrackFootage, history, Advance
  <2>2. CASE n # Parts BY <1>4, <1>5, <2>2 DEF TrackFootage, history
  <2>3. QED BY <2>1, <2>2
<1>7. /\ x \in WorkerStates /\ x # Ready /\ x.job = j /\ x.attempt = a
      /\ \/ n = Parts /\ x.at = "tracked"
         \/ n + 1 \in 1..Parts /\ x.at = "track" /\ x.part = n + 1
  <2>1. CASE n = Parts BY <1>2, <1>3, <1>4, <1>5, <2>1 DEF WorkerStates, Ready
  <2>2. CASE n # Parts
    <3>1. n + 1 \in 1..Parts BY <2>2, VisionAssumption
    <3>2. QED BY <1>2, <1>3, <1>4, <1>5, <2>2, <3>1 DEF WorkerStates, Ready
  <2>3. QED BY <2>1, <2>2
<1>8. /\ worker' \in [VisionWorkers -> WorkerStates \cup {Ready}] /\ worker'[w] = x
      /\ \A v \in VisionWorkers : v # w => worker'[v] = worker[v]
  BY <1>1, <1>6, <1>7 DEF VisionTyped
<1>9. /\ output' \in [Jobs -> SUBSET ((1..attempts) \X (1..Parts))]
      /\ output'[j] = output[j] \cup {<<a, n>>}
      /\ \A i \in Jobs : i # j => output'[i] = output[i]
  <2>1. <<a, n>> \in (1..attempts) \X (1..Parts) OBVIOUS
  <2>2. PICK o : o = output[j] \cup {<<a, n>>} OBVIOUS
  <2>3. o \in SUBSET ((1..attempts) \X (1..Parts)) BY <1>1, <1>3, <2>1, <2>2 DEF VisionTyped
  <2>4. output' = [output EXCEPT ![j] = o] BY <1>6, <2>2
  <2>5. QED BY <1>1, <1>3, <2>2, <2>3, <2>4 DEF VisionTyped
<1>10. VisionTyped'
  <2>1. \A v \in VisionWorkers : Stands(v, "begin")' => worker'[v].part = 1
    BY <1>1, <1>7, <1>8 DEF VisionTyped, Stands
  <2>2. QED BY <1>1, <1>6, <1>8, <1>9, <2>1 DEF VisionTyped, WorkerStates, Status
<1>11. JobsExist' BY <1>1, <1>2, <1>3, <1>6, <1>7, <1>8 DEF JobsExist, Status, JobOf
<1>12. WorksOn(w, j) BY <1>2 DEF WorksOn, Stands
<1>13. ASSUME NEW i \in Jobs, i \notin disturbed' PROVE AloneOf(i)'
  <2>1. AloneOf(i) BY <1>1, <1>6, <1>13 DEF AttemptsAreAlone
  <2>2. CASE i # j
    <3>1. \A v \in VisionWorkers : WorksOn(v, i)' => worker'[v] = worker[v]
      BY <1>7, <1>8, <2>2 DEF WorksOn, JobOf
    <3>2. attempts <= attempts' BY <1>1, <1>6 DEF VisionTyped
    <3>3. QED BY <1>1, <1>6, <1>9, <1>10, <2>1, <2>2, <3>1, <3>2, AloneStays DEF Status
  <2>3. CASE i = j
    <3>1. \A v \in VisionWorkers : WorksOn(v, i)' => v = w
      BY <1>8, <1>12, <2>1, <2>3 DEF AloneOf, WorksOn, JobOf, Stands
    <3>2. AttemptAt(w, i) BY <1>12, <2>1, <2>3 DEF AloneOf
    <3>3. output[j] = Batches(a, n - 1) /\ Status(j) \in {"RUNNING", "CANCELED"}
      BY <1>2, <1>4, <2>3, <3>2 DEF AttemptAt, Stands
    <3>4. output'[j] = Batches(a, n)
      <4>1. 1..n = 1..(n - 1) \cup {n} BY <1>4
      <4>2. Batches(a, n) = Batches(a, n - 1) \cup {<<a, n>>} BY <4>1 DEF Batches
      <4>3. QED BY <1>9, <3>3, <4>2
    <3>5. Status(j)' = Status(j) BY <1>6 DEF Status
    <3>6. AttemptAt(w, i)'
      <4>1. CASE n = Parts /\ x.at = "tracked"
        <5>1. Whole(j)' BY <1>6, <3>4, <4>1 DEF Whole
        <5>2. QED BY <1>8, <2>3, <3>3, <3>5, <4>1, <5>1 DEF AttemptAt, Stands
      <4>2. CASE n + 1 \in 1..Parts /\ x.at = "track" /\ x.part = n + 1
        <5>1. (n + 1) - 1 = n OBVIOUS
        <5>2. QED BY <1>7, <1>8, <2>3, <3>3, <3>4, <3>5, <4>2, <5>1 DEF AttemptAt, Stands
      <4>3. QED BY <1>7, <4>1, <4>2
    <3>7. QED BY <2>3, <3>1, <3>3, <3>5, <3>6 DEF AloneOf
  <2>4. QED BY <2>2, <2>3
<1>14. ASSUME NEW d \in Dates, d \notin crowded' PROVE FreshOf(d)'
  <2>1. FreshOf(d) BY <1>1, <1>6, <1>14 DEF AttendanceIsFresh
  <2>2. \A v \in VisionWorkers : Postprocesses(v, d)' => worker'[v] = worker[v]
    BY <1>7, <1>8 DEF Postprocesses
  <2>3. ASSUME NEW i \in Jobs, i \notin disturbed',
               Status(i)' = "DONE" \/ \E v \in VisionWorkers : JobOf(v) = i /\ Stands(v, "finish")
        PROVE  output'[i] = output[i]
    <3>1. CASE i # j BY <1>9, <3>1
    <3>2. CASE i = j
      <4>1. AloneOf(j) BY <1>1, <1>3, <1>6, <2>3, <3>2 DEF AttemptsAreAlone
      <4>2. \A v \in VisionWorkers : Stands(v, "finish") /\ JobOf(v) = j => WorksOn(v, j) /\ v # w
        BY <1>2 DEF WorksOn, Stands, Ready
      <4>3. AttemptAt(w, j) BY <1>12, <4>1 DEF AloneOf
      <4>4. Status(j)' # "DONE" BY <1>2, <1>6, <4>3 DEF AttemptAt, Status
      <4>5. QED BY <1>12, <2>3, <3>2, <4>1, <4>2, <4>4 DEF AloneOf
    <3>3. QED BY <3>1, <3>2
  <2>4. QED BY <1>1, <1>6, <2>1, <2>2, <2>3, FreshStays DEF Status
<1>15. QED BY <1>10, <1>11, <1>13, <1>14 DEF VisionInv, AttemptsAreAlone, AttendanceIsFresh, Dates

\* The pipeline stops, or is through: nothing but the worker moves.
LEMMA AdvanceKeeps ==
  ASSUME VisionInv, NEW w \in VisionWorkers, TrackStops(w) \/ Refresh(w)
  PROVE  VisionInv'
<1>1. VisionTyped /\ JobsExist /\ AttemptsAreAlone /\ AttendanceIsFresh BY DEF VisionInv
<1> PICK j : j = JobOf(w) OBVIOUS
<1>2. /\ worker[w] # Ready /\ worker[w].at \in {"track", "tracked"}
      /\ UNCHANGED <<job, unqueued, jobs, cancelling, output, derived, attendance, attempts, disturbed,
                     crowded>>
  BY DEF TrackStops, Refresh, Stands, Ready, results, history
<1>3. worker[w] \in WorkerStates /\ j \in Jobs /\ worker[w].job = j
  BY <1>1, <1>2, WorkerHasJob DEF JobOf
<1>4. CASE Refresh(w) /\ Status(j) = "CANCELED"
  <2>1. Release(w) /\ UNCHANGED <<job, unqueued, jobs, cancelling, results, history>>
    BY <1>4 DEF Refresh
  <2>2. QED BY <1>2, <2>1, ReleaseKeeps
<1>5. ASSUME NEW pc \in {"tracked", "postprocess"}, Advance(w, pc),
             \/ pc = "tracked" /\ worker[w].at = "track" /\ Status(j) = "CANCELED"
             \/ pc = "postprocess" /\ worker[w].at = "tracked" /\ Status(j) # "CANCELED"
      PROVE  VisionInv'
  <2>1. /\ worker' \in [VisionWorkers -> WorkerStates \cup {Ready}]
        /\ worker'[w] # Ready /\ worker'[w].at = pc /\ worker'[w].job = j
        /\ \A v \in VisionWorkers : v # w => worker'[v] = worker[v]
    BY <1>1, <1>2, <1>3, <1>5, WorkerMoves
  <2>2. VisionTyped'
    <3>1. \A v \in VisionWorkers : Stands(v, "begin")' => worker'[v].part = 1
      BY <1>1, <2>1 DEF VisionTyped, Stands
    <3>2. QED BY <1>1, <1>2, <2>1, <3>1 DEF VisionTyped, WorkerStates, Status
  <2>3. JobsExist' BY <1>1, <1>2, <1>3, <2>1 DEF JobsExist, Status, JobOf
  <2>4. WorksOn(w, j) BY <1>2 DEF WorksOn, Stands
  <2>5. ASSUME NEW i \in Jobs, i \notin disturbed' PROVE AloneOf(i)'
    <3>1. AloneOf(i) BY <1>1, <1>2, <2>5 DEF AttemptsAreAlone
    <3>2. CASE i # j
      <4>1. \A v \in VisionWorkers : WorksOn(v, i)' => worker'[v] = worker[v]
        BY <2>1, <3>2 DEF WorksOn, JobOf
      <4>2. attempts <= attempts' BY <1>1, <1>2 DEF VisionTyped
      <4>3. QED BY <1>1, <1>2, <2>2, <3>1, <4>1, <4>2, AloneStays DEF Status
    <3>3. CASE i = j
      <4>1. \A v \in VisionWorkers : WorksOn(v, i)' => v = w
        BY <2>1, <2>4, <3>1, <3>3 DEF AloneOf, WorksOn, JobOf, Stands
      <4>2. AttemptAt(w, i) BY <2>4, <3>1, <3>3 DEF AloneOf
      <4>3. Status(j)' = Status(j) /\ Whole(j)' = Whole(j) BY <1>2 DEF Status, Whole
      <4>4. AttemptAt(w, i)' BY <1>5, <2>1, <3>3, <4>2, <4>3 DEF AttemptAt, Stands
      <4>5. Status(j) # "DONE" BY <1>2, <3>3, <4>2 DEF AttemptAt
      <4>6. QED BY <3>3, <4>1, <4>3, <4>4, <4>5 DEF AloneOf
    <3>4. QED BY <3>2, <3>3
  <2>6. ASSUME NEW d \in Dates, d \notin crowded' PROVE FreshOf(d)'
    <3>1. FreshOf(d) BY <1>1, <1>2, <2>6 DEF AttendanceIsFresh
    <3>2. \A v \in VisionWorkers : Postprocesses(v, d)' => worker'[v] = worker[v]
      BY <1>5, <2>1 DEF Postprocesses
    <3>3. QED BY <1>1, <1>2, <3>1, <3>2, FreshStays DEF Status
  <2>7. QED BY <2>2, <2>3, <2>5, <2>6 DEF VisionInv, AttemptsAreAlone, AttendanceIsFresh, Dates
<1>6. CASE TrackStops(w)
  <2>1. Advance(w, "tracked") /\ worker[w].at = "track" /\ Status(j) = "CANCELED"
    BY <1>6 DEF TrackStops, Stands
  <2>2. QED BY <1>5, <2>1
<1>7. CASE Refresh(w) /\ Status(j) # "CANCELED"
  <2>1. Advance(w, "postprocess") /\ worker[w].at = "tracked" BY <1>7 DEF Refresh, Stands
  <2>2. QED BY <1>5, <1>7, <2>1
<1>8. QED BY <1>4, <1>6, <1>7

\* The worker reads which jobs of the day are DONE.
LEMMA PostprocessKeeps ==
  ASSUME VisionInv, NEW w \in VisionWorkers, Postprocess(w)
  PROVE  VisionInv'
<1>1. VisionTyped /\ JobsExist /\ AttemptsAreAlone /\ AttendanceIsFresh BY DEF VisionInv
<1> PICK j, e : j = JobOf(w) /\ e = DayOf(j) OBVIOUS
<1>2. worker[w] # Ready /\ worker[w].at = "postprocess" BY DEF Postprocess, Stands, Ready
<1>3. /\ worker[w] \in WorkerStates /\ j \in Jobs /\ worker[w].job = j /\ Status(j) # "absent"
      /\ e \in Dates
  BY <1>1, <1>2, WorkerHasJob DEF JobOf
<1>4. PICK known : known = Related(j) OBVIOUS
<1>5. known \in SUBSET Jobs /\ known = Done(e) \cup {j} BY <1>3, <1>4 DEF Related, Done
<1>6. PICK x : x = [worker[w] EXCEPT !.at = "rollup", !.related = known] OBVIOUS
<1>7. /\ x \in WorkerStates /\ x # Ready /\ x.at = "rollup" /\ x.job = j /\ x.related = known
  BY <1>3, <1>5, <1>6 DEF WorkerStates, Ready
<1>8. /\ SetStatus(j, "POSTPROCESSING") /\ worker' = [worker EXCEPT ![w] = x]
      /\ crowded' = IF Recomputing(e) THEN crowded \cup {e} ELSE crowded
      /\ UNCHANGED <<unqueued, jobs, cancelling, output, derived, attendance, attempts, disturbed>>
  BY <1>4, <1>6 DEF Postprocess, Crowds, results
<1>9. /\ worker' \in [VisionWorkers -> WorkerStates \cup {Ready}] /\ worker'[w] = x
      /\ \A v \in VisionWorkers : v # w => worker'[v] = worker[v]
  BY <1>1, <1>7, <1>8 DEF VisionTyped
<1>10. /\ job' \in [Jobs -> [status : Statuses, video : Videos \cup {Nothing}]]
       /\ \A i \in Jobs : (Status(i) # "absent")' => job'[i].video \in Videos
       /\ Status(j)' = "POSTPROCESSING" /\ \A i \in Jobs : i # j => Status(i)' = Status(i)
       /\ \A i \in Jobs : job'[i].video = job[i].video
  BY <1>1, <1>3, <1>8, StatusWritten DEF Statuses
<1>11. VisionTyped'
  <2>1. \A v \in VisionWorkers : Stands(v, "begin")' => worker'[v].part = 1
    BY <1>1, <1>7, <1>9 DEF VisionTyped, Stands
  <2>2. QED BY <1>1, <1>8, <1>9, <1>10, <2>1 DEF VisionTyped, WorkerStates
<1>12. JobsExist'
  <2>1. \A i \in Jobs : Status(i) # "absent" => Status(i)' # "absent" BY <1>10
  <2>2. \A i \in unqueued \cup cancelling : i \in Jobs BY <1>1 DEF VisionTyped
  <2>3. \A i \in DOMAIN jobs : jobs[i] \in Jobs BY <1>1 DEF VisionTyped
  <2>4. \A v \in VisionWorkers : worker'[v] # Ready => JobOf(v)' = JobOf(v) /\ JobOf(v) \in Jobs /\ worker[v] # Ready
    BY <1>1, <1>2, <1>3, <1>7, <1>9, WorkerHasJob DEF JobOf
  <2>5. QED BY <1>1, <1>8, <2>1, <2>2, <2>3, <2>4 DEF JobsExist
<1>13. WorksOn(w, j) BY <1>2 DEF WorksOn, Stands
<1>14. ASSUME NEW i \in Jobs, i \notin disturbed' PROVE AloneOf(i)'
  <2>1. AloneOf(i) BY <1>1, <1>8, <1>14 DEF AttemptsAreAlone
  <2>2. CASE i # j
    <3>1. \A v \in VisionWorkers : WorksOn(v, i)' => worker'[v] = worker[v]
      BY <1>7, <1>9, <2>2 DEF WorksOn, JobOf
    <3>2. attempts <= attempts' BY <1>1, <1>8 DEF VisionTyped
    <3>3. QED BY <1>1, <1>8, <1>10, <1>11, <2>1, <2>2, <3>1, <3>2, AloneStays
  <2>3. CASE i = j
    <3>1. \A v \in VisionWorkers : WorksOn(v, i)' => v = w
      BY <1>9, <1>13, <2>1, <2>3 DEF AloneOf, WorksOn, JobOf, Stands
    <3>2. AttemptAt(w, i) BY <1>13, <2>1, <2>3 DEF AloneOf
    <3>3. Whole(j)' BY <1>2, <1>8, <2>3, <3>2 DEF AttemptAt, Whole
    <3>4. AttemptAt(w, i)' BY <1>7, <1>9, <1>10, <2>3, <3>3 DEF AttemptAt, Stands
    <3>5. QED BY <1>10, <2>3, <3>1, <3>4 DEF AloneOf
  <2>4. QED BY <2>2, <2>3
<1>15. ASSUME NEW d \in Dates, d \notin crowded' PROVE FreshOf(d)'
  <2>1. FreshOf(d) BY <1>1, <1>8, <1>15 DEF AttendanceIsFresh
  <2>2. \A i \in Jobs : Status(i)' = "DONE" => Status(i) = "DONE" BY <1>10
  <2>3. CASE d # e
    <3>1. \A v \in VisionWorkers : Postprocesses(v, d)' => worker'[v] = worker[v]
      BY <1>3, <1>7, <1>9, <1>10, <2>3 DEF Postprocesses, DayOf, JobOf
    <3>2. QED BY <1>1, <1>8, <1>10, <2>1, <2>2, <3>1, FreshStays
  <2>4. CASE d = e
    <3>1. ~Recomputing(d) BY <1>8, <1>15, <2>4
    <3>2. \A v \in VisionWorkers : Postprocesses(v, d)' => v = w
      <4>1. ASSUME NEW v \in VisionWorkers, v # w, Postprocesses(v, d)' PROVE FALSE
        <5>1. worker'[v] = worker[v] /\ worker[v].at \in {"rollup", "finish"}
          BY <1>9, <4>1 DEF Postprocesses
        <5>2. JobOf(v) \in Jobs BY <1>1, <5>1, WorkerHasJob DEF Ready
        <5>3. Postprocesses(v, d) BY <1>10, <4>1, <5>1, <5>2 DEF Postprocesses, DayOf, JobOf
        <5>4. QED BY <3>1, <5>3 DEF Recomputing, Postprocesses
      <4>2. QED BY <4>1
    <3>3. \A i \in Done(d)' : i \in Done(d) BY <1>10, <2>2 DEF Done, DayOf
    <3>4. \A i \in Done(d)' \ disturbed' : RowsOfJob(i)' \subseteq attendance'[d]
      BY <1>8, <2>1, <3>3 DEF FreshOf, RowsOfJob
    <3>5. (Done(d) \cup {JobOf(w)})' \subseteq worker'[w].related
      <4>1. JobOf(w)' = j /\ worker'[w].related = Done(d) \cup {j} BY <1>5, <1>7, <1>9, <2>4 DEF JobOf
      <4>2. QED BY <3>3, <4>1
    <3>6. ~Stands(w, "finish")' BY <1>7, <1>9 DEF Stands
    <3>7. QED BY <3>2, <3>4, <3>5, <3>6 DEF FreshOf
  <2>5. QED BY <2>3, <2>4
<1>16. QED BY <1>11, <1>12, <1>14, <1>15 DEF VisionInv, AttemptsAreAlone, AttendanceIsFresh, Dates

\* Rows of a related job are among the rows of all.
LEMMA RowsAreCounted ==
  ASSUME NEW js, NEW j \in js PROVE RowsOfJob(j) \subseteq RowsOf(js)
BY DEF RowsOf, RowsOfJob

\* The worker makes metrics and the attendance of the day.
LEMMA RollupKeeps ==
  ASSUME VisionInv, NEW w \in VisionWorkers, RollupStep(w)
  PROVE  VisionInv'
<1>1. VisionTyped /\ JobsExist /\ AttemptsAreAlone /\ AttendanceIsFresh BY DEF VisionInv
<1> PICK j, e, known : j = JobOf(w) /\ e = DayOf(j) /\ known = worker[w].related OBVIOUS
<1>2. worker[w] # Ready /\ worker[w].at = "rollup" BY DEF RollupStep, Stands, Ready
<1>3. /\ worker[w] \in WorkerStates /\ j \in Jobs /\ worker[w].job = j /\ e \in Dates
  BY <1>1, <1>2, WorkerHasJob DEF JobOf
<1>4. /\ Advance(w, "finish") /\ derived' = [derived EXCEPT ![j] = output[j]]
      /\ attendance' = [attendance EXCEPT ![e] = RowsOf(known)]
      /\ UNCHANGED <<job, unqueued, jobs, cancelling, output, attempts, disturbed, crowded>>
  BY DEF RollupStep, Rollup, history
<1>5. /\ worker' \in [VisionWorkers -> WorkerStates \cup {Ready}]
      /\ worker'[w] # Ready /\ worker'[w].at = "finish" /\ worker'[w].job = j
      /\ \A v \in VisionWorkers : v # w => worker'[v] = worker[v]
  BY <1>1, <1>2, <1>3, <1>4, WorkerMoves
<1>6. /\ DOMAIN derived' = Jobs /\ derived'[j] = output[j]
      /\ \A i \in Jobs : i # j => derived'[i] = derived[i]
      /\ DOMAIN attendance' = Dates /\ attendance'[e] = RowsOf(known)
      /\ \A d \in Dates : d # e => attendance'[d] = attendance[d]
  BY <1>1, <1>3, <1>4 DEF VisionTyped
<1>7. VisionTyped'
  <2>1. \A v \in VisionWorkers : Stands(v, "begin")' => worker'[v].part = 1
    BY <1>1, <1>5 DEF VisionTyped, Stands
  <2>2. QED BY <1>1, <1>4, <1>5, <1>6, <2>1 DEF VisionTyped, WorkerStates, Status
<1>8. JobsExist' BY <1>1, <1>2, <1>3, <1>4, <1>5 DEF JobsExist, Status, JobOf
<1>9. WorksOn(w, j) BY <1>2 DEF WorksOn, Stands
<1>10. ASSUME NEW i \in Jobs, i \notin disturbed' PROVE AloneOf(i)'
  <2>1. AloneOf(i) BY <1>1, <1>4, <1>10 DEF AttemptsAreAlone
  <2>2. CASE i # j
    <3>1. \A v \in VisionWorkers : WorksOn(v, i)' => worker'[v] = worker[v]
      BY <1>5, <2>2 DEF WorksOn, JobOf
    <3>2. attempts <= attempts' BY <1>1, <1>4 DEF VisionTyped
    <3>3. QED BY <1>1, <1>4, <1>6, <1>7, <2>1, <2>2, <3>1, <3>2, AloneStays DEF Status
  <2>3. CASE i = j
    <3>1. \A v \in VisionWorkers : WorksOn(v, i)' => v = w
      BY <1>5, <1>9, <2>1, <2>3 DEF AloneOf, WorksOn, JobOf, Stands
    <3>2. AttemptAt(w, i) BY <1>9, <2>1, <2>3 DEF AloneOf
    <3>3. Whole(j)' /\ Status(j)' = Status(j) /\ Status(j) \in {"POSTPROCESSING", "CANCELED"}
      BY <1>2, <1>4, <2>3, <3>2 DEF AttemptAt, Whole, Status
    <3>4. AttemptAt(w, i)' BY <1>4, <1>5, <1>6, <2>3, <3>3 DEF AttemptAt, Stands
    <3>5. QED BY <2>3, <3>1, <3>3, <3>4 DEF AloneOf
  <2>4. QED BY <2>2, <2>3
<1>11. ASSUME NEW d \in Dates, d \notin crowded' PROVE FreshOf(d)'
  <2>1. FreshOf(d) BY <1>1, <1>4, <1>11 DEF AttendanceIsFresh
  <2>2. CASE d # e
    <3>1. \A v \in VisionWorkers : Postprocesses(v, d)' => worker'[v] = worker[v]
      BY <1>4, <1>5, <2>2 DEF Postprocesses, DayOf, JobOf
    <3>2. QED BY <1>1, <1>4, <1>6, <2>1, <2>2, <3>1, FreshStays DEF Status
  <2>3. CASE d = e
    <3>1. Postprocesses(w, d) BY <1>2, <2>3 DEF Postprocesses
    <3>2. \A v \in VisionWorkers : Postprocesses(v, d)' => v = w
      BY <1>4, <1>5, <2>1, <3>1 DEF FreshOf, Postprocesses, DayOf, JobOf
    <3>3. Done(d) \cup {j} \subseteq known BY <1>2, <2>1, <3>1 DEF FreshOf, Stands
    <3>4. \A i \in Done(d) \cup {j} : RowsOfJob(i) \subseteq attendance'[d]
      BY <1>6, <2>3, <3>3, RowsAreCounted
    <3>5. Done(d)' = Done(d) /\ JobOf(w)' = j /\ \A i \in Jobs : RowsOfJob(i)' = RowsOfJob(i)
      BY <1>4, <1>5 DEF Done, DayOf, Status, JobOf, RowsOfJob
    <3>6. \A i \in Done(d) \cup {j} : i \in Jobs BY <1>3 DEF Done
    <3>7. ~Stands(w, "rollup")' BY <1>5 DEF Stands
    <3>8. QED BY <3>2, <3>4, <3>5, <3>6, <3>7 DEF FreshOf
  <2>4. QED BY <2>2, <2>3
<1>12. QED BY <1>7, <1>8, <1>10, <1>11 DEF VisionInv, AttemptsAreAlone, AttendanceIsFresh, Dates

\* The job is DONE, or FAILED, and the worker free.
LEMMA EndKeeps ==
  ASSUME VisionInv, NEW w \in VisionWorkers, FinishJob(w) \/ JobFails(w)
  PROVE  VisionInv'
<1>1. VisionTyped /\ JobsExist /\ AttemptsAreAlone /\ AttendanceIsFresh BY DEF VisionInv
<1> PICK j, e : j = JobOf(w) /\ e = DayOf(j) OBVIOUS
<1>2. /\ worker[w] # Ready /\ worker[w].at # "begin" /\ Release(w)
      /\ UNCHANGED <<unqueued, jobs, cancelling, output, derived, attendance, attempts, disturbed, crowded>>
  BY DEF FinishJob, JobFails, Stands, Ready, results, history
<1>3. /\ worker[w] \in WorkerStates /\ j \in Jobs /\ worker[w].job = j /\ Status(j) # "absent"
      /\ e \in Dates
  BY <1>1, <1>2, WorkerHasJob DEF JobOf
<1>4. CASE UNCHANGED job
  BY <1>2, <1>4, ReleaseKeeps DEF results, history
<1>5. ASSUME NEW s \in {"DONE", "FAILED"}, SetStatus(j, s), s = "DONE" => worker[w].at = "finish"
      PROVE  VisionInv'
  <2>1. /\ worker' \in [VisionWorkers -> WorkerStates \cup {Ready}] /\ worker'[w] = Ready
        /\ \A v \in VisionWorkers : v # w => worker'[v] = worker[v]
    BY <1>1, <1>2, WorkerReleased
  <2>2. /\ job' \in [Jobs -> [status : Statuses, video : Videos \cup {Nothing}]]
        /\ \A i \in Jobs : (Status(i) # "absent")' => job'[i].video \in Videos
        /\ Status(j)' = s /\ \A i \in Jobs : i # j => Status(i)' = Status(i)
        /\ \A i \in Jobs : job'[i].video = job[i].video
    BY <1>1, <1>3, <1>5, StatusWritten DEF Statuses
  <2>3. VisionTyped'
    <3>1. \A v \in VisionWorkers : Stands(v, "begin")' => worker'[v].part = 1
      <4>1. ~Stands(w, "begin")' BY <2>1 DEF Stands, Ready
      <4>2. QED BY <1>1, <2>1, <4>1 DEF VisionTyped, Stands
    <3>2. QED BY <1>1, <1>2, <2>1, <2>2, <3>1 DEF VisionTyped, WorkerStates
  <2>4. JobsExist'
    <3>1. \A i \in Jobs : Status(i) # "absent" => Status(i)' # "absent" BY <2>2
    <3>2. \A i \in unqueued \cup cancelling : i \in Jobs BY <1>1 DEF VisionTyped
    <3>3. \A i \in DOMAIN jobs : jobs[i] \in Jobs BY <1>1 DEF VisionTyped
    <3>4. \A v \in VisionWorkers : worker'[v] # Ready => JobOf(v)' = JobOf(v) /\ JobOf(v) \in Jobs /\ worker[v] # Ready
      BY <1>1, <2>1, WorkerHasJob DEF JobOf
    <3>5. QED BY <1>1, <1>2, <3>1, <3>2, <3>3, <3>4 DEF JobsExist
  <2>5. WorksOn(w, j) BY <1>2 DEF WorksOn, Stands
  <2>6. ASSUME NEW i \in Jobs, i \notin disturbed' PROVE AloneOf(i)'
    <3>1. AloneOf(i) BY <1>1, <1>2, <2>6 DEF AttemptsAreAlone
    <3>2. CASE i # j
      <4>1. \A v \in VisionWorkers : WorksOn(v, i)' => worker'[v] = worker[v]
        BY <2>1 DEF WorksOn
      <4>2. attempts <= attempts' BY <1>1, <1>2 DEF VisionTyped
      <4>3. QED BY <1>1, <1>2, <2>2, <2>3, <3>1, <3>2, <4>1, <4>2, AloneStays
    <3>3. CASE i = j
      <4>1. \A v \in VisionWorkers : ~WorksOn(v, i)'
        BY <2>1, <2>5, <3>1, <3>3 DEF AloneOf, WorksOn, JobOf, Stands
      <4>2. AttemptAt(w, i) BY <2>5, <3>1, <3>3 DEF AloneOf
      <4>3. s = "DONE" => Whole(j)' /\ derived'[j] = output'[j]
        BY <1>2, <1>5, <3>3, <4>2 DEF AttemptAt, Whole, Stands
      <4>4. QED BY <2>2, <3>3, <4>1, <4>3 DEF AloneOf
    <3>4. QED BY <3>2, <3>3
  <2>7. ASSUME NEW d \in Dates, d \notin crowded' PROVE FreshOf(d)'
    <3>1. FreshOf(d) BY <1>1, <1>2, <2>7 DEF AttendanceIsFresh
    <3>2. CASE s = "FAILED"
      <4>1. \A v \in VisionWorkers : Postprocesses(v, d)' => worker'[v] = worker[v]
        BY <2>1 DEF Postprocesses, Ready
      <4>2. \A i \in Jobs : Status(i)' = "DONE" => Status(i) = "DONE" BY <2>2, <3>2
      <4>3. QED BY <1>1, <1>2, <2>2, <3>1, <4>1, <4>2, FreshStays
    <3>3. CASE s = "DONE"
      <4>1. Postprocesses(w, e) /\ Stands(w, "finish") BY <1>5, <3>3 DEF Postprocesses, Stands
      <4>2. ASSUME NEW v \in VisionWorkers, Postprocesses(v, d)'
            PROVE  v # w /\ Postprocesses(v, d) /\ worker'[v] = worker[v] /\ JobOf(v) \in Jobs
        <5>1. v # w BY <2>1, <4>2 DEF Postprocesses, Ready
        <5>2. worker'[v] = worker[v] /\ worker[v] # Ready
          BY <2>1, <4>2, <5>1 DEF Postprocesses, Ready
        <5>3. JobOf(v) \in Jobs BY <1>1, <5>2, WorkerHasJob
        <5>4. QED BY <2>2, <4>2, <5>1, <5>2, <5>3 DEF Postprocesses, DayOf, JobOf
      <4>3. \A i \in Done(d)' : i \in Done(d) \/ (i = j /\ d = e)
        BY <2>2 DEF Done, DayOf
      <4>4. CASE d # e
        <5>1. \A v \in VisionWorkers : JobOf(v)' = JobOf(v) \/ v = w BY <2>1 DEF JobOf
        <5>2. \A v, x \in VisionWorkers : Postprocesses(v, d)' /\ Postprocesses(x, d)' => v = x
          BY <3>1, <4>2 DEF FreshOf
        <5>3. ASSUME NEW v \in VisionWorkers, Stands(v, "rollup")', Postprocesses(v, d)'
              PROVE  (Done(d) \cup {JobOf(v)} \subseteq worker[v].related)'
          <6>1. Done(d) \cup {JobOf(v)} \subseteq worker[v].related /\ worker'[v] = worker[v]
            BY <3>1, <4>2, <5>3 DEF FreshOf, Stands
          <6>2. QED BY <4>3, <4>4, <6>1 DEF JobOf
        <5>4. ASSUME NEW v \in VisionWorkers, Stands(v, "finish")', Postprocesses(v, d)',
                     JobOf(v)' \notin disturbed'
              PROVE  (RowsOfJob(JobOf(v)) \subseteq attendance[d])'
          <6>1. Stands(v, "finish") /\ JobOf(v)' = JobOf(v) BY <4>2, <5>4 DEF Stands, JobOf
          <6>2. RowsOfJob(JobOf(v)) \subseteq attendance[d]
            BY <1>2, <3>1, <4>2, <5>4, <6>1 DEF FreshOf
          <6>3. QED BY <1>2, <6>1, <6>2 DEF RowsOfJob
        <5>5. \A i \in Done(d)' \ disturbed' : RowsOfJob(i)' \subseteq attendance'[d]
          BY <1>2, <3>1, <4>3, <4>4 DEF FreshOf, RowsOfJob
        <5>6. QED BY <5>2, <5>3, <5>4, <5>5 DEF FreshOf
      <4>5. CASE d = e
        <5>1. \A v \in VisionWorkers : ~Postprocesses(v, d)'
          BY <3>1, <4>1, <4>2, <4>5 DEF FreshOf
        <5>2. j \notin disturbed => RowsOfJob(j) \subseteq attendance[d]
          BY <3>1, <4>1, <4>5 DEF FreshOf
        <5>3. \A i \in Done(d)' \ disturbed' : RowsOfJob(i)' \subseteq attendance'[d]
          BY <1>2, <3>1, <4>3, <5>2 DEF FreshOf, RowsOfJob
        <5>4. QED BY <5>1, <5>3 DEF FreshOf
      <4>6. QED BY <4>4, <4>5
    <3>4. QED BY <3>2, <3>3
  <2>8. QED BY <2>3, <2>4, <2>6, <2>7 DEF VisionInv, AttemptsAreAlone, AttendanceIsFresh, Dates
<1>6. QED BY <1>4, <1>5 DEF FinishJob, JobFails, Stands

\* The day and the exports are made again.
LEMMA RecomputeKeeps ==
  ASSUME VisionInv, NEW j \in Jobs, RecomputeJob(j)
  PROVE  VisionInv'
<1>1. VisionTyped /\ JobsExist /\ AttemptsAreAlone /\ AttendanceIsFresh BY DEF VisionInv
<1> PICK e, known : e = DayOf(j) /\ known = Related(j) OBVIOUS
<1>2. Status(j) # "absent" /\ e \in Dates /\ known = Done(e) \cup {j}
  BY <1>1 DEF RecomputeJob, VisionTyped, DayOf, Dates, Related
<1>3. /\ derived' = [derived EXCEPT ![j] = output[j]]
      /\ attendance' = [attendance EXCEPT ![e] = RowsOf(known)]
      /\ crowded' = IF Recomputing(e) THEN crowded \cup {e} ELSE crowded
      /\ UNCHANGED <<job, unqueued, jobs, cancelling, worker, output, attempts, disturbed>>
  BY DEF RecomputeJob, Rollup, Crowds
<1>4. /\ DOMAIN derived' = Jobs /\ derived'[j] = output[j]
      /\ \A i \in Jobs : i # j => derived'[i] = derived[i]
      /\ DOMAIN attendance' = Dates /\ attendance'[e] = RowsOf(known)
      /\ \A d \in Dates : d # e => attendance'[d] = attendance[d]
  BY <1>1, <1>2, <1>3 DEF VisionTyped
<1>5. VisionTyped' BY <1>1, <1>3, <1>4 DEF VisionTyped, WorkerStates, Status, Stands
<1>6. JobsExist' BY <1>1, <1>3 DEF JobsExist, Status, JobOf
<1>7. ASSUME NEW i \in Jobs, i \notin disturbed' PROVE AloneOf(i)'
  <2>1. AloneOf(i) BY <1>1, <1>3, <1>7 DEF AttemptsAreAlone
  <2>2. attempts <= attempts' BY <1>1, <1>3 DEF VisionTyped
  <2>3. derived'[i] = derived[i] \/ derived'[i] = output[i] BY <1>4
  <2>4. QED BY <1>1, <1>3, <1>5, <2>1, <2>2, <2>3, AloneStays DEF Status
<1>8. ASSUME NEW d \in Dates, d \notin crowded' PROVE FreshOf(d)'
  <2>1. FreshOf(d) BY <1>1, <1>3, <1>8 DEF AttendanceIsFresh
  <2>2. CASE d # e BY <1>1, <1>3, <1>4, <2>1, <2>2, FreshStays DEF Status
  <2>3. CASE d = e
    <3>1. ~Recomputing(d) BY <1>3, <1>8, <2>3
    <3>2. \A v \in VisionWorkers : ~Postprocesses(v, d)'
      BY <1>3, <3>1 DEF Recomputing, Postprocesses, DayOf, JobOf
    <3>3. \A i \in Done(d) : RowsOfJob(i) \subseteq attendance'[d]
      BY <1>2, <1>4, <2>3, RowsAreCounted
    <3>4. Done(d)' = Done(d) /\ \A i \in Jobs : RowsOfJob(i)' = RowsOfJob(i)
      BY <1>3 DEF Done, DayOf, Status, RowsOfJob
    <3>5. \A i \in Done(d) : i \in Jobs BY DEF Done
    <3>6. QED BY <3>2, <3>3, <3>4, <3>5 DEF FreshOf
  <2>4. QED BY <2>2, <2>3
<1>9. QED BY <1>5, <1>6, <1>7, <1>8 DEF VisionInv, AttemptsAreAlone, AttendanceIsFresh, Dates

\* At first there are no jobs.
LEMMA VisionInitInv == VisionInit => VisionInv
<1> SUFFICES ASSUME VisionInit PROVE VisionInv OBVIOUS
<1>1. VisionTyped
  BY DEF VisionInit, VisionTyped, Statuses, Status, Stands, Ready, Nothing
<1>2. JobsExist BY DEF VisionInit, JobsExist
<1>3. AttemptsAreAlone
  BY DEF VisionInit, AttemptsAreAlone, AloneOf, WorksOn, Status
<1>4. AttendanceIsFresh
  <2>1. \A w \in VisionWorkers, d \in Dates : ~Postprocesses(w, d)
    BY DEF VisionInit, Postprocesses, Ready
  <2>2. \A d \in Dates : Done(d) = {} BY DEF VisionInit, Done, Status
  <2>3. QED BY <2>1, <2>2 DEF AttendanceIsFresh, FreshOf
<1>5. QED BY <1>1, <1>2, <1>3, <1>4 DEF VisionInv

\* Whatever requests, workers and crashes do to jobs, they are as the invariant
\* says.
THEOREM VisionInvariance == VisionSpec => []VisionInv
<1>1. VisionInv /\ [VisionNext]_vvars => VisionInv'
  <2>1. ASSUME VisionInv, VisionNext PROVE VisionInv'
    <3>1. CASE \E v \in Videos : InitVideo(v) \/ UploadFile(v) \/ FinalizeVideo(v)
      BY <2>1, <3>1, QueueKeeps
    <3>2. CASE \E j \in Jobs, v \in Videos : CreateJob(j, v) BY <2>1, <3>2, CreateJobKeeps
    <3>3. CASE \E j \in Jobs : RetryJob(j) \/ PushJob(j) \/ PushJobFails(j) \/ CancelJobLook(j)
                                 \/ CancelJobCommit(j) \/ RecomputeJob(j)
      BY <2>1, <3>3, QueueKeeps, RequestKeeps, RecomputeKeeps
    <3>4. CASE \E w \in VisionWorkers : VisionWorkerStep(w)
      BY <2>1, <3>4, TakeKeeps, BeginKeeps, TrackKeeps, AdvanceKeeps, PostprocessKeeps, RollupKeeps,
         EndKeeps, ReleaseKeeps DEF VisionWorkerStep, VisionWorkerDies
    <3>5. QED BY <2>1, <3>1, <3>2, <3>3, <3>4 DEF VisionNext
  <2>2. QED BY <2>1, QueueKeeps
<1>2. QED BY VisionInitInv, <1>1, PTL DEF VisionSpec

\* A job that is DONE has the events of one whole attempt, and metrics made of
\* them, unless it was restarted under a running attempt.
THEOREM DoneIsWholeCorrect == VisionSpec => []DoneIsWhole
<1>1. VisionInv => DoneIsWhole
  <2> SUFFICES ASSUME VisionInv, NEW j \in Jobs \ disturbed, Status(j) = "DONE"
               PROVE  /\ \E a \in 1..attempts : output[j] = {<<a, p>> : p \in 1..Parts}
                      /\ derived[j] = output[j]
    BY DEF DoneIsWhole
  <2>1. Whole(j) /\ derived[j] = output[j] BY DEF VisionInv, AttemptsAreAlone, AloneOf
  <2>2. PICK a \in 1..attempts : output[j] = Batches(a, Parts) BY <2>1 DEF Whole
  <2>3. Batches(a, Parts) = {<<a, p>> : p \in 1..Parts} BY DEF Batches
  <2>4. QED BY <2>1, <2>2, <2>3
<1>2. QED BY VisionInvariance, <1>1, PTL

\* The attendance of a day counts every job that is DONE, unless recomputations
\* of the day overlapped.
THEOREM DayCountsDoneJobsCorrect == VisionSpec => []DayCountsDoneJobs
<1>1. VisionInv => DayCountsDoneJobs
  <2> SUFFICES ASSUME VisionInv, NEW d \in Dates \ crowded, \A j \in Done(d) : j \notin disturbed
               PROVE  RowsOf(Done(d)) \subseteq attendance[d]
    BY DEF DayCountsDoneJobs
  <2>1. \A j \in Done(d) : RowsOfJob(j) \subseteq attendance[d]
    BY DEF VisionInv, AttendanceIsFresh, FreshOf
  <2>2. ASSUME NEW r \in RowsOf(Done(d)) PROVE r \in attendance[d]
    <3>1. PICK j \in Done(d) : r \in RowsOfJob(j) BY DEF RowsOf, RowsOfJob
    <3>2. QED BY <2>1, <3>1
  <2>3. QED BY <2>2
<1>2. QED BY VisionInvariance, <1>1, PTL

-----------------------------------------------------------------------------
(* Tracks at a door.                                                        *)

Names == Faces \cup {Nobody}
Keys == RawIds \X Nat

EventRecords ==
  [track : Keys, kind : {"entry", "exit"}, ts : Int, strength : {"STRONG", "WEAK", "ENDED"},
   noticed : Nat, employee : Names]

TrackRecords ==
  [key : Keys, zone : {"INSIDE", "OUTSIDE", Unknown}, candidate : {"INSIDE", "OUTSIDE", Unknown},
   streak : Nat, side : {-1, 0, 1}, crossing : [kind : {"none", "entry", "exit"}, ts : Int],
   lastEvent : Int, firstInside : Int, lastInside : Int, first : Nat, last : Nat, hits : Nat,
   pending : SUBSET EventRecords, leaving : [since : Int, ts : Int], employee : Names]

RowsOfTrack(k) == {e \in DoorRows : e.track = k}

\* Of events noticed one after the other, the times are in that order; of those
\* at once, nothing is said.
InOrder(es) == \A e, f \in es : e.noticed < f.noticed => e.ts <= f.ts

\* How a track that is followed, the rows of it and the time fit.
LiveFits(t, rows, now) ==
  /\ t \in TrackRecords /\ rows \subseteq EventRecords
  /\ \A e \in rows : /\ e.track = t.key /\ e.employee = t.employee
                     /\ e.kind = "entry" /\ e.strength = "WEAK" => StableTrack(t)
  /\ \A e \in t.pending : e.track = t.key /\ e.employee = Nobody
  /\ \A e \in rows \cup t.pending :
       /\ e.strength # "ENDED" /\ e.ts <= e.noticed /\ e.noticed <= t.lastEvent /\ t.zone # Unknown
       /\ t.zone = "INSIDE" => e.noticed <= t.lastInside
  /\ CrossingWindow <= Cooldown => InOrder(rows \cup t.pending)
  /\ t.first <= t.last /\ t.last <= now /\ t.lastEvent <= now /\ t.lastInside <= now
  /\ t.firstInside <= now /\ t.crossing.ts <= now
  /\ t.leaving # NotLeaving => t.zone = "INSIDE" /\ t.leaving.ts = t.lastInside

\* How the row of a finished track and the rows of its events fit.
FinishedFits(x, rows) ==
  /\ \A e \in rows : /\ e.employee = x.employee
                     /\ e.kind = "entry" /\ e.strength = "WEAK" => x.stable
  /\ (\E e \in rows : e.strength = "ENDED") = (x.inside /\ ~x.continued)
  /\ CrossingWindow <= Cooldown => InOrder(rows)

\* Keys are given out in order, and never twice.
KeysAreOwn ==
  /\ frame \in Nat /\ uses \in [RawIds -> Nat] /\ DOMAIN live \subseteq RawIds
  /\ \A r \in DOMAIN live : live[r].key = <<r, uses[r]>>
  /\ \A x \in tracks :
       /\ x.key \in Keys /\ x.key[2] <= uses[x.key[1]]
       /\ x.key[1] \in DOMAIN live => x.key[2] # uses[x.key[1]]
  /\ \A e \in DoorRows :
       (\E r \in DOMAIN live : e.track = live[r].key) \/ \E x \in tracks : e.track = x.key

TracksFit ==
  /\ \A r \in DOMAIN live : LiveFits(live[r], RowsOfTrack(live[r].key), frame)
  /\ \A x \in tracks : FinishedFits(x, RowsOfTrack(x.key))

DoorInv == KeysAreOwn /\ TracksFit

\* What a detection does to the record of a track.
LEMMA LookedFits ==
  ASSUME frame \in Nat, NEW s \in TrackRecords, NEW rows, LiveFits(s, rows, frame),
         NEW zone \in {"INSIDE", "OUTSIDE", Unknown}, NEW side \in {-1, 1}, NEW near,
         NEW t, t = Looked(s, zone, side, near)
  PROVE  /\ LiveFits(t, rows, frame)
         /\ t.key = s.key /\ t.zone = s.zone /\ t.pending = s.pending /\ t.employee = s.employee
         /\ t.lastEvent = s.lastEvent /\ t.last = frame /\ t.leaving = NotLeaving
         /\ zone # Unknown => t.candidate = zone
         /\ zone = "INSIDE" => t.lastInside = frame
<1>1. PICK counted : counted = IF zone = Unknown THEN <<s.candidate, s.streak>>
                 ELSE IF zone = s.candidate THEN <<zone, Least(s.streak + 1, StableFrames)>>
                 ELSE <<zone, 1>>
  OBVIOUS
<1>2. /\ counted[1] \in {"INSIDE", "OUTSIDE", Unknown} /\ counted[2] \in Nat
      /\ zone # Unknown => counted[1] = zone
  BY <1>1, DoorAssumption DEF TrackRecords, Least
<1>3. PICK crossing : crossing = IF (s.side # 0 /\ side # s.side) /\ near
                             THEN [kind |-> IF side = 1 THEN "entry" ELSE "exit", ts |-> frame]
                             ELSE s.crossing
  OBVIOUS
<1>4. crossing \in [kind : {"none", "entry", "exit"}, ts : Int] /\ crossing.ts <= frame
  BY <1>3 DEF TrackRecords, LiveFits
<1>5. PICK hits : hits = Least(s.hits + 1, MinHits) OBVIOUS
<1>6. hits \in Nat /\ (s.hits >= MinHits => hits >= MinHits)
  BY <1>5, DoorAssumption DEF TrackRecords, Least
<1>7. PICK firstInside, lastInside :
        /\ firstInside = IF zone = "INSIDE" /\ s.firstInside = Never THEN frame ELSE s.firstInside
        /\ lastInside = IF zone = "INSIDE" THEN frame ELSE s.lastInside
  OBVIOUS
<1>8. /\ firstInside \in Int /\ firstInside <= frame /\ lastInside \in Int /\ lastInside <= frame
      /\ s.lastInside <= lastInside /\ (zone = "INSIDE" => lastInside = frame)
  BY <1>7 DEF TrackRecords, LiveFits
<1>9. t = [s EXCEPT !.last = frame, !.hits = hits, !.leaving = NotLeaving, !.side = side,
                    !.crossing = crossing, !.firstInside = firstInside, !.lastInside = lastInside,
                    !.candidate = counted[1], !.streak = counted[2]]
  BY <1>1, <1>3, <1>5, <1>7 DEF Looked
<1>10. /\ t.key = s.key /\ t.zone = s.zone /\ t.pending = s.pending /\ t.employee = s.employee
       /\ t.lastEvent = s.lastEvent /\ t.last = frame /\ t.leaving = NotLeaving
       /\ t.hits = hits /\ t.side = side /\ t.crossing = crossing /\ t.firstInside = firstInside
       /\ t.lastInside = lastInside /\ t.candidate = counted[1] /\ t.streak = counted[2]
       /\ t.first = s.first
  BY <1>9 DEF TrackRecords
<1>11. t \in TrackRecords
  <2>1. NotLeaving \in [since : Int, ts : Int] BY DEF NotLeaving, Never
  <2>2. PICK candidate, streak : candidate = counted[1] /\ streak = counted[2] OBVIOUS
  <2>3. PICK u : u = [s EXCEPT !.last = frame, !.hits = hits, !.leaving = NotLeaving, !.side = side]
    OBVIOUS
  <2>4. u \in TrackRecords BY <1>6, <2>1, <2>3 DEF TrackRecords
  <2>5. PICK v : v = [u EXCEPT !.crossing = crossing, !.firstInside = firstInside,
                               !.lastInside = lastInside]
    OBVIOUS
  <2>6. v \in TrackRecords BY <1>4, <1>8, <2>4, <2>5 DEF TrackRecords
  <2>7. [v EXCEPT !.candidate = candidate, !.streak = streak] \in TrackRecords
    BY <1>2, <2>2, <2>6 DEF TrackRecords
  <2>8. t = [v EXCEPT !.candidate = candidate, !.streak = streak]
    BY <1>9, <2>2, <2>3, <2>5
  <2>9. QED BY <2>7, <2>8
<1>12. StableTrack(s) => StableTrack(t)
  <2>1. s.last <= frame /\ s.first \in Nat /\ s.last \in Nat BY DEF LiveFits, TrackRecords
  <2>2. QED BY <1>6, <1>10, <2>1, DoorAssumption DEF StableTrack
<1>13. \A e \in rows \cup s.pending : t.zone = "INSIDE" => e.noticed <= t.lastInside
  <2>1. \A e \in rows \cup s.pending : e.noticed \in Nat
    BY DEF LiveFits, TrackRecords, EventRecords
  <2>2. s.lastInside \in Int BY DEF TrackRecords
  <2>3. QED BY <1>8, <1>10, <2>1, <2>2 DEF LiveFits
<1>14. t.first <= t.last BY <1>10 DEF LiveFits, TrackRecords
<1>15. LiveFits(t, rows, frame)
  BY <1>4, <1>8, <1>10, <1>11, <1>12, <1>13, <1>14 DEF LiveFits
<1>16. QED BY <1>2, <1>8, <1>10, <1>15

\* An event that the engine fires comes after all of the track.
LEMMA FiredFits ==
  ASSUME frame \in Nat, NEW t \in TrackRecords, NEW rows, LiveFits(t, rows, frame),
         NEW zone, Switches(t, zone), zone = t.candidate, zone = "INSIDE" => t.lastInside = frame,
         NEW near, NEW e \in DoorEvents(t, near)
  PROVE  /\ e \in EventRecords /\ e.track = t.key /\ e.noticed = frame /\ e.employee = Nobody
         /\ e.ts <= frame /\ e.strength \in {"STRONG", "WEAK"}
         /\ CrossingWindow <= Cooldown => \A f \in rows \cup t.pending : f.ts <= e.ts
<1>1. PICK kind \in {"entry", "exit"}, ts \in Int, strength \in {"STRONG", "WEAK"} :
        /\ e = Event(t, kind, ts, strength) /\ ~Cooling(t)
        /\ \/ ts = t.crossing.ts /\ frame - t.crossing.ts <= CrossingWindow
           \/ t.zone = Unknown /\ ts = t.firstInside
           \/ ts = frame
  <2>1. t.crossing.ts \in Int /\ t.firstInside \in Int /\ frame \in Int BY DEF TrackRecords
  <2>2. QED BY <2>1 DEF DoorEvents, Crossed
<1>2. /\ e \in EventRecords /\ e.track = t.key /\ e.noticed = frame /\ e.employee = Nobody /\ e.ts = ts
      /\ e.strength \in {"STRONG", "WEAK"}
  BY <1>1 DEF Event, EventRecords, TrackRecords, Names
<1>3. ts <= frame BY <1>1 DEF LiveFits
<1>4. ASSUME CrossingWindow <= Cooldown, NEW f \in rows \cup t.pending PROVE f.ts <= ts
  <2>1. /\ f.ts \in Int /\ f.noticed \in Nat /\ t.lastEvent \in Int /\ t.crossing.ts \in Int
        /\ f.ts <= f.noticed /\ f.noticed <= t.lastEvent /\ t.zone # Unknown /\ t.lastEvent <= frame
    BY DEF LiveFits, EventRecords, TrackRecords
  <2>2. t.lastEvent # Never BY <2>1 DEF Never
  <2>3. frame - t.lastEvent >= Cooldown BY <1>1, <2>1, <2>2, DoorAssumption DEF Cooling
  <2>4. CASE ts = t.crossing.ts /\ frame - t.crossing.ts <= CrossingWindow
    BY <1>4, <2>1, <2>3, <2>4, DoorAssumption
  <2>5. CASE ts = frame BY <2>1, <2>5
  <2>6. QED BY <1>1, <2>1, <2>4, <2>5
<1>5. QED BY <1>2, <1>3, <1>4

\* What a track is to be when the end finds it: pending events are kept or
\* dropped, and who was inside leaves.
LEMMA FinishFits ==
  ASSUME frame \in Nat, NEW t \in TrackRecords, NEW rows, LiveFits(t, rows, frame),
         NEW more, more = Kept(t) \cup (IF t.zone = "INSIDE" THEN InferredExit(t) ELSE {})
  PROVE  FinishedFits(Row(t, FALSE), rows \cup more) /\ \A e \in more : e.track = t.key
<1>1. PICK x : x = Row(t, FALSE) OBVIOUS
<1>2. x.employee = t.employee /\ x.stable = StableTrack(t) /\ x.inside = (t.zone = "INSIDE") /\ x.continued = FALSE
  BY <1>1 DEF Row
<1>3. ASSUME NEW e \in Kept(t)
      PROVE  /\ e.track = t.key /\ e.employee = t.employee /\ e.strength # "ENDED"
             /\ e.kind = "entry" /\ e.strength = "WEAK" => x.stable
             /\ \E f \in t.pending : e.noticed = f.noticed /\ e.ts = f.ts
  <2>1. PICK f \in t.pending : /\ f.strength = "STRONG" \/ StableTrack(t)
                               /\ e = [f EXCEPT !.employee = t.employee]
    BY DEF Kept, Committed
  <2>2. f \in EventRecords /\ f.track = t.key /\ f.strength # "ENDED" BY DEF TrackRecords, LiveFits
  <2>3. /\ e.track = f.track /\ e.employee = t.employee /\ e.strength = f.strength
        /\ e.noticed = f.noticed /\ e.ts = f.ts
    BY <2>1, <2>2 DEF EventRecords
  <2>4. QED BY <1>2, <2>1, <2>2, <2>3
<1>4. ASSUME NEW e \in InferredExit(t), t.zone = "INSIDE"
      PROVE  /\ e.track = t.key /\ e.employee = t.employee /\ e.strength = "ENDED" /\ e.kind = "exit"
             /\ e.noticed = frame /\ e.ts = t.lastInside
  <2>1. PICK ts : /\ ts = IF t.leaving = NotLeaving THEN t.lastInside ELSE t.leaving.ts
                  /\ e = [Event(t, "exit", ts, "ENDED") EXCEPT !.employee = t.employee]
    BY DEF InferredExit, Committed
  <2>2. ts = t.lastInside BY <2>1 DEF LiveFits
  <2>3. QED BY <2>1, <2>2 DEF Event
<1>5. t.zone = "INSIDE" => \E e \in InferredExit(t) : TRUE BY DEF InferredExit, Committed
<1>6. \A e \in more : e.track = t.key BY <1>3, <1>4
<1>7. ASSUME NEW e \in rows \cup more
      PROVE  e.employee = x.employee /\ (e.kind = "entry" /\ e.strength = "WEAK" => x.stable)
  BY <1>2, <1>3, <1>4 DEF LiveFits
<1>8. (\E e \in rows \cup more : e.strength = "ENDED") = (x.inside /\ ~x.continued)
  <2>1. CASE t.zone = "INSIDE"
    <3>1. PICK e \in InferredExit(t) : TRUE BY <1>5, <2>1
    <3>2. e \in more /\ e.strength = "ENDED" BY <1>4, <2>1, <3>1
    <3>3. x.inside = TRUE /\ x.continued = FALSE BY <1>2, <2>1
    <3>4. QED BY <3>2, <3>3
  <2>2. CASE t.zone # "INSIDE"
    <3>1. \A e \in rows \cup more : e.strength # "ENDED" BY <1>3, <2>2 DEF LiveFits
    <3>2. x.inside = FALSE BY <1>2, <2>2
    <3>3. QED BY <3>1, <3>2
  <2>3. QED BY <2>1, <2>2
<1>9. ASSUME CrossingWindow <= Cooldown PROVE InOrder(rows \cup more)
  <2>1. InOrder(rows \cup t.pending) BY <1>9 DEF LiveFits
  <2>2. ASSUME NEW e \in rows \cup more
        PROVE  \/ \E f \in rows \cup t.pending : e.noticed = f.noticed /\ e.ts = f.ts
               \/ t.zone = "INSIDE" /\ e.noticed = frame /\ e.ts = t.lastInside
    BY <1>3, <1>4
  <2>3. ASSUME NEW f \in rows \cup t.pending
        PROVE  /\ f.noticed \in Nat /\ f.ts \in Int /\ f.ts <= f.noticed /\ f.noticed <= frame
               /\ t.zone = "INSIDE" => f.noticed <= t.lastInside
    BY DEF LiveFits, EventRecords, TrackRecords
  <2>4. t.lastInside \in Int BY DEF TrackRecords
  <2>5. ASSUME NEW e \in rows \cup more, NEW f \in rows \cup more, e.noticed < f.noticed
        PROVE  e.ts <= f.ts
    <3>1. CASE \E g \in rows \cup t.pending : e.noticed = g.noticed /\ e.ts = g.ts
      <4>1. PICK g \in rows \cup t.pending : e.noticed = g.noticed /\ e.ts = g.ts BY <3>1
      <4>2. CASE \E h \in rows \cup t.pending : f.noticed = h.noticed /\ f.ts = h.ts
        BY <2>1, <2>5, <4>1, <4>2 DEF InOrder
      <4>3. CASE t.zone = "INSIDE" /\ f.noticed = frame /\ f.ts = t.lastInside
        BY <2>3, <2>4, <4>1, <4>3
      <4>4. QED BY <2>2, <4>2, <4>3
    <3>2. CASE t.zone = "INSIDE" /\ e.noticed = frame /\ e.ts = t.lastInside
      BY <2>2, <2>3, <2>5, <3>2
    <3>3. QED BY <2>2, <3>1, <3>2
  <2>6. QED BY <2>5 DEF InOrder
<1>10. QED BY <1>1, <1>6, <1>7, <1>8, <1>9 DEF FinishedFits

\* A track of which four fields change.
Changed(t, z, last, pending, employee) ==
  [t EXCEPT !.zone = z, !.lastEvent = last, !.pending = pending, !.employee = employee]

\* It has the other fields it had.
LEMMA TrackChanged ==
  ASSUME NEW t \in TrackRecords, NEW z, z \in {"INSIDE", "OUTSIDE", Unknown},
         NEW last, last \in Int, NEW pending, pending \in SUBSET EventRecords,
         NEW employee, employee \in Names, NEW next, next = Changed(t, z, last, pending, employee)
  PROVE  /\ next \in TrackRecords /\ next.key = t.key /\ next.zone = z /\ next.lastEvent = last
         /\ next.pending = pending /\ next.employee = employee /\ next.lastInside = t.lastInside
         /\ next.first = t.first /\ next.last = t.last /\ next.firstInside = t.firstInside
         /\ next.crossing = t.crossing /\ next.leaving = t.leaving /\ next.hits = t.hits
<1>1. next = [key |-> t.key, zone |-> z, candidate |-> t.candidate, streak |-> t.streak,
              side |-> t.side, crossing |-> t.crossing, lastEvent |-> last,
              firstInside |-> t.firstInside, lastInside |-> t.lastInside, first |-> t.first,
              last |-> t.last, hits |-> t.hits, pending |-> pending, leaving |-> t.leaving,
              employee |-> employee]
  BY DEF TrackRecords, Changed
<1>2. /\ t.key \in Keys /\ t.candidate \in {"INSIDE", "OUTSIDE", Unknown} /\ t.streak \in Nat
      /\ t.side \in {-1, 0, 1} /\ t.crossing \in [kind : {"none", "entry", "exit"}, ts : Int]
      /\ t.firstInside \in Int /\ t.lastInside \in Int /\ t.first \in Nat /\ t.last \in Nat
      /\ t.hits \in Nat /\ t.leaving \in [since : Int, ts : Int]
  BY DEF TrackRecords
<1>3. next \in TrackRecords BY <1>1, <1>2 DEF TrackRecords
<1>4. QED BY <1>3 DEF TrackRecords, Changed

\* A row is named after it was written, but stays the same event.
SameEvent(e, f) ==
  /\ e.track = f.track /\ e.kind = f.kind /\ e.ts = f.ts /\ e.strength = f.strength
  /\ e.noticed = f.noticed

\* The parts of how a track fits that is not leaving.
LEMMA FitsWhen ==
  ASSUME NEW t \in TrackRecords, NEW rows, rows \subseteq EventRecords,
         \A e \in rows : /\ e.track = t.key /\ e.employee = t.employee
                         /\ e.kind = "entry" /\ e.strength = "WEAK" => StableTrack(t),
         \A e \in t.pending : e.track = t.key /\ e.employee = Nobody,
         \A e \in rows \cup t.pending :
           /\ e.strength # "ENDED" /\ e.ts <= e.noticed /\ e.noticed <= t.lastEvent
           /\ t.zone # Unknown
           /\ t.zone = "INSIDE" => e.noticed <= t.lastInside,
         CrossingWindow <= Cooldown => InOrder(rows \cup t.pending),
         t.first <= t.last /\ t.last <= frame /\ t.lastEvent <= frame,
         t.lastInside <= frame /\ t.firstInside <= frame /\ t.crossing.ts <= frame,
         t.leaving = NotLeaving
  PROVE  LiveFits(t, rows, frame)
BY DEF LiveFits

\* The parts of a detection of a track.
DetectionOf(t, zone, near, who, fired, ready, z, last, pending, employee) ==
  /\ fired = IF Switches(t, zone) THEN DoorEvents(t, near) ELSE {}
  /\ ready = {e \in t.pending \cup fired : e.strength = "STRONG" \/ StableTrack(t)}
  /\ z = IF Switches(t, zone) THEN t.candidate ELSE t.zone
  /\ last = IF fired # {} THEN frame ELSE t.lastEvent
  /\ pending = (t.pending \cup fired) \ ready
  /\ employee = IF who = Nobody THEN t.employee ELSE who

\* The rows are those that were, with those that are ready, all with one name.
NamedAs(named, rows, ready, employee) ==
  /\ named \subseteq EventRecords
  /\ \A e \in named : e.employee = employee /\ \E f \in rows \cup ready : SameEvent(e, f)

\* What a detection does to a track and the rows of it.
LEMMA DetectedFits ==
  ASSUME frame \in Nat, NEW t \in TrackRecords, NEW rows, LiveFits(t, rows, frame),
         t.last = frame, t.leaving = NotLeaving,
         NEW zone \in {"INSIDE", "OUTSIDE", Unknown}, zone # Unknown => t.candidate = zone,
         zone = "INSIDE" => t.lastInside = frame,
         NEW near, NEW who \in Names, NEW fired, NEW ready, NEW z, NEW last, NEW pending, NEW employee,
         DetectionOf(t, zone, near, who, fired, ready, z, last, pending, employee),
         NEW next, next = Changed(t, z, last, pending, employee),
         NEW named, NamedAs(named, rows, ready, next.employee)
  PROVE  LiveFits(next, named, frame) /\ next.key = t.key
<1> named \subseteq EventRecords BY DEF NamedAs
<1> \A e \in named : /\ e.employee = next.employee
                     /\ \E f \in rows \cup ready : SameEvent(e, f)
  BY DEF NamedAs
<1> /\ fired = IF Switches(t, zone) THEN DoorEvents(t, near) ELSE {}
    /\ ready = {e \in t.pending \cup fired : e.strength = "STRONG" \/ StableTrack(t)}
    /\ z = IF Switches(t, zone) THEN t.candidate ELSE t.zone
    /\ last = IF fired # {} THEN frame ELSE t.lastEvent
    /\ pending = (t.pending \cup fired) \ ready
    /\ employee = IF who = Nobody THEN t.employee ELSE who
  BY DEF DetectionOf
<1>1. ASSUME NEW e \in fired
      PROVE  /\ Switches(t, zone) /\ e \in EventRecords /\ e.track = t.key /\ e.noticed = frame
             /\ e.employee = Nobody /\ e.ts <= frame /\ e.strength \in {"STRONG", "WEAK"}
             /\ CrossingWindow <= Cooldown => \A f \in rows \cup t.pending : f.ts <= e.ts
  <2>1. Switches(t, zone) /\ e \in DoorEvents(t, near) BY <1>1
  <2>2. zone = t.candidate BY <2>1 DEF Switches
  <2>3. QED BY <2>1, <2>2, FiredFits
<1>2. ASSUME NEW e \in rows \cup t.pending
      PROVE  /\ e \in EventRecords /\ e.track = t.key /\ e.strength # "ENDED" /\ e.ts <= e.noticed
             /\ e.noticed <= t.lastEvent /\ t.zone # Unknown /\ e.noticed <= frame
             /\ t.zone = "INSIDE" => e.noticed <= t.lastInside
             /\ e.noticed \in Nat /\ e.ts \in Int
  BY DEF LiveFits, TrackRecords, EventRecords
<1>3. /\ z \in {"INSIDE", "OUTSIDE", Unknown} /\ last \in Int /\ last <= frame /\ t.lastEvent <= last
      /\ pending \in SUBSET EventRecords /\ employee \in Names
      /\ Switches(t, zone) => z # Unknown
      /\ z = "INSIDE" => \/ Switches(t, zone) /\ t.lastInside = frame
                         \/ ~Switches(t, zone) /\ t.zone = "INSIDE"
  <2>1. Switches(t, zone) => z = zone /\ zone # Unknown BY DEF Switches
  <2>2. ~Switches(t, zone) => z = t.zone OBVIOUS
  <2>3. last \in Int /\ last <= frame /\ t.lastEvent <= last BY DEF LiveFits, TrackRecords
  <2>4. pending \in SUBSET EventRecords BY <1>1, <1>2
  <2>5. employee \in Names /\ t.zone \in {"INSIDE", "OUTSIDE", Unknown} BY DEF TrackRecords
  <2>6. QED BY <2>1, <2>2, <2>3, <2>4, <2>5
<1>4. /\ next \in TrackRecords /\ next.key = t.key /\ next.zone = z /\ next.lastEvent = last
      /\ next.pending = pending /\ next.employee = employee /\ next.lastInside = t.lastInside
      /\ next.first = t.first /\ next.last = t.last /\ next.firstInside = t.firstInside
      /\ next.crossing = t.crossing /\ next.leaving = t.leaving /\ next.hits = t.hits
  <2> /\ z \in {"INSIDE", "OUTSIDE", Unknown} /\ last \in Int
      /\ pending \in SUBSET EventRecords /\ employee \in Names
    BY <1>3, SMTT(30)
  <2> QED BY TrackChanged
<1>5. StableTrack(next) = StableTrack(t) BY <1>4 DEF StableTrack
<1>6. ASSUME NEW e \in named \cup pending
      PROVE  \E f \in rows \cup t.pending \cup fired : SameEvent(e, f)
  <2>1. CASE e \in named BY <2>1
  <2>2. CASE e \in pending BY <2>2 DEF SameEvent
  <2>3. QED BY <2>1, <2>2
<1>7. \A e \in named : /\ e.track = next.key /\ e.employee = next.employee
                       /\ e.kind = "entry" /\ e.strength = "WEAK" => StableTrack(next)
  <2>1. ASSUME NEW e \in named, NEW f \in rows \cup ready, SameEvent(e, f)
        PROVE  e.track = t.key /\ (e.kind = "entry" /\ e.strength = "WEAK" => StableTrack(t))
    <3>1. CASE f \in rows BY <2>1, <3>1 DEF LiveFits, SameEvent
    <3>2. CASE f \in ready BY <1>1, <1>2, <2>1, <3>2 DEF SameEvent
    <3>3. QED BY <3>1, <3>2
  <2>2. QED BY <1>4, <1>5, <2>1
<1>8. \A e \in pending : e.track = next.key /\ e.employee = Nobody
  BY <1>1, <1>4 DEF LiveFits
<1>9. ASSUME NEW e \in named \cup pending
       PROVE  /\ e.strength # "ENDED" /\ e.ts <= e.noticed /\ e.noticed <= last /\ z # Unknown
              /\ z = "INSIDE" => e.noticed <= t.lastInside
  <2>1. PICK f \in rows \cup t.pending \cup fired : SameEvent(e, f) BY <1>6
  <2>2. CASE f \in fired
    <3>1. last = frame BY <2>2
    <3>2. QED BY <1>1, <1>3, <2>1, <2>2, <3>1 DEF SameEvent
  <2>3. CASE f \in rows \cup t.pending
    <3>1. t.lastEvent \in Int /\ t.lastInside \in Int BY DEF TrackRecords
    <3>2. ~Switches(t, zone) => z = t.zone OBVIOUS
    <3>3. QED BY <1>2, <1>3, <2>1, <2>3, <3>1, <3>2 DEF SameEvent
  <2>4. QED BY <2>1, <2>2, <2>3
<1>10. ASSUME CrossingWindow <= Cooldown PROVE InOrder(named \cup pending)
  <2>1. ASSUME NEW e \in named \cup pending, NEW f \in named \cup pending, e.noticed < f.noticed
        PROVE  e.ts <= f.ts
    <3>1. PICK g \in rows \cup t.pending \cup fired : SameEvent(e, g) BY <1>6
    <3>2. PICK h \in rows \cup t.pending \cup fired : SameEvent(f, h) BY <1>6
    <3>3. g.noticed < h.noticed BY <2>1, <3>1, <3>2 DEF SameEvent
    <3>4. g \notin fired BY <1>1, <1>2, <3>3
    <3>5. CASE h \in fired BY <1>1, <1>10, <3>1, <3>2, <3>4, <3>5 DEF SameEvent
    <3>6. CASE h \notin fired
      <4>1. InOrder(rows \cup t.pending) BY <1>10 DEF LiveFits
      <4>2. QED BY <3>1, <3>2, <3>3, <3>4, <3>6, <4>1 DEF SameEvent, InOrder
    <3>7. QED BY <3>5, <3>6
  <2>2. QED BY <2>1 DEF InOrder
<1>11. /\ t.first <= t.last /\ t.last <= frame /\ t.lastInside <= frame /\ t.firstInside <= frame
       /\ t.crossing.ts <= frame
  BY SMTT(30) DEF LiveFits
<1>12. /\ next.first <= next.last /\ next.last <= frame /\ next.lastEvent <= frame
       /\ next.lastInside <= frame /\ next.firstInside <= frame /\ next.crossing.ts <= frame
       /\ next.leaving = NotLeaving
  BY <1>3, <1>4, <1>11, SMTT(30)
<1>13. \A e \in named \cup next.pending :
         /\ e.strength # "ENDED" /\ e.ts <= e.noticed /\ e.noticed <= next.lastEvent
         /\ next.zone # Unknown
         /\ next.zone = "INSIDE" => e.noticed <= next.lastInside
  BY <1>4, <1>9
<1>14. CrossingWindow <= Cooldown => InOrder(named \cup next.pending) BY <1>4, <1>10
<1>15. \A e \in next.pending : e.track = next.key /\ e.employee = Nobody BY <1>4, <1>8
<1>16. QED BY <1>4, <1>7, <1>12, <1>13, <1>14, <1>15, FitsWhen, ZenonT(40)

\* A track that was lost inside waits.
Waited(t) ==
  [t EXCEPT !.leaving = [since |-> frame, ts |-> t.lastInside],
            !.pending = IF StableTrack(t) THEN {} ELSE t.pending]
KeptEarly(t) == IF StableTrack(t) THEN Kept(t) ELSE {}

\* It fits while it waits.
LEMMA WaitFits ==
  ASSUME frame \in Nat, NEW t \in TrackRecords, NEW rows, LiveFits(t, rows, frame), t.zone = "INSIDE",
         NEW next, next = Waited(t), NEW more, more = KeptEarly(t)
  PROVE  LiveFits(next, rows \cup more, frame) /\ next.key = t.key /\ \A e \in more : e.track = t.key
<1> PICK pending : pending = IF StableTrack(t) THEN {} ELSE t.pending OBVIOUS
<1> next = [t EXCEPT !.leaving = [since |-> frame, ts |-> t.lastInside], !.pending = pending]
  BY DEF Waited
<1> more = IF StableTrack(t) THEN Kept(t) ELSE {} BY DEF KeptEarly
<1>1. PICK leaving : leaving = [since |-> frame, ts |-> t.lastInside] OBVIOUS
<1>2. /\ leaving \in [since : Int, ts : Int] /\ leaving.ts = t.lastInside /\ pending \in SUBSET EventRecords
      /\ pending \subseteq t.pending
  BY <1>1 DEF TrackRecords
<1>3. /\ next \in TrackRecords /\ next.key = t.key /\ next.zone = t.zone /\ next.lastEvent = t.lastEvent
      /\ next.pending = pending /\ next.employee = t.employee /\ next.lastInside = t.lastInside
      /\ next.first = t.first /\ next.last = t.last /\ next.firstInside = t.firstInside
      /\ next.crossing = t.crossing /\ next.leaving = leaving /\ next.hits = t.hits
  BY <1>1, <1>2 DEF TrackRecords
<1>4. StableTrack(next) = StableTrack(t) BY <1>3 DEF StableTrack
<1>5. ASSUME NEW e \in more
      PROVE  /\ e \in EventRecords /\ e.track = t.key /\ e.employee = t.employee /\ StableTrack(t)
             /\ \E f \in t.pending : SameEvent(e, f)
  <2>1. StableTrack(t) /\ e \in Kept(t) BY <1>5
  <2>2. PICK f \in t.pending : e = [f EXCEPT !.employee = t.employee]
    BY <2>1 DEF Kept, Committed
  <2>3. f \in EventRecords /\ f.track = t.key /\ t.employee \in Names BY DEF TrackRecords, LiveFits
  <2>4. QED BY <2>1, <2>2, <2>3 DEF EventRecords, SameEvent
<1>6. \A e \in rows \cup more : /\ e.track = next.key /\ e.employee = next.employee
                                /\ e.kind = "entry" /\ e.strength = "WEAK" => StableTrack(next)
  BY <1>3, <1>4, <1>5 DEF LiveFits
<1>7. \A e \in rows \cup more \cup pending : \E f \in rows \cup t.pending : SameEvent(e, f)
  BY <1>2, <1>5 DEF SameEvent
<1>8. \A e \in (rows \cup more) \cup pending :
        /\ e.strength # "ENDED" /\ e.ts <= e.noticed /\ e.noticed <= t.lastEvent /\ t.zone # Unknown
        /\ t.zone = "INSIDE" => e.noticed <= t.lastInside
  BY <1>7 DEF LiveFits, SameEvent
<1>9. ASSUME CrossingWindow <= Cooldown PROVE InOrder((rows \cup more) \cup pending)
  <2>1. InOrder(rows \cup t.pending) BY <1>9 DEF LiveFits
  <2>2. QED BY <1>7, <2>1 DEF InOrder, SameEvent
<1>10. /\ \A e \in pending : e.track = t.key /\ e.employee = Nobody
       /\ t.first <= t.last /\ t.last <= frame /\ t.lastEvent <= frame /\ t.lastInside <= frame
       /\ t.firstInside <= frame /\ t.crossing.ts <= frame /\ rows \cup more \subseteq EventRecords
  BY <1>2, <1>5 DEF LiveFits
<1>11. QED BY <1>2, <1>3, <1>5, <1>6, <1>8, <1>9, <1>10 DEF LiveFits

\* Time passes.
LEMMA LaterFits ==
  ASSUME frame \in Nat, NEW t, NEW rows, LiveFits(t, rows, frame)
  PROVE  LiveFits(t, rows, frame + 1)
<1>1. /\ t.last \in Int /\ t.lastEvent \in Int /\ t.lastInside \in Int /\ t.firstInside \in Int
      /\ t.crossing.ts \in Int
  BY DEF LiveFits, TrackRecords
<1>2. QED BY <1>1 DEF LiveFits

\* Another track goes on as the same employee.
LEMMA ContinuedFits ==
  ASSUME NEW t, NEW rows, LiveFits(t, rows, frame)
  PROVE  FinishedFits(Row(t, TRUE), rows)
<1>1. PICK x : x = Row(t, TRUE) OBVIOUS
<1>2. x.employee = t.employee /\ x.stable = StableTrack(t) /\ x.continued = TRUE BY <1>1 DEF Row
<1>3. (\E e \in rows : e.strength = "ENDED") = (x.inside /\ ~x.continued)
  <2>1. \A e \in rows : e.strength # "ENDED" BY DEF LiveFits
  <2>2. QED BY <1>2, <2>1
<1>4. CrossingWindow <= Cooldown => InOrder(rows) BY DEF LiveFits, InOrder
<1>5. QED BY <1>1, <1>2, <1>3, <1>4 DEF LiveFits, FinishedFits

\* The rows after a detection: only those of the track that was detected change.
NamedRows(t, ready, employee) ==
  /\ RowsOfTrack(t.key)' \subseteq EventRecords
  /\ \A e \in RowsOfTrack(t.key)' :
       e.employee = employee /\ \E f \in RowsOfTrack(t.key) \cup ready : SameEvent(e, f)
  /\ \A k : k # t.key => RowsOfTrack(k)' = RowsOfTrack(k)
  /\ \A e \in DoorRows' : e.track = t.key \/ e \in DoorRows

\* They are so, whether or not the detection names the track.
LEMMA RowsNamed ==
  ASSUME NEW t, NEW who \in Names, NEW employee, NEW ready, ready \subseteq EventRecords,
         RowsOfTrack(t.key) \subseteq EventRecords, t.employee \in Names,
         who # Nobody => t.employee = Nobody,
         employee = IF who = Nobody THEN t.employee ELSE who,
         \A e \in RowsOfTrack(t.key) : e.employee = t.employee,
         \A e \in ready : e.track = t.key,
         NEW new, new = added \cup Committed(ready, t),
         IF who = Nobody THEN added' = new /\ UNCHANGED events ELSE Name(new, t.key, who)
  PROVE  NamedRows(t, ready, employee)
<1>1. ASSUME NEW e \in Committed(ready, t)
      PROVE  /\ e \in EventRecords /\ e.track = t.key /\ e.employee = t.employee
             /\ \E f \in ready : SameEvent(e, f)
  <2>1. PICK f \in ready : e = [f EXCEPT !.employee = t.employee] BY DEF Committed
  <2>2. f \in EventRecords /\ f.track = t.key OBVIOUS
  <2>3. QED BY <2>1, <2>2 DEF EventRecords, SameEvent
<1>2. PICK all : all = DoorRows \cup Committed(ready, t) OBVIOUS
<1>3. ASSUME NEW e \in all, e.track = t.key
      PROVE  /\ e \in EventRecords /\ e.employee = t.employee
             /\ \E f \in RowsOfTrack(t.key) \cup ready : SameEvent(e, f)
  <2>1. CASE e \in Committed(ready, t) BY <1>1, <2>1
  <2>2. CASE e \in DoorRows
    <3>1. e \in RowsOfTrack(t.key) BY <1>3, <2>2 DEF RowsOfTrack
    <3>2. QED BY <3>1 DEF SameEvent
  <2>3. QED BY <1>2, <2>1, <2>2
<1>4. CASE who = Nobody
  <2>1. DoorRows' = all BY <1>2, <1>4 DEF DoorRows
  <2>2. employee = t.employee BY <1>4
  <2>3. \A k : k # t.key => RowsOfTrack(k)' = RowsOfTrack(k)
    BY <1>1, <1>2, <2>1 DEF RowsOfTrack
  <2>4. \A e \in RowsOfTrack(t.key)' : e \in all /\ e.track = t.key BY <2>1 DEF RowsOfTrack
  <2>5. \A e \in DoorRows' : e.track = t.key \/ e \in DoorRows BY <1>1, <1>2, <2>1
  <2>6. QED BY <1>3, <2>2, <2>3, <2>4, <2>5 DEF NamedRows
<1>5. CASE who # Nobody
  <2>1. /\ DoorRows' = {IF e.track = t.key /\ e.employee = Nobody THEN [e EXCEPT !.employee = who] ELSE e :
                          e \in all}
        /\ employee = who /\ t.employee = Nobody
    BY <1>2, <1>5 DEF DoorRows, Name
  <2>2. ASSUME NEW e \in all
        PROVE  \/ e.track # t.key /\ e \in DoorRows /\ e \in DoorRows'
               \/ /\ e.track = t.key
                  /\ \E g \in DoorRows' : g = [e EXCEPT !.employee = who]
    <3>1. CASE e.track = t.key
      <4>1. e.employee = Nobody BY <1>3, <2>1, <3>1
      <4>2. QED BY <2>1, <3>1, <4>1
    <3>2. CASE e.track # t.key BY <1>1, <1>2, <2>1, <3>2
    <3>3. QED BY <3>1, <3>2
  <2>3. ASSUME NEW g \in DoorRows'
        PROVE  \/ g.track # t.key /\ g \in DoorRows
               \/ \E e \in all : /\ e.track = t.key /\ g = [e EXCEPT !.employee = who]
                                /\ g \in EventRecords /\ g.employee = who /\ SameEvent(g, e)
    <3>1. PICK e \in all : g = IF e.track = t.key /\ e.employee = Nobody
                             THEN [e EXCEPT !.employee = who] ELSE e
      BY <2>1
    <3>2. CASE e.track = t.key
      <4>1. e.employee = Nobody /\ e \in EventRecords BY <1>3, <2>1, <3>2
      <4>2. g = [e EXCEPT !.employee = who] BY <3>1, <3>2, <4>1
      <4>3. QED BY <3>2, <4>1, <4>2 DEF EventRecords, SameEvent
    <3>3. CASE e.track # t.key BY <1>1, <1>2, <3>1, <3>3
    <3>4. QED BY <3>2, <3>3
  <2>4. ASSUME NEW k, k # t.key PROVE RowsOfTrack(k)' = RowsOfTrack(k)
    <3>1. \A g \in DoorRows' : g.track = k => g \in DoorRows
      BY <2>3, <2>4 DEF SameEvent
    <3>2. \A e \in DoorRows : e.track = k => e \in DoorRows' BY <1>2, <2>2, <2>4
    <3>3. QED BY <3>1, <3>2 DEF RowsOfTrack
  <2>5. ASSUME NEW g \in RowsOfTrack(t.key)'
        PROVE  /\ g \in EventRecords /\ g.employee = employee
               /\ \E f \in RowsOfTrack(t.key) \cup ready : SameEvent(g, f)
    <3>1. g \in DoorRows' /\ g.track = t.key BY DEF RowsOfTrack
    <3>2. PICK e \in all : e.track = t.key /\ g \in EventRecords /\ g.employee = who /\ SameEvent(g, e)
      BY <2>3, <3>1
    <3>3. PICK f \in RowsOfTrack(t.key) \cup ready : SameEvent(e, f) BY <1>3, <3>2
    <3>4. SameEvent(g, f) BY <3>2, <3>3 DEF SameEvent
    <3>5. QED BY <2>1, <3>2, <3>4
  <2>6. \A e \in DoorRows' : e.track = t.key \/ e \in DoorRows
    BY <2>3 DEF SameEvent
  <2>7. QED BY <2>4, <2>5, <2>6 DEF NamedRows
<1>6. QED BY <1>4, <1>5 DEF NamedRows

\* A track that begins has no rows and fits.
LEMMA NewFits ==
  ASSUME frame \in Nat, NEW k \in Keys, NEW s, s = NewTrack(k)
  PROVE  LiveFits(s, {}, frame) /\ s \in TrackRecords /\ s.key = k
<1>1. /\ s.key = k /\ s.pending = {} /\ s.leaving = NotLeaving /\ s.first = frame /\ s.last = frame
      /\ s.lastInside = -1 /\ s.firstInside = -1 /\ s.lastEvent = -1 /\ s.crossing.ts = -1
  BY DEF NewTrack, Never
<1>2. s \in TrackRecords
  <2>1. /\ NotLeaving \in [since : Int, ts : Int] /\ {} \in SUBSET EventRecords /\ Nobody \in Names
        /\ [kind |-> "none", ts |-> Never] \in [kind : {"none", "entry", "exit"}, ts : Int]
    BY DEF NotLeaving, Never, Names
  <2>2. QED BY <2>1 DEF NewTrack, TrackRecords, Never
<1>3. InOrder({} \cup s.pending) BY <1>1 DEF InOrder
<1>4. QED BY <1>1, <1>2, <1>3 DEF LiveFits

\* Tracks that are followed, and tracks that are finished, have different keys.
LEMMA KeysDiffer ==
  ASSUME KeysAreOwn, NEW r \in DOMAIN live
  PROVE  /\ live[r].key = <<r, uses[r]>> /\ live[r].key \in Keys
         /\ \A q \in DOMAIN live : q # r => live[q].key # live[r].key
         /\ \A x \in tracks : x.key # live[r].key
<1>1. r \in RawIds /\ uses[r] \in Nat /\ live[r].key = <<r, uses[r]>> BY DEF KeysAreOwn
<1>2. \A q \in DOMAIN live : q # r => live[q].key # live[r].key BY <1>1 DEF KeysAreOwn
<1>3. ASSUME NEW x \in tracks, x.key = live[r].key PROVE FALSE
  <2>1. x.key[1] = r /\ x.key[2] = uses[r] BY <1>1, <1>3
  <2>2. QED BY <2>1 DEF KeysAreOwn
<1>4. QED BY <1>1, <1>2, <1>3 DEF Keys

\* A new key belongs to no track, and no row bears it.
LEMMA KeyIsNew ==
  ASSUME KeysAreOwn, NEW r \in RawIds, r \notin DOMAIN live, NEW k, k = <<r, uses[r] + 1>>
  PROVE  /\ k \in Keys /\ RowsOfTrack(k) = {}
         /\ \A q \in DOMAIN live : live[q].key # k
         /\ \A x \in tracks : x.key # k
<1>1. uses[r] \in Nat /\ k \in Keys BY DEF KeysAreOwn, Keys
<1>2. \A q \in DOMAIN live : live[q].key # k BY DEF KeysAreOwn
<1>3. ASSUME NEW x \in tracks, x.key = k PROVE FALSE
  <2>1. x.key[1] = r /\ x.key[2] = uses[r] + 1 BY <1>3
  <2>2. x.key[2] <= uses[r] BY <2>1 DEF KeysAreOwn
  <2>3. QED BY <1>1, <2>1, <2>2
<1>4. RowsOfTrack(k) = {} BY <1>2, <1>3 DEF RowsOfTrack, KeysAreOwn
<1>5. QED BY <1>1, <1>2, <1>3, <1>4

\* A track that fits, with its key, for the id that was detected.
LEMMA DetectedTrackFits ==
  ASSUME DoorInv, NEW r \in RawIds,
         NEW s, s = IF r \in DOMAIN live THEN live[r] ELSE NewTrack(<<r, uses[r] + 1>>)
  PROVE  /\ s \in TrackRecords /\ LiveFits(s, RowsOfTrack(s.key), frame)
         /\ s.key[1] = r /\ s.key[2] \in Nat /\ s.key = <<r, s.key[2]>> /\ uses[r] <= s.key[2]
         /\ r \in DOMAIN live => s.key[2] = uses[r]
         /\ r \notin DOMAIN live => uses[r] < s.key[2]
         /\ \A q \in DOMAIN live : q # r => live[q].key # s.key
         /\ \A x \in tracks : x.key # s.key
<1>1. KeysAreOwn /\ TracksFit /\ frame \in Nat /\ uses[r] \in Nat BY DEF DoorInv, KeysAreOwn
<1>2. CASE r \in DOMAIN live
  <2>1. s = live[r] /\ s.key = <<r, uses[r]>> BY <1>1, <1>2, KeysDiffer
  <2>2. LiveFits(s, RowsOfTrack(s.key), frame) BY <1>1, <1>2, <2>1 DEF TracksFit
  <2>3. s \in TrackRecords BY <2>2 DEF LiveFits
  <2>4. QED BY <1>1, <1>2, <2>1, <2>2, <2>3, KeysDiffer
<1>3. CASE r \notin DOMAIN live
  <2> PICK k : k = <<r, uses[r] + 1>> OBVIOUS
  <2>1. /\ k \in Keys /\ RowsOfTrack(k) = {} /\ \A q \in DOMAIN live : live[q].key # k
        /\ \A x \in tracks : x.key # k
    BY <1>1, <1>3, KeyIsNew
  <2>2. s = NewTrack(k) BY <1>3
  <2>3. LiveFits(s, {}, frame) /\ s \in TrackRecords /\ s.key = k BY <1>1, <2>1, <2>2, NewFits
  <2>4. k[1] = r /\ k[2] = uses[r] + 1 OBVIOUS
  <2>5. LiveFits(s, RowsOfTrack(s.key), frame) BY <2>1, <2>3
  <2>6. s.key = <<r, s.key[2]>> /\ s.key[2] = uses[r] + 1 BY <2>3, <2>4
  <2>7. QED BY <1>1, <1>3, <2>1, <2>3, <2>5, <2>6
<1>4. QED BY <1>2, <1>3

\* A detection changes one track and the rows of it; a track that it continues
\* is finished.
LEMMA DetectKeeps ==
  ASSUME DoorInv, NEW r \in RawIds, NEW zone \in {"INSIDE", "OUTSIDE", Unknown},
         NEW side \in {-1, 1}, NEW near, NEW who \in Names, NEW door,
         Detect(r, zone, side, near, who, door)
  PROVE  DoorInv'
<1>1. KeysAreOwn /\ TracksFit /\ frame \in Nat /\ uses \in [RawIds -> Nat] /\ DOMAIN live \subseteq RawIds
  BY SMTT(30) DEF DoorInv, KeysAreOwn
<1> DEFINE S == IF r \in DOMAIN live THEN live[r] ELSE NewTrack(<<r, uses[r] + 1>>)
           T == Looked(S, zone, side, near)
           Fired == IF Switches(T, zone) THEN DoorEvents(T, near) ELSE {}
           Ready_ == {e \in T.pending \cup Fired : e.strength = "STRONG" \/ StableTrack(T)}
           New == added \cup Committed(Ready_, T)
           Next_ == Changed(T, IF Switches(T, zone) THEN T.candidate ELSE T.zone,
                            IF Fired # {} THEN frame ELSE T.lastEvent,
                            (T.pending \cup Fired) \ Ready_,
                            IF who = Nobody THEN T.employee ELSE who)
           Gone == IF who # Nobody /\ door /\ zone = "INSIDE" THEN Continues(r, who) ELSE {}
<1>2. /\ who # Nobody => T.employee = Nobody
      /\ IF who = Nobody THEN added' = New /\ UNCHANGED events ELSE Name(New, T.key, who)
      /\ live' = [q \in (DOMAIN live \cup {r}) \ Gone |-> IF q = r THEN Next_ ELSE live[q]]
      /\ uses' = [uses EXCEPT ![r] = T.key[2]]
      /\ tracks' = tracks \cup {Row(live[q], TRUE) : q \in Gone}
      /\ frame' = frame
  BY DEF Detect, Changed
<1> PICK s : s = S OBVIOUS
<1> PICK t : t = Looked(s, zone, side, near) OBVIOUS
<1> PICK fired : fired = IF Switches(t, zone) THEN DoorEvents(t, near) ELSE {} OBVIOUS
<1> PICK ready : ready = {e \in t.pending \cup fired : e.strength = "STRONG" \/ StableTrack(t)} OBVIOUS
<1> PICK new : new = added \cup Committed(ready, t) OBVIOUS
<1> PICK z, last, pending, employee :
      DetectionOf(t, zone, near, who, fired, ready, z, last, pending, employee)
  BY DEF DetectionOf
<1> PICK next : next = Changed(t, z, last, pending, employee) OBVIOUS
<1> PICK gone : gone = Gone OBVIOUS
<1>3. T = t /\ Fired = fired OBVIOUS
<1>4. Ready_ = ready BY <1>3
<1>5. New = new /\ Next_ = next BY <1>3, <1>4 DEF DetectionOf
<1>6. /\ who # Nobody => t.employee = Nobody
      /\ IF who = Nobody THEN added' = new /\ UNCHANGED events ELSE Name(new, t.key, who)
      /\ live' = [q \in (DOMAIN live \cup {r}) \ gone |-> IF q = r THEN next ELSE live[q]]
      /\ uses' = [uses EXCEPT ![r] = t.key[2]]
      /\ tracks' = tracks \cup {Row(live[q], TRUE) : q \in gone}
      /\ frame' = frame
  <2> HIDE DEF S, T, Fired, Ready_, New, Next_, Gone
  <2> QED BY <1>2, <1>3, <1>5
<1>7. gone \subseteq DOMAIN live \ {r} /\ (r \in DOMAIN live => s = live[r]) BY DEF Continues
<1>8. /\ s \in TrackRecords /\ LiveFits(s, RowsOfTrack(s.key), frame)
      /\ s.key[1] = r /\ s.key[2] \in Nat /\ s.key = <<r, s.key[2]>> /\ uses[r] <= s.key[2]
      /\ r \in DOMAIN live => s.key[2] = uses[r]
      /\ r \notin DOMAIN live => uses[r] < s.key[2]
      /\ \A q \in DOMAIN live : q # r => live[q].key # s.key
      /\ \A x \in tracks : x.key # s.key
  BY DetectedTrackFits
<1> PICK rows : rows = RowsOfTrack(s.key) OBVIOUS
<1>9. /\ LiveFits(t, rows, frame)
      /\ t.key = s.key /\ t.last = frame /\ t.leaving = NotLeaving
      /\ zone # Unknown => t.candidate = zone
      /\ zone = "INSIDE" => t.lastInside = frame
  BY <1>1, <1>8, LookedFits
<1> HIDE DEF S, T, Fired, Ready_, New, Next_, Gone
<1>10. t \in TrackRecords /\ t.employee \in Names BY <1>9 DEF LiveFits, TrackRecords
<1>11. rows = RowsOfTrack(t.key) /\ rows \subseteq EventRecords /\ \A e \in rows : e.employee = t.employee
  BY <1>9 DEF LiveFits
<1>12. \A e \in ready : e \in EventRecords /\ e.track = t.key
  <2>1. \A e \in t.pending : e \in EventRecords /\ e.track = t.key
    BY <1>9, <1>10 DEF LiveFits, TrackRecords
  <2>2. ASSUME NEW e \in fired PROVE e \in EventRecords /\ e.track = t.key
    <3>1. Switches(t, zone) /\ e \in DoorEvents(t, near) OBVIOUS
    <3> zone = t.candidate /\ zone # Unknown BY <1>9, <3>1 DEF Switches
    <3>2. QED BY <1>1, <1>9, <1>10, <3>1, FiredFits
  <2>3. QED BY <2>1, <2>2
<1>13. /\ RowsOfTrack(t.key)' \subseteq EventRecords
       /\ \A e \in RowsOfTrack(t.key)' :
            e.employee = employee /\ \E f \in RowsOfTrack(t.key) \cup ready : SameEvent(e, f)
       /\ \A k : k # t.key => RowsOfTrack(k)' = RowsOfTrack(k)
       /\ \A e \in DoorRows' : e.track = t.key \/ e \in DoorRows
  <2>1. ready \subseteq EventRecords BY <1>12
  <2>2. employee = IF who = Nobody THEN t.employee ELSE who BY DEF DetectionOf
  <2>3. NamedRows(t, ready, employee)
    BY <1>6, <1>10, <1>11, <1>12, <2>1, <2>2, RowsNamed
  <2>4. QED BY <2>3 DEF NamedRows
<1> PICK named : named = RowsOfTrack(t.key)' OBVIOUS
<1>14. /\ next \in TrackRecords => next.employee = employee
       /\ LiveFits(next, named, frame) /\ next.key = t.key
  <2>1. next.employee = employee BY <1>10 DEF Changed, TrackRecords
  <2>2. NamedAs(named, rows, ready, next.employee) BY <1>11, <1>13, <2>1 DEF NamedAs
  <2>3. LiveFits(next, named, frame) BY <1>1, <1>9, <1>10, <2>2, DetectedFits
  <2>4. next.key = t.key BY <1>10 DEF Changed, TrackRecords
  <2>5. QED BY <2>1, <2>3, <2>4
<1>15. /\ DOMAIN live' = (DOMAIN live \cup {r}) \ gone /\ live'[r] = next
       /\ \A q \in DOMAIN live' : q # r => q \in DOMAIN live /\ live'[q] = live[q]
       /\ r \in DOMAIN live'
  BY <1>6, <1>7
<1>16. /\ uses' \in [RawIds -> Nat] /\ uses'[r] = t.key[2] /\ t.key = <<r, uses'[r]>>
       /\ \A q \in RawIds : q # r => uses'[q] = uses[q]
       /\ \A q \in RawIds : uses[q] <= uses'[q]
  BY <1>1, <1>6, <1>8, <1>9
<1>17. KeysAreOwn'
  <2>1. frame' \in Nat /\ uses' \in [RawIds -> Nat] /\ DOMAIN live' \subseteq RawIds
    BY <1>1, <1>6, <1>7, <1>15, <1>16
  <2>2. ASSUME NEW q \in DOMAIN live' PROVE live'[q].key = <<q, uses'[q]>>
    <3>1. CASE q = r BY <1>14, <1>15, <1>16, <3>1
    <3>2. CASE q # r
      <4>1. q \in DOMAIN live /\ live'[q] = live[q] /\ uses'[q] = uses[q]
        BY <1>1, <1>15, <1>16, <2>2, <3>2
      <4>2. QED BY <1>1, <4>1 DEF KeysAreOwn
    <3>3. QED BY <3>1, <3>2
  <2>3. ASSUME NEW x \in tracks'
        PROVE  /\ x.key \in Keys /\ x.key[2] <= uses'[x.key[1]]
               /\ x.key[1] \in DOMAIN live' => x.key[2] # uses'[x.key[1]]
    <3>1. CASE x \in tracks
      <4>1. /\ x.key \in Keys /\ x.key[2] <= uses[x.key[1]]
            /\ x.key[1] \in DOMAIN live => x.key[2] # uses[x.key[1]]
        BY <1>1, <3>1 DEF KeysAreOwn
      <4>2. x.key[1] \in RawIds /\ x.key[2] \in Nat BY <4>1 DEF Keys
      <4>3. PICK q : q = x.key[1] OBVIOUS
      <4>4. uses[q] \in Nat /\ uses'[q] \in Nat /\ uses[q] <= uses'[q] BY <1>1, <1>16, <4>2, <4>3
      <4>5. CASE q = r
        <5>1. r \notin DOMAIN live => uses[r] < uses'[r] BY <1>8, <1>9, <1>16
        <5>2. r \in DOMAIN live => uses[r] = uses'[r] BY <1>8, <1>9, <1>16
        <5>3. QED BY <4>1, <4>2, <4>3, <4>4, <4>5, <5>1, <5>2
      <4>6. CASE q # r
        <5>1. uses'[q] = uses[q] BY <1>16, <4>2, <4>3, <4>6
        <5>2. QED BY <1>15, <4>1, <4>2, <4>3, <4>4, <4>6, <5>1
      <4>7. QED BY <4>5, <4>6
    <3>2. CASE x \in {Row(live[q], TRUE) : q \in gone}
      <4>1. PICK q \in gone : x = Row(live[q], TRUE) BY <3>2
      <4>2. q \in DOMAIN live /\ q # r /\ q \in RawIds /\ q \notin DOMAIN live'
        BY <1>1, <1>7, <1>15, <4>1
      <4>3. x.key = live[q].key BY <4>1 DEF Row
      <4>4. live[q].key = <<q, uses[q]>> /\ live[q].key \in Keys BY <1>1, <4>2, KeysDiffer
      <4>5. x.key[1] = q /\ x.key[2] = uses[q] /\ uses[q] \in Nat BY <1>1, <4>2, <4>3, <4>4
      <4>6. uses'[q] = uses[q] BY <1>16, <4>2
      <4>7. QED BY <4>2, <4>3, <4>4, <4>5, <4>6
    <3>3. QED BY <1>6, <2>3, <3>1, <3>2
  <2>4. ASSUME NEW e \in DoorRows'
        PROVE  (\E q \in DOMAIN live' : e.track = live'[q].key) \/ \E x \in tracks' : e.track = x.key
    <3>1. CASE e.track = t.key BY <1>14, <1>15, <3>1
    <3>2. CASE \E x \in tracks : e.track = x.key BY <1>6, <3>2
    <3>3. CASE \E q \in DOMAIN live : e.track = live[q].key
      <4>1. PICK q \in DOMAIN live : e.track = live[q].key BY <3>3
      <4>2. CASE q \in gone
        <5>1. Row(live[q], TRUE) \in tracks' /\ Row(live[q], TRUE).key = live[q].key
          BY <1>6, <4>2 DEF Row
        <5>2. QED BY <4>1, <5>1
      <4>3. CASE q = r
        <5>1. e.track = s.key BY <1>7, <4>1, <4>3
        <5>2. QED BY <1>9, <3>1, <5>1
      <4>4. CASE q # r /\ q \notin gone
        <5>1. q \in DOMAIN live' /\ live'[q] = live[q] BY <1>15, <4>1, <4>4
        <5>2. QED BY <4>1, <5>1
      <4>5. QED BY <4>2, <4>3, <4>4
    <3>4. e.track = t.key \/ e \in DoorRows BY <1>13, <2>4
    <3>5. QED BY <1>1, <3>1, <3>2, <3>3, <3>4 DEF KeysAreOwn
  <2>5. QED BY <2>1, <2>2, <2>3, <2>4 DEF KeysAreOwn
<1>18. ASSUME NEW q \in DOMAIN live' PROVE LiveFits(live[q], RowsOfTrack(live[q].key), frame)'
  <2>1. CASE q = r
    <3>1. live'[q] = next /\ next.key = t.key BY <1>14, <1>15, <2>1
    <3>2. RowsOfTrack(next.key)' = named BY <3>1
    <3>3. QED BY <1>6, <1>14, <3>1, <3>2
  <2>2. CASE q # r
    <3>1. q \in DOMAIN live /\ live'[q] = live[q] BY <1>15, <1>18, <2>2
    <3>2. live[q].key # t.key BY <1>8, <1>9, <2>2, <3>1
    <3> PICK k : k = live[q].key OBVIOUS
    <3>3. RowsOfTrack(live[q].key)' = RowsOfTrack(k) BY <1>13, <3>1, <3>2
    <3>4. LiveFits(live[q], RowsOfTrack(live[q].key), frame) BY <1>1, <3>1 DEF TracksFit
    <3>5. QED BY <1>6, <3>1, <3>3, <3>4
  <2>3. QED BY <2>1, <2>2
<1>19. ASSUME NEW x \in tracks' PROVE FinishedFits(x, RowsOfTrack(x.key))'
  <2>1. CASE x \in tracks
    <3>1. x.key # t.key BY <1>8, <1>9, <2>1
    <3>2. RowsOfTrack(x.key)' = RowsOfTrack(x.key) BY <1>13, <3>1
    <3>3. QED BY <1>1, <2>1, <3>2 DEF TracksFit
  <2>2. CASE x \in {Row(live[q], TRUE) : q \in gone}
    <3>1. PICK q \in gone : x = Row(live[q], TRUE) BY <2>2
    <3>2. q \in DOMAIN live /\ q # r BY <1>7, <3>1
    <3>3. x.key = live[q].key BY <3>1 DEF Row
    <3>4. live[q].key # t.key BY <1>8, <1>9, <3>2
    <3>5. RowsOfTrack(x.key)' = RowsOfTrack(live[q].key) BY <1>13, <3>3, <3>4
    <3>6. LiveFits(live[q], RowsOfTrack(live[q].key), frame) BY <1>1, <3>2 DEF TracksFit
    <3>7. QED BY <3>1, <3>5, <3>6, ContinuedFits
  <2>3. QED BY <1>6, <1>19, <2>1, <2>2
<1>20. TracksFit' BY <1>18, <1>19 DEF TracksFit
<1>21. QED BY <1>17, <1>20 DEF DoorInv

\* The rows that tracks get when a frame or the video ends.
RowsGet(more) ==
  /\ \A q \in DOMAIN live : \A e \in more[q] : e.track = live[q].key
  /\ DoorRows' = DoorRows \cup UNION {more[q] : q \in DOMAIN live}

\* Each track gets its own.
LEMMA RowsGrow ==
  ASSUME KeysAreOwn, NEW more, RowsGet(more)
  PROVE  /\ \A q \in DOMAIN live : \A k : k = live[q].key => RowsOfTrack(k)' = RowsOfTrack(k) \cup more[q]
         /\ \A x \in tracks : \A k : k = x.key => RowsOfTrack(k)' = RowsOfTrack(k)
<1>1. /\ \A q \in DOMAIN live : \A e \in more[q] : e.track = live[q].key
      /\ DoorRows' = DoorRows \cup UNION {more[q] : q \in DOMAIN live}
  BY DEF RowsGet
<1>2. ASSUME NEW q \in DOMAIN live, NEW k, k = live[q].key
      PROVE  RowsOfTrack(k)' = RowsOfTrack(k) \cup more[q]
  <2>1. ASSUME NEW e \in RowsOfTrack(k)' PROVE e \in RowsOfTrack(k) \cup more[q]
    <3>1. e \in DoorRows' /\ e.track = k BY DEF RowsOfTrack
    <3>2. CASE e \in DoorRows BY <3>1, <3>2 DEF RowsOfTrack
    <3>3. CASE e \notin DoorRows
      <4>1. PICK o \in DOMAIN live : e \in more[o] BY <1>1, <3>1, <3>3
      <4>2. live[o].key = live[q].key BY <1>1, <1>2, <3>1, <4>1
      <4>3. o = q BY <4>2, KeysDiffer
      <4>4. QED BY <4>1, <4>3
    <3>4. QED BY <3>2, <3>3
  <2>2. ASSUME NEW e \in RowsOfTrack(k) \cup more[q] PROVE e \in RowsOfTrack(k)'
    <3>1. e.track = k BY <1>1, <1>2 DEF RowsOfTrack
    <3>2. e \in DoorRows' BY <1>1 DEF RowsOfTrack
    <3>3. QED BY <3>1, <3>2 DEF RowsOfTrack
  <2>3. QED BY <2>1, <2>2
<1>3. ASSUME NEW x \in tracks, NEW k, k = x.key PROVE RowsOfTrack(k)' = RowsOfTrack(k)
  <2>1. \A q \in DOMAIN live : live[q].key # k BY <1>3, KeysDiffer
  <2>2. \A e \in UNION {more[q] : q \in DOMAIN live} : e.track # k BY <1>1, <2>1
  <2>3. QED BY <1>1, <2>2 DEF RowsOfTrack
<1>4. QED BY <1>2, <1>3

\* Tracks end, others go on.
TracksOver(ended, more) ==
  /\ RowsGet(more) /\ ended \subseteq DOMAIN live
  /\ \A q \in ended : more[q] = Kept(live[q]) \cup (IF live[q].zone = "INSIDE"
                                                   THEN InferredExit(live[q]) ELSE {})
  /\ tracks' = tracks \cup {Row(live[q], FALSE) : q \in ended}
  /\ uses' = uses /\ frame' \in Nat /\ DOMAIN live' = DOMAIN live \ ended
  /\ \A q \in DOMAIN live \ ended :
       /\ live'[q].key = live[q].key
       /\ \A k : k = live[q].key => LiveFits(live'[q], RowsOfTrack(k) \cup more[q], frame')

\* All fit then.
LEMMA TracksEnd ==
  ASSUME DoorInv, NEW ended, NEW more, TracksOver(ended, more)
  PROVE  DoorInv'
<1> /\ RowsGet(more) /\ ended \subseteq DOMAIN live
    /\ \A q \in ended : more[q] = Kept(live[q]) \cup (IF live[q].zone = "INSIDE"
                                                     THEN InferredExit(live[q]) ELSE {})
    /\ tracks' = tracks \cup {Row(live[q], FALSE) : q \in ended}
    /\ uses' = uses /\ frame' \in Nat /\ DOMAIN live' = DOMAIN live \ ended
    /\ \A q \in DOMAIN live \ ended :
         /\ live'[q].key = live[q].key
         /\ \A k : k = live[q].key => LiveFits(live'[q], RowsOfTrack(k) \cup more[q], frame')
  BY DEF TracksOver
<1>1. KeysAreOwn /\ TracksFit /\ frame \in Nat BY DEF DoorInv, KeysAreOwn
<1>2. /\ \A q \in DOMAIN live : \A k : k = live[q].key => RowsOfTrack(k)' = RowsOfTrack(k) \cup more[q]
      /\ \A x \in tracks : \A k : k = x.key => RowsOfTrack(k)' = RowsOfTrack(k)
  BY <1>1, RowsGrow
<1>3. ASSUME NEW q \in DOMAIN live'
      PROVE  q \in DOMAIN live /\ q \notin ended /\ live'[q].key = live[q].key
  BY <1>3
<1>4. ASSUME NEW q \in ended, NEW x, x = Row(live[q], FALSE)
      PROVE  q \in DOMAIN live /\ q \notin DOMAIN live' /\ x.key = live[q].key
  BY <1>4 DEF Row
<1>5. KeysAreOwn'
  <2>1. frame' \in Nat /\ uses' \in [RawIds -> Nat] /\ DOMAIN live' \subseteq RawIds
    BY <1>1, <1>3 DEF KeysAreOwn
  <2>2. \A q \in DOMAIN live' : live'[q].key = <<q, uses'[q]>> BY <1>1, <1>3 DEF KeysAreOwn
  <2>3. ASSUME NEW x \in tracks'
        PROVE  /\ x.key \in Keys /\ x.key[2] <= uses'[x.key[1]]
               /\ x.key[1] \in DOMAIN live' => x.key[2] # uses'[x.key[1]]
    <3>1. CASE x \in tracks BY <1>1, <1>3, <3>1 DEF KeysAreOwn
    <3>2. CASE x \notin tracks
      <4>1. PICK q \in ended : x = Row(live[q], FALSE) BY <2>3, <3>2
      <4>2. q \in DOMAIN live /\ q \notin DOMAIN live' /\ x.key = live[q].key BY <1>4, <4>1
      <4>3. live[q].key = <<q, uses[q]>> /\ live[q].key \in Keys BY <1>1, <4>2, KeysDiffer
      <4>4. x.key[1] = q /\ x.key[2] = uses[q] /\ uses[q] \in Nat
        BY <1>1, <4>2, <4>3 DEF KeysAreOwn
      <4>5. QED BY <4>2, <4>3, <4>4
    <3>3. QED BY <3>1, <3>2
  <2>4. ASSUME NEW e \in DoorRows'
        PROVE  (\E q \in DOMAIN live' : e.track = live'[q].key) \/ \E x \in tracks' : e.track = x.key
    <3>1. ASSUME NEW q \in DOMAIN live, e.track = live[q].key
          PROVE  (\E o \in DOMAIN live' : e.track = live'[o].key) \/ \E x \in tracks' : e.track = x.key
      <4>1. CASE q \in ended
        <5> PICK x : x = Row(live[q], FALSE) OBVIOUS
        <5>1. x \in tracks' /\ x.key = live[q].key BY <1>4, <4>1
        <5>2. QED BY <3>1, <5>1
      <4>2. CASE q \notin ended BY <1>3, <3>1, <4>2
      <4>3. QED BY <4>1, <4>2
    <3>2. CASE e \in DoorRows BY <1>1, <3>1, <3>2 DEF KeysAreOwn
    <3>3. CASE e \notin DoorRows
      <4>1. PICK q \in DOMAIN live : e \in more[q] BY <3>3 DEF RowsGet
      <4>2. e.track = live[q].key BY <4>1 DEF RowsGet
      <4>3. QED BY <3>1, <4>2
    <3>4. QED BY <3>2, <3>3
  <2>5. QED BY <2>1, <2>2, <2>3, <2>4 DEF KeysAreOwn
<1>6. ASSUME NEW q \in DOMAIN live' PROVE LiveFits(live[q], RowsOfTrack(live[q].key), frame)'
  <2> PICK k : k = live[q].key OBVIOUS
  <2>1. q \in DOMAIN live \ ended /\ live'[q].key = k BY <1>3, <1>6
  <2>2. RowsOfTrack(live[q].key)' = RowsOfTrack(k) \cup more[q] BY <1>2, <2>1
  <2>3. LiveFits(live'[q], RowsOfTrack(k) \cup more[q], frame') BY <2>1
  <2>4. QED BY <2>2, <2>3
<1>7. ASSUME NEW x \in tracks' PROVE FinishedFits(x, RowsOfTrack(x.key))'
  <2> PICK k : k = x.key OBVIOUS
  <2>1. CASE x \in tracks
    <3>1. RowsOfTrack(x.key)' = RowsOfTrack(k) BY <1>2, <2>1
    <3>2. FinishedFits(x, RowsOfTrack(k)) BY <1>1, <2>1 DEF TracksFit
    <3>3. QED BY <3>1, <3>2
  <2>2. CASE x \notin tracks
    <3>1. PICK q \in ended : x = Row(live[q], FALSE) BY <1>7, <2>2
    <3>2. q \in DOMAIN live /\ k = live[q].key BY <1>4, <3>1
    <3>3. RowsOfTrack(x.key)' = RowsOfTrack(k) \cup more[q] BY <1>2, <3>2
    <3> PICK t, rows : t = live[q] /\ rows = RowsOfTrack(k) OBVIOUS
    <3>4. LiveFits(t, rows, frame) /\ t \in TrackRecords BY <1>1, <3>2, SMTT(30) DEF TracksFit, LiveFits
    <3>5. more[q] = Kept(t) \cup (IF t.zone = "INSIDE" THEN InferredExit(t) ELSE {}) BY <3>1
    <3>6. FinishedFits(Row(t, FALSE), rows \cup more[q]) BY <1>1, <3>4, <3>5, FinishFits
    <3>7. QED BY <3>1, <3>3, <3>6
  <2>3. QED BY <2>1, <2>2
<1>8. QED BY <1>5, <1>6, <1>7 DEF DoorInv, TracksFit

\* The video ends.
LEMMA EndVideoKeeps ==
  ASSUME DoorInv, EndVideo
  PROVE  DoorInv'
<1>1. KeysAreOwn /\ TracksFit /\ frame \in Nat BY DEF DoorInv, KeysAreOwn
<1> PICK more : more = [q \in DOMAIN live |->
      Kept(live[q]) \cup (IF live[q].zone = "INSIDE" THEN InferredExit(live[q]) ELSE {})]
  OBVIOUS
<1>2. ASSUME NEW q \in DOMAIN live
      PROVE  /\ ExitsAtEnd(live[q]) <=> live[q].zone = "INSIDE"
             /\ \A e \in more[q] : e.track = live[q].key
  <2> PICK t, rows : t = live[q] /\ rows = RowsOfTrack(t.key) OBVIOUS
  <2>1. LiveFits(t, rows, frame) /\ t \in TrackRecords BY <1>1 DEF TracksFit, LiveFits
  <2>2. ExitsAtEnd(t) <=> t.zone = "INSIDE"
    <3>1. t.leaving # NotLeaving => t.zone = "INSIDE" BY <2>1 DEF LiveFits
    <3>2. QED BY <3>1 DEF ExitsAtEnd
  <2>3. more[q] = Kept(t) \cup (IF t.zone = "INSIDE" THEN InferredExit(t) ELSE {}) OBVIOUS
  <2>4. \A e \in more[q] : e.track = t.key BY <1>1, <2>1, <2>3, FinishFits
  <2>5. QED BY <2>2, <2>4
<1>3. /\ events' = events \cup added \cup (UNION {Kept(live[r]) : r \in DOMAIN live})
            \cup (UNION {InferredExit(live[r]) : r \in {q \in DOMAIN live : ExitsAtEnd(live[q])}})
      /\ added' = {} /\ tracks' = tracks \cup {Row(live[r], FALSE) : r \in DOMAIN live}
      /\ DOMAIN live' = {} /\ frame' = frame /\ uses' = uses
  BY DEF EndVideo, Without
<1>4. DoorRows' = DoorRows \cup UNION {more[q] : q \in DOMAIN live}
  <2>1. DoorRows' = events' BY <1>3 DEF DoorRows
  <2>2. \A e : e \in events' <=>
          \/ e \in DoorRows \/ \E q \in DOMAIN live : e \in Kept(live[q])
          \/ \E q \in DOMAIN live : ExitsAtEnd(live[q]) /\ e \in InferredExit(live[q])
    <3> DEFINE keeps == UNION {Kept(live[r]) : r \in DOMAIN live}
               exits == UNION {InferredExit(live[r]) : r \in {q \in DOMAIN live : ExitsAtEnd(live[q])}}
    <3>1. \A e : e \in keeps <=> \E q \in DOMAIN live : e \in Kept(live[q]) OBVIOUS
    <3>2. \A e : e \in exits <=> \E q \in {r \in DOMAIN live : ExitsAtEnd(live[r])} : e \in InferredExit(live[q])
      OBVIOUS
    <3>3. \A e : (\E q \in {r \in DOMAIN live : ExitsAtEnd(live[r])} : e \in InferredExit(live[q]))
                   <=> \E q \in DOMAIN live : ExitsAtEnd(live[q]) /\ e \in InferredExit(live[q])
      OBVIOUS
    <3>4. events' = events \cup added \cup keeps \cup exits BY <1>3
    <3>5. \A e : e \in events' <=> e \in DoorRows \/ e \in keeps \/ e \in exits
      <4> HIDE DEF keeps, exits
      <4> QED BY <3>4 DEF DoorRows
    <3> HIDE DEF keeps, exits
    <3>6. QED BY <3>1, <3>2, <3>3, <3>5
  <2>3. ASSUME NEW e \in events' PROVE e \in DoorRows \cup UNION {more[q] : q \in DOMAIN live}
    <3>1. CASE \E q \in DOMAIN live : e \in Kept(live[q]) BY <3>1
    <3>2. CASE \E q \in DOMAIN live : ExitsAtEnd(live[q]) /\ e \in InferredExit(live[q])
      <4>1. PICK q \in DOMAIN live : ExitsAtEnd(live[q]) /\ e \in InferredExit(live[q]) BY <3>2
      <4>2. e \in more[q] BY <1>2, <4>1
      <4>3. QED BY <4>2
    <3>3. \/ e \in DoorRows \/ \E q \in DOMAIN live : e \in Kept(live[q])
          \/ \E q \in DOMAIN live : ExitsAtEnd(live[q]) /\ e \in InferredExit(live[q])
      BY <2>3, <2>2
    <3>4. QED BY <3>1, <3>2, <3>3
  <2>4. ASSUME NEW q \in DOMAIN live, NEW e \in more[q] PROVE e \in events'
    <3>1. CASE e \in Kept(live[q]) BY <2>2, <3>1
    <3>2. CASE e \notin Kept(live[q])
      <4>1. live[q].zone = "INSIDE" /\ e \in InferredExit(live[q]) BY <2>4, <3>2
      <4>2. QED BY <1>2, <2>2, <4>1
    <3>3. QED BY <3>1, <3>2
  <2>5. DoorRows \subseteq events' BY <1>3 DEF DoorRows
  <2>6. QED BY <2>1, <2>3, <2>4, <2>5
<1>5. RowsGet(more) BY <1>2, <1>4 DEF RowsGet
<1> PICK ended : ended = DOMAIN live OBVIOUS
<1>6. \A q \in ended : more[q] = Kept(live[q]) \cup (IF live[q].zone = "INSIDE"
                                                     THEN InferredExit(live[q]) ELSE {})
  OBVIOUS
<1>7. /\ tracks' = tracks \cup {Row(live[q], FALSE) : q \in ended}
      /\ frame' \in Nat /\ uses' = uses /\ ended \subseteq DOMAIN live /\ DOMAIN live' = DOMAIN live \ ended
      /\ DOMAIN live \ ended = {}
  BY <1>1, <1>3
<1>8. TracksOver(ended, more) BY <1>5, <1>6, <1>7 DEF TracksOver
<1>9. QED BY <1>8, TracksEnd

\* A frame ends: tracks that were lost outside are finished, those that were
\* lost inside wait and then exit.
LEMMA EndFrameKeeps ==
  ASSUME DoorInv, EndFrame
  PROVE  DoorInv'
<1>1. KeysAreOwn /\ TracksFit /\ frame \in Nat BY DEF DoorInv, KeysAreOwn
<1> PICK expired : expired = {r \in DOMAIN live \ seen : frame - live[r].last > TrackTtl} OBVIOUS
<1> DEFINE Waiting == {r \in expired : live[r].leaving = NotLeaving /\ live[r].zone = "INSIDE"}
           Outside == {r \in expired : live[r].leaving = NotLeaving /\ live[r].zone # "INSIDE"}
           Exits == {r \in expired \ (Waiting \cup Outside) : frame - live[r].leaving.since >= ExitGrace}
<1>2. /\ added' = added \cup (UNION {Kept(live[r]) : r \in Outside \cup Exits})
                        \cup (UNION {Kept(live[r]) : r \in {q \in Waiting : StableTrack(live[q])}})
                        \cup (UNION {InferredExit(live[r]) : r \in Exits})
      /\ live' = [r \in DOMAIN live \ (Outside \cup Exits) |->
           IF r \in Waiting
           THEN [live[r] EXCEPT !.leaving = [since |-> frame, ts |-> live[r].lastInside],
                                !.pending = IF StableTrack(live[r]) THEN {} ELSE @]
           ELSE live[r]]
      /\ tracks' = tracks \cup {Row(live[r], FALSE) : r \in Outside \cup Exits}
      /\ frame' = frame + 1 /\ uses' = uses /\ events' = events
  BY DEF EndFrame
<1>3. tracks' = tracks \cup {Row(live[r], FALSE) : r \in Outside \cup Exits} /\ uses' = uses
  BY <1>2
<1>4. DOMAIN live' = DOMAIN live \ (Outside \cup Exits) /\ frame' \in Nat
  <2>1. frame' = frame + 1 BY DEF EndFrame
  <2>2. frame' \in Nat BY <1>1, <2>1
  <2>3. DOMAIN live' = DOMAIN live \ (Outside \cup Exits)
    <3> HIDE DEF Waiting, Outside, Exits
    <3> QED BY <1>2
  <2>4. QED BY <2>2, <2>3, SMTT(30)
<1>5. \A r \in Waiting : r \in DOMAIN live /\ live[r].zone = "INSIDE" /\ r \notin Outside \cup Exits
  OBVIOUS
<1>6. \A r \in Outside : r \in DOMAIN live /\ live[r].zone # "INSIDE" OBVIOUS
<1>7. ASSUME NEW r \in Exits PROVE r \in DOMAIN live /\ live[r].zone = "INSIDE"
  <2>1. r \in DOMAIN live /\ live[r].leaving # NotLeaving OBVIOUS
  <2>2. QED BY <1>1, <2>1 DEF TracksFit, LiveFits
<1> HIDE DEF Waiting, Outside, Exits
<1> PICK ended : ended = Outside \cup Exits OBVIOUS
<1> PICK more : more = [q \in DOMAIN live |->
      IF q \in ended
      THEN Kept(live[q]) \cup (IF live[q].zone = "INSIDE" THEN InferredExit(live[q]) ELSE {})
      ELSE IF q \in Waiting /\ StableTrack(live[q]) THEN Kept(live[q]) ELSE {}]
  OBVIOUS
<1>8. /\ ended \subseteq DOMAIN live
      /\ \A q \in ended : more[q] = Kept(live[q]) \cup (IF live[q].zone = "INSIDE"
                                                        THEN InferredExit(live[q]) ELSE {})
      /\ \A q \in DOMAIN live \ ended :
           more[q] = IF q \in Waiting /\ StableTrack(live[q]) THEN Kept(live[q]) ELSE {}
      /\ \A q \in ended : q \in Exits <=> live[q].zone = "INSIDE"
  BY <1>6, <1>7
<1>9. ASSUME NEW q \in DOMAIN live \ ended
      PROVE  /\ live'[q].key = live[q].key
             /\ \A k : k = live[q].key => LiveFits(live'[q], RowsOfTrack(k) \cup more[q], frame')
             /\ \A e \in more[q] : e.track = live[q].key
  <2> PICK t, next, rows : t = live[q] /\ next = live'[q] /\ rows = RowsOfTrack(t.key) OBVIOUS
  <2>1. LiveFits(t, rows, frame) /\ t \in TrackRecords BY <1>1 DEF TracksFit, LiveFits
  <2>2. CASE q \in Waiting
    <3>1. next = Waited(t) BY <1>2, <1>9, <2>2 DEF Waited
    <3>2. more[q] = KeptEarly(t) BY <1>8, <2>2 DEF KeptEarly
    <3>3. t.zone = "INSIDE" BY <1>5, <2>2
    <3>4. LiveFits(next, rows \cup more[q], frame) /\ next.key = t.key /\ \A e \in more[q] : e.track = t.key
      BY <1>1, <2>1, <3>1, <3>2, <3>3, WaitFits
    <3>5. LiveFits(next, rows \cup more[q], frame + 1) BY <1>1, <3>4, LaterFits
    <3>6. QED BY <1>2, <3>4, <3>5
  <2>3. CASE q \notin Waiting
    <3>1. next = t BY <1>2, <1>9, <2>3
    <3>2. more[q] = {} BY <1>8, <2>3
    <3>3. LiveFits(next, rows \cup more[q], frame)
      <4>1. rows \cup more[q] = rows BY <3>2
      <4>2. QED BY <2>1, <3>1, <4>1
    <3>4. LiveFits(next, rows \cup more[q], frame + 1) BY <1>1, <3>3, LaterFits
    <3>5. QED BY <1>2, <3>1, <3>2, <3>4
  <2>4. QED BY <2>2, <2>3
<1>10. ASSUME NEW q \in ended PROVE \A e \in more[q] : e.track = live[q].key
  <2> PICK t, rows : t = live[q] /\ rows = RowsOfTrack(t.key) OBVIOUS
  <2>1. q \in DOMAIN live BY <1>8
  <2>2. LiveFits(t, rows, frame) /\ t \in TrackRecords BY <1>1, <2>1 DEF TracksFit, LiveFits
  <2>3. more[q] = Kept(t) \cup (IF t.zone = "INSIDE" THEN InferredExit(t) ELSE {}) BY <1>8
  <2>4. QED BY <1>1, <2>2, <2>3, FinishFits
<1>11. DoorRows' = DoorRows \cup UNION {more[q] : q \in DOMAIN live}
  <2> DEFINE kept == UNION {Kept(live[r]) : r \in Outside \cup Exits}
             early == UNION {Kept(live[r]) : r \in {q \in Waiting : StableTrack(live[q])}}
             left == UNION {InferredExit(live[r]) : r \in Exits}
  <2>1. /\ \A e : e \in kept <=> \E q \in ended : e \in Kept(live[q])
        /\ \A e : e \in early <=> \E q \in {r \in Waiting : StableTrack(live[r])} : e \in Kept(live[q])
        /\ \A e : e \in left <=> \E q \in Exits : e \in InferredExit(live[q])
    OBVIOUS
  <2>2. DoorRows' = DoorRows \cup kept \cup early \cup left
    <3>1. added' = added \cup kept \cup early \cup left /\ events' = events BY <1>2
    <3> HIDE DEF kept, early, left
    <3>2. QED BY <3>1 DEF DoorRows
  <2> HIDE DEF kept, early, left
  <2>3. ASSUME NEW e, e \in kept \/ e \in early \/ e \in left
        PROVE  e \in UNION {more[q] : q \in DOMAIN live}
    <3>1. CASE e \in kept
      <4>1. PICK q \in ended : e \in Kept(live[q]) BY <2>1, <3>1
      <4>2. q \in DOMAIN live /\ e \in more[q] BY <1>8, <4>1
      <4>3. QED BY <4>2
    <3>2. CASE e \in early
      <4>1. PICK q \in Waiting : StableTrack(live[q]) /\ e \in Kept(live[q]) BY <2>1, <3>2
      <4>2. q \in DOMAIN live /\ q \notin ended BY <1>5, <4>1
      <4>3. e \in more[q] BY <1>8, <4>1, <4>2
      <4>4. QED BY <4>2, <4>3
    <3>3. CASE e \in left
      <4>1. PICK q \in Exits : e \in InferredExit(live[q]) BY <2>1, <3>3
      <4>2. q \in ended /\ q \in DOMAIN live /\ live[q].zone = "INSIDE" BY <1>7, <4>1
      <4>3. e \in more[q] BY <1>8, <4>1, <4>2
      <4>4. QED BY <4>2, <4>3
    <3>4. QED BY <2>3, <3>1, <3>2, <3>3
  <2>4. ASSUME NEW q \in DOMAIN live, NEW e \in more[q] PROVE e \in kept \/ e \in early \/ e \in left
    <3>1. CASE q \in ended
      <4>1. e \in Kept(live[q]) \/ (live[q].zone = "INSIDE" /\ e \in InferredExit(live[q]))
        BY <1>8, <2>4, <3>1
      <4>2. live[q].zone = "INSIDE" => q \in Exits BY <1>8, <3>1
      <4>3. QED BY <2>1, <3>1, <4>1, <4>2
    <3>2. CASE q \notin ended
      <4>1. q \in Waiting /\ StableTrack(live[q]) /\ e \in Kept(live[q]) BY <1>8, <2>4, <3>2
      <4>2. q \in {r \in Waiting : StableTrack(live[r])} BY <4>1
      <4>3. QED BY <2>1, <4>1, <4>2
    <3>3. QED BY <3>1, <3>2
  <2>5. \A e : e \in UNION {more[q] : q \in DOMAIN live} <=> \E q \in DOMAIN live : e \in more[q]
    OBVIOUS
  <2>6. QED BY <2>2, <2>3, <2>4, <2>5
<1>12. RowsGet(more) BY <1>9, <1>10, <1>11 DEF RowsGet
<1>13. /\ tracks' = tracks \cup {Row(live[q], FALSE) : q \in ended}
       /\ uses' = uses /\ frame' \in Nat /\ DOMAIN live' = DOMAIN live \ ended
  <2>1. {Row(live[r], FALSE) : r \in Outside \cup Exits} = {Row(live[q], FALSE) : q \in ended}
    OBVIOUS
  <2>2. DOMAIN live' = DOMAIN live \ ended /\ frame' \in Nat BY <1>4
  <2>3. QED BY <1>3, <2>1, <2>2
<1>14. TracksOver(ended, more) BY <1>8, <1>9, <1>12, <1>13 DEF TracksOver
<1>15. QED BY <1>14, TracksEnd

\* At first there are no tracks.
LEMMA DoorInitInv == DoorInit => DoorInv
BY DEF DoorInit, DoorInv, KeysAreOwn, TracksFit, DoorRows

\* What is detected at the door keeps the keys apart, and each track and its rows
\* fitting.
THEOREM DoorInvariance == DoorSpec => []DoorInv
<1>1. DoorInv /\ [DoorNext]_doorvars => DoorInv'
  <2>1. ASSUME DoorInv, DoorNext PROVE DoorInv'
    <3>1. CASE EndFrame BY <2>1, <3>1, EndFrameKeeps
    <3>2. CASE EndVideo BY <2>1, <3>2, EndVideoKeeps
    <3>3. CASE ~EndFrame /\ ~EndVideo
      <4>1. \E r \in RawIds, zone \in {"INSIDE", "OUTSIDE", Unknown}, side \in {-1, 1}, who \in Names :
              \E near, door : Detect(r, zone, side, near, who, door)
        <5>1. PICK r \in RawIds, zone \in {"INSIDE", "OUTSIDE", Unknown}, side \in {-1, 1} :
                \E near \in IF AsksNear(r, zone, side) THEN BOOLEAN ELSE {FALSE},
                   door \in IF zone = "INSIDE" THEN BOOLEAN ELSE {FALSE} :
                  \/ ~door /\ Detect(r, zone, side, near, Nobody, FALSE)
                  \/ \E who \in Faces : Detect(r, zone, side, near, who, door)
          BY <2>1, <3>3 DEF DoorNext
        <5>2. PICK near, door : \/ ~door /\ Detect(r, zone, side, near, Nobody, FALSE)
                               \/ \E who \in Faces : Detect(r, zone, side, near, who, door)
          BY <5>1
        <5>3. QED BY <5>2 DEF Names
      <4>2. QED BY <2>1, <4>1, DetectKeeps
    <3>4. QED BY <3>1, <3>2, <3>3
  <2>2. ASSUME DoorInv, UNCHANGED doorvars PROVE DoorInv'
    BY <2>2 DEF doorvars, DoorInv, KeysAreOwn, TracksFit, DoorRows, RowsOfTrack
  <2>3. QED BY <2>1, <2>2
<1>2. QED BY DoorInitInv, <1>1, PTL DEF DoorSpec

\* Every event of a track that was recognized names the employee.
THEOREM EventsCarryIdentityCorrect == DoorSpec => []EventsCarryIdentity
<1>1. DoorInv => EventsCarryIdentity
  <2> SUFFICES ASSUME DoorInv, NEW e \in DoorRows, NEW t \in LiveTracks \cup tracks, e.track = t.key
               PROVE  e.employee = t.employee
    BY DEF EventsCarryIdentity
  <2> PICK rows : rows = RowsOfTrack(t.key) OBVIOUS
  <2>1. e \in rows BY DEF RowsOfTrack
  <2>2. CASE t \in LiveTracks
    <3>1. LiveFits(t, rows, frame) BY <2>2 DEF DoorInv, TracksFit, LiveTracks
    <3>2. QED BY <2>1, <3>1 DEF LiveFits
  <2>3. CASE t \in tracks
    <3>1. FinishedFits(t, rows) BY <2>3 DEF DoorInv, TracksFit
    <3>2. QED BY <2>1, <3>1 DEF FinishedFits
  <2>4. QED BY <2>2, <2>3
<1>2. QED BY DoorInvariance, <1>1, PTL

\* Who was lost inside leaves exactly once, and ghosts do not count as somebody
\* who came in.
THEOREM InferredEventsHoldCorrect == DoorSpec => []InferredEventsHold
<1>1. DoorInv => EndedInsideExits
  <2> SUFFICES ASSUME DoorInv, NEW t \in tracks
               PROVE  (\E e \in DoorRows : e.track = t.key /\ e.strength = "ENDED") = (t.inside /\ ~t.continued)
    BY DEF EndedInsideExits
  <2> PICK rows : rows = RowsOfTrack(t.key) OBVIOUS
  <2>1. FinishedFits(t, rows) BY DEF DoorInv, TracksFit
  <2>2. (\E e \in rows : e.strength = "ENDED") = (t.inside /\ ~t.continued) BY <2>1 DEF FinishedFits
  <2>3. (\E e \in rows : e.strength = "ENDED") <=> (\E e \in DoorRows : e.track = t.key /\ e.strength = "ENDED")
    BY DEF RowsOfTrack
  <2>4. QED BY <2>2, <2>3
<1>2. DoorInv => NoGhostEntries
  <2> SUFFICES ASSUME DoorInv, NEW e \in DoorRows, e.kind = "entry", e.strength = "WEAK"
               PROVE  /\ \A t \in LiveTracks : t.key = e.track => StableTrack(t)
                      /\ \A t \in tracks : t.key = e.track => t.stable
    BY DEF NoGhostEntries
  <2> PICK rows : rows = RowsOfTrack(e.track) OBVIOUS
  <2>1. e \in rows BY DEF RowsOfTrack
  <2>2. ASSUME NEW t \in LiveTracks, t.key = e.track PROVE StableTrack(t)
    <3>1. LiveFits(t, rows, frame) BY <2>2 DEF DoorInv, TracksFit, LiveTracks
    <3>2. QED BY <2>1, <3>1 DEF LiveFits
  <2>3. ASSUME NEW t \in tracks, t.key = e.track PROVE t.stable
    <3>1. FinishedFits(t, rows) BY <2>3 DEF DoorInv, TracksFit
    <3>2. QED BY <2>1, <3>1 DEF FinishedFits
  <2>4. QED BY <2>2, <2>3
<1>3. DoorInv => InferredEventsHold BY <1>1, <1>2 DEF InferredEventsHold
<1>4. QED BY DoorInvariance, <1>3, PTL

\* The events of a track bear times in the order in which they were noticed, when
\* the cooldown is not shorter than the window in which a crossing counts.
THEOREM EventsInOrderCorrect ==
  ASSUME CrossingWindow <= Cooldown
  PROVE  DoorSpec => []EventsInOrder
<1>1. DoorInv => EventsInOrder
  <2> SUFFICES ASSUME DoorInv, NEW e \in DoorRows, NEW f \in DoorRows, e.track = f.track,
                      e.noticed < f.noticed
               PROVE  e.ts <= f.ts
    BY DEF EventsInOrder
  <2> PICK k, rows : k = e.track /\ rows = RowsOfTrack(k) OBVIOUS
  <2>1. e \in rows /\ f \in rows BY DEF RowsOfTrack
  <2>2. InOrder(rows)
    <3>1. CASE \E r \in DOMAIN live : k = live[r].key
      <4>1. PICK r \in DOMAIN live : k = live[r].key BY <3>1
      <4>2. LiveFits(live[r], rows, frame) BY <4>1 DEF DoorInv, TracksFit
      <4>3. QED BY <4>2 DEF LiveFits, InOrder
    <3>2. CASE \E x \in tracks : k = x.key
      <4>1. PICK x \in tracks : k = x.key BY <3>2
      <4>2. FinishedFits(x, rows) BY <4>1 DEF DoorInv, TracksFit
      <4>3. QED BY <4>2 DEF FinishedFits
    <3>3. QED BY <3>1, <3>2 DEF DoorInv, KeysAreOwn
  <2>3. QED BY <2>1, <2>2 DEF InOrder
<1>2. QED BY DoorInvariance, <1>1, PTL

-----------------------------------------------------------------------------
(* The workbooks of a month.                                                *)

Synchronizing == {"month", "docs", "board", "done"}

\* What a request is at: an upload, a publication that is not committed, or
\* one that writes to Firestore.
RequestShapes ==
  {NoRequestHere}
    \cup [at : {"new", "again", "parse", "reparse", "read"}, file : Files]
    \cup [at : {"publish"}, file : Files, first : BOOLEAN]
    \cup [at : Synchronizing, file : Files, ranked : Seq(Codes)]

DatasetRows ==
  [status : {"absent", "VALIDATING", "READY", "FAILED"},
   sync : {"DISABLED", "PENDING", "SYNCED", "FAILED"}, rows : SUBSET Codes]

MonthTyped ==
  /\ dataset \in [Files -> DatasetRows]
  /\ published \in Files \cup {NoFile}
  /\ importing \in [ImportSessions -> RequestShapes]
  /\ crossed \in BOOLEAN

\* A dataset has rows of its workbook, and all of them when it is READY.
DatasetHolds(f) ==
  /\ dataset[f].rows \subseteq CodesIn[f]
  /\ dataset[f].status = "READY" => dataset[f].rows = CodesIn[f]

\* Whoever inserted a dataset is alone with it: nobody takes it up again
\* while it is VALIDATING.
UploadStands(s) ==
  /\ IsAt(s, "parse") =>
       /\ dataset[FileOf(s)].status = "VALIDATING"
       /\ \A r \in ImportSessions \ {s} :
            importing[r].at \in {"parse", "again", "reparse"} => FileOf(r) # FileOf(s)
  /\ importing[s].at \in {"again", "reparse"} => dataset[FileOf(s)].status # "absent"

\* Documents are of employees the workbook has rows of.
DocumentsFit ==
  /\ \A c \in Codes : docs[c].file \in Files => c \in CodesIn[docs[c].file]
  /\ \A s \in ImportSessions : importing[s].at \in Synchronizing =>
       ToSet(importing[s].ranked) \subseteq CodesIn[FileOf(s)]

TopOf(ranked) == IF Len(ranked) < BoardLimit THEN ranked ELSE SubSeq(ranked, 1, BoardLimit)

Place(ranked, c) == CHOOSE i \in DOMAIN ranked : ranked[i] = c

DocumentsShow(f) ==
  \A c \in CodesIn[f] : docs[c] = [file |-> f, rank |-> Place(Ranked(f, CodesIn[f]), c)]

BoardShows(f) == board = [file |-> f, top |-> TopOf(Ranked(f, CodesIn[f]))]

\* What a publication that nothing crosses has written so far; the month it
\* commits does not count as SYNCED before it is at its end.
PublicationStands(s) ==
  ~crossed /\ importing[s].at \in Publishing =>
    LET f == FileOf(s) IN
    /\ dataset[f].status = "READY"
    /\ published # NoFile /\ dataset[published].sync # "SYNCED"
    /\ \A r \in ImportSessions \ {s} : importing[r].at \notin Publishing \cup {"reparse"}
    /\ ~IsAt(s, "read") => importing[s].ranked = Ranked(f, CodesIn[f])
    /\ importing[s].at \in {"docs", "board", "done"} => month = f
    /\ importing[s].at \in {"board", "done"} => DocumentsShow(f)
    /\ IsAt(s, "done") => BoardShows(f)

SyncedIsShown ==
  published # NoFile /\ dataset[published].sync = "SYNCED" /\ ~crossed =>
    month = published /\ DocumentsShow(published) /\ BoardShows(published)

MonthInv ==
  /\ MonthTyped
  /\ \A f \in Files : DatasetHolds(f)
  /\ \A s \in ImportSessions : UploadStands(s) /\ PublicationStands(s)
  /\ DocumentsFit
  /\ SyncedIsShown

-----------------------------------------------------------------------------
\* The order of the ranking, as a set of pairs.
LEMMA AheadOrders ==
  ASSUME ImportAssumption, NEW f \in Files
  PROVE  /\ \A c \in Codes : ~Ahead(f, c, c)
         /\ \A c, d \in Codes : c # d => Ahead(f, c, d) \/ Ahead(f, d, c)
         /\ \A c, d, e \in Codes : Ahead(f, c, d) /\ Ahead(f, d, e) => Ahead(f, c, e)
<1> PICK sales : sales = Sales[f] OBVIOUS
<1>1. /\ \A c \in Codes : sales[c] \in Nat /\ c \in Nat
      /\ \A c, d \in Codes :
           Ahead(f, c, d) <=> sales[c] > sales[d] \/ (sales[c] = sales[d] /\ c < d)
  BY DEF ImportAssumption, Ahead
<1>2. \A c \in Codes : ~Ahead(f, c, c) BY <1>1
<1>3. \A c, d \in Codes : c # d => Ahead(f, c, d) \/ Ahead(f, d, c) BY <1>1
<1>4. \A c, d, e \in Codes : Ahead(f, c, d) /\ Ahead(f, d, e) => Ahead(f, c, e) BY <1>1
<1>5. QED BY <1>2, <1>3, <1>4

\* A ranking lists the employees of a workbook, each once.
LEMMA RankedLists ==
  ASSUME ImportAssumption, NEW f \in Files, NEW rows, rows \subseteq Codes, IsFiniteSet(rows)
  PROVE  /\ Ranked(f, rows) \in Seq(Codes) /\ Len(Ranked(f, rows)) = Cardinality(rows)
         /\ ToSet(Ranked(f, rows)) = rows
         /\ \A i, j \in DOMAIN Ranked(f, rows) : Ranked(f, rows)[i] = Ranked(f, rows)[j] => i = j
<1> PICK n \in Nat : n = Cardinality(rows) BY FS_CardinalityType
<1> DEFINE place(c, i) == Cardinality({d \in rows : Ahead(f, d, c)}) = i - 1
           before == {p \in rows \X rows : Ahead(f, p[1], p[2])}
           r == Ranked(f, rows)
<1>1. \A i \in 1..n : \E c \in rows : place(c, i)
  <2>1. \A c, d \in rows : <<c, d>> \in before <=> Ahead(f, c, d) OBVIOUS
  <2>2. \A c \in rows : {d \in rows : <<d, c>> \in before} = {d \in rows : Ahead(f, d, c)}
    OBVIOUS
  <2> HIDE DEF before
  <2>3. /\ \A c \in rows : <<c, c>> \notin before
        /\ \A c, d \in rows : c # d => <<c, d>> \in before \/ <<d, c>> \in before
        /\ \A c, d, e \in rows : <<c, d>> \in before /\ <<d, e>> \in before => <<c, e>> \in before
    BY <2>1, AheadOrders
  <2>4. \A i \in 1..Cardinality(rows) :
          \E c \in rows : Cardinality({d \in rows : <<d, c>> \in before}) = i - 1
    BY <2>3, EachPlaceTaken
  <2>5. QED BY <2>2, <2>4
<1>2. r = [i \in 1..n |-> CHOOSE c \in rows : place(c, i)] BY DEF Ranked
<1> HIDE DEF place, r, before
<1>3. DOMAIN r = 1..n /\ \A i \in 1..n : r[i] \in rows /\ place(r[i], i) BY <1>1, <1>2
<1>4. ASSUME NEW i \in 1..n, NEW j \in 1..n, r[i] = r[j] PROVE i = j
  <2>1. place(r[i], i) /\ place(r[i], j) BY <1>3, <1>4
  <2>2. i - 1 = j - 1 BY <2>1 DEF place
  <2>3. QED BY <2>2
<1>5. r \in [1..n -> rows] BY <1>2, <1>3
<1>6. r \in Seq(Codes) /\ Len(r) = n
  <2>1. r \in [1..n -> Codes] BY <1>5
  <2>2. QED BY <2>1
<1>7. \A d \in rows : \E i \in 1..n : r[i] = d
  <2> DEFINE places == 1..n
  <2>1. IsFiniteSet(places) /\ Cardinality(places) = Cardinality(rows) BY FS_Interval
  <2>2. r \in [places -> rows] /\ \A i, j \in places : r[i] = r[j] => i = j BY <1>4, <1>5
  <2> HIDE DEF places
  <2>3. \A d \in rows : \E i \in places : r[i] = d BY <2>1, <2>2, OntoIfApart
  <2>4. QED BY <2>3 DEF places
<1>8. ToSet(r) = rows
  <2>1. \A d : d \in ToSet(r) <=> \E i \in 1..n : r[i] = d BY <1>3 DEF ToSet
  <2>2. \A d : d \in ToSet(r) <=> d \in rows BY <1>3, <1>7, <2>1
  <2>3. QED BY <2>2
<1>9. QED BY <1>3, <1>4, <1>6, <1>8 DEF r

\* And so does its top, as far as the board goes.
LEMMA TopLists ==
  ASSUME ImportAssumption, NEW s \in Seq(Codes)
  PROVE  /\ Len(TopOf(s)) = IF Len(s) < BoardLimit THEN Len(s) ELSE BoardLimit
         /\ \A i \in DOMAIN TopOf(s) : i \in DOMAIN s /\ TopOf(s)[i] = s[i]
<1>1. BoardLimit \in Nat /\ Len(s) \in Nat /\ DOMAIN s = 1..Len(s) BY DEF ImportAssumption
<1>2. CASE Len(s) < BoardLimit BY <1>1, <1>2 DEF TopOf
<1>3. CASE BoardLimit <= Len(s)
  <2>1. TopOf(s) = SubSeq(s, 1, BoardLimit) BY <1>1, <1>3 DEF TopOf
  <2>2. /\ Len(SubSeq(s, 1, BoardLimit)) = BoardLimit
        /\ DOMAIN SubSeq(s, 1, BoardLimit) = 1..BoardLimit
        /\ \A i \in 1..BoardLimit : SubSeq(s, 1, BoardLimit)[i] = s[i]
    BY <1>1, <1>3
  <2>3. \A i \in 1..BoardLimit : i \in 1..Len(s) BY <1>1, <1>3
  <2>4. QED BY <1>1, <1>3, <2>1, <2>2, <2>3
<1>4. QED BY <1>1, <1>2, <1>3

-----------------------------------------------------------------------------
\* What a request is at tells what it has.
LEMMA RequestShape ==
  ASSUME MonthTyped, NEW s \in ImportSessions
  PROVE  /\ ~IsAt(s, "nothing") => FileOf(s) \in Files
         /\ importing[s].at \in Synchronizing =>
              importing[s] = [at |-> importing[s].at, file |-> FileOf(s), ranked |-> importing[s].ranked]
                /\ importing[s].ranked \in Seq(Codes)
BY DEF MonthTyped, RequestShapes, IsAt, FileOf, NoRequestHere, Synchronizing

\* A request moves on, the others stay.
LEMMA RequestMoves ==
  ASSUME MonthTyped, NEW s \in ImportSessions, NEW x \in RequestShapes,
         importing' = [importing EXCEPT ![s] = x]
  PROVE  /\ importing' \in [ImportSessions -> RequestShapes] /\ importing'[s] = x
         /\ \A r \in ImportSessions : r # s => importing'[r] = importing[r]
BY DEF MonthTyped

\* It ends.
LEMMA RequestEnds ==
  ASSUME MonthTyped, NEW s \in ImportSessions, Ends(s)
  PROVE  /\ importing' \in [ImportSessions -> RequestShapes] /\ importing'[s] = NoRequestHere
         /\ \A r \in ImportSessions : r # s => importing'[r] = importing[r]
<1>1. NoRequestHere \in RequestShapes BY DEF RequestShapes
<1>2. QED BY <1>1, RequestMoves DEF Ends

\* It goes on with its workbook.
LEMMA RequestGoes ==
  ASSUME MonthTyped, NEW s \in ImportSessions, NEW f \in Files,
         NEW at \in {"new", "again", "parse", "reparse", "read"}, Goes(s, at, f)
  PROVE  /\ importing' \in [ImportSessions -> RequestShapes]
         /\ importing'[s] = [at |-> at, file |-> f]
         /\ \A r \in ImportSessions : r # s => importing'[r] = importing[r]
<1>1. [at |-> at, file |-> f] \in RequestShapes BY DEF RequestShapes
<1>2. QED BY <1>1, RequestMoves DEF Goes

\* It goes on with its publication.
LEMMA SynchronizingGoes ==
  ASSUME MonthTyped, NEW s \in ImportSessions, importing[s].at \in Synchronizing,
         NEW at \in Synchronizing, SyncGoes(s, at)
  PROVE  /\ importing' \in [ImportSessions -> RequestShapes]
         /\ importing'[s] = [at |-> at, file |-> FileOf(s), ranked |-> importing[s].ranked]
         /\ FileOf(s) \in Files
         /\ \A r \in ImportSessions : r # s => importing'[r] = importing[r]
<1> DEFINE x == [at |-> at, file |-> FileOf(s), ranked |-> importing[s].ranked]
<1>1. FileOf(s) \in Files BY RequestShape DEF Synchronizing, IsAt
<1>2. x \in RequestShapes BY <1>1, RequestShape DEF RequestShapes
<1>3. [importing[s] EXCEPT !.at = at] = x
  <2>1. PICK old, f, ranked : old = importing[s] /\ f = FileOf(s) /\ ranked = importing[s].ranked
    OBVIOUS
  <2>2. old = [at |-> old.at, file |-> f, ranked |-> ranked] BY <2>1, RequestShape
  <2>3. [old EXCEPT !.at = at] = [at |-> at, file |-> f, ranked |-> ranked] BY <2>2
  <2>4. QED BY <2>1, <2>3
<1>4. importing' = [importing EXCEPT ![s] = x] BY <1>3 DEF SyncGoes, MonthTyped
<1> HIDE DEF x
<1>5. QED BY <1>1, <1>2, <1>4, RequestMoves DEF x

\* A dataset is written.
LEMMA DatasetWritten ==
  ASSUME MonthTyped, NEW f \in Files, NEW x \in DatasetRows, dataset' = [dataset EXCEPT ![f] = x]
  PROVE  /\ dataset' \in [Files -> DatasetRows] /\ dataset'[f] = x
         /\ \A g \in Files : g # f => dataset'[g] = dataset[g]
BY DEF MonthTyped, DatasetRows

\* A publication stands as long as nothing takes what it stands on.
LEMMA PublicationKept ==
  ASSUME NEW r \in ImportSessions, PublicationStands(r), importing'[r] = importing[r],
         ~crossed' /\ importing[r].at \in Publishing =>
           /\ ~crossed /\ UNCHANGED firestore
           /\ dataset'[FileOf(r)].status = "READY"
           /\ published' # NoFile /\ dataset'[published'].sync # "SYNCED"
           /\ \A q \in ImportSessions \ {r} : importing'[q].at \notin Publishing \cup {"reparse"}
  PROVE  PublicationStands(r)'
<1> SUFFICES ASSUME ~crossed', importing[r].at \in Publishing PROVE PublicationStands(r)'
  BY DEF PublicationStands
<1>1. FileOf(r)' = FileOf(r) BY DEF FileOf
<1>2. \A f : DocumentsShow(f)' = DocumentsShow(f) /\ BoardShows(f)' = BoardShows(f)
  BY DEF DocumentsShow, BoardShows, firestore
<1>3. month' = month BY DEF firestore
<1>4. QED BY <1>1, <1>2, <1>3 DEF PublicationStands, IsAt

\* What is shown stays as long as nobody writes it.
LEMMA SyncedKept ==
  ASSUME SyncedIsShown, UNCHANGED firestore,
         ~crossed' /\ published' # NoFile /\ dataset'[published'].sync = "SYNCED" =>
           ~crossed /\ published' = published /\ dataset[published].sync = "SYNCED"
  PROVE  SyncedIsShown'
<1>1. \A f : DocumentsShow(f)' = DocumentsShow(f) /\ BoardShows(f)' = BoardShows(f)
  BY DEF DocumentsShow, BoardShows, firestore
<1>2. QED BY <1>1 DEF SyncedIsShown, firestore

\* Whoever publishes, uncrossed, is alone.
LEMMA PublisherAlone ==
  ASSUME MonthInv, ~crossed, NEW r \in ImportSessions, importing[r].at \in Publishing
  PROVE  /\ dataset[FileOf(r)].status = "READY" /\ FileOf(r) \in Files
         /\ published \in Files /\ dataset[published].sync # "SYNCED"
         /\ \A q \in ImportSessions \ {r} : importing[q].at \notin Publishing \cup {"reparse"}
<1>1. FileOf(r) \in Files BY RequestShape DEF MonthInv, Publishing, IsAt
<1>2. QED BY <1>1 DEF MonthInv, PublicationStands, MonthTyped


\* A step of one request that writes nothing to Firestore.
LEMMA ImportKeeps ==
  ASSUME MonthInv, NEW s \in ImportSessions, MonthTyped', UNCHANGED firestore,
         \A r \in ImportSessions : r # s => importing'[r] = importing[r],
         \A f \in Files : DatasetHolds(f)',
         \A r \in ImportSessions : UploadStands(r)',
         PublicationStands(s)',
         importing'[s].at \in Synchronizing => ToSet(importing'[s].ranked) \subseteq CodesIn[FileOf(s)'],
         ~crossed' =>
           \A r \in ImportSessions \ {s} : importing[r].at \in Publishing =>
             /\ ~crossed /\ importing'[s].at \notin Publishing \cup {"reparse"}
             /\ dataset'[FileOf(r)].status = "READY"
             /\ published' # NoFile /\ dataset'[published'].sync # "SYNCED",
         ~crossed' /\ published' # NoFile /\ dataset'[published'].sync = "SYNCED" =>
           ~crossed /\ published' = published /\ dataset[published].sync = "SYNCED"
  PROVE  MonthInv'
<1>1. ASSUME NEW r \in ImportSessions, r # s PROVE PublicationStands(r)'
  <2>1. importing'[r] = importing[r] /\ PublicationStands(r) BY <1>1 DEF MonthInv
  <2>2. ASSUME ~crossed', importing[r].at \in Publishing
        PROVE  \A q \in ImportSessions \ {r} : importing'[q].at \notin Publishing \cup {"reparse"}
    <3>1. ~crossed BY <1>1, <2>2
    <3>2. \A q \in ImportSessions \ {r} : importing[q].at \notin Publishing \cup {"reparse"}
      BY <2>2, <3>1, PublisherAlone
    <3>3. QED BY <1>1, <2>2, <3>2
  <2>3. QED BY <1>1, <2>1, <2>2, PublicationKept
<1>2. DocumentsFit'
  <2>1. docs' = docs BY DEF firestore
  <2>2. ASSUME NEW r \in ImportSessions, importing'[r].at \in Synchronizing
        PROVE  ToSet(importing'[r].ranked) \subseteq CodesIn[FileOf(r)']
    <3>1. CASE r = s BY <2>2, <3>1
    <3>2. CASE r # s BY <2>2, <3>2 DEF MonthInv, DocumentsFit, FileOf
    <3>3. QED BY <3>1, <3>2
  <2>3. \A c \in Codes : docs'[c].file \in Files => c \in CodesIn[docs'[c].file]
    BY <2>1 DEF MonthInv, DocumentsFit
  <2>4. QED BY <2>2, <2>3 DEF DocumentsFit
<1>3. SyncedIsShown' BY SyncedKept DEF MonthInv
<1>4. QED BY <1>1, <1>2, <1>3 DEF MonthInv

-----------------------------------------------------------------------------
\* upload_import and publish_import look first.
LEMMA LookKeeps ==
  ASSUME ImportAssumption, MonthInv, NEW s \in ImportSessions, NEW f \in Files,
         UploadLook(s, f) \/ PublishLook(s, f)
  PROVE  MonthInv'
<1>1. PICK x \in RequestShapes :
        /\ importing' = [importing EXCEPT ![s] = x]
        /\ x.at \notin Publishing \cup Synchronizing \cup {"reparse", "parse"}
        /\ x.at = "again" =>
             x.file = f /\ dataset[f].status \notin {"absent", "VALIDATING", "READY"}
  <2>1. CASE UploadLook(s, f)
    <3> DEFINE at == IF dataset[f].status = "absent" THEN "new" ELSE "again"
               x == [at |-> at, file |-> f]
    <3>1. x \in RequestShapes BY DEF RequestShapes
    <3>2. importing' = [importing EXCEPT ![s] = x] BY <2>1 DEF UploadLook, Goes
    <3>3. dataset[f].status \notin {"VALIDATING", "READY"} BY <2>1 DEF UploadLook, AlreadyStored
    <3>4. QED BY <3>1, <3>2, <3>3 DEF Publishing, Synchronizing
  <2>2. CASE PublishLook(s, f)
    <3> DEFINE x == [at |-> "publish", file |-> f, first |-> published = NoFile]
    <3>1. x \in RequestShapes BY DEF RequestShapes
    <3>2. importing' = [importing EXCEPT ![s] = x] BY <2>2 DEF PublishLook
    <3>3. QED BY <3>1, <3>2 DEF Publishing, Synchronizing
  <2>3. QED BY <2>1, <2>2
<1>2. /\ importing' \in [ImportSessions -> RequestShapes] /\ importing'[s] = x
      /\ \A r \in ImportSessions : r # s => importing'[r] = importing[r]
  BY <1>1, RequestMoves DEF MonthInv
<1>3. UNCHANGED <<dataset, published, crossed, firestore>>
  BY DEF UploadLook, PublishLook, imports
<1>4. MonthTyped' BY <1>2, <1>3 DEF MonthInv, MonthTyped
<1>5. \A g \in Files : DatasetHolds(g)' BY <1>3 DEF MonthInv, DatasetHolds
<1>6. ASSUME NEW r \in ImportSessions PROVE UploadStands(r)'
  <2>1. CASE r = s BY <1>1, <1>2, <1>3, <2>1 DEF UploadStands, IsAt, FileOf
  <2>2. CASE r # s BY <1>1, <1>2, <1>3, <2>2 DEF MonthInv, UploadStands, IsAt, FileOf
  <2>3. QED BY <2>1, <2>2
<1>7. PublicationStands(s)' BY <1>1, <1>2 DEF PublicationStands
<1>8. ~crossed' =>
        \A r \in ImportSessions \ {s} : importing[r].at \in Publishing =>
          /\ dataset'[FileOf(r)].status = "READY"
          /\ published' # NoFile /\ dataset'[published'].sync # "SYNCED"
  BY <1>3, PublisherAlone DEF MonthInv, MonthTyped, ImportAssumption
<1>9. QED BY <1>1, <1>2, <1>3, <1>4, <1>5, <1>6, <1>7, <1>8, ImportKeeps

\* A request that ends takes nothing along.
LEMMA EndsKeeps ==
  ASSUME ImportAssumption, MonthInv, NEW s \in ImportSessions, Ends(s),
         UNCHANGED <<dataset, published, crossed, firestore>>
  PROVE  MonthInv'
<1>1. /\ importing' \in [ImportSessions -> RequestShapes] /\ importing'[s] = NoRequestHere
      /\ \A r \in ImportSessions : r # s => importing'[r] = importing[r]
  BY RequestEnds DEF MonthInv
<1>2. NoRequestHere.at \notin Publishing \cup Synchronizing \cup {"parse", "again", "reparse"}
  BY DEF NoRequestHere, Publishing, Synchronizing
<1>3. MonthTyped' BY <1>1 DEF MonthInv, MonthTyped
<1>4. \A g \in Files : DatasetHolds(g)' BY DEF MonthInv, DatasetHolds
<1>5. ASSUME NEW r \in ImportSessions PROVE UploadStands(r)'
  <2>1. CASE r = s BY <1>1, <1>2, <2>1 DEF UploadStands, IsAt
  <2>2. CASE r # s BY <1>1, <1>2, <2>2 DEF MonthInv, UploadStands, IsAt, FileOf
  <2>3. QED BY <2>1, <2>2
<1>6. PublicationStands(s)' BY <1>1, <1>2 DEF PublicationStands
<1>7. ~crossed' =>
        \A r \in ImportSessions \ {s} : importing[r].at \in Publishing =>
          /\ dataset'[FileOf(r)].status = "READY"
          /\ published' # NoFile /\ dataset'[published'].sync # "SYNCED"
  BY PublisherAlone DEF MonthInv, MonthTyped, ImportAssumption
<1>8. QED BY <1>1, <1>2, <1>3, <1>4, <1>5, <1>6, <1>7, ImportKeeps

\* The dataset is inserted, or somebody else has.
LEMMA UploadInsertKeeps ==
  ASSUME ImportAssumption, MonthInv, NEW s \in ImportSessions, UploadInsert(s)
  PROVE  MonthInv'
<1> PICK f : f = FileOf(s) OBVIOUS
<1>1. f \in Files BY RequestShape DEF UploadInsert, IsAt, MonthInv
<1>2. UNCHANGED <<published, crossed, firestore>> BY DEF UploadInsert
<1>3. CASE dataset[f].status = "absent"
  <2> PICK d \in DatasetRows :
        d = [status |-> "VALIDATING", sync |-> dataset[f].sync, rows |-> dataset[f].rows]
    BY <1>1 DEF MonthInv, MonthTyped, DatasetRows
  <2>1. dataset' = [dataset EXCEPT ![f] = d]
    BY <1>1, <1>3 DEF UploadInsert, MonthInv, MonthTyped, DatasetRows
  <2>2. /\ dataset' \in [Files -> DatasetRows] /\ dataset'[f] = d
        /\ \A g \in Files : g # f => dataset'[g] = dataset[g]
    BY <1>1, <2>1, DatasetWritten DEF MonthInv
  <2>3. Goes(s, "parse", f) BY <1>3 DEF UploadInsert
  <2>4. /\ importing' \in [ImportSessions -> RequestShapes]
        /\ importing'[s] = [at |-> "parse", file |-> f]
        /\ \A r \in ImportSessions : r # s => importing'[r] = importing[r]
    BY <1>1, <2>3, RequestGoes DEF MonthInv
  <2>5. MonthTyped' BY <1>2, <2>2, <2>4 DEF MonthInv, MonthTyped
  <2>6. \A g \in Files : DatasetHolds(g)' BY <2>2 DEF MonthInv, DatasetHolds
  <2>7. \A r \in ImportSessions : importing[r].at \in {"parse", "again", "reparse"} => FileOf(r) # f
    BY <1>3 DEF MonthInv, UploadStands, IsAt
  <2>8. ASSUME NEW r \in ImportSessions PROVE UploadStands(r)'
    <3>1. CASE r = s BY <2>2, <2>4, <2>7, <3>1 DEF UploadStands, IsAt, FileOf
    <3>2. CASE r # s
      <4>1. importing[r].at \in {"parse", "again", "reparse"} =>
              FileOf(r) \in Files /\ FileOf(r) # f /\ dataset'[FileOf(r)] = dataset[FileOf(r)]
        BY <2>2, <2>7, RequestShape DEF MonthInv, IsAt
      <4>2. QED BY <2>4, <3>2, <4>1 DEF MonthInv, UploadStands, IsAt, FileOf
    <3>3. QED BY <3>1, <3>2
  <2>9. PublicationStands(s)' BY <2>4 DEF PublicationStands, Publishing
  <2>10. ASSUME ~crossed', NEW r \in ImportSessions \ {s}, importing[r].at \in Publishing
         PROVE  /\ dataset'[FileOf(r)].status = "READY"
                /\ published' # NoFile /\ dataset'[published'].sync # "SYNCED"
    <3>1. /\ dataset[FileOf(r)].status = "READY" /\ FileOf(r) \in Files
          /\ published \in Files /\ dataset[published].sync # "SYNCED"
      BY <1>2, <2>10, PublisherAlone
    <3>2. QED BY <1>2, <1>3, <2>2, <3>1 DEF ImportAssumption
  <2>11. published' # NoFile => dataset'[published'].sync = dataset[published].sync
    BY <1>2, <2>2 DEF MonthInv, MonthTyped
  <2>12. "parse" \notin Publishing \cup Synchronizing \cup {"reparse"} BY DEF Publishing, Synchronizing
  <2>13. QED BY <1>2, <2>4, <2>5, <2>6, <2>8, <2>9, <2>10, <2>11, <2>12, ImportKeeps
<1>4. CASE dataset[f].status # "absent"
  <2>1. Ends(s) /\ dataset' = dataset BY <1>4 DEF UploadInsert
  <2>2. QED BY <1>2, <2>1, EndsKeeps
<1>5. QED BY <1>3, <1>4

\* A FAILED dataset is taken up again.
LEMMA RevalidateKeeps ==
  ASSUME ImportAssumption, MonthInv, NEW s \in ImportSessions, Revalidate(s)
  PROVE  MonthInv'
<1> PICK f : f = FileOf(s) OBVIOUS
<1>1. f \in Files /\ IsAt(s, "again") BY RequestShape DEF Revalidate, IsAt, MonthInv
<1>2. UNCHANGED <<published, firestore>> BY DEF Revalidate
<1> PICK d \in DatasetRows :
      d = [status |-> "VALIDATING", sync |-> "DISABLED", rows |-> dataset[f].rows]
  BY <1>1 DEF MonthInv, MonthTyped, DatasetRows
<1>3. dataset' = [dataset EXCEPT ![f].status = "VALIDATING", ![f].sync = "DISABLED"] BY DEF Revalidate
<1>4. /\ dataset' \in [Files -> DatasetRows] /\ dataset'[f] = d
      /\ \A g \in Files : g # f => dataset'[g] = dataset[g]
  <2>1. dataset \in [Files -> DatasetRows] BY DEF MonthInv, MonthTyped
  <2>2. PICK m : m = [dataset EXCEPT ![f].status = "VALIDATING"] OBVIOUS
  <2>3. dataset' = [m EXCEPT ![f].sync = "DISABLED"] BY <1>3, <2>2, Zenon
  <2>4. /\ m \in [Files -> DatasetRows] /\ \A g \in Files : g # f => m[g] = dataset[g]
        /\ m[f] = [status |-> "VALIDATING", sync |-> dataset[f].sync, rows |-> dataset[f].rows]
    BY <1>1, <2>1, <2>2 DEF DatasetRows
  <2>5. QED BY <1>1, <2>3, <2>4 DEF DatasetRows
<1>5. /\ importing' \in [ImportSessions -> RequestShapes]
      /\ importing'[s] = [at |-> "reparse", file |-> f]
      /\ \A r \in ImportSessions : r # s => importing'[r] = importing[r]
  BY <1>1, RequestGoes DEF MonthInv, Revalidate
<1>6. crossed' \in BOOLEAN /\ (~crossed' => ~crossed)
        /\ (~crossed' => \A r \in ImportSessions : importing[r].at \notin Publishing)
  BY DEF Revalidate, MonthInv, MonthTyped
<1>7. MonthTyped' BY <1>2, <1>4, <1>5, <1>6 DEF MonthInv, MonthTyped
<1>8. \A g \in Files : DatasetHolds(g)' BY <1>4 DEF MonthInv, DatasetHolds
<1>9. ASSUME NEW r \in ImportSessions PROVE UploadStands(r)'
  <2>1. CASE r = s BY <1>4, <1>5, <2>1 DEF UploadStands, IsAt, FileOf
  <2>2. CASE r # s
    <3>1. importing'[r] = importing[r] /\ FileOf(r)' = FileOf(r) BY <1>5, <2>2 DEF FileOf
    <3>2. CASE IsAt(r, "parse")
      <4>1. UploadStands(r) BY DEF MonthInv
      <4>2. FileOf(r) \in Files /\ FileOf(r) # f
        BY <1>1, <2>2, <3>2, <4>1, RequestShape DEF MonthInv, UploadStands, IsAt
      <4>3. dataset'[FileOf(r)] = dataset[FileOf(r)] BY <1>4, <4>2
      <4>4. ASSUME NEW q \in ImportSessions \ {r}, importing'[q].at \in {"parse", "again", "reparse"}
            PROVE  FileOf(q)' # FileOf(r)
        <5>1. CASE q = s BY <1>5, <4>2, <5>1 DEF FileOf
        <5>2. CASE q # s BY <1>5, <3>2, <4>1, <4>4, <5>2 DEF UploadStands, FileOf
        <5>3. QED BY <5>1, <5>2
      <4>5. QED BY <3>1, <3>2, <4>1, <4>3, <4>4 DEF UploadStands, IsAt
    <3>3. CASE ~IsAt(r, "parse")
      <4>1. importing[r].at \in {"again", "reparse"} =>
              FileOf(r) \in Files /\ dataset'[FileOf(r)].status # "absent"
        <5>1. UploadStands(r) BY DEF MonthInv
        <5>2. ASSUME importing[r].at \in {"again", "reparse"}
              PROVE  FileOf(r) \in Files /\ dataset[FileOf(r)].status # "absent"
          BY <5>1, <5>2, RequestShape DEF MonthInv, UploadStands, IsAt
        <5>3. \A g \in Files : dataset[g].status # "absent" => dataset'[g].status # "absent" BY <1>4
        <5>4. QED BY <5>2, <5>3
      <4>2. QED BY <3>1, <3>3, <4>1 DEF UploadStands, IsAt
    <3>4. QED BY <3>2, <3>3
  <2>3. QED BY <2>1, <2>2
<1>10. "reparse" \notin Publishing \cup Synchronizing BY DEF Publishing, Synchronizing
<1>11. PublicationStands(s)' BY <1>5, <1>10 DEF PublicationStands
<1>12. published' # NoFile /\ dataset'[published'].sync = "SYNCED" =>
         dataset[published].sync = "SYNCED"
  BY <1>2, <1>4 DEF MonthInv, MonthTyped
<1>13. QED BY <1>2, <1>5, <1>6, <1>7, <1>8, <1>9, <1>10, <1>11, <1>12, ImportKeeps

\* An upload ends: it fails, or all rows are there.
LEMMA UploadEndsKeeps ==
  ASSUME ImportAssumption, MonthInv, NEW s \in ImportSessions,
         importing[s].at \in {"parse", "reparse"},
         NEW status \in {"READY", "FAILED"}, NEW rows, UploadEnds(s, status, rows),
         rows \subseteq CodesIn[FileOf(s)], status = "READY" => rows = CodesIn[FileOf(s)]
  PROVE  MonthInv'
<1> PICK f : f = FileOf(s) OBVIOUS
<1>1. f \in Files BY RequestShape DEF IsAt, MonthInv
<1>2. UNCHANGED <<published, crossed, firestore>> /\ Ends(s) BY DEF UploadEnds
<1>3. rows \in SUBSET Codes BY <1>1 DEF ImportAssumption
<1> PICK d \in DatasetRows : d = [status |-> status, sync |-> dataset[f].sync, rows |-> rows]
  BY <1>1, <1>3 DEF MonthInv, MonthTyped, DatasetRows
<1>4. dataset' = [dataset EXCEPT ![f].status = status, ![f].rows = rows] BY DEF UploadEnds
<1>5. /\ dataset' \in [Files -> DatasetRows] /\ dataset'[f] = d
      /\ \A g \in Files : g # f => dataset'[g] = dataset[g]
  <2>1. dataset \in [Files -> DatasetRows] BY DEF MonthInv, MonthTyped
  <2>2. PICK m : m = [dataset EXCEPT ![f].status = status] OBVIOUS
  <2>3. dataset' = [m EXCEPT ![f].rows = rows] BY <1>4, <2>2, Zenon
  <2>4. /\ m \in [Files -> DatasetRows] /\ \A g \in Files : g # f => m[g] = dataset[g]
        /\ m[f] = [status |-> status, sync |-> dataset[f].sync, rows |-> dataset[f].rows]
    BY <1>1, <2>1, <2>2 DEF DatasetRows
  <2>5. QED BY <1>1, <1>3, <2>3, <2>4 DEF DatasetRows
<1>6. /\ importing' \in [ImportSessions -> RequestShapes] /\ importing'[s] = NoRequestHere
      /\ \A r \in ImportSessions : r # s => importing'[r] = importing[r]
  BY <1>2, RequestEnds DEF MonthInv
<1>7. NoRequestHere.at \notin Publishing \cup Synchronizing \cup {"parse", "again", "reparse"}
  BY DEF NoRequestHere, Publishing, Synchronizing
<1>8. MonthTyped' BY <1>2, <1>5, <1>6 DEF MonthInv, MonthTyped
<1>9. \A g \in Files : DatasetHolds(g)' BY <1>5 DEF MonthInv, DatasetHolds
<1>10. ASSUME NEW r \in ImportSessions \ {s}, importing[r].at \in {"parse", "again", "reparse"}
       PROVE  /\ FileOf(r) \in Files
              /\ IsAt(r, "parse") => FileOf(r) # f
              /\ IsAt(r, "parse") => dataset'[FileOf(r)] = dataset[FileOf(r)]
              /\ dataset'[FileOf(r)].status = dataset[FileOf(r)].status \/ dataset'[FileOf(r)].status # "absent"
  <2>1. FileOf(r) \in Files BY <1>10, RequestShape DEF IsAt, MonthInv
  <2>2. UploadStands(r) /\ s \in ImportSessions \ {r} BY DEF MonthInv
  <2>3. IsAt(r, "parse") => FileOf(r) # f BY <2>2 DEF UploadStands
  <2>4. QED BY <1>5, <2>1, <2>3
<1>11. ASSUME NEW r \in ImportSessions PROVE UploadStands(r)'
  <2>1. CASE r = s BY <1>6, <1>7, <2>1 DEF UploadStands, IsAt
  <2>2. CASE r # s
    <3>1. importing'[r] = importing[r] /\ FileOf(r)' = FileOf(r) BY <1>6, <2>2 DEF FileOf
    <3>2. \A q \in ImportSessions : importing'[q].at \in {"parse", "again", "reparse"} =>
            importing'[q] = importing[q] /\ FileOf(q)' = FileOf(q)
      BY <1>6, <1>7 DEF FileOf
    <3>3. UploadStands(r) BY DEF MonthInv
    <3>4. QED BY <1>10, <2>2, <3>1, <3>2, <3>3 DEF UploadStands, IsAt
  <2>3. QED BY <2>1, <2>2
<1>12. PublicationStands(s)' BY <1>6, <1>7 DEF PublicationStands
<1>13. ASSUME ~crossed', NEW r \in ImportSessions \ {s}, importing[r].at \in Publishing
       PROVE  /\ dataset'[FileOf(r)].status = "READY"
              /\ published' # NoFile /\ dataset'[published'].sync # "SYNCED"
  <2>1. /\ dataset[FileOf(r)].status = "READY" /\ FileOf(r) \in Files
        /\ published \in Files /\ dataset[published].sync # "SYNCED"
        /\ \A q \in ImportSessions \ {r} : importing[q].at \notin Publishing \cup {"reparse"}
    BY <1>2, <1>13, PublisherAlone
  <2>2. IsAt(s, "parse") BY <2>1 DEF IsAt
  <2>3. dataset[f].status = "VALIDATING" BY <2>2 DEF MonthInv, UploadStands
  <2>4. FileOf(r) # f BY <2>1, <2>3
  <2>5. QED BY <1>2, <1>5, <2>1, <2>4 DEF ImportAssumption
<1>14. published' # NoFile => dataset'[published'].sync = dataset[published].sync
  BY <1>2, <1>5 DEF MonthInv, MonthTyped
<1>15. QED BY <1>2, <1>6, <1>7, <1>8, <1>9, <1>11, <1>12, <1>13, <1>14, ImportKeeps

\* The four ends of a parse.
LEMMA ParseKeeps ==
  ASSUME ImportAssumption, MonthInv, NEW s \in ImportSessions,
         ParseFails(s) \/ ReparseFails(s) \/ StoreSummaries(s) \/ ReplaceSummaries(s)
  PROVE  MonthInv'
<1> PICK f : f = FileOf(s) OBVIOUS
<1>1. importing[s].at \in {"parse", "reparse"}
  BY DEF ParseFails, ReparseFails, StoreSummaries, ReplaceSummaries, IsAt
<1>2. f \in Files BY <1>1, RequestShape DEF IsAt, MonthInv
<1>3. dataset[f].rows \subseteq CodesIn[f] BY <1>2 DEF MonthInv, DatasetHolds
<1>4. \/ UploadEnds(s, "FAILED", dataset[f].rows) \/ UploadEnds(s, "FAILED", {})
      \/ UploadEnds(s, "READY", CodesIn[f])
  BY DEF ParseFails, ReparseFails, StoreSummaries, ReplaceSummaries
<1>5. QED BY <1>1, <1>3, <1>4, UploadEndsKeeps

-----------------------------------------------------------------------------
\* publish_import commits: with mobile_sync_enabled, and without.
LEMMA PublishKeeps ==
  ASSUME ImportAssumption, MonthInv, NEW s \in ImportSessions, PublishCommit(s) \/ PublishUnsynced(s)
  PROVE  MonthInv'
<1> PICK f : f = FileOf(s) OBVIOUS
<1>1. f \in Files BY RequestShape DEF PublishCommit, PublishUnsynced, MayPublish, IsAt, MonthInv
<1>2. published' = f /\ f # NoFile /\ UNCHANGED firestore
  BY <1>1 DEF PublishCommit, PublishUnsynced, ImportAssumption
<1> PICK d \in DatasetRows :
      d = [status |-> dataset[f].status, sync |-> IF PublishCommit(s) THEN "PENDING" ELSE "DISABLED",
           rows |-> dataset[f].rows]
  BY <1>1 DEF MonthInv, MonthTyped, DatasetRows
<1>3. /\ dataset' \in [Files -> DatasetRows] /\ dataset'[f] = d
      /\ \A g \in Files : g # f => dataset'[g] = dataset[g]
  <2>1. dataset \in [Files -> DatasetRows] BY DEF MonthInv, MonthTyped
  <2>2. dataset' = [dataset EXCEPT ![f].sync = d.sync] BY DEF PublishCommit, PublishUnsynced
  <2>3. QED BY <1>1, <2>1, <2>2 DEF DatasetRows
<1>4. \A g \in Files : dataset'[g].status = dataset[g].status /\ dataset'[g].rows = dataset[g].rows
  BY <1>3
<1>5. dataset'[published'].sync # "SYNCED" BY <1>2, <1>3
<1>6. PICK x \in RequestShapes :
        /\ importing' = [importing EXCEPT ![s] = x]
        /\ x.at \notin Synchronizing \cup {"parse", "again", "reparse"}
        /\ x.at \in Publishing => x = [at |-> "read", file |-> f] /\ PublishCommit(s)
  <2>1. CASE PublishCommit(s)
    <3> PICK x : x = [at |-> "read", file |-> f] OBVIOUS
    <3>1. x \in RequestShapes BY <1>1 DEF RequestShapes
    <3>2. QED BY <2>1, <3>1 DEF PublishCommit, Goes, Synchronizing
  <2>2. CASE PublishUnsynced(s)
    <3>1. NoRequestHere \in RequestShapes BY DEF RequestShapes
    <3>2. QED BY <2>2, <3>1 DEF PublishUnsynced, Ends, Synchronizing, Publishing, NoRequestHere
  <2>3. QED BY <2>1, <2>2
<1>7. /\ importing' \in [ImportSessions -> RequestShapes] /\ importing'[s] = x
      /\ \A r \in ImportSessions : r # s => importing'[r] = importing[r]
  BY <1>6, RequestMoves DEF MonthInv
<1>8. crossed' \in BOOLEAN
  BY DEF PublishCommit, PublishUnsynced, MonthInv, MonthTyped
<1>9. ASSUME ~crossed', PublishCommit(s)
      PROVE  /\ dataset[f].status = "READY"
             /\ \A r \in ImportSessions \ {s} : importing[r].at \notin Publishing \cup {"reparse"}
  BY <1>9 DEF PublishCommit
<1>10. MonthTyped' BY <1>1, <1>2, <1>3, <1>7, <1>8 DEF MonthTyped
<1>11. \A g \in Files : DatasetHolds(g)' BY <1>4 DEF MonthInv, DatasetHolds
<1>12. ASSUME NEW r \in ImportSessions PROVE UploadStands(r)'
  <2>1. CASE r = s BY <1>6, <1>7, <2>1 DEF UploadStands, IsAt
  <2>2. CASE r # s
    <3>1. importing'[r] = importing[r] /\ FileOf(r)' = FileOf(r) BY <1>7, <2>2 DEF FileOf
    <3>2. \A q \in ImportSessions : importing'[q].at \in {"parse", "again", "reparse"} =>
            importing'[q] = importing[q] /\ FileOf(q)' = FileOf(q)
      BY <1>6, <1>7 DEF FileOf
    <3>3. importing[r].at \in {"parse", "again", "reparse"} =>
            dataset'[FileOf(r)].status = dataset[FileOf(r)].status
      BY <1>4, RequestShape DEF MonthInv, IsAt
    <3>4. UploadStands(r) BY DEF MonthInv
    <3>5. QED BY <3>1, <3>2, <3>3, <3>4 DEF UploadStands, IsAt
  <2>3. QED BY <2>1, <2>2
<1>13. PublicationStands(s)'
  <2> SUFFICES ASSUME ~crossed', x.at \in Publishing PROVE PublicationStands(s)'
    BY <1>7 DEF PublicationStands
  <2>1. importing'[s] = [at |-> "read", file |-> f] /\ PublishCommit(s) BY <1>6, <1>7
  <2>2. FileOf(s)' = f /\ dataset'[f].status = "READY" BY <1>1, <1>4, <1>9, <2>1 DEF FileOf
  <2>3. \A r \in ImportSessions \ {s} : importing'[r].at \notin Publishing \cup {"reparse"}
    BY <1>7, <1>9, <2>1
  <2>4. QED BY <1>2, <1>5, <2>1, <2>2, <2>3 DEF PublicationStands, IsAt
<1>14. ASSUME ~crossed', NEW r \in ImportSessions \ {s}, importing[r].at \in Publishing
       PROVE  /\ ~crossed /\ importing'[s].at \notin Publishing \cup {"reparse"}
              /\ dataset'[FileOf(r)].status = "READY"
  <2>1. ~PublishCommit(s) BY <1>9, <1>14
  <2>2. ~crossed /\ importing'[s].at \notin Publishing
    BY <1>6, <1>7, <1>14, <2>1 DEF PublishUnsynced
  <2>3. QED BY <1>4, <1>6, <1>7, <1>14, <2>2, PublisherAlone
<1>15. QED
  BY <1>2, <1>5, <1>6, <1>7, <1>10, <1>11, <1>12, <1>13, <1>14, ImportKeeps

\* build_mobile_payload reads the rows.
LEMMA ReadKeeps ==
  ASSUME ImportAssumption, MonthInv, NEW s \in ImportSessions, ReadRows(s)
  PROVE  MonthInv'
<1> PICK f : f = FileOf(s) OBVIOUS
<1>1. f \in Files /\ importing[s].at = "read" BY RequestShape DEF ReadRows, IsAt, MonthInv
<1>2. UNCHANGED <<dataset, published, crossed, firestore>> BY DEF ReadRows, imports
<1> PICK ranked : ranked = Ranked(f, dataset[f].rows) OBVIOUS
<1>3. ranked \in Seq(Codes) /\ ToSet(ranked) \subseteq CodesIn[f]
  <2>1. dataset[f].rows \subseteq CodesIn[f] BY <1>1 DEF MonthInv, DatasetHolds
  <2>2. dataset[f].rows \subseteq Codes /\ IsFiniteSet(dataset[f].rows)
    BY <1>1, <2>1, FS_Subset DEF ImportAssumption
  <2>3. QED BY <1>1, <2>1, <2>2, RankedLists
<1>4. /\ importing' \in [ImportSessions -> RequestShapes]
      /\ importing'[s] = [at |-> "month", file |-> f, ranked |-> ranked]
      /\ \A r \in ImportSessions : r # s => importing'[r] = importing[r]
  <2> PICK x : x = [at |-> "month", file |-> f, ranked |-> ranked] OBVIOUS
  <2>1. x \in RequestShapes BY <1>1, <1>3 DEF RequestShapes, Synchronizing
  <2>2. importing' = [importing EXCEPT ![s] = x] BY DEF ReadRows
  <2>3. QED BY <2>1, <2>2, RequestMoves DEF MonthInv
<1>5. MonthTyped' BY <1>2, <1>4 DEF MonthInv, MonthTyped
<1>6. \A g \in Files : DatasetHolds(g)' BY <1>2 DEF MonthInv, DatasetHolds
<1>7. ASSUME NEW r \in ImportSessions PROVE UploadStands(r)'
  <2>1. CASE r = s BY <1>4, <2>1 DEF UploadStands, IsAt
  <2>2. CASE r # s BY <1>2, <1>4, <2>2 DEF MonthInv, UploadStands, IsAt, FileOf
  <2>3. QED BY <2>1, <2>2
<1>8. ~crossed => \A r \in ImportSessions \ {s} : importing[r].at \notin Publishing \cup {"reparse"}
  BY <1>1, PublisherAlone DEF Publishing
<1>9. PublicationStands(s)'
  <2> SUFFICES ASSUME ~crossed' PROVE PublicationStands(s)' BY DEF PublicationStands
  <2>1. /\ dataset[f].status = "READY" /\ published \in Files /\ dataset[published].sync # "SYNCED"
        /\ dataset[f].rows = CodesIn[f]
    BY <1>1, <1>2, PublisherAlone DEF Publishing, MonthInv, DatasetHolds
  <2>2. FileOf(s)' = f BY <1>4 DEF FileOf
  <2>3. \A r \in ImportSessions \ {s} : importing'[r].at \notin Publishing \cup {"reparse"}
    BY <1>2, <1>4, <1>8
  <2>4. QED BY <1>2, <1>4, <2>1, <2>2, <2>3 DEF PublicationStands, IsAt, ImportAssumption
<1>10. ToSet(importing'[s].ranked) \subseteq CodesIn[FileOf(s)'] BY <1>3, <1>4 DEF FileOf
<1>11. QED BY <1>2, <1>4, <1>5, <1>6, <1>7, <1>8, <1>9, <1>10, ImportKeeps

\* The end of a publication, however it went.
LEMMA SyncEndsKeeps ==
  ASSUME ImportAssumption, MonthInv, NEW s \in ImportSessions, WriteSynced(s) \/ SyncFails(s)
  PROVE  MonthInv'
<1> PICK f : f = FileOf(s) OBVIOUS
<1>1. importing[s].at \in Publishing BY DEF WriteSynced, SyncFails, IsAt, Publishing
<1>2. f \in Files BY <1>1, RequestShape DEF Publishing, IsAt, MonthInv
<1>3. PICK sync \in {"SYNCED", "FAILED"} : SyncEnds(s, sync) /\ (sync = "SYNCED" => IsAt(s, "done"))
  BY DEF WriteSynced, SyncFails
<1>4. UNCHANGED <<published, crossed, firestore>> /\ Ends(s) BY <1>3 DEF SyncEnds
<1> PICK d \in DatasetRows : d = [status |-> dataset[f].status, sync |-> sync, rows |-> dataset[f].rows]
  BY <1>2 DEF MonthInv, MonthTyped, DatasetRows
<1>5. /\ dataset' \in [Files -> DatasetRows] /\ dataset'[f] = d
      /\ \A g \in Files : g # f => dataset'[g] = dataset[g]
  <2>1. dataset \in [Files -> DatasetRows] BY DEF MonthInv, MonthTyped
  <2>2. dataset' = [dataset EXCEPT ![f].sync = sync] BY <1>3 DEF SyncEnds
  <2>3. QED BY <1>2, <2>1, <2>2 DEF DatasetRows
<1>6. \A g \in Files : dataset'[g].status = dataset[g].status /\ dataset'[g].rows = dataset[g].rows
  BY <1>5
<1>7. /\ importing' \in [ImportSessions -> RequestShapes] /\ importing'[s] = NoRequestHere
      /\ \A r \in ImportSessions : r # s => importing'[r] = importing[r]
  BY <1>4, RequestEnds DEF MonthInv
<1>8. NoRequestHere.at \notin Publishing \cup Synchronizing \cup {"parse", "again", "reparse"}
  BY DEF NoRequestHere, Publishing, Synchronizing
<1>9. MonthTyped' BY <1>4, <1>5, <1>7 DEF MonthInv, MonthTyped
<1>10. \A g \in Files : DatasetHolds(g)' BY <1>6 DEF MonthInv, DatasetHolds
<1>11. ASSUME NEW r \in ImportSessions PROVE UploadStands(r)'
  <2>1. CASE r = s BY <1>7, <1>8, <2>1 DEF UploadStands, IsAt
  <2>2. CASE r # s
    <3>1. importing'[r] = importing[r] /\ FileOf(r)' = FileOf(r) BY <1>7, <2>2 DEF FileOf
    <3>2. \A q \in ImportSessions : importing'[q].at \in {"parse", "again", "reparse"} =>
            importing'[q] = importing[q] /\ FileOf(q)' = FileOf(q)
      BY <1>7, <1>8 DEF FileOf
    <3>3. importing[r].at \in {"parse", "again", "reparse"} =>
            dataset'[FileOf(r)].status = dataset[FileOf(r)].status
      BY <1>6, RequestShape DEF MonthInv, IsAt
    <3>4. UploadStands(r) BY DEF MonthInv
    <3>5. QED BY <3>1, <3>2, <3>3, <3>4 DEF UploadStands, IsAt
  <2>3. QED BY <2>1, <2>2
<1>12. ASSUME NEW r \in ImportSessions PROVE PublicationStands(r)'
  <2>1. CASE r = s BY <1>7, <1>8, <2>1 DEF PublicationStands
  <2>2. CASE r # s
    <3>1. ~crossed => importing[r].at \notin Publishing BY <1>1, <2>2, PublisherAlone
    <3>2. QED BY <1>4, <1>7, <2>2, <3>1 DEF PublicationStands
  <2>3. QED BY <2>1, <2>2
<1>13. DocumentsFit'
  <2>1. docs' = docs BY <1>4 DEF firestore
  <2>2. \A r \in ImportSessions : importing'[r].at \in Synchronizing =>
          importing'[r] = importing[r] /\ FileOf(r)' = FileOf(r)
    BY <1>7, <1>8 DEF FileOf
  <2>3. QED BY <2>1, <2>2 DEF MonthInv, DocumentsFit
<1>14. SyncedIsShown'
  <2> SUFFICES ASSUME published' # NoFile, dataset'[published'].sync = "SYNCED", ~crossed'
               PROVE  SyncedIsShown'
    BY DEF SyncedIsShown
  <2>1. /\ published \in Files /\ dataset[published].sync # "SYNCED" /\ ~crossed
    BY <1>1, <1>4, PublisherAlone
  <2>2. published = f /\ sync = "SYNCED" /\ IsAt(s, "done") BY <1>3, <1>4, <1>5, <2>1
  <2>3. month = f /\ DocumentsShow(f) /\ BoardShows(f)
    BY <1>1, <2>1, <2>2 DEF MonthInv, PublicationStands, IsAt
  <2>4. month' = f /\ DocumentsShow(f)' /\ BoardShows(f)'
    BY <1>4, <2>3 DEF firestore, DocumentsShow, BoardShows
  <2>5. QED BY <1>4, <2>2, <2>4 DEF SyncedIsShown
<1>15. QED BY <1>9, <1>10, <1>11, <1>12, <1>13, <1>14 DEF MonthInv

\* A write into Firestore, in its place among the three.
LEMMA WriteKeeps ==
  ASSUME ImportAssumption, MonthInv, NEW s \in ImportSessions, importing[s].at \in Synchronizing,
         NEW at \in {"docs", "board", "done"}, SyncGoes(s, at), NEW f, f = FileOf(s),
         UNCHANGED <<dataset, published, crossed>>,
         \A c \in Codes : docs'[c].file \in Files => c \in CodesIn[docs'[c].file],
         ~crossed => /\ month' = f
                     /\ at \in {"board", "done"} => DocumentsShow(f)'
                     /\ at = "done" => BoardShows(f)'
  PROVE  MonthInv'
<1> PICK ranked : ranked = importing[s].ranked OBVIOUS
<1>1. importing[s].at \in Publishing /\ ~IsAt(s, "read") BY DEF Synchronizing, Publishing, IsAt
<1>2. /\ importing' \in [ImportSessions -> RequestShapes] /\ f \in Files
      /\ importing'[s] = [at |-> at, file |-> f, ranked |-> ranked]
      /\ \A r \in ImportSessions : r # s => importing'[r] = importing[r]
  BY SynchronizingGoes DEF MonthInv, Synchronizing
<1>3. MonthTyped' BY <1>2 DEF MonthInv, MonthTyped
<1>4. \A g \in Files : DatasetHolds(g)' BY DEF MonthInv, DatasetHolds
<1>5. ASSUME NEW r \in ImportSessions PROVE UploadStands(r)'
  <2>1. CASE r = s BY <1>2, <2>1 DEF UploadStands, IsAt
  <2>2. CASE r # s BY <1>2, <2>2 DEF MonthInv, UploadStands, IsAt, FileOf
  <2>3. QED BY <2>1, <2>2
<1>6. ~crossed => \A r \in ImportSessions \ {s} : importing[r].at \notin Publishing \cup {"reparse"}
  BY <1>1, PublisherAlone
<1>7. ASSUME NEW r \in ImportSessions PROVE PublicationStands(r)'
  <2>1. CASE r = s
    <3> SUFFICES ASSUME ~crossed' PROVE PublicationStands(s)' BY <2>1 DEF PublicationStands
    <3>1. /\ dataset[f].status = "READY" /\ published # NoFile /\ dataset[published].sync # "SYNCED"
          /\ ranked = Ranked(f, CodesIn[f])
      BY <1>1 DEF MonthInv, PublicationStands
    <3>2. FileOf(s)' = f BY <1>2 DEF FileOf
    <3>3. \A q \in ImportSessions \ {s} : importing'[q].at \notin Publishing \cup {"reparse"}
      BY <1>2, <1>6
    <3>4. DocumentsShow(FileOf(s))' <=> DocumentsShow(f)' BY <3>2 DEF DocumentsShow
    <3>5. BoardShows(FileOf(s))' <=> BoardShows(f)' BY <3>2 DEF BoardShows
    <3>6. QED BY <1>2, <3>1, <3>2, <3>3, <3>4, <3>5 DEF PublicationStands, IsAt
  <2>2. CASE r # s BY <1>2, <1>6, <2>2 DEF PublicationStands
  <2>3. QED BY <2>1, <2>2
<1>8. DocumentsFit'
  <2>1. ASSUME NEW r \in ImportSessions, importing'[r].at \in Synchronizing
        PROVE  ToSet(importing'[r].ranked) \subseteq CodesIn[FileOf(r)']
    <3>1. importing'[r].ranked = importing[r].ranked /\ FileOf(r)' = FileOf(r)
            /\ importing[r].at \in Synchronizing
      BY <1>2, <2>1 DEF FileOf
    <3>2. QED BY <3>1 DEF MonthInv, DocumentsFit
  <2>2. QED BY <2>1 DEF DocumentsFit
<1>9. SyncedIsShown' BY <1>1, PublisherAlone DEF SyncedIsShown
<1>10. QED BY <1>3, <1>4, <1>5, <1>7, <1>8, <1>9 DEF MonthInv

\* What an uncrossed publication has written before.
LEMMA WrittenSoFar ==
  ASSUME MonthInv, ~crossed, NEW s \in ImportSessions, importing[s].at \in Synchronizing
  PROVE  /\ importing[s].ranked = Ranked(FileOf(s), CodesIn[FileOf(s)])
         /\ importing[s].at \in {"docs", "board"} => month = FileOf(s)
         /\ IsAt(s, "board") => DocumentsShow(FileOf(s))
BY DEF MonthInv, PublicationStands, Synchronizing, Publishing, IsAt

\* The month is written,
LEMMA WriteMonthKeeps ==
  ASSUME ImportAssumption, MonthInv, NEW s \in ImportSessions, WriteMonth(s)
  PROVE  MonthInv'
<1>1. importing[s].at \in Synchronizing BY DEF WriteMonth, IsAt, Synchronizing
<1>2. SyncGoes(s, "docs") /\ UNCHANGED <<dataset, published, crossed, docs>> /\ month' = FileOf(s)
  BY DEF WriteMonth, imports
<1>3. \A c \in Codes : docs'[c].file \in Files => c \in CodesIn[docs'[c].file]
  BY <1>2 DEF MonthInv, DocumentsFit
<1> PICK f : f = FileOf(s) OBVIOUS
<1>4. QED BY <1>1, <1>2, <1>3, WriteKeeps

\* the documents of its employees,
LEMMA WriteEmployeesKeeps ==
  ASSUME ImportAssumption, MonthInv, NEW s \in ImportSessions, WriteEmployees(s)
  PROVE  MonthInv'
<1> PICK f, ranked : f = FileOf(s) /\ ranked = importing[s].ranked OBVIOUS
<1>1. importing[s].at \in Synchronizing /\ importing[s].at = "docs" /\ f \in Files
  BY RequestShape DEF WriteEmployees, IsAt, Synchronizing, MonthInv
<1>2. /\ SyncGoes(s, "board") /\ UNCHANGED <<dataset, published, crossed, month>>
      /\ docs' = [c \in Codes |-> IF c \in ToSet(ranked) THEN Document(s, c) ELSE docs[c]]
  BY DEF WriteEmployees, imports
<1>3. \A c : Document(s, c) = [file |-> f, rank |-> Place(ranked, c)] BY DEF Document, Place
<1>4. ToSet(ranked) \subseteq CodesIn[f] BY <1>1 DEF MonthInv, DocumentsFit
<1>5. ASSUME NEW c \in Codes, docs'[c].file \in Files PROVE c \in CodesIn[docs'[c].file]
  <2>1. CASE c \in ToSet(ranked)
    <3>1. docs'[c].file = f BY <1>2, <1>3, <2>1
    <3>2. QED BY <1>4, <2>1, <3>1
  <2>2. CASE c \notin ToSet(ranked)
    <3>1. docs'[c] = docs[c] BY <1>2, <2>2
    <3>2. QED BY <1>5, <3>1 DEF MonthInv, DocumentsFit
  <2>3. QED BY <2>1, <2>2
<1>6. ~crossed => month' = f /\ DocumentsShow(f)'
  <2> SUFFICES ASSUME ~crossed PROVE month' = f /\ DocumentsShow(f)' OBVIOUS
  <2>1. ranked = Ranked(f, CodesIn[f]) /\ month = f BY <1>1, WrittenSoFar
  <2>2. CodesIn[f] \subseteq Codes /\ IsFiniteSet(CodesIn[f]) BY <1>1 DEF ImportAssumption
  <2>3. ToSet(ranked) = CodesIn[f] BY <1>1, <2>1, <2>2, RankedLists
  <2>4. \A c \in CodesIn[f] : docs'[c] = Document(s, c) BY <1>2, <2>2, <2>3
  <2>5. QED BY <1>2, <1>3, <2>1, <2>4 DEF DocumentsShow
<1>7. QED BY <1>1, <1>2, <1>5, <1>6, WriteKeeps

\* and the board.
LEMMA WriteBoardKeeps ==
  ASSUME ImportAssumption, MonthInv, NEW s \in ImportSessions, WriteBoard(s)
  PROVE  MonthInv'
<1> PICK f, ranked : f = FileOf(s) /\ ranked = importing[s].ranked OBVIOUS
<1>1. importing[s].at \in Synchronizing /\ IsAt(s, "board") /\ importing[s].at = "board"
  BY DEF WriteBoard, IsAt, Synchronizing
<1>2. /\ SyncGoes(s, "done") /\ UNCHANGED <<dataset, published, crossed, month, docs>>
      /\ board' = [file |-> f, top |-> TopOf(ranked)]
  BY DEF WriteBoard, imports, TopOf
<1>3. \A c \in Codes : docs'[c].file \in Files => c \in CodesIn[docs'[c].file]
  BY <1>2 DEF MonthInv, DocumentsFit
<1>4. ~crossed => month' = f /\ DocumentsShow(f)' /\ BoardShows(f)'
  BY <1>1, <1>2, WrittenSoFar DEF DocumentsShow, BoardShows
<1>5. QED BY <1>1, <1>2, <1>3, <1>4, WriteKeeps

-----------------------------------------------------------------------------
\* The invariant holds at first,
LEMMA MonthInitInv == ASSUME ImportAssumption PROVE ImportsInit => MonthInv
<1> SUFFICES ASSUME ImportsInit PROVE MonthInv OBVIOUS
<1>1. NotUploaded \in DatasetRows /\ NoRequestHere \in RequestShapes
  BY DEF NotUploaded, DatasetRows, RequestShapes
<1>2. MonthTyped BY <1>1 DEF ImportsInit, MonthTyped
<1>3. \A f \in Files : DatasetHolds(f) BY DEF ImportsInit, DatasetHolds, NotUploaded
<1>4. \A s \in ImportSessions : UploadStands(s) /\ PublicationStands(s)
  BY DEF ImportsInit, UploadStands, PublicationStands, IsAt, NoRequestHere, Publishing
<1>5. DocumentsFit
  BY DEF ImportsInit, DocumentsFit, NoDocument, NoRequestHere, Synchronizing, ImportAssumption
<1>6. SyncedIsShown BY DEF ImportsInit, SyncedIsShown
<1>7. QED BY <1>2, <1>3, <1>4, <1>5, <1>6 DEF MonthInv

\* and every step preserves it.
LEMMA MonthKeeps == ASSUME ImportAssumption, MonthInv, [ImportsNext]_mvars PROVE MonthInv'
<1>1. CASE UNCHANGED mvars \/ StaffChanges
  <2>1. UNCHANGED <<dataset, published, month, docs, board, importing, crossed>>
    BY <1>1 DEF mvars, imports, firestore, StaffChanges
  <2>2. MonthTyped' BY <2>1 DEF MonthInv, MonthTyped
  <2>3. \A f \in Files : DatasetHolds(f)' BY <2>1 DEF MonthInv, DatasetHolds
  <2>4. \A f : DocumentsShow(f)' = DocumentsShow(f) /\ BoardShows(f)' = BoardShows(f)
    BY <2>1 DEF DocumentsShow, BoardShows
  <2>5. \A s \in ImportSessions : UploadStands(s)'
    BY <2>1 DEF MonthInv, UploadStands, IsAt, FileOf
  <2>6. ASSUME NEW s \in ImportSessions PROVE PublicationStands(s)'
    <3>1. FileOf(s)' = FileOf(s) BY <2>1 DEF FileOf
    <3>2. DocumentsShow(FileOf(s))' = DocumentsShow(FileOf(s)) BY <2>1, <3>1 DEF DocumentsShow
    <3>3. BoardShows(FileOf(s))' = BoardShows(FileOf(s)) BY <2>1, <3>1 DEF BoardShows
    <3>4. QED BY <2>1, <3>1, <3>2, <3>3 DEF MonthInv, PublicationStands, IsAt
  <2>7. DocumentsFit' BY <2>1 DEF MonthInv, DocumentsFit, FileOf
  <2>8. SyncedIsShown'
    <3>1. UNCHANGED firestore BY <2>1 DEF firestore
    <3>2. QED BY <2>1, <3>1, SyncedKept DEF MonthInv
  <2>9. QED BY <2>2, <2>3, <2>5, <2>6, <2>7, <2>8 DEF MonthInv
<1>2. CASE \E s \in ImportSessions :
             \/ \E f \in Files : UploadLook(s, f) \/ PublishLook(s, f)
             \/ UploadInsert(s) \/ ParseFails(s) \/ StoreSummaries(s)
             \/ Revalidate(s) \/ ReparseFails(s) \/ ReplaceSummaries(s)
             \/ PublishCommit(s) \/ PublishUnsynced(s)
             \/ ReadRows(s) \/ WriteMonth(s) \/ WriteEmployees(s) \/ WriteBoard(s)
             \/ WriteSynced(s) \/ SyncFails(s) \/ RequestDies(s)
  <2> PICK s \in ImportSessions :
             \/ \E f \in Files : UploadLook(s, f) \/ PublishLook(s, f)
             \/ UploadInsert(s) \/ ParseFails(s) \/ StoreSummaries(s)
             \/ Revalidate(s) \/ ReparseFails(s) \/ ReplaceSummaries(s)
             \/ PublishCommit(s) \/ PublishUnsynced(s)
             \/ ReadRows(s) \/ WriteMonth(s) \/ WriteEmployees(s) \/ WriteBoard(s)
             \/ WriteSynced(s) \/ SyncFails(s) \/ RequestDies(s)
    BY <1>2
  <2>1. CASE \E f \in Files : UploadLook(s, f) \/ PublishLook(s, f) BY <2>1, LookKeeps
  <2>2. CASE UploadInsert(s) BY <2>2, UploadInsertKeeps
  <2>3. CASE ParseFails(s) \/ ReparseFails(s) \/ StoreSummaries(s) \/ ReplaceSummaries(s)
    BY <2>3, ParseKeeps
  <2>4. CASE Revalidate(s) BY <2>4, RevalidateKeeps
  <2>5. CASE PublishCommit(s) \/ PublishUnsynced(s) BY <2>5, PublishKeeps
  <2>6. CASE ReadRows(s) BY <2>6, ReadKeeps
  <2>7. CASE WriteMonth(s) BY <2>7, WriteMonthKeeps
  <2>8. CASE WriteEmployees(s) BY <2>8, WriteEmployeesKeeps
  <2>9. CASE WriteBoard(s) BY <2>9, WriteBoardKeeps
  <2>10. CASE WriteSynced(s) \/ SyncFails(s) BY <2>10, SyncEndsKeeps
  <2>11. CASE RequestDies(s)
    <3>1. Ends(s) /\ UNCHANGED <<dataset, published, crossed, firestore>>
      BY <2>11 DEF RequestDies, imports
    <3>2. QED BY <3>1, EndsKeeps
  <2>12. QED
    BY <2>1, <2>2, <2>3, <2>4, <2>5, <2>6, <2>7, <2>8, <2>9, <2>10, <2>11
<1>3. QED BY <1>1, <1>2 DEF ImportsNext

\* Documents and board that show a workbook show it whole.
LEMMA ShownIsWhole ==
  ASSUME ImportAssumption, MonthInv PROVE MonthShownIsWhole
<1>1. \A f \in Files : dataset[f].status = "READY" => dataset[f].rows = CodesIn[f]
  BY DEF MonthInv, DatasetHolds
<1>2. ASSUME published # NoFile, dataset[published].sync = "SYNCED", ~crossed
      PROVE  /\ month = published /\ board.file = published
             /\ {c \in Codes : docs[c].file = published} = CodesIn[published]
             /\ Len(board.top) = IF Cardinality(CodesIn[published]) < BoardLimit
                                 THEN Cardinality(CodesIn[published]) ELSE BoardLimit
             /\ \A i \in DOMAIN board.top : docs[board.top[i]] = [file |-> published, rank |-> i]
  <2> PICK f \in Files : f = published BY <1>2 DEF MonthInv, MonthTyped
  <2> PICK codes, ranked : codes = CodesIn[f] /\ ranked = Ranked(f, CodesIn[f]) OBVIOUS
  <2>1. month = f /\ DocumentsShow(f) /\ BoardShows(f) BY <1>2 DEF MonthInv, SyncedIsShown
  <2>2. codes \subseteq Codes /\ IsFiniteSet(codes) BY DEF ImportAssumption
  <2>3. /\ ranked \in Seq(Codes) /\ Len(ranked) = Cardinality(codes) /\ ToSet(ranked) = codes
        /\ \A i, j \in DOMAIN ranked : ranked[i] = ranked[j] => i = j
    BY <2>2, RankedLists
  <2>4. \A c \in codes : docs[c] = [file |-> f, rank |-> Place(ranked, c)]
    BY <2>1 DEF DocumentsShow
  <2>5. {c \in Codes : docs[c].file = f} = codes
    <3>1. \A c \in Codes : docs[c].file = f => c \in codes BY DEF MonthInv, DocumentsFit
    <3>2. ASSUME NEW c \in codes PROVE docs[c].file = f
      <4>1. docs[c] = [file |-> f, rank |-> Place(ranked, c)] BY <2>4
      <4>2. QED BY <4>1
    <3>3. QED BY <2>2, <3>1, <3>2
  <2>6. board.file = f /\ board.top = TopOf(ranked) BY <2>1 DEF BoardShows
  <2>7. /\ Len(TopOf(ranked)) = IF Len(ranked) < BoardLimit THEN Len(ranked) ELSE BoardLimit
        /\ \A i \in DOMAIN TopOf(ranked) : i \in DOMAIN ranked /\ TopOf(ranked)[i] = ranked[i]
    BY <2>3, TopLists
  <2>8. ASSUME NEW i \in DOMAIN ranked PROVE docs[ranked[i]] = [file |-> f, rank |-> i]
    <3>1. ranked[i] \in codes BY <2>3, <2>8 DEF ToSet
    <3>2. Place(ranked, ranked[i]) = i BY <2>3, <2>8 DEF Place
    <3>3. QED BY <2>4, <3>1, <3>2
  <2>9. QED BY <2>1, <2>3, <2>5, <2>6, <2>7, <2>8
<1>3. QED BY <1>1, <1>2 DEF MonthShownIsWhole

\* A dataset that is READY has all the rows of its workbook, and a month that
\* counts as SYNCED, its publication crossed by nothing, is what the mobile
\* application shows: for any number of workbooks, employees and requests,
\* and wherever earlier publications and uploads broke off
\* (backend/app/api/v1/imports.py, backend/app/mobile/service.py).
THEOREM MonthShownIsWholeCorrect == ImportsSpec => []MonthShownIsWhole
<1> USE ImportAssumption
<1>1. ImportsInit => MonthInv BY MonthInitInv
<1>2. MonthInv /\ [ImportsNext]_mvars => MonthInv' BY MonthKeeps
<1>3. MonthInv => MonthShownIsWhole BY ShownIsWhole
<1>4. QED BY <1>1, <1>2, <1>3, PTL DEF ImportsSpec

=============================================================================
