--------------------------- MODULE MobileAccounts ---------------------------
(***************************************************************************)
(* Who may use the mobile application: backend/app/mobile/                 *)
(* accounts_service.py.  The row of mobile_accounts is the source of       *)
(* truth; a user of Firebase Auth and a document users/{uid} in Firestore  *)
(* follow it, by calls made after the row is committed.                    *)
(***************************************************************************)
EXTENDS Naturals, FiniteSets

CONSTANTS People,           \* employees of the branch
          NoPerson,
          MaxUids,          \* bound: users of Firebase Auth
          AccountSessions   \* requests of administrators

ASSUME AccountAssumption == NoPerson \notin People /\ MaxUids \in Nat

VARIABLES employed,  \* employees who are ACTIVE in the branch
          account,   \* [People -> row of mobile_accounts; uid 0 when there is none]
          signin,    \* Firebase Auth: [uid -> "none", "enabled" or "disabled"]
          mapping,   \* Firestore users/{uid}
          handling,  \* [AccountSessions -> the request under way, or Unused]
          smooth     \* history: the last request about somebody crossed no other and did not fail

uids == 1..MaxUids
firebase == <<signin, mapping>>
avars == <<employed, account, firebase, handling, smooth>>

Unused == [at |-> "unused", person |-> NoPerson]
NoAccount == [uid |-> 0, active |-> FALSE]

AccountsInit ==
  /\ employed = People
  /\ account = [p \in People |-> NoAccount]
  /\ signin = [u \in uids |-> "none"]
  /\ mapping = [u \in uids |-> [person |-> NoPerson, active |-> FALSE]]
  /\ handling = [s \in AccountSessions |-> Unused]
  /\ smooth = [p \in People |-> TRUE]

Leaves(p) ==
  /\ employed' = (employed \cup {p}) \ (employed \cap {p})
  /\ UNCHANGED <<account, firebase, handling, smooth>>

Stage(s) == handling[s].at
Person(s) == handling[s].person
HeldRow(s) == handling[s].row

\* The request goes on with the row as its session has it.
Proceeds(s, at, row) == handling' = [handling EXCEPT ![s].at = at, ![s].row = row]

\* What a request reads first is the row of its employee.
Alone(p) == \A s \in AccountSessions : Person(s) # p

StartsWith(s, p, kind, at) ==
  /\ handling[s] = Unused
  /\ handling' = [handling EXCEPT ![s] = [kind |-> kind, at |-> at, person |-> p,
                                          row |-> account[p]]]
  /\ UNCHANGED <<employed, account, firebase>>

Provision(s, p) ==
  /\ p \in employed
  /\ IF account[p] = NoAccount THEN StartsWith(s, p, "create", "create")
     ELSE StartsWith(s, p, "reactivate", "reactivate")
  /\ smooth' = [smooth EXCEPT ![p] = Alone(p)]

Revoke(s, p) ==
  /\ account[p] # NoAccount /\ StartsWith(s, p, "revoke", "deactivate")
  /\ smooth' = [smooth EXCEPT ![p] = Alone(p)]

\* Repairs the document, not the user.
Resync(s, p) ==
  /\ account[p] # NoAccount /\ p \in employed /\ StartsWith(s, p, "resync", "map")
  /\ smooth' = [smooth EXCEPT ![p] = @ /\ Alone(p)]

\* _firebase_create_user.
CreateUser(s) ==
  /\ Stage(s) = "create"
  /\ \E u \in uids :
       /\ signin[u] = "none" /\ \A v \in uids : v < u => signin[v] # "none"
       /\ signin' = [signin EXCEPT ![u] = "enabled"]
       /\ Proceeds(s, "insert", [uid |-> u, active |-> TRUE])
  /\ UNCHANGED <<employed, account, mapping, smooth>>

\* Mutant: after a lost race the request goes on with its own row.
InsertAccountOwn(s) ==
  LET p == Person(s) IN
  /\ Stage(s) = "insert"
  /\ account' = [account EXCEPT ![p] = IF @ = NoAccount THEN HeldRow(s) ELSE @]
  /\ Proceeds(s, "map", HeldRow(s))
  /\ UNCHANGED <<employed, firebase, smooth>>

\* IntegrityError: the row of the winner is taken, and the user created here
\* is nobody's.
InsertAccount(s) ==
  LET p == Person(s) IN
  /\ Stage(s) = "insert"
  /\ IF account[p] = NoAccount
     THEN account' = [account EXCEPT ![p] = HeldRow(s)] /\ Proceeds(s, "refresh", HeldRow(s))
     ELSE Proceeds(s, "map", account[p]) /\ UNCHANGED account
  /\ UNCHANGED <<employed, firebase, smooth>>

\* The session writes active only if it read FALSE.
Reactivate(s) ==
  /\ Stage(s) = "reactivate"
  /\ account' = [account EXCEPT ![Person(s)].active = @ \/ ~HeldRow(s).active]
  /\ Proceeds(s, "refresh", HeldRow(s))
  /\ UNCHANGED <<employed, firebase, smooth>>

\* Likewise only if it read TRUE.
Deactivate(s) ==
  /\ Stage(s) = "deactivate"
  /\ account' = [account EXCEPT ![Person(s)].active = @ /\ ~HeldRow(s).active]
  /\ Proceeds(s, "refresh", HeldRow(s))
  /\ UNCHANGED <<employed, firebase, smooth>>

\* db.refresh, after which the row is not read again.
RefreshRow(s) ==
  /\ Stage(s) = "refresh"
  /\ Proceeds(s, CASE handling[s].kind = "revoke" -> "disable"
                   [] handling[s].kind = "reactivate" -> "enable"
                   [] OTHER -> "map",
              account[Person(s)])
  /\ UNCHANGED <<employed, account, firebase, smooth>>

\* _firebase_enable_user.
EnableUser(s) ==
  /\ Stage(s) = "enable"
  /\ signin' = [signin EXCEPT ![HeldRow(s).uid] = "enabled"]
  /\ Proceeds(s, "map", HeldRow(s))
  /\ UNCHANGED <<employed, account, mapping, smooth>>

\* _firebase_disable_user.
DisableUser(s) ==
  /\ Stage(s) = "disable"
  /\ signin' = [signin EXCEPT ![HeldRow(s).uid] = "disabled"]
  /\ Proceeds(s, "resolve", HeldRow(s))
  /\ UNCHANGED <<employed, account, mapping, smooth>>

\* Of somebody who left, neither code nor department is found.
ResolveEmployee(s) ==
  /\ Stage(s) = "resolve" /\ Person(s) \in employed
  /\ Proceeds(s, "map", HeldRow(s))
  /\ UNCHANGED <<employed, account, firebase, smooth>>

\* _firestore_upsert_user_mapping.
WriteMapping(s) ==
  /\ Stage(s) = "map"
  /\ mapping' = [mapping EXCEPT ![HeldRow(s).uid] = [person |-> Person(s), active |-> HeldRow(s).active]]
  /\ handling' = [handling EXCEPT ![s] = Unused]
  /\ UNCHANGED <<employed, account, signin, smooth>>

\* A call of Firebase fails, the employee is not found, or the server stops:
\* a revocation of somebody who left ends here, its document untouched.
RequestFails(s) ==
  /\ handling[s] # Unused
  /\ handling' = [handling EXCEPT ![s] = Unused]
  /\ smooth' = [smooth EXCEPT ![Person(s)] = FALSE]
  /\ UNCHANGED <<employed, account, firebase>>

AccountsNext ==
  \/ \E p \in People : Leaves(p)
  \/ \E s \in AccountSessions :
       \/ \E p \in People : Provision(s, p) \/ Revoke(s, p) \/ Resync(s, p)
       \/ CreateUser(s) \/ InsertAccount(s) \/ Reactivate(s) \/ Deactivate(s)
       \/ RefreshRow(s) \/ EnableUser(s) \/ DisableUser(s) \/ ResolveEmployee(s)
       \/ WriteMapping(s) \/ RequestFails(s)

AccountsSpec == AccountsInit /\ [][AccountsNext]_avars

-----------------------------------------------------------------------------
(* Properties.                                                              *)

\* Firebase knows who Postgres says: a document users/{uid} belongs to the
\* account whose uid it is, also when two administrators provision somebody at
\* once; and after a request that met no other and went through, whatever
\* failed before it, the user may sign in, and is active in her document,
\* exactly if the row says so.
FirebaseFollowsAccounts ==
  /\ \A u \in uids : mapping[u].person # NoPerson => account[mapping[u].person].uid = u
  /\ \A p \in People : account[p] # NoAccount /\ smooth[p] /\ Alone(p) =>
       /\ signin[account[p].uid] = IF account[p].active THEN "enabled" ELSE "disabled"
       /\ mapping[account[p].uid] = [person |-> p, active |-> account[p].active]

=============================================================================
