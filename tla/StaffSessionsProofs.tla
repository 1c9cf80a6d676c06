------------------------ MODULE StaffSessionsProofs ------------------------
(***************************************************************************)
(* Safety of StaffSessions for any number of concurrent requests, sessions *)
(* and codes: types, that a rotated token and a used code are dead, and    *)
(* that a reset ends the sessions it found; and that no session outlives   *)
(* its password when requests are served one at a time.                    *)
(***************************************************************************)
EXTENDS StaffSessions, TLAPS

-----------------------------------------------------------------------------
(* ReadCommitted.                                                          *)

DbInv ==
  /\ DOMAIN db = Row /\ DOMAIN dirty = Row
  /\ RowOK(db) /\ RowOK(dirty)
  /\ holder \in [Row -> Req \cup {None}]
  /\ \A x \in Row : holder[x] = None => dirty[x] = db[x]

(* A row that no other transaction holds is seen as it would be left.      *)
LEMMA ViewUnlocked ==
  ASSUME DbInv, NEW r \in Req, NEW S \in SUBSET Row, Unlocked(r, S)
  PROVE  \A x \in S : View(r)[x] = dirty[x]
BY DEF DbInv, Unlocked, View

LEMMA ViewRows ==
  ASSUME DbInv, NEW r \in Req
  PROVE  RowOK(View(r)) /\ DOMAIN View(r) = Row
BY DEF DbInv, View, RowOK, Row

(* A write keeps the invariant if what it writes has the right types.      *)
LEMMA WriteKeepsDb ==
  ASSUME DbInv, NEW r \in Req, NEW new, DOMAIN new \subseteq Row, Write(r, new),
         User \in DOMAIN new => new[User] \in UserRow,
         \A s \in Session \cap DOMAIN new : new[s] \in SessionRow,
         \A c \in Code \cap DOMAIN new : new[c] \in CodeRow
  PROVE  DbInv'
<1>1. None \notin Req
  BY StaffSessionsAssumption
<1>2. db' = db /\ DOMAIN dirty' = Row
  BY DEF Write
<1>3. holder' \in [Row -> Req \cup {None}]
  BY DEF Write, DbInv
<1>4. \A x \in Row : dirty'[x] = IF x \in DOMAIN new THEN new[x] ELSE dirty[x]
  BY DEF Write
<1>5. RowOK(dirty')
  BY <1>4 DEF DbInv, RowOK, Row
<1>6. \A x \in Row : holder'[x] = None => dirty'[x] = db'[x]
  BY <1>1, <1>2, <1>4 DEF Write, DbInv
<1>7. QED
  BY <1>2, <1>3, <1>5, <1>6 DEF DbInv, RowOK

LEMMA CommitKeepsDb ==
  ASSUME DbInv, NEW r \in Req, CommitTx(r)
  PROVE  DbInv'
<1>1. RowOK(db') /\ DOMAIN db' = Row
  BY ViewRows DEF CommitTx
<1>2. holder' \in [Row -> Req \cup {None}]
  BY DEF CommitTx, Release, DbInv
<1>3. \A x \in Row : holder'[x] = None => dirty'[x] = db'[x]
  BY DEF CommitTx, Release, View, DbInv
<1>4. QED
  BY <1>1, <1>2, <1>3 DEF DbInv, CommitTx, RowOK

LEMMA RollbackKeepsDb ==
  ASSUME DbInv, NEW r \in Req, RollbackTx(r)
  PROVE  DbInv'
<1>1. \A x \in Row : dirty'[x] = IF holder[x] = r THEN db[x] ELSE dirty[x]
  BY DEF RollbackTx
<1>2. RowOK(dirty') /\ DOMAIN dirty' = Row
  BY <1>1 DEF DbInv, RowOK, Row, RollbackTx
<1>3. holder' \in [Row -> Req \cup {None}]
  BY DEF RollbackTx, Release, DbInv
<1>4. \A x \in Row : holder'[x] = None => dirty'[x] = db'[x]
  BY <1>1 DEF RollbackTx, Release, DbInv
<1>5. QED
  BY <1>2, <1>3, <1>4 DEF DbInv, RollbackTx, RowOK
-----------------------------------------------------------------------------
(* What the requests and the environment keep beside the rows.             *)
RestInv ==
  /\ pc \in [Req -> PcState]
  /\ loc \in [Req -> Local]
  /\ chosen \in Nat
  /\ params \in Nat
  /\ serial \in BOOLEAN
  /\ started \in 0..MaxRequests
  /\ expired \in SUBSET (Session \cup Code)
  /\ spent \in SUBSET Code
  /\ latest \in Nat
  /\ known \in SUBSET Nat

TypeInv == DbInv /\ RestInv

LEMMA TypeInvInit == Init => TypeInv
<1> SUFFICES ASSUME Init PROVE TypeInv
  OBVIOUS
<1>1. User \notin Session \cup Code /\ Session \cap Code = {} /\ MaxRequests \in Nat
  BY StaffSessionsAssumption
<1>2. /\ db[User] = [status |-> "absent", pw |-> 0, params |-> 0]
      /\ \A s \in Session : db[s] = NoSession
      /\ \A c \in Code : db[c] = [st |-> "absent"]
  BY <1>1 DEF Init, InitDb, Row
<1>3. RowOK(db)
  BY <1>2 DEF RowOK, UserRow, SessionRow, CodeRow, NoSession
<1>4. DbInv
  BY <1>3 DEF DbInv, Init, InitDb
<1>5. Idle \in Local
  BY DEF Idle, Local
<1>6. RestInv
  BY <1>1, <1>5 DEF RestInv, Init, PcState
<1>7. QED
  BY <1>4, <1>6 DEF TypeInv

(* A request that enters reads a typed value and writes no row.            *)
LEMMA StartTypes ==
  ASSUME TypeInv, NEW r \in Req, Start(r)
  PROVE  TypeInv'
<1>1. DbInv /\ RestInv /\ MaxRequests \in Nat /\ RowOK(View(r))
  BY StaffSessionsAssumption, ViewRows DEF TypeInv
<1>2. ASSUME NEW to \in PcState, NEW l \in Local, Enter(r, to, l),
             UNCHANGED <<dbState, params, serial, expired, history>>,
             chosen' \in Nat
      PROVE  TypeInv'
  <2>1. DbInv'
    BY <1>1, <1>2 DEF DbInv, dbState, RowOK
  <2>2. started' \in 0..MaxRequests
    BY <1>1, <1>2 DEF RestInv, Enter
  <2>3. pc' \in [Req -> PcState] /\ loc' \in [Req -> Local]
    BY <1>1, <1>2 DEF RestInv, Enter, Go
  <2>4. UNCHANGED <<params, serial, expired, spent, latest, known>>
    BY <1>2 DEF history
  <2>5. params' \in Nat /\ serial' \in BOOLEAN /\ latest' \in Nat /\ known' \in SUBSET Nat
    BY <1>1, <2>4 DEF RestInv
  <2>6. expired' \in SUBSET (Session \cup Code) /\ spent' \in SUBSET Code
    BY <1>1, <2>4 DEF RestInv
  <2>7. RestInv'
    BY <1>2, <2>2, <2>3, <2>5, <2>6 DEF RestInv
  <2>8. QED
    BY <2>1, <2>7 DEF TypeInv
<1>3. CASE RegisterCheck(r)
  <2>1. \A n \in Nat : [Idle EXCEPT !.op = "register", !.pw = n] \in Local
    BY DEF Idle, Local
  <2>2. "register" \in PcState /\ chosen + 1 \in Nat
    BY <1>1 DEF PcState, RestInv
  <2>3. QED
    BY <1>2, <1>3, <2>1, <2>2 DEF RegisterCheck
<1>4. CASE LoginRead(r)
  <2>1. View(r)[User].pw \in Nat
    BY <1>1 DEF RowOK, UserRow
  <2>2. [Idle EXCEPT !.op = "login", !.pw = View(r)[User].pw] \in Local
    BY <2>1 DEF Idle, Local
  <2>3. QED
    BY <1>1, <1>2, <1>4, <2>2 DEF LoginRead, PcState, RestInv, Idle, env, history
<1>5. CASE UpdateMeBegin(r)
  <2>1. [Idle EXCEPT !.op = "updateMe"] \in Local
    BY DEF Idle, Local
  <2>2. QED
    BY <1>1, <1>2, <1>5, <2>1 DEF UpdateMeBegin, PcState, RestInv, Idle, env, history
<1>6. CASE ForgotRead(r)
  <2>1. [Idle EXCEPT !.op = "forgot"] \in Local
    BY DEF Idle, Local
  <2>2. QED
    BY <1>1, <1>2, <1>6, <2>1 DEF ForgotRead, PcState, RestInv, Idle, env, history
<1>7. ASSUME NEW s \in Session, RefreshFind(r, s)
      PROVE  TypeInv'
  <2>1. View(r)[s].pw \in Nat
    BY <1>1 DEF RowOK, SessionRow
  <2>2. [Idle EXCEPT !.op = "refresh", !.from = s, !.pw = View(r)[s].pw] \in Local
    BY <2>1 DEF Idle, Local
  <2>3. QED
    BY <1>1, <1>2, <1>7, <2>2 DEF RefreshFind, PcState, RestInv, Idle, env, history
<1>8. ASSUME NEW s \in Session, LogoutFind(r, s)
      PROVE  TypeInv'
  <2>1. [Idle EXCEPT !.op = "logout", !.from = s] \in Local
    BY DEF Idle, Local
  <2>2. QED
    BY <1>1, <1>2, <1>8, <2>1 DEF LogoutFind, PcState, RestInv, Idle, env, history
<1>9. ASSUME NEW c \in Code, ResetFind(r, c)
      PROVE  TypeInv'
  <2>1. \A n \in Nat, S \in SUBSET Session :
          \A C \in SUBSET Code :
            [Idle EXCEPT !.op = "reset", !.code = c, !.pw = n, !.found = S, !.codes = C]
              \in Local
    BY DEF Idle, Local
  <2>2. /\ "resetUser" \in PcState
        /\ chosen + 1 \in Nat
        /\ LiveSessions(r) \in SUBSET Session /\ LiveCodes(r) \in SUBSET Code
    BY <1>1 DEF PcState, RestInv, LiveSessions, LiveCodes
  <2>3. QED
    <3>1. Enter(r, "resetUser", [Idle EXCEPT !.op = "reset", !.code = c, !.pw = chosen + 1,
                     !.found = LiveSessions(r), !.codes = LiveCodes(r)])
      BY <1>9 DEF ResetFind
    <3>2. chosen' \in Nat /\ UNCHANGED <<dbState, params, serial, expired, history>>
      BY <1>9, <2>2 DEF ResetFind
    <3>3. QED
      BY <1>2, <2>1, <2>2, <3>1, <3>2, Zenon
<1>10. QED
  BY <1>3, <1>4, <1>5, <1>6, <1>7, <1>8, <1>9 DEF Start

LEMMA RestUnchanged ==
  ASSUME RestInv, pc' \in [Req -> PcState], loc' \in [Req -> Local],
         UNCHANGED <<started, env>>, spent' \in SUBSET Code, latest' \in Nat,
         known' \in SUBSET Nat
  PROVE  RestInv'
<1>1. UNCHANGED <<chosen, params, serial, expired>>
  BY DEF env
<1>2. /\ started' \in 0..MaxRequests /\ chosen' \in Nat /\ params' \in Nat
      /\ serial' \in BOOLEAN /\ expired' \in SUBSET (Session \cup Code)
  BY <1>1 DEF RestInv
<1>3. QED
  BY <1>2 DEF RestInv

LEMMA GoRest ==
  ASSUME RestInv, NEW r \in Req, NEW from, NEW to \in PcState, Go(r, from, to),
         UNCHANGED <<loc, started, env, history>>
  PROVE  RestInv'
<1>1. pc' \in [Req -> PcState]
  BY DEF Go, RestInv
<1>2. UNCHANGED <<spent, latest, known>>
  BY DEF history
<1>3. QED
  BY <1>1, <1>2, RestUnchanged DEF RestInv

(* A request that ends has nothing left in hand.                           *)
LEMMA EndRest ==
  ASSUME RestInv, NEW r \in Req, pc' = [pc EXCEPT ![r] = "idle"],
         loc' = [loc EXCEPT ![r] = Idle],
         UNCHANGED <<started, env>>, spent' \in SUBSET Code, latest' \in Nat,
         known' \in SUBSET Nat
  PROVE  RestInv'
<1>1. pc' \in [Req -> PcState]
  BY DEF PcState, RestInv
<1>2. Idle \in Local
  BY DEF Idle, Local
<1>3. loc' \in [Req -> Local]
  BY <1>2 DEF RestInv
<1>4. QED
  BY <1>1, <1>3, RestUnchanged

LEMMA RevokeKeepsDb ==
  ASSUME DbInv, NEW r \in Req, NEW S, Revoke(r, S)
  PROVE  DbInv'
<1> DEFINE new == [s \in S \cap LiveSessions(r) |-> [View(r)[s] EXCEPT !.st = "revoked"]]
<1>1. DOMAIN new \subseteq Session /\ User \notin Session /\ Session \cap Code = {}
  BY StaffSessionsAssumption DEF LiveSessions
<1>2. \A s \in Session : [View(r)[s] EXCEPT !.st = "revoked"] \in SessionRow
  BY ViewRows DEF RowOK, SessionRow
<1>3. \A s \in DOMAIN new : new[s] \in SessionRow
  BY <1>1, <1>2
<1>4. Write(r, new)
  BY DEF Revoke
<1> HIDE DEF new
<1>5. QED
  BY <1>1, <1>3, <1>4, WriteKeepsDb DEF Row

LEMMA ConsumeKeepsDb ==
  ASSUME DbInv, NEW r \in Req, NEW C, Consume(r, C)
  PROVE  DbInv'
<1> DEFINE new == [c \in C \cap LiveCodes(r) |-> [st |-> "consumed"]]
<1>1. DOMAIN new \subseteq Code /\ User \notin Code /\ Session \cap Code = {}
  BY StaffSessionsAssumption DEF LiveCodes
<1>2. \A c \in DOMAIN new : new[c] \in CodeRow
  BY DEF CodeRow
<1>3. Write(r, new)
  BY DEF Consume
<1> HIDE DEF new
<1>4. QED
  BY <1>1, <1>2, <1>3, WriteKeepsDb DEF Row

(* The account's row is overwritten with a typed one.                      *)
LEMMA UserKeepsDb ==
  ASSUME DbInv, NEW r \in Req, NEW row \in UserRow, Write(r, [u \in {User} |-> row])
  PROVE  DbInv'
<1>1. User \notin Session \cup Code
  BY StaffSessionsAssumption
<1>2. QED
  BY <1>1, WriteKeepsDb DEF Row

(* A session or a code is inserted.                                        *)
LEMMA SessionKeepsDb ==
  ASSUME DbInv, NEW r \in Req, NEW s \in Session, NEW row \in SessionRow,
         Write(r, [x \in {s} |-> row])
  PROVE  DbInv'
<1>1. s # User /\ s \notin Code
  BY StaffSessionsAssumption
<1>2. QED
  BY <1>1, WriteKeepsDb DEF Row

LEMMA CodeKeepsDb ==
  ASSUME DbInv, NEW r \in Req, NEW c \in Code, NEW row \in CodeRow,
         Write(r, [x \in {c} |-> row])
  PROVE  DbInv'
<1>1. c # User /\ c \notin Session
  BY StaffSessionsAssumption
<1>2. QED
  BY <1>1, WriteKeepsDb DEF Row

LEMMA ContinueTypes ==
  ASSUME TypeInv, NEW r \in Req, Continue(r)
  PROVE  TypeInv'
<1>1. /\ DbInv /\ RestInv /\ View(r)[User] \in UserRow
      /\ loc[r] \in Local /\ loc[r].pw \in Nat /\ params \in Nat
  BY ViewRows DEF TypeInv, RestInv, RowOK, Local
<1>2. ASSUME NEW to \in PcState, NEW from, Go(r, from, to),
             UNCHANGED <<loc, started, env, history>>, DbInv'
      PROVE  TypeInv'
  BY <1>1, <1>2, GoRest DEF TypeInv
<1>3. CASE RegisterInsert(r)
  <2>1. [status |-> "active", pw |-> loc[r].pw, params |-> params] \in UserRow
    BY <1>1 DEF UserRow
  <2>2. DbInv'
    BY <1>1, <1>3, <2>1, UserKeepsDb DEF RegisterInsert
  <2>3. QED
    BY <1>2, <1>3, <2>2 DEF RegisterInsert, PcState
<1>4. CASE RegisterConflict(r)
  <2>1. DbInv'
    BY <1>1, <1>4, RollbackKeepsDb DEF RegisterConflict
  <2>2. RestInv'
    BY <1>1, <1>4, EndRest DEF RegisterConflict, Go, history, RestInv
  <2>3. QED
    BY <2>1, <2>2 DEF TypeInv
<1>5. CASE LoginRehash(r)
  <2>1. [View(r)[User] EXCEPT !.pw = loc[r].pw, !.params = params] \in UserRow
    BY <1>1 DEF UserRow
  <2>2. DbInv'
    BY <1>1, <1>5, <2>1, UserKeepsDb DEF LoginRehash
  <2>3. QED
    BY <1>2, <1>5, <2>2 DEF LoginRehash, PcState
<1>6. CASE IssueSession(r)
  <2>1. PICK s \in Session :
          /\ Go(r, "issue", "commit")
          /\ Write(r, [x \in {s} |-> [st |-> "live", pw |-> loc[r].pw, from |-> loc[r].from]])
          /\ UNCHANGED <<loc, started, env, history>>
    BY <1>6 DEF IssueSession
  <2>2. [st |-> "live", pw |-> loc[r].pw, from |-> loc[r].from] \in SessionRow
    BY <1>1 DEF SessionRow, Local
  <2>3. DbInv'
    BY <1>1, <2>1, <2>2, SessionKeepsDb
  <2>4. QED
    BY <1>2, <2>1, <2>3 DEF PcState
<1>7. CASE RefreshUser(r)
  <2>1. (IF View(r)[User].status = "active" THEN "rotate" ELSE "refuse") \in PcState
    BY DEF PcState
  <2>2. DbInv'
    BY <1>1, <1>7 DEF RefreshUser, dbState, DbInv, RowOK
  <2>3. QED
    BY <1>2, <1>7, <2>1, <2>2 DEF RefreshUser
<1>8. CASE RefreshRotate(r)
  BY <1>1, <1>2, <1>8, RevokeKeepsDb DEF RefreshRotate, PcState
<1>9. CASE RefreshRefuse(r)
  BY <1>1, <1>2, <1>9, RevokeKeepsDb DEF RefreshRefuse, PcState
<1>10. CASE LogoutRevoke(r)
  BY <1>1, <1>2, <1>10, RevokeKeepsDb DEF LogoutRevoke, PcState
<1>11. CASE UpdateProfile(r)
  BY <1>1, <1>2, <1>11, UserKeepsDb DEF UpdateProfile, PcState
<1>12. CASE FindCodes(r)
  <2>1. DbInv'
    BY <1>1, <1>12 DEF FindCodes, dbState, DbInv, RowOK
  <2>2. pc' \in [Req -> PcState]
    BY <1>1, <1>12 DEF FindCodes, Go, PcState, RestInv
  <2>3. LiveCodes(r) \in SUBSET (Session \cup Code)
    BY DEF LiveCodes
  <2>4. loc' = [loc EXCEPT ![r].targets = LiveCodes(r)] /\ UNCHANGED <<started, env, history>>
    BY <1>12 DEF FindCodes
  <2>5. loc' \in [Req -> Local]
    BY <1>1, <2>3, <2>4 DEF RestInv, Local
  <2>6. RestInv'
    BY <1>1, <2>2, <2>4, <2>5, RestUnchanged DEF history, RestInv
  <2>7. QED
    BY <2>1, <2>6 DEF TypeInv
<1>13. CASE ConsumeCodes(r)
  BY <1>1, <1>2, <1>13, ConsumeKeepsDb DEF ConsumeCodes, PcState
<1>14. CASE ForgotCreate(r)
  <2>1. PICK c \in Code :
          /\ Go(r, "forgotCreate", "commit")
          /\ Write(r, [x \in {c} |-> [st |-> "live"]])
          /\ UNCHANGED <<loc, started, env, history>>
    BY <1>14 DEF ForgotCreate
  <2>2. DbInv'
    BY <1>1, <2>1, CodeKeepsDb DEF CodeRow
  <2>3. QED
    BY <1>2, <2>1, <2>2 DEF PcState
<1>15. CASE ResetUpdate(r)
  <2>1. [View(r)[User] EXCEPT !.pw = loc[r].pw, !.params = params] \in UserRow
    BY <1>1 DEF UserRow
  <2>2. DbInv'
    BY <1>1, <1>15, <2>1, UserKeepsDb DEF ResetUpdate
  <2>3. QED
    BY <1>2, <1>15, <2>2 DEF ResetUpdate, PcState
<1>16. CASE ResetFindSessions(r)
  <2>1. DbInv'
    BY <1>1, <1>16 DEF ResetFindSessions, dbState, DbInv, RowOK
  <2>2. pc' \in [Req -> PcState]
    BY <1>1, <1>16 DEF ResetFindSessions, Go, PcState, RestInv
  <2>3. LiveSessions(r) \in SUBSET (Session \cup Code)
    BY DEF LiveSessions
  <2>4. loc' = [loc EXCEPT ![r].targets = LiveSessions(r)] /\ UNCHANGED <<started, env, history>>
    BY <1>16 DEF ResetFindSessions
  <2>5. loc' \in [Req -> Local]
    BY <1>1, <2>3, <2>4 DEF RestInv, Local
  <2>6. RestInv'
    BY <1>1, <2>2, <2>4, <2>5, RestUnchanged DEF history, RestInv
  <2>7. QED
    BY <2>1, <2>6 DEF TypeInv
<1>17. CASE ResetRevoke(r)
  BY <1>1, <1>2, <1>17, RevokeKeepsDb DEF ResetRevoke, PcState
<1>18. CASE Commit(r)
  <2>1. DbInv'
    BY <1>1, <1>18, CommitKeepsDb DEF Commit
  <2>2. spent' \in SUBSET Code
    BY <1>1, <1>18 DEF Commit, RestInv, Local
  <2>3. latest' \in Nat /\ known' \in SUBSET Nat
    BY <1>1, <1>18 DEF Commit, RestInv
  <2>4. RestInv'
    BY <1>1, <1>18, <2>2, <2>3, EndRest DEF Commit, Go
  <2>5. QED
    BY <2>1, <2>4 DEF TypeInv
<1>19. CASE Throw(r)
  <2>1. DbInv'
    BY <1>1, <1>19, RollbackKeepsDb DEF Throw
  <2>2. RestInv'
    BY <1>1, <1>19, EndRest DEF Throw, Go, history, RestInv
  <2>3. QED
    BY <2>1, <2>2 DEF TypeInv
<1>20. QED
  BY <1>3, <1>4, <1>5, <1>6, <1>7, <1>8, <1>9, <1>10, <1>11, <1>12, <1>13, <1>14,
     <1>15, <1>16, <1>17, <1>18, <1>19 DEF Continue

LEMMA DisableKeepsDb ==
  ASSUME DbInv, Disable
  PROVE  DbInv'
<1>1. User \notin Session \cup Code /\ User \in Row
  BY StaffSessionsAssumption DEF Row
<1>2. [db[User] EXCEPT !.status = "disabled"] \in UserRow
      /\ [dirty[User] EXCEPT !.status = "disabled"] \in UserRow
  BY DEF DbInv, RowOK, UserRow
<1>3. RowOK(db') /\ RowOK(dirty') /\ DOMAIN db' = Row /\ DOMAIN dirty' = Row
  BY <1>1, <1>2 DEF Disable, DbInv, RowOK, Row
<1>4. \A x \in Row : holder'[x] = None => dirty'[x] = db'[x]
  BY <1>1 DEF Disable, DbInv
<1>5. QED
  BY <1>3, <1>4 DEF Disable, DbInv, RowOK

LEMMA TypeStep ==
  ASSUME TypeInv, [Next]_vars
  PROVE  TypeInv'
<1>1. DbInv /\ RestInv
  BY DEF TypeInv
<1>2. ASSUME NEW r \in Req, Abort(r)
      PROVE  TypeInv'
  <2>1. DbInv'
    BY <1>1, <1>2, RollbackKeepsDb DEF Abort
  <2>2. RestInv'
    BY <1>1, <1>2, EndRest DEF Abort, history, RestInv
  <2>3. QED
    BY <2>1, <2>2 DEF TypeInv
<1>3. CASE RaiseParams
  <2>1. DbInv'
    BY <1>1, <1>3 DEF RaiseParams, dbState, DbInv, RowOK
  <2>2. RestInv'
    BY <1>1, <1>3 DEF RaiseParams, RestInv, history
  <2>3. QED
    BY <2>1, <2>2 DEF TypeInv
<1>4. ASSUME NEW x \in Session \cup Code, Expire(x)
      PROVE  TypeInv'
  <2>1. DbInv'
    BY <1>1, <1>4 DEF Expire, dbState, DbInv, RowOK
  <2>2. RestInv'
    BY <1>1, <1>4 DEF Expire, RestInv, history
  <2>3. QED
    BY <2>1, <2>2 DEF TypeInv
<1>5. CASE Disable
  <2>1. RestInv'
    BY <1>1, <1>5 DEF Disable, RestInv, history, env
  <2>2. QED
    BY <1>1, <1>5, <2>1, DisableKeepsDb DEF TypeInv
<1>6. CASE UNCHANGED vars
  <2>1. DbInv'
    BY <1>1, <1>6 DEF vars, dbState, DbInv, RowOK
  <2>2. RestInv'
    BY <1>1, <1>6 DEF vars, RestInv, history, env
  <2>3. QED
    BY <2>1, <2>2 DEF TypeInv
<1>7. QED
  BY <1>2, <1>3, <1>4, <1>5, <1>6, StartTypes, ContinueTypes DEF Next

-----------------------------------------------------------------------------
(* Tokens and codes only move on: absent, then live, then dead.            *)

Entry == Session \cup Code
Dead == {"revoked", "consumed"}

MovesOn(before, after) ==
  /\ before.st # "absent" => after.st # "absent"
  /\ before.st \in Dead => after.st = before.st

(* A committed token or code is never brought back by a pending write, and *)
(* a token is only issued once the one it replaces is revoked for its      *)
(* transaction.                                                            *)
LifeInv ==
  /\ \A x \in Entry : MovesOn(db[x], dirty[x])
  /\ RotatedTokenDead
  /\ \A r \in Req, t \in Session :
       holder[t] = r /\ dirty[t].from # None => View(r)[dirty[t].from].st = "revoked"

(* What request r relies on stays as it found it.                          *)
Keeps(r) == \A x \in Entry : MovesOn(View(r)[x], View(r)'[x])
KeepsDb == \A x \in Entry : MovesOn(db[x], db'[x])

(* What a statement may write.                                             *)
Lawful(r, new) ==
  /\ DOMAIN new \subseteq Row
  /\ \A x \in DOMAIN new \cap Entry : new[x].st # "absent" /\ MovesOn(View(r)[x], new[x])
  /\ \A t \in DOMAIN new \cap Session :
       new[t].from \notin {None, View(r)[t].from} =>
         new[t].from \in Session /\ View(r)[new[t].from].st = "revoked"

(* A committed entry is seen at least as far as it is.                     *)
LEMMA ViewMovesOn ==
  ASSUME LifeInv, NEW r \in Req, NEW x \in Entry
  PROVE  MovesOn(db[x], View(r)[x])
BY DEF LifeInv, MovesOn, View, Entry, Row

LEMMA WriteEffect ==
  ASSUME DbInv, LifeInv, NEW r \in Req, NEW new, Write(r, new), Lawful(r, new)
  PROVE  LifeInv' /\ KeepsDb /\ \A q \in Req : Keeps(q)
<1>1. /\ db' = db
      /\ \A x \in Row : dirty'[x] = IF x \in DOMAIN new THEN new[x] ELSE dirty[x]
      /\ \A x \in Row : holder'[x] = IF x \in DOMAIN new THEN r ELSE holder[x]
      /\ \A x \in DOMAIN new : holder[x] \in {r, None}
      /\ Entry \subseteq Row /\ None \notin Req /\ None \notin Session
  BY StaffSessionsAssumption DEF Write, Unlocked, Entry, Row
<1>2. \A x \in DOMAIN new : View(r)[x] = dirty[x] /\ View(r)'[x] = new[x]
  BY <1>1 DEF View, DbInv, Lawful
<1>3. \A q \in Req, x \in Row : q # r \/ x \notin DOMAIN new => View(q)'[x] = View(q)[x]
  BY <1>1 DEF View
<1>4. \A q \in Req : Keeps(q)
  BY <1>1, <1>2, <1>3 DEF Keeps, MovesOn, Lawful
<1>5. \A x \in Entry : MovesOn(db'[x], dirty'[x])
  BY <1>1, <1>2 DEF LifeInv, MovesOn, Lawful
<1>6. RotatedTokenDead'
  BY <1>1 DEF LifeInv, RotatedTokenDead
<1>7. ASSUME NEW q \in Req, NEW t \in Session, holder'[t] = q, dirty'[t].from # None
      PROVE  View(q)'[dirty'[t].from].st = "revoked"
  <2>1. t \in Entry /\ t \in Row
    BY DEF Entry, Row
  <2>2. dirty'[t].from \in Session /\ View(q)[dirty'[t].from].st = "revoked"
    <3>1. CASE t \in DOMAIN new
      <4>1. q = r /\ dirty'[t] = new[t]
        BY <1>1, <1>7, <2>1, <3>1
      <4>2. CASE new[t].from = View(r)[t].from
        <5>1. new[t].from = dirty[t].from /\ dirty[t].from \in Session
          BY <1>2, <1>7, <2>1, <3>1, <4>1, <4>2 DEF DbInv, RowOK, SessionRow
        <5>2. CASE holder[t] = r
          BY <1>7, <4>1, <5>1, <5>2 DEF LifeInv
        <5>3. CASE holder[t] = None
          <6>1. dirty[t] = db[t]
            BY <2>1, <5>3 DEF DbInv
          <6>2. db[dirty[t].from].st = "revoked"
            BY <1>7, <4>1, <5>1, <6>1 DEF LifeInv, RotatedTokenDead
          <6>3. MovesOn(db[dirty[t].from], View(r)[dirty[t].from])
            BY <5>1, ViewMovesOn DEF Entry
          <6>4. QED
            BY <4>1, <5>1, <6>2, <6>3 DEF MovesOn, Dead
        <5>4. QED
          BY <1>1, <3>1, <5>2, <5>3
      <4>3. CASE new[t].from # View(r)[t].from
        BY <1>7, <3>1, <4>1, <4>3 DEF Lawful
      <4>4. QED
        BY <4>2, <4>3
    <3>2. CASE t \notin DOMAIN new
      <4>1. holder[t] = q /\ dirty'[t] = dirty[t]
        BY <1>1, <1>7, <2>1, <3>2
      <4>2. QED
        BY <1>7, <4>1 DEF LifeInv, DbInv, RowOK, SessionRow
    <3>3. QED
      BY <3>1, <3>2
  <2>3. MovesOn(View(q)[dirty'[t].from], View(q)'[dirty'[t].from])
    BY <1>4, <2>2 DEF Keeps, Entry
  <2>4. QED
    BY <2>2, <2>3 DEF MovesOn, Dead
<1>8. KeepsDb
  BY <1>1 DEF KeepsDb, MovesOn
<1>9. QED
  BY <1>4, <1>5, <1>6, <1>7, <1>8 DEF LifeInv

LEMMA CommitEffect ==
  ASSUME DbInv, LifeInv, NEW r \in Req, CommitTx(r)
  PROVE  LifeInv' /\ KeepsDb /\ \A q \in Req : Keeps(q)
<1>1. /\ db' = View(r) /\ dirty' = dirty
      /\ \A x \in Row : holder'[x] = IF holder[x] = r THEN None ELSE holder[x]
      /\ Entry \subseteq Row /\ None \notin Req /\ Session \subseteq Entry
  BY StaffSessionsAssumption DEF CommitTx, Release, Entry, Row
<1>2. KeepsDb
  BY <1>1, ViewMovesOn DEF KeepsDb
<1>3. \A q \in Req, x \in Entry : View(q)'[x] = IF holder[x] = q THEN dirty[x] ELSE View(r)[x]
  BY <1>1 DEF View
<1>4. \A q \in Req : Keeps(q)
  <2>1. \A x \in Entry : MovesOn(db[x], View(r)[x])
    BY ViewMovesOn
  <2>2. QED
    BY <1>1, <1>3, <2>1 DEF Keeps, View, MovesOn
<1>5. \A x \in Entry : MovesOn(db'[x], dirty'[x])
  BY <1>1 DEF LifeInv, MovesOn, View
<1>6. ASSUME NEW t \in Session, db'[t].from # None
      PROVE  db'[db'[t].from].st = "revoked"
  <2>1. t \in Row
    BY <1>1
  <2>2. CASE holder[t] = r
    <3>1. db'[t] = dirty[t]
      BY <1>1, <2>1, <2>2 DEF View
    <3>2. QED
      BY <1>1, <1>6, <2>2, <3>1 DEF LifeInv
  <2>3. CASE holder[t] # r
    <3>1. db'[t] = db[t]
      BY <1>1, <2>1, <2>3 DEF View
    <3>2. db[t].from \in Session /\ db[db[t].from].st = "revoked"
      BY <1>6, <3>1 DEF LifeInv, RotatedTokenDead, DbInv, RowOK, SessionRow
    <3>3. MovesOn(db[db[t].from], db'[db[t].from])
      BY <1>2, <3>2 DEF KeepsDb, Entry
    <3>4. QED
      BY <3>1, <3>2, <3>3 DEF MovesOn, Dead
  <2>4. QED
    BY <2>2, <2>3
<1>7. ASSUME NEW q \in Req, NEW t \in Session, holder'[t] = q, dirty'[t].from # None
      PROVE  View(q)'[dirty'[t].from].st = "revoked"
  <2>1. holder[t] = q /\ dirty'[t] = dirty[t] /\ dirty[t].from \in Session
    BY <1>1, <1>7 DEF DbInv, RowOK, SessionRow
  <2>2. View(q)[dirty[t].from].st = "revoked"
    BY <1>7, <2>1 DEF LifeInv
  <2>3. MovesOn(View(q)[dirty[t].from], View(q)'[dirty[t].from])
    BY <1>4, <2>1 DEF Keeps, Entry
  <2>4. QED
    BY <2>1, <2>2, <2>3 DEF MovesOn, Dead
<1>8. QED
  BY <1>2, <1>4, <1>5, <1>6, <1>7 DEF LifeInv, RotatedTokenDead

LEMMA RollbackEffect ==
  ASSUME DbInv, LifeInv, NEW r \in Req, RollbackTx(r)
  PROVE  LifeInv' /\ KeepsDb /\ \A q \in Req \ {r} : Keeps(q)
<1>1. /\ db' = db
      /\ \A x \in Row : dirty'[x] = IF holder[x] = r THEN db[x] ELSE dirty[x]
      /\ \A x \in Row : holder'[x] = IF holder[x] = r THEN None ELSE holder[x]
      /\ Entry \subseteq Row /\ None \notin Req /\ Session \subseteq Entry
  BY StaffSessionsAssumption DEF RollbackTx, Release, Entry, Row
<1>2. \A q \in Req \ {r}, x \in Row : View(q)'[x] = View(q)[x]
  BY <1>1 DEF View
<1>3. KeepsDb /\ \A q \in Req \ {r} : Keeps(q)
  BY <1>1, <1>2 DEF KeepsDb, Keeps, MovesOn
<1>4. \A x \in Entry : MovesOn(db'[x], dirty'[x])
  BY <1>1 DEF LifeInv, MovesOn
<1>5. RotatedTokenDead'
  BY <1>1 DEF LifeInv, RotatedTokenDead
<1>6. ASSUME NEW q \in Req, NEW t \in Session, holder'[t] = q, dirty'[t].from # None
      PROVE  View(q)'[dirty'[t].from].st = "revoked"
  <2>1. q # r /\ holder[t] = q /\ dirty'[t] = dirty[t]
    BY <1>1, <1>6
  <2>2. dirty[t].from \in Row
    BY <1>1, <1>6, <2>1 DEF DbInv, RowOK, SessionRow
  <2>3. QED
    BY <1>2, <1>6, <2>1, <2>2 DEF LifeInv
<1>7. QED
  BY <1>3, <1>4, <1>5, <1>6 DEF LifeInv

(* Steps that change no token and no code.                                 *)
LEMMA SameEntries ==
  ASSUME DbInv, LifeInv, holder' = holder,
         \A x \in Entry : db'[x] = db[x] /\ dirty'[x] = dirty[x]
  PROVE  LifeInv' /\ KeepsDb /\ \A q \in Req : Keeps(q)
<1>1. Entry \subseteq Row /\ Session \subseteq Entry
  BY DEF Entry, Row
<1>2. \A q \in Req, x \in Entry : View(q)'[x] = View(q)[x]
  BY <1>1 DEF View
<1>3. \A t \in Session : dirty[t].from \in Session \cup {None} /\ db[t].from \in Session \cup {None}
  BY DEF DbInv, RowOK, SessionRow
<1>4. RotatedTokenDead'
  BY <1>1, <1>3 DEF LifeInv, RotatedTokenDead
<1>5. LifeInv'
  BY <1>1, <1>2, <1>3, <1>4 DEF LifeInv, MovesOn
<1>6. QED
  BY <1>2, <1>5 DEF KeepsDb, Keeps, MovesOn

-----------------------------------------------------------------------------
(* How far each request has come, by the statement it executes next.       *)

ResetPc == {"resetUser", "resetCodes", "resetConsume", "resetSessions", "resetRevoke"}

(* A refresh works on a token that was there, and issues its successor     *)
(* only once the token is revoked.                                         *)
RefreshProgress(r) ==
  /\ pc[r] \in {"register", "rehash"} => loc[r].from = None
  /\ pc[r] \in {"refreshUser", "rotate", "refuse", "logout"} =>
       loc[r].from \in Session /\ View(r)[loc[r].from].st # "absent"
  /\ pc[r] = "issue" /\ loc[r].from # None => View(r)[loc[r].from].st = "revoked"

(* A reset works on codes and on sessions that were there; it has consumed *)
(* the codes when it comes to the sessions, and ended these when it        *)
(* commits.                                                                *)
ResetProgress(r) ==
  /\ pc[r] \in ResetPc => loc[r].op = "reset"
  /\ loc[r].op = "reset" =>
       /\ pc[r] \in ResetPc \cup {"commit"}
       /\ \A c \in loc[r].codes : View(r)[c].st # "absent"
       /\ \A s \in loc[r].found : View(r)[s].st # "absent"
       /\ pc[r] = "resetConsume" =>
            \A c \in loc[r].codes : c \in loc[r].targets \/ View(r)[c].st = "consumed"
       /\ pc[r] \in {"resetSessions", "resetRevoke", "commit"} =>
            \A c \in loc[r].codes : View(r)[c].st = "consumed"
       /\ pc[r] = "resetRevoke" =>
            \A s \in loc[r].found : s \in loc[r].targets \/ View(r)[s].st = "revoked"
       /\ pc[r] = "commit" => \A s \in loc[r].found : View(r)[s].st = "revoked"

Progress(r) == RefreshProgress(r) /\ ResetProgress(r)

IInv ==
  /\ TypeInv
  /\ LifeInv
  /\ UsedCodeDead
  /\ \A r \in Req : Progress(r)

LEMMA ViewTypes ==
  ASSUME DbInv, NEW r \in Req
  PROVE  /\ View(r)[User] \in UserRow
         /\ \A s \in Session : View(r)[s] \in SessionRow
         /\ \A c \in Code : View(r)[c] \in CodeRow
BY ViewRows DEF RowOK

(* Other requests' steps leave a request where it is.                      *)
LEMMA ProgressKept ==
  ASSUME TypeInv, NEW r \in Req, Progress(r), Keeps(r), pc'[r] = pc[r], loc'[r] = loc[r]
  PROVE  Progress(r)'
<1>1. loc[r] \in Local
  BY DEF TypeInv, RestInv
<1>2. /\ loc[r].from \in Session \cup {None}
      /\ loc[r].found \subseteq Session /\ loc[r].codes \subseteq Code
  BY <1>1 DEF Local
<1>3. RefreshProgress(r)'
  BY <1>1, <1>2 DEF Progress, RefreshProgress, Keeps, MovesOn, Entry, Dead
<1>4. ResetProgress(r)'
  BY <1>1, <1>2 DEF Progress, ResetProgress, Keeps, MovesOn, Entry, Dead
<1>5. QED
  BY <1>3, <1>4 DEF Progress

LEMMA IdleProgress ==
  ASSUME NEW r \in Req, pc'[r] = "idle", loc'[r] = Idle
  PROVE  Progress(r)'
BY DEF Progress, RefreshProgress, ResetProgress, ResetPc, Idle

LEMMA UserLawful ==
  ASSUME NEW r \in Req, NEW row
  PROVE  Lawful(r, [u \in {User} |-> row])
<1>1. User \notin Entry /\ User \notin Session
  BY StaffSessionsAssumption DEF Entry
<1>2. QED
  BY <1>1 DEF Lawful, Row

LEMMA RevokeEffect ==
  ASSUME DbInv, LifeInv, NEW r \in Req, NEW S, Revoke(r, S)
  PROVE  /\ LifeInv' /\ KeepsDb /\ \A q \in Req : Keeps(q)
         /\ \A s \in S \cap Session : View(r)[s].st # "absent" => View(r)'[s].st = "revoked"
<1> DEFINE new == [s \in S \cap LiveSessions(r) |-> [View(r)[s] EXCEPT !.st = "revoked"]]
<1>1. /\ DOMAIN new = S \cap LiveSessions(r)
      /\ \A s \in DOMAIN new : s \in Session /\ View(r)[s].st = "live"
  BY DEF LiveSessions
<1>2. \A s \in Session : /\ View(r)[s] \in SessionRow
                         /\ [View(r)[s] EXCEPT !.st = "revoked"].st = "revoked"
                         /\ [View(r)[s] EXCEPT !.st = "revoked"].from = View(r)[s].from
  BY ViewTypes DEF SessionRow
<1>3. \A s \in DOMAIN new : new[s].st = "revoked" /\ new[s].from = View(r)[s].from
  BY <1>1, <1>2
<1>4. Write(r, new)
  BY DEF Revoke
<1> HIDE DEF new
<1>5. Lawful(r, new)
  BY <1>1, <1>3 DEF Lawful, MovesOn, Dead, Row, Entry
<1>6. LifeInv' /\ KeepsDb /\ \A q \in Req : Keeps(q)
  BY <1>4, <1>5, WriteEffect
<1>7. ASSUME NEW s \in S \cap Session, View(r)[s].st # "absent"
      PROVE  View(r)'[s].st = "revoked"
  <2>1. CASE s \in DOMAIN new
    <3>1. View(r)'[s] = new[s]
      BY <1>4, <2>1 DEF Write, View, Row
    <3>2. QED
      BY <1>3, <2>1, <3>1
  <2>2. CASE s \notin DOMAIN new
    <3>1. View(r)[s].st = "revoked"
      BY <1>1, <1>2, <1>7, <2>2 DEF LiveSessions, SessionRow
    <3>2. QED
      BY <1>6, <3>1 DEF Keeps, MovesOn, Dead, Entry
  <2>3. QED
    BY <2>1, <2>2
<1>8. QED
  BY <1>6, <1>7

LEMMA ConsumeEffect ==
  ASSUME DbInv, LifeInv, NEW r \in Req, NEW C, Consume(r, C)
  PROVE  /\ LifeInv' /\ KeepsDb /\ \A q \in Req : Keeps(q)
         /\ \A c \in C \cap Code : View(r)[c].st # "absent" => View(r)'[c].st = "consumed"
<1> DEFINE new == [c \in C \cap LiveCodes(r) |-> [st |-> "consumed"]]
<1>1. /\ DOMAIN new = C \cap LiveCodes(r)
      /\ \A c \in DOMAIN new : c \in Code /\ View(r)[c].st = "live"
  BY DEF LiveCodes
<1>2. \A c \in DOMAIN new : new[c].st = "consumed"
  BY <1>1
<1>3. Write(r, new)
  BY DEF Consume
<1> HIDE DEF new
<1>4. Session \cap Code = {}
  BY StaffSessionsAssumption
<1>5. Lawful(r, new)
  BY <1>1, <1>2, <1>4 DEF Lawful, MovesOn, Dead, Row, Entry
<1>6. LifeInv' /\ KeepsDb /\ \A q \in Req : Keeps(q)
  BY <1>3, <1>5, WriteEffect
<1>7. ASSUME NEW c \in C \cap Code, View(r)[c].st # "absent"
      PROVE  View(r)'[c].st = "consumed"
  <2>1. CASE c \in DOMAIN new
    <3>1. View(r)'[c] = new[c]
      BY <1>3, <2>1 DEF Write, View, Row
    <3>2. QED
      BY <1>2, <2>1, <3>1
  <2>2. CASE c \notin DOMAIN new
    <3>1. View(r)[c].st = "consumed"
      BY <1>1, <1>7, <2>2, ViewTypes DEF LiveCodes, CodeRow
    <3>2. QED
      BY <1>6, <3>1 DEF Keeps, MovesOn, Dead, Entry
  <2>3. QED
    BY <2>1, <2>2
<1>8. QED
  BY <1>6, <1>7

-----------------------------------------------------------------------------
(* Every step.                                                             *)

Others(r) == \A q \in Req \ {r} : pc'[q] = pc[q] /\ loc'[q] = loc[q]

(* A step of r that ends in a state with Advances(r) keeps the invariant.  *)
Advances(r) ==
  /\ LifeInv' /\ KeepsDb
  /\ \A q \in Req \ {r} : Keeps(q)
  /\ Progress(r)'
  /\ Others(r)

LEMMA EnterOthers ==
  ASSUME TypeInv, NEW r \in Req, NEW to, NEW l, Enter(r, to, l)
  PROVE  Others(r) /\ pc'[r] = to /\ loc'[r] = l
BY DEF Enter, Go, Others, TypeInv, RestInv

LEMMA GoOthers ==
  ASSUME TypeInv, NEW r \in Req, NEW from, NEW to, Go(r, from, to), UNCHANGED loc
  PROVE  Others(r) /\ pc[r] = from /\ pc'[r] = to /\ loc'[r] = loc[r]
BY DEF Go, Others, TypeInv, RestInv

LEMMA StutterEffect ==
  ASSUME DbInv, LifeInv, UNCHANGED dbState
  PROVE  /\ LifeInv' /\ KeepsDb /\ \A q \in Req : Keeps(q)
         /\ \A q \in Req : View(q)' = View(q)
<1>1. db' = db /\ holder' = holder /\ dirty' = dirty
  BY DEF dbState
<1>2. QED
  BY <1>1, SameEntries DEF View

LEMMA StartAdvances ==
  ASSUME TypeInv, LifeInv, NEW r \in Req, Start(r)
  PROVE  Advances(r) /\ UNCHANGED spent
<1>1. UNCHANGED dbState /\ UNCHANGED spent
  BY DEF Start, RegisterCheck, LoginRead, UpdateMeBegin, ForgotRead, RefreshFind,
         LogoutFind, ResetFind, history
<1>2. LifeInv' /\ KeepsDb /\ (\A q \in Req : Keeps(q)) /\ View(r)' = View(r)
  BY <1>1, StutterEffect DEF TypeInv
<1>3. ASSUME NEW to, NEW l, Enter(r, to, l),
             l.op # "reset", to \notin ResetPc,
             to \in {"register", "rehash", "issue"} => l.from = None,
             to \in {"refreshUser", "rotate", "refuse", "logout"} =>
               l.from \in Session /\ View(r)[l.from].st # "absent"
      PROVE  Advances(r)
  <2>1. Others(r) /\ pc'[r] = to /\ loc'[r] = l
    BY <1>3, EnterOthers
  <2>2. Progress(r)'
    BY <1>2, <1>3, <2>1 DEF Progress, RefreshProgress, ResetProgress
  <2>3. QED
    BY <1>2, <2>1, <2>2 DEF Advances
<1>4. CASE RegisterCheck(r)
  <2>1. /\ [Idle EXCEPT !.op = "register", !.pw = chosen + 1].op = "register"
        /\ [Idle EXCEPT !.op = "register", !.pw = chosen + 1].from = None
    BY DEF Idle
  <2>2. Enter(r, "register", [Idle EXCEPT !.op = "register", !.pw = chosen + 1])
    BY <1>4 DEF RegisterCheck
  <2>3. QED
    BY <1>1, <1>3, <2>1, <2>2 DEF ResetPc
<1>5. CASE LoginRead(r)
  <2> DEFINE l == [Idle EXCEPT !.op = "login", !.pw = View(r)[User].pw]
  <2>1. l.op = "login" /\ l.from = None
    BY DEF Idle
  <2>2. Enter(r, "rehash", l) \/ Enter(r, "issue", l)
    BY <1>5 DEF LoginRead
  <2> HIDE DEF l
  <2>3. QED
    BY <1>1, <1>3, <2>1, <2>2 DEF ResetPc
<1>6. CASE UpdateMeBegin(r)
  <2>1. [Idle EXCEPT !.op = "updateMe"].op = "updateMe"
    BY DEF Idle
  <2>2. QED
    BY <1>1, <1>3, <1>6, <2>1 DEF ResetPc, UpdateMeBegin
<1>7. CASE ForgotRead(r)
  <2>1. [Idle EXCEPT !.op = "forgot"].op = "forgot"
    BY DEF Idle
  <2>2. QED
    BY <1>1, <1>3, <1>7, <2>1 DEF ResetPc, ForgotRead
<1>8. ASSUME NEW s \in Session, RefreshFind(r, s)
      PROVE  Advances(r)
  <2> DEFINE l == [Idle EXCEPT !.op = "refresh", !.from = s, !.pw = View(r)[s].pw]
  <2>1. l.op = "refresh" /\ l.from = s
    BY DEF Idle
  <2>2. Enter(r, "refreshUser", l) /\ View(r)[s].st = "live"
    BY <1>8 DEF RefreshFind, LiveSessions
  <2> HIDE DEF l
  <2>3. QED
    BY <1>1, <1>3, <2>1, <2>2 DEF ResetPc
<1>9. ASSUME NEW s \in Session, LogoutFind(r, s)
      PROVE  Advances(r)
  <2> DEFINE l == [Idle EXCEPT !.op = "logout", !.from = s]
  <2>1. l.op = "logout" /\ l.from = s
    BY DEF Idle
  <2>2. Enter(r, "logout", l) /\ View(r)[s].st = "live"
    BY <1>9 DEF LogoutFind, LiveSessions
  <2> HIDE DEF l
  <2>3. QED
    BY <1>1, <1>3, <2>1, <2>2 DEF ResetPc
<1>10. ASSUME NEW c \in Code, ResetFind(r, c)
       PROVE  Advances(r)
  <2> DEFINE l == [Idle EXCEPT !.op = "reset", !.code = c, !.pw = chosen + 1,
                               !.found = LiveSessions(r), !.codes = LiveCodes(r)]
  <2>1. l.op = "reset" /\ l.found = LiveSessions(r) /\ l.codes = LiveCodes(r)
    BY DEF Idle
  <2>2. Enter(r, "resetUser", l)
    BY <1>10 DEF ResetFind
  <2> HIDE DEF l
  <2>3. Others(r) /\ pc'[r] = "resetUser" /\ loc'[r] = l
    BY <2>2, EnterOthers
  <2>4. /\ \A s \in LiveSessions(r) : View(r)[s].st = "live"
        /\ \A k \in LiveCodes(r) : View(r)[k].st = "live"
    BY DEF LiveSessions, LiveCodes
  <2>5. Progress(r)'
    BY <1>2, <2>1, <2>2, <2>3, <2>4 DEF Progress, RefreshProgress, ResetProgress, ResetPc
  <2>6. QED
    BY <1>2, <2>3, <2>5 DEF Advances
<1>11. QED
  BY <1>1, <1>4, <1>5, <1>6, <1>7, <1>8, <1>9, <1>10 DEF Start

(* A request that ends: its writes are all in or all gone.                 *)
LEMMA EndAdvances ==
  ASSUME TypeInv, LifeInv, NEW r \in Req, CommitTx(r) \/ RollbackTx(r),
         pc' = [pc EXCEPT ![r] = "idle"], loc' = [loc EXCEPT ![r] = Idle]
  PROVE  Advances(r)
<1>1. LifeInv' /\ KeepsDb /\ \A q \in Req \ {r} : Keeps(q)
  BY CommitEffect, RollbackEffect DEF TypeInv
<1>2. Others(r) /\ pc'[r] = "idle" /\ loc'[r] = Idle
  BY DEF Others, TypeInv, RestInv
<1>3. QED
  BY <1>1, <1>2, IdleProgress DEF Advances

LEMMA ContinueAdvances ==
  ASSUME IInv, NEW r \in Req, Continue(r)
  PROVE  Advances(r) /\ (~Commit(r) => UNCHANGED spent)
<1>1. /\ TypeInv /\ DbInv /\ LifeInv /\ Progress(r)
      /\ loc[r] \in Local
      /\ loc[r].from \in Session \cup {None}
      /\ loc[r].found \subseteq Session /\ loc[r].codes \subseteq Code
  BY DEF IInv, TypeInv, RestInv, Local
<1>2. ~Commit(r) => UNCHANGED spent
  BY DEF Continue, RegisterInsert, RegisterConflict, LoginRehash, IssueSession,
         RefreshUser, RefreshRotate, RefreshRefuse, LogoutRevoke, UpdateProfile,
         FindCodes, ConsumeCodes, ForgotCreate, ResetUpdate, ResetFindSessions,
         ResetRevoke, Throw, history
<1>3. ASSUME NEW row, Write(r, [u \in {User} |-> row])
      PROVE  LifeInv' /\ KeepsDb /\ \A q \in Req : Keeps(q)
  BY <1>1, <1>3, UserLawful, WriteEffect
<1>4. ASSUME LifeInv' /\ KeepsDb /\ \A q \in Req : Keeps(q),
             NEW from, NEW to, Go(r, from, to), UNCHANGED loc,
             <<from, to>> \in {<<"register", "issue">>, <<"rehash", "issue">>,
               <<"logout", "commit">>, <<"profile", "commit">>,
               <<"refuse", "throw">>, <<"forgotConsume", "forgotCreate">>,
               <<"forgotCreate", "commit">>, <<"resetUser", "resetCodes">>,
               <<"issue", "commit">>,
               <<"refreshUser", "rotate">>, <<"refreshUser", "refuse">>}
      PROVE  Advances(r)
  <2>1. Others(r) /\ pc[r] = from /\ pc'[r] = to /\ loc'[r] = loc[r]
    BY <1>1, <1>4, GoOthers
  <2>2. RefreshProgress(r)'
    BY <1>1, <1>4, <2>1 DEF Progress, RefreshProgress, Keeps, MovesOn, Entry
  <2>3. ResetProgress(r)'
    <3>1. from # "resetUser" => loc[r].op # "reset"
      BY <1>1, <1>4, <2>1 DEF Progress, ResetProgress, ResetPc
    <3>2. to # "resetCodes" => to \notin ResetPc /\ from # "resetUser"
      BY <1>4 DEF ResetPc
    <3>3. CASE loc[r].op # "reset"
      BY <1>1, <2>1, <3>1, <3>2, <3>3, <1>4 DEF Progress, ResetProgress, ResetPc
    <3>4. CASE loc[r].op = "reset"
      <4>1. to = "resetCodes"
        BY <1>4, <3>1, <3>4
      <4>2. QED
        BY <1>1, <1>4, <2>1, <3>4, <4>1
           DEF Progress, ResetProgress, ResetPc, Keeps, MovesOn, Entry
    <3>5. QED
      BY <3>3, <3>4
  <2>4. QED
    BY <1>4, <2>1, <2>2, <2>3 DEF Advances, Progress
<1>5. CASE RegisterInsert(r)
  BY <1>2, <1>3, <1>4, <1>5 DEF RegisterInsert
<1>6. CASE RegisterConflict(r)
  BY <1>1, <1>2, <1>6, EndAdvances DEF RegisterConflict, Go, Commit
<1>7. CASE LoginRehash(r)
  BY <1>2, <1>3, <1>4, <1>7 DEF LoginRehash
<1>8. CASE IssueSession(r)
  <2>1. PICK s \in Session :
          /\ View(r)[s].st = "absent"
          /\ Go(r, "issue", "commit")
          /\ Write(r, [x \in {s} |-> [st |-> "live", pw |-> loc[r].pw, from |-> loc[r].from]])
          /\ UNCHANGED <<loc, started, env, history>>
    BY <1>8 DEF IssueSession
  <2> DEFINE new == [x \in {s} |-> [st |-> "live", pw |-> loc[r].pw, from |-> loc[r].from]]
  <2>2. DOMAIN new = {s} /\ new[s].st = "live" /\ new[s].from = loc[r].from
    OBVIOUS
  <2>3. pc[r] = "issue"
    BY <2>1 DEF Go
  <2>4. Write(r, new)
    BY <2>1
  <2> HIDE DEF new
  <2>5. Lawful(r, new)
    BY <1>1, <2>1, <2>2, <2>3 DEF Lawful, MovesOn, Dead, Row, Progress, RefreshProgress
  <2>6. QED
    BY <1>1, <1>2, <1>4, <2>1, <2>4, <2>5, WriteEffect
<1>9. CASE RefreshUser(r)
  <2>1. LifeInv' /\ KeepsDb /\ \A q \in Req : Keeps(q)
    BY <1>1, <1>9, StutterEffect DEF RefreshUser
  <2>2. Go(r, "refreshUser", "rotate") \/ Go(r, "refreshUser", "refuse")
    BY <1>9 DEF RefreshUser
  <2>3. QED
    BY <1>2, <1>4, <1>9, <2>1, <2>2 DEF RefreshUser
<1>10. CASE RefreshRotate(r)
  <2>1. /\ Go(r, "rotate", "issue") /\ Revoke(r, {loc[r].from}) /\ UNCHANGED loc
    BY <1>10 DEF RefreshRotate
  <2>2. Others(r) /\ pc[r] = "rotate" /\ pc'[r] = "issue" /\ loc'[r] = loc[r]
    BY <1>1, <2>1, GoOthers
  <2>3. loc[r].from \in Session /\ View(r)[loc[r].from].st # "absent" /\ loc[r].op # "reset"
    BY <1>1, <2>2 DEF Progress, RefreshProgress, ResetProgress, ResetPc
  <2>4. /\ LifeInv' /\ KeepsDb /\ \A q \in Req : Keeps(q)
        /\ View(r)'[loc[r].from].st = "revoked"
    BY <1>1, <2>1, <2>3, RevokeEffect
  <2>5. Progress(r)'
    BY <2>2, <2>3, <2>4 DEF Progress, RefreshProgress, ResetProgress, ResetPc
  <2>6. QED
    BY <1>2, <2>2, <2>4, <2>5 DEF Advances
<1>11. CASE RefreshRefuse(r)
  BY <1>1, <1>2, <1>4, <1>11, RevokeEffect DEF RefreshRefuse
<1>12. CASE LogoutRevoke(r)
  BY <1>1, <1>2, <1>4, <1>12, RevokeEffect DEF LogoutRevoke
<1>13. CASE UpdateProfile(r)
  BY <1>2, <1>3, <1>4, <1>13 DEF UpdateProfile
<1>14. CASE FindCodes(r)
  <2>1. LifeInv' /\ KeepsDb /\ (\A q \in Req : Keeps(q)) /\ View(r)' = View(r)
    BY <1>1, <1>14, StutterEffect DEF FindCodes
  <2>2. PICK from, to :
          /\ Go(r, from, to)
          /\ <<from, to>> \in {<<"forgot", "forgotConsume">>, <<"resetCodes", "resetConsume">>}
    BY <1>14 DEF FindCodes
  <2>3. Others(r) /\ pc[r] = from /\ pc'[r] = to
    BY <1>1, <1>14, <2>2 DEF FindCodes, Go, Others, TypeInv, RestInv
  <2>4. /\ loc'[r].targets = LiveCodes(r)
        /\ loc'[r].op = loc[r].op /\ loc'[r].codes = loc[r].codes
        /\ loc'[r].found = loc[r].found /\ loc'[r].from = loc[r].from
    BY <1>1, <1>14 DEF FindCodes, TypeInv, RestInv, Local
  <2>5. loc[r].op = "reset" => from = "resetCodes" /\ to = "resetConsume"
    BY <1>1, <2>2, <2>3 DEF Progress, ResetProgress, ResetPc
  <2>6. loc[r].op = "reset" =>
          \A c \in loc[r].codes : c \in LiveCodes(r) \/ View(r)[c].st = "consumed"
    BY <1>1, ViewTypes DEF Progress, ResetProgress, LiveCodes, CodeRow
  <2>7. from = "resetCodes" => loc[r].op = "reset"
    BY <1>1, <2>3 DEF Progress, ResetProgress, ResetPc
  <2>8. ResetProgress(r)'
    BY <1>1, <2>1, <2>2, <2>3, <2>4, <2>5, <2>6, <2>7 DEF Progress, ResetProgress, ResetPc
  <2>9. RefreshProgress(r)'
    BY <2>2, <2>3 DEF RefreshProgress
  <2>10. QED
    BY <1>2, <1>14, <2>1, <2>3, <2>8, <2>9 DEF Advances, Progress
<1>15. CASE ConsumeCodes(r)
  <2>1. /\ LifeInv' /\ KeepsDb /\ \A q \in Req : Keeps(q)
        /\ \A c \in loc[r].targets \cap Code :
             View(r)[c].st # "absent" => View(r)'[c].st = "consumed"
    BY <1>1, <1>15, ConsumeEffect DEF ConsumeCodes
  <2>2. CASE Go(r, "forgotConsume", "forgotCreate")
    BY <1>2, <1>4, <1>15, <2>1, <2>2 DEF ConsumeCodes
  <2>3. CASE Go(r, "resetConsume", "resetSessions")
    <3>1. Others(r) /\ pc[r] = "resetConsume" /\ pc'[r] = "resetSessions" /\ loc'[r] = loc[r]
      BY <1>1, <1>15, <2>3, GoOthers DEF ConsumeCodes
    <3>2. loc[r].op = "reset"
      BY <1>1, <3>1 DEF Progress, ResetProgress, ResetPc
    <3>3. \A c \in loc[r].codes : View(r)'[c].st = "consumed"
      BY <1>1, <2>1, <3>1, <3>2 DEF Progress, ResetProgress, Keeps, MovesOn, Dead, Entry
    <3>4. \A s \in loc[r].found : View(r)'[s].st # "absent"
      BY <1>1, <2>1, <3>2 DEF Progress, ResetProgress, Keeps, MovesOn, Entry
    <3>5. Progress(r)'
      BY <3>1, <3>2, <3>3, <3>4 DEF Progress, RefreshProgress, ResetProgress, ResetPc
    <3>6. QED
      BY <1>2, <2>1, <3>1, <3>5, <1>15 DEF Advances
  <2>4. QED
    BY <1>15, <2>2, <2>3 DEF ConsumeCodes
<1>16. CASE ForgotCreate(r)
  <2>1. PICK c \in Code :
          /\ View(r)[c].st = "absent"
          /\ Go(r, "forgotCreate", "commit")
          /\ Write(r, [x \in {c} |-> [st |-> "live"]])
          /\ UNCHANGED <<loc, started, env, history>>
    BY <1>16 DEF ForgotCreate
  <2> DEFINE new == [x \in {c} |-> [st |-> "live"]]
  <2>2. DOMAIN new = {c} /\ new[c].st = "live" /\ c \notin Session
    BY StaffSessionsAssumption
  <2>3. Write(r, new)
    BY <2>1
  <2> HIDE DEF new
  <2>4. Lawful(r, new)
    BY <2>1, <2>2 DEF Lawful, MovesOn, Dead, Row
  <2>5. QED
    BY <1>1, <1>2, <1>4, <2>1, <2>3, <2>4, WriteEffect
<1>17. CASE ResetUpdate(r)
  BY <1>2, <1>3, <1>4, <1>17 DEF ResetUpdate
<1>18. CASE ResetFindSessions(r)
  <2>1. LifeInv' /\ KeepsDb /\ (\A q \in Req : Keeps(q)) /\ View(r)' = View(r)
    BY <1>1, <1>18, StutterEffect DEF ResetFindSessions
  <2>2. Others(r) /\ pc[r] = "resetSessions" /\ pc'[r] = "resetRevoke"
    BY <1>1, <1>18 DEF ResetFindSessions, Go, Others, TypeInv, RestInv
  <2>3. /\ loc'[r].targets = LiveSessions(r)
        /\ loc'[r].op = loc[r].op /\ loc'[r].codes = loc[r].codes
        /\ loc'[r].found = loc[r].found
    BY <1>1, <1>18 DEF ResetFindSessions, TypeInv, RestInv, Local
  <2>4. loc[r].op = "reset"
    BY <1>1, <2>2 DEF Progress, ResetProgress, ResetPc
  <2>5. \A s \in loc[r].found : s \in LiveSessions(r) \/ View(r)[s].st = "revoked"
    BY <1>1, <2>4, ViewTypes DEF Progress, ResetProgress, LiveSessions, SessionRow
  <2>6. Progress(r)'
    BY <1>1, <2>1, <2>2, <2>3, <2>4, <2>5 DEF Progress, RefreshProgress, ResetProgress, ResetPc
  <2>7. QED
    BY <1>2, <1>18, <2>1, <2>2, <2>6 DEF Advances
<1>19. CASE ResetRevoke(r)
  <2>1. Others(r) /\ pc[r] = "resetRevoke" /\ pc'[r] = "commit" /\ loc'[r] = loc[r]
    BY <1>1, <1>19, GoOthers DEF ResetRevoke
  <2>2. loc[r].op = "reset"
    BY <1>1, <2>1 DEF Progress, ResetProgress, ResetPc
  <2>3. /\ LifeInv' /\ KeepsDb /\ \A q \in Req : Keeps(q)
        /\ \A s \in loc[r].targets \cap Session :
             View(r)[s].st # "absent" => View(r)'[s].st = "revoked"
    BY <1>1, <1>19, RevokeEffect DEF ResetRevoke
  <2>4. \A s \in loc[r].found : View(r)'[s].st = "revoked"
    BY <1>1, <2>1, <2>2, <2>3 DEF Progress, ResetProgress, Keeps, MovesOn, Dead, Entry
  <2>5. \A c \in loc[r].codes : View(r)'[c].st = "consumed"
    BY <1>1, <2>1, <2>2, <2>3 DEF Progress, ResetProgress, Keeps, MovesOn, Dead, Entry
  <2>6. Progress(r)'
    BY <2>1, <2>2, <2>4, <2>5 DEF Progress, RefreshProgress, ResetProgress, ResetPc
  <2>7. QED
    BY <1>2, <1>19, <2>1, <2>3, <2>6 DEF Advances
<1>20. CASE Commit(r)
  BY <1>1, <1>20, EndAdvances DEF Commit, Go
<1>21. CASE Throw(r)
  BY <1>1, <1>2, <1>21, EndAdvances DEF Throw, Go
<1>22. QED
  BY <1>5, <1>6, <1>7, <1>8, <1>9, <1>10, <1>11, <1>12, <1>13, <1>14, <1>15, <1>16,
     <1>17, <1>18, <1>19, <1>20, <1>21 DEF Continue

(* A code that is consumed stays consumed.                                 *)
LEMMA UsedCodeStays ==
  ASSUME UsedCodeDead, spent \subseteq Code, KeepsDb, UNCHANGED spent
  PROVE  UsedCodeDead'
BY DEF UsedCodeDead, KeepsDb, MovesOn, Dead, Entry

LEMMA AdvancesInv ==
  ASSUME IInv, TypeInv', NEW r \in Req, Advances(r), UsedCodeDead'
  PROVE  IInv'
<1>1. ASSUME NEW q \in Req
      PROVE  Progress(q)'
  <2>1. CASE q = r
    BY <2>1 DEF Advances
  <2>2. CASE q # r
    BY <2>2, ProgressKept DEF Advances, Others, IInv
  <2>3. QED
    BY <2>1, <2>2
<1>2. QED
  BY <1>1 DEF IInv, Advances

LEMMA CommitSpends ==
  ASSUME IInv, NEW r \in Req, Commit(r), KeepsDb
  PROVE  UsedCodeDead'
<1>1. /\ db' = View(r) /\ pc[r] = "commit"
      /\ spent' = IF loc[r].op = "reset" THEN spent \cup loc[r].codes ELSE spent
  BY DEF Commit, CommitTx, Go
<1>2. spent \subseteq Code
  BY DEF IInv, TypeInv, RestInv
<1>3. \A c \in spent : db'[c].st = "consumed"
  BY <1>2 DEF IInv, UsedCodeDead, KeepsDb, MovesOn, Dead, Entry
<1>4. loc[r].op = "reset" => \A c \in loc[r].codes : db'[c].st = "consumed"
  BY <1>1 DEF IInv, Progress, ResetProgress
<1>5. QED
  BY <1>1, <1>3, <1>4 DEF UsedCodeDead

LEMMA IInvStep ==
  ASSUME IInv, [Next]_vars
  PROVE  IInv'
<1>1. TypeInv' /\ TypeInv /\ DbInv /\ LifeInv /\ UsedCodeDead /\ spent \subseteq Code
  BY TypeStep DEF IInv, TypeInv, RestInv
<1>2. ASSUME NEW r \in Req, Start(r)
      PROVE  IInv'
  BY <1>1, <1>2, StartAdvances, UsedCodeStays, AdvancesInv DEF Advances
<1>3. ASSUME NEW r \in Req, Continue(r)
      PROVE  IInv'
  <2>1. Advances(r) /\ KeepsDb /\ (~Commit(r) => UNCHANGED spent)
    BY <1>3, ContinueAdvances DEF Advances
  <2>2. UsedCodeDead'
    BY <1>1, <2>1, UsedCodeStays, CommitSpends
  <2>3. QED
    BY <1>1, <2>1, <2>2, AdvancesInv
<1>4. ASSUME NEW r \in Req, Abort(r)
      PROVE  IInv'
  <2>1. Advances(r) /\ KeepsDb
    BY <1>1, <1>4, EndAdvances DEF Abort, Advances
  <2>2. UNCHANGED spent
    BY <1>4 DEF Abort, history
  <2>3. QED
    BY <1>1, <2>1, <2>2, UsedCodeStays, AdvancesInv
<1>5. ASSUME LifeInv', KeepsDb, \A q \in Req : Keeps(q), UNCHANGED <<pc, loc, spent>>
      PROVE  IInv'
  BY <1>1, <1>5, UsedCodeStays, ProgressKept DEF IInv
<1>6. ASSUME UNCHANGED <<dbState, pc, loc, spent>>
      PROVE  IInv'
  BY <1>1, <1>5, <1>6, StutterEffect
<1>7. CASE RaiseParams
  BY <1>6, <1>7 DEF RaiseParams, history
<1>8. ASSUME NEW x \in Session \cup Code, Expire(x)
      PROVE  IInv'
  BY <1>6, <1>8 DEF Expire, history
<1>9. CASE Disable
  <2>1. /\ holder' = holder
        /\ \A x \in Entry : db'[x] = db[x] /\ dirty'[x] = dirty[x]
    BY <1>1, <1>9, StaffSessionsAssumption DEF Disable, Entry, Row, DbInv
  <2>2. UNCHANGED <<pc, loc, spent>>
    BY <1>9 DEF Disable, history
  <2>3. QED
    BY <1>1, <1>5, <2>1, <2>2, SameEntries
<1>10. CASE UNCHANGED vars
  BY <1>6, <1>10 DEF vars, history
<1>11. QED
  BY <1>2, <1>3, <1>4, <1>7, <1>8, <1>9, <1>10 DEF Next

LEMMA IInvInit == Init => IInv
<1> SUFFICES ASSUME Init PROVE IInv
  OBVIOUS
<1>1. TypeInv /\ Session \cap Code = {} /\ User \notin Session \cup Code /\ None \notin Req
  BY TypeInvInit, StaffSessionsAssumption
<1>2. /\ \A s \in Session : db[s] = NoSession
      /\ dirty = db /\ \A x \in Row : holder[x] = None
  BY <1>1 DEF Init, InitDb, Row
<1>3. LifeInv
  BY <1>1, <1>2 DEF LifeInv, MovesOn, RotatedTokenDead, NoSession, Row
<1>4. UsedCodeDead
  BY DEF Init, UsedCodeDead
<1>5. \A r \in Req : Progress(r)
  BY DEF Init, Progress, RefreshProgress, ResetProgress, ResetPc, Idle
<1>6. QED
  BY <1>1, <1>3, <1>4, <1>5 DEF IInv

THEOREM SessionsInvariant == Spec => []IInv
<1>1. IInv /\ [Next]_vars => IInv'
  BY IInvStep
<1>2. QED
  BY IInvInit, <1>1, PTL DEF Spec

(* TypeOK for every number of requests, sessions, codes and bounds.        *)
THEOREM TypeCorrect == Spec => []TypeOK
<1>1. IInv => TypeOK
  BY DEF IInv, TypeInv, DbInv, RestInv, TypeOK
<1>2. QED
  BY <1>1, SessionsInvariant, PTL

(* A committed rotation leaves the token it consumed revoked, however many *)
(* requests present it and whatever fails among them.                      *)
THEOREM RotatedTokensAreDead == Spec => []RotatedTokenDead
<1>1. IInv => RotatedTokenDead
  BY DEF IInv, LifeInv
<1>2. QED
  BY <1>1, SessionsInvariant, PTL

(* Every code a committed reset could have been made with is consumed,     *)
(* however the requests for them and the resets interleaved.               *)
THEOREM UsedCodesAreDead == Spec => []UsedCodeDead
<1>1. IInv => UsedCodeDead
  BY DEF IInv
<1>2. QED
  BY <1>1, SessionsInvariant, PTL

(* A reset commits with every session it found live revoked, whatever the  *)
(* refreshes and logouts around it have done to them.                      *)
THEOREM ResetEndsSessions == Spec => ResetRevokesEarlier
<1>1. ASSUME IInv, NEW r \in Req, Commit(r), loc[r].op = "reset", NEW s \in loc[r].found
      PROVE  db'[s].st = "revoked"
  <2>1. db' = View(r) /\ pc[r] = "commit"
    BY <1>1 DEF Commit, CommitTx, Go
  <2>2. QED
    BY <1>1, <2>1 DEF IInv, Progress, ResetProgress
<1>2. IInv /\ [Next]_vars =>
        [\A r \in Req :
           Commit(r) /\ loc[r].op = "reset" =>
             \A s \in loc[r].found : db'[s].st = "revoked"]_vars
  BY <1>1
<1>3. QED
  BY <1>2, SessionsInvariant, PTL DEF Spec, ResetRevokesEarlier

-----------------------------------------------------------------------------
(* Waits.                                                                  *)

(* The statements before which a request may hold row x.                   *)
MayHold(x, p) ==
  \/ x = User /\ p \in {"issue", "commit", "resetCodes", "resetConsume",
                        "resetSessions", "resetRevoke"}
  \/ x \in Code /\ p \in {"forgotCreate", "commit", "resetSessions", "resetRevoke"}
  \/ x \in Session /\ p \in {"issue", "commit", "throw"}

(* The rows each UPDATE of several rows waits for are of its own table.    *)
TargetsInv ==
  \A r \in Req :
    /\ pc[r] \in {"forgotConsume", "resetConsume"} => loc[r].targets \subseteq Code
    /\ pc[r] = "resetRevoke" => loc[r].targets \subseteq Session

LocksInv ==
  /\ TargetsInv
  /\ \A r \in Req, x \in Row : holder[x] = r => MayHold(x, pc[r])

(* A step of r that takes rows it may hold before its next statement.      *)
LEMMA LocksKept ==
  ASSUME TypeInv, LocksInv, NEW r \in Req, Others(r),
         \A x \in Row : holder'[x] # holder[x] => holder'[x] = r /\ MayHold(x, pc'[r]),
         \A x \in Row : MayHold(x, pc[r]) => MayHold(x, pc'[r]),
         pc'[r] \in {"forgotConsume", "resetConsume"} => loc'[r].targets \subseteq Code,
         pc'[r] = "resetRevoke" => loc'[r].targets \subseteq Session
  PROVE  LocksInv'
<1>1. TargetsInv'
  BY DEF TargetsInv, LocksInv, Others
<1>2. ASSUME NEW q \in Req, NEW x \in Row, holder'[x] = q
      PROVE  MayHold(x, pc'[q])
  <2>1. CASE holder[x] = holder'[x]
    BY <1>2, <2>1 DEF LocksInv, Others
  <2>2. CASE holder[x] # holder'[x]
    BY <1>2, <2>2
  <2>3. QED
    BY <2>1, <2>2
<1>3. QED
  BY <1>1, <1>2 DEF LocksInv, MayHold

(* A request that ends holds nothing any more.                             *)
LEMMA LocksReleased ==
  ASSUME TypeInv, LocksInv, NEW r \in Req, Release(r),
         pc' = [pc EXCEPT ![r] = "idle"], loc' = [loc EXCEPT ![r] = Idle]
  PROVE  LocksInv'
<1>1. None \notin Req /\ pc'[r] = "idle"
  BY StaffSessionsAssumption DEF TypeInv, RestInv
<1>2. \A q \in Req \ {r} : pc'[q] = pc[q] /\ loc'[q] = loc[q]
  BY DEF TypeInv, RestInv
<1>3. TargetsInv'
  BY <1>1, <1>2 DEF TargetsInv, LocksInv
<1>4. ASSUME NEW q \in Req, NEW x \in Row, holder'[x] = q
      PROVE  MayHold(x, pc'[q])
  <2>1. q # r /\ holder[x] = q
    BY <1>1, <1>4 DEF Release
  <2>2. QED
    BY <1>2, <2>1 DEF LocksInv
<1>5. QED
  BY <1>3, <1>4 DEF LocksInv, MayHold

LEMMA WriteLocks ==
  ASSUME NEW r \in Req, NEW new, Write(r, new)
  PROVE  \A x \in Row : holder'[x] # holder[x] => holder'[x] = r /\ x \in DOMAIN new
BY DEF Write

LEMMA ContinueLocks ==
  ASSUME TypeInv, LocksInv, NEW r \in Req, Continue(r)
  PROVE  LocksInv'
<1>1. User \notin Session \cup Code /\ Session \cap Code = {}
  BY StaffSessionsAssumption
  (* A statement that locks nothing. *)
<1>2. ASSUME NEW from, NEW to, Go(r, from, to), UNCHANGED <<dbState, loc>>,
             to \notin {"forgotConsume", "resetConsume", "resetRevoke"},
             from \in {"refreshUser"}
      PROVE  LocksInv'
  <2>1. Others(r) /\ pc[r] = from /\ pc'[r] = to /\ loc'[r] = loc[r]
    BY <1>2, GoOthers
  <2>2. UNCHANGED holder
    BY <1>2 DEF dbState
  <2>3. \A x \in Row : ~MayHold(x, from)
    BY <1>2 DEF MayHold
  <2>4. QED
    BY <1>2, <2>1, <2>2, <2>3, LocksKept
  (* One that writes the rows of new. *)
<1>3. ASSUME NEW from, NEW to, Go(r, from, to), UNCHANGED loc, NEW new, Write(r, new),
             \A x \in DOMAIN new : MayHold(x, to),
             \A x \in Row : MayHold(x, from) => MayHold(x, to),
             to \notin {"forgotConsume", "resetConsume", "resetRevoke"}
      PROVE  LocksInv'
  <2>1. Others(r) /\ pc[r] = from /\ pc'[r] = to /\ loc'[r] = loc[r]
    BY <1>3, GoOthers
  <2>2. QED
    BY <1>3, <2>1, WriteLocks, LocksKept
  (* One that writes the account, a session or a code. *)
<1>4. ASSUME NEW from, NEW to, Go(r, from, to), UNCHANGED loc,
             NEW x, NEW row, Write(r, [y \in {x} |-> row]), MayHold(x, to),
             \A y \in Row : MayHold(y, from) => MayHold(y, to),
             to \notin {"forgotConsume", "resetConsume", "resetRevoke"}
      PROVE  LocksInv'
  BY <1>3, <1>4
<1>5. CASE RegisterInsert(r)
  <2>1. /\ Go(r, "register", "issue")
        /\ Write(r, [y \in {User} |-> [status |-> "active", pw |-> loc[r].pw, params |-> params]])
        /\ UNCHANGED loc
    BY <1>5 DEF RegisterInsert
  <2>2. MayHold(User, "issue") /\ \A y \in Row : MayHold(y, "register") => MayHold(y, "issue")
    BY <1>1 DEF MayHold
  <2>3. QED
    BY <1>4, <2>1, <2>2
<1>6. CASE RegisterConflict(r)
  BY <1>6, LocksReleased DEF RegisterConflict, RollbackTx, Go
<1>7. CASE LoginRehash(r)
  <2>1. /\ Go(r, "rehash", "issue")
        /\ Write(r, [y \in {User} |-> [View(r)[User] EXCEPT !.pw = loc[r].pw, !.params = params]])
        /\ UNCHANGED loc
    BY <1>7 DEF LoginRehash
  <2>2. MayHold(User, "issue") /\ \A y \in Row : MayHold(y, "rehash") => MayHold(y, "issue")
    BY <1>1 DEF MayHold
  <2>3. QED
    BY <1>4, <2>1, <2>2
<1>8. CASE IssueSession(r)
  <2>1. PICK s \in Session :
          /\ Go(r, "issue", "commit")
          /\ Write(r, [x \in {s} |-> [st |-> "live", pw |-> loc[r].pw, from |-> loc[r].from]])
    BY <1>8 DEF IssueSession
  <2>2. UNCHANGED loc /\ MayHold(s, "commit")
    BY <1>8 DEF IssueSession, MayHold
  <2>3. \A y \in Row : MayHold(y, "issue") => MayHold(y, "commit")
    BY DEF MayHold
  <2>4. QED
    BY <1>4, <2>1, <2>2, <2>3
<1>9. CASE RefreshUser(r)
  BY <1>2, <1>9 DEF RefreshUser
<1>10. ASSUME NEW from, NEW to, Go(r, from, to), UNCHANGED loc, NEW S, Revoke(r, S),
              <<from, to>> \in {<<"rotate", "issue">>, <<"refuse", "throw">>,
                               <<"logout", "commit">>, <<"resetRevoke", "commit">>}
       PROVE  LocksInv'
  <2> DEFINE new == [s \in S \cap LiveSessions(r) |-> [View(r)[s] EXCEPT !.st = "revoked"]]
  <2>1. Write(r, new) /\ DOMAIN new \subseteq Session
    BY <1>10 DEF Revoke, LiveSessions
  <2> HIDE DEF new
  <2>2. \A x \in DOMAIN new : MayHold(x, to)
    BY <1>10, <2>1 DEF MayHold
  <2>3. \A y \in Row : MayHold(y, from) => MayHold(y, to)
    BY <1>10 DEF MayHold
  <2>4. to \notin {"forgotConsume", "resetConsume", "resetRevoke"}
    BY <1>10
  <2>5. QED
    BY <1>3, <1>10, <2>1, <2>2, <2>3, <2>4
<1>11. CASE RefreshRotate(r)
  BY <1>10, <1>11 DEF RefreshRotate
<1>12. CASE RefreshRefuse(r)
  BY <1>10, <1>12 DEF RefreshRefuse
<1>13. CASE LogoutRevoke(r)
  BY <1>10, <1>13 DEF LogoutRevoke
<1>14. CASE ResetRevoke(r)
  BY <1>10, <1>14 DEF ResetRevoke
<1>15. CASE UpdateProfile(r)
  <2>1. /\ Go(r, "profile", "commit")
        /\ Write(r, [y \in {User} |-> View(r)[User]])
        /\ UNCHANGED loc
    BY <1>15 DEF UpdateProfile
  <2>2. MayHold(User, "commit") /\ \A y \in Row : MayHold(y, "profile") => MayHold(y, "commit")
    BY <1>1 DEF MayHold
  <2>3. QED
    BY <1>4, <2>1, <2>2
<1>16. CASE ResetUpdate(r)
  <2>1. /\ Go(r, "resetUser", "resetCodes")
        /\ Write(r, [y \in {User} |-> [View(r)[User] EXCEPT !.pw = loc[r].pw, !.params = params]])
        /\ UNCHANGED loc
    BY <1>16 DEF ResetUpdate
  <2>2. MayHold(User, "resetCodes") /\ \A y \in Row : MayHold(y, "resetUser") => MayHold(y, "resetCodes")
    BY <1>1 DEF MayHold
  <2>3. QED
    BY <1>4, <2>1, <2>2
  (* A statement that finds the rows it will write. *)
<1>17. ASSUME NEW from, NEW to, Go(r, from, to), NEW T,
              loc' = [loc EXCEPT ![r].targets = T], UNCHANGED dbState,
              to \in {"forgotConsume", "resetConsume"} => T \subseteq Code,
              to = "resetRevoke" => T \subseteq Session,
              \A y \in Row : MayHold(y, from) => MayHold(y, to)
       PROVE  LocksInv'
  <2>1. loc[r] \in Local
    BY DEF TypeInv, RestInv
  <2>2. loc'[r].targets = T
    BY <1>17, <2>1 DEF TypeInv, RestInv, Local
  <2>3. Others(r) /\ pc[r] = from /\ pc'[r] = to /\ UNCHANGED holder
    BY <1>17 DEF Go, Others, TypeInv, RestInv, dbState
  <2>4. QED
    BY <1>17, <2>2, <2>3, LocksKept
<1>18. CASE FindCodes(r)
  <2>1. LiveCodes(r) \subseteq Code
    BY DEF LiveCodes
  <2>2. /\ \A y \in Row : MayHold(y, "forgot") => MayHold(y, "forgotConsume")
        /\ \A y \in Row : MayHold(y, "resetCodes") => MayHold(y, "resetConsume")
    BY <1>1 DEF MayHold
  <2>3. PICK from, to : /\ Go(r, from, to)
                        /\ <<from, to>> \in {<<"forgot", "forgotConsume">>,
                                             <<"resetCodes", "resetConsume">>}
    BY <1>18 DEF FindCodes
  <2>4. UNCHANGED dbState /\ loc' = [loc EXCEPT ![r].targets = LiveCodes(r)]
    BY <1>18 DEF FindCodes
  <2>5. \A y \in Row : MayHold(y, from) => MayHold(y, to)
    BY <2>2, <2>3
  <2>6. to # "resetRevoke"
    BY <2>3
  <2>7. QED
    BY <1>17, <2>1, <2>3, <2>4, <2>5, <2>6
<1>19. CASE ResetFindSessions(r)
  <2>1. LiveSessions(r) \subseteq Session
    BY DEF LiveSessions
  <2>2. \A y \in Row : MayHold(y, "resetSessions") => MayHold(y, "resetRevoke")
    BY <1>1 DEF MayHold
  <2>3. QED
    BY <1>17, <1>19, <2>1, <2>2 DEF ResetFindSessions
<1>20. CASE ConsumeCodes(r)
  <2> DEFINE new == [c \in loc[r].targets \cap LiveCodes(r) |-> [st |-> "consumed"]]
  <2>1. Write(r, new) /\ DOMAIN new \subseteq Code /\ UNCHANGED loc
    BY <1>20 DEF ConsumeCodes, Consume, LiveCodes
  <2> HIDE DEF new
  <2>2. PICK from, to : /\ Go(r, from, to)
                        /\ <<from, to>> \in {<<"forgotConsume", "forgotCreate">>,
                                             <<"resetConsume", "resetSessions">>}
    BY <1>20 DEF ConsumeCodes
  <2>3. \A y \in Row : MayHold(y, from) => MayHold(y, to)
    BY <1>1, <2>2 DEF MayHold
  <2>4. \A x \in DOMAIN new : MayHold(x, to)
    BY <2>1, <2>2 DEF MayHold
  <2>5. QED
    BY <1>3, <2>1, <2>2, <2>3, <2>4
<1>21. CASE ForgotCreate(r)
  <2>1. PICK c \in Code : /\ Go(r, "forgotCreate", "commit")
                          /\ Write(r, [x \in {c} |-> [st |-> "live"]])
    BY <1>21 DEF ForgotCreate
  <2>2. UNCHANGED loc /\ MayHold(c, "commit")
    BY <1>21 DEF ForgotCreate, MayHold
  <2>3. \A y \in Row : MayHold(y, "forgotCreate") => MayHold(y, "commit")
    BY <1>1 DEF MayHold
  <2>4. QED
    BY <1>4, <2>1, <2>2, <2>3
<1>22. CASE Commit(r)
  BY <1>22, LocksReleased DEF Commit, CommitTx, Go
<1>23. CASE Throw(r)
  BY <1>23, LocksReleased DEF Throw, RollbackTx, Go
<1>24. QED
  BY <1>5, <1>6, <1>7, <1>8, <1>9, <1>11, <1>12, <1>13, <1>14, <1>15, <1>16, <1>18,
     <1>19, <1>20, <1>21, <1>22, <1>23 DEF Continue

LEMMA StartLocks ==
  ASSUME TypeInv, LocksInv, NEW r \in Req, Start(r)
  PROVE  LocksInv'
<1>1. ASSUME NEW to, NEW l, Enter(r, to, l), UNCHANGED dbState,
             to \notin {"forgotConsume", "resetConsume", "resetRevoke"}
      PROVE  LocksInv'
  <2>1. Others(r) /\ pc'[r] = to /\ pc[r] = "idle" /\ UNCHANGED holder
    BY <1>1, EnterOthers DEF Enter, Go, dbState
  <2>2. \A x \in Row : ~MayHold(x, "idle")
    BY DEF MayHold
  <2>3. QED
    BY <1>1, <2>1, <2>2, LocksKept
<1>2. CASE RegisterCheck(r)
  BY <1>1, <1>2 DEF RegisterCheck
<1>3. CASE LoginRead(r)
  BY <1>1, <1>3 DEF LoginRead
<1>4. CASE UpdateMeBegin(r)
  BY <1>1, <1>4 DEF UpdateMeBegin
<1>5. CASE ForgotRead(r)
  BY <1>1, <1>5 DEF ForgotRead
<1>6. ASSUME NEW s \in Session, RefreshFind(r, s) \/ LogoutFind(r, s)
      PROVE  LocksInv'
  BY <1>1, <1>6 DEF RefreshFind, LogoutFind
<1>7. ASSUME NEW c \in Code, ResetFind(r, c)
      PROVE  LocksInv'
  BY <1>1, <1>7 DEF ResetFind
<1>8. QED
  BY <1>2, <1>3, <1>4, <1>5, <1>6, <1>7 DEF Start

LEMMA LocksStep ==
  ASSUME TypeInv, LocksInv, [Next]_vars
  PROVE  LocksInv'
<1>1. ASSUME NEW r \in Req, Abort(r)
      PROVE  LocksInv'
  BY <1>1, LocksReleased DEF Abort, RollbackTx
<1>2. ASSUME UNCHANGED <<holder, pc, loc>>
      PROVE  LocksInv'
  BY <1>2 DEF LocksInv, TargetsInv, MayHold
<1>3. CASE RaiseParams
  BY <1>2, <1>3 DEF RaiseParams, dbState
<1>4. ASSUME NEW x \in Session \cup Code, Expire(x)
      PROVE  LocksInv'
  BY <1>2, <1>4 DEF Expire, dbState
<1>5. CASE Disable
  BY <1>2, <1>5 DEF Disable
<1>6. CASE UNCHANGED vars
  BY <1>2, <1>6 DEF vars, dbState
<1>7. QED
  BY <1>1, <1>3, <1>4, <1>5, <1>6, StartLocks, ContinueLocks DEF Next

LEMMA LocksInit == Init => LocksInv
<1>1. None \notin Req
  BY StaffSessionsAssumption
<1>2. QED
  BY <1>1 DEF Init, InitDb, LocksInv, TargetsInv

(* Who waits for a session waits for a request that waits for nobody; who  *)
(* waits for a code, for one that waits for a session at most; who waits   *)
(* for the account, for one that waits for a code or a session at most.    *)
LEMMA NoCircle ==
  ASSUME IInv, LocksInv
  PROVE  NoCircularWait
<1> DEFINE served == {r \in Req : pc[r] # "idle"}
<1> SUFFICES ASSUME NEW S \in (SUBSET served) \ {{}}
             PROVE  \E r \in S : \A q \in Req : Waits(r, q) => q \in served \ S
  BY DEF NoCircularWait
<1>1. User \notin Session \cup Code /\ Session \cap Code = {} /\ None \notin Req
  BY StaffSessionsAssumption
<1> DEFINE Early == {"register", "rehash", "profile", "resetUser"}
           Middle == {"forgotConsume", "resetConsume"}
           Late == {"rotate", "refuse", "logout", "resetRevoke"}
<1>2. \A r \in Req : /\ pc[r] \in Early => Needs(r) = {User}
                     /\ pc[r] \in Middle => Needs(r) \subseteq Code
                     /\ pc[r] \in Late => Needs(r) \subseteq Session
                     /\ pc[r] \notin Early \cup Middle \cup Late => Needs(r) = {}
  BY DEF Needs, LocksInv, TargetsInv, IInv, Progress, RefreshProgress
<1>3. ASSUME NEW r \in Req, NEW q \in Req, Waits(r, q)
      PROVE  /\ pc[q] # "idle"
             /\ pc[r] \in Early => pc[q] \notin Early
             /\ pc[r] \in Middle => pc[q] \notin Early \cup Middle
             /\ pc[r] \in Late => pc[q] \notin Early \cup Middle \cup Late
             /\ pc[r] \in Early \cup Middle \cup Late
  <2>1. PICK x \in Needs(r) : holder[x] = q
    BY <1>3 DEF Waits
  <2>2. x \in Row
    BY <1>2, <2>1 DEF Row
  <2>3. MayHold(x, pc[q])
    BY <2>1, <2>2 DEF LocksInv
  <2>4. QED
    BY <1>1, <1>2, <2>1, <2>3 DEF MayHold
<1>4. S \subseteq Req /\ S # {}
  OBVIOUS
<1>5. CASE \E r \in S : pc[r] \notin Early \cup Middle \cup Late
  BY <1>3, <1>4, <1>5
<1>6. CASE /\ \A r \in S : pc[r] \in Early \cup Middle \cup Late
           /\ \E r \in S : pc[r] \in Late
  BY <1>3, <1>4, <1>6
<1>7. CASE /\ \A r \in S : pc[r] \in Early \cup Middle
           /\ \E r \in S : pc[r] \in Middle
  BY <1>3, <1>4, <1>7
<1>8. CASE \A r \in S : pc[r] \in Early
  BY <1>3, <1>4, <1>8
<1>9. QED
  BY <1>4, <1>5, <1>6, <1>7, <1>8

(* However many requests are served, they never wait for each other in a   *)
(* circle, and no row stays locked by one that has ended.                  *)
THEOREM WaitsAreNoCircle == Spec => []NoCircularWait
<1>1. IInv /\ LocksInv => NoCircularWait
  BY NoCircle
<1>2. IInv /\ LocksInv /\ [Next]_vars => LocksInv'
  BY LocksStep DEF IInv
<1>3. QED
  BY <1>1, <1>2, LocksInit, SessionsInvariant, PTL DEF Spec

-----------------------------------------------------------------------------
(* One request at a time.                                                  *)

(* The account is as the last sign-up or reset left it.                    *)
Settled(t, pw) ==
  /\ t[User].pw = pw
  /\ \A s \in Session : t[s].st = "live" => t[s].pw = pw
  /\ t[User].status = "absent" => \A s \in Session : t[s].st = "absent"

(* The account's password once r commits.                                  *)
Outcome(r) == IF loc[r].op \in {"register", "reset"} THEN loc[r].pw ELSE latest

SerialProgress(r) ==
  /\ pc[r] \in {"rehash", "refreshUser", "rotate", "refuse", "logout", "profile",
                "forgot", "forgotConsume", "forgotCreate"} =>
       Settled(View(r), latest) /\ loc[r].op \notin {"register", "reset"}
  /\ pc[r] \in {"rehash", "refreshUser", "rotate", "refuse"} =>
       loc[r].pw = latest /\ View(r)[User].status # "absent"
  /\ pc[r] = "register" =>
       loc[r].op = "register" /\ \A s \in Session : View(r)[s].st = "absent"
  /\ pc[r] = "issue" =>
       /\ View(r)[User].status # "absent"
       /\ Settled(View(r), loc[r].pw)
       /\ loc[r].pw = Outcome(r)
  /\ pc[r] \in ResetPc => loc[r].op = "reset" /\ View(r)[User].status # "absent"
  /\ pc[r] \in ResetPc \ {"resetUser"} => View(r)[User].pw = loc[r].pw
  /\ pc[r] = "resetRevoke" => LiveSessions(r) \subseteq loc[r].targets
  /\ pc[r] = "commit" => Settled(View(r), Outcome(r))

IdleHolds == \A r \in Req : pc[r] = "idle" => \A x \in Row : holder[x] # r

SerialInv ==
  /\ IdleHolds
  /\ serial =>
       /\ \A q, r \in Req : pc[q] # "idle" /\ pc[r] # "idle" => q = r
       /\ Settled(db, latest)
       /\ \A r \in Req : SerialProgress(r)

LEMMA IdleHoldsStep ==
  ASSUME TypeInv, IdleHolds, NEW r \in Req, Others(r),
         \/ UNCHANGED holder /\ pc[r] = "idle"
         \/ pc'[r] # "idle" /\ \A x \in Row : holder'[x] \in {r, holder[x]}
         \/ Release(r)
  PROVE  IdleHolds'
<1>1. None \notin Req
  BY StaffSessionsAssumption
<1>2. ASSUME NEW q \in Req, pc'[q] = "idle", NEW x \in Row
      PROVE  holder'[x] # q
  <2>1. CASE q = r
    BY <1>1, <1>2, <2>1 DEF IdleHolds, Release
  <2>2. CASE q # r
    <3>1. holder[x] # q
      BY <1>2, <2>2 DEF Others, IdleHolds
    <3>2. QED
      BY <1>1, <2>2, <3>1 DEF Release
  <2>3. QED
    BY <2>1, <2>2
<1>3. QED
  BY <1>2 DEF IdleHolds

(* What r sees after a write of its own.                                   *)
LEMMA WriteView ==
  ASSUME NEW r \in Req, NEW new, Write(r, new)
  PROVE  /\ db' = db
         /\ \A x \in Row : holder'[x] \in {r, holder[x]}
         /\ \A x \in Row : View(r)'[x] = IF x \in DOMAIN new THEN new[x] ELSE View(r)[x]
BY DEF Write, View

LEMMA RevokeView ==
  ASSUME DbInv, NEW r \in Req, NEW S, Revoke(r, S)
  PROVE  /\ db' = db
         /\ \A x \in Row : holder'[x] \in {r, holder[x]}
         /\ View(r)'[User] = View(r)[User]
         /\ \A s \in Session :
              /\ View(r)'[s].pw = View(r)[s].pw
              /\ View(r)'[s].st = "live" => View(r)[s].st = "live" /\ s \notin S
              /\ View(r)[s].st = "absent" => View(r)'[s].st = "absent"
<1> DEFINE new == [s \in S \cap LiveSessions(r) |-> [View(r)[s] EXCEPT !.st = "revoked"]]
<1>1. DOMAIN new = S \cap LiveSessions(r) /\ User \notin DOMAIN new
  BY StaffSessionsAssumption DEF LiveSessions
<1>2. \A s \in DOMAIN new : new[s].st = "revoked" /\ new[s].pw = View(r)[s].pw
  BY ViewTypes DEF SessionRow, LiveSessions
<1>3. Write(r, new)
  BY DEF Revoke
<1> HIDE DEF new
<1>4. /\ db' = db
      /\ \A x \in Row : holder'[x] \in {r, holder[x]}
      /\ \A x \in Row : View(r)'[x] = IF x \in DOMAIN new THEN new[x] ELSE View(r)[x]
  BY <1>3, WriteView
<1>5. QED
  BY <1>1, <1>2, <1>4 DEF LiveSessions, Row

LEMMA ConsumeView ==
  ASSUME DbInv, NEW r \in Req, NEW C, Consume(r, C)
  PROVE  /\ db' = db
         /\ \A x \in Row : holder'[x] \in {r, holder[x]}
         /\ \A x \in Session \cup {User} : View(r)'[x] = View(r)[x]
<1> DEFINE new == [c \in C \cap LiveCodes(r) |-> [st |-> "consumed"]]
<1>1. \A x \in Session \cup {User} : x \notin DOMAIN new
  BY StaffSessionsAssumption DEF LiveCodes
<1>2. Write(r, new)
  BY DEF Consume
<1> HIDE DEF new
<1>3. QED
  BY <1>1, <1>2, WriteView DEF Row

(* A step of r that leaves the account settled and r where it should be.   *)
LEMMA SerialFrom ==
  ASSUME TypeInv, SerialInv, NEW r \in Req, Others(r), serial' = serial, IdleHolds',
         serial => /\ pc[r] # "idle" \/ \A q \in Req : pc[q] = "idle"
                   /\ Settled(db, latest)' /\ SerialProgress(r)'
  PROVE  SerialInv'
<1> SUFFICES ASSUME serial PROVE SerialInv'
  BY DEF SerialInv
<1>1. \A q \in Req \ {r} : pc[q] = "idle" /\ pc'[q] = "idle"
  BY DEF SerialInv, Others
<1>2. \A q \in Req \ {r} : SerialProgress(q)'
  BY <1>1 DEF SerialProgress, ResetPc
<1>3. \A q \in Req : SerialProgress(q)'
  BY <1>2
<1>4. \A q, p \in Req : pc'[q] # "idle" /\ pc'[p] # "idle" => q = p
  BY <1>1
<1>5. QED
  BY <1>3, <1>4 DEF SerialInv

LEMMA StartSerial ==
  ASSUME TypeInv, SerialInv, NEW r \in Req, Start(r)
  PROVE  SerialInv'
<1>1. /\ UNCHANGED dbState /\ db' = db /\ holder' = holder /\ latest' = latest
      /\ serial' = serial /\ DbInv /\ View(r)' = View(r)
  BY DEF Start, RegisterCheck, LoginRead, UpdateMeBegin, ForgotRead, RefreshFind,
         LogoutFind, ResetFind, history, env, dbState, TypeInv, View
<1>2. ASSUME NEW to, NEW l, Enter(r, to, l),
             serial /\ Settled(View(r), latest) /\ pc'[r] = to /\ loc'[r] = l
               => SerialProgress(r)'
      PROVE  SerialInv'
  <2>1. Others(r) /\ pc[r] = "idle" /\ pc'[r] = to /\ loc'[r] = l
    BY <1>2, EnterOthers DEF Enter, Go
  <2>2. IdleHolds'
    BY <1>1, <2>1, IdleHoldsStep DEF SerialInv
  <2>3. serial => \A q \in Req : pc[q] = "idle"
    BY <1>2 DEF Enter
  <2>4. \A x \in Row : View(r)[x] = db[x]
    BY <2>1 DEF SerialInv, IdleHolds, View
  <2>5. serial => Settled(db, latest)' /\ Settled(View(r), latest)
    BY <1>1, <2>4 DEF SerialInv, Settled, Row
  <2>6. QED
    BY <1>1, <1>2, <2>1, <2>2, <2>3, <2>4, <2>5, SerialFrom
<1>3. CASE RegisterCheck(r)
  <2> DEFINE l == [Idle EXCEPT !.op = "register", !.pw = chosen + 1]
  <2>1. l.op = "register" /\ Enter(r, "register", l) /\ View(r)[User].status = "absent"
    BY <1>3 DEF Idle, RegisterCheck
  <2> HIDE DEF l
  <2>2. QED
    BY <1>1, <1>2, <2>1 DEF SerialProgress, Settled, ResetPc
<1>4. CASE LoginRead(r)
  <2> DEFINE l == [Idle EXCEPT !.op = "login", !.pw = View(r)[User].pw]
  <2>1. /\ l.op = "login" /\ l.pw = View(r)[User].pw /\ View(r)[User].status = "active"
        /\ Enter(r, "rehash", l) \/ Enter(r, "issue", l)
    BY <1>4 DEF Idle, LoginRead
  <2> HIDE DEF l
  <2>2. QED
    BY <1>1, <1>2, <2>1 DEF SerialProgress, Settled, ResetPc, Outcome
<1>5. CASE UpdateMeBegin(r)
  <2> DEFINE l == [Idle EXCEPT !.op = "updateMe"]
  <2>1. l.op = "updateMe" /\ Enter(r, "profile", l)
    BY <1>5 DEF Idle, UpdateMeBegin
  <2> HIDE DEF l
  <2>2. QED
    BY <1>1, <1>2, <2>1 DEF SerialProgress, Settled, ResetPc
<1>6. CASE ForgotRead(r)
  <2> DEFINE l == [Idle EXCEPT !.op = "forgot"]
  <2>1. l.op = "forgot" /\ Enter(r, "forgot", l)
    BY <1>6 DEF Idle, ForgotRead
  <2> HIDE DEF l
  <2>2. QED
    BY <1>1, <1>2, <2>1 DEF SerialProgress, Settled, ResetPc
<1>7. ASSUME NEW s \in Session, RefreshFind(r, s)
      PROVE  SerialInv'
  <2> DEFINE l == [Idle EXCEPT !.op = "refresh", !.from = s, !.pw = View(r)[s].pw]
  <2>1. /\ l.op = "refresh" /\ l.pw = View(r)[s].pw /\ View(r)[s].st = "live"
        /\ Enter(r, "refreshUser", l)
    BY <1>7 DEF Idle, RefreshFind, LiveSessions
  <2> HIDE DEF l
  <2>2. QED
    BY <1>1, <1>2, <2>1 DEF SerialProgress, Settled, ResetPc
<1>8. ASSUME NEW s \in Session, LogoutFind(r, s)
      PROVE  SerialInv'
  <2> DEFINE l == [Idle EXCEPT !.op = "logout", !.from = s]
  <2>1. l.op = "logout" /\ Enter(r, "logout", l)
    BY <1>8 DEF Idle, LogoutFind
  <2> HIDE DEF l
  <2>2. QED
    BY <1>1, <1>2, <2>1 DEF SerialProgress, Settled, ResetPc
<1>9. ASSUME NEW c \in Code, ResetFind(r, c)
      PROVE  SerialInv'
  <2> DEFINE l == [Idle EXCEPT !.op = "reset", !.code = c, !.pw = chosen + 1,
                               !.found = LiveSessions(r), !.codes = LiveCodes(r)]
  <2>1. l.op = "reset" /\ Enter(r, "resetUser", l) /\ View(r)[User].status # "absent"
    BY <1>9 DEF Idle, ResetFind
  <2> HIDE DEF l
  <2>2. QED
    BY <1>1, <1>2, <2>1 DEF SerialProgress, ResetPc
<1>10. QED
  BY <1>3, <1>4, <1>5, <1>6, <1>7, <1>8, <1>9 DEF Start

(* A request that ends without its writes.                                 *)
LEMMA RollbackSerial ==
  ASSUME TypeInv, SerialInv, NEW r \in Req, RollbackTx(r), pc[r] # "idle",
         pc' = [pc EXCEPT ![r] = "idle"], loc' = [loc EXCEPT ![r] = Idle],
         UNCHANGED <<env, history>>
  PROVE  SerialInv'
<1>1. Others(r) /\ pc'[r] = "idle" /\ serial' = serial /\ latest' = latest /\ db' = db
  BY DEF Others, TypeInv, RestInv, env, history, RollbackTx
<1>2. IdleHolds'
  BY <1>1, IdleHoldsStep DEF RollbackTx, SerialInv
<1>3. serial => Settled(db, latest)' /\ SerialProgress(r)'
  BY <1>1 DEF SerialInv, Settled, SerialProgress, ResetPc
<1>4. QED
  BY <1>1, <1>2, <1>3, SerialFrom

LEMMA ContinueSerial ==
  ASSUME TypeInv, SerialInv, NEW r \in Req, Continue(r)
  PROVE  SerialInv'
<1>1. /\ DbInv /\ loc[r] \in Local /\ View(r)[User] \in UserRow
      /\ \A s \in Session : View(r)[s] \in SessionRow
  BY ViewTypes DEF TypeInv, RestInv
<1>2. ASSUME NEW from, NEW to, Go(r, from, to), to # "idle", from # "idle",
             UNCHANGED <<loc, env, history>>, db' = db,
             \A x \in Row : holder'[x] \in {r, holder[x]},
             serial /\ SerialProgress(r) /\ pc[r] = from /\ pc'[r] = to
               /\ loc'[r] = loc[r] /\ Outcome(r)' = Outcome(r) /\ latest' = latest
               => SerialProgress(r)'
      PROVE  SerialInv'
  <2>1. Others(r) /\ pc[r] = from /\ pc'[r] = to /\ loc'[r] = loc[r]
    BY <1>2, GoOthers
  <2>2. latest' = latest /\ serial' = serial
    BY <1>2 DEF env, history
  <2>3. IdleHolds'
    BY <1>2, <2>1, IdleHoldsStep DEF SerialInv
  <2>4. Outcome(r)' = Outcome(r)
    BY <2>1, <2>2 DEF Outcome
  <2>5. serial => Settled(db, latest)' /\ SerialProgress(r)
    BY <1>2, <2>2 DEF SerialInv, Settled
  <2>6. QED
    BY <1>2, <2>1, <2>2, <2>3, <2>4, <2>5, SerialFrom
<1>3. ASSUME NEW row, Write(r, [u \in {User} |-> row])
      PROVE  /\ db' = db /\ (\A x \in Row : holder'[x] \in {r, holder[x]})
             /\ View(r)'[User] = row
             /\ \A s \in Session : View(r)'[s] = View(r)[s]
             /\ LiveSessions(r)' = LiveSessions(r)
  <2>1. User \notin Session
    BY StaffSessionsAssumption
  <2>2. QED
    BY <1>3, <2>1, WriteView DEF Row, LiveSessions
<1>4. CASE RegisterInsert(r)
  <2>1. Write(r, [u \in {User} |-> [status |-> "active", pw |-> loc[r].pw, params |-> params]])
    BY <1>4 DEF RegisterInsert
  <2>2. /\ db' = db /\ (\A x \in Row : holder'[x] \in {r, holder[x]})
        /\ View(r)'[User] = [status |-> "active", pw |-> loc[r].pw, params |-> params]
        /\ \A s \in Session : View(r)'[s] = View(r)[s]
    BY <1>3, <2>1
  <2>3. View(r)'[User].pw = loc[r].pw /\ View(r)'[User].status = "active"
    BY <2>2
  <2>4. QED
    BY <1>2, <1>4, <2>2, <2>3 DEF RegisterInsert, SerialProgress, Settled, Outcome, ResetPc
<1>5. CASE RegisterConflict(r)
  BY <1>5, RollbackSerial DEF RegisterConflict, Go
<1>6. CASE LoginRehash(r)
  <2>1. Write(r, [u \in {User} |-> [View(r)[User] EXCEPT !.pw = loc[r].pw, !.params = params]])
    BY <1>6 DEF LoginRehash
  <2>2. /\ [View(r)[User] EXCEPT !.pw = loc[r].pw, !.params = params].pw = loc[r].pw
        /\ [View(r)[User] EXCEPT !.pw = loc[r].pw, !.params = params].status
             = View(r)[User].status
    BY <1>1 DEF UserRow
  <2>3. /\ db' = db /\ (\A x \in Row : holder'[x] \in {r, holder[x]})
        /\ View(r)'[User].pw = loc[r].pw /\ View(r)'[User].status = View(r)[User].status
        /\ \A s \in Session : View(r)'[s] = View(r)[s]
    BY <1>3, <2>1, <2>2
  <2>4. QED
    BY <1>2, <1>6, <2>3 DEF LoginRehash, SerialProgress, Settled, Outcome, ResetPc
<1>7. CASE IssueSession(r)
  <2>1. PICK s \in Session :
          /\ Go(r, "issue", "commit")
          /\ Write(r, [x \in {s} |-> [st |-> "live", pw |-> loc[r].pw, from |-> loc[r].from]])
          /\ UNCHANGED <<loc, started, env, history>>
    BY <1>7 DEF IssueSession
  <2>2. s # User /\ s \in Row
    BY StaffSessionsAssumption DEF Row
  <2>3. /\ db' = db /\ (\A x \in Row : holder'[x] \in {r, holder[x]})
        /\ View(r)'[User] = View(r)[User]
        /\ View(r)'[s].pw = loc[r].pw
        /\ \A t \in Session \ {s} : View(r)'[t] = View(r)[t]
    BY <2>1, <2>2, WriteView DEF Row
  <2>4. QED
    BY <1>2, <2>1, <2>3 DEF SerialProgress, Settled, ResetPc
<1>8. CASE RefreshUser(r)
  <2>1. PICK to \in {"rotate", "refuse"} : Go(r, "refreshUser", to)
    BY <1>8 DEF RefreshUser
  <2>2. db' = db /\ holder' = holder /\ View(r)' = View(r)
    BY <1>8 DEF RefreshUser, dbState, View
  <2>3. QED
    BY <1>2, <1>8, <2>1, <2>2 DEF RefreshUser, SerialProgress, Settled, ResetPc
<1>9. ASSUME NEW S, Revoke(r, S)
      PROVE  /\ db' = db /\ (\A x \in Row : holder'[x] \in {r, holder[x]})
             /\ View(r)'[User] = View(r)[User]
             /\ \A pw : Settled(View(r), pw) => Settled(View(r), pw)'
  BY <1>1, <1>9, RevokeView DEF Settled
<1>10. CASE RefreshRotate(r)
  BY <1>2, <1>9, <1>10 DEF RefreshRotate, SerialProgress, Outcome, ResetPc
<1>11. CASE RefreshRefuse(r)
  BY <1>2, <1>9, <1>11 DEF RefreshRefuse, SerialProgress, ResetPc
<1>12. CASE LogoutRevoke(r)
  BY <1>2, <1>9, <1>12 DEF LogoutRevoke, SerialProgress, Outcome, ResetPc
<1>13. CASE UpdateProfile(r)
  BY <1>2, <1>3, <1>13 DEF UpdateProfile, SerialProgress, Settled, Outcome, ResetPc
<1>14. CASE FindCodes(r)
  <2>1. PICK from, to :
          /\ Go(r, from, to)
          /\ <<from, to>> \in {<<"forgot", "forgotConsume">>, <<"resetCodes", "resetConsume">>}
    BY <1>14 DEF FindCodes
  <2>2. /\ db' = db /\ holder' = holder /\ latest' = latest /\ serial' = serial
        /\ View(r)' = View(r)
    BY <1>14 DEF FindCodes, dbState, View, env, history
  <2>3. Others(r) /\ pc[r] = from /\ pc'[r] = to
    BY <1>14, <2>1 DEF FindCodes, Go, Others, TypeInv, RestInv
  <2>4. loc'[r].op = loc[r].op /\ loc'[r].pw = loc[r].pw
    BY <1>1, <1>14 DEF FindCodes, TypeInv, RestInv, Local
  <2>5. IdleHolds'
    BY <2>1, <2>2, <2>3, IdleHoldsStep DEF SerialInv
  <2>6. serial => SerialProgress(r)' /\ Settled(db, latest)'
    BY <2>1, <2>2, <2>3, <2>4 DEF SerialInv, SerialProgress, Settled, ResetPc
  <2>7. pc[r] # "idle"
    BY <2>1, <2>3
  <2>8. QED
    BY <2>2, <2>3, <2>5, <2>6, <2>7, SerialFrom
<1>15. CASE ConsumeCodes(r)
  <2>1. PICK from, to :
          /\ Go(r, from, to)
          /\ <<from, to>> \in {<<"forgotConsume", "forgotCreate">>,
                               <<"resetConsume", "resetSessions">>}
    BY <1>15 DEF ConsumeCodes
  <2>2. /\ db' = db /\ (\A x \in Row : holder'[x] \in {r, holder[x]})
        /\ \A x \in Session \cup {User} : View(r)'[x] = View(r)[x]
    BY <1>1, <1>15, ConsumeView DEF ConsumeCodes
  <2>3. QED
    BY <1>2, <1>15, <2>1, <2>2 DEF ConsumeCodes, SerialProgress, Settled, ResetPc
<1>16. CASE ForgotCreate(r)
  <2>1. PICK c \in Code :
          /\ Go(r, "forgotCreate", "commit")
          /\ Write(r, [x \in {c} |-> [st |-> "live"]])
          /\ UNCHANGED <<loc, started, env, history>>
    BY <1>16 DEF ForgotCreate
  <2>2. c \notin Session \cup {User}
    BY StaffSessionsAssumption
  <2>3. /\ db' = db /\ (\A x \in Row : holder'[x] \in {r, holder[x]})
        /\ \A x \in Session \cup {User} : View(r)'[x] = View(r)[x]
    BY <2>1, <2>2, WriteView DEF Row
  <2>4. QED
    BY <1>2, <2>1, <2>3 DEF SerialProgress, Settled, Outcome, ResetPc
<1>17. CASE ResetUpdate(r)
  <2>1. Write(r, [u \in {User} |-> [View(r)[User] EXCEPT !.pw = loc[r].pw, !.params = params]])
    BY <1>17 DEF ResetUpdate
  <2>2. /\ [View(r)[User] EXCEPT !.pw = loc[r].pw, !.params = params].pw = loc[r].pw
        /\ [View(r)[User] EXCEPT !.pw = loc[r].pw, !.params = params].status
             = View(r)[User].status
    BY <1>1 DEF UserRow
  <2>3. /\ db' = db /\ (\A x \in Row : holder'[x] \in {r, holder[x]})
        /\ View(r)'[User].pw = loc[r].pw /\ View(r)'[User].status = View(r)[User].status
    BY <1>3, <2>1, <2>2
  <2>4. QED
    BY <1>2, <1>17, <2>3 DEF ResetUpdate, SerialProgress, ResetPc
<1>18. CASE ResetFindSessions(r)
  <2>1. /\ db' = db /\ holder' = holder /\ latest' = latest /\ serial' = serial
        /\ View(r)' = View(r)
    BY <1>18 DEF ResetFindSessions, dbState, View, env, history
  <2>2. Others(r) /\ pc[r] = "resetSessions" /\ pc'[r] = "resetRevoke"
    BY <1>18 DEF ResetFindSessions, Go, Others, TypeInv, RestInv
  <2>3. /\ loc'[r].op = loc[r].op /\ loc'[r].pw = loc[r].pw
        /\ loc'[r].targets = LiveSessions(r) /\ LiveSessions(r)' = LiveSessions(r)
    BY <1>1, <1>18, <2>1 DEF ResetFindSessions, TypeInv, RestInv, Local, LiveSessions
  <2>4. IdleHolds'
    BY <2>1, <2>2, IdleHoldsStep DEF SerialInv
  <2>5. serial => SerialProgress(r)' /\ Settled(db, latest)'
    BY <2>1, <2>2, <2>3 DEF SerialInv, SerialProgress, Settled, ResetPc
  <2>6. QED
    BY <2>1, <2>2, <2>4, <2>5, SerialFrom
<1>19. CASE ResetRevoke(r)
  <2>1. /\ db' = db /\ (\A x \in Row : holder'[x] \in {r, holder[x]})
        /\ View(r)'[User] = View(r)[User]
        /\ \A s \in Session :
             View(r)'[s].st = "live" => View(r)[s].st = "live" /\ s \notin loc[r].targets
    BY <1>1, <1>19, RevokeView DEF ResetRevoke
  <2>2. QED
    BY <1>2, <1>19, <2>1 DEF ResetRevoke, SerialProgress, Settled, Outcome, ResetPc, LiveSessions
<1>20. CASE Commit(r)
  <2>1. /\ db' = View(r) /\ Release(r) /\ pc[r] = "commit" /\ serial' = serial
        /\ latest' = Outcome(r)
    BY <1>20 DEF Commit, CommitTx, Go, env, Outcome
  <2>2. Others(r) /\ pc'[r] = "idle"
    BY <1>20 DEF Commit, Go, Others, TypeInv, RestInv
  <2>3. IdleHolds'
    BY <2>1, <2>2, IdleHoldsStep DEF SerialInv
  <2>4. serial => SerialProgress(r)' /\ Settled(db, latest)'
    BY <2>1, <2>2 DEF SerialInv, SerialProgress, Settled, ResetPc
  <2>5. QED
    BY <2>1, <2>2, <2>3, <2>4, SerialFrom
<1>21. CASE Throw(r)
  BY <1>21, RollbackSerial DEF Throw, Go
<1>22. QED
  BY <1>4, <1>5, <1>6, <1>7, <1>8, <1>10, <1>11, <1>12, <1>13, <1>14, <1>15, <1>16,
     <1>17, <1>18, <1>19, <1>20, <1>21 DEF Continue

LEMMA SerialStep ==
  ASSUME TypeInv, SerialInv, [Next]_vars
  PROVE  SerialInv'
<1>1. ASSUME NEW r \in Req, Abort(r)
      PROVE  SerialInv'
  BY <1>1, RollbackSerial DEF Abort
<1>2. ASSUME UNCHANGED <<holder, pc, loc, serial, latest>>,
             \A s \in Session : db'[s] = db[s] /\ dirty'[s] = dirty[s],
             db'[User].pw = db[User].pw /\ dirty'[User].pw = dirty[User].pw,
             db'[User].status = "absent" <=> db[User].status = "absent",
             dirty'[User].status = "absent" <=> dirty[User].status = "absent"
      PROVE  SerialInv'
  <2>1. \A r \in Req :
          /\ \A s \in Session : View(r)'[s] = View(r)[s]
          /\ View(r)'[User].pw = View(r)[User].pw
          /\ View(r)'[User].status = "absent" <=> View(r)[User].status = "absent"
    BY <1>2 DEF View, Row
  <2>2. ASSUME NEW r \in Req, SerialProgress(r)
        PROVE  SerialProgress(r)'
    <3>1. \A pw : Settled(View(r), pw) => Settled(View(r)', pw)
      BY <2>1 DEF Settled
    <3>2. LiveSessions(r)' = LiveSessions(r)
      BY <2>1 DEF LiveSessions
    <3>3. Outcome(r)' = Outcome(r) /\ pc'[r] = pc[r] /\ loc'[r] = loc[r] /\ latest' = latest
      BY <1>2 DEF Outcome
    <3>4. \A s \in Session : View(r)'[s] = View(r)[s]
      BY <2>1
    <3>5. /\ View(r)'[User].pw = View(r)[User].pw
          /\ View(r)'[User].status = "absent" <=> View(r)[User].status = "absent"
      BY <2>1
    <3>6. QED
      BY <2>2, <3>1, <3>2, <3>3, <3>4, <3>5 DEF SerialProgress
  <2>3. IdleHolds' /\ (Settled(db, latest) => Settled(db, latest)')
    BY <1>2 DEF SerialInv, IdleHolds, Settled
  <2>4. QED
    BY <1>2, <2>2, <2>3 DEF SerialInv
<1>3. CASE RaiseParams
  BY <1>2, <1>3 DEF RaiseParams, dbState, history
<1>4. ASSUME NEW x \in Session \cup Code, Expire(x)
      PROVE  SerialInv'
  BY <1>2, <1>4 DEF Expire, dbState, history
<1>5. CASE Disable
  <2>1. User \notin Session /\ User \in Row /\ DbInv
    BY StaffSessionsAssumption DEF Row, TypeInv
  <2>2. /\ db' = [db EXCEPT ![User].status = "disabled"]
        /\ dirty' = [dirty EXCEPT ![User].status = "disabled"]
        /\ dirty[User] = db[User] /\ db[User].status = "active"
        /\ db[User] \in UserRow
    BY <1>5, <2>1 DEF Disable, DbInv, RowOK
  <2>3. /\ db'[User] = [db[User] EXCEPT !.status = "disabled"]
        /\ dirty'[User] = [db[User] EXCEPT !.status = "disabled"]
        /\ \A s \in Session : db'[s] = db[s] /\ dirty'[s] = dirty[s]
    BY <2>1, <2>2 DEF DbInv, Row
  <2>4. /\ db'[User].pw = db[User].pw /\ db'[User].status = "disabled"
        /\ dirty'[User].pw = db[User].pw /\ dirty'[User].status = "disabled"
    BY <2>2, <2>3 DEF UserRow
  <2>5. UNCHANGED <<holder, pc, loc, serial, latest>>
    BY <1>5 DEF Disable, env, history
  <2>6. QED
    BY <1>2, <2>2, <2>3, <2>4, <2>5
<1>6. CASE UNCHANGED vars
  BY <1>2, <1>6 DEF vars, dbState, env, history
<1>7. QED
  BY <1>1, <1>3, <1>4, <1>5, <1>6, StartSerial, ContinueSerial DEF Next

LEMMA SerialInit == Init => SerialInv
<1> SUFFICES ASSUME Init PROVE SerialInv
  OBVIOUS
<1>1. User \notin Session \cup Code /\ None \notin Req
  BY StaffSessionsAssumption
<1>2. /\ \A s \in Session : db[s] = NoSession
      /\ db[User] = [status |-> "absent", pw |-> 0, params |-> 0]
      /\ \A x \in Row : holder[x] = None
  BY <1>1 DEF Init, InitDb, Row
<1>3. Settled(db, latest)
  BY <1>2 DEF Settled, NoSession, Init
<1>4. \A r \in Req : SerialProgress(r)
  BY DEF Init, SerialProgress, ResetPc
<1>5. IdleHolds
  BY <1>1, <1>2 DEF IdleHolds
<1>6. QED
  BY <1>3, <1>4, <1>5 DEF SerialInv, Init

LEMMA SerialInvariant == Spec => []SerialInv
<1>1. IInv => TypeInv
  BY DEF IInv
<1>2. TypeInv /\ SerialInv /\ [Next]_vars => SerialInv'
  BY SerialStep
<1>3. QED
  BY <1>1, <1>2, SerialInit, SessionsInvariant, PTL DEF Spec

(* Served one at a time, no request leaves a live session of a password    *)
(* the account no longer has.                                              *)
THEOREM NoStaleSessionWhenSerial == Spec => []SerialNoStaleSession
<1>1. SerialInv => SerialNoStaleSession
  BY DEF SerialInv, Settled, SerialNoStaleSession
<1>2. QED
  BY <1>1, SerialInvariant, PTL

(* Served one at a time, the stored hash is that of the last password set. *)
THEOREM LatestPasswordWhenSerial == Spec => []SerialLatestPasswordStored
<1>1. SerialInv => SerialLatestPasswordStored
  BY DEF SerialInv, Settled, SerialLatestPasswordStored
<1>2. QED
  BY <1>1, SerialInvariant, PTL

-----------------------------------------------------------------------------
(* StaffSessions implements SessionStore.                                  *)

(* Request r issues t when it commits.                                     *)
Issued(r, t) ==
  /\ holder[t] = r /\ db[t].st = "absent"
  /\ dirty[t] = [st |-> "live", pw |-> loc[r].pw, from |-> loc[r].from]

(* The transaction that holds s does no more than revoke it.               *)
Ended(s) == db[s].st # "absent" /\ dirty[s] = [db[s] EXCEPT !.st = "revoked"]

Issuing  == {"register", "login", "refresh"}
Choosing == {"register", "reset"}
Secret   == Session \cup {User}

(* What r is about, and what it relies on of the token it was given.       *)
Tasked(r) ==
  /\ pc[r] = "idle" => loc[r].op = "none"
  /\ pc[r] = "register" => loc[r].op = "register"
  /\ pc[r] = "rehash" => loc[r].op = "login"
  /\ pc[r] \in {"refreshUser", "rotate", "refuse", "throw"} => loc[r].op = "refresh"
  /\ pc[r] = "issue" => loc[r].op \in Issuing
  /\ pc[r] = "logout" => loc[r].op = "logout"
  /\ pc[r] = "profile" => loc[r].op = "updateMe"
  /\ pc[r] \in {"forgot", "forgotConsume", "forgotCreate"} => loc[r].op = "forgot"
  /\ pc[r] \in ResetPc => loc[r].op = "reset"
  /\ pc[r] # "idle" => loc[r].op # "none"
  /\ loc[r].op \in {"register", "login"} => loc[r].from = None
  /\ loc[r].op = "refresh" =>
       /\ loc[r].from \in Session
       /\ db[loc[r].from].st # "absent" /\ db[loc[r].from].pw = loc[r].pw
       /\ serial => db[loc[r].from].st = "live"
  /\ loc[r].op \in {"login", "reset", "updateMe"} => db[User].status # "absent"

(* The tokens r has written: none, those it ends, or when it commits the   *)
(* one it issues and the one it ends for it.                               *)
Tokens(r) ==
  LET held == {s \in Session : holder[s] = r} IN
  /\ pc[r] \notin {"issue", "throw", "commit"} => held = {}
  /\ pc[r] = "issue" => \A s \in held : s = loc[r].from /\ Ended(s)
  /\ pc[r] = "commit" =>
       /\ loc[r].op \in Issuing =>
            \E t \in held : Issued(r, t) /\ \A s \in held \ {t} : s = loc[r].from /\ Ended(s)
       /\ loc[r].op = "logout" => \A s \in held : s = loc[r].from /\ Ended(s)
       /\ loc[r].op \in {"updateMe", "forgot"} => held = {}
       /\ loc[r].op = "reset" => \A s \in held : Ended(s)

(* The account's row under r: with the password r was given, or as it was. *)
Account(r) ==
  /\ holder[User] = r =>
       /\ dirty[User].status # "absent"
       /\ \/ /\ loc[r].op \in {"register", "login"} /\ pc[r] \in {"issue", "commit"}
             /\ dirty[User].pw = loc[r].pw
          \/ /\ loc[r].op = "updateMe" /\ pc[r] = "commit"
             /\ dirty[User].pw = db[User].pw /\ dirty[User].status = db[User].status
          \/ /\ loc[r].op = "reset" /\ pc[r] # "resetUser"
             /\ dirty[User].pw = loc[r].pw
  /\ loc[r].op = "register" /\ pc[r] # "register" =>
       holder[User] = r /\ db[User].status = "absent"
  /\ loc[r].op = "reset" /\ pc[r] # "resetUser" => holder[User] = r

Mine(r) == Tasked(r) /\ Tokens(r) /\ Account(r)

(* Passwords are taken in turn, so that nobody else has the one r chose;   *)
(* the others in use are passwords that the account has had.               *)
Passwords ==
  /\ chosen <= MaxPassword
  /\ (db[User].status = "absent") <=> (db[User].pw = 0)
  /\ known \subseteq 1..chosen
  /\ \A x \in Secret : db[x].pw \in known \cup {0}
  /\ \A r \in Req : loc[r].pw <= chosen
  /\ \A r \in Req : loc[r].op \in {"register", "login", "reset"} => loc[r].pw # 0
  /\ \A r \in Req : loc[r].op \notin Choosing => loc[r].pw \in known \cup {0}
  /\ \A r \in Req : loc[r].op \in Choosing =>
       loc[r].pw \notin known /\ \A q \in Req \ {r} : loc[q].pw # loc[r].pw

StoreInv == Passwords /\ \A r \in Req : Mine(r)

LEMMA SecretTypes ==
  ASSUME TypeInv
  PROVE  /\ \A s \in Session : db[s] \in SessionRow /\ dirty[s] \in SessionRow
         /\ db[User] \in UserRow /\ dirty[User] \in UserRow
         /\ \A x \in Secret : db[x].pw \in Nat /\ dirty[x].pw \in Nat
         /\ \A r \in Req : loc[r] \in Local /\ loc[r].pw \in Nat
         /\ chosen \in Nat /\ MaxPassword \in Nat
         /\ None \notin Req /\ None \notin Session /\ User \notin Session
         /\ Secret \subseteq Row /\ Session \subseteq Secret /\ User \in Secret
<1>1. /\ \A s \in Session : db[s] \in SessionRow /\ dirty[s] \in SessionRow
      /\ db[User] \in UserRow /\ dirty[User] \in UserRow
      /\ \A r \in Req : loc[r] \in Local
      /\ chosen \in Nat
  BY DEF TypeInv, DbInv, RowOK, RestInv
<1>2. /\ \A x \in Secret : db[x].pw \in Nat /\ dirty[x].pw \in Nat
      /\ \A r \in Req : loc[r].pw \in Nat
  BY <1>1 DEF Secret, SessionRow, UserRow, Local
<1>3. QED
  BY <1>1, <1>2, StaffSessionsAssumption DEF Secret, Row

(* What others do to rows that q does not hold is nothing to q.            *)
LEMMA MineKept ==
  ASSUME TypeInv, NEW q \in Req, Mine(q), pc'[q] = pc[q], loc'[q] = loc[q],
         \A x \in Secret : holder'[x] = q <=> holder[x] = q,
         \A x \in Secret : holder[x] = q => db'[x] = db[x] /\ dirty'[x] = dirty[x],
         \A s \in Session : db[s].st # "absent" =>
                              db'[s].st # "absent" /\ db'[s].pw = db[s].pw,
         db[User].status # "absent" => db'[User].status # "absent",
         serial' = serial,
         serial /\ loc[q].op = "refresh" => db'[loc[q].from].st = db[loc[q].from].st
  PROVE  Mine(q)'
<1>1. Session \subseteq Secret /\ User \in Secret
  BY DEF Secret
<1>2. Tasked(q)'
  BY DEF Mine, Tasked
<1>3. {s \in Session : holder[s] = q}' = {s \in Session : holder[s] = q}
  BY <1>1
<1>4. \A s \in Session : holder[s] = q =>
        /\ Ended(s) => Ended(s)'
        /\ Issued(q, s) => Issued(q, s)'
  BY <1>1 DEF Ended, Issued
<1>5. Tokens(q)'
  BY <1>3, <1>4 DEF Mine, Tokens
<1>6. Account(q)'
  BY <1>1 DEF Mine, Account
<1>7. QED
  BY <1>2, <1>5, <1>6 DEF Mine

(* A request that begins holds nothing.                                    *)
LEMMA BeginStore ==
  ASSUME TypeInv, StoreInv, NEW r \in Req, NEW to, NEW l, Enter(r, to, l),
         UNCHANGED dbState, serial' = serial, known' = known,
         pc'[r] = to /\ loc'[r] = l => Tasked(r)',
         to \notin {"throw", "commit"},
         l.op = "register" => to = "register",
         l.op = "reset" => to = "resetUser",
         l.op \in {"register", "login", "reset"} => l.pw # 0,
         \/ /\ l.op \in Choosing /\ chosen' = chosen + 1 /\ chosen < MaxPassword
            /\ l.pw = chosen + 1
         \/ /\ l.op \notin Choosing /\ chosen' = chosen
            /\ l.pw = 0 \/ \E x \in Secret : l.pw = db[x].pw
  PROVE  StoreInv'
<1>1. /\ Others(r) /\ pc[r] = "idle" /\ pc'[r] = to /\ loc'[r] = l
      /\ db' = db /\ holder' = holder /\ dirty' = dirty
  BY EnterOthers DEF Enter, Go, dbState
<1>2. loc[r].op = "none" /\ holder[User] # r /\ {s \in Session : holder[s] = r} = {}
  BY <1>1 DEF StoreInv, Mine, Tasked, Tokens, Account
<1>3. Mine(r)'
  <2>1. {s \in Session : holder[s] = r}' = {}
    BY <1>1, <1>2
  <2>2. Tokens(r)'
    BY <1>1, <2>1 DEF Tokens
  <2>3. Account(r)'
    BY <1>1, <1>2 DEF Account
  <2>4. QED
    BY <1>1, <2>2, <2>3 DEF Mine
<1>4. \A q \in Req \ {r} : Mine(q)'
  BY <1>1, MineKept DEF StoreInv, Others
<1>5. Passwords'
  <2>1. /\ chosen \in Nat /\ chosen' \in Nat /\ chosen <= chosen' /\ chosen' <= MaxPassword
        /\ known \subseteq 1..chosen
    BY SecretTypes DEF StoreInv, Passwords
  <2>2. /\ \A x \in Secret : db[x].pw \in known \cup {0}
        /\ \A q \in Req : loc[q].pw \in Nat /\ loc[q].pw <= chosen
    BY SecretTypes DEF StoreInv, Passwords
  <2>3. /\ (db[User].status = "absent") <=> (db[User].pw = 0)
        /\ \A q \in Req : loc[q].op \in {"register", "login", "reset"} => loc[q].pw # 0
        /\ \A q \in Req : loc[q].op \notin Choosing => loc[q].pw \in known \cup {0}
        /\ \A q \in Req : loc[q].op \in Choosing =>
             loc[q].pw \notin known /\ \A p \in Req \ {q} : loc[p].pw # loc[q].pw
    BY DEF StoreInv, Passwords
  <2>4. l.pw <= chosen' /\ (l.op \notin Choosing => l.pw \in known \cup {0})
    <3>1. CASE l.op \in Choosing /\ l.pw = chosen + 1 /\ chosen' = chosen + 1
      BY <2>1, <3>1
    <3>2. CASE l.op \notin Choosing /\ chosen' = chosen
      <4>1. l.pw \in known \cup {0}
        BY <2>2, <3>2 DEF Choosing
      <4>2. \A p \in known \cup {0} : p <= chosen
        BY <2>1
      <4>3. QED
        BY <3>2, <4>1, <4>2
    <3>3. QED
      BY <3>1, <3>2
  <2>5. \A q \in Req \ {r} : loc[q].op \in Choosing => l.pw # loc[q].pw
    BY <2>1, <2>2, <2>3 DEF Choosing
  <2>6. l.op \in Choosing => l.pw \notin known /\ \A q \in Req \ {r} : loc[q].pw # l.pw
    BY <2>1, <2>2
  <2>7. \A q \in Req \ {r} : loc'[q] = loc[q]
    BY <1>1 DEF Others
  <2>8. known' \subseteq 1..chosen' /\ \A q \in Req : loc'[q].pw <= chosen'
    BY <1>1, <2>1, <2>2, <2>4, <2>7
  <2>9. /\ \A q \in Req : loc'[q].op \in {"register", "login", "reset"} => loc'[q].pw # 0
        /\ \A q \in Req : loc'[q].op \notin Choosing => loc'[q].pw \in known' \cup {0}
    BY <1>1, <2>3, <2>4, <2>7
  <2>10. ASSUME NEW q \in Req, loc'[q].op \in Choosing
         PROVE  loc'[q].pw \notin known' /\ \A p \in Req \ {q} : loc'[p].pw # loc'[q].pw
    <3>1. CASE q = r
      BY <1>1, <2>6, <2>7, <2>10, <3>1
    <3>2. CASE q # r
      BY <1>1, <2>3, <2>5, <2>7, <2>10, <3>2
    <3>3. QED
      BY <3>1, <3>2
  <2>11. QED
    BY <1>1, <2>1, <2>2, <2>3, <2>8, <2>9, <2>10 DEF Passwords
<1>6. QED
  BY <1>3, <1>4, <1>5 DEF StoreInv

LEMMA StartWritesNothing ==
  ASSUME NEW r \in Req, Start(r)
  PROVE  UNCHANGED dbState /\ serial' = serial /\ db' = db /\ known' = known
<1>1. RegisterCheck(r) \/ LoginRead(r) \/ UpdateMeBegin(r) \/ ForgotRead(r)
        => UNCHANGED <<dbState, serial, history>>
  BY DEF RegisterCheck, LoginRead, UpdateMeBegin, ForgotRead, env
<1>2. \A s \in Session : RefreshFind(r, s) \/ LogoutFind(r, s)
        => UNCHANGED <<dbState, serial, history>>
  BY DEF RefreshFind, LogoutFind, env
<1>3. \A c \in Code : ResetFind(r, c) => UNCHANGED <<dbState, serial, history>>
  BY DEF ResetFind
<1>4. UNCHANGED <<dbState, serial, history>>
  BY <1>1, <1>2, <1>3 DEF Start
<1>5. QED
  BY <1>4 DEF dbState, history

LEMMA StartStore ==
  ASSUME TypeInv, StoreInv, NEW r \in Req, Start(r)
  PROVE  StoreInv'
<1>1. UNCHANGED dbState /\ serial' = serial /\ db' = db /\ known' = known
  BY StartWritesNothing
<1>2. pc[r] = "idle"
  <2>1. \A to, l : Enter(r, to, l) => pc[r] = "idle"
    BY DEF Enter, Go
  <2>2. RegisterCheck(r) \/ LoginRead(r) \/ UpdateMeBegin(r) \/ ForgotRead(r) => pc[r] = "idle"
    BY <2>1 DEF RegisterCheck, LoginRead, UpdateMeBegin, ForgotRead
  <2>3. \A s \in Session : RefreshFind(r, s) \/ LogoutFind(r, s) => pc[r] = "idle"
    BY <2>1 DEF RefreshFind, LogoutFind
  <2>4. \A c \in Code : ResetFind(r, c) => pc[r] = "idle"
    BY <2>1 DEF ResetFind
  <2>5. QED
    BY <2>2, <2>3, <2>4 DEF Start
<1>3. /\ loc[r].op = "none" /\ holder[User] # r /\ \A s \in Session : holder[s] # r
  BY <1>2 DEF StoreInv, Mine, Tasked, Tokens, Account
<1>4. \A x \in Secret : View(r)[x] = db[x]
  BY <1>3, SecretTypes DEF View, Secret
<1>5. chosen \in Nat /\ User \in Secret /\ Session \subseteq Secret
  BY SecretTypes
<1>6. (db[User].status = "absent") <=> (db[User].pw = 0)
  BY DEF StoreInv, Passwords
<1>7. CASE RegisterCheck(r)
  <2> DEFINE l == [Idle EXCEPT !.op = "register", !.pw = chosen + 1]
  <2>1. l.op = "register" /\ l.pw = chosen + 1 /\ l.from = None
    BY DEF Idle
  <2>2. Enter(r, "register", l) /\ chosen' = chosen + 1 /\ chosen < MaxPassword
    BY <1>7 DEF RegisterCheck
  <2> HIDE DEF l
  <2>3. pc'[r] = "register" /\ loc'[r] = l => Tasked(r)'
    BY <2>1 DEF Tasked, ResetPc
  <2>4. QED
    BY <1>1, <1>5, <2>1, <2>2, <2>3, BeginStore DEF Choosing
<1>8. CASE LoginRead(r)
  <2> DEFINE l == [Idle EXCEPT !.op = "login", !.pw = View(r)[User].pw]
  <2>1. /\ l.op = "login" /\ l.pw = View(r)[User].pw /\ l.from = None
        /\ Enter(r, "rehash", l) \/ Enter(r, "issue", l)
        /\ chosen' = chosen /\ View(r)[User].status = "active"
    BY <1>8 DEF Idle, LoginRead, env
  <2> HIDE DEF l
  <2>2. l.pw = db[User].pw /\ l.pw # 0 /\ db[User].status # "absent" /\ l.op \notin Choosing
    BY <1>4, <1>5, <1>6, <2>1 DEF Choosing
  <2>3. \A to \in {"rehash", "issue"} : pc'[r] = to /\ loc'[r] = l => Tasked(r)'
    BY <1>1, <2>1, <2>2 DEF Tasked, ResetPc, Issuing
  <2>4. \E x \in Secret : l.pw = db[x].pw
    BY <1>5, <2>2
  <2>5. CASE Enter(r, "rehash", l)
    BY <1>1, <2>1, <2>2, <2>3, <2>4, <2>5, BeginStore
  <2>6. CASE Enter(r, "issue", l)
    BY <1>1, <2>1, <2>2, <2>3, <2>4, <2>6, BeginStore
  <2>7. QED
    BY <2>1, <2>5, <2>6
<1>9. CASE UpdateMeBegin(r)
  <2> DEFINE l == [Idle EXCEPT !.op = "updateMe"]
  <2>1. /\ l.op = "updateMe" /\ l.pw = 0 /\ Enter(r, "profile", l) /\ chosen' = chosen
        /\ View(r)[User].status = "active"
    BY <1>9 DEF Idle, UpdateMeBegin, env
  <2> HIDE DEF l
  <2>2. db[User].status # "absent"
    BY <1>4, <1>5, <2>1
  <2>3. pc'[r] = "profile" /\ loc'[r] = l => Tasked(r)'
    BY <1>1, <2>1, <2>2 DEF Tasked, ResetPc
  <2>4. QED
    BY <1>1, <2>1, <2>3, BeginStore DEF Choosing
<1>10. CASE ForgotRead(r)
  <2> DEFINE l == [Idle EXCEPT !.op = "forgot"]
  <2>1. l.op = "forgot" /\ l.pw = 0 /\ Enter(r, "forgot", l) /\ chosen' = chosen
    BY <1>10 DEF Idle, ForgotRead, env
  <2> HIDE DEF l
  <2>2. pc'[r] = "forgot" /\ loc'[r] = l => Tasked(r)'
    BY <2>1 DEF Tasked, ResetPc
  <2>3. QED
    BY <1>1, <2>1, <2>2, BeginStore DEF Choosing
<1>11. ASSUME NEW s \in Session, RefreshFind(r, s)
       PROVE  StoreInv'
  <2> DEFINE l == [Idle EXCEPT !.op = "refresh", !.from = s, !.pw = View(r)[s].pw]
  <2>1. /\ l.op = "refresh" /\ l.from = s /\ l.pw = View(r)[s].pw
        /\ Enter(r, "refreshUser", l) /\ chosen' = chosen /\ View(r)[s].st = "live"
    BY <1>11 DEF Idle, RefreshFind, LiveSessions, env
  <2> HIDE DEF l
  <2>2. l.pw = db[s].pw /\ db[s].st = "live"
    BY <1>4, <1>5, <2>1
  <2>3. pc'[r] = "refreshUser" /\ loc'[r] = l => Tasked(r)'
    BY <1>1, <2>1, <2>2 DEF Tasked, ResetPc
  <2>4. \E x \in Secret : l.pw = db[x].pw
    BY <1>5, <2>2
  <2>5. QED
    BY <1>1, <2>1, <2>3, <2>4, BeginStore DEF Choosing
<1>12. ASSUME NEW s \in Session, LogoutFind(r, s)
       PROVE  StoreInv'
  <2> DEFINE l == [Idle EXCEPT !.op = "logout", !.from = s]
  <2>1. l.op = "logout" /\ l.pw = 0 /\ Enter(r, "logout", l) /\ chosen' = chosen
    BY <1>12 DEF Idle, LogoutFind, env
  <2> HIDE DEF l
  <2>2. pc'[r] = "logout" /\ loc'[r] = l => Tasked(r)'
    BY <2>1 DEF Tasked, ResetPc
  <2>3. QED
    BY <1>1, <2>1, <2>2, BeginStore DEF Choosing
<1>13. ASSUME NEW c \in Code, ResetFind(r, c)
       PROVE  StoreInv'
  <2> DEFINE l == [Idle EXCEPT !.op = "reset", !.code = c, !.pw = chosen + 1,
                               !.found = LiveSessions(r), !.codes = LiveCodes(r)]
  <2>1. /\ l.op = "reset" /\ l.pw = chosen + 1 /\ Enter(r, "resetUser", l)
        /\ chosen' = chosen + 1 /\ chosen < MaxPassword
        /\ View(r)[User].status # "absent"
    BY <1>13 DEF Idle, ResetFind
  <2> HIDE DEF l
  <2>2. db[User].status # "absent"
    BY <1>4, <1>5, <2>1
  <2>3. pc'[r] = "resetUser" /\ loc'[r] = l => Tasked(r)'
    BY <1>1, <2>1, <2>2 DEF Tasked, ResetPc
  <2>4. QED
    BY <1>1, <1>5, <2>1, <2>3, BeginStore DEF Choosing
<1>14. QED
  BY <1>7, <1>8, <1>9, <1>10, <1>11, <1>12, <1>13 DEF Start

(* A statement of r that writes rows nobody else holds and commits none.   *)
LEMMA StatementKeeps ==
  ASSUME TypeInv, StoreInv, NEW r \in Req, Others(r),
         db' = db, serial' = serial, chosen' = chosen, known' = known,
         loc'[r].op = loc[r].op, loc'[r].pw = loc[r].pw,
         \A x \in Secret : \/ (holder'[x] = holder[x] /\ dirty'[x] = dirty[x])
                          \/ (holder[x] \in {r, None} /\ holder'[x] = r),
         Mine(r)'
  PROVE  StoreInv'
<1>1. None \notin Req
  BY SecretTypes
<1>2. ASSUME NEW q \in Req \ {r}
      PROVE  Mine(q)'
  <2>1. /\ \A x \in Secret : holder'[x] = q <=> holder[x] = q
        /\ \A x \in Secret : holder[x] = q => db'[x] = db[x] /\ dirty'[x] = dirty[x]
    BY <1>1
  <2>2. QED
    BY <2>1, MineKept DEF StoreInv, Others
<1>3. \A q \in Req : loc'[q].op = loc[q].op /\ loc'[q].pw = loc[q].pw
  BY DEF Others
<1>4. Passwords'
  BY <1>3 DEF StoreInv, Passwords
<1>5. QED
  BY <1>2, <1>4 DEF StoreInv

(* A request that ends without a trace.                                    *)
LEMMA RollbackStore ==
  ASSUME TypeInv, StoreInv, NEW r \in Req, RollbackTx(r), UNCHANGED <<env, history>>,
         pc' = [pc EXCEPT ![r] = "idle"], loc' = [loc EXCEPT ![r] = Idle]
  PROVE  StoreInv'
<1>1. /\ Others(r) /\ pc'[r] = "idle" /\ loc'[r] = Idle
      /\ db' = db /\ serial' = serial /\ chosen' = chosen /\ known' = known
  BY DEF Others, TypeInv, RestInv, RollbackTx, env, history
<1>2. /\ \A x \in Secret : holder'[x] = IF holder[x] = r THEN None ELSE holder[x]
      /\ \A x \in Secret : dirty'[x] = IF holder[x] = r THEN db[x] ELSE dirty[x]
      /\ None \notin Req /\ Session \subseteq Secret /\ User \in Secret
  BY SecretTypes DEF RollbackTx, Release
<1>3. Idle.op = "none" /\ Idle.pw = 0
  BY DEF Idle
<1>4. ASSUME NEW q \in Req \ {r}
      PROVE  Mine(q)'
  <2>1. /\ \A x \in Secret : holder'[x] = q <=> holder[x] = q
        /\ \A x \in Secret : holder[x] = q => db'[x] = db[x] /\ dirty'[x] = dirty[x]
    BY <1>1, <1>2
  <2>2. QED
    BY <1>1, <2>1, MineKept DEF StoreInv, Others
<1>5. Mine(r)'
  BY <1>1, <1>2, <1>3 DEF Mine, Tasked, Tokens, Account, ResetPc
<1>6. Passwords'
  <2>1. chosen \in Nat
    BY SecretTypes
  <2>2. \A q \in Req : (loc'[q] = loc[q]) \/ (loc'[q].op = "none" /\ loc'[q].pw = 0)
    BY <1>1, <1>3 DEF Others
  <2>3. \A q \in Req : loc'[q].op \in {"register", "login", "reset"} \cup Choosing =>
          loc'[q] = loc[q]
    BY <2>2 DEF Choosing
  <2>4. \A q \in Req : loc'[q].op \in Choosing =>
          \A p \in Req \ {q} : loc'[p].pw # loc'[q].pw
    BY <2>2, <2>3 DEF StoreInv, Passwords, Choosing
  <2>5. QED
    BY <1>1, <2>1, <2>2, <2>3, <2>4 DEF StoreInv, Passwords
<1>7. QED
  BY <1>4, <1>5, <1>6 DEF StoreInv

(* What r leaves when it commits.                                          *)
LEMMA CommitSecrets ==
  ASSUME TypeInv, StoreInv, NEW r \in Req, pc[r] = "commit", CommitTx(r)
  PROVE  /\ \A x \in Secret : db'[x] = IF holder[x] = r THEN dirty[x] ELSE db[x]
         /\ \A x \in Secret : db'[x].pw \in {db[x].pw, loc[r].pw}
         /\ \A s \in Session : db[s].st # "absent" =>
              /\ db'[s].st # "absent" /\ db'[s].pw = db[s].pw /\ db'[s].from = db[s].from
         /\ db[User].status # "absent" => db'[User].status # "absent"
         /\ (db'[User].status = "absent") <=> (db'[User].pw = 0)
<1>1. /\ \A x \in Secret : db'[x] = IF holder[x] = r THEN dirty[x] ELSE db[x]
      /\ User \in Secret /\ Session \subseteq Secret
  BY SecretTypes DEF CommitTx, View
<1>2. Mine(r) /\ Passwords
  BY DEF StoreInv
<1>3. ASSUME NEW s \in Session, holder[s] = r
      PROVE  Issued(r, s) \/ Ended(s)
  BY <1>2, <1>3, SecretTypes DEF Mine, Tokens, Tasked, Issuing, Local
<1>4. ASSUME NEW s \in Session
      PROVE  /\ db'[s].pw \in {db[s].pw, loc[r].pw}
             /\ db[s].st # "absent" =>
                  db'[s].st # "absent" /\ db'[s].pw = db[s].pw /\ db'[s].from = db[s].from
  <2>1. CASE holder[s] # r
    BY <1>1, <2>1
  <2>2. CASE Issued(r, s)
    BY <1>1, <2>2 DEF Issued
  <2>3. CASE holder[s] = r /\ Ended(s)
    <3>1. [db[s] EXCEPT !.st = "revoked"]
            = [st |-> "revoked", pw |-> db[s].pw, from |-> db[s].from]
      BY SecretTypes DEF SessionRow
    <3>2. QED
      BY <1>1, <2>3, <3>1 DEF Ended
  <2>4. QED
    BY <1>3, <2>1, <2>2, <2>3
<1>5. /\ db'[User].pw \in {db[User].pw, loc[r].pw}
      /\ db[User].status # "absent" => db'[User].status # "absent"
      /\ (db'[User].status = "absent") <=> (db'[User].pw = 0)
  BY <1>1, <1>2 DEF Mine, Account, Passwords
<1>6. QED
  BY <1>1, <1>4, <1>5 DEF Secret

LEMMA CommitStore ==
  ASSUME TypeInv, SerialInv, StoreInv, NEW r \in Req, Commit(r)
  PROVE  StoreInv'
<1>1. /\ Others(r) /\ pc[r] = "commit" /\ pc'[r] = "idle" /\ loc'[r] = Idle
      /\ CommitTx(r) /\ serial' = serial /\ chosen' = chosen
  BY DEF Commit, Go, Others, TypeInv, RestInv, env
<1>2. /\ \A x \in Secret : db'[x] = IF holder[x] = r THEN dirty[x] ELSE db[x]
      /\ \A x \in Secret : db'[x].pw \in {db[x].pw, loc[r].pw}
      /\ \A s \in Session : db[s].st # "absent" =>
           db'[s].st # "absent" /\ db'[s].pw = db[s].pw
      /\ db[User].status # "absent" => db'[User].status # "absent"
      /\ (db'[User].status = "absent") <=> (db'[User].pw = 0)
  BY <1>1, CommitSecrets
<1>3. /\ \A x \in Secret : holder'[x] = IF holder[x] = r THEN None ELSE holder[x]
      /\ dirty' = dirty
      /\ None \notin Req /\ Session \subseteq Secret /\ User \in Secret
  BY <1>1, SecretTypes DEF CommitTx, Release
<1>4. Idle.op = "none" /\ Idle.pw = 0
  BY DEF Idle
<1>5. ASSUME NEW q \in Req \ {r}
      PROVE  Mine(q)'
  <2>1. /\ \A x \in Secret : holder'[x] = q <=> holder[x] = q
        /\ \A x \in Secret : holder[x] = q => db'[x] = db[x] /\ dirty'[x] = dirty[x]
    BY <1>2, <1>3
  <2>2. serial => loc[q].op # "refresh"
    BY <1>1 DEF SerialInv, StoreInv, Mine, Tasked
  <2>3. QED
    BY <1>1, <1>2, <2>1, <2>2, MineKept DEF StoreInv, Others
<1>6. Mine(r)'
  BY <1>1, <1>3, <1>4 DEF Mine, Tasked, Tokens, Account, ResetPc
<1>7. Passwords'
  <2>1. chosen \in Nat /\ loc[r].pw \in Nat /\ Passwords
    BY SecretTypes DEF StoreInv
  <2>2. /\ \A q \in Req \ {r} : loc'[q] = loc[q]
        /\ loc'[r].op = "none" /\ loc'[r].pw = 0
    BY <1>1, <1>4 DEF Others
  <2>3. known' = IF loc[r].op \in Choosing THEN known \cup {loc[r].pw} ELSE known
    BY DEF Commit, Choosing
  <2>4. known' \subseteq 1..chosen
    <3>1. known \subseteq 1..chosen /\ loc[r].pw <= chosen
      BY <2>1 DEF Passwords
    <3>2. loc[r].op \in Choosing => loc[r].pw \in 1..chosen
      BY <2>1, <3>1 DEF Passwords, Choosing
    <3>3. QED
      BY <2>3, <3>1, <3>2
  <2>5. \A x \in Secret : db'[x].pw \in known' \cup {0}
    BY <1>2, <2>1, <2>3 DEF Passwords
  <2>6. ASSUME NEW q \in Req, loc'[q].op \in Choosing
        PROVE  loc'[q].pw \notin known' /\ \A p \in Req \ {q} : loc'[p].pw # loc'[q].pw
    <3>1. q # r /\ loc'[q] = loc[q] /\ loc[q].pw # 0
      BY <2>1, <2>2, <2>6 DEF Passwords, Choosing
    <3>2. QED
      BY <2>1, <2>2, <2>3, <2>6, <3>1 DEF Passwords
  <2>7. /\ \A q \in Req : loc'[q].pw <= chosen
        /\ \A q \in Req : loc'[q].op \in {"register", "login", "reset"} => loc'[q].pw # 0
        /\ \A q \in Req : loc'[q].op \notin Choosing => loc'[q].pw \in known' \cup {0}
    BY <2>1, <2>2, <2>3 DEF Passwords
  <2>8. QED
    BY <1>1, <1>2, <2>1, <2>4, <2>5, <2>6, <2>7 DEF Passwords
<1>8. QED
  BY <1>5, <1>6, <1>7 DEF StoreInv

(* A statement of r that writes neither tokens nor the account.            *)
LEMMA QuietStore ==
  ASSUME TypeInv, StoreInv, NEW r \in Req, Others(r),
         db' = db, serial' = serial, chosen' = chosen, known' = known,
         loc'[r].op = loc[r].op, loc'[r].pw = loc[r].pw, loc'[r].from = loc[r].from,
         \A x \in Secret : holder'[x] = holder[x] /\ dirty'[x] = dirty[x],
         pc[r] \notin {"issue", "throw", "commit", "resetUser"}, pc'[r] # "resetUser",
         loc[r].op \in {"refresh", "forgot", "reset"},
         pc'[r] = "commit" => loc[r].op = "forgot",
         Tasked(r)'
  PROVE  StoreInv'
<1>1. Session \subseteq Secret /\ User \in Secret
  BY DEF Secret
<1>2. {s \in Session : holder[s] = r}' = {} /\ Mine(r)
  BY <1>1 DEF StoreInv, Mine, Tokens
<1>3. Tokens(r)'
  BY <1>2 DEF Tokens, Issuing
<1>4. Account(r)'
  BY <1>1, <1>2 DEF Mine, Account
<1>5. Mine(r)'
  BY <1>3, <1>4 DEF Mine
<1>6. QED
  BY <1>5, StatementKeeps

(* A statement of r that writes the account's row, before any of a token.  *)
LEMMA UserStore ==
  ASSUME TypeInv, StoreInv, NEW r \in Req, NEW from, NEW to, NEW row,
         Go(r, from, to), UNCHANGED <<loc, env, history>>, Write(r, [u \in {User} |-> row]),
         row.status # "absent", from \notin {"issue", "throw", "commit"},
         \/ /\ loc[r].op \in {"register", "login"} /\ to = "issue" /\ row.pw = loc[r].pw
            /\ loc[r].op = "register" => db[User].status = "absent"
         \/ /\ loc[r].op = "updateMe" /\ to = "commit"
            /\ row.pw = db[User].pw /\ row.status = db[User].status
         \/ loc[r].op = "reset" /\ to = "resetCodes" /\ row.pw = loc[r].pw
  PROVE  StoreInv'
<1>1. /\ Others(r) /\ pc[r] = from /\ pc'[r] = to /\ loc'[r] = loc[r]
      /\ serial' = serial /\ chosen' = chosen /\ known' = known
  BY GoOthers DEF env, history
<1>2. /\ User \notin Session /\ User \in Row /\ Session \subseteq Row /\ Secret \subseteq Row
  BY SecretTypes DEF Row
<1>3. /\ db' = db /\ holder'[User] = r /\ dirty'[User] = row
      /\ holder[User] \in {r, None}
      /\ \A s \in Session : holder'[s] = holder[s] /\ dirty'[s] = dirty[s]
  BY <1>2 DEF Write, Unlocked
<1>4. Mine(r) /\ {s \in Session : holder[s] = r}' = {}
  BY <1>1, <1>3 DEF StoreInv, Mine, Tokens
<1>5. Tasked(r)'
  BY <1>1, <1>3, <1>4 DEF Mine, Tasked, ResetPc, Issuing
<1>6. Tokens(r)'
  BY <1>1, <1>4 DEF Tokens, Issuing
<1>7. Account(r)'
  BY <1>1, <1>3 DEF Account
<1>8. Mine(r)'
  BY <1>5, <1>6, <1>7 DEF Mine
<1>9. \A x \in Secret : \/ (holder'[x] = holder[x] /\ dirty'[x] = dirty[x])
                       \/ (holder[x] \in {r, None} /\ holder'[x] = r)
  BY <1>3 DEF Secret
<1>10. QED
  BY <1>1, <1>3, <1>8, <1>9, StatementKeeps

(* A statement of r that ends tokens, its first write of any.              *)
LEMMA RevokeStore ==
  ASSUME TypeInv, StoreInv, NEW r \in Req, NEW from, NEW to, NEW S,
         Go(r, from, to), UNCHANGED <<loc, env, history>>, Revoke(r, S),
         from \notin {"issue", "throw", "commit", "resetUser"},
         \/ loc[r].op = "refresh" /\ S = {loc[r].from} /\ to \in {"issue", "throw"}
         \/ loc[r].op = "logout" /\ S = {loc[r].from} /\ to = "commit"
         \/ loc[r].op = "reset" /\ to = "commit"
  PROVE  StoreInv'
<1>1. /\ Others(r) /\ pc[r] = from /\ pc'[r] = to /\ loc'[r] = loc[r]
      /\ serial' = serial /\ chosen' = chosen /\ known' = known
  BY GoOthers DEF env, history
<1>2. /\ User \notin Session /\ User \in Row /\ Session \subseteq Row
      /\ None \notin Req
  BY SecretTypes DEF Row
<1>3. Mine(r) /\ \A s \in Session : holder[s] # r
  BY <1>1 DEF StoreInv, Mine, Tokens
<1> DEFINE new == [s \in S \cap LiveSessions(r) |-> [View(r)[s] EXCEPT !.st = "revoked"]]
<1>4. /\ DOMAIN new = S \cap LiveSessions(r)
      /\ \A s \in DOMAIN new : /\ s \in Session /\ View(r)[s].st = "live" /\ View(r)[s] = db[s]
                               /\ new[s] = [db[s] EXCEPT !.st = "revoked"]
  BY <1>2, <1>3 DEF LiveSessions, View
<1>5. Write(r, new)
  BY DEF Revoke
<1> HIDE DEF new
<1>6. /\ db' = db /\ holder'[User] = holder[User] /\ dirty'[User] = dirty[User]
      /\ \A s \in Session : s \in DOMAIN new => holder[s] \in {r, None} /\ holder'[s] = r
                                                /\ dirty'[s] = new[s]
      /\ \A s \in Session : s \notin DOMAIN new => holder'[s] = holder[s] /\ dirty'[s] = dirty[s]
  BY <1>2, <1>4, <1>5 DEF Write, Unlocked
<1>7. \A s \in Session : holder'[s] = r => s \in S /\ Ended(s)'
  BY <1>3, <1>4, <1>6 DEF Ended
<1>8. Tasked(r)'
  BY <1>1, <1>3, <1>6 DEF Mine, Tasked, ResetPc, Issuing
<1>9. Tokens(r)'
  BY <1>1, <1>7 DEF Tokens, Issuing
<1>10. Account(r)'
  BY <1>1, <1>3, <1>6 DEF Mine, Account
<1>11. Mine(r)'
  BY <1>8, <1>9, <1>10 DEF Mine
<1>12. \A x \in Secret : \/ (holder'[x] = holder[x] /\ dirty'[x] = dirty[x])
                        \/ (holder[x] \in {r, None} /\ holder'[x] = r)
  BY <1>6 DEF Secret
<1>13. QED
  BY <1>1, <1>6, <1>11, <1>12, StatementKeeps

LEMMA IssueStore ==
  ASSUME TypeInv, StoreInv, NEW r \in Req, IssueSession(r)
  PROVE  StoreInv'
<1>1. PICK s \in Session :
        /\ View(r)[s].st = "absent"
        /\ Go(r, "issue", "commit")
        /\ Write(r, [x \in {s} |-> [st |-> "live", pw |-> loc[r].pw, from |-> loc[r].from]])
        /\ UNCHANGED <<loc, started, env, history>>
  BY DEF IssueSession
<1>2. /\ Others(r) /\ pc[r] = "issue" /\ pc'[r] = "commit" /\ loc'[r] = loc[r]
      /\ serial' = serial /\ chosen' = chosen /\ known' = known
  BY <1>1, GoOthers DEF env, history
<1>3. /\ User \notin Session /\ User \in Row /\ Session \subseteq Row
      /\ None \notin Req
  BY SecretTypes DEF Row
<1>4. /\ Mine(r) /\ loc[r].op \in Issuing
      /\ \A t \in Session : holder[t] = r => t = loc[r].from /\ Ended(t)
  BY <1>2 DEF StoreInv, Mine, Tokens, Tasked
<1>5. holder[s] # r /\ db[s].st = "absent"
  <2>1. [db[s] EXCEPT !.st = "revoked"].st = "revoked"
    BY SecretTypes DEF SessionRow
  <2>2. holder[s] = r => View(r)[s].st = "revoked"
    BY <1>3, <1>4, <2>1 DEF View, Ended
  <2>3. QED
    BY <1>1, <1>3, <2>2 DEF View
<1>6. /\ db' = db /\ holder'[s] = r /\ holder[s] = None
      /\ dirty'[s] = [st |-> "live", pw |-> loc[r].pw, from |-> loc[r].from]
      /\ \A x \in Secret \ {s} : holder'[x] = holder[x] /\ dirty'[x] = dirty[x]
  BY <1>1, <1>3, <1>5 DEF Write, Unlocked, Secret, Row
<1>7. Issued(r, s)'
  BY <1>2, <1>5, <1>6 DEF Issued
<1>8. \A t \in Session \ {s} : holder'[t] = r => t = loc'[r].from /\ Ended(t)'
  BY <1>2, <1>4, <1>6 DEF Ended, Secret
<1>9. Tasked(r)'
  BY <1>2, <1>4, <1>6 DEF Mine, Tasked, ResetPc, Issuing
<1>10. Tokens(r)'
  BY <1>2, <1>4, <1>6, <1>7, <1>8 DEF Tokens, Issuing
<1>11. Account(r)'
  BY <1>2, <1>3, <1>4, <1>6 DEF Mine, Account, Secret, Issuing
<1>12. Mine(r)'
  BY <1>9, <1>10, <1>11 DEF Mine
<1>13. \A x \in Secret : \/ (holder'[x] = holder[x] /\ dirty'[x] = dirty[x])
                        \/ (holder[x] \in {r, None} /\ holder'[x] = r)
  BY <1>6
<1>14. QED
  BY <1>2, <1>6, <1>12, <1>13, StatementKeeps

LEMMA ContinueStore ==
  ASSUME TypeInv, SerialInv, StoreInv, NEW r \in Req, Continue(r)
  PROVE  StoreInv'
<1>1. /\ Mine(r) /\ loc[r] \in Local /\ View(r)[User] \in UserRow
      /\ User \in Row /\ User \in Secret /\ User \notin Code
  BY SecretTypes, ViewTypes, StaffSessionsAssumption DEF StoreInv, TypeInv, Row
<1>2. holder[User] # r => View(r)[User] = db[User]
  BY <1>1 DEF View
<1>3. CASE RegisterInsert(r)
  <2> DEFINE row == [status |-> "active", pw |-> loc[r].pw, params |-> params]
  <2>1. /\ Go(r, "register", "issue") /\ UNCHANGED <<loc, env, history>>
        /\ Write(r, [u \in {User} |-> row]) /\ db[User].status = "absent"
    BY <1>3 DEF RegisterInsert
  <2>2. row.status = "active" /\ row.pw = loc[r].pw
    OBVIOUS
  <2>3. loc[r].op = "register"
    BY <1>1, <2>1 DEF Mine, Tasked, Go
  <2> HIDE DEF row
  <2>4. QED
    BY <2>1, <2>2, <2>3, UserStore
<1>4. CASE RegisterConflict(r)
  BY <1>4, RollbackStore DEF RegisterConflict, Go
<1>5. CASE LoginRehash(r)
  <2> DEFINE row == [View(r)[User] EXCEPT !.pw = loc[r].pw, !.params = params]
  <2>1. /\ Go(r, "rehash", "issue") /\ UNCHANGED <<loc, env, history>> /\ Write(r, [u \in {User} |-> row])
    BY <1>5 DEF LoginRehash
  <2>2. loc[r].op = "login" /\ holder[User] # r /\ db[User].status # "absent"
    BY <1>1, <2>1 DEF Mine, Tasked, Account, Go
  <2>3. row.status # "absent" /\ row.pw = loc[r].pw
    BY <1>1, <1>2, <2>2 DEF UserRow
  <2> HIDE DEF row
  <2>4. QED
    BY <2>1, <2>2, <2>3, UserStore
<1>6. CASE IssueSession(r)
  BY <1>6, IssueStore
<1>7. CASE RefreshUser(r)
  <2>1. PICK to \in {"rotate", "refuse"} : Go(r, "refreshUser", to)
    BY <1>7 DEF RefreshUser
  <2>2. /\ db' = db /\ holder' = holder /\ dirty' = dirty /\ loc' = loc
        /\ serial' = serial /\ chosen' = chosen /\ known' = known
    BY <1>7 DEF RefreshUser, dbState, env, history
  <2>3. Others(r) /\ pc[r] = "refreshUser" /\ pc'[r] = to /\ loc'[r] = loc[r]
    BY <2>1, <2>2, GoOthers
  <2>4. loc[r].op = "refresh"
    BY <1>1, <2>3 DEF Mine, Tasked
  <2>5. Tasked(r)'
    BY <1>1, <2>2, <2>3, <2>4 DEF Mine, Tasked, ResetPc, Issuing
  <2>6. QED
    BY <2>2, <2>3, <2>4, <2>5, QuietStore
<1>8. CASE RefreshRotate(r)
  <2>1. Go(r, "rotate", "issue") /\ UNCHANGED <<loc, env, history>> /\ Revoke(r, {loc[r].from})
    BY <1>8 DEF RefreshRotate
  <2>2. loc[r].op = "refresh"
    BY <1>1, <2>1 DEF Mine, Tasked, Go
  <2>3. QED
    BY <2>1, <2>2, RevokeStore
<1>9. CASE RefreshRefuse(r)
  <2>1. Go(r, "refuse", "throw") /\ UNCHANGED <<loc, env, history>> /\ Revoke(r, {loc[r].from})
    BY <1>9 DEF RefreshRefuse
  <2>2. loc[r].op = "refresh"
    BY <1>1, <2>1 DEF Mine, Tasked, Go
  <2>3. QED
    BY <2>1, <2>2, RevokeStore
<1>10. CASE LogoutRevoke(r)
  <2>1. Go(r, "logout", "commit") /\ UNCHANGED <<loc, env, history>> /\ Revoke(r, {loc[r].from})
    BY <1>10 DEF LogoutRevoke
  <2>2. loc[r].op = "logout"
    BY <1>1, <2>1 DEF Mine, Tasked, Go
  <2>3. QED
    BY <2>1, <2>2, RevokeStore
<1>11. CASE UpdateProfile(r)
  <2>1. /\ Go(r, "profile", "commit") /\ UNCHANGED <<loc, env, history>>
        /\ Write(r, [u \in {User} |-> View(r)[User]])
    BY <1>11 DEF UpdateProfile
  <2>2. loc[r].op = "updateMe" /\ holder[User] # r /\ db[User].status # "absent"
    BY <1>1, <2>1 DEF Mine, Tasked, Account, Go
  <2>3. QED
    BY <1>2, <2>1, <2>2, UserStore
<1>12. CASE FindCodes(r)
  <2>1. PICK from, to :
          /\ Go(r, from, to)
          /\ <<from, to>> \in {<<"forgot", "forgotConsume">>, <<"resetCodes", "resetConsume">>}
    BY <1>12 DEF FindCodes
  <2>2. /\ db' = db /\ holder' = holder /\ dirty' = dirty
        /\ serial' = serial /\ chosen' = chosen /\ known' = known
    BY <1>12 DEF FindCodes, dbState, env, history
  <2>3. Others(r) /\ pc[r] = from /\ pc'[r] = to
    BY <1>12, <2>1 DEF FindCodes, Go, Others, TypeInv, RestInv
  <2>4. loc'[r].op = loc[r].op /\ loc'[r].pw = loc[r].pw /\ loc'[r].from = loc[r].from
    BY <1>1, <1>12 DEF FindCodes, TypeInv, RestInv, Local
  <2>5. loc[r].op \in {"forgot", "reset"}
    BY <1>1, <2>1, <2>3 DEF Mine, Tasked, ResetPc
  <2>6. Tasked(r)'
    BY <1>1, <2>1, <2>2, <2>3, <2>4 DEF Mine, Tasked, ResetPc
  <2>7. QED
    BY <2>1, <2>2, <2>3, <2>4, <2>5, <2>6, QuietStore
<1>13. ASSUME NEW new, Write(r, new), DOMAIN new \subseteq Code
       PROVE  db' = db /\ \A x \in Secret : holder'[x] = holder[x] /\ dirty'[x] = dirty[x]
  <2>1. \A x \in Secret : x \notin DOMAIN new /\ x \in Row
    BY <1>13, StaffSessionsAssumption DEF Secret, Row
  <2>2. QED
    BY <1>13, <2>1 DEF Write
<1>14. CASE ConsumeCodes(r)
  <2>1. PICK from, to :
          /\ Go(r, from, to)
          /\ <<from, to>> \in {<<"forgotConsume", "forgotCreate">>,
                               <<"resetConsume", "resetSessions">>}
    BY <1>14 DEF ConsumeCodes
  <2>2. db' = db /\ \A x \in Secret : holder'[x] = holder[x] /\ dirty'[x] = dirty[x]
    <3> DEFINE new == [c \in loc[r].targets \cap LiveCodes(r) |-> [st |-> "consumed"]]
    <3>1. Write(r, new)
      BY <1>14 DEF ConsumeCodes, Consume
    <3>2. DOMAIN new \subseteq Code
      BY DEF LiveCodes
    <3> HIDE DEF new
    <3>3. QED
      BY <1>13, <3>1, <3>2
  <2>3. UNCHANGED loc /\ serial' = serial /\ chosen' = chosen /\ known' = known
    BY <1>14 DEF ConsumeCodes, env, history
  <2>4. Others(r) /\ pc[r] = from /\ pc'[r] = to /\ loc'[r] = loc[r]
    BY <2>1, <2>3, GoOthers
  <2>5. loc[r].op \in {"forgot", "reset"}
    BY <1>1, <2>1, <2>4 DEF Mine, Tasked, ResetPc
  <2>6. Tasked(r)'
    BY <1>1, <2>1, <2>2, <2>3, <2>4 DEF Mine, Tasked, ResetPc
  <2>7. QED
    BY <2>1, <2>2, <2>3, <2>4, <2>5, <2>6, QuietStore
<1>15. CASE ForgotCreate(r)
  <2>1. PICK c \in Code :
          /\ Go(r, "forgotCreate", "commit")
          /\ Write(r, [x \in {c} |-> [st |-> "live"]])
          /\ UNCHANGED <<loc, started, env, history>>
    BY <1>15 DEF ForgotCreate
  <2>2. db' = db /\ \A x \in Secret : holder'[x] = holder[x] /\ dirty'[x] = dirty[x]
    BY <1>13, <2>1
  <2>3. /\ Others(r) /\ pc[r] = "forgotCreate" /\ pc'[r] = "commit" /\ loc'[r] = loc[r]
        /\ serial' = serial /\ chosen' = chosen /\ known' = known
    BY <2>1, GoOthers DEF env, history
  <2>4. loc[r].op = "forgot"
    BY <1>1, <2>3 DEF Mine, Tasked
  <2>5. Tasked(r)'
    BY <1>1, <2>2, <2>3 DEF Mine, Tasked, ResetPc
  <2>6. QED
    BY <2>2, <2>3, <2>4, <2>5, QuietStore
<1>16. CASE ResetUpdate(r)
  <2> DEFINE row == [View(r)[User] EXCEPT !.pw = loc[r].pw, !.params = params]
  <2>1. /\ Go(r, "resetUser", "resetCodes") /\ UNCHANGED <<loc, env, history>>
        /\ Write(r, [u \in {User} |-> row])
    BY <1>16 DEF ResetUpdate
  <2>2. loc[r].op = "reset" /\ holder[User] # r /\ db[User].status # "absent"
    BY <1>1, <2>1 DEF Mine, Tasked, Account, Go, ResetPc
  <2>3. row.status # "absent" /\ row.pw = loc[r].pw
    BY <1>1, <1>2, <2>2 DEF UserRow
  <2> HIDE DEF row
  <2>4. QED
    BY <2>1, <2>2, <2>3, UserStore
<1>17. CASE ResetFindSessions(r)
  <2>1. /\ db' = db /\ holder' = holder /\ dirty' = dirty
        /\ serial' = serial /\ chosen' = chosen /\ known' = known
    BY <1>17 DEF ResetFindSessions, dbState, env, history
  <2>2. Others(r) /\ pc[r] = "resetSessions" /\ pc'[r] = "resetRevoke"
    BY <1>17 DEF ResetFindSessions, Go, Others, TypeInv, RestInv
  <2>3. loc'[r].op = loc[r].op /\ loc'[r].pw = loc[r].pw /\ loc'[r].from = loc[r].from
    BY <1>1, <1>17 DEF ResetFindSessions, TypeInv, RestInv, Local
  <2>4. loc[r].op = "reset"
    BY <1>1, <2>2 DEF Mine, Tasked, ResetPc
  <2>5. Tasked(r)'
    BY <1>1, <2>1, <2>2, <2>3 DEF Mine, Tasked, ResetPc
  <2>6. QED
    BY <2>1, <2>2, <2>3, <2>4, <2>5, QuietStore
<1>18. CASE ResetRevoke(r)
  <2>1. /\ Go(r, "resetRevoke", "commit") /\ UNCHANGED <<loc, env, history>>
        /\ Revoke(r, loc[r].targets)
    BY <1>18 DEF ResetRevoke
  <2>2. loc[r].op = "reset"
    BY <1>1, <2>1 DEF Mine, Tasked, Go, ResetPc
  <2>3. QED
    BY <2>1, <2>2, RevokeStore
<1>19. CASE Commit(r)
  BY <1>19, CommitStore
<1>20. CASE Throw(r)
  BY <1>20, RollbackStore DEF Throw, Go
<1>21. QED
  BY <1>3, <1>4, <1>5, <1>6, <1>7, <1>8, <1>9, <1>10, <1>11, <1>12, <1>14, <1>15, <1>16,
     <1>17, <1>18, <1>19, <1>20 DEF Continue

LEMMA StoreStep ==
  ASSUME TypeInv, SerialInv, StoreInv, [Next]_vars
  PROVE  StoreInv'
<1>1. ASSUME NEW r \in Req, Abort(r)
      PROVE  StoreInv'
  BY <1>1, RollbackStore DEF Abort
<1>2. ASSUME UNCHANGED <<holder, pc, loc, serial, chosen, known>>,
             \A s \in Session : db'[s] = db[s] /\ dirty'[s] = dirty[s],
             \/ db'[User] = db[User] /\ dirty'[User] = dirty[User]
             \/ /\ holder[User] = None /\ db'[User].pw = db[User].pw
                /\ db[User].status # "absent" /\ db'[User].status # "absent"
      PROVE  StoreInv'
  <2>1. Passwords'
    BY <1>2 DEF StoreInv, Passwords, Secret
  <2>2. ASSUME NEW q \in Req
        PROVE  Mine(q)'
    <3>1. /\ \A x \in Secret : holder'[x] = q <=> holder[x] = q
          /\ \A x \in Secret : holder[x] = q => db'[x] = db[x] /\ dirty'[x] = dirty[x]
      BY <1>2, SecretTypes DEF Secret
    <3>2. /\ serial' = serial
          /\ loc[q].op = "refresh" => db'[loc[q].from].st = db[loc[q].from].st
      BY <1>2 DEF StoreInv, Mine, Tasked
    <3>3. QED
      BY <1>2, <3>1, <3>2, MineKept DEF StoreInv
  <2>3. QED
    BY <2>1, <2>2 DEF StoreInv
<1>3. CASE RaiseParams
  BY <1>2, <1>3 DEF RaiseParams, dbState, history
<1>4. ASSUME NEW x \in Session \cup Code, Expire(x)
      PROVE  StoreInv'
  BY <1>2, <1>4 DEF Expire, dbState, history
<1>5. CASE Disable
  <2>1. User \notin Session /\ User \in Row /\ DbInv /\ db[User] \in UserRow
    BY SecretTypes DEF Row, TypeInv
  <2>2. /\ db' = [db EXCEPT ![User].status = "disabled"] /\ DOMAIN db = Row
        /\ dirty' = [dirty EXCEPT ![User].status = "disabled"] /\ DOMAIN dirty = Row
        /\ db[User].status = "active" /\ holder[User] = None
    BY <1>5, <2>1 DEF Disable, DbInv
  <2>3. /\ db'[User] = [db[User] EXCEPT !.status = "disabled"]
        /\ \A s \in Session : db'[s] = db[s] /\ dirty'[s] = dirty[s]
    BY <2>1, <2>2 DEF Row
  <2>4. db'[User].pw = db[User].pw /\ db'[User].status = "disabled"
    BY <2>1, <2>3 DEF UserRow
  <2>5. UNCHANGED <<holder, pc, loc, serial, chosen, known>>
    BY <1>5 DEF Disable, env, history
  <2>6. QED
    BY <1>2, <2>2, <2>3, <2>4, <2>5
<1>6. CASE UNCHANGED vars
  BY <1>2, <1>6 DEF vars, dbState, env, history
<1>7. QED
  BY <1>1, <1>3, <1>4, <1>5, <1>6, StartStore, ContinueStore DEF Next

LEMMA StoreInit == Init => StoreInv
<1> SUFFICES ASSUME Init PROVE StoreInv
  OBVIOUS
<1>1. /\ None \notin Req /\ User \notin Session \cup Code /\ MaxPassword \in Nat
  BY StaffSessionsAssumption
<1>2. /\ \A s \in Session : db[s].pw = 0
      /\ db[User].pw = 0 /\ db[User].status = "absent"
      /\ \A x \in Row : holder[x] = None
  BY <1>1 DEF Init, InitDb, Row, NoSession
<1>3. \A r \in Req : pc[r] = "idle" /\ loc[r].op = "none" /\ loc[r].pw = 0
  BY DEF Init, Idle
<1>4. chosen = 0 /\ known = {}
  BY DEF Init
<1>5. Passwords
  BY <1>1, <1>2, <1>3, <1>4 DEF Passwords, Secret, Choosing
<1>6. \A r \in Req : Mine(r)
  BY <1>1, <1>2, <1>3 DEF Mine, Tasked, Tokens, Account, ResetPc, Row
<1>7. QED
  BY <1>5, <1>6 DEF StoreInv

LEMMA StoreInvariant == Spec => []StoreInv
<1>1. IInv => TypeInv
  BY DEF IInv
<1>2. TypeInv /\ SerialInv /\ StoreInv /\ [Next]_vars => StoreInv'
  BY StoreStep
<1>3. QED
  BY <1>1, <1>2, StoreInit, SessionsInvariant, SerialInvariant, PTL DEF Spec

(* The tokens r wrote, once it has committed.                              *)
LEMMA CommittedTokens ==
  ASSUME TypeInv, NEW r \in Req, CommitTx(r)
  PROVE  \A s \in Session :
           /\ holder[s] # r => db'[s] = db[s]
           /\ holder[s] = r /\ Ended(s) =>
                db'[s].st = "revoked" /\ db'[s].pw = db[s].pw /\ db'[s].from = db[s].from
           /\ Issued(r, s) =>
                db'[s].st = "live" /\ db'[s].pw = loc[r].pw /\ db'[s].from = loc[r].from
<1> SUFFICES ASSUME NEW s \in Session
             PROVE  /\ holder[s] # r => db'[s] = db[s]
                    /\ holder[s] = r /\ Ended(s) => /\ db'[s].st = "revoked"
                                                   /\ db'[s].pw = db[s].pw
                                                   /\ db'[s].from = db[s].from
                    /\ Issued(r, s) => /\ db'[s].st = "live"
                                       /\ db'[s].pw = loc[r].pw
                                       /\ db'[s].from = loc[r].from
  OBVIOUS
<1>1. db'[s] = IF holder[s] = r THEN dirty[s] ELSE db[s]
  BY SecretTypes DEF CommitTx, View
<1>2. [db[s] EXCEPT !.st = "revoked"] = [st |-> "revoked", pw |-> db[s].pw, from |-> db[s].from]
  BY SecretTypes DEF SessionRow
<1>3. QED
  BY <1>1, <1>2 DEF Ended, Issued

LEMMA CommitIssues ==
  ASSUME TypeInv, NEW r \in Req, CommitTx(r), NEW t \in Session, Issued(r, t),
         NEW p, NEW s, p = loc[r].pw, s = loc[r].from,
         \A u \in Session \ {t} : holder[u] = r => u = s /\ Ended(u),
         s \in Session => db[s].st # "absent" /\ db'[s].st = "revoked"
  PROVE  Store!Issue(t, p, s)
<1>1. /\ db[t].st = "absent" /\ t # s
      /\ db'[t].st = "live" /\ db'[t].pw = p /\ db'[t].from = s
  BY CommittedTokens DEF Issued
<1>2. \A u \in Session \ {t} :
        /\ db'[u].pw = db[u].pw /\ db'[u].from = db[u].from
        /\ db'[u].st = IF u = s THEN "revoked" ELSE db[u].st
  BY CommittedTokens
<1>3. [u \in Session |-> db[u].st][t] = "absent"
  BY <1>1
<1>4. [u \in Session |-> db'[u].st]
        = [u \in Session |-> IF u = t THEN "live"
                            ELSE IF u = s THEN "revoked"
                            ELSE [v \in Session |-> db[v].st][u]]
  BY <1>1, <1>2
<1>5. [u \in Session |-> db'[u].from] = [[u \in Session |-> db[u].from] EXCEPT ![t] = s]
  BY <1>1, <1>2
<1>6. [u \in Session |-> db'[u].pw] = [[u \in Session |-> db[u].pw] EXCEPT ![t] = p]
  BY <1>1, <1>2
<1>7. QED
  BY <1>3, <1>4, <1>5, <1>6 DEF Store!Issue

(* What r chose becomes the password when it commits.                      *)
LEMMA CommitChosen ==
  ASSUME TypeInv, StoreInv, NEW r \in Req, Commit(r), loc[r].op \in Choosing,
         NEW p, p = loc[r].pw, holder[User] = r, dirty[User].pw = p
  PROVE  Store!SetPassword(p)
<1>1. p # 0 /\ p \notin known
  BY DEF StoreInv, Passwords, Choosing
<1>2. known' = known \cup {p}
  BY DEF Commit, Choosing
<1>3. db'[User].pw = p
  BY CommitSecrets, SecretTypes DEF Commit, Go
<1>4. QED
  BY <1>1, <1>2, <1>3 DEF Store!SetPassword

LEMMA CommitSignsUp ==
  ASSUME TypeInv, StoreInv, NEW r \in Req, Commit(r), loc[r].op = "register"
  PROVE  Store!Next
<1> PICK p : p = loc[r].pw
  OBVIOUS
<1>1. CommitTx(r) /\ pc[r] = "commit" /\ serial' = serial
  BY DEF Commit, Go, env
<1>2. /\ loc[r].from = None /\ None \notin Session
      /\ holder[User] = r /\ db[User].status = "absent" /\ dirty[User].pw = loc[r].pw
  BY <1>1, SecretTypes DEF StoreInv, Mine, Tasked, Account
<1>3. PICK t \in Session :
        Issued(r, t) /\ \A s \in Session \ {t} : holder[s] = r => s = loc[r].from /\ Ended(s)
  BY <1>1 DEF StoreInv, Mine, Tokens, Issuing
<1>4. Store!Issue(t, p, None)
  BY <1>1, <1>2, <1>3, CommitIssues
<1>5. Store!SetPassword(p)
  BY <1>2, CommitChosen DEF Choosing
<1>6. db[User].pw = 0
  BY <1>2 DEF StoreInv, Passwords
<1>7. p \in 0..MaxPassword
  BY SecretTypes DEF StoreInv, Passwords
<1>8. Store!SignUp(t, p)
  BY <1>1, <1>4, <1>5, <1>6 DEF Store!SignUp
<1>9. QED
  BY <1>7, <1>8 DEF Store!Next

LEMMA CommitLogsIn ==
  ASSUME TypeInv, SerialInv, StoreInv, NEW r \in Req, Commit(r), loc[r].op = "login"
  PROVE  Store!Next
<1> PICK p : p = loc[r].pw
  OBVIOUS
<1>1. CommitTx(r) /\ pc[r] = "commit" /\ serial' = serial
  BY DEF Commit, Go, env
<1>2. loc[r].from = None /\ None \notin Session /\ db[User].status # "absent"
  BY <1>1, SecretTypes DEF StoreInv, Mine, Tasked
<1>3. PICK t \in Session :
        Issued(r, t) /\ \A s \in Session \ {t} : holder[s] = r => s = loc[r].from /\ Ended(s)
  BY <1>1 DEF StoreInv, Mine, Tokens, Issuing
<1>4. Store!Issue(t, p, None)
  BY <1>1, <1>2, <1>3, CommitIssues
<1>5. p \in known /\ known' = known /\ db'[User].pw \in {db[User].pw, p}
  BY <1>1, <1>2, CommitSecrets, SecretTypes DEF StoreInv, Passwords, Choosing, Commit
<1>6. p \in 0..MaxPassword
  BY SecretTypes DEF StoreInv, Passwords
<1>7. serial => p = db[User].pw
  <2>1. db'[t].st = "live" /\ db'[t].pw = p /\ db' = View(r)
    BY <1>1, <1>3, CommittedTokens DEF CommitTx
  <2>2. serial => Settled(View(r), latest) /\ Settled(db, latest)
    BY <1>1 DEF SerialInv, SerialProgress, Outcome
  <2>3. QED
    BY <2>1, <2>2 DEF Settled
<1>8. Store!Login(t, p)
  BY <1>1, <1>4, <1>5, <1>7 DEF Store!Login
<1>9. QED
  BY <1>6, <1>8 DEF Store!Next

LEMMA CommitExchanges ==
  ASSUME IInv, StoreInv, NEW r \in Req, Commit(r), loc[r].op = "refresh"
  PROVE  Store!Next
<1>0. TypeInv /\ LifeInv
  BY DEF IInv
<1>1. CommitTx(r) /\ pc[r] = "commit" /\ serial' = serial /\ db' = View(r)
  BY DEF Commit, Go, env, CommitTx
<1> PICK p, s : p = loc[r].pw /\ s = loc[r].from
  OBVIOUS
<1>2. /\ s \in Session /\ s # None /\ db[s].st # "absent" /\ db[s].pw = p
      /\ serial => db[s].st = "live"
      /\ holder[User] # r
  BY <1>0, <1>1, SecretTypes DEF StoreInv, Mine, Tasked, Account
<1>3. PICK t \in Session :
        Issued(r, t) /\ \A u \in Session \ {t} : holder[u] = r => u = s /\ Ended(u)
  BY <1>1 DEF StoreInv, Mine, Tokens, Issuing
<1>4. db'[s].st = "revoked"
  <2>1. holder[t] = r /\ dirty[t].from = s
    BY <1>3 DEF Issued
  <2>2. QED
    BY <1>0, <1>1, <1>2, <2>1 DEF LifeInv
<1>5. Store!Issue(t, p, s)
  BY <1>0, <1>1, <1>2, <1>3, <1>4, CommitIssues
<1>6. db'[User].pw = db[User].pw /\ known' = known
  BY <1>0, <1>1, <1>2, CommitSecrets, SecretTypes DEF Commit
<1>7. db[s].st \in IF serial THEN {"live"} ELSE {"live", "revoked"}
  BY <1>0, <1>2, SecretTypes DEF SessionRow
<1>8. Store!Exchange(s, t)
  BY <1>1, <1>2, <1>5, <1>6, <1>7 DEF Store!Exchange
<1>9. QED
  BY <1>2, <1>8 DEF Store!Next

LEMMA CommitLogsOut ==
  ASSUME TypeInv, StoreInv, NEW r \in Req, Commit(r), loc[r].op = "logout"
  PROVE  Store!Next \/ UNCHANGED Store!vars
<1>1. CommitTx(r) /\ pc[r] = "commit" /\ serial' = serial
  BY DEF Commit, Go, env
<1> PICK s : s = loc[r].from
  OBVIOUS
<1>2. /\ holder[User] # r
      /\ \A t \in Session : holder[t] = r => t = s /\ Ended(t)
  BY <1>1 DEF StoreInv, Mine, Tokens, Account
<1>3. db'[User].pw = db[User].pw /\ known' = known
  BY <1>1, <1>2, CommitSecrets, SecretTypes DEF Commit
<1>4. \A t \in Session : db'[t].pw = db[t].pw /\ db'[t].from = db[t].from
  BY <1>1, <1>2, CommittedTokens
<1>5. CASE s \in Session /\ holder[s] = r /\ db[s].st = "live"
  <2>1. \A t \in Session : db'[t].st = IF t = s THEN "revoked" ELSE db[t].st
    BY <1>1, <1>2, <1>5, CommittedTokens
  <2>2. Store!Logout(s)
    BY <1>1, <1>3, <1>4, <1>5, <2>1 DEF Store!Logout
  <2>3. s \in Session
    BY <1>5
  <2>4. QED
    BY <2>2, <2>3 DEF Store!Next
<1>6. CASE ~(s \in Session /\ holder[s] = r /\ db[s].st = "live")
  <2>1. \A t \in Session : db[t].st \in {"absent", "live", "revoked"}
    BY SecretTypes DEF SessionRow
  <2>2. \A t \in Session : holder[t] = r => db[t].st = "revoked"
    BY <1>2, <1>6, <2>1 DEF Ended
  <2>3. \A t \in Session : db'[t].st = db[t].st
    BY <1>1, <1>2, <2>2, CommittedTokens
  <2>4. QED
    BY <1>1, <1>3, <1>4, <2>3 DEF Store!vars
<1>7. QED
  BY <1>5, <1>6

LEMMA CommitResets ==
  ASSUME TypeInv, SerialInv, StoreInv, NEW r \in Req, Commit(r), loc[r].op = "reset"
  PROVE  Store!Next
<1> PICK p : p = loc[r].pw
  OBVIOUS
<1>1. CommitTx(r) /\ pc[r] = "commit" /\ serial' = serial /\ db' = View(r)
  BY DEF Commit, Go, env, CommitTx
<1>2. /\ holder[User] = r /\ dirty[User].pw = p /\ db[User].status # "absent"
      /\ \A s \in Session : holder[s] = r => Ended(s)
  BY <1>1 DEF StoreInv, Mine, Tasked, Tokens, Account, ResetPc
<1>3. db[User].pw # 0
  BY <1>2 DEF StoreInv, Passwords
<1>4. Store!SetPassword(p)
  BY <1>2, CommitChosen DEF Choosing
<1>5. \A s \in Session : db'[s].pw = db[s].pw /\ db'[s].from = db[s].from
  BY <1>1, <1>2, CommittedTokens
<1> PICK R : R = {s \in Session : holder[s] = r /\ db[s].st = "live"}
  OBVIOUS
<1>6. \A s \in Session : db'[s].st = IF s \in R THEN "revoked" ELSE db[s].st
  <2>1. \A s \in Session : db[s].st \in {"absent", "live", "revoked"}
    BY SecretTypes DEF SessionRow
  <2>2. \A s \in Session : holder[s] = r => db[s].st \in {"live", "revoked"}
    BY <1>2, <2>1 DEF Ended
  <2>3. QED
    BY <1>1, <1>2, <2>2, CommittedTokens
<1>7. serial => \A s \in Session : db[s].st = "live" => s \in R
  <2>1. serial => Settled(View(r), p)
    BY <1>1 DEF SerialInv, SerialProgress, Outcome
  <2>2. \A s \in Session : db[s].pw # p
    BY SecretTypes DEF StoreInv, Passwords, Choosing
  <2>3. QED
    BY <1>1, <1>5, <1>6, <2>1, <2>2 DEF Settled
<1>8. R \subseteq Store!Live /\ (serial => R = Store!Live)
  BY <1>7 DEF Store!Live
<1>9. R \in SUBSET Session
  OBVIOUS
<1>10. Store!Reset(p, R)
  BY <1>1, <1>3, <1>4, <1>5, <1>6, <1>8 DEF Store!Reset
<1>11. p \in 0..MaxPassword
  BY SecretTypes DEF StoreInv, Passwords
<1>12. QED
  BY <1>9, <1>10, <1>11 DEF Store!Next

LEMMA CommitElse ==
  ASSUME TypeInv, StoreInv, NEW r \in Req, Commit(r), loc[r].op \in {"updateMe", "forgot"}
  PROVE  UNCHANGED Store!vars
<1>1. CommitTx(r) /\ pc[r] = "commit" /\ serial' = serial
  BY DEF Commit, Go, env
<1>2. /\ \A s \in Session : holder[s] # r
      /\ holder[User] = r => dirty[User].pw = db[User].pw
  BY <1>1 DEF StoreInv, Mine, Tokens, Account
<1>3. db'[User].pw = db[User].pw /\ known' = known
  BY <1>1, <1>2, CommitSecrets, SecretTypes DEF Commit
<1>4. \A s \in Session : db'[s] = db[s]
  BY <1>1, <1>2, CommittedTokens
<1>5. QED
  BY <1>1, <1>3, <1>4 DEF Store!vars

LEMMA StoreMove ==
  ASSUME IInv, SerialInv, StoreInv, [Next]_vars
  PROVE  [Store!Next]_Store!vars
<1>1. TypeInv
  BY DEF IInv
<1>2. ASSUME NEW r \in Req, Commit(r)
      PROVE  [Store!Next]_Store!vars
  <2>1. loc[r].op \in {"register", "login", "refresh", "logout", "updateMe", "forgot", "reset"}
    BY <1>1, <1>2, SecretTypes DEF Commit, Go, StoreInv, Mine, Tasked, Local
  <2>2. QED
    BY <1>1, <1>2, <2>1, CommitSignsUp, CommitLogsIn, CommitExchanges, CommitLogsOut,
       CommitResets, CommitElse
<1>3. ASSUME db' = db, serial' = serial, known' = known
      PROVE  [Store!Next]_Store!vars
  BY <1>3 DEF Store!vars
<1>4. ASSUME NEW r \in Req, Continue(r)
      PROVE  [Store!Next]_Store!vars
  <2>1. CASE \/ RegisterInsert(r) \/ RegisterConflict(r) \/ LoginRehash(r) \/ IssueSession(r)
             \/ UpdateProfile(r) \/ ForgotCreate(r) \/ ResetUpdate(r) \/ Throw(r)
    BY <1>3, <2>1 DEF RegisterInsert, RegisterConflict, LoginRehash, IssueSession,
       UpdateProfile, ForgotCreate, ResetUpdate, Throw, Write, RollbackTx, env, history
  <2>2. CASE \/ RefreshRotate(r) \/ RefreshRefuse(r) \/ LogoutRevoke(r) \/ ConsumeCodes(r)
             \/ ResetRevoke(r)
    BY <1>3, <2>2 DEF RefreshRotate, RefreshRefuse, LogoutRevoke, ConsumeCodes, ResetRevoke,
       Revoke, Consume, Write, env, history
  <2>3. CASE RefreshUser(r) \/ FindCodes(r) \/ ResetFindSessions(r)
    BY <1>3, <2>3 DEF RefreshUser, FindCodes, ResetFindSessions, dbState, env, history
  <2>4. QED
    BY <1>2, <1>4, <2>1, <2>2, <2>3 DEF Continue
<1>5. ASSUME NEW r \in Req, Start(r)
      PROVE  [Store!Next]_Store!vars
  BY <1>3, <1>5, StartWritesNothing
<1>6. CASE Disable
  <2>1. User \notin Session /\ User \in Row /\ DOMAIN db = Row /\ db[User] \in UserRow
    BY <1>1, SecretTypes DEF Row, TypeInv, DbInv
  <2>2. db' = [db EXCEPT ![User].status = "disabled"] /\ serial' = serial /\ known' = known
    BY <1>6 DEF Disable, env, history
  <2>3. /\ db'[User] = [db[User] EXCEPT !.status = "disabled"]
        /\ \A s \in Session : db'[s] = db[s]
    BY <2>1, <2>2 DEF Row
  <2>4. db'[User].pw = db[User].pw
    BY <2>1, <2>3 DEF UserRow
  <2>5. QED
    BY <2>2, <2>3, <2>4 DEF Store!vars
<1>7. CASE \/ \E r \in Req : Abort(r)
           \/ RaiseParams
           \/ \E x \in Session \cup Code : Expire(x)
           \/ UNCHANGED vars
  BY <1>3, <1>7 DEF Abort, RaiseParams, Expire, RollbackTx, vars, dbState, env, history
<1>8. QED
  BY <1>4, <1>5, <1>6, <1>7 DEF Next

(* Every use case takes effect in the one step that commits it, as the     *)
(* operation of SessionStore that it stands for; every other statement,    *)
(* rollback and change of the environment is invisible there.              *)
THEOREM ImplementsStore == Spec => StoreSpec
<1>1. Init => Store!Init
  <2> SUFFICES ASSUME Init PROVE Store!Init
    OBVIOUS
  <2>1. User \notin Session
    BY StaffSessionsAssumption
  <2>2. /\ \A s \in Session : db[s].st = "absent" /\ db[s].pw = 0 /\ db[s].from = None
        /\ db[User].pw = 0 /\ serial \in BOOLEAN /\ known = {}
    BY <2>1 DEF Init, InitDb, Row, NoSession
  <2>3. QED
    BY <2>2 DEF Store!Init
<1>2. IInv /\ SerialInv /\ StoreInv /\ [Next]_vars => [Store!Next]_Store!vars
  BY StoreMove
<1>3. QED
  BY <1>1, <1>2, SessionsInvariant, SerialInvariant, StoreInvariant, PTL
     DEF Spec, StoreSpec, Store!Spec
=============================================================================
