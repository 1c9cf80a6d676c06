---------------------------- MODULE StaffSessions ----------------------------
(***************************************************************************)
(* Staff authentication, src/backend/src/auth: registration, login with    *)
(* its password re-hash, rotating refresh tokens, logout and the password  *)
(* reset by code, as transactions that interleave statement by statement.  *)
(*                                                                         *)
(* One account: every row of `session` and `password_reset` belongs to one *)
(* user and every statement filters on it, so accounts do not interact.    *)
(* A session row stands for the refresh token whose hash it stores.        *)
(* Passwords are numbers in the order they are chosen.                     *)
(***************************************************************************)
EXTENDS Naturals, FiniteSets

CONSTANTS
  Req,              \* requests served at the same time
  Session,          \* rows of `session`
  Code,             \* rows of `password_reset`
  User,             \* the account's row of `user`
  None,             \* no transaction, no session
  MaxPassword,      \* bound: passwords ever chosen
  MaxParams,        \* bound: deployments that raise the argon2 parameters
  MaxRequests       \* bound: requests ever served

ASSUME StaffSessionsAssumption ==
  /\ None \notin Req \cup Session
  /\ User \notin Session \cup Code
  /\ Session \cap Code = {}
  /\ MaxPassword \in Nat
  /\ MaxParams \in Nat
  /\ MaxRequests \in Nat

VARIABLES
  db, holder, dirty,
  pc,               \* next statement of each request
  loc,              \* what each request has read or was given
  chosen,           \* the last password anybody chose
  params,           \* current argon2 parameters
  serial,           \* whether this deployment serves one request at a time
  started,          \* requests served so far
  expired,          \* sessions and codes past their expires_at
  spent,            \* history: codes that were live when a committed reset
                    \*   looked its own one up
  latest,           \* history: password of the last committed sign-up or reset
  known             \* history: passwords of all of these

Row == Session \cup Code \cup {User}

INSTANCE ReadCommitted WITH Tx <- Req, NoTx <- None

dbState == <<db, holder, dirty>>
history == <<spent, latest, known>>
env == <<chosen, params, serial, expired>>
vars == <<dbState, pc, loc, started, env, history>>

UserRow == [status : {"absent", "active", "disabled"}, pw : Nat, params : Nat]
(* pw: history, the password the session descends from; from: the session  *)
(* it was rotated from.                                                    *)
SessionRow == [st : {"absent", "live", "revoked"}, pw : Nat, from : Session \cup {None}]
CodeRow == [st : {"absent", "live", "consumed"}]

NoSession == [st |-> "absent", pw |-> 0, from |-> None]
Idle == [op |-> "none", from |-> None, code |-> None, pw |-> 0,
         targets |-> {}, found |-> {}, codes |-> {}]

Init ==
  /\ InitDb([r \in Row |-> IF r = User THEN [status |-> "absent", pw |-> 0, params |-> 0]
                           ELSE IF r \in Session THEN NoSession
                           ELSE [st |-> "absent"]])
  /\ pc = [r \in Req |-> "idle"]
  /\ loc = [r \in Req |-> Idle]
  /\ chosen = 0
  /\ params = 0
  /\ serial \in BOOLEAN
  /\ started = 0
  /\ expired = {}
  /\ spent = {}
  /\ latest = 0
  /\ known = {}

-----------------------------------------------------------------------------
Go(r, from, to) == pc[r] = from /\ pc' = [pc EXCEPT ![r] = to]

(* A request enters its transaction with what it was given and reads first. *)
Enter(r, to, l) ==
  /\ started < MaxRequests
  /\ serial => \A q \in Req : pc[q] = "idle"
  /\ started' = started + 1
  /\ Go(r, "idle", to)
  /\ loc' = [loc EXCEPT ![r] = l]

(* Bound: a request that inserts a row starts when one is left for it.     *)
RoomIn(table) ==
  Cardinality({x \in table : db[x].st = "absent"}) > Cardinality({q \in Req : pc[q] # "idle"})

LiveSessions(r) == {s \in Session : View(r)[s].st = "live"}
LiveCodes(r) == {c \in Code : View(r)[c].st = "live"}

(* SessionsRepo.revoke and revokeAllForUser on the rows S, WHERE           *)
(* revoked_at IS NULL, evaluated again after any wait.                     *)
Revoke(r, S) ==
  /\ Unlocked(r, S)
  /\ Write(r, [s \in S \cap LiveSessions(r) |-> [View(r)[s] EXCEPT !.st = "revoked"]])

(* PasswordResetsRepo.invalidateAllForUser on the rows its snapshot found. *)
Consume(r, C) ==
  /\ Unlocked(r, C)
  /\ Write(r, [c \in C \cap LiveCodes(r) |-> [st |-> "consumed"]])

-----------------------------------------------------------------------------
(* Register.execute.  findByEmail first; the unique index on email decides *)
(* between two sign-ups that both found nothing.                           *)
RegisterCheck(r) ==
  /\ View(r)[User].status = "absent"
  /\ chosen < MaxPassword
  /\ RoomIn(Session)
  /\ chosen' = chosen + 1
  /\ Enter(r, "register", [Idle EXCEPT !.op = "register", !.pw = chosen + 1])
  /\ UNCHANGED <<dbState, params, serial, expired, history>>

RegisterInsert(r) ==
  /\ Unlocked(r, {User})
  /\ db[User].status = "absent"
  /\ Go(r, "register", "issue")
  /\ Write(r, [u \in {User} |-> [status |-> "active", pw |-> loc[r].pw, params |-> params]])
  /\ UNCHANGED <<loc, started, env, history>>

RegisterConflict(r) ==
  /\ Unlocked(r, {User})
  /\ db[User].status # "absent"
  /\ Go(r, "register", "idle")
  /\ RollbackTx(r)
  /\ loc' = [loc EXCEPT ![r] = Idle]
  /\ UNCHANGED <<started, env, history>>

(* Login.execute with the right password (a wrong one changes nothing).    *)
LoginRead(r) ==
  LET user == View(r)[User] IN
  /\ user.status = "active"
  /\ RoomIn(Session)
  /\ Enter(r, IF user.params < params THEN "rehash" ELSE "issue",
           [Idle EXCEPT !.op = "login", !.pw = user.pw])
  /\ UNCHANGED <<dbState, env, history>>

(* updatePasswordHash(hash(dto.password)): no condition on the hash that   *)
(* was verified.                                                           *)
LoginRehash(r) ==
  /\ Unlocked(r, {User})
  /\ Go(r, "rehash", "issue")
  /\ Write(r, [u \in {User} |-> [View(r)[User] EXCEPT !.pw = loc[r].pw, !.params = params]])
  /\ UNCHANGED <<loc, started, env, history>>

(* IssueSession.forNewSession, and the insert of forRotatedSession.        *)
IssueSession(r) ==
  \E s \in Session :
    /\ View(r)[s].st = "absent"
    /\ Go(r, "issue", "commit")
    /\ Write(r, [x \in {s} |-> [st |-> "live", pw |-> loc[r].pw, from |-> loc[r].from]])
    /\ UNCHANGED <<loc, started, env, history>>

(* Refresh.execute with the token of session s.                            *)
RefreshFind(r, s) ==
  /\ s \in LiveSessions(r) \ expired
  /\ RoomIn(Session)
  /\ Enter(r, "refreshUser",
           [Idle EXCEPT !.op = "refresh", !.from = s, !.pw = View(r)[s].pw])
  /\ UNCHANGED <<dbState, env, history>>

RefreshUser(r) ==
  /\ Go(r, "refreshUser", IF View(r)[User].status = "active" THEN "rotate" ELSE "refuse")
  /\ UNCHANGED <<dbState, loc, started, env, history>>

(* Mutant: the old session is left alone.                                  *)
RefreshRotateKeeps(r) ==
  /\ Go(r, "rotate", "issue")
  /\ UNCHANGED <<dbState, loc, started, env, history>>

(* SessionsRepo.rotate: the result of the revoke is not looked at.         *)
RefreshRotate(r) ==
  /\ Go(r, "rotate", "issue")
  /\ Revoke(r, {loc[r].from})
  /\ UNCHANGED <<loc, started, env, history>>

(* The account is disabled: revoke the session, then throw.                *)
RefreshRefuse(r) ==
  /\ Go(r, "refuse", "throw")
  /\ Revoke(r, {loc[r].from})
  /\ UNCHANGED <<loc, started, env, history>>

(* Logout.execute with the token of session s.                             *)
LogoutFind(r, s) ==
  /\ s \in LiveSessions(r)
  /\ Enter(r, "logout", [Idle EXCEPT !.op = "logout", !.from = s])
  /\ UNCHANGED <<dbState, env, history>>

(* Mutant: the request goes on to write the account's row.                 *)
LogoutRevokeThenTouch(r) ==
  /\ Go(r, "logout", "profile")
  /\ Revoke(r, {loc[r].from})
  /\ UNCHANGED <<loc, started, env, history>>

LogoutRevoke(r) ==
  /\ Go(r, "logout", "commit")
  /\ Revoke(r, {loc[r].from})
  /\ UNCHANGED <<loc, started, env, history>>

(* UpdateMe.execute, behind the guard: the account was active then.        *)
UpdateMeBegin(r) ==
  /\ View(r)[User].status = "active"
  /\ Enter(r, "profile", [Idle EXCEPT !.op = "updateMe"])
  /\ UNCHANGED <<dbState, env, history>>

(* UsersRepo.updateProfile: the row with another display name.             *)
UpdateProfile(r) ==
  /\ Unlocked(r, {User})
  /\ Go(r, "profile", "commit")
  /\ Write(r, [u \in {User} |-> View(r)[User]])
  /\ UNCHANGED <<loc, started, env, history>>

-----------------------------------------------------------------------------
(* RequestPasswordReset.execute.                                           *)
ForgotRead(r) ==
  /\ View(r)[User].status = "active"
  /\ RoomIn(Code)
  /\ Enter(r, "forgot", [Idle EXCEPT !.op = "forgot"])
  /\ UNCHANGED <<dbState, env, history>>

(* Mutant: a reset consumes the code it was made with and no other.        *)
FindOwnCode(r) ==
  /\ \/ Go(r, "forgot", "forgotConsume")
     \/ Go(r, "resetCodes", "resetConsume")
  /\ loc' = [loc EXCEPT ![r].targets =
               IF loc[r].op = "reset" THEN {loc[r].code} ELSE LiveCodes(r)]
  /\ UNCHANGED <<dbState, started, env, history>>

(* An UPDATE of every matching row finds its rows when it starts...        *)
FindCodes(r) ==
  /\ \/ Go(r, "forgot", "forgotConsume")
     \/ Go(r, "resetCodes", "resetConsume")
  /\ loc' = [loc EXCEPT ![r].targets = LiveCodes(r)]
  /\ UNCHANGED <<dbState, started, env, history>>

(* ... and writes them when no other transaction holds one.                *)
ConsumeCodes(r) ==
  /\ \/ Go(r, "forgotConsume", "forgotCreate")
     \/ Go(r, "resetConsume", "resetSessions")
  /\ Consume(r, loc[r].targets)
  /\ UNCHANGED <<loc, started, env, history>>

ForgotCreate(r) ==
  \E c \in Code :
    /\ View(r)[c].st = "absent"
    /\ Go(r, "forgotCreate", "commit")
    /\ Write(r, [x \in {c} |-> [st |-> "live"]])
    /\ UNCHANGED <<loc, started, env, history>>

(* ResetPassword.execute with code c: findByEmail ignores the status.      *)
ResetFind(r, c) ==
  /\ View(r)[User].status # "absent"
  /\ c \in LiveCodes(r) \ expired
  /\ chosen < MaxPassword
  /\ chosen' = chosen + 1
  /\ Enter(r, "resetUser",
           [Idle EXCEPT !.op = "reset", !.code = c, !.pw = chosen + 1,
                        !.found = LiveSessions(r), !.codes = LiveCodes(r)])
  /\ UNCHANGED <<dbState, params, serial, expired, history>>

(* Mutant: the hash is computed from the password that was stored.         *)
ResetUpdateKeepsHash(r) ==
  /\ Unlocked(r, {User})
  /\ Go(r, "resetUser", "resetCodes")
  /\ Write(r, [u \in {User} |-> [View(r)[User] EXCEPT !.params = params]])
  /\ UNCHANGED <<loc, started, env, history>>

ResetUpdate(r) ==
  /\ Unlocked(r, {User})
  /\ Go(r, "resetUser", "resetCodes")
  /\ Write(r, [u \in {User} |-> [View(r)[User] EXCEPT !.pw = loc[r].pw, !.params = params]])
  /\ UNCHANGED <<loc, started, env, history>>

ResetFindSessions(r) ==
  /\ Go(r, "resetSessions", "resetRevoke")
  /\ loc' = [loc EXCEPT ![r].targets = LiveSessions(r)]
  /\ UNCHANGED <<dbState, started, env, history>>

(* Mutant: a session another request is writing is skipped, not waited for. *)
ResetRevokeSkips(r) ==
  /\ Go(r, "resetRevoke", "commit")
  /\ Revoke(r, {s \in loc[r].targets : Unlocked(r, {s})})
  /\ UNCHANGED <<loc, started, env, history>>

ResetRevoke(r) ==
  /\ Go(r, "resetRevoke", "commit")
  /\ Revoke(r, loc[r].targets)
  /\ UNCHANGED <<loc, started, env, history>>

-----------------------------------------------------------------------------
Commit(r) ==
  /\ Go(r, "commit", "idle")
  /\ CommitTx(r)
  /\ loc' = [loc EXCEPT ![r] = Idle]
  /\ spent' = IF loc[r].op = "reset" THEN spent \cup loc[r].codes ELSE spent
  /\ latest' = IF loc[r].op \in {"register", "reset"} THEN loc[r].pw ELSE latest
  /\ known' = IF loc[r].op \in {"register", "reset"} THEN known \cup {loc[r].pw} ELSE known
  /\ UNCHANGED <<started, env>>

(* The use case throws after its last statement.                           *)
Throw(r) ==
  /\ Go(r, "throw", "idle")
  /\ RollbackTx(r)
  /\ loc' = [loc EXCEPT ![r] = Idle]
  /\ UNCHANGED <<started, env, history>>

(* A statement, the connection or the process fails.                       *)
Abort(r) ==
  /\ pc[r] \notin {"idle", "throw"}
  /\ pc' = [pc EXCEPT ![r] = "idle"]
  /\ RollbackTx(r)
  /\ loc' = [loc EXCEPT ![r] = Idle]
  /\ UNCHANGED <<started, env, history>>

(* A release raises the password parameters: stored hashes are now weak.   *)
RaiseParams ==
  /\ params < MaxParams
  /\ params' = params + 1
  /\ UNCHANGED <<dbState, pc, loc, started, chosen, serial, expired, history>>

(* expires_at passes for a refresh token or a reset code.                  *)
Expire(x) ==
  /\ db[x].st = "live"
  /\ x \notin expired
  /\ expired' = expired \cup {x}
  /\ UNCHANGED <<dbState, pc, loc, started, chosen, params, serial, history>>

(* An operator disables the account, outside these use cases.              *)
Disable ==
  /\ holder[User] = None
  /\ db[User].status = "active"
  /\ db' = [db EXCEPT ![User].status = "disabled"]
  /\ dirty' = [dirty EXCEPT ![User].status = "disabled"]
  /\ UNCHANGED <<holder, pc, loc, started, env, history>>

(* The rows that the next statement of r locks and others may hold: a wait *)
(* for one of them is what a request can be held up by.                    *)
Needs(r) ==
  CASE pc[r] \in {"register", "rehash", "profile", "resetUser"}        -> {User}
    [] pc[r] \in {"rotate", "refuse", "logout"}                        -> {loc[r].from}
    [] pc[r] \in {"forgotConsume", "resetConsume", "resetRevoke"}      -> loc[r].targets
    [] OTHER                                                           -> {}

Waits(r, q) == q # r /\ \E x \in Needs(r) : holder[x] = q

Start(r) ==
  \/ RegisterCheck(r) \/ LoginRead(r) \/ UpdateMeBegin(r) \/ ForgotRead(r)
  \/ \E s \in Session : RefreshFind(r, s) \/ LogoutFind(r, s)
  \/ \E c \in Code : ResetFind(r, c)

Continue(r) ==
  \/ RegisterInsert(r) \/ RegisterConflict(r) \/ LoginRehash(r) \/ IssueSession(r)
  \/ RefreshUser(r) \/ RefreshRotate(r) \/ RefreshRefuse(r) \/ LogoutRevoke(r)
  \/ UpdateProfile(r) \/ FindCodes(r) \/ ConsumeCodes(r) \/ ForgotCreate(r)
  \/ ResetUpdate(r) \/ ResetFindSessions(r) \/ ResetRevoke(r)
  \/ Commit(r) \/ Throw(r)

Next ==
  \/ \E r \in Req : Start(r) \/ Continue(r) \/ Abort(r)
  \/ RaiseParams
  \/ \E x \in Session \cup Code : Expire(x)
  \/ Disable

Spec == Init /\ [][Next]_vars

-----------------------------------------------------------------------------
PcState == {"idle", "register", "rehash", "issue", "refreshUser", "rotate",
            "refuse", "throw", "logout", "profile", "forgot", "forgotConsume",
            "forgotCreate", "resetUser", "resetCodes", "resetConsume",
            "resetSessions", "resetRevoke", "commit"}

Local == [op : {"none", "register", "login", "refresh", "logout", "updateMe",
               "forgot", "reset"},
          from : Session \cup {None}, code : Code \cup {None}, pw : Nat,
          targets : SUBSET (Session \cup Code), found : SUBSET Session,
          codes : SUBSET Code]

RowOK(t) ==
  /\ t[User] \in UserRow
  /\ \A s \in Session : t[s] \in SessionRow
  /\ \A c \in Code : t[c] \in CodeRow

(* Types of the variables; a row nobody has written has no dirty version.  *)
TypeOK ==
  /\ DOMAIN db = Row /\ DOMAIN dirty = Row
  /\ RowOK(db) /\ RowOK(dirty)
  /\ holder \in [Row -> Req \cup {None}]
  /\ \A x \in Row : holder[x] = None => dirty[x] = db[x]
  /\ pc \in [Req -> PcState]
  /\ loc \in [Req -> Local]
  /\ chosen \in Nat
  /\ params \in Nat
  /\ serial \in BOOLEAN
  /\ started \in 0..MaxRequests
  /\ expired \in SUBSET (Session \cup Code)
  /\ spent \in SUBSET Code
  /\ latest \in Nat
  /\ known \in SUBSET Nat

-----------------------------------------------------------------------------
(* Properties that hold however requests interleave.                       *)

(* Once a rotation has committed, the token it consumed is dead: nothing   *)
(* presented later finds it active (refresh.ts: "including one already     *)
(* rotated - is rejected").                                                *)
RotatedTokenDead ==
  \A t \in Session : db[t].from # None => db[db[t].from].st = "revoked"

(* Once a reset has committed, no code it could have been made with works  *)
(* any more: all the codes that were live when it looked its own one up    *)
(* are consumed, those of requests for a code that overlapped included.    *)
UsedCodeDead == \A c \in spent : db[c].st = "consumed"

(* A reset revokes every session that was live when it looked its code up, *)
(* whatever a refresh or a logout does to them in the meantime.            *)
ResetRevokesEarlier ==
  [][\A r \in Req :
       Commit(r) /\ loc[r].op = "reset" =>
         \A s \in loc[r].found : db'[s].st = "revoked"]_vars

(* Transactions never wait for each other in a circle, nor for one that    *)
(* has ended: among any requests being served one waits only for others    *)
(* that are served too.  The statements lock the account, then its codes,  *)
(* then its sessions (reset-password.ts:36-41 in that order); two UPDATEs   *)
(* of one table's rows lock them in the same order, that of their scan.    *)
NoCircularWait ==
  LET served == {r \in Req : pc[r] # "idle"} IN
  \A S \in (SUBSET served) \ {{}} :
    \E r \in S : \A q \in Req : Waits(r, q) => q \in served \ S

-----------------------------------------------------------------------------
(* What the code's reads and checks are for, true when requests are served *)
(* one at a time.  READ COMMITTED lets a request act on what another has   *)
(* changed since it was read: two refreshes with one token both succeed.   *)

(* A live session descends from the account's present password: a reset    *)
(* leaves none of an earlier one (reset-password.ts: "so a stolen code     *)
(* cannot leave a live session behind").                                   *)
SerialNoStaleSession ==
  serial => \A s \in Session : db[s].st = "live" => db[s].pw = latest

(* The stored hash is that of the last password set: no other request      *)
(* brings an older one back (reset-password.ts: "sets the new password").  *)
SerialLatestPasswordStored == serial => db[User].pw = latest

-----------------------------------------------------------------------------
(* Every use case takes effect in the one step that commits it, as one     *)
(* operation of SessionStore, however its statements interleaved with      *)
(* others; and when requests are served one at a time as the strict one.   *)
Store == INSTANCE SessionStore
           WITH Token <- Session, Password <- 0..MaxPassword,
                strict <- serial, password <- db[User].pw, known <- known,
                token <- [s \in Session |-> db[s].st],
                from <- [s \in Session |-> db[s].from],
                grant <- [s \in Session |-> db[s].pw]
StoreSpec == Store!Spec
=============================================================================
