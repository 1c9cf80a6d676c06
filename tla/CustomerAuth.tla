----------------------------- MODULE CustomerAuth -----------------------------
(***************************************************************************)
(* The customer portal's accounts, src/backend/src/customer-auth: sign-up  *)
(* with an email, a phone or both, verification by the code that sign-up   *)
(* sends, login, logout and the password reset by code, as transactions    *)
(* that interleave statement by statement.                                 *)
(*                                                                         *)
(* Unlike the staff's, an account has two identifiers, is verified before  *)
(* its first login, and keeps the codes of both flows in one table.        *)
(* Passwords are left out: every login gives the right one, and whether    *)
(* its hash is due for a re-hash is left open.  Display names are left out *)
(* too.                                                                    *)
(***************************************************************************)
EXTENDS Naturals, FiniteSets

CONSTANTS
  Req,              \* requests served at the same time
  Customer,         \* rows of `customer`
  Code,             \* rows of `customer_verification`
  Session,          \* rows of `customer_session`
  Email, Phone,     \* what sign-ups give as email and as phone, maybe the same text
  None,             \* no transaction, customer, code or session
  MaxRequests       \* bound: requests ever served

(* A text in the column email, and one in the column phone: a phone is any *)
(* text of 6 to 32 characters, so that an email address is one too.        *)
EmailId    == <<"email", Email>>
PhoneId    == <<"phone", Phone>>
Identifier == {EmailId, PhoneId}

ASSUME CustomerAuthAssumption ==
  /\ None \notin Req \cup Customer \cup Code \cup Session
  /\ Customer \cap Code = {} /\ Customer \cap Session = {} /\ Code \cap Session = {}
  /\ MaxRequests \in Nat

VARIABLES
  db, holder, dirty,
  pc,               \* next statement of each request
  loc,              \* what each request was given and has read
  expired,          \* codes past their expires_at
  started           \* requests served so far

(* The entry of customer_email_key or customer_phone_key for i.            *)
Key(i) == <<"key", i>>
(* The rows of the tables are no index entries.                            *)
ASSUME KeysAssumption ==
  \A i \in Identifier : Key(i) \notin Customer \cup Code \cup Session

Row == Customer \cup Code \cup Session \cup {Key(i) : i \in Identifier}

INSTANCE ReadCommitted WITH Tx <- Req, NoTx <- None

dbState == <<db, holder, dirty>>
vars == <<dbState, pc, loc, expired, started>>

Purpose == {"verify_account", "password_reset"}

CustomerRow == [status : {"absent", "active", "disabled"}, ids : SUBSET Identifier,
                verified : BOOLEAN]
CodeRow    == [st : {"absent", "live", "consumed"}, of : Customer \cup {None},
               purpose : Purpose \cup {"none"}]
SessionRow == [st : {"absent", "live", "revoked"}, of : Customer \cup {None}]

NoCustomer == [status |-> "absent", ids |-> {}, verified |-> FALSE]
NoCode     == [st |-> "absent", of |-> None, purpose |-> "none"]
NoSession  == [st |-> "absent", of |-> None]
Idle == [op |-> "none", customer |-> None, ids |-> {}, session |-> None,
         purpose |-> "none", targets |-> {}]

Init ==
  /\ InitDb([x \in Row |-> IF x \in Customer THEN NoCustomer
                           ELSE IF x \in Code THEN NoCode
                           ELSE IF x \in Session THEN NoSession ELSE None])
  /\ pc = [r \in Req |-> "idle"]
  /\ loc = [r \in Req |-> Idle]
  /\ expired = {}
  /\ started = 0

-----------------------------------------------------------------------------
Go(r, from, to) == pc[r] = from /\ pc' = [pc EXCEPT ![r] = to]

(* A request enters its transaction; l is what it was given and reads      *)
(* first.  The identifiers of an account never change, so that finding it  *)
(* and the read after that are one step.                                   *)
Enter(r, to, l) ==
  /\ started < MaxRequests
  /\ started' = started + 1
  /\ Go(r, "idle", to)
  /\ loc' = [loc EXCEPT ![r] = l]
  /\ UNCHANGED <<dbState, expired>>

(* Bound: a request that inserts a row starts when one is left for it.     *)
RoomIn(table, absent) ==
  Cardinality({x \in table : db[x] = absent}) > Cardinality({q \in Req : pc[q] # "idle"})

(* The transaction's next statement writes new.                            *)
Step(r, from, to, new) ==
  /\ Go(r, from, to)
  /\ Write(r, new)
  /\ UNCHANGED <<loc, expired, started>>

(* CustomersRepo.findByEmail and findByPhone.                              *)
Named(r, i) == {c \in Customer : i \in View(r)[c].ids}

(* findByEmailOrPhone with the text t returns any one of these: when the   *)
(* text is the email of an account and the phone of another, either.       *)
NamedBy(r, t) == UNION {Named(r, i) : i \in {j \in Identifier : j[2] = t}}

(* Whom a request can be about.                                            *)
Registered(r) == NamedBy(r, Email) \cup NamedBy(r, Phone)

(* Mutant: the purpose of a code is not looked at.                         *)
LiveCodesAnyPurpose(r, c, p) ==
  {k \in Code : View(r)[k].st = "live" /\ View(r)[k].of = c}

(* The codes of c that CustomerVerificationsRepo finds for a purpose.      *)
LiveCodes(r, c, p) ==
  {k \in Code : View(r)[k].st = "live" /\ View(r)[k].of = c /\ View(r)[k].purpose = p}

LiveSessions(r, c) ==
  {s \in Session : View(r)[s].st = "live" /\ View(r)[s].of = c}

-----------------------------------------------------------------------------
(* RegisterCustomer.execute.  With both identifiers only the email is      *)
(* looked up before the insert.                                            *)
RegisterCheck(r, I) ==
  /\ Named(r, IF EmailId \in I THEN EmailId ELSE PhoneId) = {}
  /\ RoomIn(Customer, NoCustomer) /\ RoomIn(Code, NoCode)
  /\ Enter(r, "register", [Idle EXCEPT !.op = "register", !.ids = I])

(* Mutant: the indexes on email and phone are not unique.                  *)
RegisterInsertAnyway(r) ==
  \E c \in Customer :
    /\ View(r)[c] = NoCustomer /\ Unlocked(r, {c})
    /\ Go(r, "register", "registerCode")
    /\ Write(r, [x \in {c} |->
                   [status |-> "active", ids |-> loc[r].ids, verified |-> FALSE]])
    /\ loc' = [loc EXCEPT ![r].customer = c]
    /\ UNCHANGED <<expired, started>>

(* CustomersRepo.create, when the indexes have neither identifier.         *)
RegisterInsert(r) ==
  \E c \in Customer :
    /\ View(r)[c] = NoCustomer
    /\ \A i \in loc[r].ids : View(r)[Key(i)] = None
    /\ Go(r, "register", "registerCode")
    /\ Write(r, [x \in {c} \cup {Key(i) : i \in loc[r].ids} |->
                   IF x = c
                   THEN [status |-> "active", ids |-> loc[r].ids, verified |-> FALSE]
                   ELSE c])
    /\ loc' = [loc EXCEPT ![r].customer = c]
    /\ UNCHANGED <<expired, started>>

(* An index refuses the row: a sign-up with the same identifier committed  *)
(* since the check, or the phone that was not checked is taken.            *)
RegisterConflict(r) ==
  /\ Go(r, "register", "idle")
  /\ \E i \in loc[r].ids : Unlocked(r, {Key(i)}) /\ View(r)[Key(i)] # None
  /\ RollbackTx(r)
  /\ loc' = [loc EXCEPT ![r] = Idle]
  /\ UNCHANGED <<expired, started>>

(* CustomerVerificationsRepo.create, for a sign-up and for a reset.        *)
CreateCode(r) ==
  \E k \in Code, p \in Purpose :
    /\ View(r)[k] = NoCode
    /\ Step(r, IF p = "verify_account" THEN "registerCode" ELSE "forgotCode", "commit",
            [x \in {k} |-> [st |-> "live", of |-> loc[r].customer, purpose |-> p]])

-----------------------------------------------------------------------------
(* VerifyCustomer.execute with a code of customer c, of any status.        *)
VerifyFind(r, c) ==
  /\ c \in Registered(r)
  /\ LiveCodes(r, c, "verify_account") \ expired # {}
  /\ RoomIn(Session, NoSession)
  /\ Enter(r, "findCodes", [Idle EXCEPT !.op = "verify", !.customer = c,
                                        !.purpose = "verify_account"])

(* CustomerVerificationsRepo.invalidateAllFor finds its rows ...           *)
FindCodes(r) ==
  /\ Go(r, "findCodes", "consumeCodes")
  /\ loc' = [loc EXCEPT ![r].targets = LiveCodes(r, loc[r].customer, loc[r].purpose)]
  /\ UNCHANGED <<dbState, expired, started>>

(* ... and, once no other transaction holds one, consumes those still live. *)
ConsumeCodes(r) ==
  LET live == LiveCodes(r, loc[r].customer, loc[r].purpose) IN
  /\ Unlocked(r, loc[r].targets)
  /\ Step(r, "consumeCodes",
          CASE loc[r].op = "verify" -> "markVerified"
            [] loc[r].op = "forgot" -> "forgotCode"
            [] loc[r].op = "reset"  -> "findSessions",
          [k \in loc[r].targets \cap live |-> [View(r)[k] EXCEPT !.st = "consumed"]])

(* CustomersRepo.markVerified.                                             *)
MarkVerified(r) ==
  LET c == loc[r].customer IN
  Step(r, "markVerified", "issue", [x \in {c} |-> [View(r)[c] EXCEPT !.verified = TRUE]])

(* IssueCustomerSession.forNewSession.                                     *)
IssueSession(r) ==
  \E s \in Session :
    /\ View(r)[s] = NoSession
    /\ Step(r, "issue", "commit", [x \in {s} |-> [st |-> "live", of |-> loc[r].customer]])

-----------------------------------------------------------------------------
(* LoginCustomer.execute with the right password.                          *)
LoginRead(r, c) ==
  /\ c \in Registered(r)
  /\ View(r)[c].status = "active" /\ View(r)[c].verified
  /\ RoomIn(Session, NoSession)
  /\ \E to \in {"rehash", "issue"} :
       Enter(r, to, [Idle EXCEPT !.op = "login", !.customer = c])

(* CustomersRepo.updatePasswordHash, by a login and by a reset.            *)
UpdatePasswordHash(r) ==
  LET c == loc[r].customer
      write == [x \in {c} |-> View(r)[c]]
  IN Step(r, "rehash", "issue", write) \/ Step(r, "resetHash", "findCodes", write)

(* LogoutCustomer.execute with the token of session s.                     *)
LogoutFind(r, s) ==
  /\ View(r)[s].st = "live"
  /\ Enter(r, "logout", [Idle EXCEPT !.op = "logout", !.session = s])

LogoutRevoke(r) ==
  LET s == loc[r].session IN
  Step(r, "logout", "commit", [x \in {s} |-> [View(r)[s] EXCEPT !.st = "revoked"]])

(* UpdateMeCustomer.execute, behind the guard: the account was active and  *)
(* verified then.                                                          *)
UpdateMeBegin(r, c) ==
  /\ c \in Registered(r)
  /\ View(r)[c].status = "active" /\ View(r)[c].verified
  /\ Enter(r, "profile", [Idle EXCEPT !.op = "updateMe", !.customer = c])

(* CustomersRepo.updateProfile: the row with another display name.         *)
UpdateProfile(r) ==
  LET c == loc[r].customer IN
  Step(r, "profile", "commit", [x \in {c} |-> View(r)[c]])

(* RequestCustomerPasswordReset.execute.                                   *)
ForgotRead(r, c) ==
  /\ c \in Registered(r)
  /\ View(r)[c].status = "active"
  /\ RoomIn(Code, NoCode)
  /\ Enter(r, "findCodes", [Idle EXCEPT !.op = "forgot", !.customer = c,
                                        !.purpose = "password_reset"])

(* ResetCustomerPassword.execute with a code of customer c, of any status. *)
ResetFind(r, c) ==
  /\ c \in Registered(r)
  /\ LiveCodes(r, c, "password_reset") \ expired # {}
  /\ Enter(r, "resetHash", [Idle EXCEPT !.op = "reset", !.customer = c,
                                        !.purpose = "password_reset"])

(* CustomerSessionsRepo.revokeAllForCustomer finds its rows ...            *)
FindSessions(r) ==
  /\ Go(r, "findSessions", "revokeSessions")
  /\ loc' = [loc EXCEPT ![r].targets = LiveSessions(r, loc[r].customer)]
  /\ UNCHANGED <<dbState, expired, started>>

(* ... and revokes those still live.                                       *)
RevokeSessions(r) ==
  LET live == LiveSessions(r, loc[r].customer) IN
  /\ Unlocked(r, loc[r].targets)
  /\ Step(r, "revokeSessions", "commit",
          [s \in loc[r].targets \cap live |-> [View(r)[s] EXCEPT !.st = "revoked"]])

-----------------------------------------------------------------------------
(* The use case returns; its event was inserted by the same transaction.   *)
Commit(r) ==
  /\ Go(r, "commit", "idle")
  /\ CommitTx(r)
  /\ loc' = [loc EXCEPT ![r] = Idle]
  /\ UNCHANGED <<expired, started>>

(* A statement, the connection or the process fails.                       *)
Abort(r) ==
  /\ pc[r] # "idle"
  /\ pc' = [pc EXCEPT ![r] = "idle"]
  /\ RollbackTx(r)
  /\ loc' = [loc EXCEPT ![r] = Idle]
  /\ UNCHANGED <<expired, started>>

(* expires_at passes for a code.                                           *)
Expire(k) ==
  /\ db[k].st = "live"
  /\ k \notin expired
  /\ expired' = expired \cup {k}
  /\ UNCHANGED <<dbState, pc, loc, started>>

(* An operator disables an account, outside these use cases.               *)
Disable(c) ==
  /\ holder[c] = None
  /\ db[c].status = "active"
  /\ db' = [db EXCEPT ![c].status = "disabled"]
  /\ dirty' = [dirty EXCEPT ![c].status = "disabled"]
  /\ UNCHANGED <<holder, pc, loc, expired, started>>

(* The rows that the next statement of r locks and others may hold: a wait *)
(* for one of them is what a request can be held up by.                    *)
Needs(r) ==
  CASE pc[r] = "register"                                       -> {Key(i) : i \in loc[r].ids}
    [] pc[r] \in {"markVerified", "rehash", "resetHash", "profile"} -> {loc[r].customer}
    [] pc[r] \in {"consumeCodes", "revokeSessions"}             -> loc[r].targets
    [] pc[r] = "logout"                                         -> {loc[r].session}
    [] OTHER                                                    -> {}

Waits(r, q) == q # r /\ \E x \in Needs(r) : holder[x] = q

Start(r) ==
  \/ \E I \in SUBSET Identifier \ {{}} : RegisterCheck(r, I)
  \/ \E c \in Customer : VerifyFind(r, c) \/ LoginRead(r, c) \/ UpdateMeBegin(r, c)
                          \/ ForgotRead(r, c) \/ ResetFind(r, c)
  \/ \E s \in Session : LogoutFind(r, s)

Continue(r) ==
  \/ RegisterInsert(r) \/ RegisterConflict(r) \/ CreateCode(r)
  \/ FindCodes(r) \/ ConsumeCodes(r) \/ MarkVerified(r) \/ IssueSession(r)
  \/ UpdatePasswordHash(r) \/ LogoutRevoke(r) \/ UpdateProfile(r)
  \/ FindSessions(r) \/ RevokeSessions(r)
  \/ Commit(r)

Next ==
  \/ \E r \in Req : Start(r) \/ Continue(r) \/ Abort(r)
  \/ \E k \in Code : Expire(k)
  \/ \E c \in Customer : Disable(c)

Spec == Init /\ [][Next]_vars

-----------------------------------------------------------------------------
PcState == {"idle", "register", "registerCode", "forgotCode", "findCodes",
            "consumeCodes", "markVerified", "issue", "rehash", "resetHash",
            "logout", "profile", "findSessions", "revokeSessions", "commit"}

Local == [op : {"none", "register", "verify", "login", "logout", "updateMe",
               "forgot", "reset"},
          customer : Customer \cup {None}, ids : SUBSET Identifier,
          session : Session \cup {None}, purpose : Purpose \cup {"none"},
          targets : SUBSET (Code \cup Session)]

RowOK(t) ==
  /\ \A c \in Customer : t[c] \in CustomerRow
  /\ \A k \in Code : t[k] \in CodeRow
  /\ \A s \in Session : t[s] \in SessionRow
  /\ \A i \in Identifier : t[Key(i)] \in Customer \cup {None}

(* Types of the variables; a row nobody has written has no dirty version.  *)
TypeOK ==
  /\ DOMAIN db = Row /\ DOMAIN dirty = Row
  /\ RowOK(db) /\ RowOK(dirty)
  /\ holder \in [Row -> Req \cup {None}]
  /\ \A x \in Row : holder[x] = None => dirty[x] = db[x]
  /\ pc \in [Req -> PcState]
  /\ loc \in [Req -> Local]
  /\ expired \in SUBSET Code
  /\ started \in 0..MaxRequests

(* An email names one account, and a phone does, however sign-ups race     *)
(* that look up only one of the two they give.  No more is true: a text    *)
(* that is the email of one account can be the phone of another, of which  *)
(* findByEmailOrPhone (customers.repo.ts:26) then finds either.            *)
OneAccountPerColumn ==
  \A i \in Identifier : Cardinality({c \in Customer : i \in db[c].ids}) <= 1

(* An account that is not verified still has the code sign-up sent: nothing *)
(* uses it up without verifying the account, neither the other flow        *)
(* (schema/customer-auth.ts: "so the two flows can't consume each other's  *)
(* codes") nor a verification that fails half way.  No use case sends      *)
(* another one, so such an account could never log in.                     *)
NotLockedOut ==
  \A c \in Customer :
    db[c].status # "absent" /\ ~db[c].verified =>
      \E k \in Code : db[k].of = c /\ db[k].purpose = "verify_account" /\ db[k].st = "live"

(* Transactions never wait for each other in a circle, nor for one that    *)
(* has ended.  A verification locks its codes and then the account         *)
(* (verify.ts:46-47), a reset the account and then its codes               *)
(* (reset-password.ts:39-43): what keeps the two from waiting for each     *)
(* other is only that each consumes codes of its own purpose.  Two UPDATEs *)
(* of one table lock its rows in the same order, that of their scan.       *)
NoCircularWait ==
  LET served == {r \in Req : pc[r] # "idle"} IN
  \A S \in (SUBSET served) \ {{}} :
    \E r \in S : \A q \in Req : Waits(r, q) => q \in served \ S
=============================================================================
