-------------------------- MODULE CustomerAuthProofs --------------------------
(***************************************************************************)
(* Safety of CustomerAuth for any number of concurrent requests and        *)
(* accounts: types, that an identifier names one account, and that an      *)
(* account nobody has verified still has its code.                         *)
(***************************************************************************)
EXTENDS CustomerAuth, FiniteSetTheorems, TLAPS

-----------------------------------------------------------------------------
(* Rows.                                                                   *)

LEMMA RowsApart ==
  /\ Customer \cap Code = {} /\ Customer \cap Session = {} /\ Code \cap Session = {}
  /\ \A i \in Identifier : Key(i) \notin Customer \cup Code \cup Session
  /\ \A i, j \in Identifier : Key(i) = Key(j) => i = j
  /\ None \notin Req \cup Customer
  /\ Customer \subseteq Row /\ Code \subseteq Row /\ Session \subseteq Row
  /\ \A i \in Identifier : Key(i) \in Row
BY CustomerAuthAssumption, KeysAssumption DEF Row, Key

DbInv ==
  /\ DOMAIN db = Row /\ DOMAIN dirty = Row
  /\ RowOK(db) /\ RowOK(dirty)
  /\ holder \in [Row -> Req \cup {None}]
  /\ \A x \in Row : holder[x] = None => dirty[x] = db[x]

(* What becomes of rows: an account keeps its identifiers and stays        *)
(* verified, a code keeps its account and purpose, an index entry stays.   *)
CustomerMoves(before, after) ==
  /\ before.status # "absent" => after.status # "absent"
  /\ before.ids \subseteq after.ids
  /\ before.verified => after.verified

CodeMoves(before, after) ==
  before.st # "absent" =>
    after.st # "absent" /\ after.of = before.of /\ after.purpose = before.purpose

RowsMove(before, after) ==
  /\ \A c \in Customer : CustomerMoves(before[c], after[c])
  /\ \A k \in Code : CodeMoves(before[k], after[k])
  /\ \A i \in Identifier : before[Key(i)] # None => after[Key(i)] = before[Key(i)]

(* Pending writes move rows on, and the index knows every identifier.      *)
MovesInv ==
  /\ RowsMove(db, dirty)
  /\ \A c \in Customer : \A i \in db[c].ids : db[Key(i)] = c
  /\ \A r \in Req, c \in Customer :
       holder[c] = r => \A i \in dirty[c].ids : View(r)[Key(i)] = c

(* A step leaves the rows r holds to r, and moves on what r sees.          *)
Keeps(r) ==
  /\ RowsMove(View(r), View(r)')
  /\ \A x \in Row : holder'[x] = r <=> holder[x] = r
  /\ \A x \in Row : holder[x] = r => db'[x] = db[x] /\ dirty'[x] = dirty[x]

KeepsDb == RowsMove(db, db')

LEMMA ViewTypes ==
  ASSUME DbInv, NEW r \in Req
  PROVE  RowOK(View(r)) /\ DOMAIN View(r) = Row
BY RowsApart DEF DbInv, View, RowOK

(* What a statement may write.                                             *)
Lawful(r, new) ==
  /\ DOMAIN new \subseteq Row
  /\ \A c \in DOMAIN new \cap Customer :
       /\ new[c] \in CustomerRow /\ CustomerMoves(View(r)[c], new[c])
       /\ \/ new[c].ids = View(r)[c].ids
          \/ \A i \in new[c].ids : Key(i) \in DOMAIN new /\ new[Key(i)] = c
  /\ \A k \in DOMAIN new \cap Code : new[k] \in CodeRow /\ CodeMoves(View(r)[k], new[k])
  /\ \A s \in DOMAIN new \cap Session : new[s] \in SessionRow
  /\ \A i \in Identifier :
       Key(i) \in DOMAIN new =>
         /\ new[Key(i)] \in Customer
         /\ View(r)[Key(i)] = None

LEMMA WriteEffect ==
  ASSUME DbInv, MovesInv, NEW r \in Req, NEW new, Write(r, new), Lawful(r, new)
  PROVE  /\ DbInv' /\ MovesInv' /\ KeepsDb
         /\ RowsMove(View(r), View(r)')
         /\ \A q \in Req \ {r} : Keeps(q)
         /\ db' = db
         /\ \A x \in Row : View(r)'[x] = IF x \in DOMAIN new THEN new[x] ELSE View(r)[x]
         /\ \A x \in Row : holder'[x] = IF x \in DOMAIN new THEN r ELSE holder[x]
         /\ \A x \in Row : dirty'[x] = IF x \in DOMAIN new THEN new[x] ELSE dirty[x]
<1>1. /\ db' = db /\ DOMAIN dirty' = Row
      /\ \A x \in Row : dirty'[x] = IF x \in DOMAIN new THEN new[x] ELSE dirty[x]
      /\ \A x \in Row : holder'[x] = IF x \in DOMAIN new THEN r ELSE holder[x]
      /\ \A x \in DOMAIN new : x \in Row /\ holder[x] \in {r, None}
      /\ None \notin Req
  BY RowsApart DEF Write, Unlocked, Lawful
<1>2. \A x \in DOMAIN new : View(r)[x] = dirty[x] /\ View(r)'[x] = new[x]
  BY <1>1 DEF View, DbInv
<1>3. \A q \in Req, x \in Row : q # r \/ x \notin DOMAIN new => View(q)'[x] = View(q)[x]
  BY <1>1 DEF View
<1>4. RowOK(dirty')
  BY <1>1, RowsApart DEF RowOK, DbInv, Lawful
<1>5. DbInv'
  <2>1. holder' \in [Row -> Req \cup {None}]
    BY <1>1 DEF Write, DbInv
  <2>2. \A x \in Row : holder'[x] = None => dirty'[x] = db'[x]
    BY <1>1 DEF DbInv
  <2>3. QED
    BY <1>1, <1>4, <2>1, <2>2 DEF DbInv, RowOK
<1>6. RowsMove(View(r), View(r)')
  BY <1>1, <1>2, <1>3, RowsApart DEF RowsMove, CustomerMoves, CodeMoves, Lawful
<1>7. \A q \in Req \ {r} : Keeps(q)
  BY <1>1, <1>3, RowsApart DEF Keeps, RowsMove, CustomerMoves, CodeMoves
<1>8. RowsMove(db, dirty)'
  <2>1. \A c \in Customer : CustomerMoves(db'[c], dirty'[c])
    BY <1>1, <1>2, RowsApart DEF MovesInv, RowsMove, CustomerMoves, Lawful
  <2>2. \A k \in Code : CodeMoves(db'[k], dirty'[k])
    BY <1>1, <1>2, RowsApart DEF MovesInv, RowsMove, CodeMoves, Lawful
  <2>3. \A i \in Identifier : db'[Key(i)] # None => dirty'[Key(i)] = db'[Key(i)]
    BY <1>1, <1>2, RowsApart DEF MovesInv, RowsMove, Lawful
  <2>4. QED
    BY <2>1, <2>2, <2>3 DEF RowsMove
<1>9. ASSUME NEW q \in Req, NEW c \in Customer, holder'[c] = q, NEW i \in dirty'[c].ids
      PROVE  View(q)'[Key(i)] = c
  <2>1. c \in Row /\ i \in Identifier /\ Key(i) \in Row /\ c # None
    BY <1>4, RowsApart DEF RowOK, CustomerRow
  <2>2. CASE c \in DOMAIN new /\ Key(i) \in DOMAIN new /\ new[Key(i)] = c
    BY <1>1, <1>2, <1>9, <2>1, <2>2
  <2>3. CASE c \in DOMAIN new /\ ~(Key(i) \in DOMAIN new /\ new[Key(i)] = c)
    <3>1. q = r /\ dirty'[c] = new[c] /\ new[c].ids = View(r)[c].ids /\ View(r)[c] = dirty[c]
      BY <1>1, <1>2, <1>9, <2>1, <2>3 DEF Lawful
    <3>2. i \in dirty[c].ids
      BY <1>9, <3>1
    <3>3. View(r)[Key(i)] = c
      <4>1. CASE holder[c] = r
        BY <3>2, <4>1 DEF MovesInv
      <4>2. CASE holder[c] = None
        <5>1. db[Key(i)] = c
          BY <2>1, <3>2, <4>2 DEF MovesInv, DbInv
        <5>2. dirty[Key(i)] = c
          BY <2>1, <5>1 DEF MovesInv, RowsMove
        <5>3. QED
          BY <2>1, <5>1, <5>2 DEF View
      <4>3. QED
        BY <1>1, <2>3, <4>1, <4>2
    <3>4. QED
      BY <1>6, <2>1, <3>1, <3>3 DEF RowsMove
  <2>4. CASE c \notin DOMAIN new
    <3>1. holder[c] = q /\ dirty'[c] = dirty[c]
      BY <1>1, <1>9, <2>1, <2>4
    <3>2. View(q)[Key(i)] = c
      BY <1>9, <3>1 DEF MovesInv
    <3>3. CASE q = r
      BY <1>6, <2>1, <3>2, <3>3 DEF RowsMove
    <3>4. CASE q # r
      BY <1>3, <2>1, <3>2, <3>4
    <3>5. QED
      BY <3>3, <3>4
  <2>5. QED
    BY <2>2, <2>3, <2>4
<1>10. MovesInv'
  BY <1>1, <1>8, <1>9 DEF MovesInv
<1>11. KeepsDb
  BY <1>1 DEF KeepsDb, RowsMove, CustomerMoves, CodeMoves
<1>12. QED
  BY <1>1, <1>2, <1>3, <1>5, <1>6, <1>7, <1>10, <1>11

LEMMA CommitEffect ==
  ASSUME DbInv, MovesInv, NEW r \in Req, CommitTx(r)
  PROVE  DbInv' /\ MovesInv' /\ KeepsDb /\ \A q \in Req \ {r} : Keeps(q)
<1>1. /\ db' = View(r) /\ dirty' = dirty
      /\ \A x \in Row : holder'[x] = IF holder[x] = r THEN None ELSE holder[x]
      /\ \A x \in Row : db'[x] = IF holder[x] = r THEN dirty[x] ELSE db[x]
      /\ None \notin Req
  BY RowsApart DEF CommitTx, Release, View
<1>2. DbInv'
  <2>1. holder' \in [Row -> Req \cup {None}]
    BY DEF CommitTx, Release, DbInv
  <2>2. \A x \in Row : holder'[x] = None => dirty'[x] = db'[x]
    BY <1>1 DEF DbInv
  <2>3. QED
    BY <1>1, <2>1, <2>2, ViewTypes DEF DbInv, RowOK
<1>3. KeepsDb
  BY <1>1, RowsApart DEF KeepsDb, MovesInv, RowsMove, CustomerMoves, CodeMoves
<1>4. \A q \in Req \ {r}, x \in Row :
        View(q)'[x] = IF holder[x] = q THEN dirty[x] ELSE db'[x]
  BY <1>1 DEF View
<1>5. \A q \in Req \ {r} : RowsMove(View(q), View(q)')
  BY <1>3, <1>4, RowsApart DEF View, KeepsDb, RowsMove, CustomerMoves, CodeMoves
<1>6. \A q \in Req \ {r} : Keeps(q)
  BY <1>1, <1>5 DEF Keeps
<1>7. RowsMove(db, dirty)'
  BY <1>1, RowsApart DEF MovesInv, RowsMove, CustomerMoves, CodeMoves
<1>8. ASSUME NEW c \in Customer, NEW i \in db'[c].ids
      PROVE  db'[Key(i)] = c
  <2>1. i \in Identifier /\ Key(i) \in Row /\ c # None /\ c \in Row
    BY <1>2, RowsApart DEF DbInv, RowOK, CustomerRow
  <2>2. CASE holder[c] = r
    BY <1>1, <1>8, <2>1, <2>2 DEF MovesInv
  <2>3. CASE holder[c] # r
    <3>1. db[Key(i)] = c
      BY <1>1, <1>8, <2>1, <2>3 DEF MovesInv
    <3>2. QED
      BY <1>3, <2>1, <3>1 DEF KeepsDb, RowsMove
  <2>4. QED
    BY <2>2, <2>3
<1>9. ASSUME NEW q \in Req, NEW c \in Customer, holder'[c] = q, NEW i \in dirty'[c].ids
      PROVE  View(q)'[Key(i)] = c
  <2>1. i \in Identifier /\ Key(i) \in Row /\ c # None /\ c \in Row
    BY <1>2, RowsApart DEF DbInv, RowOK, CustomerRow
  <2>2. q # r /\ View(q)[Key(i)] = c
    BY <1>1, <1>9, <2>1 DEF MovesInv
  <2>3. QED
    BY <1>5, <2>1, <2>2 DEF RowsMove
<1>10. QED
  BY <1>2, <1>3, <1>6, <1>7, <1>8, <1>9 DEF MovesInv

LEMMA RollbackEffect ==
  ASSUME DbInv, MovesInv, NEW r \in Req, RollbackTx(r)
  PROVE  /\ DbInv' /\ MovesInv' /\ KeepsDb /\ \A q \in Req \ {r} : Keeps(q)
         /\ db' = db
<1>1. /\ db' = db /\ DOMAIN dirty' = Row
      /\ \A x \in Row : dirty'[x] = IF holder[x] = r THEN db[x] ELSE dirty[x]
      /\ \A x \in Row : holder'[x] = IF holder[x] = r THEN None ELSE holder[x]
      /\ None \notin Req
  BY RowsApart DEF RollbackTx, Release
<1>2. DbInv'
  <2>1. RowOK(dirty')
    BY <1>1, RowsApart DEF DbInv, RowOK
  <2>2. holder' \in [Row -> Req \cup {None}]
    BY DEF RollbackTx, Release, DbInv
  <2>3. \A x \in Row : holder'[x] = None => dirty'[x] = db'[x]
    BY <1>1 DEF DbInv
  <2>4. QED
    BY <1>1, <2>1, <2>2, <2>3 DEF DbInv, RowOK
<1>3. \A q \in Req \ {r}, x \in Row : View(q)'[x] = View(q)[x]
  BY <1>1 DEF View
<1>4. KeepsDb /\ \A q \in Req \ {r} : Keeps(q)
  BY <1>1, <1>3, RowsApart DEF KeepsDb, Keeps, RowsMove, CustomerMoves, CodeMoves
<1>5. RowsMove(db, dirty)'
  BY <1>1, RowsApart DEF MovesInv, RowsMove, CustomerMoves, CodeMoves
<1>6. ASSUME NEW q \in Req, NEW c \in Customer, holder'[c] = q, NEW i \in dirty'[c].ids
      PROVE  View(q)'[Key(i)] = c
  <2>1. i \in Identifier /\ Key(i) \in Row /\ c \in Row
    BY <1>2, RowsApart DEF DbInv, RowOK, CustomerRow
  <2>2. q # r /\ View(q)[Key(i)] = c
    BY <1>1, <1>6, <2>1 DEF MovesInv
  <2>3. QED
    BY <1>3, <2>1, <2>2
<1>7. MovesInv'
  BY <1>1, <1>5, <1>6 DEF MovesInv
<1>8. QED
  BY <1>1, <1>2, <1>4, <1>7

-----------------------------------------------------------------------------
(* How far each request has come.                                          *)

OnCustomer == {"registerCode", "forgotCode", "findCodes", "consumeCodes", "markVerified",
               "issue", "rehash", "resetHash", "profile", "findSessions",
               "revokeSessions"}

LocOK(r) ==
  /\ pc[r] \in OnCustomer => loc[r].customer \in Customer
  /\ pc[r] = "logout" => loc[r].session \in Session
  /\ pc[r] \in {"register", "registerCode"} => loc[r].op = "register"
  /\ pc[r] = "markVerified" => loc[r].op = "verify"
  /\ pc[r] \in {"findCodes", "consumeCodes", "resetHash"} =>
       \/ loc[r].op = "verify" /\ loc[r].purpose = "verify_account"
       \/ loc[r].op \in {"forgot", "reset"} /\ loc[r].purpose = "password_reset"

(* Only a verification uses up a code of sign-up, and it goes on to verify *)
(* the code's account.                                                     *)
Spent(r) ==
  \A k \in Code :
    holder[k] = r /\ db[k].st = "live" /\ db[k].purpose = "verify_account"
    /\ dirty[k].st # "live" =>
      /\ loc[r].op = "verify" /\ db[k].of = loc[r].customer
      /\ loc[r].customer \in Customer
      /\ pc[r] \in {"markVerified", "issue", "commit"}
      /\ pc[r] # "markVerified" => View(r)[loc[r].customer].verified

(* Only a sign-up inserts an account, and it goes on to insert its code.   *)
Fresh(r) ==
  \A c \in Customer :
    holder[c] = r /\ db[c].status = "absent" /\ dirty[c].status # "absent" =>
      /\ loc[r].op = "register" /\ c = loc[r].customer
      /\ pc[r] \in {"registerCode", "commit"}
      /\ pc[r] = "commit" =>
           \E k \in Code : /\ holder[k] = r /\ dirty[k].st = "live"
                           /\ dirty[k].of = c /\ dirty[k].purpose = "verify_account"

Progress(r) == LocOK(r) /\ Spent(r) /\ Fresh(r)

RestInv ==
  /\ pc \in [Req -> PcState]
  /\ loc \in [Req -> Local]
  /\ expired \in SUBSET Code
  /\ started \in 0..MaxRequests

IInv ==
  /\ DbInv /\ MovesInv /\ RestInv
  /\ NotLockedOut
  /\ \A r \in Req : Progress(r)

Others(r) == \A q \in Req \ {r} : pc'[q] = pc[q] /\ loc'[q] = loc[q]

LEMMA ProgressKept ==
  ASSUME DbInv, RestInv, NEW r \in Req, Progress(r), Keeps(r), pc'[r] = pc[r], loc'[r] = loc[r]
  PROVE  Progress(r)'
<1>1. LocOK(r)'
  BY DEF Progress, LocOK
<1>2. /\ \A x \in Row : holder'[x] = r <=> holder[x] = r
      /\ \A x \in Row : holder[x] = r => db'[x] = db[x] /\ dirty'[x] = dirty[x]
      /\ \A c \in Customer : View(r)[c].verified => View(r)'[c].verified
  BY DEF Keeps, RowsMove, CustomerMoves
<1>3. Spent(r)'
  <2> SUFFICES ASSUME NEW k \in Code, holder'[k] = r, db'[k].st = "live",
                      db'[k].purpose = "verify_account", dirty'[k].st # "live"
               PROVE  /\ loc'[r].op = "verify" /\ db'[k].of = loc'[r].customer
                      /\ loc'[r].customer \in Customer
                      /\ pc'[r] \in {"markVerified", "issue", "commit"}
                      /\ pc'[r] # "markVerified" => View(r)'[loc'[r].customer].verified
    BY DEF Spent
  <2>1. holder[k] = r /\ db'[k] = db[k] /\ dirty'[k] = dirty[k]
    BY <1>2, RowsApart
  <2>2. QED
    BY <1>2, <2>1 DEF Progress, Spent
<1>4. Fresh(r)'
  <2> SUFFICES ASSUME NEW c \in Customer, holder'[c] = r, db'[c].status = "absent",
                      dirty'[c].status # "absent"
               PROVE  /\ loc'[r].op = "register" /\ c = loc'[r].customer
                      /\ pc'[r] \in {"registerCode", "commit"}
                      /\ pc'[r] = "commit" =>
                           \E k \in Code : /\ holder'[k] = r /\ dirty'[k].st = "live"
                                           /\ dirty'[k].of = c
                                           /\ dirty'[k].purpose = "verify_account"
    BY DEF Fresh
  <2>1. holder[c] = r /\ db'[c] = db[c] /\ dirty'[c] = dirty[c]
    BY <1>2, RowsApart
  <2>2. /\ loc[r].op = "register" /\ c = loc[r].customer
        /\ pc[r] \in {"registerCode", "commit"}
    BY <2>1 DEF Progress, Fresh
  <2>3. ASSUME pc[r] = "commit"
        PROVE  \E k \in Code : /\ holder'[k] = r /\ dirty'[k].st = "live"
                               /\ dirty'[k].of = c
                               /\ dirty'[k].purpose = "verify_account"
    <3>1. PICK k \in Code : /\ holder[k] = r /\ dirty[k].st = "live"
                            /\ dirty[k].of = c /\ dirty[k].purpose = "verify_account"
      BY <2>1, <2>3 DEF Progress, Fresh
    <3>2. holder'[k] = r /\ dirty'[k] = dirty[k]
      BY <1>2, <3>1, RowsApart
    <3>3. QED
      BY <3>1, <3>2
  <2>4. QED
    BY <2>2, <2>3
<1>5. QED
  BY <1>1, <1>3, <1>4 DEF Progress

(* A step that commits nothing leaves every account its code.              *)
LEMMA SameDb == ASSUME NotLockedOut, db' = db PROVE NotLockedOut'
BY DEF NotLockedOut

(* A step of r.                                                            *)
LEMMA StepInv ==
  ASSUME IInv, NEW r \in Req, DbInv', MovesInv', RestInv', NotLockedOut',
         \A q \in Req \ {r} : Keeps(q), Others(r), Progress(r)'
  PROVE  IInv'
<1>1. ASSUME NEW q \in Req
      PROVE  Progress(q)'
  <2>1. CASE q # r
    BY <2>1, ProgressKept DEF IInv, Others
  <2>2. QED
    BY <2>1
<1>2. QED
  BY <1>1 DEF IInv

LEMMA Stutter ==
  ASSUME DbInv, MovesInv, UNCHANGED dbState
  PROVE  /\ DbInv' /\ MovesInv' /\ db' = db /\ holder' = holder /\ dirty' = dirty
         /\ \A q \in Req : Keeps(q) /\ View(q)' = View(q)
<1>1. db' = db /\ holder' = holder /\ dirty' = dirty
  BY DEF dbState
<1>2. \A q \in Req : View(q)' = View(q)
  BY <1>1 DEF View
<1>3. \A q \in Req : Keeps(q)
  BY <1>1, <1>2 DEF Keeps, RowsMove, CustomerMoves, CodeMoves
<1>4. DbInv'
  BY <1>1 DEF DbInv, RowOK
<1>5. MovesInv'
  BY <1>1, <1>2 DEF MovesInv, RowsMove, CustomerMoves, CodeMoves
<1>6. QED
  BY <1>1, <1>2, <1>3, <1>4, <1>5

LEMMA StartInv ==
  ASSUME IInv, NEW r \in Req, Start(r)
  PROVE  IInv'
<1>1. DbInv /\ MovesInv /\ RestInv /\ NotLockedOut /\ Progress(r) /\ MaxRequests \in Nat
  BY CustomerAuthAssumption DEF IInv
<1>2. ASSUME NEW to \in PcState, NEW l \in Local, Enter(r, to, l),
             to \in OnCustomer => l.customer \in Customer,
             to = "logout" => l.session \in Session,
             to \notin {"registerCode", "markVerified", "commit"},
             to = "register" => l.op = "register",
             to \in {"findCodes", "consumeCodes", "resetHash"} =>
               \/ l.op = "verify" /\ l.purpose = "verify_account"
               \/ l.op \in {"forgot", "reset"} /\ l.purpose = "password_reset"
      PROVE  IInv'
  <2>1. /\ UNCHANGED <<dbState, expired>> /\ pc[r] = "idle" /\ pc'[r] = to /\ loc'[r] = l
        /\ Others(r) /\ pc' \in [Req -> PcState] /\ loc' \in [Req -> Local]
    BY <1>1, <1>2 DEF Enter, Go, RestInv, Others
  <2>2. /\ DbInv' /\ MovesInv' /\ db' = db /\ holder' = holder /\ dirty' = dirty
        /\ \A q \in Req : Keeps(q)
    BY <1>1, <2>1, Stutter
  <2>3. started' \in 0..MaxRequests
    BY <1>1, <1>2 DEF Enter, RestInv
  <2>4. RestInv' /\ NotLockedOut'
    BY <1>1, <2>1, <2>2, <2>3, SameDb DEF RestInv
  <2>5. LocOK(r)'
    BY <1>2, <2>1 DEF LocOK
  <2>6. Spent(r)' /\ Fresh(r)'
    BY <1>1, <2>1, <2>2 DEF Progress, Spent, Fresh
  <2>7. QED
    BY <2>1, <2>2, <2>4, <2>5, <2>6, StepInv DEF Progress
<1>3. ASSUME NEW I \in SUBSET Identifier, RegisterCheck(r, I)
      PROVE  IInv'
  <2> DEFINE l == [Idle EXCEPT !.op = "register", !.ids = I]
  <2>1. l \in Local /\ l.op = "register" /\ Enter(r, "register", l)
    BY <1>3 DEF Idle, Local, RegisterCheck
  <2> HIDE DEF l
  <2>2. QED
    BY <1>2, <2>1 DEF PcState, OnCustomer
<1>4. ASSUME NEW c \in Customer, VerifyFind(r, c)
      PROVE  IInv'
  <2> DEFINE l == [Idle EXCEPT !.op = "verify", !.customer = c, !.purpose = "verify_account"]
  <2>1. /\ l \in Local /\ l.op = "verify" /\ l.customer = c /\ l.purpose = "verify_account"
        /\ Enter(r, "findCodes", l)
    BY <1>4 DEF Idle, Local, Purpose, VerifyFind
  <2> HIDE DEF l
  <2>2. QED
    BY <1>2, <2>1 DEF PcState, OnCustomer
<1>5. ASSUME NEW c \in Customer, LoginRead(r, c)
      PROVE  IInv'
  <2> DEFINE l == [Idle EXCEPT !.op = "login", !.customer = c]
  <2>1. l \in Local /\ l.customer = c /\ \E to \in {"rehash", "issue"} : Enter(r, to, l)
    BY <1>5 DEF Idle, Local, LoginRead
  <2> HIDE DEF l
  <2>2. QED
    BY <1>2, <2>1 DEF PcState, OnCustomer
<1>6. ASSUME NEW c \in Customer, UpdateMeBegin(r, c)
      PROVE  IInv'
  <2> DEFINE l == [Idle EXCEPT !.op = "updateMe", !.customer = c]
  <2>1. l \in Local /\ l.customer = c /\ Enter(r, "profile", l)
    BY <1>6 DEF Idle, Local, UpdateMeBegin
  <2> HIDE DEF l
  <2>2. QED
    BY <1>2, <2>1 DEF PcState, OnCustomer
<1>7. ASSUME NEW c \in Customer, ForgotRead(r, c)
      PROVE  IInv'
  <2> DEFINE l == [Idle EXCEPT !.op = "forgot", !.customer = c, !.purpose = "password_reset"]
  <2>1. /\ l \in Local /\ l.op = "forgot" /\ l.customer = c /\ l.purpose = "password_reset"
        /\ Enter(r, "findCodes", l)
    BY <1>7 DEF Idle, Local, Purpose, ForgotRead
  <2> HIDE DEF l
  <2>2. QED
    BY <1>2, <2>1 DEF PcState, OnCustomer
<1>8. ASSUME NEW c \in Customer, ResetFind(r, c)
      PROVE  IInv'
  <2> DEFINE l == [Idle EXCEPT !.op = "reset", !.customer = c, !.purpose = "password_reset"]
  <2>1. /\ l \in Local /\ l.op = "reset" /\ l.customer = c /\ l.purpose = "password_reset"
        /\ Enter(r, "resetHash", l)
    BY <1>8 DEF Idle, Local, Purpose, ResetFind
  <2> HIDE DEF l
  <2>2. QED
    BY <1>2, <2>1 DEF PcState, OnCustomer
<1>9. ASSUME NEW s \in Session, LogoutFind(r, s)
      PROVE  IInv'
  <2> DEFINE l == [Idle EXCEPT !.op = "logout", !.session = s]
  <2>1. l \in Local /\ l.session = s /\ Enter(r, "logout", l)
    BY <1>9 DEF Idle, Local, LogoutFind
  <2> HIDE DEF l
  <2>2. QED
    BY <1>2, <2>1 DEF PcState, OnCustomer
<1>10. QED
  BY <1>3, <1>4, <1>5, <1>6, <1>7, <1>8, <1>9 DEF Start

(* A request that fails or is refused leaves nothing.                      *)
LEMMA RollbackInv ==
  ASSUME IInv, NEW r \in Req, RollbackTx(r), pc' = [pc EXCEPT ![r] = "idle"],
         loc' = [loc EXCEPT ![r] = Idle], UNCHANGED <<expired, started>>
  PROVE  IInv'
<1>1. /\ DbInv' /\ MovesInv' /\ db' = db /\ \A q \in Req \ {r} : Keeps(q)
  BY RollbackEffect DEF IInv
<1>2. Idle \in Local
  BY DEF Idle, Local
<1>3. RestInv' /\ Others(r) /\ pc'[r] = "idle"
  BY <1>2 DEF IInv, RestInv, Others, PcState
<1>4. \A x \in Row : holder'[x] # r
  BY RowsApart DEF RollbackTx, Release
<1>5. Progress(r)'
  BY <1>3, <1>4, RowsApart DEF Progress, LocOK, Spent, Fresh, OnCustomer
<1>6. QED
  BY <1>1, <1>3, <1>5, SameDb, StepInv DEF IInv

(* The account's code: what r commits was there before, or r inserted it.  *)
LEMMA CommitReachable ==
  ASSUME IInv, NEW r \in Req, CommitTx(r), pc[r] = "commit"
  PROVE  NotLockedOut'
<1>1. /\ DbInv /\ MovesInv /\ NotLockedOut /\ Spent(r) /\ Fresh(r)
      /\ \A x \in Row : db'[x] = IF holder[x] = r THEN dirty[x] ELSE db[x]
      /\ db' = View(r)
  BY DEF IInv, Progress, CommitTx, View
<1>2. KeepsDb
  BY <1>1, CommitEffect
<1> SUFFICES ASSUME NEW c \in Customer, db'[c].status # "absent", ~db'[c].verified
             PROVE  \E k \in Code : /\ db'[k].of = c /\ db'[k].purpose = "verify_account"
                                    /\ db'[k].st = "live"
  BY DEF NotLockedOut
<1>3. CASE db[c].status = "absent"
  <2>1. holder[c] = r /\ dirty[c].status # "absent"
    BY <1>1, <1>3, RowsApart
  <2>2. PICK k \in Code : /\ holder[k] = r /\ dirty[k].st = "live"
                          /\ dirty[k].of = c /\ dirty[k].purpose = "verify_account"
    BY <1>1, <1>3, <2>1 DEF Fresh
  <2>3. db'[k] = dirty[k]
    BY <1>1, <2>2, RowsApart
  <2>4. QED
    BY <2>2, <2>3
<1>4. CASE db[c].status # "absent"
  <2>1. ~db[c].verified
    BY <1>2 DEF KeepsDb, RowsMove, CustomerMoves
  <2>2. PICK k \in Code : /\ db[k].of = c /\ db[k].purpose = "verify_account"
                          /\ db[k].st = "live"
    BY <1>1, <1>4, <2>1 DEF NotLockedOut
  <2>3. db'[k].of = c /\ db'[k].purpose = "verify_account"
    BY <1>2, <2>2 DEF KeepsDb, RowsMove, CodeMoves
  <2>4. ASSUME db'[k].st # "live"
        PROVE  FALSE
    <3>1. holder[k] = r /\ dirty[k].st # "live"
      BY <1>1, <2>2, <2>4, RowsApart
    <3>2. View(r)[c].verified
      BY <1>1, <2>2, <3>1 DEF Spent
    <3>3. QED
      BY <1>1, <3>2
  <2>5. QED
    BY <2>3, <2>4
<1>5. QED
  BY <1>3, <1>4

LEMMA CommitInv ==
  ASSUME IInv, NEW r \in Req, Commit(r)
  PROVE  IInv'
<1>1. /\ CommitTx(r) /\ pc[r] = "commit" /\ pc' = [pc EXCEPT ![r] = "idle"]
      /\ loc' = [loc EXCEPT ![r] = Idle] /\ UNCHANGED <<expired, started>>
  BY DEF Commit, Go
<1>2. DbInv' /\ MovesInv' /\ \A q \in Req \ {r} : Keeps(q)
  BY <1>1, CommitEffect DEF IInv
<1>3. Idle \in Local
  BY DEF Idle, Local
<1>4. RestInv' /\ Others(r) /\ pc'[r] = "idle"
  BY <1>1, <1>3 DEF IInv, RestInv, Others, PcState
<1>5. \A x \in Row : holder'[x] # r
  BY <1>1, RowsApart DEF CommitTx, Release
<1>6. Progress(r)'
  BY <1>4, <1>5, RowsApart DEF Progress, LocOK, Spent, Fresh, OnCustomer
<1>7. QED
  BY <1>1, <1>2, <1>4, <1>6, CommitReachable, StepInv

(* A statement that inserts no account.                                    *)
LEMMA WriteInv ==
  ASSUME IInv, NEW r \in Req, NEW from, NEW to \in PcState, NEW new, Step(r, from, to, new),
         Lawful(r, new), from \notin {"registerCode", "commit"},
         \A c \in DOMAIN new \cap Customer : new[c].status = View(r)[c].status,
         LocOK(r)', Spent(r)'
  PROVE  IInv'
<1>1. Go(r, from, to) /\ Write(r, new) /\ UNCHANGED <<loc, expired, started>>
  BY DEF Step
<1>2. /\ DbInv' /\ MovesInv' /\ db' = db /\ \A q \in Req \ {r} : Keeps(q)
      /\ \A x \in Row : holder'[x] = IF x \in DOMAIN new THEN r ELSE holder[x]
      /\ \A x \in Row : dirty'[x] = IF x \in DOMAIN new THEN new[x] ELSE dirty[x]
  BY <1>1, WriteEffect DEF IInv
<1>3. \A x \in DOMAIN new : View(r)[x] = dirty[x] /\ holder[x] \in {r, None}
  BY <1>1 DEF IInv, DbInv, Write, Unlocked, View, Lawful
<1>4. RestInv' /\ Others(r) /\ pc[r] = from
  BY <1>1 DEF IInv, RestInv, Others, Go
<1>5. \A c \in Customer : ~(holder[c] = r /\ db[c].status = "absent" /\ dirty[c].status # "absent")
  BY <1>4 DEF IInv, Progress, Fresh
<1>6. Fresh(r)'
  BY <1>2, <1>3, <1>5, RowsApart DEF Fresh, IInv, DbInv
<1>7. QED
  BY <1>2, <1>4, <1>6, SameDb, StepInv DEF IInv, Progress

(* A statement before which nothing is used up, and that uses up no code   *)
(* of sign-up.                                                             *)
LEMMA NothingSpent ==
  ASSUME IInv, NEW r \in Req, NEW new, Write(r, new), Lawful(r, new),
         pc[r] \notin {"markVerified", "issue", "commit"},
         \A k \in DOMAIN new \cap Code :
           new[k].st = "live" \/ db[k].st # "live" \/ db[k].purpose # "verify_account"
  PROVE  Spent(r)'
<1>1. /\ db' = db
      /\ \A x \in Row : holder'[x] = IF x \in DOMAIN new THEN r ELSE holder[x]
      /\ \A x \in Row : dirty'[x] = IF x \in DOMAIN new THEN new[x] ELSE dirty[x]
  BY WriteEffect DEF IInv
<1>2. \A k \in Code : ~(/\ holder[k] = r /\ db[k].st = "live"
                        /\ db[k].purpose = "verify_account" /\ dirty[k].st # "live")
  BY DEF IInv, Progress, Spent
<1>3. QED
  BY <1>1, <1>2, RowsApart DEF Spent

(* Statements on one row of the account, or on sessions.                   *)
LEMMA AccountLawful ==
  ASSUME DbInv, NEW r \in Req, NEW c \in Customer, NEW row \in CustomerRow,
         CustomerMoves(View(r)[c], row), row.ids = View(r)[c].ids
  PROVE  Lawful(r, [x \in {c} |-> row])
BY RowsApart DEF Lawful

LEMMA SessionsLawful ==
  ASSUME NEW r \in Req, NEW new, DOMAIN new \subseteq Session,
         \A s \in DOMAIN new : new[s] \in SessionRow
  PROVE  Lawful(r, new)
BY RowsApart DEF Lawful

LEMMA SameRowLawful ==
  ASSUME DbInv, NEW r \in Req, NEW c \in Customer
  PROVE  Lawful(r, [x \in {c} |-> View(r)[c]])
<1>1. View(r)[c] \in CustomerRow
  BY ViewTypes DEF RowOK
<1>2. QED
  BY <1>1, AccountLawful DEF CustomerMoves

LEMMA RegisterInsertInv ==
  ASSUME IInv, NEW r \in Req, RegisterInsert(r)
  PROVE  IInv'
<1>1. DbInv /\ MovesInv /\ RestInv /\ NotLockedOut /\ Progress(r) /\ loc[r] \in Local
  BY DEF IInv, RestInv
<1>2. PICK c \in Customer :
        /\ View(r)[c] = NoCustomer
        /\ \A i \in loc[r].ids : View(r)[Key(i)] = None
        /\ Go(r, "register", "registerCode")
        /\ Write(r, [x \in {c} \cup {Key(i) : i \in loc[r].ids} |->
                       IF x = c
                       THEN [status |-> "active", ids |-> loc[r].ids, verified |-> FALSE]
                       ELSE c])
        /\ loc' = [loc EXCEPT ![r].customer = c]
        /\ UNCHANGED <<expired, started>>
  BY DEF RegisterInsert
<1> DEFINE row == [status |-> "active", ids |-> loc[r].ids, verified |-> FALSE]
           new == [x \in {c} \cup {Key(i) : i \in loc[r].ids} |-> IF x = c THEN row ELSE c]
<1>3. loc[r].ids \subseteq Identifier
  BY <1>1 DEF Local
<1>4. /\ row \in CustomerRow /\ row.ids = loc[r].ids
      /\ CustomerMoves(View(r)[c], row)
  BY <1>2, <1>3 DEF CustomerRow, CustomerMoves, NoCustomer
<1>5. /\ DOMAIN new = {c} \cup {Key(i) : i \in loc[r].ids}
      /\ new[c] = row
      /\ \A i \in loc[r].ids : new[Key(i)] = c
  BY <1>3, RowsApart
<1>6. Write(r, new)
  BY <1>2
<1> HIDE DEF new, row
<1>7. Lawful(r, new)
  BY <1>2, <1>3, <1>4, <1>5, RowsApart DEF Lawful
<1>8. /\ DbInv' /\ MovesInv' /\ db' = db /\ \A q \in Req \ {r} : Keeps(q)
      /\ \A x \in Row : holder'[x] = IF x \in DOMAIN new THEN r ELSE holder[x]
      /\ \A x \in Row : dirty'[x] = IF x \in DOMAIN new THEN new[x] ELSE dirty[x]
  BY <1>1, <1>6, <1>7, WriteEffect
<1>9. /\ pc[r] = "register" /\ pc'[r] = "registerCode" /\ Others(r)
      /\ loc'[r].op = loc[r].op /\ loc'[r].customer = c
      /\ loc' \in [Req -> Local] /\ pc' \in [Req -> PcState]
  BY <1>1, <1>2 DEF Go, RestInv, Others, Local, PcState
<1>10. RestInv'
  BY <1>1, <1>2, <1>9 DEF RestInv
<1>11. loc[r].op = "register"
  BY <1>1, <1>9 DEF Progress, LocOK
<1>12. LocOK(r)'
  BY <1>9, <1>11 DEF LocOK
<1>13. Spent(r)'
  BY <1>3, <1>5, <1>6, <1>7, <1>9, NothingSpent, RowsApart
<1>14. Fresh(r)'
  <2>1. \A d \in Customer \ {c} : d \notin DOMAIN new
    BY <1>3, <1>5, RowsApart
  <2>2. \A d \in Customer : ~(holder[d] = r /\ db[d].status = "absent" /\ dirty[d].status # "absent")
    BY <1>1, <1>9 DEF Progress, Fresh
  <2>3. QED
    BY <1>8, <1>9, <1>11, <2>1, <2>2, RowsApart DEF Fresh
<1>15. QED
  BY <1>1, <1>8, <1>9, <1>10, <1>12, <1>13, <1>14, SameDb, StepInv DEF Progress

LEMMA CreateCodeInv ==
  ASSUME IInv, NEW r \in Req, CreateCode(r)
  PROVE  IInv'
<1>1. DbInv /\ MovesInv /\ RestInv /\ NotLockedOut /\ Progress(r) /\ loc[r] \in Local
  BY DEF IInv, RestInv
<1>2. PICK k \in Code, p \in Purpose :
        /\ View(r)[k] = NoCode
        /\ Step(r, IF p = "verify_account" THEN "registerCode" ELSE "forgotCode", "commit",
                [x \in {k} |-> [st |-> "live", of |-> loc[r].customer, purpose |-> p]])
  BY DEF CreateCode
<1> DEFINE row == [st |-> "live", of |-> loc[r].customer, purpose |-> p]
           new == [x \in {k} |-> row]
<1>3. row \in CodeRow /\ CodeMoves(View(r)[k], row)
  BY <1>1, <1>2 DEF CodeRow, CodeMoves, NoCode, Local
<1>4. DOMAIN new = {k} /\ new[k] = row /\ row.st = "live" /\ row.of = loc[r].customer /\ row.purpose = p
  OBVIOUS
<1>5. PICK from \in {"registerCode", "forgotCode"} :
        /\ Step(r, from, "commit", new)
        /\ from = "registerCode" <=> p = "verify_account"
  BY <1>2
<1> HIDE DEF new, row
<1>6. Lawful(r, new)
  BY <1>3, <1>4, RowsApart DEF Lawful
<1>7. Write(r, new) /\ Go(r, from, "commit") /\ UNCHANGED <<loc, expired, started>>
  BY <1>5 DEF Step
<1>8. pc[r] = from /\ pc'[r] = "commit" /\ Others(r) /\ loc'[r] = loc[r]
  BY <1>1, <1>7 DEF Go, RestInv, Others
<1>9. Spent(r)'
  BY <1>4, <1>6, <1>7, <1>8, NothingSpent
<1>10. LocOK(r)'
  BY <1>8 DEF LocOK, OnCustomer
<1>11. CASE from = "forgotCode"
  BY <1>4, <1>5, <1>6, <1>9, <1>10, <1>11, WriteInv, RowsApart DEF PcState
<1>12. CASE from = "registerCode"
  <2>1. /\ DbInv' /\ MovesInv' /\ db' = db /\ \A q \in Req \ {r} : Keeps(q)
        /\ \A x \in Row : holder'[x] = IF x \in DOMAIN new THEN r ELSE holder[x]
        /\ \A x \in Row : dirty'[x] = IF x \in DOMAIN new THEN new[x] ELSE dirty[x]
    BY <1>1, <1>6, <1>7, WriteEffect
  <2>2. RestInv'
    BY <1>1, <1>7 DEF RestInv, Go, PcState
  <2>3. holder'[k] = r /\ dirty'[k] = row /\ \A c \in Customer : c \notin DOMAIN new
    BY <1>4, <2>1, RowsApart
  <2>4. \A c \in Customer : holder'[c] = holder[c] /\ dirty'[c] = dirty[c] /\ db'[c] = db[c]
    BY <2>1, <2>3, RowsApart
  <2>5. Fresh(r)'
    BY <1>1, <1>4, <1>5, <1>8, <1>12, <2>3, <2>4 DEF Fresh, Progress
  <2>6. QED
    BY <1>1, <1>8, <1>9, <1>10, <2>1, <2>2, <2>5, SameDb, StepInv DEF Progress
<1>13. QED
  BY <1>11, <1>12

LEMMA ConsumeCodesInv ==
  ASSUME IInv, NEW r \in Req, ConsumeCodes(r)
  PROVE  IInv'
<1>1. DbInv /\ MovesInv /\ RestInv /\ NotLockedOut /\ Progress(r) /\ loc[r] \in Local
  BY DEF IInv, RestInv
<1> DEFINE live == LiveCodes(r, loc[r].customer, loc[r].purpose)
           new == [k \in loc[r].targets \cap live |-> [View(r)[k] EXCEPT !.st = "consumed"]]
<1>2. pc[r] = "consumeCodes"
  BY DEF ConsumeCodes, Step, Go
<1>3. \/ loc[r].op = "verify" /\ loc[r].purpose = "verify_account"
      \/ loc[r].op \in {"forgot", "reset"} /\ loc[r].purpose = "password_reset"
  BY <1>1, <1>2 DEF Progress, LocOK
<1>4. loc[r].customer \in Customer
  BY <1>1, <1>2 DEF Progress, LocOK, OnCustomer
<1>5. PICK to \in {"markVerified", "forgotCode", "findSessions"} :
        /\ Step(r, "consumeCodes", to, new)
        /\ to = "markVerified" <=> loc[r].op = "verify"
  BY <1>3 DEF ConsumeCodes
<1>6. \A k \in live : /\ k \in Code /\ View(r)[k].st = "live" /\ View(r)[k].of = loc[r].customer
                      /\ View(r)[k].purpose = loc[r].purpose
  BY DEF LiveCodes
<1>7. \A k \in Code : LET row == [View(r)[k] EXCEPT !.st = "consumed"] IN
        row \in CodeRow /\ row.st = "consumed" /\ CodeMoves(View(r)[k], row)
  BY <1>1, ViewTypes DEF RowOK, CodeRow, CodeMoves
<1>8. /\ DOMAIN new = loc[r].targets \cap live
      /\ \A k \in DOMAIN new : new[k] \in CodeRow /\ CodeMoves(View(r)[k], new[k])
  BY <1>6, <1>7
<1> HIDE DEF new, live
<1>9. Lawful(r, new)
  BY <1>6, <1>8, RowsApart DEF Lawful
<1>10. Write(r, new) /\ Go(r, "consumeCodes", to) /\ UNCHANGED <<loc, expired, started>>
  BY <1>5 DEF Step
<1>11. pc'[r] = to /\ loc'[r] = loc[r] /\ to \in PcState
  BY <1>1, <1>10 DEF Go, RestInv, PcState
<1>12. LocOK(r)'
  BY <1>3, <1>4, <1>5, <1>11 DEF LocOK
<1>13. \A k \in DOMAIN new : db[k].st # "absent" =>
         db[k].of = loc[r].customer /\ db[k].purpose = loc[r].purpose
  <2>1. \A k \in Code : CodeMoves(db[k], View(r)[k])
    BY <1>1, RowsApart DEF MovesInv, RowsMove, CodeMoves, View
  <2>2. QED
    BY <1>6, <1>8, <2>1 DEF CodeMoves
<1>14. Spent(r)'
  <2>1. CASE loc[r].op = "verify"
    <3>1. /\ db' = db
          /\ \A x \in Row : holder'[x] = IF x \in DOMAIN new THEN r ELSE holder[x]
          /\ \A x \in Row : dirty'[x] = IF x \in DOMAIN new THEN new[x] ELSE dirty[x]
      BY <1>1, <1>9, <1>10, WriteEffect
    <3>2. \A k \in Code : ~(/\ holder[k] = r /\ db[k].st = "live"
                            /\ db[k].purpose = "verify_account" /\ dirty[k].st # "live")
      BY <1>1, <1>2 DEF Progress, Spent
    <3>3. QED
      BY <1>4, <1>5, <1>11, <1>13, <2>1, <3>1, <3>2, RowsApart DEF Spent
  <2>2. CASE loc[r].op # "verify"
    BY <1>2, <1>3, <1>9, <1>10, <1>13, <2>2, NothingSpent
  <2>3. QED
    BY <2>1, <2>2
<1>15. \A c \in DOMAIN new \cap Customer : new[c].status = View(r)[c].status
  BY <1>6, <1>8, RowsApart
<1>16. QED
  BY <1>5, <1>9, <1>11, <1>12, <1>14, <1>15, WriteInv

(* FindCodes and FindSessions: an UPDATE has found its rows.               *)
LEMMA FindInv ==
  ASSUME IInv, NEW r \in Req, NEW S \in SUBSET (Code \cup Session),
         Go(r, "findCodes", "consumeCodes") \/ Go(r, "findSessions", "revokeSessions"),
         loc' = [loc EXCEPT ![r].targets = S], UNCHANGED <<dbState, expired, started>>
  PROVE  IInv'
<1>1. DbInv /\ MovesInv /\ RestInv /\ NotLockedOut /\ Progress(r) /\ loc[r] \in Local
  BY DEF IInv, RestInv
<1>2. /\ DbInv' /\ MovesInv' /\ db' = db /\ holder' = holder /\ dirty' = dirty
      /\ \A q \in Req : Keeps(q)
  BY <1>1, Stutter
<1>3. /\ loc'[r].op = loc[r].op /\ loc'[r].customer = loc[r].customer
      /\ loc'[r].purpose = loc[r].purpose
      /\ Others(r) /\ loc' \in [Req -> Local] /\ pc' \in [Req -> PcState]
      /\ \/ pc[r] = "findCodes" /\ pc'[r] = "consumeCodes"
         \/ pc[r] = "findSessions" /\ pc'[r] = "revokeSessions"
  BY <1>1 DEF Go, RestInv, Local, Others, PcState
<1>4. RestInv'
  BY <1>1, <1>3 DEF RestInv
<1>5. Spent(r)' /\ Fresh(r)'
  BY <1>1, <1>2, <1>3 DEF Progress, Spent, Fresh
<1>6. LocOK(r)'
  BY <1>1, <1>3 DEF Progress, LocOK, OnCustomer
<1>7. QED
  BY <1>1, <1>2, <1>3, <1>4, <1>5, <1>6, SameDb, StepInv DEF Progress

(* Statements that write no code.                                          *)
LEMMA PlainInv ==
  ASSUME IInv, NEW r \in Req, NEW from, NEW to, NEW new, Step(r, from, to, new),
         Lawful(r, new), DOMAIN new \cap Code = {},
         \A c \in DOMAIN new \cap Customer : new[c].status = View(r)[c].status,
         \/ from = "markVerified" /\ to = "issue" /\ new[loc[r].customer].verified
            /\ loc[r].customer \in DOMAIN new
         \/ from = "issue" /\ to = "commit"
         \/ from = "rehash" /\ to = "issue"
         \/ from = "resetHash" /\ to = "findCodes"
         \/ from \in {"logout", "profile", "revokeSessions"} /\ to = "commit"
  PROVE  IInv'
<1>1. /\ Go(r, from, to) /\ Write(r, new) /\ UNCHANGED <<loc, expired, started>>
      /\ Progress(r)
  BY DEF Step, IInv
<1>2. pc[r] = from /\ pc'[r] = to /\ loc'[r] = loc[r] /\ to \in PcState
  BY <1>1 DEF Go, IInv, RestInv, PcState
<1>3. LocOK(r)'
  BY <1>1, <1>2 DEF Progress, LocOK, OnCustomer
<1>4. Spent(r)'
  <2>1. CASE from \notin {"markVerified", "issue"}
    BY <1>1, <1>2, <2>1, NothingSpent
  <2>2. CASE from \in {"markVerified", "issue"}
    <3>1. /\ db' = db
          /\ \A x \in Row : holder'[x] = IF x \in DOMAIN new THEN r ELSE holder[x]
          /\ \A x \in Row : dirty'[x] = IF x \in DOMAIN new THEN new[x] ELSE dirty[x]
          /\ \A x \in Row : View(r)'[x] = IF x \in DOMAIN new THEN new[x] ELSE View(r)[x]
          /\ \A c \in Customer : View(r)[c].verified => View(r)'[c].verified
      BY <1>1, WriteEffect DEF IInv, RowsMove, CustomerMoves
    <3>2. \A k \in Code : holder'[k] = holder[k] /\ dirty'[k] = dirty[k] /\ db'[k] = db[k]
      BY <3>1, RowsApart
    <3>3. CASE from = "issue"
      BY <1>1, <1>2, <2>2, <3>1, <3>2, <3>3 DEF Progress, Spent
    <3>4. CASE from = "markVerified"
      <4>1. View(r)'[loc[r].customer].verified
        BY <1>1, <1>2, <3>1, <3>4, RowsApart DEF Progress, LocOK, OnCustomer
      <4>2. QED
        BY <1>1, <1>2, <3>2, <3>4, <4>1 DEF Progress, Spent
    <3>5. QED
      BY <2>2, <3>3, <3>4
  <2>3. QED
    BY <2>1, <2>2
<1>5. QED
  BY <1>1, <1>2, <1>3, <1>4, WriteInv

LEMMA ContinueInv ==
  ASSUME IInv, NEW r \in Req, Continue(r)
  PROVE  IInv'
<1>1. /\ DbInv /\ Progress(r) /\ loc[r] \in Local
      /\ \A c \in Customer : View(r)[c] \in CustomerRow
      /\ \A s \in Session : View(r)[s] \in SessionRow
  BY ViewTypes DEF IInv, RestInv, RowOK
<1>2. CASE RegisterConflict(r)
  BY <1>2, RollbackInv DEF RegisterConflict, Go
<1>3. CASE FindCodes(r)
  BY <1>3, FindInv DEF FindCodes, LiveCodes
<1>4. CASE FindSessions(r)
  BY <1>4, FindInv DEF FindSessions, LiveSessions
<1>5. CASE MarkVerified(r)
  <2> DEFINE c == loc[r].customer
             row == [View(r)[c] EXCEPT !.verified = TRUE]
             new == [x \in {c} |-> row]
  <2>1. Step(r, "markVerified", "issue", new)
    BY <1>5 DEF MarkVerified
  <2>2. c \in Customer
    BY <1>1, <2>1 DEF Step, Go, Progress, LocOK, OnCustomer
  <2>3. /\ row \in CustomerRow /\ row.ids = View(r)[c].ids /\ row.verified
        /\ row.status = View(r)[c].status
    BY <1>1, <2>2 DEF CustomerRow
  <2>4. DOMAIN new = {c} /\ new[c] = row
    OBVIOUS
  <2> HIDE DEF row
  <2>5. Lawful(r, new)
    BY <1>1, <2>2, <2>3, AccountLawful DEF CustomerMoves
  <2> HIDE DEF new
  <2>6. QED
    BY <2>1, <2>2, <2>3, <2>4, <2>5, PlainInv, RowsApart
<1>6. CASE IssueSession(r)
  <2>1. PICK s \in Session :
          Step(r, "issue", "commit", [x \in {s} |-> [st |-> "live", of |-> loc[r].customer]])
    BY <1>6 DEF IssueSession
  <2> DEFINE row == [st |-> "live", of |-> loc[r].customer]
             new == [x \in {s} |-> row]
  <2>2. row \in SessionRow
    BY <1>1 DEF SessionRow, Local
  <2>3. DOMAIN new = {s} /\ new[s] = row
    OBVIOUS
  <2>4. Step(r, "issue", "commit", new)
    BY <2>1
  <2> HIDE DEF new, row
  <2>5. Lawful(r, new)
    BY <2>2, <2>3, SessionsLawful
  <2>6. QED
    BY <2>3, <2>4, <2>5, PlainInv, RowsApart
<1>7. CASE UpdatePasswordHash(r)
  <2> DEFINE c == loc[r].customer
             new == [x \in {c} |-> View(r)[c]]
  <2>1. Step(r, "rehash", "issue", new) \/ Step(r, "resetHash", "findCodes", new)
    BY <1>7 DEF UpdatePasswordHash
  <2>2. c \in Customer
    BY <1>1, <2>1 DEF Step, Go, Progress, LocOK, OnCustomer
  <2>3. DOMAIN new = {c} /\ new[c] = View(r)[c] /\ Lawful(r, new)
    BY <1>1, <2>2, SameRowLawful
  <2> HIDE DEF new
  <2>4. QED
    BY <2>1, <2>2, <2>3, PlainInv, RowsApart
<1>8. CASE LogoutRevoke(r)
  <2> DEFINE s == loc[r].session
             row == [View(r)[s] EXCEPT !.st = "revoked"]
             new == [x \in {s} |-> row]
  <2>1. Step(r, "logout", "commit", new)
    BY <1>8 DEF LogoutRevoke
  <2>2. s \in Session
    BY <1>1, <2>1 DEF Step, Go, Progress, LocOK
  <2>3. row \in SessionRow
    BY <1>1, <2>2 DEF SessionRow
  <2>4. DOMAIN new = {s} /\ new[s] = row
    OBVIOUS
  <2> HIDE DEF new, row
  <2>5. Lawful(r, new)
    BY <2>2, <2>3, <2>4, SessionsLawful
  <2>6. QED
    BY <2>1, <2>2, <2>4, <2>5, PlainInv, RowsApart
<1>9. CASE UpdateProfile(r)
  <2> DEFINE c == loc[r].customer
             new == [x \in {c} |-> View(r)[c]]
  <2>1. Step(r, "profile", "commit", new)
    BY <1>9 DEF UpdateProfile
  <2>2. c \in Customer
    BY <1>1, <2>1 DEF Step, Go, Progress, LocOK, OnCustomer
  <2>3. DOMAIN new = {c} /\ new[c] = View(r)[c] /\ Lawful(r, new)
    BY <1>1, <2>2, SameRowLawful
  <2> HIDE DEF new
  <2>4. QED
    BY <2>1, <2>2, <2>3, PlainInv, RowsApart
<1>10. CASE RevokeSessions(r)
  <2> DEFINE live == LiveSessions(r, loc[r].customer)
             new == [s \in loc[r].targets \cap live |-> [View(r)[s] EXCEPT !.st = "revoked"]]
  <2>1. Step(r, "revokeSessions", "commit", new)
    BY <1>10 DEF RevokeSessions
  <2>2. live \subseteq Session
    BY DEF LiveSessions
  <2>3. \A s \in Session : [View(r)[s] EXCEPT !.st = "revoked"] \in SessionRow
    BY <1>1 DEF SessionRow
  <2>4. DOMAIN new \subseteq Session /\ \A s \in DOMAIN new : new[s] \in SessionRow
    BY <2>2, <2>3
  <2> HIDE DEF new, live
  <2>5. Lawful(r, new)
    BY <2>4, SessionsLawful
  <2>6. QED
    BY <2>1, <2>4, <2>5, PlainInv, RowsApart
<1>11. QED
  BY <1>2, <1>3, <1>4, <1>5, <1>6, <1>7, <1>8, <1>9, <1>10, RegisterInsertInv,
     CreateCodeInv, ConsumeCodesInv, CommitInv DEF Continue

(* Steps that are no request's.                                            *)
LEMMA DisableInv ==
  ASSUME IInv, NEW c \in Customer, Disable(c)
  PROVE  IInv'
<1>1. DbInv /\ MovesInv /\ RestInv /\ NotLockedOut
  BY DEF IInv
<1> DEFINE row == [db[c] EXCEPT !.status = "disabled"]
<1>2. /\ holder' = holder /\ dirty[c] = db[c] /\ db[c] \in CustomerRow
      /\ db[c].status = "active"
      /\ \A x \in Row : x # c => db'[x] = db[x] /\ dirty'[x] = dirty[x]
      /\ db'[c] = row /\ dirty'[c] = row
      /\ DOMAIN db' = Row /\ DOMAIN dirty' = Row
      /\ UNCHANGED <<pc, loc, expired, started>> /\ holder[c] = None
  BY <1>1, RowsApart DEF Disable, DbInv, RowOK
<1>3. /\ row \in CustomerRow /\ row.ids = db[c].ids /\ row.verified = db[c].verified
      /\ row.status # "absent"
  BY <1>2 DEF CustomerRow
<1> HIDE DEF row
<1>4. RowOK(db') /\ RowOK(dirty')
  BY <1>1, <1>2, <1>3, RowsApart DEF DbInv, RowOK
<1>5. DbInv'
  <2>1. \A x \in Row : holder'[x] = None => dirty'[x] = db'[x]
    BY <1>1, <1>2 DEF DbInv
  <2>2. QED
    BY <1>1, <1>2, <1>4, <2>1 DEF DbInv, RowOK
<1>6. \A q \in Req, x \in Row :
        /\ x # c => View(q)'[x] = View(q)[x]
        /\ View(q)'[c] = row /\ View(q)[c] = db[c]
  BY <1>2, RowsApart DEF View
<1>7. \A q \in Req : Keeps(q)
  BY <1>2, <1>3, <1>6, RowsApart DEF Keeps, RowsMove, CustomerMoves, CodeMoves
<1>8. \A d \in Customer : /\ db'[d].ids = db[d].ids /\ dirty'[d].ids = dirty[d].ids
                          /\ db'[d].verified <=> db[d].verified
                          /\ db[d].status = "absent" => db'[d].status = "absent"
  BY <1>2, <1>3, RowsApart
<1>9. RowsMove(db, dirty)'
  BY <1>1, <1>2, <1>3, RowsApart DEF MovesInv, RowsMove, CustomerMoves, CodeMoves
<1>10. \A i \in Identifier : db'[Key(i)] = db[Key(i)] /\ \A q \in Req : View(q)'[Key(i)] = View(q)[Key(i)]
  BY <1>2, <1>6, RowsApart
<1>11. \A d \in Customer : db[d].ids \subseteq Identifier /\ dirty[d].ids \subseteq Identifier
  BY <1>1 DEF DbInv, RowOK, CustomerRow
<1>12. MovesInv'
  BY <1>1, <1>2, <1>8, <1>9, <1>10, <1>11 DEF MovesInv
<1>13. NotLockedOut'
  <2>1. \A k \in Code : db'[k] = db[k]
    BY <1>2, RowsApart
  <2>2. \A d \in Customer : db'[d].status # "absent" => db[d].status # "absent"
    BY <1>8
  <2>3. QED
    BY <1>1, <1>8, <2>1, <2>2 DEF NotLockedOut
<1>14. RestInv' /\ \A q \in Req : Progress(q)'
  BY <1>1, <1>2, <1>7, ProgressKept DEF RestInv, IInv
<1>15. QED
  BY <1>5, <1>12, <1>13, <1>14 DEF IInv

LEMMA SameInv ==
  ASSUME IInv, UNCHANGED <<dbState, pc, loc, started>>, expired' \in SUBSET Code
  PROVE  IInv'
<1>1. /\ DbInv' /\ MovesInv' /\ db' = db /\ \A q \in Req : Keeps(q)
  BY Stutter DEF IInv
<1>2. RestInv' /\ NotLockedOut'
  BY <1>1, SameDb DEF IInv, RestInv
<1>3. \A q \in Req : Progress(q)'
  BY <1>1, ProgressKept DEF IInv
<1>4. QED
  BY <1>1, <1>2, <1>3 DEF IInv

LEMMA IInvStep == IInv /\ [Next]_vars => IInv'
<1> SUFFICES ASSUME IInv, [Next]_vars PROVE IInv'
  OBVIOUS
<1>1. ASSUME NEW r \in Req, Abort(r)
      PROVE  IInv'
  BY <1>1, RollbackInv DEF Abort
<1>2. ASSUME NEW k \in Code, Expire(k)
      PROVE  IInv'
  BY <1>2, SameInv DEF Expire, IInv, RestInv
<1>3. CASE UNCHANGED vars
  BY <1>3, SameInv DEF vars, IInv, RestInv
<1>4. QED
  BY <1>1, <1>2, <1>3, StartInv, ContinueInv, DisableInv DEF Next

LEMMA IInvInit == Init => IInv
<1> SUFFICES ASSUME Init PROVE IInv
  OBVIOUS
<1>1. /\ \A c \in Customer : db[c] = NoCustomer
      /\ \A k \in Code : db[k] = NoCode
      /\ \A s \in Session : db[s] = NoSession
      /\ \A i \in Identifier : db[Key(i)] = None
      /\ dirty = db /\ DOMAIN db = Row
      /\ \A x \in Row : holder[x] = None /\ holder \in [Row -> Req \cup {None}]
  BY RowsApart DEF Init, InitDb
<1>2. RowOK(db)
  <2>1. NoCustomer \in CustomerRow /\ NoCode \in CodeRow /\ NoSession \in SessionRow
    BY DEF CustomerRow, CodeRow, SessionRow, NoCustomer, NoCode, NoSession
  <2>2. QED
    BY <1>1, <2>1 DEF RowOK
<1>3. DbInv
  <2>1. holder \in [Row -> Req \cup {None}]
    BY DEF Init, InitDb
  <2>2. QED
    BY <1>1, <1>2, <2>1 DEF DbInv
<1>4. MovesInv
  BY <1>1, RowsApart DEF MovesInv, RowsMove, CustomerMoves, CodeMoves, NoCustomer
<1>5. Idle \in Local
  BY DEF Idle, Local
<1>6. RestInv
  BY <1>5, CustomerAuthAssumption DEF Init, RestInv, PcState
<1>7. NotLockedOut
  BY <1>1 DEF NotLockedOut, NoCustomer
<1>8. \A r \in Req : Progress(r)
  BY <1>1, RowsApart DEF Init, Progress, LocOK, Spent, Fresh, OnCustomer
<1>9. QED
  BY <1>3, <1>4, <1>6, <1>7, <1>8 DEF IInv

THEOREM CustomersInvariant == Spec => []IInv
BY IInvInit, IInvStep, PTL DEF Spec

(* TypeOK for every number of requests, accounts, codes and sessions.      *)
THEOREM TypeCorrect == Spec => []TypeOK
<1>1. IInv => TypeOK
  BY DEF IInv, DbInv, RestInv, TypeOK
<1>2. QED
  BY <1>1, CustomersInvariant, PTL

(* No two accounts share an email and no two a phone, however sign-ups     *)
(* race.  The email of one may be the phone of another.                    *)
THEOREM ColumnNamesOneAccount == Spec => []OneAccountPerColumn
<1>1. ASSUME IInv, NEW i \in Identifier
      PROVE  Cardinality({c \in Customer : i \in db[c].ids}) <= 1
  <2> DEFINE named == {c \in Customer : i \in db[c].ids}
  <2>1. named \subseteq {db[Key(i)]}
    BY <1>1 DEF IInv, MovesInv
  <2>2. IsFiniteSet({db[Key(i)]}) /\ Cardinality({db[Key(i)]}) = 1
    BY FS_Singleton
  <2>3. QED
    BY <2>1, <2>2, FS_Subset
<1>2. IInv => OneAccountPerColumn
  BY <1>1 DEF OneAccountPerColumn
<1>3. QED
  BY <1>2, CustomersInvariant, PTL

(* Every account that is not verified has its code, whatever fails.        *)
THEOREM UnverifiedHaveTheirCode == Spec => []NotLockedOut
<1>1. IInv => NotLockedOut
  BY DEF IInv
<1>2. QED
  BY <1>1, CustomersInvariant, PTL

-----------------------------------------------------------------------------
(* Waits.                                                                  *)

(* The statements before which a request of use case o may hold row x,     *)
(* whose committed version is row.                                         *)
MayHold(x, p, o, row) ==
  \/ x \in {Key(i) : i \in Identifier} /\ p \in {"registerCode", "commit"}
  \/ /\ x \in Customer
     /\ \/ p \in {"registerCode", "issue", "findSessions", "revokeSessions", "commit"}
        \/ p \in {"findCodes", "consumeCodes"} /\ o = "reset"
  \/ /\ x \in Code
     /\ \/ p \in {"markVerified", "issue"} /\ row.purpose = "verify_account"
        \/ p \in {"forgotCode", "findSessions", "revokeSessions"}
             /\ row.purpose = "password_reset"
        \/ p = "commit"
  \/ x \in Session /\ p = "commit"

(* The rows an UPDATE of several rows waits for: codes of its own purpose,  *)
(* or sessions.                                                            *)
TargetsOK(r) ==
  /\ pc[r] = "resetHash" => loc[r].op = "reset"
  /\ pc[r] = "consumeCodes" =>
       \A k \in loc[r].targets :
         k \in Code /\ db[k].st # "absent" /\ db[k].purpose = loc[r].purpose
  /\ pc[r] = "revokeSessions" => loc[r].targets \subseteq Session

LocksInv ==
  /\ \A r \in Req : TargetsOK(r)
  /\ \A r \in Req, x \in Row : holder[x] = r => MayHold(x, pc[r], loc[r].op, db[x])

(* A step of r that commits nothing.                                       *)
LEMMA LocksKept ==
  ASSUME LocksInv, NEW r \in Req, Others(r), UNCHANGED db,
         \A x \in Row : holder'[x] # holder[x] => holder'[x] = r,
         \A x \in Row : holder'[x] = r => MayHold(x, pc'[r], loc'[r].op, db[x]),
         TargetsOK(r)'
  PROVE  LocksInv'
<1>1. \A q \in Req : TargetsOK(q)'
  BY DEF LocksInv, TargetsOK, Others
<1>2. ASSUME NEW q \in Req, NEW x \in Row, holder'[x] = q
      PROVE  MayHold(x, pc'[q], loc'[q].op, db'[x])
  <2>1. CASE q = r
    BY <1>2, <2>1
  <2>2. CASE q # r
    BY <1>2, <2>2 DEF LocksInv, Others
  <2>3. QED
    BY <2>1, <2>2
<1>3. QED
  BY <1>1, <1>2 DEF LocksInv

(* A request that ends holds nothing any more.                             *)
LEMMA LocksReleased ==
  ASSUME IInv, LocksInv, NEW r \in Req, Release(r), KeepsDb,
         \A q \in Req \ {r} : Keeps(q),
         pc' = [pc EXCEPT ![r] = "idle"], loc' = [loc EXCEPT ![r] = Idle]
  PROVE  LocksInv'
<1>1. /\ pc'[r] = "idle" /\ None \notin Req
      /\ \A q \in Req \ {r} : pc'[q] = pc[q] /\ loc'[q] = loc[q]
  BY RowsApart DEF IInv, RestInv
<1>2. ASSUME NEW q \in Req
      PROVE  TargetsOK(q)'
  <2>1. CASE q = r
    BY <1>1, <2>1 DEF TargetsOK
  <2>2. CASE q # r
    <3>1. TargetsOK(q) /\ pc'[q] = pc[q] /\ loc'[q] = loc[q]
      BY <1>1, <2>2 DEF LocksInv
    <3>2. \A k \in Code : db[k].st # "absent" =>
                            db'[k].st # "absent" /\ db'[k].purpose = db[k].purpose
      BY DEF KeepsDb, RowsMove, CodeMoves
    <3>3. QED
      BY <3>1, <3>2 DEF TargetsOK
  <2>3. QED
    BY <2>1, <2>2
<1>3. ASSUME NEW q \in Req, NEW x \in Row, holder'[x] = q
      PROVE  MayHold(x, pc'[q], loc'[q].op, db'[x])
  <2>1. q # r /\ holder[x] = q
    BY <1>1, <1>3 DEF Release
  <2>2. db'[x] = db[x] /\ pc'[q] = pc[q] /\ loc'[q] = loc[q]
    BY <1>1, <2>1 DEF Keeps
  <2>3. QED
    BY <2>1, <2>2 DEF LocksInv
<1>4. QED
  BY <1>2, <1>3 DEF LocksInv

(* A statement of r that writes new and changes nothing of what it knows.  *)
LEMMA StepLocks ==
  ASSUME IInv, LocksInv, NEW r \in Req, NEW from, NEW to, NEW new, Step(r, from, to, new),
         \A x \in Row : x \in DOMAIN new \/ MayHold(x, from, loc[r].op, db[x])
                          => MayHold(x, to, loc[r].op, db[x]),
         to \notin {"consumeCodes", "revokeSessions", "resetHash"}
  PROVE  LocksInv'
<1>1. /\ pc[r] = from /\ pc'[r] = to /\ loc' = loc /\ db' = db
      /\ Others(r)
      /\ \A x \in Row : holder'[x] = IF x \in DOMAIN new THEN r ELSE holder[x]
  BY DEF Step, Go, Write, Others, IInv, RestInv
<1>2. \A x \in Row : holder'[x] = r => MayHold(x, pc'[r], loc'[r].op, db[x])
  BY <1>1 DEF LocksInv
<1>3. TargetsOK(r)'
  BY <1>1 DEF TargetsOK
<1>4. QED
  BY <1>1, <1>2, <1>3, LocksKept

(* One that finds the rows it will write.                                  *)
LEMMA FindLocks ==
  ASSUME IInv, LocksInv, NEW r \in Req, NEW from, NEW to, NEW T, Go(r, from, to),
         loc' = [loc EXCEPT ![r].targets = T], UNCHANGED dbState,
         \A x \in Row : MayHold(x, from, loc[r].op, db[x])
                          => MayHold(x, to, loc[r].op, db[x]),
         to = "consumeCodes" =>
           \A k \in T : k \in Code /\ db[k].st # "absent" /\ db[k].purpose = loc[r].purpose,
         to = "revokeSessions" => T \subseteq Session,
         to # "resetHash"
  PROVE  LocksInv'
<1>1. loc[r] \in Local
  BY DEF IInv, RestInv
<1>2. /\ loc'[r].targets = T /\ loc'[r].op = loc[r].op /\ loc'[r].purpose = loc[r].purpose
  BY <1>1 DEF IInv, RestInv, Local
<1>3. /\ Others(r) /\ pc[r] = from /\ pc'[r] = to /\ UNCHANGED <<holder, db>>
  BY DEF Go, Others, IInv, RestInv, dbState
<1>4. TargetsOK(r)'
  BY <1>2, <1>3 DEF TargetsOK
<1>5. \A x \in Row : holder'[x] = r => MayHold(x, pc'[r], loc'[r].op, db[x])
  BY <1>2, <1>3 DEF LocksInv
<1>6. QED
  BY <1>3, <1>4, <1>5, LocksKept

LEMMA RegisterLocks ==
  ASSUME IInv, LocksInv, NEW r \in Req, RegisterInsert(r)
  PROVE  LocksInv'
<1>1. PICK c \in Customer :
        /\ Go(r, "register", "registerCode")
        /\ Write(r, [x \in {c} \cup {Key(i) : i \in loc[r].ids} |->
                       IF x = c
                       THEN [status |-> "active", ids |-> loc[r].ids, verified |-> FALSE]
                       ELSE c])
        /\ loc' = [loc EXCEPT ![r].customer = c]
  BY DEF RegisterInsert
<1>2. /\ db' = db /\ Others(r) /\ pc[r] = "register" /\ pc'[r] = "registerCode"
      /\ \A x \in Row : holder'[x] =
           IF x \in {c} \cup {Key(i) : i \in loc[r].ids} THEN r ELSE holder[x]
  BY <1>1 DEF Go, Write, Others, IInv, RestInv
<1>3. loc[r].ids \subseteq Identifier
  BY DEF IInv, RestInv, Local
<1>4. \A x \in Row : holder'[x] = r => MayHold(x, pc'[r], loc'[r].op, db[x])
  <2> SUFFICES ASSUME NEW x \in Row, holder'[x] = r
               PROVE  MayHold(x, "registerCode", loc'[r].op, db[x])
    BY <1>2
  <2>1. holder[x] # r
    BY <1>2 DEF LocksInv, MayHold
  <2>2. x = c \/ x \in {Key(i) : i \in Identifier}
    BY <1>2, <1>3, <2>1
  <2>3. QED
    BY <2>2 DEF MayHold
<1>5. TargetsOK(r)'
  BY <1>2 DEF TargetsOK
<1>6. QED
  BY <1>2, <1>4, <1>5, LocksKept

LEMMA ConsumeLocks ==
  ASSUME IInv, LocksInv, NEW r \in Req, ConsumeCodes(r)
  PROVE  LocksInv'
<1> DEFINE live == LiveCodes(r, loc[r].customer, loc[r].purpose)
           new == [k \in loc[r].targets \cap live |-> [View(r)[k] EXCEPT !.st = "consumed"]]
           to == CASE loc[r].op = "verify" -> "markVerified"
                   [] loc[r].op = "forgot" -> "forgotCode"
                   [] loc[r].op = "reset"  -> "findSessions"
<1>1. Step(r, "consumeCodes", to, new) /\ DOMAIN new \subseteq loc[r].targets
  BY DEF ConsumeCodes
<1>2. pc[r] = "consumeCodes"
  BY <1>1 DEF Step, Go
<1>3. \/ loc[r].op = "verify" /\ loc[r].purpose = "verify_account" /\ to = "markVerified"
      \/ loc[r].op = "forgot" /\ loc[r].purpose = "password_reset" /\ to = "forgotCode"
      \/ loc[r].op = "reset" /\ loc[r].purpose = "password_reset" /\ to = "findSessions"
  BY <1>2 DEF IInv, Progress, LocOK
<1> HIDE DEF new, to
<1>4. \A k \in DOMAIN new : k \in Code /\ db[k].purpose = loc[r].purpose
  BY <1>1, <1>2 DEF LocksInv, TargetsOK
<1>5. \A x \in Row : x \in DOMAIN new \/ MayHold(x, "consumeCodes", loc[r].op, db[x])
                       => MayHold(x, to, loc[r].op, db[x])
  <2>1. \A x \in DOMAIN new : MayHold(x, to, loc[r].op, db[x])
    BY <1>3, <1>4 DEF MayHold
  <2>2. \A x \in Row : MayHold(x, "consumeCodes", loc[r].op, db[x])
                         => MayHold(x, to, loc[r].op, db[x])
    BY <1>3 DEF MayHold
  <2>3. QED
    BY <2>1, <2>2
<1>6. to \notin {"consumeCodes", "revokeSessions", "resetHash"}
  BY <1>3
<1>7. QED
  BY <1>1, <1>5, <1>6, StepLocks

LEMMA ContinueLocks ==
  ASSUME IInv, LocksInv, NEW r \in Req, Continue(r)
  PROVE  LocksInv'
<1>1. DbInv /\ MovesInv /\ LocOK(r)
  BY DEF IInv, Progress
<1>2. CASE RegisterConflict(r)
  BY <1>1, <1>2, LocksReleased, RollbackEffect DEF RegisterConflict, Go, RollbackTx
<1>3. CASE CreateCode(r)
  <2>1. PICK k \in Code, p \in Purpose :
          Step(r, IF p = "verify_account" THEN "registerCode" ELSE "forgotCode", "commit",
               [x \in {k} |-> [st |-> "live", of |-> loc[r].customer, purpose |-> p]])
    BY <1>3 DEF CreateCode
  <2> DEFINE new == [x \in {k} |-> [st |-> "live", of |-> loc[r].customer, purpose |-> p]]
             from == IF p = "verify_account" THEN "registerCode" ELSE "forgotCode"
  <2>2. Step(r, from, "commit", new) /\ DOMAIN new = {k}
    BY <2>1
  <2>3. from \in {"registerCode", "forgotCode"}
    OBVIOUS
  <2> HIDE DEF new, from
  <2>4. \A x \in Row : x \in DOMAIN new \/ MayHold(x, from, loc[r].op, db[x])
                         => MayHold(x, "commit", loc[r].op, db[x])
    BY <2>2, <2>3 DEF MayHold
  <2>5. QED
    BY <2>2, <2>4, StepLocks
<1>4. CASE FindCodes(r)
  <2> DEFINE T == LiveCodes(r, loc[r].customer, loc[r].purpose)
  <2>1. /\ Go(r, "findCodes", "consumeCodes") /\ UNCHANGED dbState
        /\ loc' = [loc EXCEPT ![r].targets = T]
    BY <1>4 DEF FindCodes
  <2>2. pc[r] = "findCodes"
    BY <2>1 DEF Go
  <2>3. ASSUME NEW k \in T
        PROVE  k \in Code /\ db[k].st # "absent" /\ db[k].purpose = loc[r].purpose
    <3>1. k \in Code /\ k \in Row /\ k \notin Customer
      BY RowsApart DEF LiveCodes
    <3>2. holder[k] # r
      BY <2>2, <3>1, RowsApart DEF LocksInv, MayHold
    <3>3. View(r)[k] = db[k]
      BY <3>1, <3>2 DEF View
    <3>4. QED
      BY <3>1, <3>3 DEF LiveCodes
  <2>4. \A x \in Row : MayHold(x, "findCodes", loc[r].op, db[x])
                         => MayHold(x, "consumeCodes", loc[r].op, db[x])
    BY DEF MayHold
  <2> HIDE DEF T
  <2>5. QED
    BY <2>1, <2>3, <2>4, FindLocks
<1>5. CASE MarkVerified(r)
  <2> DEFINE c == loc[r].customer
             new == [x \in {c} |-> [View(r)[c] EXCEPT !.verified = TRUE]]
  <2>1. Step(r, "markVerified", "issue", new) /\ DOMAIN new = {c}
    BY <1>5 DEF MarkVerified
  <2> HIDE DEF new
  <2>2. c \in Customer
    BY <1>1, <2>1 DEF LocOK, OnCustomer, Step, Go
  <2> HIDE DEF c
  <2>3. \A x \in Row : x \in DOMAIN new \/ MayHold(x, "markVerified", loc[r].op, db[x])
                         => MayHold(x, "issue", loc[r].op, db[x])
    BY <2>1, <2>2 DEF MayHold
  <2>4. QED
    BY <2>1, <2>3, StepLocks
<1>6. CASE IssueSession(r)
  <2>1. PICK s \in Session :
          Step(r, "issue", "commit", [x \in {s} |-> [st |-> "live", of |-> loc[r].customer]])
    BY <1>6 DEF IssueSession
  <2> DEFINE new == [x \in {s} |-> [st |-> "live", of |-> loc[r].customer]]
  <2>2. Step(r, "issue", "commit", new) /\ DOMAIN new = {s}
    BY <2>1
  <2> HIDE DEF new
  <2>3. \A x \in Row : x \in DOMAIN new \/ MayHold(x, "issue", loc[r].op, db[x])
                         => MayHold(x, "commit", loc[r].op, db[x])
    BY <2>2 DEF MayHold
  <2>4. QED
    BY <2>2, <2>3, StepLocks
<1>7. CASE UpdatePasswordHash(r)
  <2> DEFINE c == loc[r].customer
             new == [x \in {c} |-> View(r)[c]]
  <2>1. \/ Step(r, "rehash", "issue", new)
        \/ Step(r, "resetHash", "findCodes", new)
    BY <1>7 DEF UpdatePasswordHash
  <2>0. DOMAIN new = {c}
    OBVIOUS
  <2> HIDE DEF new
  <2>2. c \in Customer
    BY <1>1, <2>1 DEF LocOK, OnCustomer, Step, Go
  <2>3. CASE Step(r, "rehash", "issue", new)
    <3>1. \A x \in Row : x \in DOMAIN new \/ MayHold(x, "rehash", loc[r].op, db[x])
                           => MayHold(x, "issue", loc[r].op, db[x])
      BY <2>0, <2>2 DEF MayHold
    <3> HIDE DEF c
    <3>2. QED
      BY <2>0, <2>3, <3>1, StepLocks
  <2>4. CASE Step(r, "resetHash", "findCodes", new)
    <3>1. loc[r].op = "reset"
      BY <2>4 DEF LocksInv, TargetsOK, Step, Go
    <3>2. \A x \in Row : x \in DOMAIN new \/ MayHold(x, "resetHash", loc[r].op, db[x])
                           => MayHold(x, "findCodes", loc[r].op, db[x])
      BY <2>0, <2>2, <3>1 DEF MayHold
    <3> HIDE DEF c
    <3>3. QED
      BY <2>0, <2>4, <3>2, StepLocks
  <2>5. QED
    BY <2>1, <2>3, <2>4
<1>8. CASE LogoutRevoke(r)
  <2> DEFINE s == loc[r].session
             new == [x \in {s} |-> [View(r)[s] EXCEPT !.st = "revoked"]]
  <2>1. Step(r, "logout", "commit", new) /\ DOMAIN new = {s}
    BY <1>8 DEF LogoutRevoke
  <2> HIDE DEF new
  <2>2. s \in Session
    BY <1>1, <2>1 DEF LocOK, Step, Go
  <2>3. \A x \in Row : x \in DOMAIN new \/ MayHold(x, "logout", loc[r].op, db[x])
                         => MayHold(x, "commit", loc[r].op, db[x])
    BY <2>1, <2>2 DEF MayHold
  <2> HIDE DEF s
  <2>4. QED
    BY <2>1, <2>3, StepLocks
<1>9. CASE UpdateProfile(r)
  <2> DEFINE c == loc[r].customer
             new == [x \in {c} |-> View(r)[c]]
  <2>1. Step(r, "profile", "commit", new) /\ DOMAIN new = {c}
    BY <1>9 DEF UpdateProfile
  <2> HIDE DEF new
  <2>2. c \in Customer
    BY <1>1, <2>1 DEF LocOK, OnCustomer, Step, Go
  <2>3. \A x \in Row : x \in DOMAIN new \/ MayHold(x, "profile", loc[r].op, db[x])
                         => MayHold(x, "commit", loc[r].op, db[x])
    BY <2>1, <2>2 DEF MayHold
  <2> HIDE DEF c
  <2>4. QED
    BY <2>1, <2>3, StepLocks
<1>10. CASE FindSessions(r)
  <2> DEFINE T == LiveSessions(r, loc[r].customer)
  <2>1. /\ Go(r, "findSessions", "revokeSessions") /\ UNCHANGED dbState
        /\ loc' = [loc EXCEPT ![r].targets = T] /\ T \subseteq Session
    BY <1>10 DEF FindSessions, LiveSessions
  <2>2. \A x \in Row : MayHold(x, "findSessions", loc[r].op, db[x])
                         => MayHold(x, "revokeSessions", loc[r].op, db[x])
    BY DEF MayHold
  <2> HIDE DEF T
  <2>3. QED
    BY <2>1, <2>2, FindLocks
<1>11. CASE RevokeSessions(r)
  <2> DEFINE new == [s \in loc[r].targets \cap LiveSessions(r, loc[r].customer)
                       |-> [View(r)[s] EXCEPT !.st = "revoked"]]
  <2>1. Step(r, "revokeSessions", "commit", new) /\ DOMAIN new \subseteq Session
    BY <1>11 DEF RevokeSessions, LiveSessions
  <2> HIDE DEF new
  <2>2. \A x \in Row : x \in DOMAIN new \/ MayHold(x, "revokeSessions", loc[r].op, db[x])
                         => MayHold(x, "commit", loc[r].op, db[x])
    BY <2>1 DEF MayHold
  <2>3. QED
    BY <2>1, <2>2, StepLocks
<1>12. CASE Commit(r)
  BY <1>1, <1>12, LocksReleased, CommitEffect DEF Commit, Go, CommitTx
<1>13. QED
  BY <1>2, <1>3, <1>4, <1>5, <1>6, <1>7, <1>8, <1>9, <1>10, <1>11, <1>12,
     RegisterLocks, ConsumeLocks DEF Continue

LEMMA StartLocks ==
  ASSUME IInv, LocksInv, NEW r \in Req, Start(r)
  PROVE  LocksInv'
<1>1. ASSUME NEW to, NEW l, Enter(r, to, l), to # "resetHash" \/ l.op = "reset",
             to \notin {"consumeCodes", "revokeSessions"}
      PROVE  LocksInv'
  <2>1. /\ Others(r) /\ pc'[r] = to /\ pc[r] = "idle" /\ loc'[r] = l
        /\ UNCHANGED <<holder, db>>
    BY <1>1 DEF Enter, Go, Others, IInv, RestInv, dbState
  <2>2. \A x \in Row : holder'[x] # r
    BY <2>1 DEF LocksInv, MayHold
  <2>3. TargetsOK(r)'
    BY <1>1, <2>1 DEF TargetsOK
  <2>4. QED
    BY <2>1, <2>2, <2>3, LocksKept
<1>2. ASSUME NEW I \in SUBSET Identifier, RegisterCheck(r, I)
      PROVE  LocksInv'
  BY <1>1, <1>2 DEF RegisterCheck
<1>3. ASSUME NEW c \in Customer, VerifyFind(r, c)
      PROVE  LocksInv'
  BY <1>1, <1>3 DEF VerifyFind
<1>4. ASSUME NEW c \in Customer, LoginRead(r, c)
      PROVE  LocksInv'
  BY <1>1, <1>4 DEF LoginRead
<1>5. ASSUME NEW c \in Customer, UpdateMeBegin(r, c)
      PROVE  LocksInv'
  BY <1>1, <1>5 DEF UpdateMeBegin
<1>6. ASSUME NEW c \in Customer, ForgotRead(r, c)
      PROVE  LocksInv'
  BY <1>1, <1>6 DEF ForgotRead
<1>7. ASSUME NEW c \in Customer, ResetFind(r, c)
      PROVE  LocksInv'
  <2> DEFINE l == [Idle EXCEPT !.op = "reset", !.customer = c, !.purpose = "password_reset"]
  <2>1. Enter(r, "resetHash", l) /\ l.op = "reset"
    BY <1>7 DEF ResetFind, Idle
  <2> HIDE DEF l
  <2>2. QED
    BY <1>1, <2>1
<1>8. ASSUME NEW s \in Session, LogoutFind(r, s)
      PROVE  LocksInv'
  BY <1>1, <1>8 DEF LogoutFind
<1>9. QED
  BY <1>2, <1>3, <1>4, <1>5, <1>6, <1>7, <1>8 DEF Start

LEMMA LocksStep ==
  ASSUME IInv, LocksInv, [Next]_vars
  PROVE  LocksInv'
<1>1. DbInv /\ MovesInv
  BY DEF IInv
<1>2. ASSUME NEW r \in Req, Abort(r)
      PROVE  LocksInv'
  BY <1>1, <1>2, LocksReleased, RollbackEffect DEF Abort, RollbackTx
<1>3. ASSUME UNCHANGED <<holder, pc, loc>>, \A k \in Code : db'[k] = db[k]
      PROVE  LocksInv'
  BY <1>3 DEF LocksInv, TargetsOK, MayHold
<1>4. ASSUME NEW k \in Code, Expire(k)
      PROVE  LocksInv'
  BY <1>3, <1>4 DEF Expire, dbState
<1>5. ASSUME NEW c \in Customer, Disable(c)
      PROVE  LocksInv'
  <2>1. \A k \in Code : db'[k] = db[k]
    BY <1>1, <1>5, RowsApart DEF Disable, DbInv
  <2>2. QED
    BY <1>3, <1>5, <2>1 DEF Disable
<1>6. CASE UNCHANGED vars
  BY <1>3, <1>6 DEF vars, dbState
<1>7. QED
  BY <1>2, <1>4, <1>5, <1>6, StartLocks, ContinueLocks DEF Next

LEMMA LocksInit == Init => LocksInv
<1>1. None \notin Req
  BY RowsApart
<1>2. QED
  BY <1>1 DEF Init, InitDb, LocksInv, TargetsOK

(* Four kinds of rows, each waited for by requests that nobody waits for   *)
(* who waits for a later kind: index entries and codes of sign-up, the     *)
(* account, codes of a reset, sessions.                                    *)
LEMMA NoCircle ==
  ASSUME IInv, LocksInv
  PROVE  NoCircularWait
<1> DEFINE served == {r \in Req : pc[r] # "idle"}
<1> SUFFICES ASSUME NEW S \in (SUBSET served) \ {{}}
             PROVE  \E r \in S : \A q \in Req : Waits(r, q) => q \in served \ S
  BY DEF NoCircularWait
<1> DEFINE First(r)  == pc[r] = "register" \/ (pc[r] = "consumeCodes" /\ loc[r].op = "verify")
           Second(r) == pc[r] \in {"markVerified", "rehash", "resetHash", "profile"}
           Third(r)  == pc[r] = "consumeCodes" /\ loc[r].op # "verify"
           Fourth(r) == pc[r] \in {"logout", "revokeSessions"}
<1>1. ASSUME NEW r \in Req
      PROVE  /\ pc[r] = "register" => Needs(r) \subseteq {Key(i) : i \in Identifier}
             /\ pc[r] = "consumeCodes" =>
                  \A k \in Needs(r) :
                    /\ k \in Code
                    /\ db[k].purpose = IF loc[r].op = "verify" THEN "verify_account"
                                       ELSE "password_reset"
             /\ Second(r) => Needs(r) \subseteq Customer
             /\ Fourth(r) => Needs(r) \subseteq Session
             /\ ~(First(r) \/ Second(r) \/ Third(r) \/ Fourth(r)) => Needs(r) = {}
  <2>1. loc[r] \in Local /\ LocOK(r) /\ TargetsOK(r)
    BY DEF IInv, RestInv, Progress, LocksInv
  <2>2. ASSUME pc[r] = "register"
        PROVE  Needs(r) \subseteq {Key(i) : i \in Identifier}
    BY <2>1, <2>2 DEF Needs, Local
  <2>3. ASSUME pc[r] = "consumeCodes"
        PROVE  \A k \in Needs(r) :
                 /\ k \in Code
                 /\ db[k].purpose = IF loc[r].op = "verify" THEN "verify_account"
                                    ELSE "password_reset"
    <3>1. Needs(r) = loc[r].targets
      BY <2>3 DEF Needs
    <3>2. loc[r].purpose = IF loc[r].op = "verify" THEN "verify_account"
                           ELSE "password_reset"
      BY <2>1, <2>3 DEF LocOK
    <3>3. QED
      BY <2>1, <2>3, <3>1, <3>2 DEF TargetsOK
  <2>4. ASSUME Second(r)
        PROVE  Needs(r) \subseteq Customer
    BY <2>1, <2>4 DEF Needs, LocOK, OnCustomer
  <2>5. ASSUME Fourth(r)
        PROVE  Needs(r) \subseteq Session
    <3>1. CASE pc[r] = "logout"
      BY <2>1, <3>1 DEF Needs, LocOK
    <3>2. CASE pc[r] = "revokeSessions"
      BY <2>1, <3>2 DEF Needs, TargetsOK
    <3>3. QED
      BY <2>5, <3>1, <3>2
  <2>6. ASSUME ~(First(r) \/ Second(r) \/ Third(r) \/ Fourth(r))
        PROVE  Needs(r) = {}
    BY <2>6 DEF Needs
  <2>7. QED
    BY <2>2, <2>3, <2>4, <2>5, <2>6
<1>2. ASSUME NEW r \in Req, NEW q \in Req, Waits(r, q)
      PROVE  /\ pc[q] # "idle"
             /\ First(r) => ~First(q)
             /\ Second(r) => ~(First(q) \/ Second(q))
             /\ Third(r) => ~(First(q) \/ Second(q) \/ Third(q))
             /\ Fourth(r) => ~(First(q) \/ Second(q) \/ Third(q) \/ Fourth(q))
             /\ First(r) \/ Second(r) \/ Third(r) \/ Fourth(r)
  <2>1. PICK x \in Needs(r) : holder[x] = q
    BY <1>2 DEF Waits
  <2>2. First(r) \/ Second(r) \/ Third(r) \/ Fourth(r)
    BY <1>1, <2>1
  <2>3. x \in Row
    BY <1>1, <2>1, <2>2, RowsApart
  <2>4. MayHold(x, pc[q], loc[q].op, db[x])
    BY <2>1, <2>3 DEF LocksInv
  <2>5. CASE pc[r] = "register"
    BY <1>1, <2>1, <2>4, <2>5, RowsApart DEF MayHold
  <2>6. CASE pc[r] = "consumeCodes"
    BY <1>1, <2>1, <2>4, <2>6, RowsApart DEF MayHold
  <2>7. CASE Second(r)
    BY <1>1, <2>1, <2>4, <2>7, RowsApart DEF MayHold
  <2>8. CASE Fourth(r)
    BY <1>1, <2>1, <2>4, <2>8, RowsApart DEF MayHold
  <2>9. QED
    BY <2>2, <2>5, <2>6, <2>7, <2>8
<1>3. S \subseteq Req /\ S # {}
  OBVIOUS
<1> HIDE DEF First, Second, Third, Fourth
<1>4. CASE \E r \in S : ~(First(r) \/ Second(r) \/ Third(r) \/ Fourth(r))
  BY <1>2, <1>3, <1>4
<1>5. CASE /\ \A r \in S : First(r) \/ Second(r) \/ Third(r) \/ Fourth(r)
           /\ \E r \in S : Fourth(r)
  BY <1>2, <1>3, <1>5
<1>6. CASE /\ \A r \in S : First(r) \/ Second(r) \/ Third(r)
           /\ \E r \in S : Third(r)
  BY <1>2, <1>3, <1>6
<1>7. CASE /\ \A r \in S : First(r) \/ Second(r)
           /\ \E r \in S : Second(r)
  BY <1>2, <1>3, <1>7
<1>8. CASE \A r \in S : First(r)
  BY <1>2, <1>3, <1>8
<1>9. QED
  BY <1>3, <1>4, <1>5, <1>6, <1>7, <1>8

(* However many requests are served, they never wait for each other in a   *)
(* circle, although a verification and a reset lock an account and its     *)
(* codes in opposite orders.                                               *)
THEOREM WaitsAreNoCircle == Spec => []NoCircularWait
<1>1. IInv /\ LocksInv => NoCircularWait
  BY NoCircle
<1>2. IInv /\ LocksInv /\ [Next]_vars => LocksInv'
  BY LocksStep
<1>3. QED
  BY <1>1, <1>2, LocksInit, CustomersInvariant, PTL DEF Spec
=============================================================================
