----------------------------- MODULE RolesProofs -----------------------------
(***************************************************************************)
(* Safety of Roles for any number of concurrent requests, roles and        *)
(* members: types, that a deleted role does not come back, and the rules   *)
(* of members and roles when requests are served one at a time.            *)
(***************************************************************************)
EXTENDS Roles, FiniteSetTheorems, TLAPS

-----------------------------------------------------------------------------
(* Rows.                                                                   *)

LEMMA RowsApart ==
  /\ \A u \in User : Member(u) \notin Role /\ Member(u) \in Row
  /\ \A n \in Name : NameKey(n) \notin Role /\ NameKey(n) \in Row
  /\ \A ro \in Role, p \in Perm : Grant(ro, p) \notin Role /\ Grant(ro, p) \in Row
  /\ \A u \in User, n \in Name : Member(u) # NameKey(n)
  /\ \A u \in User, ro \in Role, p \in Perm : Member(u) # Grant(ro, p)
  /\ \A n \in Name, ro \in Role, p \in Perm : NameKey(n) # Grant(ro, p)
  /\ \A u, v \in User : Member(u) = Member(v) => u = v
  /\ None \notin Req \cup User \cup RoleId \cup Name
  /\ Owner \notin Role /\ Manager \notin Role
  /\ Role \subseteq Row
BY RolesAssumption, KeysAssumption DEF Row, Member, NameKey, Grant

(* A role once deleted is deleted.                                         *)
RolesMove(before, after) ==
  \A ro \in Role : before[ro].st = "deleted" => after[ro].st = "deleted"

(* A role that is there has a name.                                        *)
RoleOK(row) == row \in RoleRow /\ (row.st = "live" => row.name \in Name)

RowsOK(t) ==
  /\ \A ro \in Role : RoleOK(t[ro])
  /\ \A u \in User : t[Member(u)] \in RoleId
  /\ \A n \in Name : t[NameKey(n)] \in Role \cup {None}
  /\ \A ro \in Role, p \in Perm : t[Grant(ro, p)] \in Nat

DbInv ==
  /\ DOMAIN db = Row /\ DOMAIN dirty = Row
  /\ RowsOK(db) /\ RowsOK(dirty)
  /\ RolesMove(db, dirty)
  /\ holder \in [Row -> Req \cup {None}]
  /\ \A x \in Row : holder[x] = None => dirty[x] = db[x]

KeepsDb == RolesMove(db, db')

LEMMA ViewTypes ==
  ASSUME DbInv, NEW r \in Req
  PROVE  RowsOK(View(r)) /\ DOMAIN View(r) = Row
BY RowsApart DEF DbInv, View, RowsOK

(* What a statement may write.                                             *)
Lawful(r, new) ==
  /\ DOMAIN new \subseteq Row
  /\ \A ro \in DOMAIN new \cap Role :
       RoleOK(new[ro]) /\ (View(r)[ro].st = "deleted" => new[ro].st = "deleted")
  /\ \A u \in User : Member(u) \in DOMAIN new => new[Member(u)] \in RoleId
  /\ \A n \in Name : NameKey(n) \in DOMAIN new => new[NameKey(n)] \in Role \cup {None}
  /\ \A ro \in Role, p \in Perm : Grant(ro, p) \in DOMAIN new => new[Grant(ro, p)] \in Nat

LEMMA WriteEffect ==
  ASSUME DbInv, NEW r \in Req, NEW new, Write(r, new), Lawful(r, new)
  PROVE  /\ DbInv' /\ KeepsDb /\ db' = db
         /\ \A x \in Row : View(r)'[x] = IF x \in DOMAIN new THEN new[x] ELSE View(r)[x]
         /\ \A x \in Row : holder'[x] \in {r, holder[x]}
<1>1. /\ db' = db /\ DOMAIN dirty' = Row
      /\ \A x \in Row : dirty'[x] = IF x \in DOMAIN new THEN new[x] ELSE dirty[x]
      /\ \A x \in Row : holder'[x] = IF x \in DOMAIN new THEN r ELSE holder[x]
      /\ \A x \in DOMAIN new : x \in Row /\ holder[x] \in {r, None}
      /\ None \notin Req
  BY RowsApart DEF Write, Unlocked, Lawful
<1>2. \A x \in DOMAIN new : View(r)[x] = dirty[x] /\ View(r)'[x] = new[x]
  BY <1>1 DEF View, DbInv
<1>3. \A x \in Row : View(r)'[x] = IF x \in DOMAIN new THEN new[x] ELSE View(r)[x]
  BY <1>1, <1>2 DEF View
<1>4. RowsOK(dirty')
  BY <1>1, RowsApart DEF RowsOK, DbInv, Lawful
<1>5. RolesMove(db', dirty')
  BY <1>1, <1>2, RowsApart DEF DbInv, RolesMove, Lawful
<1>6. DbInv'
  <2>1. holder' \in [Row -> Req \cup {None}]
    BY DEF Write, DbInv
  <2>2. \A x \in Row : holder'[x] = None => dirty'[x] = db'[x]
    BY <1>1 DEF DbInv
  <2>3. QED
    BY <1>1, <1>4, <1>5, <2>1, <2>2 DEF DbInv, RowsOK, RolesMove
<1>7. KeepsDb
  BY <1>1 DEF KeepsDb, RolesMove
<1>8. QED
  BY <1>1, <1>3, <1>6, <1>7

LEMMA CommitEffect ==
  ASSUME DbInv, NEW r \in Req, CommitTx(r)
  PROVE  DbInv' /\ KeepsDb /\ db' = View(r) /\ Release(r)
<1>1. /\ db' = View(r) /\ dirty' = dirty
      /\ \A x \in Row : holder'[x] = IF holder[x] = r THEN None ELSE holder[x]
      /\ \A x \in Row : db'[x] = IF holder[x] = r THEN dirty[x] ELSE db[x]
      /\ None \notin Req
  BY RowsApart DEF CommitTx, Release, View
<1>2. KeepsDb /\ RolesMove(db', dirty')
  BY <1>1, RowsApart DEF KeepsDb, DbInv, RolesMove
<1>3. holder' \in [Row -> Req \cup {None}]
  BY DEF CommitTx, Release, DbInv
<1>4. \A x \in Row : holder'[x] = None => dirty'[x] = db'[x]
  BY <1>1 DEF DbInv
<1>5. DbInv'
  BY <1>1, <1>2, <1>3, <1>4, ViewTypes DEF DbInv, RowsOK, RolesMove
<1>6. QED
  BY <1>1, <1>2, <1>5 DEF CommitTx

LEMMA RollbackEffect ==
  ASSUME DbInv, NEW r \in Req, RollbackTx(r)
  PROVE  DbInv' /\ KeepsDb /\ db' = db /\ Release(r)
<1>1. /\ db' = db /\ DOMAIN dirty' = Row
      /\ \A x \in Row : dirty'[x] = IF holder[x] = r THEN db[x] ELSE dirty[x]
      /\ \A x \in Row : holder'[x] = IF holder[x] = r THEN None ELSE holder[x]
      /\ None \notin Req
  BY RowsApart DEF RollbackTx, Release
<1>2. RowsOK(dirty')
  BY <1>1, RowsApart DEF DbInv, RowsOK
<1>3. KeepsDb /\ RolesMove(db', dirty')
  BY <1>1, RowsApart DEF DbInv, KeepsDb, RolesMove
<1>4. holder' \in [Row -> Req \cup {None}]
  BY DEF RollbackTx, Release, DbInv
<1>5. \A x \in Row : holder'[x] = None => dirty'[x] = db'[x]
  BY <1>1 DEF DbInv
<1>6. DbInv'
  BY <1>1, <1>2, <1>3, <1>4, <1>5 DEF DbInv, RowsOK, RolesMove
<1>7. QED
  BY <1>1, <1>3, <1>6 DEF RollbackTx

LEMMA Stutter ==
  ASSUME DbInv, UNCHANGED dbState
  PROVE  /\ DbInv' /\ KeepsDb /\ db' = db /\ holder' = holder
         /\ \A q \in Req : View(q)' = View(q)
<1>1. db' = db /\ holder' = holder /\ dirty' = dirty
  BY DEF dbState
<1>2. \A q \in Req : View(q)' = View(q)
  BY <1>1 DEF View
<1>3. DbInv' /\ KeepsDb
  BY <1>1 DEF DbInv, KeepsDb, RowsOK, RolesMove
<1>4. QED
  BY <1>1, <1>2, <1>3

-----------------------------------------------------------------------------
(* The invariant.                                                          *)

(* What each request's next statement needs.                               *)
LocOK(r) ==
  /\ pc[r] \in {"assignCount", "assignWrite"} =>
       loc[r].target \in User /\ loc[r].role \in RoleId
  /\ pc[r] \in {"nameCheck", "roleInsert", "rename"} => loc[r].name \in Name
  /\ \/ pc[r] \in {"rename", "grantFind", "grantDelete", "grantInsert", "deleteCount", "roleDelete"}
     \/ pc[r] = "nameCheck" /\ loc[r].op # "create"
     => loc[r].role \in Role

(* The rules, of what is committed and of what a request sees.             *)
Good(t) ==
  /\ \E u \in User : t[Member(u)] = Owner
  /\ \A u \in User : t[Member(u)] \in Role => t[t[Member(u)]].st = "live"

(* What r's checks have found, when nobody else changes it.                *)
SerialOK(r) ==
  /\ pc[r] # "idle" => Good(View(r))
  /\ pc[r] \in {"assignCount", "assignWrite"} => loc[r].role \in LiveRoles(r)
  /\ pc[r] = "assignWrite" => \E u \in User \ {loc[r].target} : View(r)[Member(u)] = Owner
  /\ pc[r] \in {"grantFind", "grantDelete", "roleDelete"} /\ loc[r].op = "delete" =>
       \A u \in User : View(r)[Member(u)] # loc[r].role
  /\ pc[r] = "deleteCount" => loc[r].op = "delete"
  /\ pc[r] = "roleDelete" => loc[r].op = "delete"
  /\ pc[r] \in {"nameCheck", "roleInsert", "rename", "grantInsert"} => loc[r].op # "delete"

RestInv ==
  /\ pc \in [Req -> PcState]
  /\ loc \in [Req -> Local]
  /\ serial \in BOOLEAN
  /\ started \in 0..MaxRequests

IdleHolds == \A r \in Req : pc[r] = "idle" => \A x \in Row : holder[x] # r

SerialInv ==
  serial =>
    /\ \A q, r \in Req : pc[q] # "idle" /\ pc[r] # "idle" => q = r
    /\ Good(db)
    /\ \A r \in Req : SerialOK(r)

IInv ==
  /\ DbInv /\ RestInv /\ IdleHolds /\ SerialInv
  /\ \A r \in Req : LocOK(r)

Others(r) == \A q \in Req \ {r} : pc'[q] = pc[q] /\ loc'[q] = loc[q]

LEMMA GoodKept ==
  ASSUME NEW t, NEW s, Good(t),
         \A u \in User : s[Member(u)] = t[Member(u)],
         \A ro \in Role : t[ro].st = "live" => s[ro].st = "live"
  PROVE  Good(s)
BY DEF Good

(* A step of r keeps the invariant if it leaves r and the rows in order.   *)
LEMMA StepInv ==
  ASSUME IInv, NEW r \in Req, DbInv', RestInv', Others(r), serial' = serial,
         \/ UNCHANGED holder /\ pc[r] = "idle"
         \/ pc'[r] # "idle" /\ \A x \in Row : holder'[x] \in {r, holder[x]}
         \/ Release(r),
         LocOK(r)',
         serial => /\ pc[r] # "idle" \/ \A q \in Req : pc[q] = "idle"
                   /\ Good(db)' /\ SerialOK(r)'
  PROVE  IInv'
<1>1. None \notin Req
  BY RowsApart
<1>2. IdleHolds'
  <2> SUFFICES ASSUME NEW q \in Req, pc'[q] = "idle", NEW x \in Row
               PROVE  holder'[x] # q
    BY DEF IdleHolds
  <2>1. CASE q = r
    BY <1>1, <2>1 DEF IInv, IdleHolds, Release
  <2>2. CASE q # r
    <3>1. holder[x] # q
      BY <2>2 DEF Others, IInv, IdleHolds
    <3>2. QED
      BY <1>1, <2>2, <3>1 DEF Release
  <2>3. QED
    BY <2>1, <2>2
<1>3. ASSUME NEW q \in Req
      PROVE  LocOK(q)'
  <2>1. CASE q # r
    <3>1. pc'[q] = pc[q] /\ loc'[q] = loc[q] /\ LocOK(q)
      BY <2>1 DEF Others, IInv
    <3>2. QED
      BY <3>1 DEF LocOK
  <2>2. QED
    BY <2>1
<1>4. SerialInv'
  <2> SUFFICES ASSUME serial PROVE SerialInv'
    BY DEF SerialInv
  <2>1. \A q \in Req \ {r} : pc[q] = "idle" /\ pc'[q] = "idle"
    BY DEF IInv, SerialInv, Others
  <2>2. \A q \in Req \ {r} : SerialOK(q)'
    BY <2>1 DEF SerialOK
  <2>3. \A q, p \in Req : pc'[q] # "idle" /\ pc'[p] # "idle" => q = p
    BY <2>1
  <2>4. QED
    BY <2>2, <2>3 DEF SerialInv
<1>5. QED
  BY <1>2, <1>3, <1>4 DEF IInv

LEMMA RestOK ==
  ASSUME RestInv, NEW r \in Req, NEW to \in PcState, pc' = [pc EXCEPT ![r] = to],
         UNCHANGED <<loc, serial, started>>
  PROVE  RestInv' /\ Others(r) /\ pc'[r] = to /\ loc'[r] = loc[r]
BY DEF RestInv, Others

LEMMA IdleLocal == Idle \in Local
BY DEF Idle, Local, Out

(* A request that ends.                                                    *)
LEMMA EndInv ==
  ASSUME IInv, NEW r \in Req, pc[r] # "idle", pc' = [pc EXCEPT ![r] = "idle"],
         loc' = [loc EXCEPT ![r] = Idle], UNCHANGED <<serial, started>>,
         RollbackTx(r) \/ CommitTx(r)
  PROVE  IInv'
<1>1. DbInv' /\ Release(r)
  BY CommitEffect, RollbackEffect DEF IInv
<1>2. RestInv' /\ Others(r) /\ pc'[r] = "idle"
  BY IdleLocal DEF IInv, RestInv, Others, PcState
<1>3. serial => Good(db)'
  BY CommitEffect, RollbackEffect DEF IInv, SerialInv, SerialOK, Good
<1>4. LocOK(r)' /\ SerialOK(r)'
  BY <1>2 DEF LocOK, SerialOK
<1>5. QED
  BY <1>1, <1>2, <1>3, <1>4, StepInv

LEMMA RefuseInv ==
  ASSUME IInv, NEW r \in Req, NEW from, Refuse(r, from), from # "idle"
  PROVE  IInv'
BY EndInv DEF Refuse, Go

(* A statement that writes.                                                *)
LEMMA WriteInv ==
  ASSUME IInv, NEW r \in Req, NEW from, NEW to \in PcState, NEW new, Go(r, from, to),
         Write(r, new), Lawful(r, new), UNCHANGED <<loc, serial, started>>,
         from # "idle", to # "idle",
         /\ pc[r] = from /\ pc'[r] = to /\ loc'[r] = loc[r]
         /\ \A x \in Row : View(r)'[x] = IF x \in DOMAIN new THEN new[x] ELSE View(r)[x]
         => LocOK(r)' /\ (serial => SerialOK(r)')
  PROVE  IInv'
<1>1. /\ DbInv' /\ db' = db
      /\ \A x \in Row : View(r)'[x] = IF x \in DOMAIN new THEN new[x] ELSE View(r)[x]
      /\ \A x \in Row : holder'[x] \in {r, holder[x]}
  BY WriteEffect DEF IInv
<1>2. RestInv' /\ Others(r) /\ pc[r] = from /\ pc'[r] = to /\ loc'[r] = loc[r] /\ serial' = serial
  BY RestOK DEF IInv, Go
<1>3. LocOK(r)' /\ (serial => SerialOK(r)')
  BY <1>1, <1>2
<1>4. serial => Good(db)'
  BY <1>1 DEF IInv, SerialInv, Good
<1>5. QED
  BY <1>1, <1>2, <1>3, <1>4, StepInv

(* A check that is passed.                                                 *)
LEMMA PassInv ==
  ASSUME IInv, NEW r \in Req, NEW from, NEW to \in PcState, Go(r, from, to),
         UNCHANGED <<dbState, loc, serial, started>>,
         from # "idle", to # "idle",
         View(r)' = View(r) /\ pc[r] = from /\ pc'[r] = to /\ loc'[r] = loc[r] =>
           LocOK(r)' /\ (serial => SerialOK(r)')
  PROVE  IInv'
<1>1. /\ DbInv' /\ db' = db /\ holder' = holder /\ View(r)' = View(r)
  BY Stutter DEF IInv
<1>2. RestInv' /\ Others(r) /\ pc[r] = from /\ pc'[r] = to /\ loc'[r] = loc[r] /\ serial' = serial
  BY RestOK DEF IInv, Go
<1>3. serial => Good(db)'
  BY <1>1 DEF IInv, SerialInv, Good
<1>4. QED
  BY <1>1, <1>2, <1>3, StepInv

-----------------------------------------------------------------------------
(* A request that begins.                                                  *)
LEMMA EnterInv ==
  ASSUME IInv, NEW r \in Req, NEW to \in PcState, NEW l \in Local, Enter(r, to, l),
         to # "idle",
         /\ View(r)' = View(r) /\ pc'[r] = to /\ loc'[r] = [l EXCEPT !.nr = started + 1]
         /\ serial => Good(View(r))
         => LocOK(r)' /\ (serial => SerialOK(r)')
  PROVE  IInv'
<1>1. /\ DbInv' /\ db' = db /\ holder' = holder /\ View(r)' = View(r)
  BY Stutter DEF IInv, Enter
<1>2. pc[r] = "idle" /\ pc' = [pc EXCEPT ![r] = to] /\ started \in Nat
  BY DEF Enter, Go, IInv, RestInv
<1>3. [l EXCEPT !.nr = started + 1] \in Local
  <2>1. \A n \in Nat : [l EXCEPT !.nr = n] \in Local
    BY DEF Local
  <2>2. QED
    BY <1>2, <2>1
<1>4. RestInv' /\ Others(r) /\ pc'[r] = to /\ loc'[r] = [l EXCEPT !.nr = started + 1]
  <2> DEFINE k == [l EXCEPT !.nr = started + 1]
  <2>1. k \in Local /\ loc' = [loc EXCEPT ![r] = k] /\ serial' = serial
        /\ started' = started + 1 /\ started < MaxRequests
    BY <1>3 DEF Enter
  <2> HIDE DEF k
  <2>2. started' \in 0..MaxRequests
    BY <1>2, <2>1, RolesAssumption
  <2>3. RestInv' /\ Others(r) /\ pc'[r] = to /\ loc'[r] = k
    BY <1>2, <2>1, <2>2 DEF IInv, RestInv, Others
  <2>4. QED
    BY <2>3 DEF k
<1>5. serial => Good(db) /\ Good(View(r))
  <2>1. \A x \in Row : View(r)[x] = db[x]
    BY <1>2 DEF IInv, IdleHolds, View
  <2>2. serial => Good(db)
    BY DEF IInv, SerialInv
  <2>3. QED
    BY <2>1, <2>2, GoodKept, RowsApart
<1>6. serial => Good(db)' /\ \A q \in Req : pc[q] = "idle"
  BY <1>1, <1>5 DEF Good, Enter
<1>7. LocOK(r)' /\ (serial => SerialOK(r)')
  BY <1>1, <1>4, <1>5
<1>8. serial' = serial
  BY DEF Enter
<1>9. QED
  BY <1>1, <1>2, <1>4, <1>6, <1>7, <1>8, StepInv

(* Whatever is asked.                                                      *)
LEMMA StartInv ==
  ASSUME IInv, NEW r \in Req, Start(r)
  PROVE  IInv'
<1>1. ASSUME NEW u \in User, NEW v \in User, NEW ro \in RoleId, AssignRole(r, u, v, ro)
      PROVE  IInv'
  <2> DEFINE l == [Idle EXCEPT !.op = "assign", !.target = v, !.role = ro]
  <2>1. l \in Local /\ \A n : [l EXCEPT !.nr = n].target = v /\ [l EXCEPT !.nr = n].role = ro
    BY IdleLocal DEF Local, Idle
  <2>2. /\ ro \in LiveRoles(r)
        /\ \/ Enter(r, "assignCount", l)
           \/ Enter(r, "assignWrite", l) /\ View(r)[Member(v)] # Owner
    BY <1>1 DEF AssignRole, RoleOf
  <2> HIDE DEF l
  <2>3. CASE Enter(r, "assignCount", l)
    BY <2>1, <2>2, <2>3, EnterInv DEF PcState, LocOK, SerialOK, LiveRoles
  <2>4. CASE Enter(r, "assignWrite", l) /\ View(r)[Member(v)] # Owner
    <3>1. Good(View(r)) => \E w \in User \ {v} : View(r)[Member(w)] = Owner
      BY <2>4 DEF Good
    <3>2. QED
      BY <2>1, <2>2, <2>4, <3>1, EnterInv DEF PcState, LocOK, SerialOK, LiveRoles
  <2>5. QED
    BY <2>2, <2>3, <2>4
<1>2. ASSUME NEW u \in User, NEW n \in Name, NEW G \in SUBSET Perm, CreateRole(r, u, n, G)
      PROVE  IInv'
  <2> DEFINE l == [Idle EXCEPT !.op = "create", !.name = n, !.grants = G]
  <2>1. l \in Local /\ \A m : [l EXCEPT !.nr = m].name = n /\ [l EXCEPT !.nr = m].op = "create"
    BY IdleLocal DEF Local, Idle
  <2>2. Enter(r, "nameCheck", l)
    BY <1>2 DEF CreateRole
  <2> HIDE DEF l
  <2>3. QED
    BY <2>1, <2>2, EnterInv DEF PcState, LocOK, SerialOK
<1>3. ASSUME NEW u \in User, NEW ro \in Role, NEW n \in Name, NEW G \in SUBSET Perm,
             UpdateRole(r, u, ro, n, G)
      PROVE  IInv'
  <2> DEFINE l == [Idle EXCEPT !.op = "update", !.role = ro, !.name = n, !.grants = G]
  <2>0. ro \in RoleId
    BY DEF RoleId
  <2>1. l \in Local /\ \A m : /\ [l EXCEPT !.nr = m].name = n
                              /\ [l EXCEPT !.nr = m].op = "update"
                              /\ [l EXCEPT !.nr = m].role = ro
    BY <2>0, IdleLocal DEF Local, Idle
  <2>2. Enter(r, "nameCheck", l) \/ Enter(r, "grantFind", l)
    BY <1>3 DEF UpdateRole
  <2> HIDE DEF l
  <2>3. CASE Enter(r, "nameCheck", l)
    BY <2>1, <2>3, EnterInv DEF PcState, LocOK, SerialOK
  <2>4. CASE Enter(r, "grantFind", l)
    BY <2>1, <2>4, EnterInv DEF PcState, LocOK, SerialOK
  <2>5. QED
    BY <2>2, <2>3, <2>4
<1>4. ASSUME NEW u \in User, NEW ro \in Role, DeleteRole(r, u, ro)
      PROVE  IInv'
  <2> DEFINE l == [Idle EXCEPT !.op = "delete", !.role = ro]
  <2>0. ro \in RoleId
    BY DEF RoleId
  <2>1. l \in Local /\ \A m : [l EXCEPT !.nr = m].op = "delete" /\ [l EXCEPT !.nr = m].role = ro
    BY <2>0, IdleLocal DEF Local, Idle
  <2>2. Enter(r, "deleteCount", l)
    BY <1>4 DEF DeleteRole
  <2> HIDE DEF l
  <2>3. QED
    BY <2>1, <2>2, EnterInv DEF PcState, LocOK, SerialOK
<1>5. QED
  BY <1>1, <1>2, <1>3, <1>4 DEF Start

-----------------------------------------------------------------------------
(* The steps of a request that has begun.                                  *)

(* Where a request is, and what it has found there.                        *)
LEMMA Facts ==
  ASSUME IInv, NEW r \in Req
  PROVE  /\ LocOK(r) /\ (serial => SerialOK(r)) /\ RowsOK(View(r)) /\ loc[r] \in Local
         /\ loc[r].nr \in Nat /\ loc[r].grants \in SUBSET Perm
BY ViewTypes DEF IInv, SerialInv, RestInv, Local

(* More than one Owner: another than the one asked.                        *)
LEMMA Another ==
  ASSUME NEW S, NEW b, Cardinality(S) > 1
  PROVE  \E d \in S : d # b
<1> SUFFICES ASSUME \A d \in S : d = b PROVE FALSE
  OBVIOUS
<1>1. S = {} \/ S = {b}
  OBVIOUS
<1>2. Cardinality({}) = 0 /\ Cardinality({b}) = 1
  BY FS_EmptySet, FS_Singleton
<1>3. QED
  BY <1>1, <1>2

LEMMA AssignCountInv ==
  ASSUME IInv, NEW r \in Req, AssignCount(r)
  PROVE  IInv'
<1>1. CASE Refuse(r, "assignCount")
  BY <1>1, RefuseInv
<1>2. CASE CountByRole(r, Owner) > 1 /\ Pass(r, "assignCount", "assignWrite")
  <2>1. \E u \in {v \in User : View(r)[Member(v)] = Owner} : u # loc[r].target
    BY <1>2, Another DEF CountByRole
  <2>2. \E u \in User \ {loc[r].target} : View(r)[Member(u)] = Owner
    BY <2>1
  <2>3. pc[r] = "assignCount"
    BY <1>2 DEF Pass, Go
  <2>4. QED
    BY <1>2, <2>2, <2>3, Facts, PassInv DEF Pass, PcState, LocOK, SerialOK, LiveRoles
<1>3. QED
  BY <1>1, <1>2 DEF AssignCount

LEMMA AssignWriteInv ==
  ASSUME IInv, NEW r \in Req, AssignWrite(r)
  PROVE  IInv'
<1> DEFINE v == loc[r].target
           ro == loc[r].role
           m == Member(v)
           new == [x \in {m} |-> ro]
<1>1. /\ pc[r] = "assignWrite" /\ v \in User /\ ro \in RoleId
      /\ serial => SerialOK(r)
      /\ Go(r, "assignWrite", "commit") /\ Write(r, new) /\ UNCHANGED <<loc, serial, started>>
  BY Facts DEF AssignWrite, Go, LocOK
<1>2. DOMAIN new = {m} /\ new[m] = ro
  OBVIOUS
<1>3. /\ m \in Row /\ m \notin Role /\ \A n \in Name : NameKey(n) # m
      /\ \A d \in Role, p \in Perm : Grant(d, p) # m
      /\ \A u \in User : Member(u) = m <=> u = v
  BY <1>1, RowsApart
<1> HIDE DEF m, new
<1>4. Lawful(r, new)
  BY <1>1, <1>2, <1>3 DEF Lawful
<1>5. ASSUME serial, \A x \in Row : View(r)'[x] = IF x \in DOMAIN new THEN new[x] ELSE View(r)[x]
      PROVE  Good(View(r)')
  <2>1. /\ \A u \in User \ {v} : View(r)'[Member(u)] = View(r)[Member(u)]
        /\ View(r)'[Member(v)] = ro
        /\ \A d \in Role : View(r)'[d] = View(r)[d]
    BY <1>1, <1>2, <1>3, <1>5, RowsApart DEF m
  <2>2. Good(View(r)) /\ (ro \in Role => View(r)[ro].st = "live")
        /\ \E u \in User \ {v} : View(r)[Member(u)] = Owner
    BY <1>1, <1>5, RowsApart DEF SerialOK, LiveRoles
  <2>3. QED
    BY <1>1, <2>1, <2>2 DEF Good
<1>6. pc'[r] = "commit" => LocOK(r)'
  BY DEF LocOK
<1>7. pc'[r] = "commit" /\ Good(View(r)') => SerialOK(r)'
  BY DEF SerialOK, Good
<1>8. QED
  BY <1>1, <1>4, <1>5, <1>6, <1>7, WriteInv DEF PcState

LEMMA NameCheckInv ==
  ASSUME IInv, NEW r \in Req, NameCheck(r)
  PROVE  IInv'
<1>1. CASE Refuse(r, "nameCheck")
  BY <1>1, RefuseInv
<1>2. CASE loc[r].op = "create" /\ Pass(r, "nameCheck", "roleInsert")
  <2>1. pc[r] = "nameCheck"
    BY <1>2 DEF Pass, Go
  <2>2. QED
    BY <1>2, <2>1, Facts, PassInv DEF Pass, PcState, LocOK, SerialOK
<1>3. CASE loc[r].op # "create" /\ Pass(r, "nameCheck", "rename")
  <2>1. pc[r] = "nameCheck"
    BY <1>3 DEF Pass, Go
  <2>2. QED
    BY <1>3, <2>1, Facts, PassInv DEF Pass, PcState, LocOK, SerialOK
<1>4. QED
  BY <1>1, <1>2, <1>3 DEF NameCheck

LEMMA RoleInsertInv ==
  ASSUME IInv, NEW r \in Req, RoleInsert(r)
  PROVE  IInv'
<1> DEFINE key == NameKey(loc[r].name)
           row == [st |-> "live", name |-> loc[r].name]
<1> PICK ro \in Role :
      /\ Go(r, "roleInsert", "commit")
      /\ View(r)[ro].st = "absent"
      /\ Write(r, [x \in {ro, key} \cup {Grant(ro, p) : p \in loc[r].grants} |->
                     IF x = ro THEN row ELSE IF x[1] = "name" THEN ro ELSE loc[r].nr])
      /\ UNCHANGED <<loc, serial, started>>
  BY DEF RoleInsert
<1> DEFINE new == [x \in {ro, key} \cup {Grant(ro, p) : p \in loc[r].grants} |->
                     IF x = ro THEN row ELSE IF x[1] = "name" THEN ro ELSE loc[r].nr]
<1>1. /\ pc[r] = "roleInsert" /\ loc[r].name \in Name /\ loc[r].nr \in Nat
      /\ loc[r].grants \subseteq Perm
  BY Facts DEF Go, LocOK
<1>2. Write(r, new)
  OBVIOUS
<1>3. key[1] = "name" /\ \A p \in Perm : Grant(ro, p)[1] # "name"
  BY DEF NameKey, Grant
<1>4. DOMAIN new = {ro, key} \cup {Grant(ro, p) : p \in loc[r].grants}
  OBVIOUS
<1>5. /\ new[ro] = row /\ new[key] = ro
      /\ \A p \in loc[r].grants : new[Grant(ro, p)] = loc[r].nr
  BY <1>1, <1>3, RowsApart
<1>6. /\ DOMAIN new \subseteq Row /\ DOMAIN new \cap Role = {ro}
      /\ \A u \in User : Member(u) \notin DOMAIN new
      /\ \A n \in Name : NameKey(n) \in DOMAIN new => NameKey(n) = key
  BY <1>1, <1>4, RowsApart
<1>7. RoleOK(row) /\ row.st = "live"
  BY <1>1 DEF RoleOK, RoleRow
<1> HIDE DEF new, row
<1>8. \A d \in Role, p \in Perm : Grant(d, p) \in DOMAIN new => new[Grant(d, p)] = loc[r].nr
  <2> TAKE d \in Role, p \in Perm
  <2>1. Grant(d, p) \notin {ro, key}
    BY <1>1, RowsApart
  <2>2. QED
    BY <1>4, <1>5, <2>1
<1> HIDE DEF key
<1>9. Lawful(r, new)
  BY <1>1, <1>5, <1>6, <1>7, <1>8 DEF Lawful
<1>10. ASSUME serial, \A x \in Row : View(r)'[x] = IF x \in DOMAIN new THEN new[x] ELSE View(r)[x]
       PROVE  Good(View(r)')
  <2>1. \A u \in User : View(r)'[Member(u)] = View(r)[Member(u)]
    BY <1>6, <1>10, RowsApart
  <2>2. \A d \in Role : View(r)[d].st = "live" => View(r)'[d].st = "live"
    BY <1>5, <1>6, <1>7, <1>10, RowsApart
  <2>3. Good(View(r))
    BY <1>1, <1>10, Facts DEF SerialOK
  <2>4. QED
    BY <2>1, <2>2, <2>3, GoodKept
<1>11. pc'[r] = "commit" => LocOK(r)' /\ (Good(View(r)') => SerialOK(r)')
  BY DEF LocOK, SerialOK, Good
<1>12. QED
  BY <1>2, <1>9, <1>10, <1>11, WriteInv DEF PcState

LEMMA RenameInv ==
  ASSUME IInv, NEW r \in Req, Rename(r)
  PROVE  IInv'
<1> DEFINE ro == loc[r].role
           old == View(r)[ro]
           taken == NameKey(loc[r].name)
           left == NameKey(old.name)
           row == [st |-> "live", name |-> loc[r].name]
           new == [x \in {ro, taken, left} |-> IF x = ro THEN row ELSE IF x = taken THEN ro ELSE None]
<1>1. /\ pc[r] = "rename" /\ loc[r].name \in Name /\ ro \in Role /\ RoleOK(old)
      /\ Go(r, "rename", "grantFind") /\ UNCHANGED <<loc, serial, started>>
  BY Facts DEF Rename, Go, LocOK, RowsOK
<1>2. CASE UNCHANGED dbState
  BY <1>1, <1>2, Facts, PassInv DEF PcState, LocOK, SerialOK
<1>3. CASE old.st = "live" /\ Write(r, new)
  <2>1. old.name \in Name
    BY <1>1, <1>3 DEF RoleOK
  <2>2. /\ taken \in Row /\ left \in Row /\ taken \notin Role /\ left \notin Role
        /\ \A u \in User : Member(u) \notin {taken, left, ro}
        /\ \A d \in Role, p \in Perm : Grant(d, p) \notin {taken, left, ro}
    BY <1>1, <2>1, RowsApart
  <2>3. DOMAIN new = {ro, taken, left} /\ new[ro] = row
        /\ \A x \in {taken, left} : new[x] \in Role \cup {None}
    BY <1>1, <2>2
  <2>4. RoleOK(row) /\ row.st = "live"
    BY <1>1 DEF RoleOK, RoleRow
  <2> HIDE DEF new, row, taken, left
  <2>5. Lawful(r, new)
    BY <1>1, <1>3, <2>2, <2>3, <2>4, RowsApart DEF Lawful
  <2>6. ASSUME serial,
               \A x \in Row : View(r)'[x] = IF x \in DOMAIN new THEN new[x] ELSE View(r)[x]
        PROVE  Good(View(r)')
    <3>1. \A u \in User : View(r)'[Member(u)] = View(r)[Member(u)]
      BY <2>2, <2>3, <2>6, RowsApart
    <3>2. \A d \in Role : View(r)[d].st = "live" => View(r)'[d].st = "live"
      BY <2>2, <2>3, <2>4, <2>6, RowsApart
    <3>3. Good(View(r))
      BY <1>1, <2>6, Facts DEF SerialOK
    <3>4. QED
      BY <3>1, <3>2, <3>3, GoodKept
  <2>7. pc'[r] = "grantFind" /\ loc'[r] = loc[r] => LocOK(r)'
    BY <1>1 DEF LocOK
  <2>8. serial /\ pc'[r] = "grantFind" /\ loc'[r] = loc[r] /\ Good(View(r)') => SerialOK(r)'
    BY <1>1, Facts DEF SerialOK, Good
  <2>9. QED
    BY <1>1, <1>3, <2>5, <2>6, <2>7, <2>8, WriteInv DEF PcState
<1>4. QED
  BY <1>2, <1>3 DEF Rename

(* replaceGrants and delete find the grants.                               *)
LEMMA GrantFindInv ==
  ASSUME IInv, NEW r \in Req, GrantFind(r)
  PROVE  IInv'
<1> DEFINE f == [p \in Perm |-> View(r)[Grant(loc[r].role, p)]]
           l == [loc[r] EXCEPT !.found = f]
<1>1. DbInv' /\ db' = db /\ holder' = holder /\ View(r)' = View(r)
  BY Stutter DEF IInv, GrantFind
<1>2. /\ pc[r] = "grantFind" /\ pc' = [pc EXCEPT ![r] = "grantDelete"]
      /\ loc[r].role \in Role /\ loc[r] \in Local /\ RowsOK(View(r))
      /\ serial => SerialOK(r)
  BY Facts DEF GrantFind, Go, LocOK
<1>3. f \in [Perm -> Nat]
  BY <1>2 DEF RowsOK
<1> HIDE DEF f
<1>4. l \in Local /\ l.role = loc[r].role /\ l.op = loc[r].op
  BY <1>2, <1>3 DEF Local
<1>5. loc' = [loc EXCEPT ![r] = l] /\ UNCHANGED <<serial, started>>
  BY DEF GrantFind, f
<1> HIDE DEF l
<1>6. RestInv' /\ Others(r) /\ pc'[r] = "grantDelete" /\ loc'[r] = l
  BY <1>2, <1>4, <1>5 DEF IInv, RestInv, Others, PcState
<1>7. LocOK(r)'
  BY <1>2, <1>4, <1>6 DEF LocOK
<1>8. serial => Good(db)' /\ SerialOK(r)'
  BY <1>1, <1>2, <1>4, <1>6 DEF IInv, SerialInv, SerialOK, Good
<1>9. QED
  BY <1>1, <1>2, <1>5, <1>6, <1>7, <1>8, StepInv

(* Grants written, which no rule is about.                                 *)
LEMMA GrantRowsInv ==
  ASSUME IInv, NEW r \in Req, NEW from \in {"grantDelete", "grantInsert"}, NEW S \in SUBSET Perm,
         NEW to \in {"roleDelete", "commit", "grantInsert"},
         NEW n \in Nat, Go(r, from, to), loc[r].role \in Role,
         Write(r, [x \in {Grant(loc[r].role, p) : p \in S} |-> n]),
         UNCHANGED <<loc, serial, started>>,
         to = "roleDelete" => loc[r].op = "delete" /\ from = "grantDelete",
         to = "grantInsert" => loc[r].op # "delete"
  PROVE  IInv'
<1> DEFINE new == [x \in {Grant(loc[r].role, p) : p \in S} |-> n]
<1>1. /\ DOMAIN new \subseteq Row /\ DOMAIN new \cap Role = {}
      /\ \A u \in User : Member(u) \notin DOMAIN new
      /\ \A k \in Name : NameKey(k) \notin DOMAIN new
      /\ \A x \in DOMAIN new : new[x] \in Nat
  BY RowsApart
<1>2. Write(r, new)
  OBVIOUS
<1> HIDE DEF new
<1>3. Lawful(r, new)
  BY <1>1 DEF Lawful
<1>4. pc[r] = from
  BY DEF Go
<1>5. ASSUME serial, \A x \in Row : View(r)'[x] = IF x \in DOMAIN new THEN new[x] ELSE View(r)[x],
             pc'[r] = to, loc'[r] = loc[r]
      PROVE  SerialOK(r)'
  <2>1. \A u \in User : View(r)'[Member(u)] = View(r)[Member(u)]
    BY <1>1, <1>5, RowsApart
  <2>2. \A d \in Role : View(r)'[d] = View(r)[d]
    BY <1>1, <1>5, RowsApart
  <2>3. SerialOK(r) /\ Good(View(r))
    BY <1>4, <1>5, Facts DEF SerialOK
  <2>4. Good(View(r)')
    BY <2>1, <2>2, <2>3, GoodKept
  <2>5. to = "roleDelete" => \A u \in User : View(r)'[Member(u)] # loc[r].role
    BY <1>4, <2>1, <2>3 DEF SerialOK
  <2>6. QED
    BY <1>5, <2>4, <2>5 DEF SerialOK, Good
<1>6. pc'[r] = to /\ loc'[r] = loc[r] => LocOK(r)'
  BY DEF LocOK
<1>7. QED
  BY <1>2, <1>3, <1>5, <1>6, WriteInv DEF PcState

LEMMA GrantDeleteInv ==
  ASSUME IInv, NEW r \in Req, GrantDelete(r)
  PROVE  IInv'
<1> DEFINE there == {p \in {q \in Perm : loc[r].found[q] # Out} :
                       View(r)[Grant(loc[r].role, p)] = loc[r].found[p]}
           to == AfterDelete(r)
<1>1. loc[r].role \in Role /\ there \in SUBSET Perm
  BY Facts DEF GrantDelete, Go, LocOK
<1>2. /\ Go(r, "grantDelete", to) /\ UNCHANGED <<loc, serial, started>>
      /\ Write(r, [x \in {Grant(loc[r].role, p) : p \in there} |-> Out])
  BY DEF GrantDelete
<1>3. /\ to \in {"roleDelete", "commit", "grantInsert"}
      /\ to = "roleDelete" => loc[r].op = "delete"
      /\ to = "grantInsert" => loc[r].op # "delete"
  BY DEF AfterDelete
<1>4. Out \in Nat
  BY DEF Out
<1> HIDE DEF there, to
<1>5. QED
  BY <1>1, <1>2, <1>3, <1>4, GrantRowsInv

LEMMA GrantInsertInv ==
  ASSUME IInv, NEW r \in Req, GrantInsert(r)
  PROVE  IInv'
<1>1. /\ loc[r].role \in Role /\ loc[r].grants \in SUBSET Perm /\ loc[r].nr \in Nat
      /\ Go(r, "grantInsert", "commit") /\ UNCHANGED <<loc, serial, started>>
      /\ Write(r, [x \in {Grant(loc[r].role, p) : p \in loc[r].grants} |-> loc[r].nr])
  BY Facts DEF GrantInsert, Go, LocOK
<1>2. QED
  BY <1>1, GrantRowsInv

LEMMA DeleteCountInv ==
  ASSUME IInv, NEW r \in Req, DeleteCount(r)
  PROVE  IInv'
<1>1. CASE Refuse(r, "deleteCount")
  BY <1>1, RefuseInv
<1>2. CASE CountByRole(r, loc[r].role) = 0 /\ Pass(r, "deleteCount", "grantFind")
  <2> DEFINE S == {u \in User : View(r)[Member(u)] = loc[r].role}
  <2>1. IsFiniteSet(S) /\ Cardinality(S) = 0
    <3>1. S \subseteq User /\ IsFiniteSet(User) /\ Cardinality(S) = 0
      BY <1>2, RolesAssumption DEF CountByRole
    <3> HIDE DEF S
    <3>2. QED
      BY <3>1, FS_Subset
  <2>2. S = {}
    <3> HIDE DEF S
    <3>1. QED
      BY <2>1, FS_EmptySet
  <2>3. \A u \in User : View(r)[Member(u)] # loc[r].role
    BY <2>2
  <2>4. pc[r] = "deleteCount"
    BY <1>2 DEF Pass, Go
  <2>5. QED
    BY <1>2, <2>3, <2>4, Facts, PassInv DEF Pass, PcState, LocOK, SerialOK
<1>3. QED
  BY <1>1, <1>2 DEF DeleteCount

LEMMA RoleDeleteInv ==
  ASSUME IInv, NEW r \in Req, RoleDelete(r)
  PROVE  IInv'
<1> DEFINE ro == loc[r].role
           old == View(r)[ro]
           key == NameKey(old.name)
           row == [st |-> "deleted", name |-> None]
           new == [x \in IF old.st = "live" THEN {ro, key} ELSE {} |-> IF x = ro THEN row ELSE None]
<1>1. /\ pc[r] = "roleDelete" /\ ro \in Role /\ RoleOK(old)
      /\ Go(r, "roleDelete", "commit") /\ Write(r, new) /\ UNCHANGED <<loc, serial, started>>
      /\ serial => SerialOK(r)
  BY Facts DEF RoleDelete, Go, LocOK, RowsOK
<1>2. old.st = "live" =>
        /\ key \in Row /\ key \notin Role
        /\ \A u \in User : Member(u) \notin {key, ro}
        /\ \A d \in Role, p \in Perm : Grant(d, p) \notin {key, ro}
        /\ \A n \in Name : NameKey(n) # ro
  BY <1>1, RowsApart DEF RoleOK
<1>3. /\ DOMAIN new = IF old.st = "live" THEN {ro, key} ELSE {}
      /\ \A x \in DOMAIN new : new[x] = IF x = ro THEN row ELSE None
  OBVIOUS
<1>4. RoleOK(row) /\ row.st = "deleted"
  BY DEF RoleOK, RoleRow
<1> HIDE DEF new, key, row
<1>5. Lawful(r, new)
  BY <1>1, <1>2, <1>3, <1>4, RowsApart DEF Lawful
<1>6. ASSUME serial, \A x \in Row : View(r)'[x] = IF x \in DOMAIN new THEN new[x] ELSE View(r)[x]
      PROVE  Good(View(r)')
  <2>1. \A u \in User : View(r)'[Member(u)] = View(r)[Member(u)]
    BY <1>2, <1>3, <1>6, RowsApart
  <2>2. \A d \in Role \ {ro} : View(r)'[d] = View(r)[d]
    BY <1>2, <1>3, <1>6, RowsApart
  <2>3. Good(View(r)) /\ \A u \in User : View(r)[Member(u)] # ro
    BY <1>1, <1>6 DEF SerialOK
  <2>4. QED
    BY <2>1, <2>2, <2>3 DEF Good
<1>7. pc'[r] = "commit" => LocOK(r)' /\ (Good(View(r)') => SerialOK(r)')
  BY DEF LocOK, SerialOK, Good
<1>8. QED
  BY <1>1, <1>5, <1>6, <1>7, WriteInv DEF PcState

LEMMA ContinueInv ==
  ASSUME IInv, NEW r \in Req, Continue(r)
  PROVE  IInv'
<1>1. CASE NameTaken(r)
  BY <1>1, RefuseInv DEF NameTaken
<1>2. CASE GrantThere(r)
  BY <1>2, RefuseInv DEF GrantThere
<1>3. CASE Commit(r)
  BY <1>3, EndInv DEF Commit, Go
<1>4. QED
  BY <1>1, <1>2, <1>3, AssignCountInv, AssignWriteInv, NameCheckInv, RoleInsertInv, RenameInv,
     GrantFindInv, GrantDeleteInv, GrantInsertInv, DeleteCountInv, RoleDeleteInv DEF Continue

-----------------------------------------------------------------------------
(* The theorems.                                                           *)

LEMMA InitInv == Init => IInv
<1> SUFFICES ASSUME Init PROVE IInv
  OBVIOUS
<1> PICK m \in [User -> {Owner, Manager, Seeded}] :
      /\ \E u \in User : m[u] = Owner
      /\ InitDb([x \in Row |->
            IF x = Seeded THEN [st |-> "live", name |-> SeededName]
            ELSE IF x \in Role THEN [st |-> "absent", name |-> None]
            ELSE IF x[1] = "member" THEN m[x[2]]
            ELSE IF x[1] = "grant" THEN Out
            ELSE IF x[2] = SeededName THEN Seeded ELSE None])
  BY DEF Init
<1>1. DOMAIN db = Row /\ dirty = db /\ holder = [x \in Row |-> None]
  BY DEF InitDb
<1>2. /\ \A ro \in Role : db[ro] = IF ro = Seeded THEN [st |-> "live", name |-> SeededName]
                                   ELSE [st |-> "absent", name |-> None]
      /\ \A u \in User : db[Member(u)] = m[u]
      /\ \A n \in Name : db[NameKey(n)] \in {Seeded, None}
      /\ \A ro \in Role, p \in Perm : db[Grant(ro, p)] = Out
  <2>1. Seeded \in Role
    BY RolesAssumption
  <2>2. \A ro \in Role : db[ro] = IF ro = Seeded THEN [st |-> "live", name |-> SeededName]
                                   ELSE [st |-> "absent", name |-> None]
    BY RowsApart DEF InitDb
  <2>3. \A u \in User : db[Member(u)] = m[u]
    BY <2>1, RowsApart DEF InitDb, Member
  <2>4. \A n \in Name : db[NameKey(n)] \in {Seeded, None}
    BY <2>1, RowsApart DEF InitDb, NameKey
  <2>5. ASSUME NEW ro \in Role, NEW p \in Perm
        PROVE  db[Grant(ro, p)] = Out
    <3>1. Grant(ro, p)[1] = "grant"
      BY DEF Grant
    <3>2. QED
      BY <2>1, <3>1, RowsApart DEF InitDb
  <2>6. QED
    BY <2>2, <2>3, <2>4, <2>5
<1>3. RowsOK(db)
  <2>1. \A ro \in Role : RoleOK(db[ro])
    BY <1>2, RolesAssumption DEF RoleOK, RoleRow
  <2>2. \A u \in User : m[u] \in RoleId
    BY RolesAssumption DEF RoleId
  <2>3. QED
    BY <1>2, <2>1, <2>2, RolesAssumption DEF RowsOK, Out
<1>4. DbInv
  BY <1>1, <1>3, RowsApart DEF DbInv, RolesMove
<1>5. pc = [r \in Req |-> "idle"] /\ loc = [r \in Req |-> Idle] /\ serial \in BOOLEAN /\ started = 0
  BY DEF Init
<1>6. RestInv
  BY <1>5, IdleLocal, RolesAssumption DEF RestInv, PcState
<1>7. IdleHolds
  BY <1>1, RowsApart DEF IdleHolds
<1>8. Good(db)
  BY <1>2, RowsApart DEF Good
<1>9. SerialInv /\ \A r \in Req : LocOK(r)
  BY <1>5, <1>8 DEF SerialInv, SerialOK, LocOK
<1>10. QED
  BY <1>4, <1>6, <1>7, <1>9 DEF IInv

LEMMA UnchangedInv == IInv /\ UNCHANGED vars => IInv'
<1> SUFFICES ASSUME IInv, UNCHANGED vars PROVE IInv'
  OBVIOUS
<1>1. /\ DbInv' /\ db' = db /\ holder' = holder /\ \A r \in Req : View(r)' = View(r)
      /\ pc' = pc /\ loc' = loc /\ serial' = serial /\ started' = started
  BY Stutter DEF IInv, vars
<1>2. RestInv' /\ IdleHolds'
  BY <1>1 DEF IInv, RestInv, IdleHolds
<1>3. \A r \in Req : LocOK(r)'
  BY <1>1 DEF IInv, LocOK
<1>4. SerialInv'
  BY <1>1 DEF IInv, SerialInv, SerialOK, Good, LiveRoles
<1>5. QED
  BY <1>1, <1>2, <1>3, <1>4 DEF IInv

(* A pending deletion is never undone, and a request served alone still    *)
(* has what its checks found when it writes (assign-role.ts,               *)
(* delete-role.ts).                                                        *)
THEOREM RolesInvariant == Spec => []IInv
<1>1. IInv /\ [Next]_vars => IInv'
  <2> SUFFICES ASSUME IInv, [Next]_vars PROVE IInv'
    OBVIOUS
  <2>1. CASE UNCHANGED vars
    BY <2>1, UnchangedInv
  <2>2. ASSUME NEW r \in Req, Abort(r)
        PROVE  IInv'
    BY <2>2, RefuseInv DEF Abort
  <2>3. QED
    BY <2>1, <2>2, StartInv, ContinueInv DEF Next
<1>2. QED
  BY InitInv, <1>1, PTL DEF Spec

(* Every variable keeps its type, and a row nobody has written has no      *)
(* pending version.                                                        *)
THEOREM TypeCorrect == Spec => []TypeOK
<1>1. IInv => TypeOK
  BY DEF IInv, DbInv, RestInv, RowsOK, RoleOK, TypeOK, RowOK
<1>2. QED
  BY RolesInvariant, <1>1, PTL

(* Served one at a time, no request takes the salon's last Owner or the    *)
(* role of a member away (the counts of assign-role.ts and delete-role.ts). *)
THEOREM MemberRulesWhenSerial == Spec => []SerialMemberRules
<1>1. IInv => SerialMemberRules
  BY DEF IInv, SerialInv, Good, SerialMemberRules, OwnerRemains, MembersHaveRoles
<1>2. QED
  BY RolesInvariant, <1>1, PTL

(* What a step does to the committed rows.                                 *)
LEMMA StepKeepsDb ==
  ASSUME IInv, [Next]_vars
  PROVE  KeepsDb
<1>1. CASE db' = db
  BY <1>1 DEF KeepsDb, RolesMove
<1>2. ASSUME NEW r \in Req, CommitTx(r)
      PROVE  KeepsDb
  BY <1>2, CommitEffect DEF IInv
<1>3. ASSUME NEW r \in Req, Start(r) PROVE db' = db
  BY <1>3 DEF Start, AssignRole, CreateRole, UpdateRole, DeleteRole, Enter, dbState
<1>4. ASSUME NEW r \in Req, Continue(r) \/ Abort(r) PROVE db' = db \/ CommitTx(r)
  BY <1>4 DEF Continue, Abort, AssignCount, AssignWrite, NameCheck, RoleInsert, NameTaken, Rename,
     GrantFind, GrantDelete, GrantInsert, GrantThere, DeleteCount, RoleDelete, Commit, Refuse, Pass,
     Write, RollbackTx, dbState
<1>5. QED
  BY <1>1, <1>2, <1>3, <1>4 DEF Next, vars, dbState

(* A role once deleted stays so, whatever request found it before          *)
(* (roles.repo.ts: the rename of a row that is gone updates none).         *)
THEOREM NoRoleRevived == Spec => DeletedForGood
<1>1. IInv /\ [Next]_vars =>
        [\A ro \in Role : db[ro].st = "deleted" => db'[ro].st = "deleted"]_vars
  BY StepKeepsDb DEF KeepsDb, RolesMove
<1>2. QED
  BY RolesInvariant, <1>1, PTL DEF Spec, DeletedForGood
=============================================================================
