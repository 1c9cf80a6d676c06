----------------------------- MODULE BranchesProofs -----------------------------
(***************************************************************************)
(* Safety of Branches for any number of concurrent requests, branches,     *)
(* chairs and members: types, that nothing deleted comes back, and the     *)
(* deletion rules when requests are served one at a time.                  *)
(***************************************************************************)
EXTENDS Branches, FiniteSetTheorems, TLAPS

-----------------------------------------------------------------------------
(* Rows.                                                                   *)

LEMMA RowsApart ==
  /\ Branch \cap Chair = {}
  /\ \A b \in Branch, l \in Label :
       LabelKey(b, l) \notin Branch \cup Chair /\ LabelKey(b, l) \in Row
  /\ \A u \in User, b \in Branch :
       Member(u, b) \notin Branch \cup Chair /\ Member(u, b) \in Row
  /\ \A u \in User, b, d \in Branch, l \in Label : Member(u, b) # LabelKey(d, l)
  /\ None \notin Req \cup Branch \cup Chair \cup Label \cup User
  /\ Branch \subseteq Row /\ Chair \subseteq Row
BY BranchesAssumption, KeysAssumption DEF Row, LabelKey, Member

(* Branches and chairs only move on: absent, then live, then gone.         *)
Gone == {"deleted", "retired"}

Moves(before, after) ==
  /\ before.st # "absent" => after.st # "absent"
  /\ before.st \in Gone => after.st = before.st

RowsMove(before, after) == \A x \in Branch \cup Chair : Moves(before[x], after[x])

(* A chair that is there has a branch and a label.                         *)
ChairOK(row) ==
  row \in ChairRow /\ (row.st # "absent" => row.branch \in Branch /\ row.label \in Label)

RowsOK(t) ==
  /\ \A b \in Branch : t[b] \in BranchRow
  /\ \A c \in Chair : ChairOK(t[c])
  /\ \A b \in Branch, l \in Label : t[LabelKey(b, l)] \in Chair \cup {None}
  /\ \A u \in User, b \in Branch : t[Member(u, b)] \in Nat

DbInv ==
  /\ DOMAIN db = Row /\ DOMAIN dirty = Row
  /\ RowsOK(db) /\ RowsOK(dirty)
  /\ RowsMove(db, dirty)
  /\ holder \in [Row -> Req \cup {None}]
  /\ \A x \in Row : holder[x] = None => dirty[x] = db[x]

Keeps(r) == RowsMove(View(r), View(r)')
KeepsDb == RowsMove(db, db')

LEMMA ViewTypes ==
  ASSUME DbInv, NEW r \in Req
  PROVE  RowsOK(View(r)) /\ DOMAIN View(r) = Row
BY RowsApart DEF DbInv, View, RowsOK

(* What a statement may write.                                             *)
Lawful(r, new) ==
  /\ DOMAIN new \subseteq Row
  /\ \A b \in DOMAIN new \cap Branch : new[b] \in BranchRow /\ Moves(View(r)[b], new[b])
  /\ \A c \in DOMAIN new \cap Chair : ChairOK(new[c]) /\ Moves(View(r)[c], new[c])
  /\ \A b \in Branch, l \in Label :
       LabelKey(b, l) \in DOMAIN new => new[LabelKey(b, l)] \in Chair \cup {None}
  /\ \A u \in User, b \in Branch : Member(u, b) \in DOMAIN new => new[Member(u, b)] \in Nat

LEMMA WriteEffect ==
  ASSUME DbInv, NEW r \in Req, NEW new, Write(r, new), Lawful(r, new)
  PROVE  /\ DbInv' /\ KeepsDb /\ \A q \in Req : Keeps(q)
         /\ db' = db
         /\ \A x \in Row : View(r)'[x] = IF x \in DOMAIN new THEN new[x] ELSE View(r)[x]
         /\ \A x \in Row : holder'[x] \in {r, holder[x]}
<1>1. /\ db' = db /\ DOMAIN dirty' = Row
      /\ \A x \in Row : dirty'[x] = IF x \in DOMAIN new THEN new[x] ELSE dirty[x]
      /\ \A x \in Row : holder'[x] = IF x \in DOMAIN new THEN r ELSE holder[x]
      /\ \A x \in DOMAIN new : x \in Row /\ holder[x] \in {r, None}
      /\ None \notin Req
  BY RowsApart DEF Write, Unlocked, Lawful
<1>2. \A x \in DOMAIN new : View(r)[x] = dirty[x] /\ View(r)'[x] = new[x]
  BY <1>1 DEF View, DbInv
<1>3. \A q \in Req, x \in Row : q # r \/ x \notin DOMAIN new => View(q)'[x] = View(q)[x]
  BY <1>1 DEF View
<1>4. RowsOK(dirty')
  BY <1>1, RowsApart DEF RowsOK, DbInv, Lawful
<1>5. RowsMove(db', dirty')
  BY <1>1, <1>2, RowsApart DEF DbInv, RowsMove, Moves, Lawful
<1>6. DbInv'
  <2>1. holder' \in [Row -> Req \cup {None}]
    BY DEF Write, DbInv
  <2>2. \A x \in Row : holder'[x] = None => dirty'[x] = db'[x]
    BY <1>1 DEF DbInv
  <2>3. QED
    BY <1>1, <1>4, <1>5, <2>1, <2>2 DEF DbInv, RowsOK, RowsMove
<1>7. \A q \in Req : Keeps(q)
  BY <1>1, <1>2, <1>3, RowsApart DEF Keeps, RowsMove, Moves, Lawful
<1>8. KeepsDb
  BY <1>1 DEF KeepsDb, RowsMove, Moves
<1>9. QED
  BY <1>1, <1>2, <1>3, <1>6, <1>7, <1>8

LEMMA CommitEffect ==
  ASSUME DbInv, NEW r \in Req, CommitTx(r)
  PROVE  /\ DbInv' /\ KeepsDb /\ (\A q \in Req \ {r} : Keeps(q))
         /\ db' = View(r) /\ Release(r)
<1>1. /\ db' = View(r) /\ dirty' = dirty
      /\ \A x \in Row : holder'[x] = IF holder[x] = r THEN None ELSE holder[x]
      /\ \A x \in Row : db'[x] = IF holder[x] = r THEN dirty[x] ELSE db[x]
      /\ None \notin Req
  BY RowsApart DEF CommitTx, Release, View
<1>2. KeepsDb
  BY <1>1, RowsApart DEF KeepsDb, DbInv, RowsMove, Moves
<1>3. RowsMove(db', dirty')
  BY <1>1, RowsApart DEF DbInv, RowsMove, Moves
<1>4. DbInv'
  <2>1. holder' \in [Row -> Req \cup {None}]
    BY DEF CommitTx, Release, DbInv
  <2>2. \A x \in Row : holder'[x] = None => dirty'[x] = db'[x]
    BY <1>1 DEF DbInv
  <2>3. QED
    BY <1>1, <1>3, <2>1, <2>2, ViewTypes DEF DbInv, RowsOK, RowsMove
<1>5. \A q \in Req \ {r}, x \in Row :
        View(q)'[x] = IF holder[x] = q THEN dirty[x] ELSE db'[x]
  BY <1>1 DEF View
<1>6. \A q \in Req \ {r} : Keeps(q)
  BY <1>2, <1>5, RowsApart DEF View, Keeps, KeepsDb, RowsMove, Moves
<1>7. QED
  BY <1>1, <1>2, <1>4, <1>6 DEF CommitTx

LEMMA RollbackEffect ==
  ASSUME DbInv, NEW r \in Req, RollbackTx(r)
  PROVE  /\ DbInv' /\ KeepsDb /\ (\A q \in Req \ {r} : Keeps(q))
         /\ db' = db /\ Release(r)
<1>1. /\ db' = db /\ DOMAIN dirty' = Row
      /\ \A x \in Row : dirty'[x] = IF holder[x] = r THEN db[x] ELSE dirty[x]
      /\ \A x \in Row : holder'[x] = IF holder[x] = r THEN None ELSE holder[x]
      /\ None \notin Req
  BY RowsApart DEF RollbackTx, Release
<1>2. DbInv'
  <2>1. RowsOK(dirty')
    BY <1>1, RowsApart DEF DbInv, RowsOK
  <2>2. holder' \in [Row -> Req \cup {None}]
    BY DEF RollbackTx, Release, DbInv
  <2>3. \A x \in Row : holder'[x] = None => dirty'[x] = db'[x]
    BY <1>1 DEF DbInv
  <2>4. RowsMove(db', dirty')
    BY <1>1, RowsApart DEF DbInv, RowsMove, Moves
  <2>5. QED
    BY <1>1, <2>1, <2>2, <2>3, <2>4 DEF DbInv, RowsOK, RowsMove
<1>3. \A q \in Req \ {r}, x \in Row : View(q)'[x] = View(q)[x]
  BY <1>1 DEF View
<1>4. KeepsDb /\ \A q \in Req \ {r} : Keeps(q)
  BY <1>1, <1>3, RowsApart DEF KeepsDb, Keeps, RowsMove, Moves
<1>5. QED
  BY <1>1, <1>2, <1>4 DEF RollbackTx

LEMMA Stutter ==
  ASSUME DbInv, UNCHANGED dbState
  PROVE  /\ DbInv' /\ KeepsDb /\ (\A q \in Req : Keeps(q))
         /\ db' = db /\ holder' = holder /\ \A q \in Req : View(q)' = View(q)
<1>1. db' = db /\ holder' = holder /\ dirty' = dirty
  BY DEF dbState
<1>2. \A q \in Req : View(q)' = View(q)
  BY <1>1 DEF View
<1>3. KeepsDb /\ \A q \in Req : Keeps(q)
  BY <1>1, <1>2 DEF KeepsDb, Keeps, RowsMove, Moves
<1>4. DbInv'
  BY <1>1 DEF DbInv, RowsOK, RowsMove, Moves
<1>5. QED
  BY <1>1, <1>2, <1>3, <1>4

-----------------------------------------------------------------------------
(* The invariant.                                                          *)

(* What each request's next statement needs.                               *)
LocOK(r) ==
  /\ pc[r] \in {"branchInsert", "memberFind", "memberDelete", "memberInsert"} =>
       loc[r].user \in User
  /\ pc[r] \in {"branchWrite", "deleteCount", "deleteChairs", "branchDelete"} =>
       loc[r].branch \in Branch
  /\ pc[r] \in {"chairLabel", "chairInsert"} => loc[r].branch \in Branch /\ loc[r].label \in Label
  /\ \/ pc[r] \in {"chairWrite", "chairRetire"}
     \/ pc[r] = "chairLabel" /\ loc[r].op # "createChair"
     => loc[r].chair \in Chair /\ View(r)[loc[r].chair].st # "absent"

(* The deletion rules, of what is committed and of what a request sees.    *)
Good(t) ==
  /\ \A c \in Chair : t[c].st = "live" => t[t[c].branch].st = "live"
  /\ \E b \in Branch : t[b].st = "live"

(* What r's checks have found, when nobody else changes it.                *)
SerialOK(r) ==
  /\ pc[r] # "idle" => Good(View(r))
  /\ pc[r] \in {"deleteChairs", "branchDelete"} =>
       \E b \in Branch \ {loc[r].branch} : View(r)[b].st = "live"
  /\ pc[r] = "branchDelete" => LiveChairs(r, loc[r].branch) = {}
  /\ \/ pc[r] = "chairInsert"
     \/ pc[r] = "chairLabel" /\ loc[r].op = "createChair"
     => View(r)[loc[r].branch].st = "live"

RestInv ==
  /\ pc \in [Req -> PcState]
  /\ loc \in [Req -> Local]
  /\ serial \in BOOLEAN
  /\ started \in 0..MaxRequests

IdleHolds == \A r \in Req : pc[r] = "idle" => \A x \in Row : holder[x] # r

SerialInv ==
  serial =>
    /\ \A q, r \in Req : pc[q] # "idle" /\ pc[r] # "idle" => q = r
    /\ Good(db)
    /\ \A r \in Req : SerialOK(r)

IInv ==
  /\ DbInv /\ RestInv /\ IdleHolds /\ SerialInv
  /\ \A r \in Req : LocOK(r)

Others(r) == \A q \in Req \ {r} : pc'[q] = pc[q] /\ loc'[q] = loc[q]

LEMMA GoodKept ==
  ASSUME NEW t, NEW u, RowsOK(t), Good(t),
         \A b \in Branch : t[b].st = "live" => u[b].st = "live",
         \A c \in Chair : u[c].st = "live" => t[c].st = "live" /\ u[c].branch = t[c].branch
  PROVE  Good(u)
BY DEF Good, RowsOK, ChairOK

(* A step of r keeps the invariant if it leaves r and the rows in order.   *)
LEMMA StepInv ==
  ASSUME IInv, NEW r \in Req, DbInv', RestInv', Others(r), serial' = serial,
         \A q \in Req \ {r} : Keeps(q),
         \/ UNCHANGED holder /\ pc[r] = "idle"
         \/ pc'[r] # "idle" /\ \A x \in Row : holder'[x] \in {r, holder[x]}
         \/ Release(r),
         LocOK(r)',
         serial => /\ pc[r] # "idle" \/ \A q \in Req : pc[q] = "idle"
                   /\ Good(db)' /\ SerialOK(r)'
  PROVE  IInv'
<1>1. None \notin Req
  BY RowsApart
<1>2. IdleHolds'
  <2> SUFFICES ASSUME NEW q \in Req, pc'[q] = "idle", NEW x \in Row
               PROVE  holder'[x] # q
    BY DEF IdleHolds
  <2>1. CASE q = r
    BY <1>1, <2>1 DEF IInv, IdleHolds, Release
  <2>2. CASE q # r
    <3>1. holder[x] # q
      BY <2>2 DEF Others, IInv, IdleHolds
    <3>2. QED
      BY <1>1, <2>2, <3>1 DEF Release
  <2>3. QED
    BY <2>1, <2>2
<1>3. ASSUME NEW q \in Req
      PROVE  LocOK(q)'
  <2>1. CASE q # r
    <3>1. pc'[q] = pc[q] /\ loc'[q] = loc[q] /\ LocOK(q) /\ Keeps(q)
      BY <2>1 DEF Others, IInv
    <3>2. QED
      BY <3>1 DEF LocOK, Keeps, RowsMove, Moves
  <2>2. QED
    BY <2>1
<1>4. SerialInv'
  <2> SUFFICES ASSUME serial PROVE SerialInv'
    BY DEF SerialInv
  <2>1. \A q \in Req \ {r} : pc[q] = "idle" /\ pc'[q] = "idle"
    BY DEF IInv, SerialInv, Others
  <2>2. \A q \in Req \ {r} : SerialOK(q)'
    BY <2>1 DEF SerialOK
  <2>3. \A q \in Req : SerialOK(q)'
    BY <2>2
  <2>4. \A q, p \in Req : pc'[q] # "idle" /\ pc'[p] # "idle" => q = p
    BY <2>1
  <2>5. QED
    BY <2>3, <2>4 DEF SerialInv
<1>5. QED
  BY <1>2, <1>3, <1>4 DEF IInv

LEMMA RestOK ==
  ASSUME RestInv, NEW r \in Req, NEW to \in PcState, pc' = [pc EXCEPT ![r] = to],
         UNCHANGED <<loc, serial, started>>
  PROVE  RestInv' /\ Others(r) /\ pc'[r] = to /\ loc'[r] = loc[r]
BY DEF RestInv, Others

(* A request that ends.                                                    *)
LEMMA EndInv ==
  ASSUME IInv, NEW r \in Req, pc[r] # "idle", pc' = [pc EXCEPT ![r] = "idle"],
         loc' = [loc EXCEPT ![r] = Idle], UNCHANGED <<serial, started>>,
         RollbackTx(r) \/ (CommitTx(r) /\ pc[r] = "commit")
  PROVE  IInv'
<1>1. DbInv' /\ (\A q \in Req \ {r} : Keeps(q)) /\ Release(r)
  BY CommitEffect, RollbackEffect DEF IInv
<1>2. Idle \in Local
  BY DEF Idle, Local, Out
<1>3. RestInv' /\ Others(r) /\ pc'[r] = "idle"
  BY <1>2 DEF IInv, RestInv, Others, PcState
<1>4. serial => Good(db)'
  BY CommitEffect, RollbackEffect DEF IInv, SerialInv, SerialOK, Good
<1>5. LocOK(r)' /\ SerialOK(r)'
  BY <1>3 DEF LocOK, SerialOK
<1>6. QED
  BY <1>1, <1>3, <1>4, <1>5, StepInv

(* A statement that writes.                                                *)
LEMMA WriteInv ==
  ASSUME IInv, NEW r \in Req, NEW from, NEW to \in PcState, NEW new, Go(r, from, to),
         Write(r, new), Lawful(r, new), UNCHANGED <<loc, serial, started>>,
         from # "idle", to \in {"commit", "memberInsert"}, 
         to = "memberInsert" => loc[r].user \in User,
         serial => Good(View(r)')
  PROVE  IInv'
<1>1. /\ DbInv' /\ (\A q \in Req : Keeps(q)) /\ db' = db
      /\ \A x \in Row : holder'[x] \in {r, holder[x]}
  BY WriteEffect DEF IInv
<1>2. RestInv' /\ Others(r) /\ pc[r] = from /\ pc'[r] = to /\ loc'[r] = loc[r]
  BY RestOK DEF IInv, Go
<1>3. LocOK(r)'
  BY <1>2 DEF LocOK
<1>4. serial => Good(db)' /\ SerialOK(r)'
  BY <1>1, <1>2 DEF IInv, SerialInv, SerialOK, Good
<1>5. QED
  BY <1>1, <1>2, <1>3, <1>4, StepInv

(* A check that is passed.                                                 *)
LEMMA PassInv ==
  ASSUME IInv, NEW r \in Req, NEW from, NEW to \in PcState, Pass(r, from, to),
         from # "idle", to # "idle",
         View(r)' = View(r) /\ pc[r] = from /\ pc'[r] = to /\ loc'[r] = loc[r] =>
           LocOK(r)' /\ (serial => SerialOK(r)')
  PROVE  IInv'
<1>1. /\ DbInv' /\ (\A q \in Req : Keeps(q)) /\ db' = db /\ holder' = holder
      /\ View(r)' = View(r)
  BY Stutter DEF IInv, Pass
<1>2. RestInv' /\ Others(r) /\ pc[r] = from /\ pc'[r] = to /\ loc'[r] = loc[r] /\ serial' = serial
  BY RestOK DEF IInv, Pass, Go
<1>3. serial => Good(db)'
  BY <1>1 DEF IInv, SerialInv, Good
<1>4. QED
  BY <1>1, <1>2, <1>3, StepInv

(* A request that begins.                                                  *)
LEMMA EnterInv ==
  ASSUME IInv, NEW r \in Req, NEW to \in PcState, NEW l \in Local, Enter(r, to, l),
         to # "idle",
         /\ View(r)' = View(r) /\ pc'[r] = to /\ loc'[r] = [l EXCEPT !.nr = started + 2]
         /\ serial => Good(View(r))
         => LocOK(r)' /\ (serial => SerialOK(r)')
  PROVE  IInv'
<1>1. /\ DbInv' /\ (\A q \in Req : Keeps(q)) /\ db' = db /\ holder' = holder
      /\ View(r)' = View(r)
  BY Stutter DEF IInv, Enter
<1>2. pc[r] = "idle" /\ pc' = [pc EXCEPT ![r] = to] /\ started \in Nat
  BY DEF Enter, Go, IInv, RestInv
<1>3. [l EXCEPT !.nr = started + 2] \in Local
  <2>1. \A n \in Nat : [l EXCEPT !.nr = n] \in Local
    BY DEF Local
  <2>2. QED
    BY <1>2, <2>1
<1>4. RestInv' /\ Others(r) /\ pc'[r] = to /\ loc'[r] = [l EXCEPT !.nr = started + 2]
  <2> DEFINE k == [l EXCEPT !.nr = started + 2]
  <2>1. k \in Local /\ loc' = [loc EXCEPT ![r] = k] /\ serial' = serial
        /\ started' = started + 1 /\ started < MaxRequests
    BY <1>3 DEF Enter
  <2> HIDE DEF k
  <2>2. started' \in 0..MaxRequests
    BY <1>2, <2>1, BranchesAssumption
  <2>3. RestInv' /\ Others(r) /\ pc'[r] = to /\ loc'[r] = k
    BY <1>2, <2>1, <2>2 DEF IInv, RestInv, Others
  <2>4. QED
    BY <2>3 DEF k
<1>5. serial => Good(db) /\ Good(View(r))
  <2>1. \A x \in Row : View(r)[x] = db[x]
    BY <1>2 DEF IInv, IdleHolds, View
  <2>2. serial => Good(db) /\ RowsOK(db)
    BY DEF IInv, SerialInv, DbInv
  <2>3. QED
    BY <2>1, <2>2, GoodKept, RowsApart
<1>6. serial => Good(db)' /\ \A q \in Req : pc[q] = "idle"
  BY <1>1, <1>5 DEF Good, Enter
<1>7. LocOK(r)' /\ (serial => SerialOK(r)')
  BY <1>1, <1>4, <1>5
<1>8. serial' = serial
  BY DEF Enter
<1>9. QED
  BY <1>1, <1>2, <1>4, <1>6, <1>7, <1>8, StepInv

LEMMA IdleLocal == Idle \in Local
BY DEF Idle, Local, Out

(* Whatever is asked.                                                      *)
LEMMA StartInv ==
  ASSUME IInv, NEW r \in Req, Start(r)
  PROVE  IInv'
<1>1. RowsOK(View(r))
  BY ViewTypes DEF IInv
<1>2. ASSUME NEW u \in User, CreateBranch(r, u)
      PROVE  IInv'
  <2> DEFINE l == [Idle EXCEPT !.op = "createBranch", !.user = u]
  <2>1. l \in Local /\ \A n : [l EXCEPT !.nr = n].user = u
    BY IdleLocal DEF Local, Idle
  <2>2. Enter(r, "branchInsert", l)
    BY <1>2 DEF CreateBranch
  <2> HIDE DEF l
  <2>3. QED
    BY <2>1, <2>2, EnterInv DEF PcState, LocOK, SerialOK
<1>3. ASSUME NEW u \in User, NEW b \in Branch, NEW a \in {"on", "off", "keep"},
             UpdateBranch(r, u, b, a)
      PROVE  IInv'
  <2> DEFINE l == [Idle EXCEPT !.op = "updateBranch", !.branch = b, !.active = a]
  <2>1. l \in Local /\ \A n : [l EXCEPT !.nr = n].branch = b
    BY IdleLocal DEF Local, Idle
  <2>2. Enter(r, "branchWrite", l)
    BY <1>3 DEF UpdateBranch
  <2> HIDE DEF l
  <2>3. QED
    BY <2>1, <2>2, EnterInv DEF PcState, LocOK, SerialOK
<1>4. ASSUME NEW u \in User, NEW b \in Branch, DeleteBranch(r, u, b)
      PROVE  IInv'
  <2> DEFINE l == [Idle EXCEPT !.op = "deleteBranch", !.branch = b]
  <2>1. l \in Local /\ \A n : [l EXCEPT !.nr = n].branch = b
    BY IdleLocal DEF Local, Idle
  <2>2. Enter(r, "deleteCount", l)
    BY <1>4 DEF DeleteBranch
  <2> HIDE DEF l
  <2>3. QED
    BY <2>1, <2>2, EnterInv DEF PcState, LocOK, SerialOK
<1>5. ASSUME NEW u \in User, NEW b \in Branch, NEW k \in Label, CreateChair(r, u, b, k)
      PROVE  IInv'
  <2> DEFINE l == [Idle EXCEPT !.op = "createChair", !.branch = b, !.label = k]
  <2>1. l \in Local /\ \A n : /\ [l EXCEPT !.nr = n].branch = b
                              /\ [l EXCEPT !.nr = n].label = k
                              /\ [l EXCEPT !.nr = n].op = "createChair"
    BY IdleLocal DEF Local, Idle
  <2>2. Enter(r, "chairLabel", l) /\ View(r)[b].st = "live"
    BY <1>5 DEF CreateChair, LiveBranches
  <2> HIDE DEF l
  <2>3. QED
    BY <2>1, <2>2, EnterInv DEF PcState, LocOK, SerialOK
<1>6. ASSUME NEW u \in User, NEW c \in Chair, NEW k \in Label \cup {None},
             NEW a \in {"on", "off", "keep"}, UpdateChair(r, u, c, k, a)
      PROVE  IInv'
  <2> DEFINE chair == View(r)[c]
             l == [Idle EXCEPT !.op = "updateChair", !.branch = chair.branch, !.chair = c,
                               !.label = k, !.active = a]
  <2>0. chair.st = "live" /\ chair.branch \in Branch /\ chair.label \in Label
    BY <1>1, <1>6 DEF UpdateChair, RowsOK, ChairOK
  <2>1. l \in Local /\ \A n : /\ [l EXCEPT !.nr = n].branch = chair.branch
                              /\ [l EXCEPT !.nr = n].label = k
                              /\ [l EXCEPT !.nr = n].chair = c
                              /\ [l EXCEPT !.nr = n].op = "updateChair"
    BY <2>0, IdleLocal DEF Local, Idle
  <2>2. \/ Enter(r, "chairWrite", l)
        \/ Enter(r, "chairLabel", l) /\ k \in Label
    BY <1>6 DEF UpdateChair
  <2> HIDE DEF l
  <2>3. CASE Enter(r, "chairWrite", l)
    BY <2>0, <2>1, <2>3, EnterInv DEF PcState, LocOK, SerialOK
  <2>4. CASE Enter(r, "chairLabel", l) /\ k \in Label
    BY <2>0, <2>1, <2>4, EnterInv DEF PcState, LocOK, SerialOK
  <2>5. QED
    BY <2>2, <2>3, <2>4
<1>7. ASSUME NEW u \in User, NEW c \in Chair, RetireChair(r, u, c)
      PROVE  IInv'
  <2> DEFINE l == [Idle EXCEPT !.op = "retireChair", !.chair = c]
  <2>1. l \in Local /\ \A n : [l EXCEPT !.nr = n].chair = c
    BY IdleLocal DEF Local, Idle
  <2>2. Enter(r, "chairRetire", l) /\ View(r)[c].st = "live"
    BY <1>7 DEF RetireChair
  <2> HIDE DEF l
  <2>3. QED
    BY <2>1, <2>2, EnterInv DEF PcState, LocOK, SerialOK
<1>8. ASSUME NEW u \in User, NEW W \in SUBSET Branch, SetBranches(r, u, W)
      PROVE  IInv'
  <2> DEFINE l == [Idle EXCEPT !.op = "setBranches", !.user = u, !.wanted = W]
  <2>1. l \in Local /\ \A n : [l EXCEPT !.nr = n].user = u
    BY IdleLocal DEF Local, Idle
  <2>2. Enter(r, "memberFind", l)
    BY <1>8 DEF SetBranches
  <2> HIDE DEF l
  <2>3. QED
    BY <2>1, <2>2, EnterInv DEF PcState, LocOK, SerialOK
<1>9. QED
  BY <1>2, <1>3, <1>4, <1>5, <1>6, <1>7, <1>8 DEF Start

-----------------------------------------------------------------------------
(* The steps of a request that has begun.                                  *)

(* A row updated in place keeps its state, its branch and its place.       *)
LEMMA InPlace ==
  ASSUME IInv, NEW r \in Req, NEW new, Write(r, new), Lawful(r, new),
         pc[r] # "idle",
         \A b \in DOMAIN new \cap Branch : View(r)[b].st = "live" => new[b].st = "live",
         \A c \in DOMAIN new \cap Chair : new[c].st = "live" =>
           View(r)[c].st = "live" /\ new[c].branch = View(r)[c].branch
  PROVE  serial => Good(View(r)')
<1>1. \A x \in Row : View(r)'[x] = IF x \in DOMAIN new THEN new[x] ELSE View(r)[x]
  BY WriteEffect DEF IInv
<1>2. RowsOK(View(r)) /\ (serial => Good(View(r)))
  BY ViewTypes DEF IInv, SerialInv, SerialOK
<1>3. /\ \A b \in Branch : View(r)[b].st = "live" => View(r)'[b].st = "live"
      /\ \A c \in Chair : View(r)'[c].st = "live" =>
           View(r)[c].st = "live" /\ View(r)'[c].branch = View(r)[c].branch
  BY <1>1, RowsApart
<1>4. QED
  BY <1>2, <1>3, GoodKept

LEMMA PatchedRow ==
  /\ \A row \in BranchRow, a \in {"on", "off", "keep"} :
       Patched(row, a) \in BranchRow /\ Patched(row, a).st = row.st
  /\ \A row \in ChairRow, a \in {"on", "off", "keep"} :
       /\ Patched(row, a) \in ChairRow /\ Patched(row, a).st = row.st
       /\ Patched(row, a).branch = row.branch /\ Patched(row, a).label = row.label
BY DEF Patched, BranchRow, ChairRow

LEMMA BranchInsertInv ==
  ASSUME IInv, NEW r \in Req, BranchInsert(r)
  PROVE  IInv'
<1> PICK b \in Branch :
      /\ Go(r, "branchInsert", "commit")
      /\ View(r)[b].st = "absent"
      /\ Write(r, [x \in {b, Member(loc[r].user, b)} |->
                     IF x = b THEN [st |-> "live", active |-> "on"] ELSE loc[r].nr])
      /\ UNCHANGED <<loc, serial, started>>
  BY DEF BranchInsert
<1> DEFINE m == Member(loc[r].user, b)
           new == [x \in {b, m} |-> IF x = b THEN [st |-> "live", active |-> "on"] ELSE loc[r].nr]
<1>1. pc[r] = "branchInsert" /\ loc[r].user \in User /\ loc[r].nr \in Nat
  BY DEF Go, IInv, LocOK, RestInv, Local
<1>2. /\ DOMAIN new = {b, m} /\ new[b] = [st |-> "live", active |-> "on"]
      /\ new[m] = loc[r].nr /\ m \in Row /\ m \notin Branch \cup Chair /\ b \notin Chair
      /\ \A d \in Branch, l \in Label : LabelKey(d, l) \notin {b, m}
      /\ b \in Row
  BY <1>1, RowsApart
<1>3. Write(r, new)
  OBVIOUS
<1>4. View(r)[b].st \notin Gone
  BY DEF Gone
<1> HIDE DEF new, m
<1>5. Lawful(r, new)
  BY <1>1, <1>2, <1>4, RowsApart DEF Lawful, BranchRow, Moves
<1>6. serial => Good(View(r)')
  BY <1>1, <1>2, <1>3, <1>5, InPlace
<1>7. QED
  BY <1>3, <1>5, <1>6, WriteInv DEF PcState

LEMMA BranchWriteInv ==
  ASSUME IInv, NEW r \in Req, BranchWrite(r)
  PROVE  IInv'
<1> DEFINE b == loc[r].branch
           row == Patched(View(r)[b], loc[r].active)
           new == [x \in {b} |-> row]
<1>1. pc[r] = "branchWrite" /\ b \in Branch /\ loc[r].active \in {"on", "off", "keep"}
      /\ Go(r, "branchWrite", "commit") /\ Write(r, new) /\ UNCHANGED <<loc, serial, started>>
  BY DEF BranchWrite, Go, IInv, LocOK, RestInv, Local
<1>2. row \in BranchRow /\ row.st = View(r)[b].st
  BY <1>1, PatchedRow, ViewTypes DEF IInv, RowsOK
<1>3. DOMAIN new = {b} /\ new[b] = row
  OBVIOUS
<1> HIDE DEF new, row
<1>4. Lawful(r, new)
  BY <1>1, <1>2, <1>3, RowsApart DEF Lawful, Moves
<1>5. serial => Good(View(r)')
  BY <1>1, <1>2, <1>3, <1>4, InPlace, RowsApart
<1>6. QED
  BY <1>1, <1>4, <1>5, WriteInv DEF PcState

LEMMA BranchDeleteInv ==
  ASSUME IInv, NEW r \in Req, BranchDelete(r)
  PROVE  IInv'
<1> DEFINE b == loc[r].branch
           row == [st |-> "deleted", active |-> "off"]
           new == [x \in {b} |-> row]
<1>1. pc[r] = "branchDelete" /\ b \in Branch
      /\ Go(r, "branchDelete", "commit") /\ Write(r, new) /\ UNCHANGED <<loc, serial, started>>
  BY DEF BranchDelete, Go, IInv, LocOK
<1>2. row \in BranchRow /\ row.st = "deleted"
  BY DEF BranchRow
<1>3. DOMAIN new = {b} /\ new[b] = row
  OBVIOUS
<1> HIDE DEF new, row
<1>4. View(r)[b] \in BranchRow /\ RowsOK(View(r))
  BY <1>1, ViewTypes DEF IInv, RowsOK
<1>5. Lawful(r, new)
  BY <1>1, <1>2, <1>3, <1>4, RowsApart DEF Lawful, Moves, Gone, BranchRow
<1>6. serial => Good(View(r)')
  <2> SUFFICES ASSUME serial PROVE Good(View(r)')
    OBVIOUS
  <2>1. \A x \in Row : View(r)'[x] = IF x = b THEN row ELSE View(r)[x]
    BY <1>1, <1>3, <1>5, WriteEffect DEF IInv
  <2>2. /\ Good(View(r))
        /\ \E d \in Branch \ {b} : View(r)[d].st = "live"
        /\ \A c \in Chair : ~(View(r)[c].st = "live" /\ View(r)[c].branch = b)
    BY <1>1 DEF IInv, SerialInv, SerialOK, LiveChairs
  <2>3. \A c \in Chair : View(r)'[c] = View(r)[c]
    BY <1>1, <2>1, RowsApart
  <2>4. \A d \in Branch \ {b} : View(r)'[d] = View(r)[d]
    BY <2>1, RowsApart
  <2>5. QED
    BY <1>4, <2>2, <2>3, <2>4 DEF Good, RowsOK, ChairOK
<1>7. QED
  BY <1>1, <1>5, <1>6, WriteInv DEF PcState

LEMMA ChairInsertInv ==
  ASSUME IInv, NEW r \in Req, ChairInsert(r)
  PROVE  IInv'
<1> DEFINE b == loc[r].branch
           l == loc[r].label
           key == LabelKey(b, l)
           row == [st |-> "live", active |-> "on", branch |-> b, label |-> l]
<1> PICK c \in Chair :
      /\ Go(r, "chairInsert", "commit")
      /\ View(r)[c].st = "absent"
      /\ Write(r, [x \in {c, key} |-> IF x = c THEN row ELSE c])
      /\ UNCHANGED <<loc, serial, started>>
  BY DEF ChairInsert
<1> DEFINE new == [x \in {c, key} |-> IF x = c THEN row ELSE c]
<1>1. pc[r] = "chairInsert" /\ b \in Branch /\ l \in Label
  BY DEF Go, IInv, LocOK
<1>2. /\ DOMAIN new = {c, key} /\ new[c] = row /\ new[key] = c
      /\ key \in Row /\ key \notin Branch \cup Chair /\ c \notin Branch /\ c \in Row
      /\ \A u \in User, d \in Branch : Member(u, d) \notin {c, key}
      /\ \A d \in Branch, k \in Label : LabelKey(d, k) # c
  BY <1>1, RowsApart
<1>3. Write(r, new)
  OBVIOUS
<1>4. View(r)[c].st \notin Gone /\ RowsOK(View(r))
  BY ViewTypes DEF Gone, IInv
<1>5. ChairOK(row) /\ row.branch = b
  BY <1>1 DEF ChairOK, ChairRow
<1> HIDE DEF new, key, row
<1>6. Lawful(r, new)
  BY <1>1, <1>2, <1>4, <1>5, RowsApart DEF Lawful, Moves
<1>7. serial => Good(View(r)')
  <2> SUFFICES ASSUME serial PROVE Good(View(r)')
    OBVIOUS
  <2>1. \A x \in Row : View(r)'[x] = IF x \in DOMAIN new THEN new[x] ELSE View(r)[x]
    BY <1>3, <1>6, WriteEffect DEF IInv
  <2>2. Good(View(r)) /\ View(r)[b].st = "live"
    BY <1>1 DEF IInv, SerialInv, SerialOK
  <2>3. /\ View(r)'[c] = row
        /\ \A d \in Chair \ {c} : View(r)'[d] = View(r)[d]
        /\ \A d \in Branch : View(r)'[d] = View(r)[d]
    BY <1>2, <2>1, RowsApart
  <2>4. QED
    BY <1>1, <1>4, <1>5, <2>2, <2>3 DEF Good, RowsOK, ChairOK
<1>8. QED
  BY <1>3, <1>6, <1>7, WriteInv DEF PcState

LEMMA ChairWriteInv ==
  ASSUME IInv, NEW r \in Req, ChairWrite(r)
  PROVE  IInv'
<1> DEFINE c == loc[r].chair
           old == View(r)[c]
           taken == LabelKey(old.branch, LabelWritten(r))
           left == LabelKey(old.branch, old.label)
           named == [old EXCEPT !.label = LabelWritten(r)]
           row == Patched(named, loc[r].active)
           new == [x \in {c, taken, left} |->
                     IF x = c THEN row ELSE IF x = taken THEN c ELSE None]
<1>1. pc[r] = "chairWrite" /\ c \in Chair /\ loc[r].active \in {"on", "off", "keep"}
      /\ old.st # "absent" /\ loc[r].label \in Label \cup {None}
  BY DEF ChairWrite, Go, IInv, LocOK, RestInv, Local
<1>2. Go(r, "chairWrite", "commit") /\ Write(r, new) /\ UNCHANGED <<loc, serial, started>>
  BY DEF ChairWrite
<1>3. old \in ChairRow /\ old.branch \in Branch /\ old.label \in Label
  BY <1>1, ViewTypes DEF IInv, RowsOK, ChairOK
<1>4. LabelWritten(r) \in Label
  BY <1>1, <1>3 DEF LabelWritten
<1>5. /\ named \in ChairRow /\ named.st = old.st
      /\ named.branch = old.branch /\ named.label = LabelWritten(r)
  BY <1>3, <1>4 DEF ChairRow
<1>6. /\ taken \in Row /\ left \in Row
      /\ taken \notin Branch \cup Chair /\ left \notin Branch \cup Chair
      /\ \A u \in User, d \in Branch : Member(u, d) \notin {c, taken, left}
  BY <1>1, <1>3, <1>4, RowsApart
<1> HIDE DEF taken, left, named
<1>7. ChairOK(row) /\ row.st = old.st /\ row.branch = old.branch
  BY <1>1, <1>3, <1>4, <1>5, PatchedRow DEF ChairOK
<1>8. /\ DOMAIN new = {c, taken, left} /\ new[c] = row
      /\ \A x \in {taken, left} : new[x] \in Chair \cup {None}
  BY <1>1, <1>6
<1> HIDE DEF new, row
<1>9. Lawful(r, new)
  BY <1>1, <1>6, <1>7, <1>8, RowsApart DEF Lawful, Moves
<1>10. serial => Good(View(r)')
  <2>1. \A x \in DOMAIN new \cap Chair : x = c
    BY <1>6, <1>8
  <2>2. DOMAIN new \cap Branch = {}
    BY <1>1, <1>6, <1>8, RowsApart
  <2>3. QED
    BY <1>1, <1>2, <1>7, <1>8, <1>9, <2>1, <2>2, InPlace
<1>11. QED
  BY <1>2, <1>9, <1>10, WriteInv DEF PcState

LEMMA ChairRetireInv ==
  ASSUME IInv, NEW r \in Req, ChairRetire(r)
  PROVE  IInv'
<1> DEFINE c == loc[r].chair
           row == [View(r)[c] EXCEPT !.st = "retired", !.active = "off"]
           new == [x \in {c} |-> row]
<1>1. pc[r] = "chairRetire" /\ c \in Chair /\ View(r)[c].st # "absent"
      /\ Go(r, "chairRetire", "commit") /\ Write(r, new) /\ UNCHANGED <<loc, serial, started>>
  BY DEF ChairRetire, Go, IInv, LocOK
<1>2. ChairOK(View(r)[c])
  BY <1>1, ViewTypes DEF IInv, RowsOK
<1>3. ChairOK(row) /\ row.st = "retired"
  BY <1>1, <1>2 DEF ChairOK, ChairRow
<1>4. DOMAIN new = {c} /\ new[c] = row
  OBVIOUS
<1> HIDE DEF new, row
<1>5. Lawful(r, new)
  BY <1>1, <1>2, <1>3, <1>4, RowsApart DEF Lawful, Moves, Gone, ChairOK, ChairRow
<1>6. serial => Good(View(r)')
  BY <1>1, <1>3, <1>4, <1>5, InPlace, RowsApart
<1>7. QED
  BY <1>1, <1>5, <1>6, WriteInv DEF PcState

LEMMA MemberRowsInv ==
  ASSUME IInv, NEW r \in Req, NEW from, NEW to \in {"commit", "memberInsert"}, NEW S \in SUBSET Branch,
         NEW n \in Nat, Go(r, from, to), from # "idle", loc[r].user \in User,
         Write(r, [x \in {Member(loc[r].user, b) : b \in S} |-> n]),
         UNCHANGED <<loc, serial, started>>
  PROVE  IInv'
<1> DEFINE new == [x \in {Member(loc[r].user, b) : b \in S} |-> n]
<1>1. /\ DOMAIN new \subseteq Row /\ DOMAIN new \cap (Branch \cup Chair) = {}
      /\ \A b \in Branch, l \in Label : LabelKey(b, l) \notin DOMAIN new
      /\ \A x \in DOMAIN new : new[x] \in Nat
  BY RowsApart
<1>2. Write(r, new)
  OBVIOUS
<1> HIDE DEF new
<1>3. Lawful(r, new)
  BY <1>1 DEF Lawful
<1>4. pc[r] # "idle"
  BY DEF Go
<1>5. serial => Good(View(r)')
  BY <1>1, <1>2, <1>3, <1>4, InPlace
<1>6. QED
  BY <1>2, <1>3, <1>5, WriteInv DEF PcState

(* replaceForUser finds its rows.                                          *)
LEMMA MemberFindInv ==
  ASSUME IInv, NEW r \in Req, MemberFind(r)
  PROVE  IInv'
<1> DEFINE f == [b \in Branch |-> View(r)[Member(loc[r].user, b)]]
           l == [loc[r] EXCEPT !.found = f]
<1>1. /\ DbInv' /\ (\A q \in Req : Keeps(q)) /\ db' = db /\ holder' = holder
      /\ View(r)' = View(r)
  BY Stutter DEF IInv, MemberFind
<1>2. pc[r] = "memberFind" /\ pc' = [pc EXCEPT ![r] = "memberDelete"] /\ loc[r].user \in User
      /\ loc[r] \in Local
  BY DEF MemberFind, Go, IInv, LocOK, RestInv
<1>3. f \in [Branch -> Nat]
  BY <1>2, ViewTypes, RowsApart DEF IInv, RowsOK
<1> HIDE DEF f
<1>4. l \in Local /\ l.user = loc[r].user
  BY <1>2, <1>3 DEF Local
<1>5. loc' = [loc EXCEPT ![r] = l] /\ UNCHANGED <<serial, started>>
  BY DEF MemberFind, f
<1> HIDE DEF l
<1>6. RestInv' /\ Others(r) /\ pc'[r] = "memberDelete" /\ loc'[r] = l
  BY <1>2, <1>4, <1>5 DEF IInv, RestInv, Others, PcState
<1>7. LocOK(r)'
  BY <1>2, <1>4, <1>6 DEF LocOK
<1>8. serial => Good(db)' /\ SerialOK(r)'
  BY <1>1, <1>2, <1>6 DEF IInv, SerialInv, SerialOK, Good
<1>9. QED
  BY <1>1, <1>2, <1>5, <1>6, <1>7, <1>8, StepInv

(* A salon that has more than one branch has another than the one asked.   *)
LEMMA Another ==
  ASSUME NEW S, NEW b, Cardinality(S) > 1
  PROVE  \E d \in S : d # b
<1> SUFFICES ASSUME \A d \in S : d = b PROVE FALSE
  OBVIOUS
<1>1. S = {} \/ S = {b}
  OBVIOUS
<1>2. Cardinality({}) = 0 /\ Cardinality({b}) = 1
  BY FS_EmptySet, FS_Singleton
<1>3. QED
  BY <1>1, <1>2

LEMMA RefuseInv ==
  ASSUME IInv, NEW r \in Req, NEW from, Refuse(r, from), from # "idle"
  PROVE  IInv'
BY EndInv DEF Refuse, Go

LEMMA DeleteCountInv ==
  ASSUME IInv, NEW r \in Req, DeleteCount(r)
  PROVE  IInv'
<1>1. CASE Refuse(r, "deleteCount")
  BY <1>1, RefuseInv
<1>2. CASE Cardinality(LiveBranches(r)) > 1 /\ Pass(r, "deleteCount", "deleteChairs")
  <2>0. \E b \in LiveBranches(r) : b # loc[r].branch
    BY <1>2, Another
  <2>1. \E b \in Branch \ {loc[r].branch} : View(r)[b].st = "live"
    BY <2>0 DEF LiveBranches
  <2>2. loc[r].branch \in Branch /\ (serial => SerialOK(r)) /\ pc[r] = "deleteCount"
    BY <1>2 DEF Pass, Go, IInv, LocOK, SerialInv
  <2>3. QED
    BY <1>2, <2>1, <2>2, PassInv DEF PcState, LocOK, SerialOK
<1>3. QED
  BY <1>1, <1>2 DEF DeleteCount

LEMMA DeleteChairsInv ==
  ASSUME IInv, NEW r \in Req, DeleteChairs(r)
  PROVE  IInv'
<1>1. CASE Refuse(r, "deleteChairs")
  BY <1>1, RefuseInv
<1>2. CASE LiveChairs(r, loc[r].branch) = {} /\ Pass(r, "deleteChairs", "branchDelete")
  <2>1. loc[r].branch \in Branch /\ (serial => SerialOK(r)) /\ pc[r] = "deleteChairs"
    BY <1>2 DEF Pass, Go, IInv, LocOK, SerialInv
  <2>2. QED
    BY <1>2, <2>1, PassInv DEF PcState, LocOK, SerialOK, LiveChairs
<1>3. QED
  BY <1>1, <1>2 DEF DeleteChairs

LEMMA ChairLabelInv ==
  ASSUME IInv, NEW r \in Req, ChairLabel(r)
  PROVE  IInv'
<1>1. CASE Refuse(r, "chairLabel")
  BY <1>1, RefuseInv
<1>2. pc[r] = "chairLabel" => LocOK(r) /\ (serial => SerialOK(r))
  BY DEF IInv, SerialInv
<1>3. CASE loc[r].op = "createChair" /\ Pass(r, "chairLabel", "chairInsert")
  <2>1. pc[r] = "chairLabel"
    BY <1>3 DEF Pass, Go
  <2>2. QED
    BY <1>2, <1>3, <2>1, PassInv DEF PcState, LocOK, SerialOK
<1>4. CASE loc[r].op # "createChair" /\ Pass(r, "chairLabel", "chairWrite")
  <2>1. pc[r] = "chairLabel"
    BY <1>4 DEF Pass, Go
  <2>2. QED
    BY <1>2, <1>4, <2>1, PassInv DEF PcState, LocOK, SerialOK
<1>5. QED
  BY <1>1, <1>3, <1>4 DEF ChairLabel

LEMMA ContinueInv ==
  ASSUME IInv, NEW r \in Req, Continue(r)
  PROVE  IInv'
<1>1. CASE LabelTaken(r)
  BY <1>1, RefuseInv DEF LabelTaken
<1>2. CASE MemberThere(r)
  BY <1>2, RefuseInv DEF MemberThere
<1>3. CASE MemberDelete(r)
  <2> DEFINE there == {b \in {d \in Branch : loc[r].found[d] # Out} :
                         View(r)[Member(loc[r].user, b)] = loc[r].found[b]}
  <2>1. loc[r].user \in User /\ there \in SUBSET Branch
    BY <1>3 DEF MemberDelete, Go, IInv, LocOK
  <2>2. PICK to \in {"commit", "memberInsert"} : Go(r, "memberDelete", to)
    BY <1>3 DEF MemberDelete
  <2>3. Write(r, [x \in {Member(loc[r].user, b) : b \in there} |-> Out])
        /\ UNCHANGED <<loc, serial, started>>
    BY <1>3 DEF MemberDelete
  <2>4. Out \in Nat
    BY DEF Out
  <2> HIDE DEF there
  <2>5. QED
    BY <2>1, <2>2, <2>3, <2>4, MemberRowsInv
<1>4. CASE MemberInsert(r)
  <2>1. loc[r].user \in User /\ loc[r].wanted \in SUBSET Branch /\ loc[r].nr \in Nat
    BY <1>4 DEF MemberInsert, Go, IInv, LocOK, RestInv, Local
  <2>2. Go(r, "memberInsert", "commit") /\ UNCHANGED <<loc, serial, started>>
        /\ Write(r, [x \in {Member(loc[r].user, b) : b \in loc[r].wanted} |-> loc[r].nr])
    BY <1>4 DEF MemberInsert
  <2>3. QED
    BY <2>1, <2>2, MemberRowsInv
<1>5. CASE Commit(r)
  BY <1>5, EndInv DEF Commit, Go
<1>6. QED
  BY <1>1, <1>2, <1>3, <1>4, <1>5, BranchInsertInv, BranchWriteInv, DeleteCountInv, DeleteChairsInv,
     BranchDeleteInv, ChairLabelInv, ChairInsertInv, ChairWriteInv, ChairRetireInv, MemberFindInv
     DEF Continue

-----------------------------------------------------------------------------
(* The theorems.                                                           *)

LEMMA InitInv == Init => IInv
<1> SUFFICES ASSUME Init PROVE IInv
  OBVIOUS
<1> USE DEF Init
<1>1. DOMAIN db = Row /\ dirty = db /\ holder = [x \in Row |-> None]
  BY DEF InitDb
<1>2. /\ \A b \in Branch : db[b] = IF b = FirstBranch THEN [st |-> "live", active |-> "on"] ELSE NoBranch
      /\ \A c \in Chair : db[c] = NoChair
      /\ \A b \in Branch, l \in Label : db[LabelKey(b, l)] = None
      /\ \A u \in User, b \in Branch : db[Member(u, b)] \in {1, Out}
  BY RowsApart DEF InitDb, LabelKey, Member
<1>3. RowsOK(db)
  BY <1>2 DEF RowsOK, BranchRow, NoBranch, ChairOK, ChairRow, NoChair, Out
<1>4. DbInv
  BY <1>1, <1>3 DEF DbInv, RowsMove, Moves
<1>5. Idle \in Local
  BY IdleLocal
<1>6. RestInv
  BY <1>5, BranchesAssumption DEF RestInv, PcState
<1>7. IdleHolds
  BY <1>1, RowsApart DEF IdleHolds
<1>8. Good(db)
  BY <1>2, BranchesAssumption DEF Good, NoChair
<1>9. SerialInv /\ \A r \in Req : LocOK(r)
  BY <1>8 DEF SerialInv, SerialOK, LocOK
<1>10. QED
  BY <1>4, <1>6, <1>7, <1>9 DEF IInv

LEMMA UnchangedInv == IInv /\ UNCHANGED vars => IInv'
<1> SUFFICES ASSUME IInv, UNCHANGED vars PROVE IInv'
  OBVIOUS
<1>1. /\ DbInv' /\ db' = db /\ holder' = holder /\ \A r \in Req : View(r)' = View(r)
      /\ pc' = pc /\ loc' = loc /\ serial' = serial /\ started' = started
  BY Stutter DEF IInv, vars
<1>2. RestInv' /\ IdleHolds'
  BY <1>1 DEF IInv, RestInv, IdleHolds
<1>3. \A r \in Req : LocOK(r)'
  BY <1>1 DEF IInv, LocOK
<1>4. SerialInv'
  BY <1>1 DEF IInv, SerialInv, SerialOK, Good, LiveChairs
<1>5. QED
  BY <1>1, <1>2, <1>3, <1>4 DEF IInv

(* Pending writes are no step back from what is committed, a request       *)
(* updates rows that are there, and served alone it finds what its checks  *)
(* found (create-branch.ts to retire-chair.ts).                            *)
THEOREM BranchesInvariant == Spec => []IInv
<1>1. IInv /\ [Next]_vars => IInv'
  <2> SUFFICES ASSUME IInv, [Next]_vars PROVE IInv'
    OBVIOUS
  <2>1. CASE UNCHANGED vars
    BY <2>1, UnchangedInv
  <2>2. ASSUME NEW r \in Req, Abort(r)
        PROVE  IInv'
    BY <2>2, RefuseInv DEF Abort
  <2>3. QED
    BY <2>1, <2>2, StartInv, ContinueInv DEF Next
<1>2. QED
  BY InitInv, <1>1, PTL DEF Spec

(* Every variable keeps its type, and a row nobody has written has no      *)
(* pending version.                                                        *)
THEOREM TypeCorrect == Spec => []TypeOK
<1>1. IInv => TypeOK
  BY DEF IInv, DbInv, RestInv, RowsOK, ChairOK, TypeOK, RowOK
<1>2. QED
  BY BranchesInvariant, <1>1, PTL

(* Served one at a time, no request leaves a live chair in a deleted branch *)
(* or a salon without a branch (delete-branch.ts: the count and the chairs  *)
(* it checks before it deletes).                                            *)
THEOREM DeletionRulesWhenSerial == Spec => []SerialDeletionRules
<1>1. IInv => SerialDeletionRules
  BY DEF IInv, SerialInv, Good, SerialDeletionRules, NoOrphanChair, BranchRemains
<1>2. QED
  BY BranchesInvariant, <1>1, PTL

(* What a step does to the committed rows.                                 *)
LEMMA StepKeepsDb ==
  ASSUME IInv, [Next]_vars
  PROVE  KeepsDb
<1>1. CASE db' = db
  BY <1>1 DEF KeepsDb, RowsMove, Moves
<1>2. ASSUME NEW r \in Req, CommitTx(r)
      PROVE  KeepsDb
  BY <1>2, CommitEffect DEF IInv
<1>3. ASSUME NEW r \in Req, Start(r) PROVE db' = db
  BY <1>3 DEF Start, CreateBranch, UpdateBranch, DeleteBranch, CreateChair, UpdateChair, RetireChair,
     SetBranches, Enter, dbState
<1>4. ASSUME NEW r \in Req, Continue(r) \/ Abort(r) PROVE db' = db \/ CommitTx(r)
  BY <1>4 DEF Continue, Abort, BranchInsert, BranchWrite, DeleteCount, DeleteChairs, BranchDelete,
     ChairLabel, ChairInsert, ChairWrite, LabelTaken, ChairRetire, MemberFind, MemberDelete,
     MemberInsert, MemberThere, Commit, Refuse, Pass, Write, RollbackTx, dbState
<1>5. QED
  BY <1>1, <1>2, <1>3, <1>4 DEF Next, vars, dbState

(* A branch once deleted and a chair once retired stay so, whatever update  *)
(* or deletion found them before (branches.repo.ts and chairs.repo.ts      *)
(* update by id, deleted or not).                                          *)
THEOREM NothingRevived == Spec => NeverRevived
<1>1. IInv /\ [Next]_vars =>
        [/\ \A b \in Branch : db[b].st = "deleted" => db'[b].st = "deleted"
         /\ \A c \in Chair : db[c].st = "retired" => db'[c].st = "retired"]_vars
  BY StepKeepsDb DEF KeepsDb, RowsMove, Moves, Gone
<1>2. QED
  BY BranchesInvariant, <1>1, PTL DEF Spec, NeverRevived
=============================================================================
