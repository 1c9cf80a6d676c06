------------------------------- MODULE Branches -------------------------------
(***************************************************************************)
(* Branches, chairs and the branches each member works in:                 *)
(* src/backend/src/tenancy and rbac/application/set-branch-memberships.ts, *)
(* as transactions of one salon that interleave statement by statement.    *)
(*                                                                         *)
(* Names, addresses and hours are left out; is_active is kept, because     *)
(* deleting a branch and retiring a chair clear it.  The salon, its        *)
(* members and their standard roles do not change here (see Roles).        *)
(* Requests the first checks refuse change nothing and are left out.       *)
(***************************************************************************)
EXTENDS Naturals, FiniteSets

CONSTANTS
  Req,              \* requests served at the same time
  Branch,           \* rows of `branch`
  FirstBranch,      \* the one CreateSalon made
  Chair,            \* rows of `chair`
  Label,            \* chair labels
  Owner,            \* members with the Owner role
  Manager,          \* members with the Manager role: branch:delete and
                    \* staff:manage not granted, branch:update and
                    \* chair:manage granted in their own branches
  None,             \* no transaction, branch, chair, label or member
  MaxRequests       \* bound: requests ever served

User == Owner \cup Manager

ASSUME BranchesAssumption ==
  /\ FirstBranch \in Branch
  /\ None \notin Req \cup Branch \cup Chair \cup Label \cup User
  /\ Owner \cap Manager = {}
  /\ Branch \cap Chair = {}
  /\ MaxRequests \in Nat

VARIABLES
  db, holder, dirty,
  pc,               \* next statement of each request
  loc,              \* what each request was asked and has read
  serial,           \* whether this deployment serves one request at a time
  started           \* requests served so far

(* A label is unique in its branch, and a member in a branch: these rows    *)
(* stand for the entries of chair_branch_label_key and of the unique index  *)
(* of branch_membership.  A membership that is there has the number of the  *)
(* request that inserted it, to tell a row from one inserted again later.   *)
LabelKey(b, l) == <<"label", b, l>>
Member(u, b)   == <<"member", u, b>>

Out == 0

(* The rows of the tables are no index entries.                            *)
ASSUME KeysAssumption ==
  /\ \A b \in Branch, l \in Label : LabelKey(b, l) \notin Branch \cup Chair
  /\ \A u \in User, b \in Branch : Member(u, b) \notin Branch \cup Chair

Row == Branch \cup Chair
         \cup {LabelKey(b, l) : b \in Branch, l \in Label}
         \cup {Member(u, b) : u \in User, b \in Branch}

INSTANCE ReadCommitted WITH Tx <- Req, NoTx <- None

dbState == <<db, holder, dirty>>
vars == <<dbState, pc, loc, serial, started>>

BranchRow == [st : {"absent", "live", "deleted"}, active : {"on", "off"}]
ChairRow  == [st : {"absent", "live", "retired"}, active : {"on", "off"},
              branch : Branch \cup {None}, label : Label \cup {None}]

NoBranch == [st |-> "absent", active |-> "off"]
NoChair  == [st |-> "absent", active |-> "off", branch |-> None, label |-> None]
Idle == [op |-> "none", user |-> None, branch |-> None, chair |-> None,
         label |-> None, active |-> "keep", found |-> [b \in Branch |-> Out],
         wanted |-> {}, nr |-> 0]

Init ==
  /\ InitDb([x \in Row |->
       IF x \in Branch THEN IF x = FirstBranch THEN [st |-> "live", active |-> "on"] ELSE NoBranch
       ELSE IF x \in Chair THEN NoChair
       ELSE IF x[1] = "label" THEN None
       ELSE IF x[2] \in Owner /\ x[3] = FirstBranch THEN 1 ELSE Out])
  /\ pc = [r \in Req |-> "idle"]
  /\ loc = [r \in Req |-> Idle]
  /\ serial \in BOOLEAN
  /\ started = 0

-----------------------------------------------------------------------------
Go(r, from, to) == pc[r] = from /\ pc' = [pc EXCEPT ![r] = to]

(* A request enters its transaction; l is what it was asked.               *)
Enter(r, to, l) ==
  /\ started < MaxRequests
  /\ serial => \A q \in Req : pc[q] = "idle"
  /\ started' = started + 1
  /\ Go(r, "idle", to)
  /\ loc' = [loc EXCEPT ![r] = [l EXCEPT !.nr = started + 2]]
  /\ UNCHANGED <<dbState, serial>>

(* Bound: a request that inserts a row starts when one is left for it.     *)
RoomIn(table) ==
  Cardinality({x \in table : db[x].st = "absent"}) > Cardinality({q \in Req : pc[q] # "idle"})

(* A check that comes later refuses it.                                    *)
Refuse(r, from) ==
  /\ Go(r, from, "idle")
  /\ RollbackTx(r)
  /\ loc' = [loc EXCEPT ![r] = Idle]
  /\ UNCHANGED <<serial, started>>

(* A check that it passes.                                                 *)
Pass(r, from, to) == Go(r, from, to) /\ UNCHANGED <<dbState, loc, serial, started>>

(* BranchesRepo.listForSalon, findById and countActive.                    *)
LiveBranches(r) == {b \in Branch : View(r)[b].st = "live"}

(* ChairsRepo.listForBranch.                                               *)
LiveChairs(r, b) == {c \in Chair : View(r)[c].st = "live" /\ View(r)[c].branch = b}

(* Authorize.can for a permission the Manager role has per branch.         *)
MayManage(r, u, b) == u \in Owner \/ View(r)[Member(u, b)] # Out

-----------------------------------------------------------------------------
(* CreateBranch.execute: the branch, and its creator's membership of it.   *)
CreateBranch(r, u) ==
  /\ RoomIn(Branch)
  /\ Enter(r, "branchInsert", [Idle EXCEPT !.op = "createBranch", !.user = u])

BranchInsert(r) ==
  \E b \in Branch :
    /\ Go(r, "branchInsert", "commit")
    /\ View(r)[b].st = "absent"
    /\ Write(r, [x \in {b, Member(loc[r].user, b)} |->
                   IF x = b THEN [st |-> "live", active |-> "on"] ELSE loc[r].nr])
    /\ UNCHANGED <<loc, serial, started>>

(* UpdateBranch.mutate; a = "keep" when the patch has no isActive.         *)
UpdateBranch(r, u, b, a) ==
  /\ b \in LiveBranches(r)
  /\ MayManage(r, u, b)
  /\ Enter(r, "branchWrite", [Idle EXCEPT !.op = "updateBranch", !.branch = b, !.active = a])

Patched(row, a) == [row EXCEPT !.active = IF a = "keep" THEN row.active ELSE a]

(* Mutant: the whole row found before is written back.                     *)
BranchWriteBack(r) ==
  LET b == loc[r].branch IN
  /\ Go(r, "branchWrite", "commit")
  /\ Write(r, [x \in {b} |-> Patched([st |-> "live", active |-> "on"], loc[r].active)])
  /\ UNCHANGED <<loc, serial, started>>

(* BranchesRepo.update: WHERE id and salon_id, deleted or not.             *)
BranchWrite(r) ==
  LET b == loc[r].branch IN
  /\ Go(r, "branchWrite", "commit")
  /\ Write(r, [x \in {b} |-> Patched(View(r)[b], loc[r].active)])
  /\ UNCHANGED <<loc, serial, started>>

(* DeleteBranch.execute.                                                   *)
DeleteBranch(r, u, b) ==
  /\ u \in Owner
  /\ b \in LiveBranches(r)
  /\ Enter(r, "deleteCount", [Idle EXCEPT !.op = "deleteBranch", !.branch = b])

DeleteCount(r) ==
  \/ Cardinality(LiveBranches(r)) <= 1 /\ Refuse(r, "deleteCount")
  \/ Cardinality(LiveBranches(r)) > 1 /\ Pass(r, "deleteCount", "deleteChairs")

(* Mutant: the chairs are not looked at.                                   *)
DeleteChairsIgnored(r) == Pass(r, "deleteChairs", "branchDelete")

DeleteChairs(r) ==
  LET chairs == LiveChairs(r, loc[r].branch) IN
  \/ chairs # {} /\ Refuse(r, "deleteChairs")
  \/ chairs = {} /\ Pass(r, "deleteChairs", "branchDelete")

(* BranchesRepo.softDelete: WHERE id and salon_id, deleted or not.         *)
BranchDelete(r) ==
  LET b == loc[r].branch IN
  /\ Go(r, "branchDelete", "commit")
  /\ Write(r, [x \in {b} |-> [st |-> "deleted", active |-> "off"]])
  /\ UNCHANGED <<loc, serial, started>>

-----------------------------------------------------------------------------
(* CreateChair.execute.                                                    *)
CreateChair(r, u, b, l) ==
  /\ RoomIn(Chair)
  /\ b \in LiveBranches(r)
  /\ MayManage(r, u, b)
  /\ Enter(r, "chairLabel",
           [Idle EXCEPT !.op = "createChair", !.branch = b, !.label = l])

(* ChairsRepo.findByLabel, which sees live chairs only.                    *)
ChairLabel(r) ==
  LET same == {c \in LiveChairs(r, loc[r].branch) : View(r)[c].label = loc[r].label} IN
  \/ same # {} /\ Refuse(r, "chairLabel")
  \/ same = {} /\ Pass(r, "chairLabel",
                        IF loc[r].op = "createChair" THEN "chairInsert" ELSE "chairWrite")

ChairInsert(r) ==
  LET b == loc[r].branch  l == loc[r].label IN
  \E c \in Chair :
    /\ Go(r, "chairInsert", "commit")
    /\ View(r)[c].st = "absent"
    /\ View(r)[LabelKey(b, l)] = None
    /\ Write(r, [x \in {c, LabelKey(b, l)} |->
                   IF x = c THEN [st |-> "live", active |-> "on", branch |-> b, label |-> l]
                   ELSE c])
    /\ UNCHANGED <<loc, serial, started>>

(* UpdateChair.execute; l = None and a = "keep" when the patch has no new   *)
(* label and no isActive (an empty patch is an error).                     *)
UpdateChair(r, u, c, l, a) ==
  LET chair == View(r)[c] IN
  /\ chair.st = "live"
  /\ MayManage(r, u, chair.branch)
  /\ l # None \/ a # "keep"
  /\ Enter(r, IF l \in {None, chair.label} THEN "chairWrite" ELSE "chairLabel",
           [Idle EXCEPT !.op = "updateChair", !.branch = chair.branch, !.chair = c,
                        !.label = l, !.active = a])

(* The label r's UPDATE or INSERT of a chair leaves there.                 *)
LabelWritten(r) ==
  IF loc[r].label = None THEN View(r)[loc[r].chair].label ELSE loc[r].label

(* ChairsRepo.update: WHERE id and salon_id, retired or not.  A new label   *)
(* leaves the old key and takes the new one.                               *)
ChairWrite(r) ==
  LET c == loc[r].chair
      old == View(r)[c]
      taken == LabelKey(old.branch, LabelWritten(r))
      left == LabelKey(old.branch, old.label)
  IN
  /\ Go(r, "chairWrite", "commit")
  /\ View(r)[taken] \in {c, None}
  /\ Write(r, [x \in {c, taken, left} |->
                 IF x = c THEN Patched([old EXCEPT !.label = LabelWritten(r)], loc[r].active)
                 ELSE IF x = taken THEN c ELSE None])
  /\ UNCHANGED <<loc, serial, started>>

(* The index refuses the label: a retired chair or another request has it.  *)
LabelTaken(r) ==
  /\ pc[r] \in {"chairInsert", "chairWrite"}
  /\ LET key == LabelKey(loc[r].branch, LabelWritten(r)) IN
     /\ Unlocked(r, {key})
     /\ View(r)[key] \notin {loc[r].chair, None}
  /\ Refuse(r, pc[r])

(* RetireChair.execute.                                                    *)
RetireChair(r, u, c) ==
  /\ View(r)[c].st = "live"
  /\ MayManage(r, u, View(r)[c].branch)
  /\ Enter(r, "chairRetire", [Idle EXCEPT !.op = "retireChair", !.chair = c])

(* ChairsRepo.softDelete: WHERE id and salon_id, retired or not.           *)
ChairRetire(r) ==
  LET c == loc[r].chair IN
  /\ Go(r, "chairRetire", "commit")
  /\ Write(r, [x \in {c} |-> [View(r)[c] EXCEPT !.st = "retired", !.active = "off"]])
  /\ UNCHANGED <<loc, serial, started>>

-----------------------------------------------------------------------------
(* SetBranchMemberships.execute for member u and branches W of the salon,  *)
(* one at least (@ArrayNotEmpty), deleted ones not excluded.               *)
SetBranches(r, u, W) ==
  /\ \A b \in W : View(r)[b].st # "absent"
  /\ Enter(r, "memberFind", [Idle EXCEPT !.op = "setBranches", !.user = u, !.wanted = W])

(* BranchMembershipsRepo.replaceForUser: its DELETE finds its rows ...     *)
MemberFind(r) ==
  /\ Go(r, "memberFind", "memberDelete")
  /\ loc' = [loc EXCEPT ![r].found = [b \in Branch |-> View(r)[Member(loc[r].user, b)]]]
  /\ UNCHANGED <<dbState, serial, started>>

(* ... and, once no other transaction holds one, deletes those still there. *)
MemberDelete(r) ==
  LET found == {b \in Branch : loc[r].found[b] # Out}
      there == {b \in found : View(r)[Member(loc[r].user, b)] = loc[r].found[b]}
  IN
  /\ Go(r, "memberDelete", IF loc[r].wanted = {} THEN "commit" ELSE "memberInsert")
  /\ Unlocked(r, {Member(loc[r].user, b) : b \in found})
  /\ Write(r, [x \in {Member(loc[r].user, b) : b \in there} |-> Out])
  /\ UNCHANGED <<loc, serial, started>>

(* Its INSERT fails if a row for one of the branches is there.              *)
MemberInsert(r) ==
  LET rows == {Member(loc[r].user, b) : b \in loc[r].wanted} IN
  /\ Go(r, "memberInsert", "commit")
  /\ \A x \in rows : View(r)[x] = Out
  /\ Write(r, [x \in rows |-> loc[r].nr])
  /\ UNCHANGED <<loc, serial, started>>

MemberThere(r) ==
  /\ pc[r] = "memberInsert"
  /\ \E b \in loc[r].wanted :
       LET x == Member(loc[r].user, b) IN Unlocked(r, {x}) /\ View(r)[x] # Out
  /\ Refuse(r, "memberInsert")

-----------------------------------------------------------------------------
(* The use case returns; its event was inserted by the same transaction.   *)
Commit(r) ==
  /\ Go(r, "commit", "idle")
  /\ CommitTx(r)
  /\ loc' = [loc EXCEPT ![r] = Idle]
  /\ UNCHANGED <<serial, started>>

(* A statement, the connection or the process fails.                       *)
Abort(r) == pc[r] # "idle" /\ Refuse(r, pc[r])

Start(r) ==
  \/ \E u \in User :
       \/ CreateBranch(r, u)
       \/ \E b \in Branch :
            \/ \E a \in {"on", "off", "keep"} : UpdateBranch(r, u, b, a)
            \/ DeleteBranch(r, u, b)
            \/ \E l \in Label : CreateChair(r, u, b, l)
       \/ \E c \in Chair :
            \/ \E l \in Label \cup {None}, a \in {"on", "off", "keep"} :
                 UpdateChair(r, u, c, l, a)
            \/ RetireChair(r, u, c)
  \/ \E u \in User, W \in SUBSET Branch \ {{}} : SetBranches(r, u, W)

Continue(r) ==
  \/ BranchInsert(r) \/ BranchWrite(r)
  \/ DeleteCount(r) \/ DeleteChairs(r) \/ BranchDelete(r)
  \/ ChairLabel(r) \/ ChairInsert(r) \/ ChairWrite(r) \/ LabelTaken(r) \/ ChairRetire(r)
  \/ MemberFind(r) \/ MemberDelete(r) \/ MemberInsert(r) \/ MemberThere(r)
  \/ Commit(r)

Next == \E r \in Req : Start(r) \/ Continue(r) \/ Abort(r)

Spec == Init /\ [][Next]_vars
-----------------------------------------------------------------------------
PcState == {"idle", "branchInsert", "branchWrite", "deleteCount", "deleteChairs",
            "branchDelete", "chairLabel", "chairInsert", "chairWrite", "chairRetire",
            "memberFind", "memberDelete", "memberInsert", "commit"}

Local == [op : {"none", "createBranch", "updateBranch", "deleteBranch", "createChair",
                "updateChair", "retireChair", "setBranches"},
          user : User \cup {None}, branch : Branch \cup {None},
          chair : Chair \cup {None}, label : Label \cup {None},
          active : {"on", "off", "keep"}, wanted : SUBSET Branch,
          found : [Branch -> Nat], nr : Nat]

RowOK(t) ==
  /\ \A b \in Branch : t[b] \in BranchRow
  /\ \A c \in Chair : t[c] \in ChairRow
  /\ \A b \in Branch, l \in Label : t[LabelKey(b, l)] \in Chair \cup {None}
  /\ \A u \in User, b \in Branch : t[Member(u, b)] \in Nat

(* Types of the variables; a row nobody has written has no dirty version.  *)
TypeOK ==
  /\ DOMAIN db = Row /\ DOMAIN dirty = Row
  /\ RowOK(db) /\ RowOK(dirty)
  /\ holder \in [Row -> Req \cup {None}]
  /\ \A x \in Row : holder[x] = None => dirty[x] = db[x]
  /\ pc \in [Req -> PcState]
  /\ loc \in [Req -> Local]
  /\ serial \in BOOLEAN
  /\ started \in 0..MaxRequests

-----------------------------------------------------------------------------
(* Properties that hold however requests interleave.                       *)

(* A deleted branch and a retired chair stay so: an update that found them *)
(* before they went writes its own columns only.                           *)
NeverRevived ==
  [][/\ \A b \in Branch : db[b].st = "deleted" => db'[b].st = "deleted"
     /\ \A c \in Chair : db[c].st = "retired" => db'[c].st = "retired"]_vars

-----------------------------------------------------------------------------
(* What the code's checks are for, true of requests served one at a time;  *)
(* without that condition READ COMMITTED lets two requests pass the same   *)
(* check.                                                                  *)

NoOrphanChair ==
  \A c \in Chair : db[c].st = "live" => db[db[c].branch].st = "live"

BranchRemains == \E b \in Branch : db[b].st = "live"

(* A live chair is in a live branch (delete-branch.ts: "Retire this        *)
(* branch's chairs before deleting it"), and one branch is always there    *)
(* ("A salon must keep at least one branch").                              *)
SerialDeletionRules == serial => NoOrphanChair /\ BranchRemains
=============================================================================
