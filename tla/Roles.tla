-------------------------------- MODULE Roles --------------------------------
(***************************************************************************)
(* Roles, their grants and the role of each member of one salon:           *)
(* src/backend/src/rbac, as transactions that interleave statement by      *)
(* statement.                                                              *)
(*                                                                         *)
(* Grants are of the permissions these requests need, none of which is     *)
(* scopable: a role has one or not.  Requests the first checks refuse      *)
(* change nothing and are left out.                                        *)
(***************************************************************************)
EXTENDS Naturals, FiniteSets

CONSTANTS
  Req,              \* requests served at the same time
  User,             \* members of the salon
  Role,             \* rows of `role` for custom roles
  Seeded,           \* a custom role created before
  Owner, Manager,   \* standard roles, which no request edits or deletes
  Perm,             \* permissions custom roles are granted; Owners have all
  Name,             \* names of custom roles
  SeededName,       \* that of the seeded role
  None,             \* no transaction, role, user or name
  MaxRequests       \* bound: requests ever served

RoleId == Role \cup {Owner, Manager}

ASSUME RolesAssumption ==
  /\ Seeded \in Role
  /\ SeededName \in Name
  /\ Perm \subseteq {"role:assign", "role:create", "role:update", "role:delete"}
  /\ Owner \notin Role /\ Manager \notin Role /\ Owner # Manager
  /\ None \notin Req \cup User \cup RoleId \cup Name
  /\ IsFiniteSet(User)
  /\ MaxRequests \in Nat

VARIABLES
  db, holder, dirty,
  pc,               \* next statement of each request
  loc,              \* what each request was asked and has read
  serial,           \* whether this deployment serves one request at a time
  started           \* requests served so far

(* Member: a user's row of `membership`, the role it names.  NameKey: the   *)
(* entry of the unique index on role names.  Grant: the row of              *)
(* role_permission for a role and a key, as the number of the request that  *)
(* inserted it, to tell a row from one inserted again later.                *)
Member(u)     == <<"member", u>>
NameKey(n)    == <<"name", n>>
Grant(ro, p)  == <<"grant", ro, p>>
Out == 0

(* The rows of `role` are none of these.                                   *)
ASSUME KeysAssumption ==
  /\ \A u \in User : Member(u) \notin Role
  /\ \A n \in Name : NameKey(n) \notin Role
  /\ \A ro \in Role, p \in Perm : Grant(ro, p) \notin Role

Row == Role \cup {Member(u) : u \in User} \cup {NameKey(n) : n \in Name}
         \cup {Grant(ro, p) : ro \in Role, p \in Perm}

INSTANCE ReadCommitted WITH Tx <- Req, NoTx <- None

dbState == <<db, holder, dirty>>
vars == <<dbState, pc, loc, serial, started>>

RoleRow == [st : {"absent", "live", "deleted"}, name : Name \cup {None}]

Idle == [op |-> "none", role |-> None, target |-> None, name |-> None,
         grants |-> {}, found |-> [p \in Perm |-> Out], nr |-> 0]

(* The salon has an Owner, and members that were given any of its roles.   *)
Init ==
  /\ \E m \in [User -> {Owner, Manager, Seeded}] :
       /\ \E u \in User : m[u] = Owner
       /\ InitDb([x \in Row |->
            IF x = Seeded THEN [st |-> "live", name |-> SeededName]
            ELSE IF x \in Role THEN [st |-> "absent", name |-> None]
            ELSE IF x[1] = "member" THEN m[x[2]]
            ELSE IF x[1] = "grant" THEN Out
            ELSE IF x[2] = SeededName THEN Seeded ELSE None])
  /\ pc = [r \in Req |-> "idle"]
  /\ loc = [r \in Req |-> Idle]
  /\ serial \in BOOLEAN
  /\ started = 0

-----------------------------------------------------------------------------
Go(r, from, to) == pc[r] = from /\ pc' = [pc EXCEPT ![r] = to]

(* A request enters its transaction; l is what it was asked.               *)
Enter(r, to, l) ==
  /\ started < MaxRequests
  /\ serial => \A q \in Req : pc[q] = "idle"
  /\ started' = started + 1
  /\ Go(r, "idle", to)
  /\ loc' = [loc EXCEPT ![r] = [l EXCEPT !.nr = started + 1]]
  /\ UNCHANGED <<dbState, serial>>

(* A check that comes later refuses it.                                    *)
Refuse(r, from) ==
  /\ Go(r, from, "idle")
  /\ RollbackTx(r)
  /\ loc' = [loc EXCEPT ![r] = Idle]
  /\ UNCHANGED <<serial, started>>

(* A check that it passes.                                                 *)
Pass(r, from, to) == Go(r, from, to) /\ UNCHANGED <<dbState, loc, serial, started>>

(* RolesRepo.findById.                                                     *)
LiveRoles(r) == {Owner, Manager} \cup {ro \in Role : View(r)[ro].st = "live"}

(* MembershipsRepo.findForUser joins the member with the role: a member    *)
(* whose role is gone is not found.                                        *)
RoleOf(r, u) == View(r)[Member(u)]
IsMember(r, u) == RoleOf(r, u) \in LiveRoles(r)

(* Authorize.can for a permission that is not scopable.                    *)
May(r, u, perm) ==
  \/ RoleOf(r, u) = Owner
  \/ /\ perm \in Perm
     /\ RoleOf(r, u) \in Role
     /\ IsMember(r, u)
     /\ View(r)[Grant(RoleOf(r, u), perm)] # Out

-----------------------------------------------------------------------------
(* AssignRole.execute: u gives member v the role ro.                       *)
AssignRole(r, u, v, ro) ==
  /\ May(r, u, "role:assign")
  /\ ro \in LiveRoles(r)
  /\ IsMember(r, v)
  /\ RoleOf(r, v) # ro
  /\ Enter(r, IF RoleOf(r, v) = Owner THEN "assignCount" ELSE "assignWrite",
           [Idle EXCEPT !.op = "assign", !.target = v, !.role = ro])

(* MembershipsRepo.countByRole.                                            *)
CountByRole(r, ro) == Cardinality({u \in User : View(r)[Member(u)] = ro})

(* Mutant: the count is compared with 0.                                   *)
AssignCountOffByOne(r) ==
  \/ CountByRole(r, Owner) < 1 /\ Refuse(r, "assignCount")
  \/ CountByRole(r, Owner) >= 1 /\ Pass(r, "assignCount", "assignWrite")

(* The last-owner rule.                                                    *)
AssignCount(r) ==
  \/ CountByRole(r, Owner) <= 1 /\ Refuse(r, "assignCount")
  \/ CountByRole(r, Owner) > 1 /\ Pass(r, "assignCount", "assignWrite")

(* MembershipsRepo.setRole: no condition on the role that was read.        *)
AssignWrite(r) ==
  /\ Go(r, "assignWrite", "commit")
  /\ Write(r, [x \in {Member(loc[r].target)} |-> loc[r].role])
  /\ UNCHANGED <<loc, serial, started>>

-----------------------------------------------------------------------------
(* CreateRole.execute.  Bound: there is a row left for it.                 *)
CreateRole(r, u, n, G) ==
  /\ May(r, u, "role:create")
  /\ Cardinality({ro \in Role : db[ro].st = "absent"}) > Cardinality({q \in Req : pc[q] # "idle"})
  /\ Enter(r, "nameCheck", [Idle EXCEPT !.op = "create", !.name = n, !.grants = G])

(* RolesRepo.findByName.                                                   *)
NameCheck(r) ==
  LET same == {ro \in Role : View(r)[ro].st = "live" /\ View(r)[ro].name = loc[r].name} IN
  \/ same # {} /\ Refuse(r, "nameCheck")
  \/ same = {} /\ Pass(r, "nameCheck", IF loc[r].op = "create" THEN "roleInsert" ELSE "rename")

(* RolesRepo.create: the role and its grants, rows nobody else sees yet.   *)
RoleInsert(r) ==
  \E ro \in Role :
    /\ Go(r, "roleInsert", "commit")
    /\ View(r)[ro].st = "absent"
    /\ View(r)[NameKey(loc[r].name)] = None
    /\ Write(r, [x \in {ro, NameKey(loc[r].name)} \cup {Grant(ro, p) : p \in loc[r].grants} |->
                   IF x = ro THEN [st |-> "live", name |-> loc[r].name]
                   ELSE IF x[1] = "name" THEN ro ELSE loc[r].nr])
    /\ UNCHANGED <<loc, serial, started>>

(* The index refuses the name: another request took it after the check.    *)
NameTaken(r) ==
  /\ pc[r] \in {"roleInsert", "rename"}
  /\ Unlocked(r, {NameKey(loc[r].name)})
  /\ View(r)[NameKey(loc[r].name)] \notin {loc[r].role, None}
  /\ Refuse(r, pc[r])

(* UpdateRole.execute.  It would take a patch without a name or without    *)
(* grants, but UpdateRoleDto marks neither @IsOptional and the             *)
(* ValidationPipe refuses such a patch.                                    *)
UpdateRole(r, u, ro, n, G) ==
  /\ May(r, u, "role:update")
  /\ View(r)[ro].st = "live"
  /\ Enter(r, IF n # View(r)[ro].name THEN "nameCheck" ELSE "grantFind",
           [Idle EXCEPT !.op = "update", !.role = ro, !.name = n, !.grants = G])

(* Mutant: the role found before is written back with its new name.        *)
RenameWriteBack(r) ==
  /\ Go(r, "rename", "grantFind")
  /\ View(r)[NameKey(loc[r].name)] \in {loc[r].role, None}
  /\ Write(r, [x \in {loc[r].role, NameKey(loc[r].name)} |->
                 IF x = loc[r].role THEN [st |-> "live", name |-> loc[r].name]
                 ELSE loc[r].role])
  /\ UNCHANGED <<loc, serial, started>>

(* RolesRepo.rename: an UPDATE that finds no row if the role is gone.       *)
Rename(r) ==
  LET ro == loc[r].role
      old == View(r)[ro]
  IN
  /\ Go(r, "rename", "grantFind")
  /\ Unlocked(r, {ro})
  /\ \/ /\ old.st = "live"
        /\ View(r)[NameKey(loc[r].name)] \in {ro, None}
        /\ Write(r, [x \in {ro, NameKey(loc[r].name), NameKey(old.name)} |->
                       IF x = ro THEN [st |-> "live", name |-> loc[r].name]
                       ELSE IF x = NameKey(loc[r].name) THEN ro ELSE None])
     \/ /\ old.st = "deleted"
        /\ UNCHANGED dbState
  /\ UNCHANGED <<loc, serial, started>>

(* RolesRepo.replaceGrants and delete: DELETE the role's grants finds them  *)
GrantFind(r) ==
  LET ro == loc[r].role IN
  /\ Go(r, "grantFind", "grantDelete")
  /\ loc' = [loc EXCEPT ![r].found = [p \in Perm |-> View(r)[Grant(ro, p)]]]
  /\ UNCHANGED <<dbState, serial, started>>

AfterDelete(r) ==
  IF loc[r].op = "delete" THEN "roleDelete"
  ELSE IF loc[r].grants = {} THEN "commit" ELSE "grantInsert"

(* and, once no other transaction holds one, deletes those still there.    *)
GrantDelete(r) ==
  LET ro == loc[r].role
      found == {p \in Perm : loc[r].found[p] # Out}
      there == {p \in found : View(r)[Grant(ro, p)] = loc[r].found[p]}
  IN
  /\ Go(r, "grantDelete", AfterDelete(r))
  /\ Unlocked(r, {Grant(ro, p) : p \in found})
  /\ Write(r, [x \in {Grant(ro, p) : p \in there} |-> Out])
  /\ UNCHANGED <<loc, serial, started>>

(* Its INSERT fails if one of the new grants is there.                     *)
GrantInsert(r) ==
  LET rows == {Grant(loc[r].role, p) : p \in loc[r].grants} IN
  /\ Go(r, "grantInsert", "commit")
  /\ \A x \in rows : View(r)[x] = Out
  /\ Write(r, [x \in rows |-> loc[r].nr])
  /\ UNCHANGED <<loc, serial, started>>

GrantThere(r) ==
  /\ pc[r] = "grantInsert"
  /\ \E p \in loc[r].grants :
       LET x == Grant(loc[r].role, p) IN Unlocked(r, {x}) /\ View(r)[x] # Out
  /\ Refuse(r, "grantInsert")

-----------------------------------------------------------------------------
(* DeleteRole.execute.                                                     *)
DeleteRole(r, u, ro) ==
  /\ May(r, u, "role:delete")
  /\ View(r)[ro].st = "live"
  /\ Enter(r, "deleteCount", [Idle EXCEPT !.op = "delete", !.role = ro])

DeleteCount(r) ==
  \/ CountByRole(r, loc[r].role) > 0 /\ Refuse(r, "deleteCount")
  \/ CountByRole(r, loc[r].role) = 0 /\ Pass(r, "deleteCount", "grantFind")

(* RolesRepo.delete: the role, which another request may have deleted.     *)
RoleDelete(r) ==
  LET ro == loc[r].role
      old == View(r)[ro]
  IN
  /\ Go(r, "roleDelete", "commit")
  /\ Unlocked(r, {ro})
  /\ Write(r, [x \in IF old.st = "live" THEN {ro, NameKey(old.name)} ELSE {} |->
                 IF x = ro THEN [st |-> "deleted", name |-> None] ELSE None])
  /\ UNCHANGED <<loc, serial, started>>

-----------------------------------------------------------------------------
Commit(r) ==
  /\ Go(r, "commit", "idle")
  /\ CommitTx(r)
  /\ loc' = [loc EXCEPT ![r] = Idle]
  /\ UNCHANGED <<serial, started>>

(* A statement, the connection or the process fails; a transaction that    *)
(* PostgreSQL finds in a deadlock fails too.                               *)
Abort(r) == pc[r] # "idle" /\ Refuse(r, pc[r])

Start(r) ==
  \E u \in User :
    \/ \E v \in User, ro \in RoleId : AssignRole(r, u, v, ro)
    \/ \E n \in Name, G \in SUBSET Perm : CreateRole(r, u, n, G)
    \/ \E ro \in Role :
         \/ \E n \in Name, G \in SUBSET Perm : UpdateRole(r, u, ro, n, G)
         \/ DeleteRole(r, u, ro)

Continue(r) ==
  \/ AssignCount(r) \/ AssignWrite(r)
  \/ NameCheck(r) \/ RoleInsert(r) \/ NameTaken(r) \/ Rename(r)
  \/ GrantFind(r) \/ GrantDelete(r) \/ GrantInsert(r) \/ GrantThere(r)
  \/ DeleteCount(r) \/ RoleDelete(r)
  \/ Commit(r)

Next == \E r \in Req : Start(r) \/ Continue(r) \/ Abort(r)

Spec == Init /\ [][Next]_vars
-----------------------------------------------------------------------------
PcState == {"idle", "assignCount", "assignWrite", "nameCheck", "roleInsert", "rename",
            "grantFind", "grantDelete", "grantInsert", "deleteCount", "roleDelete", "commit"}

Local == [op : {"none", "assign", "create", "update", "delete"},
          role : RoleId \cup {None}, target : User \cup {None}, name : Name \cup {None},
          grants : SUBSET Perm, found : [Perm -> Nat], nr : Nat]

RowOK(t) ==
  /\ \A ro \in Role : t[ro] \in RoleRow
  /\ \A u \in User : t[Member(u)] \in RoleId
  /\ \A n \in Name : t[NameKey(n)] \in Role \cup {None}
  /\ \A ro \in Role, p \in Perm : t[Grant(ro, p)] \in Nat

(* Types of the variables; a row nobody has written has no dirty version.  *)
TypeOK ==
  /\ DOMAIN db = Row /\ DOMAIN dirty = Row
  /\ RowOK(db) /\ RowOK(dirty)
  /\ holder \in [Row -> Req \cup {None}]
  /\ \A x \in Row : holder[x] = None => dirty[x] = db[x]
  /\ pc \in [Req -> PcState]
  /\ loc \in [Req -> Local]
  /\ serial \in BOOLEAN
  /\ started \in 0..MaxRequests

-----------------------------------------------------------------------------
(* Properties that hold however requests interleave.                       *)

(* A deleted role stays so: a rename that found it before does not bring   *)
(* it back.                                                                *)
DeletedForGood ==
  [][\A ro \in Role : db[ro].st = "deleted" => db'[ro].st = "deleted"]_vars

-----------------------------------------------------------------------------
(* What the code's checks are for, true of requests served one at a time;  *)
(* without that condition READ COMMITTED lets two requests pass the same   *)
(* check.                                                                  *)

(* assign-role.ts: "the salon must always keep at least one Owner".        *)
OwnerRemains == \E u \in User : db[Member(u)] = Owner

(* There is no foreign key: a member whose role is gone is not found by    *)
(* any query that joins the two, and resolve-current-salon.ts refuses all  *)
(* that member's requests.                                                 *)
MembersHaveRoles ==
  \A u \in User : db[Member(u)] \in Role => db[db[Member(u)]].st = "live"

(* The rules of AssignRole and DeleteRole: an Owner remains, and the role  *)
(* of every member exists.                                                 *)
SerialMemberRules == serial => OwnerRemains /\ MembersHaveRoles
=============================================================================
