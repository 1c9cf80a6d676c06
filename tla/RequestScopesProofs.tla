------------------------ MODULE RequestScopesProofs ------------------------
(***************************************************************************)
(* Safety of RequestScopes for any requests, ticks, pool, roles and number *)
(* of changes: types and the pool's accounts, the second salon, the        *)
(* streams that outlive their client, and checks whose statements see      *)
(* different rights.                                                       *)
(***************************************************************************)
EXTENDS RequestScopes, FiniteSetTheorems, TLAPS

Phases == InScope \cup Answered \cup {"never", "new", "keyed", "idle", "open", "ended"}

(* The pool: a holder that is in a scope waits at one place of the queue   *)
(* or has one connection.                                                  *)
NoRepeat == \A i, j \in 1..Len(queue) : queue[i] = queue[j] => i = j

PoolInv ==
  /\ phase \in [Holder -> Phases]
  /\ queue \in Seq(Holder) /\ NoRepeat
  /\ held \in SUBSET Holder /\ IsFiniteSet(held) /\ Cardinality(held) <= PoolSize
  /\ held \cap ToSet(queue) = {}
  /\ \A h \in Holder : phase[h] \in InScope <=> h \in held \cup ToSet(queue)

(* Everything else of TypeOK, and that a check sees no more changes than   *)
(* there were.                                                             *)
DataInv ==
  /\ topic \in [Streams -> {"salon", "branch"}]
  /\ listening \in SUBSET Streams /\ gone \in SUBSET Streams /\ unheard \in SUBSET gone
  /\ home \in BOOLEAN
  /\ rights \in IF home THEN Rights ELSE {NoRights}
  /\ created \in SUBSET Creates
  /\ changes \in 0..MaxChanges
  /\ before \in [Request -> SUBSET Request]
  /\ check \in [Holder -> [role : RoleId \cup {None}, had : BOOLEAN, moved : 0..MaxChanges]]
  /\ \A h \in Holder : check[h].moved <= changes

-----------------------------------------------------------------------------
(* What a queue holds after a holder has come or the first has left.       *)
LEMMA QueueGrows ==
  ASSUME PoolInv, NEW h \in Holder, h \notin ToSet(queue), queue' = Append(queue, h)
  PROVE  queue' \in Seq(Holder) /\ NoRepeat' /\ ToSet(queue') = ToSet(queue) \cup {h}
<1>1. /\ queue \in Seq(Holder)
      /\ queue' \in Seq(Holder) /\ Len(queue') = Len(queue) + 1
      /\ \A i \in 1..Len(queue) : queue'[i] = queue[i]
      /\ queue'[Len(queue) + 1] = h
  BY DEF PoolInv
<1>2. Len(queue) \in Nat
  BY <1>1
<1>3. \A i \in 1..Len(queue) : queue[i] # h
  BY DEF ToSet
<1>4. NoRepeat'
  BY <1>1, <1>2, <1>3 DEF PoolInv, NoRepeat
<1>5. \A x : x \in ToSet(queue') <=> x \in ToSet(queue) \cup {h}
  BY <1>1, <1>2 DEF ToSet
<1>6. QED
  BY <1>1, <1>4, <1>5

LEMMA QueueShrinks ==
  ASSUME PoolInv, queue # <<>>, queue' = Tail(queue)
  PROVE  /\ queue' \in Seq(Holder) /\ NoRepeat'
         /\ Head(queue) \in ToSet(queue)
         /\ ToSet(queue') = ToSet(queue) \ {Head(queue)}
<1>1. /\ queue \in Seq(Holder) /\ Len(queue) > 0 /\ Len(queue) \in Nat
      /\ queue' \in Seq(Holder) /\ Len(queue') = Len(queue) - 1
      /\ \A i \in 1..Len(queue') : queue'[i] = queue[i + 1]
      /\ Head(queue) = queue[1]
  BY DEF PoolInv
<1>2. NoRepeat'
  BY <1>1 DEF PoolInv, NoRepeat
<1>3. \A x : x \in ToSet(queue') => x \in ToSet(queue) \ {Head(queue)}
  BY <1>1 DEF PoolInv, NoRepeat, ToSet
<1>4. \A x : x \in ToSet(queue) \ {Head(queue)} => x \in ToSet(queue')
  <2> SUFFICES ASSUME NEW i \in 1..Len(queue), queue[i] # Head(queue)
               PROVE  \E j \in 1..Len(queue') : queue'[j] = queue[i]
    <3>1. DOMAIN queue = 1..Len(queue) /\ DOMAIN queue' = 1..Len(queue')
      BY <1>1
    <3>2. QED
      BY <3>1 DEF ToSet
  <2>1. i # 1 /\ i \in Nat
    BY <1>1
  <2>2. i - 1 \in 1..Len(queue') /\ (i - 1) + 1 = i
    BY <1>1, <2>1
  <2>3. queue'[i - 1] = queue[i]
    BY <1>1, <2>2
  <2>4. QED
    BY <2>2, <2>3
<1>5. Head(queue) \in ToSet(queue)
  BY <1>1 DEF ToSet
<1>6. QED
  BY <1>1, <1>2, <1>3, <1>4, <1>5

(* The pool hands out a connection only while it has one.                  *)
LEMMA GrantKeepsPool ==
  ASSUME PoolInv, Grant
  PROVE  PoolInv'
<1>1. /\ queue' \in Seq(Holder) /\ NoRepeat'
      /\ Head(queue) \in ToSet(queue)
      /\ ToSet(queue') = ToSet(queue) \ {Head(queue)}
  BY QueueShrinks DEF Grant
<1>2. ToSet(queue) \subseteq Holder
  BY DEF PoolInv, ToSet
<1>3. IsFiniteSet(held') /\ Cardinality(held') <= PoolSize
  <2>1. Head(queue) \notin held
    BY <1>1 DEF PoolInv
  <2>2. IsFiniteSet(held') /\ Cardinality(held') = Cardinality(held) + 1
    BY <2>1, FS_AddElement DEF PoolInv, Grant
  <2>3. Cardinality(held) \in Nat
    BY FS_CardinalityType DEF PoolInv
  <2>4. QED
    BY <2>2, <2>3, ScopesAssumption DEF Grant
<1>4. ToSet(queue)' = ToSet(queue')
  BY DEF ToSet
<1>5. QED
  BY <1>1, <1>2, <1>3, <1>4 DEF PoolInv, Grant

(* Who is in no scope may ask for a connection.                            *)
LEMMA AskKeepsPool ==
  ASSUME PoolInv, NEW h \in Holder, NEW p \in InScope, phase[h] \notin InScope, Ask(h, p)
  PROVE  PoolInv'
<1>1. h \notin held \cup ToSet(queue)
  BY DEF PoolInv
<1>2. queue' \in Seq(Holder) /\ NoRepeat' /\ ToSet(queue') = ToSet(queue) \cup {h}
  BY <1>1, QueueGrows DEF Ask
<1>3. ToSet(queue)' = ToSet(queue')
  BY DEF ToSet
<1>4. phase' \in [Holder -> Phases] /\ \A o \in Holder : phase'[o] = IF o = h THEN p ELSE phase[o]
  BY DEF PoolInv, Ask, Phases
<1>5. QED
  BY <1>1, <1>2, <1>3, <1>4 DEF PoolInv, Ask

LEMMA StatementKeepsPool ==
  ASSUME PoolInv, NEW h \in Holder, NEW p \in InScope, NEW q \in InScope, Statement(h, p, q)
  PROVE  PoolInv'
<1>1. phase' \in [Holder -> Phases] /\ \A o \in Holder : phase'[o] = IF o = h THEN q ELSE phase[o]
  BY DEF PoolInv, Statement, Phases
<1>2. ToSet(queue)' = ToSet(queue)
  BY DEF Statement, pool, ToSet
<1>3. QED
  BY <1>1, <1>2 DEF PoolInv, Statement, pool, NoRepeat

(* To give a connection back.                                              *)
LEMMA HeldShrinks ==
  ASSUME PoolInv, NEW h \in held, held' = held \ {h}
  PROVE  held' \in SUBSET Holder /\ IsFiniteSet(held') /\ Cardinality(held') <= PoolSize
<1>1. IsFiniteSet(held') /\ Cardinality(held') = Cardinality(held) - 1
  BY FS_RemoveElement DEF PoolInv
<1>2. Cardinality(held) \in Nat
  BY FS_CardinalityType DEF PoolInv
<1>3. QED
  BY <1>1, <1>2, ScopesAssumption DEF PoolInv

LEMMA NextScopeKeepsPool ==
  ASSUME PoolInv, NEW h \in Holder, NEW p \in InScope, NEW q \in InScope, NextScope(h, p, q)
  PROVE  PoolInv'
<1>1. h \notin ToSet(queue)
  BY DEF PoolInv, NextScope
<1>2. queue' \in Seq(Holder) /\ NoRepeat' /\ ToSet(queue') = ToSet(queue) \cup {h}
  BY <1>1, QueueGrows DEF NextScope
<1>3. held' \in SUBSET Holder /\ IsFiniteSet(held') /\ Cardinality(held') <= PoolSize
  BY HeldShrinks DEF NextScope
<1>4. ToSet(queue)' = ToSet(queue')
  BY DEF ToSet
<1>5. phase' \in [Holder -> Phases] /\ \A o \in Holder : phase'[o] = IF o = h THEN q ELSE phase[o]
  BY DEF PoolInv, NextScope, Phases
<1>6. QED
  BY <1>1, <1>2, <1>3, <1>4, <1>5 DEF PoolInv, NextScope

LEMMA EndScopeKeepsPool ==
  ASSUME PoolInv, NEW h \in Holder, NEW p \in InScope, NEW q \in Phases \ InScope,
         EndScope(h, p, q)
  PROVE  PoolInv'
<1>1. h \notin ToSet(queue)
  BY DEF PoolInv, EndScope
<1>2. ToSet(queue)' = ToSet(queue)
  BY DEF EndScope, ToSet
<1>3. held' \in SUBSET Holder /\ IsFiniteSet(held') /\ Cardinality(held') <= PoolSize
  BY HeldShrinks DEF EndScope
<1>4. phase' \in [Holder -> Phases] /\ \A o \in Holder : phase'[o] = IF o = h THEN q ELSE phase[o]
  BY DEF PoolInv, EndScope, Phases
<1>5. QED
  BY <1>1, <1>2, <1>3, <1>4 DEF PoolInv, EndScope, NoRepeat

(* Without a connection, from no scope to no scope.                        *)
LEMMA OutsideKeepsPool ==
  ASSUME PoolInv, NEW h \in Holder, NEW q \in Phases \ InScope, phase[h] \notin InScope,
         phase' = [phase EXCEPT ![h] = q], UNCHANGED pool
  PROVE  PoolInv'
<1>1. ToSet(queue)' = ToSet(queue)
  BY DEF pool, ToSet
<1>2. phase' \in [Holder -> Phases] /\ \A o \in Holder : phase'[o] = IF o = h THEN q ELSE phase[o]
  BY DEF PoolInv
<1>3. QED
  BY <1>1, <1>2 DEF PoolInv, pool, NoRepeat

-----------------------------------------------------------------------------
(* What each kind of step does to the pool.                                *)
LEMMA StepKeepsPool ==
  ASSUME PoolInv, NEW h \in Holder, Step(h)
  PROVE  PoolInv'
<1> USE StatementKeepsPool, NextScopeKeepsPool, EndScopeKeepsPool DEF InScope, Phases, Answered
<1>1. CASE h \in Creates /\ List(h)
  BY <1>1 DEF List, Refuse
<1>2. CASE h \in Creates /\ Bootstrap(h)
  BY <1>2 DEF Bootstrap
<1>3. CASE h \in Updates /\ Resolve(h)
  BY <1>3 DEF Resolve, Refuse
<1>4. CASE h \in Updates /\ Write(h)
  BY <1>4 DEF Write
<1>5. CASE h \in Streams /\ FindSalonOfBranch(h)
  BY <1>5 DEF FindSalonOfBranch, Refuse
<1>6. CASE h \in Streams /\ Open(h)
  BY <1>6 DEF Open
<1>7. CASE h \in Request /\ Guard(h)
  BY <1>7 DEF Guard, UseCase, Refuse
<1>8. CASE h \in Request /\ FindMember(h)
  BY <1>8 DEF FindMember, Refuse
<1>9. CASE h \in Request /\ FindGrants(h)
  BY <1>9 DEF FindGrants, Refuse
<1>10. CASE h \in Request /\ FindBranch(h)
  BY <1>10 DEF FindBranch, Refuse
<1>11. CASE h \in Tick /\ Fetch(h)
  BY <1>11 DEF Fetch
<1>12. QED
  BY <1>1, <1>2, <1>3, <1>4, <1>5, <1>6, <1>7, <1>8, <1>9, <1>10, <1>11 DEF Step

LEMMA PoolStep ==
  ASSUME PoolInv, [Next]_vars
  PROVE  PoolInv'
<1> USE DEF InScope, Phases, Answered
<1>1. ASSUME NEW h \in Holder, Fail(h)
      PROVE  PoolInv'
  BY <1>1, EndScopeKeepsPool DEF Fail
<1>2. ASSUME NEW r \in Request, Arrive(r)
      PROVE  PoolInv'
  BY <1>2, AskKeepsPool DEF Arrive, Holder
<1>3. ASSUME NEW r \in Streams, EndStream(r)
      PROVE  PoolInv'
  BY <1>3, OutsideKeepsPool DEF EndStream, Holder, Request
<1>4. ASSUME NEW r \in Streams, Reconnect(r)
      PROVE  PoolInv'
  BY <1>4, AskKeepsPool DEF Reconnect, Holder, Request
<1>5. ASSUME NEW r \in Streams, Leave(r)
      PROVE  PoolInv'
  <2>1. CASE phase[r] = "open"
    BY <1>5, <2>1, OutsideKeepsPool DEF Leave, Holder, Request
  <2>2. CASE phase[r] # "open"
    BY <1>5, <2>2 DEF Leave, pool, PoolInv, NoRepeat, ToSet
  <2>3. QED
    BY <2>1, <2>2
<1>6. ASSUME NEW t \in Tick, StartTick(t)
      PROVE  PoolInv'
  BY <1>6, AskKeepsPool DEF StartTick, Holder
<1>7. ASSUME NEW t \in Tick, Publish(t)
      PROVE  PoolInv'
  BY <1>7, EndScopeKeepsPool DEF Publish, Holder
<1>8. CASE Change \/ UNCHANGED vars
  <2>1. UNCHANGED <<pool, phase>>
    BY <1>8 DEF Change, vars
  <2>2. QED
    BY <2>1 DEF pool, PoolInv, NoRepeat, ToSet
<1>9. ASSUME NEW r \in Request, Claim(r)
      PROVE  PoolInv'
  <2>1. CASE Ask(r, UseCase(r))
    BY <1>9, <2>1, AskKeepsPool DEF Claim, UseCase, Holder
  <2>2. CASE /\ \E q \in {"refused", "failed"} : phase' = [phase EXCEPT ![r] = q]
             /\ UNCHANGED pool
    BY <1>9, <2>2, OutsideKeepsPool DEF Claim, Holder
  <2>3. QED
    BY <1>9, <2>1, <2>2 DEF Claim
<1>10. QED
  BY <1>1, <1>2, <1>3, <1>4, <1>5, <1>6, <1>7, <1>8, <1>9, GrantKeepsPool, StepKeepsPool DEF Next
-----------------------------------------------------------------------------
(* A change makes rights of rights, and changes one thing about them.      *)
LEMMA ChangedRights ==
  ASSUME NEW ri \in Rights, NEW rj \in Changed(ri)
  PROVE  /\ rj \in Rights
         /\ \/ rj.grant = ri.grant /\ rj.inBranch = ri.inBranch
            \/ rj.role = ri.role /\ rj.inBranch = ri.inBranch
            \/ rj.role = ri.role /\ rj.grant = ri.grant
<1> USE DEF Rights
<1>1. CASE \E ro \in RoleId : rj = [ri EXCEPT !.role = ro]
  BY <1>1
<1>2. CASE \E ro \in Custom, g \in Grants : rj = [ri EXCEPT !.grant[ro] = g]
  <2>1. PICK ro \in Custom, g \in Grants : rj = [ri EXCEPT !.grant[ro] = g]
    BY <1>2
  <2>2. [ri.grant EXCEPT ![ro] = g] \in [Custom -> Grants]
    OBVIOUS
  <2>3. rj = [ri EXCEPT !.grant = [ri.grant EXCEPT ![ro] = g]]
    BY <2>1
  <2>4. QED
    BY <2>2, <2>3
<1>3. CASE \E b \in BOOLEAN : rj = [ri EXCEPT !.inBranch = b]
  BY <1>3
<1>4. QED
  BY <1>1, <1>2, <1>3 DEF Changed

LEMMA MayType ==
  ASSUME NEW r, NEW ri
  PROVE  May(r, ri) \in BOOLEAN
BY DEF May

(* What every step that is not of a check leaves of it.                    *)
LEMMA ChecksKeepType ==
  ASSUME DataInv, NEW h \in Holder,
         check' = check \/ check' = [check EXCEPT ![h] = NoCheck],
         UNCHANGED changes
  PROVE  /\ check' \in [Holder -> [role : RoleId \cup {None}, had : BOOLEAN, moved : 0..MaxChanges]]
         /\ \A o \in Holder : check'[o].moved <= changes
<1>1. NoCheck \in [role : RoleId \cup {None}, had : BOOLEAN, moved : 0..MaxChanges]
  BY ScopesAssumption DEF NoCheck
<1>2. NoCheck.moved = 0
  BY DEF NoCheck
<1>3. QED
  BY <1>1, <1>2, ScopesAssumption DEF DataInv

LEMMA SeenChangeType ==
  ASSUME NEW k \in [role : RoleId \cup {None}, had : BOOLEAN, moved : 0..MaxChanges],
         NEW b \in BOOLEAN, NEW m \in 0..MaxChanges
  PROVE  /\ [k EXCEPT !.had = b, !.moved = m]
              \in [role : RoleId \cup {None}, had : BOOLEAN, moved : 0..MaxChanges]
         /\ [k EXCEPT !.had = b, !.moved = m].moved = m
OBVIOUS

LEMMA DataStep ==
  ASSUME PoolInv, DataInv, [Next]_vars
  PROVE  DataInv'
<1>1. ASSUME NEW h \in Holder, UNCHANGED <<stream, rights, changes, other>>,
             check' = check \/ check' = [check EXCEPT ![h] = NoCheck]
      PROVE  DataInv'
  BY <1>1, ChecksKeepType DEF DataInv, stream, other
<1>2. CASE Grant
  BY <1>2 DEF Grant, DataInv, stream, other
<1>3. ASSUME NEW h \in Holder, Step(h) \/ Fail(h)
      PROVE  DataInv'
  <2>1. CASE h \in Creates /\ Bootstrap(h)
    BY <2>1, ChecksKeepType DEF Bootstrap, EndScope, DataInv, stream
  <2>2. CASE h \in Streams /\ Open(h)
    <3>1. UNCHANGED <<topic, gone, rights, changes, other>>
      BY <2>2 DEF Open
    <3>2. listening' \in SUBSET Streams /\ unheard' \in SUBSET gone
      BY <2>2 DEF Open, DataInv
    <3>3. /\ check' \in [Holder -> [role : RoleId \cup {None}, had : BOOLEAN, moved : 0..MaxChanges]]
          /\ \A o \in Holder : check'[o].moved <= changes
      BY <2>2, <3>1, ChecksKeepType DEF Open, EndScope
    <3>4. QED
      BY <3>1, <3>2, <3>3 DEF DataInv, other
  <2>3. CASE h \in Request /\ FindMember(h)
    <3>1. CASE UNCHANGED <<stream, rights, changes, other>> /\ Refuse(h, "member")
      BY <1>1, <3>1 DEF Refuse, EndScope
    <3>2. ASSUME NEW ro \in RoleId,
                 UNCHANGED <<stream, rights, changes, other>>,
                 check' = [check EXCEPT ![h] = [role |-> ro, had |-> May(h, rights), moved |-> 0]]
          PROVE  DataInv'
      <4>1. PICK c \in [role : RoleId \cup {None}, had : BOOLEAN, moved : 0..MaxChanges] :
              c = [role |-> ro, had |-> May(h, rights), moved |-> 0]
        <5>1. PICK b \in BOOLEAN : b = May(h, rights)
          BY MayType
        <5>2. [role |-> ro, had |-> b, moved |-> 0]
                \in [role : RoleId \cup {None}, had : BOOLEAN, moved : 0..MaxChanges]
          BY ScopesAssumption
        <5>3. QED
          BY <5>1, <5>2
      <4>2. c.moved = 0
        BY <4>1
      <4>3. check' = [check EXCEPT ![h] = c]
        BY <3>2, <4>1
      <4>4. changes \in Nat
        BY DEF DataInv
      <4>5. QED
        BY <3>2, <4>2, <4>3, <4>4 DEF DataInv, stream, other
    <3> DEFINE ro == IF home THEN rights.role ELSE IF created # {} THEN Owner ELSE None
    <3>3. ro # None => ro \in RoleId
      BY DEF DataInv, Rights, RoleId
    <3>4. /\ UNCHANGED <<stream, rights, changes, other>>
          /\ \/ ro = None /\ Refuse(h, "member")
             \/ /\ ro # None
                /\ check' = [check EXCEPT ![h] = [role |-> ro, had |-> May(h, rights), moved |-> 0]]
      BY <2>3 DEF FindMember
    <3> HIDE DEF ro
    <3>5. QED
      BY <3>1, <3>2, <3>3, <3>4
  <2>4. CASE Fail(h)
    BY <1>1, <2>4 DEF Fail, EndScope
  <2>5. CASE \/ h \in Creates /\ List(h)
             \/ h \in Updates /\ (Resolve(h) \/ Write(h))
             \/ h \in Streams /\ FindSalonOfBranch(h)
             \/ h \in Request /\ (Guard(h) \/ FindGrants(h) \/ FindBranch(h))
             \/ h \in Tick /\ Fetch(h)
    BY <1>1, <2>5 DEF List, Resolve, Write, FindSalonOfBranch, Guard, FindGrants, FindBranch,
                      Fetch, Refuse, EndScope, NextScope
  <2>6. QED
    BY <1>3, <2>1, <2>2, <2>3, <2>4, <2>5 DEF Step
<1>4. ASSUME NEW r \in Request, Arrive(r) \/ Claim(r)
      PROVE  DataInv'
  BY <1>4 DEF Arrive, Claim, Ask, DataInv, stream, other
<1>5. ASSUME NEW r \in Streams, EndStream(r) \/ Reconnect(r) \/ Leave(r)
      PROVE  DataInv'
  BY <1>5 DEF EndStream, Reconnect, Leave, Ask, DataInv, stream, other
<1>6. ASSUME NEW t \in Tick, StartTick(t)
      PROVE  DataInv'
  BY <1>6 DEF StartTick, Ask, DataInv, stream, other
<1>7. ASSUME NEW t \in Tick, Publish(t)
      PROVE  DataInv'
  BY <1>1, <1>7 DEF Publish, EndScope, Holder
<1>8. CASE Change
  <2>1. PICK ri \in Changed(rights) :
          /\ rights' = ri
          /\ check' = [h \in Holder |->
                         IF phase[h] \in Checking
                         THEN [check[h] EXCEPT !.had = @ \/ May(h, ri), !.moved = @ + 1]
                         ELSE check[h]]
    BY <1>8 DEF Change
  <2>2. rights' \in Rights /\ home
    BY <1>8, <2>1, ChangedRights DEF Change, DataInv
  <2>3. changes' = changes + 1 /\ changes' \in 0..MaxChanges /\ changes \in Nat
    <3>1. MaxChanges \in Nat
      BY ScopesAssumption
    <3>2. changes \in 0..MaxChanges
      BY DEF DataInv
    <3>3. changes < MaxChanges /\ changes' = changes + 1
      BY <1>8 DEF Change
    <3>4. QED
      BY <3>1, <3>2, <3>3
  <2>4. ASSUME NEW h \in Holder
        PROVE  /\ check'[h] \in [role : RoleId \cup {None}, had : BOOLEAN, moved : 0..MaxChanges]
               /\ check'[h].moved <= changes'
    <3>1. CASE phase[h] \in Checking
      <4>1. check[h] \in [role : RoleId \cup {None}, had : BOOLEAN, moved : 0..MaxChanges]
        BY DEF DataInv
      <4>2. check[h].moved + 1 \in 0..MaxChanges /\ check[h].moved + 1 <= changes'
        <5>1. MaxChanges \in Nat
          BY ScopesAssumption
        <5>2. check[h].moved \in 0..MaxChanges /\ check[h].moved <= changes
          BY <4>1 DEF DataInv
        <5>3. QED
          BY <2>3, <5>1, <5>2
      <4>3. PICK b \in BOOLEAN : b = (check[h].had \/ May(h, ri))
        OBVIOUS
      <4>4. check'[h] = [check[h] EXCEPT !.had = b, !.moved = check[h].moved + 1]
        BY <2>1, <3>1, <4>3
      <4>5. QED
        BY <4>1, <4>2, <4>4, SeenChangeType
    <3>2. CASE phase[h] \notin Checking
      <4>1. check'[h] = check[h]
        BY <2>1, <3>2
      <4>2. /\ check[h] \in [role : RoleId \cup {None}, had : BOOLEAN, moved : 0..MaxChanges]
            /\ check[h].moved <= changes
        BY DEF DataInv
      <4>3. check[h].moved \in Nat
        BY <4>2, ScopesAssumption
      <4>4. QED
        BY <2>3, <4>1, <4>2, <4>3
    <3>3. QED
      BY <3>1, <3>2
  <2>5. check' \in [Holder -> [role : RoleId \cup {None}, had : BOOLEAN, moved : 0..MaxChanges]]
    BY <2>1, <2>4
  <2>6. UNCHANGED <<stream, other>>
    BY <1>8 DEF Change
  <2>7. QED
    BY <2>2, <2>3, <2>4, <2>5, <2>6 DEF DataInv, stream, other
<1>9. CASE UNCHANGED vars
  BY <1>9 DEF vars, DataInv, stream, other
<1>10. QED
  BY <1>2, <1>3, <1>4, <1>5, <1>6, <1>7, <1>8, <1>9 DEF Next
-----------------------------------------------------------------------------
(* Who comes by a salon was let through when there was none; whoever was   *)
(* answered before a request came has not created one during it.           *)
OverlapInv ==
  /\ SecondSalonByOverlap
  /\ \A c \in created : phase[c] = "done"
  /\ \A d \in Request : \A q \in before[d] : phase[q] \in Answered
  /\ \A d \in Creates : phase[d] = "bootstrap" => ~home /\ \A c \in created : c \notin before[d]

(* An answered request does nothing more, and a request is let through to  *)
(* create a salon only when there is none.                                 *)
LEMMA PhaseMoves ==
  ASSUME PoolInv, [Next]_vars, NEW o \in Holder
  PROVE  /\ phase[o] \in Answered => phase'[o] = phase[o]
         /\ phase'[o] = "bootstrap" => phase[o] = "bootstrap" \/ Salons = {}
<1> USE DEF Answered, PoolInv
<1>1. ASSUME NEW h \in Holder, Step(h)
      PROVE  /\ phase[o] \in Answered => phase'[o] = phase[o]
             /\ phase'[o] = "bootstrap" => phase[o] = "bootstrap" \/ Salons = {}
  <2>1. CASE h \in Creates /\ (List(h) \/ Bootstrap(h))
    BY <2>1 DEF List, Bootstrap, Refuse, NextScope, EndScope
  <2>2. CASE h \in Updates /\ (Resolve(h) \/ Write(h))
    BY <2>2 DEF Resolve, Write, Refuse, NextScope, EndScope
  <2>3. CASE h \in Streams /\ (FindSalonOfBranch(h) \/ Open(h))
    BY <2>3 DEF FindSalonOfBranch, Open, Refuse, NextScope, EndScope
  <2>4. CASE h \in Request /\ Guard(h)
    BY <2>4 DEF Guard, UseCase, Refuse, NextScope, EndScope
  <2>5. CASE h \in Request /\ FindMember(h)
    BY <2>5 DEF FindMember, Refuse, Statement, EndScope
  <2>6. CASE h \in Request /\ (FindGrants(h) \/ FindBranch(h))
    BY <2>6 DEF FindGrants, FindBranch, Refuse, Statement, EndScope
  <2>7. CASE h \in Tick /\ Fetch(h)
    BY <2>7 DEF Fetch, Statement, EndScope
  <2>8. QED
    BY <1>1, <2>1, <2>2, <2>3, <2>4, <2>5, <2>6, <2>7 DEF Step
<1>2. ASSUME NEW h \in Holder, Fail(h)
      PROVE  /\ phase[o] \in Answered => phase'[o] = phase[o]
             /\ phase'[o] = "bootstrap" => phase[o] = "bootstrap" \/ Salons = {}
  BY <1>2 DEF Fail, EndScope, InScope
<1>3. ASSUME NEW r \in Request, Arrive(r) \/ Claim(r)
      PROVE  /\ phase[o] \in Answered => phase'[o] = phase[o]
             /\ phase'[o] = "bootstrap" => phase[o] = "bootstrap" \/ Salons = {}
  BY <1>3 DEF Arrive, Claim, UseCase, Ask
<1>4. ASSUME NEW r \in Streams, EndStream(r) \/ Reconnect(r) \/ Leave(r)
      PROVE  /\ phase[o] \in Answered => phase'[o] = phase[o]
             /\ phase'[o] = "bootstrap" => phase[o] = "bootstrap" \/ Salons = {}
  BY <1>4 DEF EndStream, Reconnect, Leave, Ask
<1>5. ASSUME NEW t \in Tick, StartTick(t) \/ Publish(t)
      PROVE  /\ phase[o] \in Answered => phase'[o] = phase[o]
             /\ phase'[o] = "bootstrap" => phase[o] = "bootstrap" \/ Salons = {}
  BY <1>5 DEF StartTick, Publish, Ask, EndScope
<1>6. CASE Grant \/ Change \/ UNCHANGED vars
  BY <1>6 DEF Grant, Change, vars
<1>7. QED
  BY <1>1, <1>2, <1>3, <1>4, <1>5, <1>6 DEF Next

(* A salon is created by who was let through, and by nobody else.          *)
LEMMA CreatedMoves ==
  ASSUME [Next]_vars
  PROVE  /\ home' = home
         /\ \/ created' = created
            \/ \E r \in Creates : /\ phase[r] = "bootstrap" /\ phase' = [phase EXCEPT ![r] = "done"]
                                 /\ created' = created \cup {r} /\ before' = before
<1>1. ASSUME NEW h \in Holder, Step(h)
      PROVE  \/ UNCHANGED <<home, created>>
             \/ h \in Creates /\ Bootstrap(h)
  BY <1>1 DEF Step, List, Resolve, Write, FindSalonOfBranch, Open, Guard, FindMember,
              FindGrants, FindBranch, Fetch, other
<1>2. ASSUME NEW h \in Creates, Bootstrap(h)
      PROVE  /\ UNCHANGED <<home, before>> /\ created' = created \cup {h}
             /\ phase[h] = "bootstrap" /\ phase' = [phase EXCEPT ![h] = "done"]
  BY <1>2 DEF Bootstrap, EndScope
<1>3. CASE \/ Grant \/ Change \/ UNCHANGED vars
           \/ \E h \in Holder : Fail(h)
           \/ \E r \in Request : Arrive(r) \/ Claim(r)
           \/ \E r \in Streams : EndStream(r) \/ Reconnect(r) \/ Leave(r)
           \/ \E t \in Tick : StartTick(t) \/ Publish(t)
  BY <1>3 DEF Grant, Change, vars, Fail, Arrive, Claim, EndStream, Reconnect, Leave, StartTick,
              Publish, other
<1>4. QED
  BY <1>1, <1>2, <1>3 DEF Next

(* Only its arrival notes who was answered before a request.               *)
LEMMA BeforeMoves ==
  ASSUME [Next]_vars
  PROVE  before' = before \/ \E r \in Request : Arrive(r)
<1>1. ASSUME NEW h \in Holder, Step(h)
      PROVE  before' = before
  BY <1>1 DEF Step, List, Bootstrap, Resolve, Write, FindSalonOfBranch, Open, Guard, FindMember,
              FindGrants, FindBranch, Fetch, other
<1>2. QED
  BY <1>1 DEF Next, Grant, Change, vars, Fail, Claim, EndStream, Reconnect, Leave, StartTick,
              Publish, other

LEMMA OverlapStep ==
  ASSUME PoolInv, DataInv, OverlapInv, [Next]_vars
  PROVE  OverlapInv'
<1> USE DEF OverlapInv, SecondSalonByOverlap
<1>1. created \subseteq Creates /\ Creates \subseteq Request /\ Request \subseteq Holder
  BY DEF DataInv, Request, Holder
<1>2. before \in [Request -> SUBSET Request]
  BY DEF DataInv
<1>3. ASSUME NEW o \in Request
      PROVE  /\ phase[o] \in Answered => phase'[o] \in Answered
             /\ phase[o] = "done" => phase'[o] = "done"
             /\ phase'[o] = "bootstrap" => phase[o] = "bootstrap" \/ Salons = {}
  <2>1. o \in Holder
    BY <1>1
  <2>2. /\ phase[o] \in Answered => phase'[o] = phase[o]
        /\ phase'[o] = "bootstrap" => phase[o] = "bootstrap" \/ Salons = {}
    BY <2>1, PhaseMoves
  <2>3. QED
    BY <2>2 DEF Answered
<1>4. Salons = {} => created = {} /\ ~home
  BY DEF Salons
<1>5. "done" \in Answered /\ "bootstrap" \notin Answered
  BY DEF Answered
<1>6. ASSUME NEW r \in Request, Arrive(r)
      PROVE  OverlapInv'
  <2>1. /\ phase[r] = "new" /\ phase' = [phase EXCEPT ![r] = "guard"]
        /\ before' = [before EXCEPT ![r] = {q \in Request : phase[q] \in Answered}]
        /\ UNCHANGED <<home, created>>
    BY <1>6 DEF Arrive, Ask
  <2>2. r \notin created /\ r \in Holder /\ phase \in [Holder -> Phases]
    BY <1>1, <2>1 DEF PoolInv
  <2>3. /\ \A d \in Request \ {r} : before'[d] = before[d] /\ phase'[d] = phase[d]
        /\ before'[r] = {q \in Request : phase[q] \in Answered}
        /\ phase'[r] = "guard" /\ "new" \notin Answered
    BY <1>1, <1>2, <2>1, <2>2 DEF Answered
  <2>4. \A d \in Request : \A q \in before'[d] : q \in Request /\ phase[q] \in Answered
    BY <1>2, <2>3
  <2>5. \A q \in Request : phase[q] \in Answered => phase'[q] \in Answered
    BY <2>1, <2>3
  <2>6. \A d \in Request : \A q \in before'[d] : phase'[q] \in Answered
    BY <2>4, <2>5
  <2>7. \A c \in created : c # r /\ c \in Request /\ before'[c] = before[c] /\ phase'[c] = "done"
    BY <1>1, <2>2, <2>3
  <2>8. \A d \in Creates : phase'[d] = "bootstrap" => phase[d] = "bootstrap" /\ before'[d] = before[d]
    BY <1>1, <2>3
  <2>9. QED
    BY <2>1, <2>6, <2>7, <2>8
<1>7. CASE before' = before
  <2>1. \A d \in Request : \A q \in before'[d] : phase'[q] \in Answered
    <3>1. \A d \in Request : \A q \in before'[d] : q \in Request /\ phase[q] \in Answered
      BY <1>2, <1>7
    <3>2. \A q \in Request : phase[q] \in Answered => phase'[q] \in Answered
      BY <1>3
    <3>3. QED
      BY <3>1, <3>2
  <2>2. CASE created' = created
    <3>1. \A c \in created : phase'[c] = "done"
      <4>1. \A c \in created : c \in Request /\ phase[c] = "done"
        BY <1>1
      <4>2. QED
        BY <1>3, <1>5, <4>1
    <3>2. home' = home
      BY CreatedMoves
    <3>3. \A d \in Creates : phase'[d] = "bootstrap" =>
                             ~home /\ \A c \in created : c \notin before[d]
      BY <1>1, <1>3, <1>4
    <3>4. QED
      BY <1>7, <2>1, <2>2, <3>1, <3>2, <3>3
  <2>3. ASSUME NEW r \in Creates, phase[r] = "bootstrap", phase' = [phase EXCEPT ![r] = "done"],
               created' = created \cup {r}
        PROVE  OverlapInv'
    <3>1. \A d \in Request : r \notin before[d]
      BY <1>5, <2>3
    <3>2. ~home /\ home' = home
      BY <2>3, CreatedMoves
    <3>3. phase'[r] = "done"
      BY <1>1, <2>3 DEF PoolInv
    <3>4. \A c \in created : phase'[c] = "done"
      <4>1. \A c \in created : c \in Request /\ phase[c] = "done"
        BY <1>1
      <4>2. QED
        BY <1>3, <1>5, <4>1
    <3>5. \A d \in Creates : phase'[d] = "bootstrap" => phase[d] = "bootstrap"
      BY <1>1, <2>3 DEF PoolInv
    <3>6. QED
      BY <1>1, <1>7, <2>1, <2>3, <3>1, <3>2, <3>3, <3>4, <3>5
  <2>4. QED
    BY <2>2, <2>3, CreatedMoves
<1>8. QED
  BY <1>6, <1>7, BeforeMoves
-----------------------------------------------------------------------------
(* A subscription ends with its stream, and a stream that is subscribed is *)
(* open or was left before the handler asked to be told.                   *)
LEMMA ListenersStep ==
  ASSUME PoolInv, DataInv, ListenersHaveClients, [Next]_vars
  PROVE  ListenersHaveClients'
<1> USE DEF ListenersHaveClients
<1>1. listening \subseteq Streams /\ Streams \subseteq Holder /\ phase \in [Holder -> Phases]
  BY DEF DataInv, PoolInv, Request, Holder
<1>2. ASSUME NEW h \in Holder, NEW q, phase[h] # "open", phase' = [phase EXCEPT ![h] = q],
             UNCHANGED stream
      PROVE  ListenersHaveClients'
  BY <1>1, <1>2 DEF stream
<1>3. ASSUME NEW h \in Holder, Step(h)
      PROVE  ListenersHaveClients'
  <2>1. CASE h \in Creates /\ (List(h) \/ Bootstrap(h))
    BY <1>2, <2>1 DEF List, Bootstrap, Refuse, NextScope, EndScope
  <2>2. CASE h \in Updates /\ (Resolve(h) \/ Write(h))
    BY <1>2, <2>2 DEF Resolve, Write, Refuse, NextScope, EndScope
  <2>3. CASE h \in Streams /\ FindSalonOfBranch(h)
    BY <1>2, <2>3 DEF FindSalonOfBranch, Refuse, NextScope, EndScope
  <2>4. CASE h \in Streams /\ Open(h)
    BY <1>1, <2>4 DEF Open, EndScope
  <2>5. CASE h \in Request /\ Guard(h)
    BY <1>2, <2>5 DEF Guard, UseCase, Refuse, NextScope, EndScope
  <2>6. CASE h \in Request /\ FindMember(h)
    BY <1>2, <2>6 DEF FindMember, Refuse, Statement, EndScope
  <2>7. CASE h \in Request /\ (FindGrants(h) \/ FindBranch(h))
    BY <1>2, <2>7 DEF FindGrants, FindBranch, Refuse, Statement, EndScope
  <2>8. CASE h \in Tick /\ Fetch(h)
    BY <1>2, <2>8 DEF Fetch, Statement, EndScope
  <2>9. QED
    BY <1>3, <2>1, <2>2, <2>3, <2>4, <2>5, <2>6, <2>7, <2>8 DEF Step
<1>4. ASSUME NEW h \in Holder, Fail(h)
      PROVE  ListenersHaveClients'
  BY <1>2, <1>4 DEF Fail, EndScope, InScope
<1>5. ASSUME NEW r \in Request, Arrive(r) \/ Claim(r)
      PROVE  ListenersHaveClients'
  BY <1>2, <1>5 DEF Arrive, Claim, Ask, Holder
<1>6. ASSUME NEW r \in Streams, EndStream(r) \/ Reconnect(r) \/ Leave(r)
      PROVE  ListenersHaveClients'
  BY <1>1, <1>6 DEF EndStream, Reconnect, Leave, Ask, stream
<1>7. ASSUME NEW t \in Tick, StartTick(t) \/ Publish(t)
      PROVE  ListenersHaveClients'
  BY <1>2, <1>7 DEF StartTick, Publish, Ask, EndScope, Holder
<1>8. CASE Grant \/ Change \/ UNCHANGED vars
  BY <1>8 DEF Grant, Change, vars, stream
<1>9. QED
  BY <1>3, <1>4, <1>5, <1>6, <1>7, <1>8 DEF Next

-----------------------------------------------------------------------------
(* The requests whose check asks for a permission.                         *)
Asked == Updates \cup {s \in Streams : topic[s] = "branch"}

(* The role that was read has the permission by now.                       *)
WouldPass(r) ==
  \/ GrantOf(r, rights, check[r].role) = "org"
  \/ GrantOf(r, rights, check[r].role) = "branch" /\ rights.inBranch

(* What the statements so far, and the one change since the first of them, *)
(* have left of the right.                                                 *)
OneCheck(r) ==
  /\ phase[r] \in Checking => home
  /\ phase[r] \in Checking /\ check[r].moved = 0 =>
       check[r].role = rights.role /\ (May(r, rights) => check[r].had)
  /\ phase[r] = "grants" /\ check[r].moved = 1 /\ WouldPass(r) => check[r].had
  /\ phase[r] = "inBranch" /\ check[r].moved = 0 =>
       GrantOf(r, rights, check[r].role) = "branch"
  /\ phase[r] = "inBranch" /\ check[r].moved = 1 /\ rights.inBranch => check[r].had
  /\ phase[r] = "pass" /\ check[r].moved <= 1 => check[r].had

CheckInv == \A r \in Asked : OneCheck(r)

(* The checks of the others go on as they were.                            *)
LEMMA OneCheckMoves ==
  ASSUME CheckInv, NEW h,
         \A r \in Asked \ {h} : phase'[r] = phase[r] /\ check'[r] = check[r],
         h \in Asked => OneCheck(h)',
         UNCHANGED <<rights, home, topic>>
  PROVE  CheckInv'
<1>1. Asked' = Asked
  BY DEF Asked
<1>2. ASSUME NEW r \in Asked, r # h
      PROVE  OneCheck(r)'
  <2>1. OneCheck(r)
    BY DEF CheckInv, OneCheck
  <2>2. /\ WouldPass(r)' = WouldPass(r)
        /\ \A ro : GrantOf(r, rights, ro)' = GrantOf(r, rights, ro)
        /\ home => May(r, rights)' = May(r, rights)
    BY <1>2 DEF May, WouldPass, GrantOf
  <2>3. QED
    BY <1>2, <2>1, <2>2 DEF OneCheck
<1>3. QED
  BY <1>1, <1>2 DEF CheckInv, OneCheck

(* A step that begins no check and goes on with none.                      *)
LEMMA OthersKeepChecks ==
  ASSUME CheckInv, NEW h,
         \A r \in Asked \ {h} : phase'[r] = phase[r] /\ check'[r] = check[r],
         phase'[h] \notin {"grants", "inBranch", "pass"},
         UNCHANGED <<rights, home, topic>>
  PROVE  CheckInv'
<1>1. OneCheck(h)'
  BY DEF OneCheck, Checking
<1>2. QED
  BY <1>1, OneCheckMoves

LEMMA SameChecks ==
  ASSUME CheckInv, UNCHANGED <<phase, check, rights, home, topic>>
  PROVE  CheckInv'
<1>1. Asked' = Asked
  BY DEF Asked
<1>2. ASSUME NEW r \in Asked
      PROVE  OneCheck(r)'
  <2>1. OneCheck(r)
    BY DEF CheckInv
  <2>2. /\ WouldPass(r)' = WouldPass(r)
        /\ \A ro : GrantOf(r, rights, ro)' = GrantOf(r, rights, ro)
        /\ home => May(r, rights)' = May(r, rights)
    BY DEF May, WouldPass, GrantOf
  <2>3. QED
    BY <2>1, <2>2 DEF OneCheck
<1>3. QED
  BY <1>1, <1>2 DEF CheckInv

(* The first statement: whoever passes with it has the right by now.       *)
LEMMA FindMemberKeepsChecks ==
  ASSUME PoolInv, DataInv, CheckInv, NEW h \in Request, FindMember(h)
  PROVE  CheckInv'
<1> DEFINE ro == IF home THEN rights.role ELSE IF created # {} THEN Owner ELSE None
<1>1. /\ UNCHANGED <<stream, rights, changes, other>>
      /\ \/ ro = None /\ Refuse(h, "member")
         \/ /\ ro # None
            /\ Statement(h, "member", IF ro = Owner \/ AsksMembershipOnly(h) THEN "pass" ELSE "grants")
            /\ check' = [check EXCEPT ![h] = [role |-> ro, had |-> May(h, rights), moved |-> 0]]
  BY DEF FindMember
<1>2. h \in Holder /\ phase \in [Holder -> Phases] /\ Asked \subseteq Holder
  BY DEF PoolInv, Asked, Holder, Request
<1>3. DOMAIN check = Holder
  BY DEF DataInv
<1>4. UNCHANGED <<rights, home, topic, created>>
  BY <1>1 DEF stream, other
<1>5. CASE Refuse(h, "member")
  BY <1>2, <1>3, <1>4, <1>5, OthersKeepChecks DEF Refuse, EndScope
<1>6. CASE /\ ro # None
           /\ Statement(h, "member", IF ro = Owner \/ AsksMembershipOnly(h) THEN "pass" ELSE "grants")
           /\ check' = [check EXCEPT ![h] = [role |-> ro, had |-> May(h, rights), moved |-> 0]]
  <2>1. \A r \in Asked \ {h} : phase'[r] = phase[r] /\ check'[r] = check[r]
    BY <1>2, <1>3, <1>6 DEF Statement
  <2>2. phase'[h] = IF ro = Owner \/ AsksMembershipOnly(h) THEN "pass" ELSE "grants"
    BY <1>2, <1>6 DEF Statement
  <2>3. check'[h].role = ro /\ check'[h].had = May(h, rights) /\ check'[h].moved = 0
    BY <1>2, <1>3, <1>6
  <2>4. h \in Asked => ~AsksMembershipOnly(h)
    BY ScopesAssumption DEF Asked, AsksMembershipOnly
  <2>5. ro = Owner => May(h, rights)
    BY ScopesAssumption DEF May, RoleId
  <2>6. May(h, rights)' = May(h, rights)
    BY <1>4 DEF May, GrantOf
  <2>7. ro # Owner => home /\ ro = rights.role
    BY <1>6
  <2> HIDE DEF ro
  <2>8. h \in Asked => OneCheck(h)'
    BY <1>4, <2>2, <2>3, <2>4, <2>5, <2>6, <2>7 DEF OneCheck, Checking
  <2>9. QED
    BY <1>4, <2>1, <2>8, OneCheckMoves
<1>7. QED
  BY <1>1, <1>5, <1>6

(* The next statements, each with the rights of its moment.                *)
LEMMA FindGrantsKeepsChecks ==
  ASSUME PoolInv, DataInv, CheckInv, NEW h \in Request, FindGrants(h)
  PROVE  CheckInv'
<1>1. h \in Holder /\ phase \in [Holder -> Phases] /\ Asked \subseteq Holder /\ DOMAIN check = Holder
  BY DEF PoolInv, DataInv, Asked, Holder, Request
<1>2. UNCHANGED <<rights, home, topic>>
  BY DEF FindGrants, stream, other
<1>3. CASE Refuse(h, "grants")
  BY <1>1, <1>2, <1>3, OthersKeepChecks DEF Refuse, EndScope
<1>4. CASE \E q \in {"pass", "inBranch"} :
             /\ GrantOf(h, rights, check[h].role) = IF q = "pass" THEN "org" ELSE "branch"
             /\ Statement(h, "grants", q) /\ UNCHANGED check
  <2>1. PICK q \in {"pass", "inBranch"} :
             /\ GrantOf(h, rights, check[h].role) = IF q = "pass" THEN "org" ELSE "branch"
             /\ Statement(h, "grants", q) /\ UNCHANGED check
    BY <1>4
  <2>2. \A r \in Asked \ {h} : phase'[r] = phase[r] /\ check'[r] = check[r]
    BY <1>1, <2>1 DEF Statement
  <2>3. phase[h] = "grants" /\ phase'[h] = q /\ check' = check
    BY <1>1, <2>1 DEF Statement
  <2>4. /\ WouldPass(h)' = WouldPass(h)
        /\ GrantOf(h, rights, check[h].role)' = GrantOf(h, rights, check[h].role)
        /\ home => May(h, rights)' = May(h, rights)
    BY <1>2, <2>3 DEF May, WouldPass, GrantOf
  <2>5. h \in Asked => OneCheck(h)
    BY DEF CheckInv, OneCheck
  <2>6. h \in Asked => home
    BY <2>3, <2>5 DEF OneCheck, Checking
  <2>7. home /\ check[h].role = rights.role /\ WouldPass(h) => May(h, rights)
    BY DEF May, WouldPass
  <2>8. /\ q = "pass" => WouldPass(h)
        /\ q = "inBranch" /\ rights.inBranch => WouldPass(h)
    BY <2>1 DEF WouldPass
  <2>9. check[h].moved \in Nat
    BY <1>1, ScopesAssumption DEF DataInv
  <2>10. h \in Asked => OneCheck(h)'
    <3> SUFFICES ASSUME h \in Asked
                 PROVE  OneCheck(h)'
      OBVIOUS
    <3>1. CASE q = "pass"
      BY <1>2, <2>3, <2>5, <2>6, <2>7, <2>8, <2>9, <3>1 DEF OneCheck, Checking
    <3>2. CASE q = "inBranch"
      BY <1>2, <2>1, <2>3, <2>4, <2>5, <2>6, <2>7, <2>8, <2>9, <3>2 DEF OneCheck, Checking
    <3>3. QED
      BY <3>1, <3>2
  <2>11. QED
    BY <1>2, <2>2, <2>10, OneCheckMoves
<1>5. QED
  BY <1>3, <1>4 DEF FindGrants

LEMMA FindBranchKeepsChecks ==
  ASSUME PoolInv, DataInv, CheckInv, NEW h \in Request, FindBranch(h)
  PROVE  CheckInv'
<1>1. h \in Holder /\ phase \in [Holder -> Phases] /\ Asked \subseteq Holder /\ DOMAIN check = Holder
  BY DEF PoolInv, DataInv, Asked, Holder, Request
<1>2. UNCHANGED <<rights, home, topic>>
  BY DEF FindBranch, stream, other
<1>3. CASE Refuse(h, "inBranch")
  BY <1>1, <1>2, <1>3, OthersKeepChecks DEF Refuse, EndScope
<1>4. CASE rights.inBranch /\ Statement(h, "inBranch", "pass") /\ UNCHANGED check
  <2>1. \A r \in Asked \ {h} : phase'[r] = phase[r] /\ check'[r] = check[r]
    BY <1>1, <1>4 DEF Statement
  <2>2. phase[h] = "inBranch" /\ phase'[h] = "pass" /\ check' = check
    BY <1>1, <1>4 DEF Statement
  <2>3. h \in Asked => OneCheck(h)
    BY DEF CheckInv, OneCheck
  <2>4. GrantOf(h, rights, rights.role) = "branch" /\ home => May(h, rights)
    BY <1>4 DEF May
  <2>5. check[h].moved \in Nat
    BY <1>1, ScopesAssumption DEF DataInv
  <2>6. h \in Asked => OneCheck(h)'
    BY <1>4, <2>2, <2>3, <2>4, <2>5 DEF OneCheck, Checking
  <2>7. QED
    BY <1>2, <2>1, <2>6, OneCheckMoves
<1>5. QED
  BY <1>3, <1>4 DEF FindBranch
-----------------------------------------------------------------------------
(* Another member's change, seen by every check under way: what it does    *)
(* not touch is as it was, so a right the statements together find was     *)
(* there before it or is there after it.                                   *)
LEMMA ChangeKeepsChecks ==
  ASSUME PoolInv, DataInv, CheckInv, Change
  PROVE  CheckInv'
<1>1. PICK ri \in Changed(rights) :
        /\ rights' = ri
        /\ check' = [h \in Holder |->
                       IF phase[h] \in Checking
                       THEN [check[h] EXCEPT !.had = @ \/ May(h, ri), !.moved = @ + 1]
                       ELSE check[h]]
  BY DEF Change
<1>2. UNCHANGED <<phase, home, topic>> /\ home
  BY DEF Change, stream, other
<1>3. /\ rights \in Rights
      /\ \/ rights'.grant = rights.grant /\ rights'.inBranch = rights.inBranch
         \/ rights'.role = rights.role /\ rights'.inBranch = rights.inBranch
         \/ rights'.role = rights.role /\ rights'.grant = rights.grant
  BY <1>1, <1>2, ChangedRights DEF DataInv
<1>4. Asked' = Asked /\ Asked \subseteq Holder
  BY <1>2 DEF Asked, Holder, Request
<1>5. ASSUME NEW r \in Asked
      PROVE  OneCheck(r)'
  <2>1. OneCheck(r)
    BY DEF CheckInv
  <2>2. CASE phase[r] \notin Checking
    <3>1. check'[r] = check[r] /\ phase'[r] = phase[r]
      BY <1>1, <1>2, <1>4, <2>2
    <3>2. QED
      BY <2>1, <2>2, <3>1 DEF OneCheck, Checking
  <2>3. CASE phase[r] \in Checking
    <3>1. /\ check[r] \in [role : RoleId \cup {None}, had : BOOLEAN, moved : 0..MaxChanges]
          /\ check[r].moved \in Nat
      BY <1>4, ScopesAssumption DEF DataInv
    <3>2. /\ check'[r].role = check[r].role
          /\ check'[r].moved = check[r].moved + 1
          /\ check'[r].had <=> check[r].had \/ May(r, ri)
      BY <1>1, <1>4, <2>3, <3>1
    <3>3. May(r, rights)' = May(r, ri)
      BY <1>1, <1>2 DEF May, GrantOf
    <3>4. ASSUME check[r].moved = 0, WouldPass(r)'
          PROVE  check[r].had \/ May(r, ri)
      <4>1. check[r].role = rights.role /\ (May(r, rights) => check[r].had)
        BY <2>1, <2>3, <3>4 DEF OneCheck
      <4>2. CASE rights'.role = rights.role
        BY <1>1, <1>2, <3>2, <3>4, <4>1, <4>2 DEF WouldPass, May, GrantOf
      <4>3. CASE rights'.grant = rights.grant /\ rights'.inBranch = rights.inBranch
        BY <1>1, <1>2, <3>2, <3>4, <4>1, <4>3 DEF WouldPass, May, GrantOf
      <4>4. QED
        BY <1>3, <4>2, <4>3
    <3>5. ASSUME phase[r] = "inBranch", check[r].moved = 0, rights'.inBranch
          PROVE  check[r].had \/ May(r, ri)
      <4>1. /\ check[r].role = rights.role /\ (May(r, rights) => check[r].had)
            /\ GrantOf(r, rights, check[r].role) = "branch"
        BY <2>1, <2>3, <3>5 DEF OneCheck
      <4>2. CASE rights'.inBranch = rights.inBranch
        BY <1>2, <3>5, <4>1, <4>2 DEF May
      <4>3. CASE rights'.role = rights.role /\ rights'.grant = rights.grant
        BY <1>1, <1>2, <3>5, <4>1, <4>3 DEF May, GrantOf
      <4>4. QED
        BY <1>3, <4>2, <4>3
    <3>6. phase'[r] = phase[r] /\ home'
      BY <1>2
    <3>7. check'[r].moved # 0 /\ (check'[r].moved = 1 => check[r].moved = 0)
      BY <3>1, <3>2
    <3>8. QED
      BY <2>3, <3>2, <3>4, <3>5, <3>6, <3>7 DEF OneCheck, Checking
  <2>4. QED
    BY <2>2, <2>3
<1>6. QED
  BY <1>4, <1>5 DEF CheckInv

LEMMA CheckStep ==
  ASSUME PoolInv, DataInv, CheckInv, [Next]_vars
  PROVE  CheckInv'
<1>1. phase \in [Holder -> Phases] /\ Asked \subseteq Holder /\ DOMAIN check = Holder
  BY DEF PoolInv, DataInv, Asked, Holder, Request
<1>2. ASSUME NEW h \in Holder, NEW q \in Phases \ {"grants", "inBranch", "pass"},
             phase' = [phase EXCEPT ![h] = q],
             check' = check \/ check' = [check EXCEPT ![h] = NoCheck],
             UNCHANGED <<rights, home, topic>>
      PROVE  CheckInv'
  <2>1. \A r \in Asked \ {h} : phase'[r] = phase[r] /\ check'[r] = check[r]
    BY <1>1, <1>2
  <2>2. phase'[h] = q
    BY <1>1, <1>2
  <2>3. QED
    BY <1>2, <2>1, <2>2, OthersKeepChecks
<1>3. ASSUME NEW h \in Holder, Step(h)
      PROVE  CheckInv'
  <2> USE DEF Phases, InScope, Answered
  <2>1. CASE h \in Creates /\ (List(h) \/ Bootstrap(h))
    BY <1>2, <2>1 DEF List, Bootstrap, Refuse, NextScope, EndScope, stream, other
  <2>2. CASE h \in Updates /\ (Resolve(h) \/ Write(h))
    BY <1>2, <2>2 DEF Resolve, Write, Refuse, NextScope, EndScope, stream, other
  <2>3. CASE h \in Streams /\ (FindSalonOfBranch(h) \/ Open(h))
    BY <1>2, <2>3 DEF FindSalonOfBranch, Open, Refuse, NextScope, EndScope, stream, other
  <2>4. CASE h \in Request /\ Guard(h)
    BY <1>2, <2>4 DEF Guard, UseCase, Refuse, NextScope, EndScope, stream, other
  <2>5. CASE h \in Request /\ (FindMember(h) \/ FindGrants(h) \/ FindBranch(h))
    BY <2>5, FindMemberKeepsChecks, FindGrantsKeepsChecks, FindBranchKeepsChecks
  <2>6. CASE h \in Tick /\ Fetch(h)
    BY <1>2, <2>6 DEF Fetch, Statement, EndScope, stream, other
  <2>7. QED
    BY <1>3, <2>1, <2>2, <2>3, <2>4, <2>5, <2>6 DEF Step
<1>4. ASSUME NEW h \in Holder, Fail(h)
      PROVE  CheckInv'
  <2> DEFINE q == IF h \in Tick THEN "idle" ELSE "failed"
  <2>1. q \in Phases \ {"grants", "inBranch", "pass"}
    BY DEF Phases, Answered
  <2>2. /\ phase' = [phase EXCEPT ![h] = q]
        /\ check' = [check EXCEPT ![h] = NoCheck]
        /\ UNCHANGED <<rights, home, topic>>
    BY <1>4 DEF Fail, EndScope, stream, other
  <2> HIDE DEF q
  <2>3. QED
    BY <1>2, <2>1, <2>2
<1>5. ASSUME NEW r \in Request, Arrive(r) \/ Claim(r)
      PROVE  CheckInv'
  <2>1. CASE Arrive(r)
    BY <1>2, <2>1 DEF Arrive, Ask, Holder, Phases, InScope, stream
  <2>2. CASE Claim(r)
    BY <1>2, <2>2 DEF Claim, UseCase, Ask, Holder, Phases, InScope, Answered, stream, other
  <2>3. QED
    BY <1>5, <2>1, <2>2
<1>6. ASSUME NEW r \in Streams, EndStream(r) \/ Reconnect(r) \/ Leave(r)
      PROVE  CheckInv'
  <2>1. CASE phase' = phase
    BY <1>6, <2>1, SameChecks DEF EndStream, Reconnect, Leave, Ask, stream, other
  <2>2. CASE phase' # phase
    BY <1>2, <1>6, <2>2 DEF EndStream, Reconnect, Leave, Ask, Holder, Request, Phases, InScope,
                            stream, other
  <2>3. QED
    BY <2>1, <2>2
<1>7. ASSUME NEW t \in Tick, StartTick(t) \/ Publish(t)
      PROVE  CheckInv'
  <2>1. CASE StartTick(t)
    BY <1>2, <2>1 DEF StartTick, Ask, Holder, Phases, InScope, stream, other
  <2>2. CASE Publish(t)
    BY <1>2, <2>2 DEF Publish, EndScope, Holder, Phases, InScope, stream, other
  <2>3. QED
    BY <1>7, <2>1, <2>2
<1>8. CASE Grant \/ UNCHANGED vars
  BY <1>8, SameChecks DEF Grant, vars, stream, other
<1>9. QED
  BY <1>3, <1>4, <1>5, <1>6, <1>7, <1>8, ChangeKeepsChecks DEF Next
-----------------------------------------------------------------------------
IInv == PoolInv /\ DataInv /\ OverlapInv /\ ListenersHaveClients /\ CheckInv

(* How Init fills the phases.                                              *)
LEMMA InitPhases ==
  ASSUME Init
  PROVE  /\ phase \in [Holder -> {"idle", "new", "never"}]
         /\ home \in BOOLEAN
<1>1. PICK t \in Traffic :
        /\ home = t.home
        /\ phase = [h \in Holder |-> IF h \in Tick THEN "idle"
                                     ELSE IF h \in t.requests THEN "new" ELSE "never"]
  BY DEF Init
<1>2. t.home \in BOOLEAN
  BY ScopesAssumption
<1>3. QED
  BY <1>1, <1>2

LEMMA InitInv ==
  ASSUME Init
  PROVE  IInv
<1>1. phase \in [Holder -> {"idle", "new", "never"}] /\ home \in BOOLEAN
  BY InitPhases
<1>2. PoolInv
  <2>1. ToSet(queue) = {} /\ queue \in Seq(Holder) /\ NoRepeat
    BY DEF Init, ToSet, NoRepeat
  <2>2. IsFiniteSet(held) /\ Cardinality(held) = 0
    BY FS_EmptySet DEF Init
  <2>3. phase \in [Holder -> Phases] /\ \A h \in Holder : phase[h] \notin InScope
    BY <1>1 DEF Phases, InScope
  <2>4. QED
    BY <2>1, <2>2, <2>3, ScopesAssumption DEF PoolInv, Init
<1>3. DataInv
  <2>1. NoCheck \in [role : RoleId \cup {None}, had : BOOLEAN, moved : 0..MaxChanges]
        /\ NoCheck.moved = 0
    BY ScopesAssumption DEF NoCheck
  <2>2. check = [h \in Holder |-> NoCheck]
    BY DEF Init
  <2>3. /\ check \in [Holder -> [role : RoleId \cup {None}, had : BOOLEAN, moved : 0..MaxChanges]]
        /\ \A h \in Holder : check[h].moved = 0
    BY <2>1, <2>2
  <2>4. changes = 0 /\ changes \in 0..MaxChanges
    BY ScopesAssumption DEF Init
  <2>5. QED
    BY <1>1, <2>3, <2>4 DEF DataInv, Init
<1>4. OverlapInv
  <2>1. created = {} /\ \A d \in Request : before[d] = {}
    BY DEF Init
  <2>2. \A d \in Creates : phase[d] # "bootstrap"
    BY <1>1 DEF Holder, Request
  <2>3. QED
    BY <2>1, <2>2 DEF OverlapInv, SecondSalonByOverlap
<1>5. ListenersHaveClients
  BY DEF Init, ListenersHaveClients
<1>6. CheckInv
  BY <1>1 DEF CheckInv, OneCheck, Checking, Asked, Holder, Request
<1>7. QED
  BY <1>2, <1>3, <1>4, <1>5, <1>6 DEF IInv

THEOREM ScopesInvariant == Spec => []IInv
<1>1. Init => IInv
  BY InitInv
<1>2. IInv /\ [Next]_vars => IInv'
  BY PoolStep, DataStep, OverlapStep, ListenersStep, CheckStep DEF IInv
<1>3. QED
  BY <1>1, <1>2, PTL DEF Spec

(* Types, and the pool's accounts: no more connections are out than there  *)
(* are, and a request or tick has or awaits one exactly while it is in a   *)
(* scope (DatabaseService.runScoped).                                      *)
THEOREM TypeCorrect == Spec => []TypeOK
<1>1. IInv => TypeOK
  BY DEF IInv, PoolInv, DataInv, TypeOK, Phases
<1>2. QED
  BY <1>1, ScopesInvariant, PTL

(* A user with a salon creates no other one, and of two salons of one user *)
(* neither was answered before the other was asked for (CreateSalon).      *)
THEOREM SecondSalonOnlyByOverlap == Spec => []SecondSalonByOverlap
<1>1. IInv => SecondSalonByOverlap
  BY DEF IInv, OverlapInv
<1>2. QED
  BY <1>1, ScopesInvariant, PTL

(* A subscription is of an open stream whose client is there, or of one    *)
(* whose client left before the close handler was set                      *)
(* (RealtimeController.stream).                                            *)
THEOREM NoOtherListeners == Spec => []ListenersHaveClients
<1>1. IInv => ListenersHaveClients
  BY DEF IInv
<1>2. QED
  BY <1>1, ScopesInvariant, PTL

(* Although Authorize.can reads the membership, the grants and the branch  *)
(* in three statements, one change in between lets nobody through who had  *)
(* the right neither before nor after it, whatever the roles and grants.   *)
THEOREM OneChangeLetsNobodyIn == Spec => []AllowedHadRight
<1>1. IInv => AllowedHadRight
  BY DEF IInv, CheckInv, OneCheck, AllowedHadRight, Asked
<1>2. QED
  BY <1>1, ScopesInvariant, PTL
=============================================================================
