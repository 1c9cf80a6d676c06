---------------------------- MODULE RequestScopes ----------------------------
(***************************************************************************)
(* Staff requests of one user as the sequence of database scopes they run  *)
(* in, on one instance: the guard's, those that look up what the request   *)
(* is about, and the use case's own.  Every scope is a transaction on a    *)
(* connection of the pool (src/backend/src/persistence); a scope ends      *)
(* before the next one asks, so no request waits while it holds one.  The  *)
(* outbox relay's tick holds one while it waits for Redis, and a request   *)
(* with an Idempotency-Key waits for the same Redis between two scopes,    *)
(* without one.                                                            *)
(*                                                                         *)
(* Three kinds of requests stand for all of them: CreateSalon (onboarding, *)
(* three scopes), UpdateSalon (the guard, ResolveCurrentSalon, a checked   *)
(* write) and the realtime stream (checked, then open without a            *)
(* connection until its timer or the client ends it).                      *)
(***************************************************************************)
EXTENDS Naturals, FiniteSets, Sequences, SequencesExt

CONSTANTS
  Creates, Updates, Streams,  \* requests of each kind
  Keyed,            \* those that send an Idempotency-Key
  Traffic,          \* bound: whether the user has a salon, with the requests that come
  Tick,             \* invocations of RelayWorker.tick
  PoolSize,         \* connections (10 in the code)
  Owner, Custom,    \* the standard role Owner and the custom roles
  Perm,             \* permissions custom roles are granted; Owners have all
  None,             \* no role
  MaxChanges        \* bound: changes other members make

Request == Creates \cup Updates \cup Streams
Holder  == Request \cup Tick
RoleId  == Custom \cup {Owner}

ASSUME ScopesAssumption ==
  /\ Creates \cap (Updates \cup Streams) = {}
  /\ Updates \cap Streams = {}
  /\ Keyed \subseteq Creates \cup Updates
  /\ Request \cap Tick = {}
  /\ Traffic \subseteq [home : BOOLEAN, requests : SUBSET Request]
  /\ PoolSize \in Nat \ {0}
  /\ Owner \notin Custom
  /\ None \notin RoleId
  /\ Perm \subseteq {"salon:update", "queue:view"}
  /\ MaxChanges \in Nat

VARIABLES
  \* the pool
  queue,            \* holders that wait for a connection, the first first
  held,             \* holders that have one
  \* the requests and the relay
  phase,            \* what each does next, or how it ended
  topic,            \* what each stream asks for
  check,            \* the check under way: the role it has read, and as history
                    \* whether the user had the right since, and the changes since
  listening,        \* streams subscribed to the bus, with their heartbeat
  gone,             \* streams whose client has left
  \* the database
  home,             \* whether the user is a member of the salon Home
  rights,           \* there: the user's role, the grants of the custom roles, and
                    \* whether the user belongs to the branch asked for
  created,          \* salons the user has created, each by the request that did
  changes,          \* changes so far
  \* history
  before,           \* requests answered when a request came
  unheard           \* streams whose client left before they listened for that

pool    == <<queue, held>>
stream  == <<topic, listening, gone, unheard>>
other   == <<home, created, before>>
vars == <<pool, phase, check, stream, rights, changes, other>>

(* UpdateSalon asks for salon:update, a branch's stream for queue:view,    *)
(* which may be granted for branches.                                      *)
Scope    == {"none", "branch", "org"}
Grants   == {g \in [Perm -> Scope] : \A p \in Perm : p # "queue:view" => g[p] # "branch"}
NoGrants == [p \in Perm |-> "none"]
Rights   == [role : RoleId, grant : [Custom -> Grants], inBranch : BOOLEAN]
NoRights == [role |-> None, grant |-> [ro \in Custom |-> NoGrants], inBranch |-> FALSE]

NoCheck == [role |-> None, had |-> FALSE, moved |-> 0]

(* Phases in which a connection is needed, and those without.              *)
InScope == {"guard", "list", "bootstrap", "resolve", "branch", "member",
            "grants", "inBranch", "pass", "fetch", "publish"}
Answered == {"done", "refused", "failed"}
Checking == {"grants", "inBranch"}

Init ==
  /\ queue = <<>>
  /\ held = {}
  /\ \E t \in Traffic :
       /\ home = t.home
       /\ phase = [h \in Holder |-> IF h \in Tick THEN "idle"
                                    ELSE IF h \in t.requests THEN "new" ELSE "never"]
  /\ check = [h \in Holder |-> NoCheck]
  /\ topic \in [Streams -> {"salon", "branch"}]
  /\ \A r \in Streams : phase[r] = "never" => topic[r] = "salon"
  /\ listening = {} /\ gone = {} /\ unheard = {}
  /\ rights \in IF home THEN Rights ELSE {NoRights}
  /\ \A ro \in Custom \ {rights.role} : rights.grant[ro] = NoGrants   \* bound
  /\ created = {}
  /\ changes = 0
  /\ before = [r \in Request |-> {}]

-----------------------------------------------------------------------------
(* Scopes and connections.                                                 *)

(* postgres.js hands connections out in the order they were asked for.     *)
Grant ==
  /\ queue # <<>>
  /\ Cardinality(held) < PoolSize
  /\ held' = held \cup {Head(queue)}
  /\ queue' = Tail(queue)
  /\ UNCHANGED <<phase, check, stream, rights, changes, other>>

(* The first scope of a holder: root.transaction asks for a connection.    *)
Ask(h, p) ==
  /\ phase' = [phase EXCEPT ![h] = p]
  /\ queue' = Append(queue, h)
  /\ UNCHANGED <<held, check>>

(* The next statement of the scope.                                        *)
Statement(h, p, q) ==
  /\ h \in held
  /\ phase[h] = p
  /\ phase' = [phase EXCEPT ![h] = q]
  /\ UNCHANGED pool

(* Mutant: the next scope is opened inside the one before.                 *)
NestedScope(h, p, q) ==
  /\ h \in held
  /\ phase[h] = p
  /\ Ask(h, q)

(* The scope ends and the next one begins: the connection goes back and    *)
(* another is asked for.                                                   *)
NextScope(h, p, q) ==
  /\ h \in held
  /\ phase[h] = p
  /\ phase' = [phase EXCEPT ![h] = q]
  /\ held' = held \ {h}
  /\ queue' = Append(queue, h)
  /\ UNCHANGED check

(* The last scope ends, committed or rolled back.                          *)
EndScope(h, p, q) ==
  /\ h \in held
  /\ phase[h] = p
  /\ phase' = [phase EXCEPT ![h] = q]
  /\ held' = held \ {h}
  /\ check' = [check EXCEPT ![h] = NoCheck]
  /\ UNCHANGED queue

Refuse(r, p) == EndScope(r, p, "refused")

(* A statement or the connection fails: rolled back, and answered with 500. *)
Fail(h) ==
  /\ phase[h] \in InScope
  /\ EndScope(h, phase[h], IF h \in Tick THEN "idle" ELSE "failed")
  /\ UNCHANGED <<stream, rights, changes, other>>

-----------------------------------------------------------------------------
(* What requests have in common.                                           *)

Arrive(r) ==
  /\ phase[r] = "new"
  /\ Ask(r, "guard")
  /\ before' = [before EXCEPT ![r] = {q \in Request : phase[q] \in Answered}]
  /\ UNCHANGED <<stream, rights, changes, home, created>>

(* The first scope of a use case.                                          *)
UseCase(r) == IF r \in Creates THEN "list" ELSE "resolve"

(* JwtAuthGuard.canActivate: the session and the user are active, or not.  *)
Guard(r) ==
  /\ \/ /\ r \in Keyed
        /\ EndScope(r, "guard", "keyed")
     \/ /\ r \in (Creates \cup Updates) \ Keyed
        /\ NextScope(r, "guard", UseCase(r))
     \/ /\ r \in Streams
        /\ NextScope(r, "guard", IF topic[r] = "branch" THEN "branch" ELSE "member")
     \/ Refuse(r, "guard")
  /\ UNCHANGED <<stream, rights, changes, other>>

(* IdempotencyInterceptor.intercept: Redis answers the get and the claim   *)
(* of the key.  The request goes on, or is answered 409 or with a stored   *)
(* response, or fails.  See Idempotency for which.                         *)
Claim(r) ==
  /\ phase[r] = "keyed"
  /\ \/ Ask(r, UseCase(r))
     \/ \E q \in {"refused", "failed"} :
          phase' = [phase EXCEPT ![r] = q] /\ UNCHANGED <<pool, check>>
  /\ UNCHANGED <<stream, rights, changes, other>>

(* MembershipsRepo.listForUser.                                            *)
Salons == created \cup IF home THEN {"home"} ELSE {}

(* The scope in which role ro has, by rights ri, what a request asks for.  *)
GrantOf(r, ri, ro) ==
  LET p == IF r \in Updates THEN "salon:update" ELSE "queue:view" IN
  IF p \in Perm THEN ri.grant[ro][p] ELSE "none"

(* Whether the user may, by rights ri, do what a request asks for.  Without *)
(* Home the request is about the salon created, whose Owner the user is.   *)
May(r, ri) ==
  IF ~home THEN created # {}
  ELSE \/ ri.role = Owner
       \/ GrantOf(r, ri, ri.role) = "org"
       \/ GrantOf(r, ri, ri.role) = "branch" /\ ri.inBranch

-----------------------------------------------------------------------------
(* Authorize.can: each statement sees what is committed by then.           *)

AsksMembershipOnly(r) == r \in Streams /\ topic[r] = "salon"

(* memberships.findForUser: the role, and whether it is the Owner's.  A    *)
(* stream of a salon's topic asks for no more than the membership.         *)
FindMember(r) ==
  LET ro == IF home THEN rights.role ELSE IF created # {} THEN Owner ELSE None IN
  /\ \/ ro = None /\ Refuse(r, "member")
     \/ /\ ro # None
        /\ Statement(r, "member", IF ro = Owner \/ AsksMembershipOnly(r)
                                  THEN "pass" ELSE "grants")
        /\ check' = [check EXCEPT ![r] = [role |-> ro, had |-> May(r, rights), moved |-> 0]]
  /\ UNCHANGED <<stream, rights, changes, other>>

(* Mutant: the grants of any role count.                                   *)
FindGrantsOfAny(r) ==
  LET some == \E ro \in Custom : GrantOf(r, rights, ro) # "none" IN
  /\ \/ ~some /\ Refuse(r, "grants")
     \/ some /\ Statement(r, "grants", "pass") /\ UNCHANGED check
  /\ UNCHANGED <<stream, rights, changes, other>>

(* roles.findById with the role that was read: the role's row and its      *)
(* grants, two statements of which only the grants change.  A grant for    *)
(* branches of what has no branch does not occur.                          *)
FindGrants(r) ==
  /\ phase[r] = "grants"
  /\ LET g == GrantOf(r, rights, check[r].role) IN
       \/ g = "none" /\ Refuse(r, "grants")
       \/ g = "org" /\ Statement(r, "grants", "pass") /\ UNCHANGED check
       \/ g = "branch" /\ Statement(r, "grants", "inBranch") /\ UNCHANGED check
  /\ UNCHANGED <<stream, rights, changes, other>>

(* branchMemberships.isMemberOfBranch.                                     *)
FindBranch(r) ==
  /\ \/ rights.inBranch /\ Statement(r, "inBranch", "pass") /\ UNCHANGED check
     \/ ~rights.inBranch /\ Refuse(r, "inBranch")
  /\ UNCHANGED <<stream, rights, changes, other>>

-----------------------------------------------------------------------------
(* CreateSalon.execute.                                                    *)

(* Mutant: the check for a salon is left out.                              *)
ListUnchecked(r) ==
  /\ NextScope(r, "list", "bootstrap")
  /\ UNCHANGED <<stream, rights, changes, other>>

(* One salon per user: 409 with any membership.                            *)
List(r) ==
  /\ \/ Salons # {} /\ Refuse(r, "list")
     \/ Salons = {} /\ NextScope(r, "list", "bootstrap")
  /\ UNCHANGED <<stream, rights, changes, other>>

(* withBootstrapSalon: the salon, its roles, its Owner, its first branch,  *)
(* the events and the audit record, rows nobody sees before the commit.    *)
Bootstrap(r) ==
  /\ EndScope(r, "bootstrap", "done")
  /\ created' = created \cup {r}
  /\ UNCHANGED <<stream, rights, changes, home, before>>

-----------------------------------------------------------------------------
(* UpdateSalon.execute.                                                    *)

(* ResolveCurrentSalon: 403 without a salon, 501 with several.             *)
Resolve(r) ==
  /\ \/ Cardinality(Salons) = 1 /\ NextScope(r, "resolve", "member")
     \/ Cardinality(Salons) # 1 /\ Refuse(r, "resolve")
  /\ UNCHANGED <<stream, rights, changes, other>>

(* The salon's row, the event and the audit record are written.            *)
Write(r) ==
  /\ r \in Updates
  /\ EndScope(r, "pass", "done")
  /\ UNCHANGED <<stream, rights, changes, other>>

-----------------------------------------------------------------------------
(* RealtimeController.stream.                                              *)

(* assertAccess finds the branch, or there is none.                        *)
FindSalonOfBranch(r) ==
  /\ \/ NextScope(r, "branch", "member")
     \/ Refuse(r, "branch")
  /\ UNCHANGED <<stream, rights, changes, other>>

(* The handler goes on after its await: it subscribes, starts heartbeat    *)
(* and timer and asks to be told when the client closes; no longer when it *)
(* has closed already.                                                     *)
Open(r) ==
  /\ r \in Streams
  /\ EndScope(r, "pass", "open")
  /\ listening' = listening \cup {r}
  /\ unheard' = IF r \in gone THEN unheard \cup {r} ELSE unheard
  /\ UNCHANGED <<topic, gone, rights, changes, other>>

(* Mutant: the timer runs for clients that are gone only.                  *)
EndStreamOfGone(r) ==
  /\ phase[r] = "open" /\ r \in gone
  /\ phase' = [phase EXCEPT ![r] = "ended"]
  /\ UNCHANGED <<pool, check, stream, rights, changes, other>>

(* Mutant: only the client's own close unsubscribes.                       *)
EndStreamKept(r) ==
  /\ phase[r] = "open"
  /\ phase' = [phase EXCEPT ![r] = "ended"]
  /\ UNCHANGED <<pool, check, stream, rights, changes, other>>

(* MAX_STREAM_DURATION_MS is over: res.end(), on which the request closes  *)
(* and cleanup runs, if it has not closed before.                          *)
EndStream(r) ==
  /\ phase[r] = "open"
  /\ phase' = [phase EXCEPT ![r] = "ended"]
  /\ listening' = IF r \in unheard THEN listening ELSE listening \ {r}
  /\ UNCHANGED <<pool, check, topic, gone, unheard, rights, changes, other>>

(* The client reconnects, and is checked like any other request.           *)
Reconnect(r) ==
  /\ phase[r] = "ended" /\ r \notin gone
  /\ Ask(r, "guard")
  /\ UNCHANGED <<stream, rights, changes, other>>

(* The client leaves; on an open stream cleanup runs.                      *)
Leave(r) ==
  /\ r \in Streams \ gone
  /\ phase[r] \notin {"new", "never"}
  /\ gone' = gone \cup {r}
  /\ listening' = listening \ {r}
  /\ phase' = IF phase[r] = "open" THEN [phase EXCEPT ![r] = "ended"] ELSE phase
  /\ UNCHANGED <<pool, check, topic, unheard, rights, changes, other>>

-----------------------------------------------------------------------------
(* RelayWorker.tick, see Outbox for what it does to the events.            *)

(* Mutant: the interval does not look at `ticking`.                        *)
StartTickUnguarded(t) ==
  /\ phase[t] = "idle"
  /\ Ask(t, "fetch")
  /\ UNCHANGED <<stream, rights, changes, other>>

StartTick(t) ==
  /\ \A u \in Tick : phase[u] = "idle"
  /\ Ask(t, "fetch")
  /\ UNCHANGED <<stream, rights, changes, other>>

(* fetchUnpublished: nothing to do, or a batch to publish.                 *)
Fetch(t) ==
  /\ t \in Tick
  /\ \/ EndScope(t, "fetch", "idle")
     \/ Statement(t, "fetch", "publish") /\ UNCHANGED check
  /\ UNCHANGED <<stream, rights, changes, other>>

(* Redis has taken the jobs; markPublished and the commit.                 *)
Publish(t) ==
  /\ t \in Tick
  /\ EndScope(t, "publish", "idle")
  /\ UNCHANGED <<stream, rights, changes, other>>

-----------------------------------------------------------------------------
(* What other members change: see Roles and Branches for how.              *)

(* The rights one request of another member can make of ri: AssignRole,    *)
(* UpdateRole with new grants, SetBranchMemberships.                       *)
Changed(ri) ==
  ({[ri EXCEPT !.role = ro] : ro \in RoleId}
     \cup {[ri EXCEPT !.grant[ro] = g] : ro \in Custom, g \in Grants}
     \cup {[ri EXCEPT !.inBranch = b] : b \in BOOLEAN}) \ {ri}

Change ==
  /\ home
  /\ changes < MaxChanges
  /\ changes' = changes + 1
  /\ \E ri \in Changed(rights) :
       /\ rights' = ri
       /\ check' = [h \in Holder |->
                      IF phase[h] \in Checking
                      THEN [check[h] EXCEPT !.had = @ \/ May(h, ri), !.moved = @ + 1]
                      ELSE check[h]]
  /\ UNCHANGED <<pool, phase, stream, other>>

-----------------------------------------------------------------------------
(* The step a request or a tick owes.                                      *)
Step(h) ==
  \/ h \in Creates /\ (List(h) \/ Bootstrap(h))
  \/ h \in Updates /\ (Resolve(h) \/ Write(h))
  \/ h \in Streams /\ (FindSalonOfBranch(h) \/ Open(h))
  \/ h \in Request /\ (Guard(h) \/ FindMember(h) \/ FindGrants(h) \/ FindBranch(h))
  \/ h \in Tick /\ Fetch(h)

Next ==
  \/ Grant
  \/ \E h \in Holder : Step(h) \/ Fail(h)
  \/ \E r \in Request : Arrive(r) \/ Claim(r)
  \/ \E r \in Streams : EndStream(r) \/ Reconnect(r) \/ Leave(r)
  \/ \E t \in Tick : StartTick(t) \/ Publish(t)
  \/ Change

Spec == Init /\ [][Next]_vars

(* A free connection is handed out, a statement returns, the timer fires   *)
(* and the client reconnects.  Redis may never answer, as the client       *)
(* retries for ever (maxRetriesPerRequest: null): Publish and Claim owe    *)
(* nothing, and no request, tick or change need come.                      *)
Fairness ==
  /\ WF_vars(Grant)
  /\ \A h \in Holder : WF_vars(Step(h))
  /\ \A r \in Streams : WF_vars(EndStream(r) \/ Reconnect(r))

FairSpec == Spec /\ Fairness
-----------------------------------------------------------------------------
(* Types of the variables; who has a connection is in a scope and no       *)
(* longer waits.                                                           *)
TypeOK ==
  /\ queue \in Seq(Holder)
  /\ held \in SUBSET Holder /\ Cardinality(held) <= PoolSize
  /\ \A h \in Holder : phase[h] \in InScope <=> h \in held \cup ToSet(queue)
  /\ held \cap ToSet(queue) = {}
  /\ phase \in [Holder -> InScope \cup Answered \cup {"never", "new", "keyed", "idle", "open", "ended"}]
  /\ topic \in [Streams -> {"salon", "branch"}]
  /\ listening \in SUBSET Streams /\ gone \in SUBSET Streams /\ unheard \in SUBSET gone
  /\ home \in BOOLEAN
  /\ rights \in IF home THEN Rights ELSE {NoRights}
  /\ created \in SUBSET Creates
  /\ changes \in 0..MaxChanges
  /\ before \in [Request -> SUBSET Request]
  /\ check \in [Holder -> [role : RoleId \cup {None}, had : BOOLEAN, moved : 0..MaxChanges]]

(* With fewer connections than requests and with Redis down for good,      *)
(* every request is answered or its stream opened, except that one with an *)
(* Idempotency-Key may wait for its key for ever: the relay's one tick     *)
(* holds one connection for ever, who waits for Redis otherwise holds      *)
(* none, and nobody holds one while it waits for another.                  *)
RequestsServed ==
  \A r \in Request :
    \/ r \in Keyed /\ <>[](phase[r] = "keyed")
    \/ []<>(phase[r] \notin InScope \cup {"keyed"})

(* A check that passes although rights change between its statements: the  *)
(* user had the right at some time during it, unless two changes came in   *)
(* between (the role read first loses the user, then gains the grant).     *)
AllowedHadRight ==
  \A r \in Updates \cup {s \in Streams : topic[s] = "branch"} :
    phase[r] = "pass" /\ check[r].moved <= 1 => check[r].had

(* A user comes by a second salon, for which resolve-current-salon.ts:34   *)
(* answers 501 from then on, only by creating two in requests that overlap. *)
SecondSalonByOverlap ==
  /\ home => created = {}
  /\ \A c, d \in created : c \notin before[d]

(* A stream whose client is gone is no longer subscribed to the bus,       *)
(* unless the client left before the handler asked to be told.             *)
ListenersHaveClients ==
  \A r \in listening : r \in unheard \/ (phase[r] = "open" /\ r \notin gone)

(* An open stream is checked no more, but ends: who has lost the right for *)
(* good is sooner or later no longer sent the branch's events.             *)
RevokedStreamEnds ==
  \A r \in Streams :
    (topic[r] = "branch" /\ <>[]~May(r, rights)) => <>[](phase[r] # "open")
=============================================================================
