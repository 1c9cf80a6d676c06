------------------------------- MODULE Outbox -------------------------------
(***************************************************************************)
(* The transactional outbox of src/backend/src/events: use cases insert a  *)
(* domain_event row in the transaction that changes their state            *)
(* (EventBus.emit), and on every API instance a RelayWorker polls the      *)
(* table: in one transaction it locks a batch of unpublished rows with     *)
(* FOR UPDATE SKIP LOCKED, adds one BullMQ job per row and stamps          *)
(* published_at.                                                           *)
(*                                                                         *)
(* The model takes a step between any two statements of these              *)
(* transactions, lets a tick fail at each of them, and lets an instance    *)
(* die while PostgreSQL still holds its transaction open.                  *)
(***************************************************************************)
EXTENDS Naturals, FiniteSets, Sequences

CONSTANTS
  Event,            \* rows of domain_event: one per emit, ids never reused
  Instance,         \* API processes that run a RelayWorker
  BatchSize,        \* rows one tick takes at most (200 in the code)
  KeepCompleted,    \* completed jobs BullMQ keeps (removeOnComplete, 1000)
  MaxFaults,        \* bound: ticks that throw
  MaxCrashes        \* bound: instances that die in the middle of a tick

ASSUME OutboxAssumption ==
  /\ BatchSize \in Nat \ {0}
  /\ KeepCompleted \in Nat \ {0}
  /\ MaxFaults \in Nat
  /\ MaxCrashes \in Nat

VARIABLES
  useCase,          \* where the transaction that emits each event stands
  now,              \* the database clock, advanced by every transaction start
  occurredAt,       \* occurred_at: DEFAULT now(), the transaction's start
  seen,             \* history: events already committed when e's transaction began
  published,        \* rows whose published_at is set and committed
  pc,               \* next statement of each instance's tick
  batch,            \* rows each instance's open transaction has locked
  orphans,          \* transactions PostgreSQL holds for dead connections
  waiting,          \* jobs of the domain-events queue not processed yet
  kept,             \* completed jobs still in Redis, oldest first
  created,          \* history: jobs created for each event
  forwards,         \* history: addBulk calls that reached Redis with the event
  faults,           \* ticks that threw so far
  crashes           \* instances that died in a tick so far

emitVars  == <<useCase, now, occurredAt, seen>>
tickVars  == <<pc, batch>>
queueVars == <<waiting, kept, created, forwards>>
vars == <<emitVars, published, tickVars, orphans, queueVars, faults, crashes>>

UseCaseState == {"idle", "open", "emitted", "committed", "aborted"}
TickState    == {"idle", "fetched", "forwarded", "marked"}
Orphan       == [rows : SUBSET Event, at : TickState]

Committed == {e \in Event : useCase[e] = "committed"}
Locked    == {e \in Event : \/ \E i \in Instance : e \in batch[i]
                            \/ \E o \in orphans : e \in o.rows}

Init ==
  /\ useCase = [e \in Event |-> "idle"]
  /\ now = 0
  /\ occurredAt = [e \in Event |-> 0]
  /\ seen = [e \in Event |-> {}]
  /\ published = {}
  /\ pc = [i \in Instance |-> "idle"]
  /\ batch = [i \in Instance |-> {}]
  /\ orphans = {}
  /\ waiting = {}
  /\ kept = <<>>
  /\ created = [e \in Event |-> 0]
  /\ forwards = [e \in Event |-> 0]
  /\ faults = 0
  /\ crashes = 0

-----------------------------------------------------------------------------
(* The emitting use cases.                                                 *)

(* Mutant: the column has no DEFAULT and stays unset.                      *)
BeginUnstamped(e) ==
  /\ useCase[e] = "idle"
  /\ useCase' = [useCase EXCEPT ![e] = "open"]
  /\ now' = now + 1
  /\ occurredAt' = [occurredAt EXCEPT ![e] = 0 - 1]
  /\ seen' = [seen EXCEPT ![e] = Committed]
  /\ UNCHANGED <<published, tickVars, orphans, queueVars, faults, crashes>>

(* DatabaseService.runScoped opens the transaction: now() is fixed here.   *)
Begin(e) ==
  /\ useCase[e] = "idle"
  /\ useCase' = [useCase EXCEPT ![e] = "open"]
  /\ now' = now + 1
  /\ occurredAt' = [occurredAt EXCEPT ![e] = now + 1]
  /\ seen' = [seen EXCEPT ![e] = Committed]
  /\ UNCHANGED <<published, tickVars, orphans, queueVars, faults, crashes>>

(* EventBus.emit inserts the row on the caller's transaction.              *)
Emit(e) ==
  /\ useCase[e] = "open"
  /\ useCase' = [useCase EXCEPT ![e] = "emitted"]
  /\ UNCHANGED <<now, occurredAt, seen, published, tickVars, orphans,
                 queueVars, faults, crashes>>

(* The use case returns: state change and event become visible together.   *)
Commit(e) ==
  /\ useCase[e] = "emitted"
  /\ useCase' = [useCase EXCEPT ![e] = "committed"]
  /\ UNCHANGED <<now, occurredAt, seen, published, tickVars, orphans,
                 queueVars, faults, crashes>>

(* The use case throws, before or after emit (an unregistered type or a    *)
(* payload that fails its schema throws in emit itself).                   *)
Abort(e) ==
  /\ useCase[e] \in {"open", "emitted"}
  /\ useCase' = [useCase EXCEPT ![e] = "aborted"]
  /\ UNCHANGED <<now, occurredAt, seen, published, tickVars, orphans,
                 queueVars, faults, crashes>>

-----------------------------------------------------------------------------
(* RelayWorker.tick, one action per statement.                             *)

(* Mutant: no FOR UPDATE SKIP LOCKED.                                      *)
AvailableUnlocked == Committed \ published

(* Mutant: emit inserts its row outside the use case's transaction.        *)
AvailableEarly ==
  {e \in Event : useCase[e] \in {"emitted", "committed"}} \ (published \cup Locked)

(* Unpublished rows no other transaction has locked.                       *)
Available == Committed \ (published \cup Locked)

(* Mutant: no ORDER BY.                                                    *)
IsAnyBatch(B, S) ==
  /\ Cardinality(B) <= BatchSize
  /\ B # S => Cardinality(B) = BatchSize

(* B is what ORDER BY occurred_at LIMIT BatchSize returns of S.            *)
IsOldest(B, S) ==
  /\ Cardinality(B) <= BatchSize
  /\ B # S => Cardinality(B) = BatchSize
  /\ \A b \in B, s \in S \ B : occurredAt[b] < occurredAt[s]

(* OutboxRepo.fetchUnpublished.  An empty result ends the tick with        *)
(* nothing changed; `ticking` makes it one tick at a time per instance.    *)
Fetch(i) ==
  /\ pc[i] = "idle"
  /\ \E B \in SUBSET Available :
       /\ B # {}
       /\ IsOldest(B, Available)
       /\ batch' = [batch EXCEPT ![i] = B]
  /\ pc' = [pc EXCEPT ![i] = "fetched"]
  /\ UNCHANGED <<emitVars, published, orphans, queueVars, faults, crashes>>

InRedis(e) == e \in waiting \/ \E n \in DOMAIN kept : kept[n] = e

(* Mutant: no jobId, so that every call makes a new job.                   *)
AddBulkAlways(B) ==
  /\ waiting' = waiting \cup B
  /\ created' = [e \in Event |-> IF e \in B THEN created[e] + 1 ELSE created[e]]
  /\ forwards' = [e \in Event |-> IF e \in B THEN forwards[e] + 1 ELSE forwards[e]]
  /\ UNCHANGED kept

(* Queue.addBulk, atomic in Redis: a job whose id exists is not added.     *)
AddBulk(B) ==
  LET new == {e \in B : ~InRedis(e)} IN
  /\ waiting' = waiting \cup new
  /\ created' = [e \in Event |-> IF e \in new THEN created[e] + 1 ELSE created[e]]
  /\ forwards' = [e \in Event |-> IF e \in B THEN forwards[e] + 1 ELSE forwards[e]]
  /\ UNCHANGED kept

(* publisher.publish(batch).                                               *)
Publish(i) ==
  /\ pc[i] = "fetched"
  /\ AddBulk(batch[i])
  /\ pc' = [pc EXCEPT ![i] = "forwarded"]
  /\ UNCHANGED <<emitVars, published, batch, orphans, faults, crashes>>

(* OutboxRepo.markPublished, not visible to others before the commit.      *)
Mark(i) ==
  /\ pc[i] = "forwarded"
  /\ pc' = [pc EXCEPT ![i] = "marked"]
  /\ UNCHANGED <<emitVars, published, batch, orphans, queueVars, faults, crashes>>

(* The tick's transaction commits and its locks go.                        *)
CommitTick(i) ==
  /\ pc[i] = "marked"
  /\ published' = published \cup batch[i]
  /\ pc' = [pc EXCEPT ![i] = "idle"]
  /\ batch' = [batch EXCEPT ![i] = {}]
  /\ UNCHANGED <<emitVars, orphans, queueVars, faults, crashes>>

(* A call cut short while addBulk was on the wire may have reached Redis.  *)
MaybeForwarded(i) ==
  \/ pc[i] = "fetched" /\ AddBulk(batch[i])
  \/ UNCHANGED queueVars

(* Mutant: the error is swallowed inside the transaction, which commits.   *)
TickFailsCommitting(i) ==
  /\ pc[i] # "idle"
  /\ faults < MaxFaults
  /\ faults' = faults + 1
  /\ published' = published \cup batch[i]
  /\ pc' = [pc EXCEPT ![i] = "idle"]
  /\ batch' = [batch EXCEPT ![i] = {}]
  /\ UNCHANGED <<emitVars, orphans, queueVars, crashes>>

(* Mutant: no finally: `ticking` stays set and the transaction open.       *)
TickFailsForGood(i) ==
  /\ pc[i] # "idle"
  /\ faults < MaxFaults
  /\ faults' = faults + 1
  /\ MaybeForwarded(i)
  /\ pc' = [pc EXCEPT ![i] = "stuck"]
  /\ UNCHANGED <<emitVars, published, batch, orphans, crashes>>

(* publish, mark or commit throws: the transaction rolls back, tick()      *)
(* swallows the error and the rows are there for the next tick.            *)
TickFails(i) ==
  /\ pc[i] # "idle"
  /\ faults < MaxFaults
  /\ faults' = faults + 1
  /\ MaybeForwarded(i)
  /\ pc' = [pc EXCEPT ![i] = "idle"]
  /\ batch' = [batch EXCEPT ![i] = {}]
  /\ UNCHANGED <<emitVars, published, orphans, crashes>>

(* The process dies and a new one takes its place; PostgreSQL has not      *)
(* noticed yet, and the transaction keeps its locks.                       *)
Crash(i) ==
  /\ pc[i] # "idle"
  /\ crashes < MaxCrashes
  /\ crashes' = crashes + 1
  /\ MaybeForwarded(i)
  /\ orphans' = orphans \cup {[rows |-> batch[i], at |-> pc[i]]}
  /\ pc' = [pc EXCEPT ![i] = "idle"]
  /\ batch' = [batch EXCEPT ![i] = {}]
  /\ UNCHANGED <<emitVars, published, faults>>

(* PostgreSQL ends a dead connection's transaction: it rolls back, unless  *)
(* the process had sent its COMMIT.                                        *)
EndOrphan(o) ==
  /\ orphans' = orphans \ {o}
  /\ \/ published' = published
     \/ o.at = "marked" /\ published' = published \cup o.rows
  /\ UNCHANGED <<emitVars, tickVars, queueVars, faults, crashes>>

(* A consumer of the queue finishes a job; past KeepCompleted jobs the     *)
(* oldest completed one is deleted, and with it the memory of its id.      *)
Complete(e) ==
  /\ e \in waiting
  /\ waiting' = waiting \ {e}
  /\ kept' = Append(IF Len(kept) < KeepCompleted THEN kept ELSE Tail(kept), e)
  /\ UNCHANGED <<emitVars, published, tickVars, orphans, created, forwards,
                 faults, crashes>>

-----------------------------------------------------------------------------
TickStep(i) == Fetch(i) \/ Publish(i) \/ Mark(i) \/ CommitTick(i)

Next ==
  \/ \E e \in Event : Begin(e) \/ Emit(e) \/ Commit(e) \/ Abort(e) \/ Complete(e)
  \/ \E i \in Instance :
       \/ Fetch(i) \/ Publish(i) \/ Mark(i) \/ CommitTick(i)
       \/ TickFails(i) \/ Crash(i)
  \/ \E o \in orphans : EndOrphan(o)

Spec == Init /\ [][Next]_vars

(* setInterval re-runs tick() for as long as the process lives, a tick     *)
(* that started either ends or throws, and PostgreSQL ends every dead      *)
(* connection's transaction.  Use cases and consumers owe nothing.         *)
Fairness ==
  /\ \A i \in Instance : WF_vars(TickStep(i))
  /\ WF_vars(\E o \in orphans : EndOrphan(o))

FairSpec == Spec /\ Fairness
-----------------------------------------------------------------------------
(* Types of the variables.                                                 *)
TypeOK ==
  /\ useCase \in [Event -> UseCaseState]
  /\ now \in Nat
  /\ occurredAt \in [Event -> Nat]
  /\ seen \in [Event -> SUBSET Event]
  /\ published \in SUBSET Event
  /\ pc \in [Instance -> TickState]
  /\ batch \in [Instance -> SUBSET Event]
  /\ orphans \in SUBSET Orphan
  /\ waiting \in SUBSET Event
  /\ kept \in Seq(Event)
  /\ created \in [Event -> Nat]
  /\ forwards \in [Event -> Nat]
  /\ faults \in Nat
  /\ crashes \in Nat

Forwarded == {e \in Event : forwards[e] > 0}

(* No two open relay transactions, a dead instance's included, hold the    *)
(* same row: what FOR UPDATE SKIP LOCKED is there for.                     *)
LocksDisjoint ==
  /\ \A i, j \in Instance : i # j => batch[i] \cap batch[j] = {}
  /\ \A i \in Instance, o \in orphans : batch[i] \cap o.rows = {}
  /\ \A o, p \in orphans : o # p => o.rows \cap p.rows = {}

(* An event is not lost: a row whose published_at is set was given to the  *)
(* publisher, whatever tick failed or instance died in between.            *)
PublishedWasForwarded == published \subseteq Forwarded

(* A row is forwarded again only when a tick that had taken it failed: two *)
(* healthy instances never forward the same row (relay.worker.ts:20).      *)
ForwardedOncePerFault == \A e \in Event : forwards[e] <= 1 + faults + crashes

(* Once published_at is set nothing forwards the row again, not even an    *)
(* instance that selected it before the other's commit.                    *)
PublishedNotForwardedAgain ==
  [][\A e \in published : forwards'[e] = forwards[e]]_vars

(* A second job for an event takes KeepCompleted other jobs at least: until *)
(* then Redis remembers the first one's id and addBulk drops the re-relay.  *)
DedupedWhileKept ==
  \A e \in Event :
    created[e] > 1 =>
      Cardinality({d \in Event \ {e} : created[d] > 0}) >= KeepCompleted

(* An event overtakes one that had committed when its own transaction      *)
(* began only while another tick holds that one, as long as nothing fails: *)
(* the batch limit, SKIP LOCKED and transactions that commit out of order  *)
(* do not reorder causally ordered events any further, on any number of    *)
(* instances.                                                              *)
CausalOrder ==
  faults = 0 /\ crashes = 0 =>
    \A e \in Forwarded : seen[e] \subseteq Forwarded \cup Locked

(* The outbox implements the at-least-once delivery of EventDelivery.      *)
Delivery == INSTANCE EventDelivery
              WITH happened <- Committed, delivered <- Forwarded
DeliverySafety == Delivery!Safety
DeliverySpec == Delivery!Spec
=============================================================================
