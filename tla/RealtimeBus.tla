----------------------------- MODULE RealtimeBus -----------------------------
(***************************************************************************)
(* The database poll of one instance's RealtimeBus                         *)
(* (src/backend/src/realtime/realtime-bus.ts): every two seconds it reads  *)
(* the domain_event rows after its cursor and publishes them to the        *)
(* streams of its process.  Nothing keeps a poll from starting while an    *)
(* earlier one still waits for its connection or its rows.                 *)
(*                                                                         *)
(* occurred_at is the emitting transaction's start in microseconds.  The   *)
(* cursor is a JavaScript Date: it keeps the milliseconds only.            *)
(***************************************************************************)
EXTENDS Timestamps, Integers, FiniteSets

CONSTANTS
  MaxEvent,         \* bound: rows of domain_event; an event is its id
  Poll,             \* polls under way at the same time
  Batch,            \* rows a poll reads at most (100 in the code)
  MaxStep,          \* bound: clock steps between two starts
  MaxFaults         \* bound: polls that fail and restarts

ASSUME BusAssumption ==
  /\ MaxEvent \in Nat
  /\ Batch \in Nat \ {0}
  /\ MaxStep \in Nat
  /\ MaxFaults \in Nat

VARIABLES
  status,           \* where the transaction of each event stands
  occurredAt,       \* occurred_at, in clock steps
  now,              \* the clock
  cursor,           \* the instance's cursor
  poll,             \* what each poll has read
  broadcast,        \* history: events this instance's streams were sent
  start,            \* history: the cursor the instance started with
  late,             \* history: rows committed behind a cursor in use
  faults            \* failures so far

eventVars == <<status, occurredAt, now>>
busVars   == <<cursor, poll, broadcast>>
vars == <<eventVars, busVars, start, late, faults>>

Event     == 1..MaxEvent
Committed == {e \in Event : status[e] = "committed"}

(* A place in the order of the poll; id 0 is the nil UUID.                 *)
Place == [at : Nat, id : 0..MaxEvent]
At(e) == [at |-> occurredAt[e], id |-> e]

(* A time as a Date.                                                       *)
Cut(t) == Millis(t) * PerMs

(* gt(occurredAt, cursor) or the same time and gt(id, cursor).             *)
After(p, q) == p.at > q.at \/ (p.at = q.at /\ p.id > q.id)

(* Mutant: the driver rounds up.                                           *)
CursorRoundedUp(e) == [at |-> Cut(occurredAt[e] + PerMs - 1), id |-> e]

(* The cursor that stands for having read e.                               *)
CursorOf(e) == [at |-> Cut(occurredAt[e]), id |-> e]

StartCursor == [at |-> Cut(now), id |-> 0]

Idle == [st |-> "idle", from |-> [at |-> 0, id |-> 0], rows |-> {}]

(* onModuleInit: the cursor starts at "now".                               *)
Init ==
  /\ status = [e \in Event |-> "idle"]
  /\ occurredAt = [e \in Event |-> 0]
  /\ now = PerMs
  /\ cursor = StartCursor
  /\ poll = [p \in Poll |-> Idle]
  /\ broadcast = {}
  /\ start = StartCursor
  /\ late = {}
  /\ faults = 0

-----------------------------------------------------------------------------
(* A use case that emits event e: withTenant opens its transaction, which  *)
(* fixes occurred_at; events of one transaction share it.  Ids are given   *)
(* in an order of their own.                                               *)
Begin(e) ==
  /\ status[e] = "idle"
  /\ status' = [status EXCEPT ![e] = "open"]
  /\ \E step \in 0..MaxStep :
       /\ now' = now + step
       /\ occurredAt' = [occurredAt EXCEPT ![e] = now + step]
  /\ UNCHANGED <<busVars, start, late, faults>>

(* The cursors in use: the instance's, and of each poll under way the one  *)
(* it took and those its rows stand for.  A poll that took a later cursor  *)
(* than the instance's, which another poll has set back, reads from there. *)
Cursors ==
  {cursor} \cup {poll[p].from : p \in Poll}
    \cup {CursorOf(f) : f \in UNION {poll[p].rows : p \in Poll}}

(* Its transaction commits, perhaps after rows ordered later were read.    *)
(* One that rolls back is one that stays open: nobody ever sees its row.   *)
Commit(e) ==
  /\ status[e] = "open"
  /\ status' = [status EXCEPT ![e] = "committed"]
  /\ late' = IF \A q \in Cursors : After(At(e), q) THEN late ELSE late \cup {e}
  /\ UNCHANGED <<occurredAt, now, busVars, start, faults>>

-----------------------------------------------------------------------------
(* The interval fires; pollOnce takes the cursor and asks for a connection. *)
PollStart(p) ==
  /\ poll[p].st = "idle"
  /\ poll' = [poll EXCEPT ![p] = [Idle EXCEPT !.st = "asked", !.from = cursor]]
  /\ UNCHANGED <<eventVars, cursor, broadcast, start, late, faults>>

(* Mutant: rows of transactions that have not committed are read.          *)
RowsAfterDirty(q) ==
  LET rows == {e \in Event : status[e] \in {"open", "committed"} /\ After(At(e), q)}
  IN  {e \in rows : Cardinality({f \in rows : After(At(e), At(f))}) < Batch}

(* Mutant: one row less than the batch.                                    *)
RowsAfterLess(q) ==
  LET rows == {e \in Committed : After(At(e), q)}
  IN  {e \in rows : Cardinality({f \in rows : After(At(e), At(f))}) < Batch - 1}

(* The oldest rows after q, asc(occurredAt), asc(id), limit(Batch).        *)
RowsAfter(q) ==
  LET rows == {e \in Committed : After(At(e), q)}
  IN  {e \in rows : Cardinality({f \in rows : After(At(e), At(f))}) < Batch}

(* rows[rows.length - 1].                                                  *)
LastRow(S) == CHOOSE e \in S : \A f \in S \ {e} : After(At(e), At(f))

(* The query's snapshot is taken; without rows that was the poll.          *)
PollQuery(p) ==
  /\ poll[p].st = "asked"
  /\ LET rows == RowsAfter(poll[p].from) IN
       poll' = [poll EXCEPT ![p] = IF rows = {} THEN Idle
                                   ELSE [Idle EXCEPT !.st = "read", !.rows = rows]]
  /\ UNCHANGED <<eventVars, cursor, broadcast, start, late, faults>>

(* The rows are published and the cursor set to the last one, wherever     *)
(* another poll has set it in the meantime.                                *)
PollDeliver(p) ==
  /\ poll[p].st = "read"
  /\ broadcast' = broadcast \cup poll[p].rows
  /\ cursor' = CursorOf(LastRow(poll[p].rows))
  /\ poll' = [poll EXCEPT ![p] = Idle]
  /\ UNCHANGED <<eventVars, start, late, faults>>

(* The query fails: it is logged, and the interval goes on.                *)
PollFail(p) ==
  /\ poll[p].st = "asked"
  /\ faults < MaxFaults
  /\ faults' = faults + 1
  /\ poll' = [poll EXCEPT ![p] = Idle]
  /\ UNCHANGED <<eventVars, cursor, broadcast, start, late>>

(* The process dies and comes up again, after a while, with a new cursor.  *)
Restart ==
  /\ faults < MaxFaults
  /\ faults' = faults + 1
  /\ poll' = [p \in Poll |-> Idle]
  /\ \E step \in 0..MaxStep : now' = now + step
  /\ cursor' = [at |-> Cut(now'), id |-> 0]
  /\ start' = cursor'
  /\ UNCHANGED <<status, occurredAt, broadcast, late>>

-----------------------------------------------------------------------------
PollStep(p) == PollStart(p) \/ PollQuery(p) \/ PollDeliver(p)

Next ==
  \/ \E e \in Event : Begin(e) \/ Commit(e)
  \/ \E p \in Poll : PollStep(p) \/ PollFail(p)
  \/ Restart

Spec == Init /\ [][Next]_vars

(* The interval fires for as long as the process is up, and a query gets   *)
(* its connection and returns: exactly one of a poll's steps is enabled at *)
(* any time.  Use cases owe nothing.                                       *)
Fairness == \A p \in Poll : WF_vars(PollStep(p))

FairSpec == Spec /\ Fairness
-----------------------------------------------------------------------------
(* Types of the variables.                                                 *)
TypeOK ==
  /\ status \in [Event -> {"idle", "open", "committed"}]
  /\ occurredAt \in [Event -> Nat]
  /\ now \in Nat
  /\ cursor \in Place
  /\ start \in Place
  /\ poll \in [Poll -> [st : {"idle", "asked", "read"}, from : Place, rows : SUBSET Event]]
  /\ broadcast \in SUBSET Committed
  /\ late \in SUBSET Committed
  /\ faults \in 0..MaxFaults

(* Committed rows this instance has to broadcast: those that occurred      *)
(* since it started and were not committed behind its cursor.              *)
Due == {e \in Committed \ late : After(At(e), start)}

(* The cursor never passes a row that was not broadcast, whichever of the  *)
(* polls that overlap is the last to set it, and although it forgets the   *)
(* microseconds.                                                           *)
PassedWasBroadcast == \A e \in Due : After(At(e), cursor) \/ e \in broadcast

(* e is at or behind a millisecond that holds as many rows as a batch: the *)
(* cursor forgets its microseconds, so each poll may read the same rows    *)
(* and leave the cursor where it is.                                       *)
Crowded(e) ==
  \E f \in Committed :
    /\ Cut(occurredAt[f]) <= occurredAt[e]
    /\ Cardinality({g \in Committed : Cut(occurredAt[g]) = Cut(occurredAt[f])}) >= Batch

(* "an event published on one instance still reaches a subscriber          *)
(* connected to another" (realtime-bus.ts:20): again and again every       *)
(* committed row has been broadcast, except those committed behind a       *)
(* cursor, those from before a restart, and those behind a crowded         *)
(* millisecond.                                                            *)
EventuallyBroadcast == []<>(\A e \in Due : e \in broadcast \/ Crowded(e))
=============================================================================
