------------------------- MODULE NotificationStream -------------------------
(***************************************************************************)
(* One user's notifications (src/backend/src/notifications) on their way   *)
(* to one EventSource.  EmitNotification inserts a row and then publishes  *)
(* it on its own process's RealtimeBus.  The stream handler reads the rows *)
(* newer than the Last-Event-ID the client reconnects with, writes them    *)
(* oldest first, each with its created_at as the event's id, and only then *)
(* subscribes to the bus; what the bus delivers carries no id.  The client *)
(* is one that presents a token: without one every connection is refused.  *)
(*                                                                         *)
(* created_at is the emitting transaction's start in microseconds, and no  *)
(* constraint keeps two rows from sharing one; an id keeps its             *)
(* milliseconds only.                                                      *)
(*                                                                         *)
(* Init, Next and the like are named Stream... so that RealtimeProofs can  *)
(* extend this module beside RealtimeBus.                                  *)
(***************************************************************************)
EXTENDS Timestamps, Integers, FiniteSets, Sequences

CONSTANTS
  MaxNotif,         \* bound: notifications of the recipient
  Instances,        \* API processes
  Limit,            \* rows a backlog holds at most (100 in the code)
  MaxBreaks,        \* bound: connections that break
  MaxGap            \* bound: clock steps from one transaction's start to the next

ASSUME StreamAssumption ==
  /\ MaxNotif \in Nat
  /\ Instances \in Nat \ {0}
  /\ Limit \in Nat \ {0}
  /\ MaxBreaks \in Nat
  /\ MaxGap \in Nat

VARIABLES
  emission,         \* where the emission of each notification stands
  createdAt,        \* created_at, in clock steps
  clock,            \* the database clock
  stream,           \* where the client's connection stands
  lastId,           \* the client's Last-Event-ID in ms, 0 for none
  backlog,          \* rows the handler has read and not written yet
  pipe,             \* events written and not received yet
  received,         \* history: notifications the client has got
  outOfOrder,       \* history: rows committed after one with a later created_at
  cut,              \* history: rows a backlog left out for its limit
  breaks            \* connections that broke so far

emitVars   == <<emission, createdAt, clock>>
streamVars == <<stream, lastId, backlog, pipe, received>>
notifVars == <<emitVars, streamVars, outOfOrder, cut, breaks>>

Notif       == 1..MaxNotif
Status      == {"idle", "open", "committed", "aborted", "emitted"}
StreamState == {"closed", "reading", "read", "live", "ending", "refused"}

Stored == {n \in Notif : emission[n] \in {"committed", "emitted"}}
Ms(n)  == Millis(createdAt[n])

(* Rows that share an exact millisecond with another: gt(created_at) of an *)
(* id leaves out all of them once the client has got one.                  *)
Tied ==
  {n \in Stored : /\ createdAt[n] = Ms(n) * PerMs
                  /\ \E m \in Stored \ {n} : createdAt[m] = createdAt[n]}

(* An event's id is 0 when the frame has no id line.                       *)
Frame(n, id) == [row |-> n, id |-> id]

StreamInit ==
  /\ emission = [n \in Notif |-> "idle"]
  /\ createdAt = [n \in Notif |-> 0]
  /\ clock = PerMs
  /\ stream = "closed"
  /\ lastId = 0
  /\ backlog = <<>>
  /\ pipe = <<>>
  /\ received = {}
  /\ outOfOrder = {}
  /\ cut = {}
  /\ breaks = 0

-----------------------------------------------------------------------------
(* EmitNotification.execute.                                               *)

(* withSystem opens the transaction: created_at is fixed here, and may be  *)
(* that of another.  Notifications are numbered as they begin.             *)
BeginEmission(n) ==
  /\ emission[n] = "idle"
  /\ \A m \in 1..(n - 1) : emission[m] # "idle"
  /\ emission' = [emission EXCEPT ![n] = "open"]
  /\ \E step \in 0..MaxGap :
       /\ clock' = clock + step
       /\ createdAt' = [createdAt EXCEPT ![n] = clock + step]
  /\ UNCHANGED <<streamVars, outOfOrder, cut, breaks>>

(* The inserted row is committed.                                          *)
CommitEmission(n) ==
  /\ emission[n] = "open"
  /\ emission' = [emission EXCEPT ![n] = "committed"]
  /\ outOfOrder' = IF \E m \in Stored : createdAt[m] > createdAt[n]
                   THEN outOfOrder \cup {n} ELSE outOfOrder
  /\ UNCHANGED <<createdAt, clock, streamVars, cut, breaks>>

(* The transaction fails.                                                  *)
AbortEmission(n) ==
  /\ emission[n] = "open"
  /\ emission' = [emission EXCEPT ![n] = "aborted"]
  /\ UNCHANGED <<createdAt, clock, streamVars, outOfOrder, cut, breaks>>

(* bus.publish: the handlers subscribed in this process write the event.   *)
Publish(n) ==
  /\ emission[n] = "committed"
  /\ emission' = [emission EXCEPT ![n] = "emitted"]
  /\ pipe' = IF stream = "live" THEN Append(pipe, Frame(n, 0)) ELSE pipe
  /\ UNCHANGED <<createdAt, clock, stream, lastId, backlog, received, outOfOrder,
                 cut, breaks>>

(* bus.publish in a process that does not serve the client: the bus is     *)
(* in-process, and its poll of domain_event knows no notifications.        *)
PublishElsewhere(n) ==
  /\ Instances > 1
  /\ emission[n] = "committed"
  /\ emission' = [emission EXCEPT ![n] = "emitted"]
  /\ UNCHANGED <<createdAt, clock, streamVars, outOfOrder, cut, breaks>>

(* The process dies between the commit and the publish.                    *)
DieBeforePublish(n) ==
  /\ emission[n] = "committed"
  /\ breaks < MaxBreaks
  /\ breaks' = breaks + 1
  /\ emission' = [emission EXCEPT ![n] = "emitted"]
  /\ UNCHANGED <<createdAt, clock, streamVars, outOfOrder, cut>>

-----------------------------------------------------------------------------
(* NotificationsController.stream.                                         *)

(* EventSource connects, to any instance, with the last id it has seen.    *)
Connect ==
  /\ stream = "closed"
  /\ stream' = "reading"
  /\ UNCHANGED <<emitVars, lastId, backlog, pipe, received, outOfOrder, cut, breaks>>

(* JwtAuthGuard answers 401, for a token that is expired or missing, or    *)
(* fails: EventSource gives up on any status but 200.                      *)
Refuse ==
  /\ stream = "closed"
  /\ stream' = "refused"
  /\ UNCHANGED <<emitVars, lastId, backlog, pipe, received, outOfOrder, cut, breaks>>

(* Mutant: the id is compared as if it named the whole millisecond.        *)
NewerThanMs(id) == {n \in Stored : createdAt[n] > (id + 1) * PerMs}

(* Mutant: rows of transactions that have not committed are returned.      *)
NewerThanDirty(id) ==
  {n \in Notif : emission[n] \notin {"idle", "aborted"} /\ createdAt[n] > id * PerMs}

(* gt(created_at, afterCreatedAt), all rows without a Last-Event-ID.       *)
NewerThan(id) == {n \in Stored : createdAt[n] > id * PerMs}

(* The sequences of all of S, at most Limit rows, in which they ascend.    *)
Ascending(S, Before(_, _)) ==
  {q \in UNION {[1..k -> S] : k \in 0..Limit} :
     /\ {q[k] : k \in DOMAIN q} = S
     /\ \A i, j \in DOMAIN q : i < j => Before(q[i], q[j])}

(* Mutant: the rows are written as the query returns them, newest first.   *)
NewestFirst(S) == Ascending(S, LAMBDA m, n : createdAt[m] >= createdAt[n])

(* backlog.reverse(): oldest first, those of one created_at in any order.  *)
OldestFirst(S) == Ascending(S, LAMBDA m, n : createdAt[m] <= createdAt[n])

(* What order by created_at desc limit Limit can return of the rows S.     *)
Newest(S) ==
  {K \in SUBSET S :
     /\ \A n \in S \ K : \A m \in K : createdAt[n] <= createdAt[m]
     /\ IF Cardinality(S) <= Limit THEN K = S ELSE Cardinality(K) = Limit}

(* NotificationsRepo.listForRecipient.                                     *)
ReadBacklog ==
  /\ stream = "reading"
  /\ stream' = "read"
  /\ \E rows \in Newest(NewerThan(lastId)) :
       /\ backlog' \in OldestFirst(rows)
       /\ cut' = cut \cup (NewerThan(lastId) \ rows)
  /\ UNCHANGED <<emitVars, lastId, pipe, received, outOfOrder, breaks>>

(* The handler goes on after its await: it writes the rows and subscribes. *)
Subscribe ==
  /\ stream = "read"
  /\ stream' = "live"
  /\ pipe' = [k \in DOMAIN backlog |-> Frame(backlog[k], Ms(backlog[k]))]
  /\ backlog' = <<>>
  /\ UNCHANGED <<emitVars, lastId, received, outOfOrder, cut, breaks>>

(* The client gets the next event and remembers its id, if it has one.     *)
Receive ==
  /\ pipe # <<>>
  /\ received' = received \cup {Head(pipe).row}
  /\ lastId' = IF Head(pipe).id = 0 THEN lastId ELSE Head(pipe).id
  /\ pipe' = Tail(pipe)
  /\ UNCHANGED <<emitVars, stream, backlog, outOfOrder, cut, breaks>>

(* MAX_STREAM_DURATION_MS is over: res.end() after what was written.       *)
End ==
  /\ stream = "live"
  /\ stream' = "ending"
  /\ UNCHANGED <<emitVars, lastId, backlog, pipe, received, outOfOrder, cut, breaks>>

(* The client has everything and sees the end; EventSource reconnects.     *)
Close ==
  /\ stream = "ending"
  /\ pipe = <<>>
  /\ stream' = "closed"
  /\ UNCHANGED <<emitVars, lastId, backlog, pipe, received, outOfOrder, cut, breaks>>

(* The connection breaks, or the read fails after the headers were sent.   *)
Break ==
  /\ stream \notin {"closed", "refused"}
  /\ breaks < MaxBreaks
  /\ breaks' = breaks + 1
  /\ stream' = "closed"
  /\ backlog' = <<>>
  /\ pipe' = <<>>
  /\ UNCHANGED <<emitVars, lastId, received, outOfOrder, cut>>

-----------------------------------------------------------------------------
StreamNext ==
  \/ \E n \in Notif :
       \/ BeginEmission(n) \/ CommitEmission(n) \/ AbortEmission(n)
       \/ Publish(n) \/ PublishElsewhere(n) \/ DieBeforePublish(n)
  \/ Connect \/ Refuse \/ ReadBacklog \/ Subscribe \/ Receive \/ End \/ Close
  \/ Break

StreamSpec == StreamInit /\ [][StreamNext]_notifVars

(* EventSource reconnects for as long as the page is open, and nothing     *)
(* says that the guard lets it in; a query returns, events arrive, and the *)
(* timer ends every stream.  Emissions owe nothing, not even a publish.    *)
StreamFairness ==
  /\ WF_notifVars(Connect \/ Refuse)
  /\ WF_notifVars(ReadBacklog) /\ WF_notifVars(Subscribe) /\ WF_notifVars(Receive)
  /\ WF_notifVars(End) /\ WF_notifVars(Close)

FairStreamSpec == StreamSpec /\ StreamFairness
-----------------------------------------------------------------------------
(* Types of the variables.                                                 *)
StreamTypeOK ==
  /\ emission \in [Notif -> Status]
  /\ createdAt \in [Notif -> Nat]
  /\ clock \in Nat
  /\ stream \in StreamState
  /\ lastId \in Nat
  /\ backlog \in Seq(Notif)
  /\ pipe \in Seq([row : Notif, id : Nat])
  /\ received \in SUBSET Stored
  /\ outOfOrder \in SUBSET Stored
  /\ cut \in SUBSET Stored
  /\ breaks \in Nat

(* Rows no later backlog can hold, and that no rule lost: those the client *)
(* must have got.                                                          *)
PastCursor == Stored \ (NewerThan(lastId) \cup outOfOrder \cup cut \cup Tied)

(* The client's Last-Event-ID never passes a row it has not got, wherever  *)
(* the connection broke and in whatever order backlog and live events      *)
(* came; except for rows committed out of created_at order, rows beyond    *)
(* the limit, and rows that share an exact millisecond, for which the      *)
(* cursor lacks the row's id (src/phases/architecture.md:141 has it).      *)
CursorCovers == PastCursor \subseteq received

(* Such a row reaches the client sooner or later: if the bus misses it, on *)
(* another instance or between the read and the subscription, a backlog of *)
(* a later connection brings it; unless the guard refuses that connection. *)
EventuallyReceived ==
  \A n \in Notif :
    n \in Stored ~> \/ n \in received \cup outOfOrder \cup cut \cup Tied
                    \/ stream = "refused"

(* "so a client never misses a notification raised during the gap"         *)
(* (notifications.controller.ts:65): on a live stream with nothing under   *)
(* way the client has every row but those lost to the order, the limit or  *)
(* a shared millisecond.                                                   *)
NothingMissed ==
  stream = "live" /\ pipe = <<>> =>
    {n \in Notif : emission[n] = "emitted"}
      \subseteq received \cup outOfOrder \cup cut \cup Tied
=============================================================================
