--------------------------- MODULE RealtimeProofs ---------------------------
(***************************************************************************)
(* What reaches the browsers.  Safety of RealtimeBus for any number of     *)
(* events, overlapping polls, faults and clock steps, and any batch size:  *)
(* types, and that the cursor passes no row that the streams of the        *)
(* instance were not sent.  Then the same of NotificationStream: its       *)
(* types, and that a client's Last-Event-ID passes no row it lacks.  The   *)
(* two share the precision of a timestamp and nothing else.                *)
(***************************************************************************)
EXTENDS RealtimeBus, NotificationStream,
        FiniteSetTheorems, WellFoundedInduction, TLAPS

(* A poll holds committed rows, and publishes only when it holds one.      *)
ReadRows ==
  \A p \in Poll : /\ poll[p].rows \subseteq Committed
                  /\ poll[p].st = "read" => poll[p].rows # {}

(* What a poll is about to ask for starts before every row the streams     *)
(* lack.                                                                   *)
AskedFromBehind ==
  \A p \in Poll : poll[p].st = "asked" =>
    \A e \in Due : After(At(e), poll[p].from) \/ e \in broadcast

(* A poll that has read holds every such row, or only rows before it.      *)
ReadFromBehind ==
  \A p \in Poll : poll[p].st = "read" =>
    \A e \in Due : \/ e \in broadcast \cup poll[p].rows
                   \/ \A f \in poll[p].rows : After(At(e), CursorOf(f))

IInv ==
  /\ TypeOK
  /\ ReadRows
  /\ PassedWasBroadcast
  /\ AskedFromBehind
  /\ ReadFromBehind

-----------------------------------------------------------------------------
(* A Date is a time, and not later than the time it was made from.         *)
LEMMA CutBelow ==
  ASSUME NEW t \in Nat
  PROVE  Cut(t) \in Nat /\ Cut(t) <= t
<1>1. PerMs \in Nat /\ PerMs > 0
  BY TimestampsAssumption
<1>2. t \div PerMs \in Nat
  BY <1>1
<1>3. (t \div PerMs) * PerMs <= t
  BY <1>1, <1>2
<1>4. QED
  BY <1>1, <1>2, <1>3 DEF Cut, Millis

(* The cursors made from an event, or from the clock, are places.          *)
LEMMA PlaceTypes ==
  ASSUME occurredAt \in [Event -> Nat], MaxEvent \in Nat
  PROVE  /\ \A e \in Event : At(e) \in Place /\ CursorOf(e) \in Place
         /\ \A t \in Nat : [at |-> Cut(t), id |-> 0] \in Place
<1>1. \A t \in Nat : Cut(t) \in Nat
  BY CutBelow
<1>2. \A e \in Event : occurredAt[e] \in Nat /\ e \in 0..MaxEvent
  BY DEF Event
<1>3. QED
  BY <1>1, <1>2 DEF At, CursorOf, Place

LEMMA IdleType ==
  Idle \in [st : {"idle", "asked", "read"}, from : Place, rows : SUBSET Event]
BY BusAssumption DEF Idle, Place

(* Events are totally ordered by time and id.                              *)
LEMMA AfterTotal ==
  ASSUME occurredAt \in [Event -> Nat], NEW e \in Event, NEW f \in Event
  PROVE  /\ After(At(e), At(f)) \/ After(At(f), At(e)) \/ e = f
         /\ ~(After(At(e), At(f)) /\ After(At(f), At(e)))
BY BusAssumption DEF At, After, Event

LEMMA AfterTransitive ==
  ASSUME occurredAt \in [Event -> Nat],
         NEW e \in Event, NEW f \in Event, NEW g \in Event,
         After(At(e), At(f)), After(At(f), At(g))
  PROVE  After(At(e), At(g))
BY BusAssumption DEF At, After, Event

(* What is after an event is after the cursor made from it: to lose the    *)
(* microseconds moves a cursor back, never forth.                          *)
LEMMA AfterCursorOf ==
  ASSUME occurredAt \in [Event -> Nat], NEW e \in Event, NEW f \in Event,
         After(At(e), At(f))
  PROVE  After(At(e), CursorOf(f))
<1>1. occurredAt[e] \in Nat /\ occurredAt[f] \in Nat
  OBVIOUS
<1>2. Cut(occurredAt[f]) \in Nat /\ Cut(occurredAt[f]) <= occurredAt[f]
  BY <1>1, CutBelow
<1>3. QED
  BY <1>1, <1>2, BusAssumption DEF At, After, CursorOf, Event

(* Sets of events are finite.                                              *)
LEMMA EventsFinite ==
  ASSUME NEW S \in SUBSET Event
  PROVE  IsFiniteSet(S) /\ Cardinality(S) \in Nat
<1>1. IsFiniteSet(Event)
  BY FS_Interval, BusAssumption DEF Event
<1>2. IsFiniteSet(S)
  BY <1>1, FS_Subset
<1>3. QED
  BY <1>2, FS_CardinalityType

(* A batch of rows has a last one: of the sets of rows after one of them,  *)
(* one is the smallest, and it is empty.                                   *)
LEMMA LastRowExists ==
  ASSUME occurredAt \in [Event -> Nat], NEW S \in SUBSET Event, S # {}
  PROVE  LastRow(S) \in S
<1> DEFINE Later(e) == {f \in S : After(At(f), At(e))}
           T == {Later(e) : e \in S}
<1>1. IsWellFoundedOn(StrictSubsetOrdering(S), FiniteSubsetsOf(S))
  BY FS_StrictSubsetOrderingWellFounded
<1>2. T \subseteq FiniteSubsetsOf(S)
  BY EventsFinite DEF FiniteSubsetsOf
<1>3. T # {}
  OBVIOUS
<1>4. PICK X \in T : \A Y \in T : ~(<<Y, X>> \in StrictSubsetOrdering(S))
  <2> HIDE DEF T
  <2>1. QED
    BY <1>1, <1>2, <1>3, WFMin
<1>5. PICK e \in S : X = Later(e)
  BY <1>4
<1>6. \A f \in S : ~After(At(f), At(e))
  <2> SUFFICES ASSUME NEW f \in S, After(At(f), At(e))
               PROVE  FALSE
    OBVIOUS
  <2>1. Later(f) \subseteq Later(e)
    BY AfterTransitive
  <2>2. f \in Later(e) /\ f \notin Later(f)
    BY AfterTotal
  <2>3. Later(f) \in T /\ Later(e) \in T
    OBVIOUS
  <2>4. Later(f) \in SUBSET S /\ Later(e) \in SUBSET S
    OBVIOUS
  <2>5. <<Later(f), Later(e)>> \in StrictSubsetOrdering(S)
    <3> HIDE DEF Later
    <3>1. QED
      BY <2>1, <2>2, <2>4 DEF StrictSubsetOrdering
  <2>6. QED
    BY <1>4, <1>5, <2>3, <2>5
<1>7. \A f \in S \ {e} : After(At(e), At(f))
  BY <1>6, AfterTotal
<1>8. QED
  BY <1>7 DEF LastRow

(* A full batch is the oldest rows: what a query leaves out is after all   *)
(* it returns.                                                             *)
LEMMA BatchIsOldest ==
  ASSUME occurredAt \in [Event -> Nat], NEW q,
         NEW e \in Committed, After(At(e), q), e \notin RowsAfter(q),
         NEW f \in RowsAfter(q)
  PROVE  After(At(e), At(f))
<1> DEFINE rows == {g \in Committed : After(At(g), q)}
           Before(g) == {h \in rows : After(At(g), At(h))}
<1>1. e \in rows /\ f \in rows /\ e # f
  BY DEF RowsAfter
<1>2. Cardinality(Before(f)) < Batch /\ ~(Cardinality(Before(e)) < Batch)
  BY <1>1 DEF RowsAfter
<1>3. SUFFICES ASSUME After(At(f), At(e)) PROVE FALSE
  BY <1>1, AfterTotal DEF Committed
<1>4. Before(e) \subseteq Before(f)
  BY <1>1, <1>3, AfterTransitive DEF Committed
<1>5. Before(f) \in SUBSET Event /\ Before(e) \in SUBSET Event
  BY DEF Committed
<1>6. Cardinality(Before(e)) <= Cardinality(Before(f))
  BY <1>4, <1>5, EventsFinite, FS_Subset
<1>7. Cardinality(Before(e)) \in Nat /\ Cardinality(Before(f)) \in Nat
  BY <1>5, EventsFinite
<1>8. QED
  <2> HIDE DEF Before
  <2>1. QED
    BY <1>2, <1>6, <1>7, BusAssumption
-----------------------------------------------------------------------------
(* Every step keeps the types.                                             *)
LEMMA TypeStep ==
  ASSUME TypeOK, ReadRows, [Next]_vars
  PROVE  TypeOK'
<1> USE DEF TypeOK
<1>1. ASSUME NEW e \in Event, Begin(e)
      PROVE  TypeOK'
  BY <1>1, BusAssumption DEF Begin, busVars, Committed
<1>2. ASSUME NEW e \in Event, Commit(e)
      PROVE  TypeOK'
  BY <1>2 DEF Commit, busVars, Committed
<1>3. ASSUME NEW p \in Poll, PollStart(p)
      PROVE  TypeOK'
  <2>1. [Idle EXCEPT !.st = "asked", !.from = cursor]
          \in [st : {"idle", "asked", "read"}, from : Place, rows : SUBSET Event]
    BY DEF Idle
  <2>2. QED
    BY <1>3, <2>1 DEF PollStart, eventVars, Committed
<1>4. ASSUME NEW p \in Poll, PollQuery(p)
      PROVE  TypeOK'
  <2>1. RowsAfter(poll[p].from) \in SUBSET Event
    BY DEF RowsAfter, Committed
  <2>2. \A S \in SUBSET Event :
          [Idle EXCEPT !.st = "read", !.rows = S]
            \in [st : {"idle", "asked", "read"}, from : Place, rows : SUBSET Event]
    BY IdleType DEF Idle
  <2>3. QED
    BY <1>4, <2>1, <2>2, IdleType DEF PollQuery, eventVars, Committed
<1>5. ASSUME NEW p \in Poll, PollDeliver(p)
      PROVE  TypeOK'
  <2>1. LastRow(poll[p].rows) \in Event
    BY <1>5, LastRowExists DEF PollDeliver, ReadRows
  <2>2. CursorOf(LastRow(poll[p].rows)) \in Place
    BY <2>1, PlaceTypes, BusAssumption
  <2>3. poll[p].rows \subseteq Committed
    BY DEF ReadRows
  <2>4. QED
    BY <1>5, <2>2, <2>3, IdleType DEF PollDeliver, eventVars, Committed
<1>6. ASSUME NEW p \in Poll, PollFail(p)
      PROVE  TypeOK'
  BY <1>6, IdleType, BusAssumption DEF PollFail, eventVars, Committed
<1>7. CASE Restart
  <2>1. now' \in Nat
    BY <1>7, BusAssumption DEF Restart
  <2>2. cursor' \in Place
    BY <1>7, <2>1, PlaceTypes, BusAssumption DEF Restart
  <2>3. QED
    BY <1>7, <2>1, <2>2, IdleType, BusAssumption DEF Restart, Committed
<1>8. CASE UNCHANGED vars
  BY <1>8 DEF vars, eventVars, busVars, Committed
<1>9. QED
  BY <1>1, <1>2, <1>3, <1>4, <1>5, <1>6, <1>7, <1>8 DEF Next, PollStep

(* A poll keeps committed rows, and keeps what it has read until it        *)
(* publishes it.                                                           *)
LEMMA ReadRowsStep ==
  ASSUME TypeOK, ReadRows, [Next]_vars
  PROVE  ReadRows'
<1> USE DEF TypeOK, ReadRows, Committed
<1>1. ASSUME NEW e \in Event, Begin(e) \/ Commit(e)
      PROVE  ReadRows'
  BY <1>1 DEF Begin, Commit, busVars
<1>2. ASSUME NEW p \in Poll, PollStart(p)
      PROVE  ReadRows'
  BY <1>2 DEF PollStart, Idle, eventVars
<1>3. ASSUME NEW p \in Poll, PollQuery(p)
      PROVE  ReadRows'
  <2>1. RowsAfter(poll[p].from) \subseteq Committed
    BY DEF RowsAfter
  <2>2. QED
    BY <1>3, <2>1 DEF PollQuery, Idle, eventVars
<1>4. ASSUME NEW p \in Poll, PollDeliver(p) \/ PollFail(p)
      PROVE  ReadRows'
  BY <1>4 DEF PollDeliver, PollFail, Idle, eventVars
<1>5. CASE Restart
  BY <1>5 DEF Restart, Idle
<1>6. CASE UNCHANGED vars
  BY <1>6 DEF vars, eventVars, busVars
<1>7. QED
  BY <1>1, <1>2, <1>3, <1>4, <1>5, <1>6 DEF Next, PollStep
-----------------------------------------------------------------------------
(* The three facts about the rows the streams lack, taken together.        *)
Behind == PassedWasBroadcast /\ AskedFromBehind /\ ReadFromBehind

(* Events come into being without moving those that are committed.         *)
LEMMA BeginKeepsBehind ==
  ASSUME TypeOK, ReadRows, Behind, NEW e \in Event, Begin(e)
  PROVE  Behind'
<1> USE DEF TypeOK
<1>1. /\ Committed' = Committed
      /\ \A f \in Committed : occurredAt'[f] = occurredAt[f]
      /\ UNCHANGED <<cursor, poll, broadcast, start, late>>
  BY DEF Begin, busVars, Committed
<1>2. \A f \in Committed : At(f)' = At(f) /\ CursorOf(f)' = CursorOf(f)
  BY <1>1 DEF At, CursorOf, Cut
<1>3. Due' = Due
  BY <1>1, <1>2 DEF Due
<1>4. Due \subseteq Committed
  BY DEF Due
<1>5. PassedWasBroadcast'
  BY <1>1, <1>2, <1>3, <1>4 DEF Behind, PassedWasBroadcast
<1>6. AskedFromBehind'
  BY <1>1, <1>2, <1>3, <1>4 DEF Behind, AskedFromBehind
<1>7. ReadFromBehind'
  BY <1>1, <1>2, <1>3, <1>4 DEF Behind, ReadFromBehind, ReadRows
<1>8. QED
  BY <1>5, <1>6, <1>7 DEF Behind

(* A row committed behind a cursor in use is not due.                      *)
LEMMA CommitKeepsBehind ==
  ASSUME TypeOK, ReadRows, Behind, NEW e \in Event, Commit(e)
  PROVE  Behind'
<1> USE DEF TypeOK
<1>1. UNCHANGED <<occurredAt, cursor, poll, broadcast, start>>
  BY DEF Commit, busVars
<1>2. \A f \in Event : At(f)' = At(f) /\ CursorOf(f)' = CursorOf(f)
  BY <1>1 DEF At, CursorOf, Cut
<1>3. Committed' = Committed \cup {e}
  BY DEF Commit, Committed
<1>4. \A f \in Due' : f \in Due \/ (f = e /\ \A q \in Cursors : After(At(e), q))
  BY <1>1, <1>2, <1>3 DEF Commit, Due, Committed
<1>5. \A f \in Due' : At(f)' = At(f)
  BY <1>2, <1>3 DEF Due, Committed
<1>6. cursor \in Cursors /\ \A p \in Poll : poll[p].from \in Cursors
  BY DEF Cursors
<1>7. \A p \in Poll : \A f \in poll[p].rows : CursorOf(f) \in Cursors /\ f \in Event
  BY DEF Cursors
<1>8. PassedWasBroadcast'
  BY <1>1, <1>4, <1>5, <1>6 DEF Behind, PassedWasBroadcast
<1>9. AskedFromBehind'
  BY <1>1, <1>4, <1>5, <1>6 DEF Behind, AskedFromBehind
<1>10. ReadFromBehind'
  BY <1>1, <1>2, <1>4, <1>5, <1>7 DEF Behind, ReadFromBehind
<1>11. QED
  BY <1>8, <1>9, <1>10 DEF Behind

(* The steps that leave the events alone.                                  *)
LEMMA SameDue ==
  ASSUME UNCHANGED <<status, occurredAt, start, late>>
  PROVE  /\ Due' = Due
         /\ \A f : At(f)' = At(f) /\ CursorOf(f)' = CursorOf(f)
<1>1. \A f : At(f)' = At(f) /\ CursorOf(f)' = CursorOf(f)
  BY DEF At, CursorOf, Cut
<1>2. Committed' = Committed
  BY DEF Committed
<1>3. QED
  BY <1>1, <1>2 DEF Due

(* What the query leaves out is after everything it returns.               *)
LEMMA QueryKeepsBehind ==
  ASSUME TypeOK, Behind, NEW p \in Poll, PollQuery(p)
  PROVE  Behind'
<1> USE DEF TypeOK
<1> DEFINE rows == RowsAfter(poll[p].from)
<1>1. /\ Due' = Due
      /\ \A f : At(f)' = At(f) /\ CursorOf(f)' = CursorOf(f)
  BY SameDue DEF PollQuery, eventVars
<1>2. UNCHANGED <<cursor, broadcast>>
  BY DEF PollQuery
<1>3. /\ poll'[p] = Idle \/ poll'[p] = [Idle EXCEPT !.st = "read", !.rows = rows]
      /\ \A o \in Poll \ {p} : poll'[o] = poll[o]
  BY DEF PollQuery
<1>4. poll[p].st = "asked"
  BY DEF PollQuery
<1>5. /\ poll'[p].st # "asked"
      /\ poll'[p].st = "read" => poll'[p].rows = rows
  <2> HIDE DEF rows
  <2>1. Idle.st = "idle"
    BY DEF Idle
  <2>2. LET r == [Idle EXCEPT !.st = "read", !.rows = rows] IN r.st = "read" /\ r.rows = rows
    BY DEF Idle
  <2>3. QED
    BY <1>3, <2>1, <2>2
<1>6. \A e \in Due : \/ e \in broadcast \cup rows
                     \/ \A f \in rows : After(At(e), CursorOf(f))
  <2> SUFFICES ASSUME NEW e \in Due, e \notin broadcast \cup rows, NEW f \in rows
               PROVE  After(At(e), CursorOf(f))
    OBVIOUS
  <2>1. After(At(e), poll[p].from)
    BY <1>4 DEF Behind, AskedFromBehind
  <2>2. e \in Committed /\ e \in Event /\ f \in Event
    BY DEF Due, RowsAfter, Committed
  <2>3. After(At(e), At(f))
    BY <2>1, <2>2, BatchIsOldest
  <2>4. QED
    BY <2>2, <2>3, AfterCursorOf
<1>7. PassedWasBroadcast'
  BY <1>1, <1>2 DEF Behind, PassedWasBroadcast
<1>8. AskedFromBehind'
  <2>1. ASSUME NEW o \in Poll, poll'[o].st = "asked"
        PROVE  o # p /\ poll'[o] = poll[o]
    BY <1>3, <1>5, <2>1
  <2>2. QED
    BY <1>1, <1>2, <2>1 DEF Behind, AskedFromBehind
<1>9. ReadFromBehind'
  <2> HIDE DEF rows
  <2>1. ASSUME NEW o \in Poll, o # p, poll'[o].st = "read", NEW e \in Due
        PROVE  \/ e \in broadcast \cup poll'[o].rows
               \/ \A f \in poll'[o].rows : After(At(e), CursorOf(f))
    BY <1>3, <2>1 DEF Behind, ReadFromBehind
  <2>2. ASSUME poll'[p].st = "read", NEW e \in Due
        PROVE  \/ e \in broadcast \cup poll'[p].rows
               \/ \A f \in poll'[p].rows : After(At(e), CursorOf(f))
    BY <1>5, <1>6, <2>2
  <2>3. QED
    BY <1>1, <1>2, <2>1, <2>2 DEF ReadFromBehind
<1>10. QED
  BY <1>7, <1>8, <1>9 DEF Behind

(* Whatever the cursor was, what is after none of the rows published and   *)
(* not one of them is after the row the cursor is set to.                  *)
LEMMA DeliverKeepsBehind ==
  ASSUME TypeOK, ReadRows, Behind, NEW p \in Poll, PollDeliver(p)
  PROVE  Behind'
<1> USE DEF TypeOK
<1>1. /\ Due' = Due
      /\ \A f : At(f)' = At(f) /\ CursorOf(f)' = CursorOf(f)
  BY SameDue DEF PollDeliver, eventVars
<1>2. /\ poll'[p] = Idle
      /\ \A o \in Poll \ {p} : poll'[o] = poll[o]
      /\ broadcast' = broadcast \cup poll[p].rows
      /\ cursor' = CursorOf(LastRow(poll[p].rows))
      /\ poll[p].st = "read"
  BY DEF PollDeliver
<1>3. LastRow(poll[p].rows) \in poll[p].rows
  BY <1>2, LastRowExists DEF ReadRows
<1>4. PassedWasBroadcast'
  BY <1>1, <1>2, <1>3 DEF Behind, PassedWasBroadcast, ReadFromBehind
<1>5. AskedFromBehind'
  BY <1>1, <1>2 DEF Behind, AskedFromBehind, Idle
<1>6. ReadFromBehind'
  BY <1>1, <1>2 DEF Behind, ReadFromBehind, Idle
<1>7. QED
  BY <1>4, <1>5, <1>6 DEF Behind

LEMMA BehindStep ==
  ASSUME TypeOK, ReadRows, Behind, [Next]_vars
  PROVE  Behind'
<1>1. ASSUME NEW p \in Poll, PollStart(p)
      PROVE  Behind'
  <2>1. Due' = Due /\ \A f : At(f)' = At(f) /\ CursorOf(f)' = CursorOf(f)
    BY <1>1, SameDue DEF PollStart, eventVars
  <2>2. UNCHANGED <<cursor, broadcast>>
    BY <1>1 DEF PollStart
  <2>3. \A o \in Poll : \/ poll'[o] = poll[o]
                        \/ poll'[o].st = "asked" /\ poll'[o].from = cursor
    BY <1>1 DEF PollStart, Idle, TypeOK
  <2>4. QED
    BY <2>1, <2>2, <2>3 DEF Behind, PassedWasBroadcast, AskedFromBehind, ReadFromBehind
<1>2. ASSUME NEW p \in Poll, PollFail(p)
      PROVE  Behind'
  <2>1. Due' = Due /\ \A f : At(f)' = At(f) /\ CursorOf(f)' = CursorOf(f)
    BY <1>2, SameDue DEF PollFail, eventVars
  <2>2. UNCHANGED <<cursor, broadcast>>
    BY <1>2 DEF PollFail
  <2>3. \A o \in Poll : poll'[o] = poll[o] \/ poll'[o].st = "idle"
    BY <1>2 DEF PollFail, Idle, TypeOK
  <2>4. QED
    BY <2>1, <2>2, <2>3 DEF Behind, PassedWasBroadcast, AskedFromBehind, ReadFromBehind
<1>3. CASE Restart
  <2>1. \A e \in Due' : After(At(e)', cursor')
    BY <1>3 DEF Restart, Due
  <2>2. \A o \in Poll : poll'[o].st = "idle"
    BY <1>3 DEF Restart, Idle
  <2>3. QED
    BY <2>1, <2>2 DEF Behind, PassedWasBroadcast, AskedFromBehind, ReadFromBehind
<1>4. CASE UNCHANGED vars
  <2>1. Due' = Due /\ \A f : At(f)' = At(f) /\ CursorOf(f)' = CursorOf(f)
    BY <1>4, SameDue DEF vars, eventVars
  <2>2. UNCHANGED <<cursor, broadcast, poll>>
    BY <1>4 DEF vars, busVars
  <2>3. QED
    BY <2>1, <2>2 DEF Behind, PassedWasBroadcast, AskedFromBehind, ReadFromBehind
<1>5. QED
  BY <1>1, <1>2, <1>3, <1>4, BeginKeepsBehind, CommitKeepsBehind, QueryKeepsBehind,
     DeliverKeepsBehind DEF Next, PollStep

-----------------------------------------------------------------------------
LEMMA InitInv ==
  ASSUME Init
  PROVE  IInv
<1>1. now \in Nat /\ StartCursor \in Place
  BY CutBelow, BusAssumption, TimestampsAssumption DEF Init, StartCursor, Place
<1>2. Committed = {} /\ Due = {}
  BY DEF Init, Committed, Due
<1>3. TypeOK
  BY <1>1, <1>2, IdleType, BusAssumption DEF Init, TypeOK
<1>4. QED
  BY <1>2, <1>3 DEF Init, IInv, ReadRows, PassedWasBroadcast, AskedFromBehind,
                    ReadFromBehind, Idle

THEOREM BusInvariant == Spec => []IInv
<1>1. Init => IInv
  BY InitInv
<1>2. IInv /\ [Next]_vars => IInv'
  BY TypeStep, ReadRowsStep, BehindStep DEF IInv, Behind
<1>3. QED
  BY <1>1, <1>2, PTL DEF Spec

(* Every variable keeps its type; in particular the streams are sent       *)
(* committed rows only (RealtimeBus.pollOnce).                             *)
THEOREM TypeCorrect == Spec => []TypeOK
<1>1. IInv => TypeOK
  BY DEF IInv
<1>2. QED
  BY <1>1, BusInvariant, PTL

(* However many polls overlap, fail or deliver out of order, the cursor    *)
(* they share passes no due row the streams were not sent.                 *)
THEOREM CursorPassesNothing == Spec => []PassedWasBroadcast
<1>1. IInv => PassedWasBroadcast
  BY DEF IInv
<1>2. QED
  BY <1>1, BusInvariant, PTL

-----------------------------------------------------------------------------
(* Notifications: NotificationStream for any number of notifications,      *)
(* instances and broken connections and any limit.                         *)

(* created_at lies in the past, and after time zero.                       *)
Dated ==
  /\ clock > 0
  /\ \A n \in Notif : emission[n] # "idle" => createdAt[n] > 0 /\ createdAt[n] <= clock

(* The rows no rule lost.                                                  *)
Owed == Stored \ (outOfOrder \cup cut \cup Tied)

(* Of them the client has all up to the time t, but for those in S.        *)
Got(t, S)     == \A m \in Owed : createdAt[m] <= t => m \in received \cup S
GotNext(t, S) == \A m \in Owed' : createdAt'[m] <= t => m \in received' \cup S

(* A whole millisecond some row has reached: what commits later with an    *)
(* earlier created_at is out of order, with the same created_at tied.      *)
Reached(t)     == t = Millis(t) * PerMs /\ \E s \in Stored : t <= createdAt[s]
ReachedNext(t) == t = Millis(t) * PerMs /\ \E s \in Stored' : t <= createdAt'[s]

CursorInv ==
  /\ Got(lastId * PerMs, {})
  /\ lastId # 0 => Reached(lastId * PerMs)

(* The handler's rows leave out none before the id of the last one.        *)
BacklogInv ==
  \A k \in DOMAIN backlog :
    /\ backlog[k] \in Stored
    /\ Got(Ms(backlog[k]) * PerMs, {backlog[j] : j \in 1..k})

(* Nor do the events on their way leave out one before an id they carry.   *)
PipeInv ==
  \A k \in DOMAIN pipe :
    /\ pipe[k].row \in Stored
    /\ pipe[k].id # 0 =>
         /\ Reached(pipe[k].id * PerMs)
         /\ Got(pipe[k].id * PerMs, {pipe[j].row : j \in 1..k})

StreamInv ==
  /\ StreamTypeOK
  /\ Dated
  /\ CursorInv
  /\ BacklogInv
  /\ PipeInv

Emission(n) ==
  \/ BeginEmission(n) \/ CommitEmission(n) \/ AbortEmission(n)
  \/ Publish(n) \/ PublishElsewhere(n) \/ DieBeforePublish(n)

LEMMA Times ==
  /\ \A i \in Nat : i * PerMs \in Nat
  /\ 0 * PerMs = 0
  /\ \A i \in Nat : Millis(i * PerMs) = i
  /\ \A t \in Nat : Millis(t) \in Nat /\ Millis(t) * PerMs <= t
<1>1. PerMs \in Nat /\ PerMs > 0
  BY TimestampsAssumption
<1>2. \A t \in Nat : t \div PerMs \in Nat
  BY <1>1
<1>3. \A t \in Nat : (t \div PerMs) * PerMs <= t
  BY <1>1, <1>2
<1>4. \A i \in Nat : (i * PerMs) \div PerMs = i
  BY <1>1
<1>5. QED
  BY <1>1, <1>2, <1>3, <1>4 DEF Millis

-----------------------------------------------------------------------------
(* Types.                                                                  *)

LEMMA EmissionTypes ==
  ASSUME StreamInv, NEW n \in Notif, Emission(n)
  PROVE  StreamTypeOK'
<1> USE DEF StreamTypeOK, Status, Stored, streamVars
<1>1. PerMs \in Nat
  BY TimestampsAssumption
<1>2. CASE BeginEmission(n)
  BY <1>1, <1>2 DEF StreamInv, BeginEmission
<1>3. CASE CommitEmission(n)
  BY <1>3 DEF StreamInv, CommitEmission
<1>4. CASE AbortEmission(n)
  BY <1>4 DEF StreamInv, AbortEmission
<1>5. CASE Publish(n)
  <2> DEFINE R == [row : Notif, id : Nat]
  <2>1. pipe \in Seq(R) /\ Frame(n, 0) \in R
    BY DEF StreamInv, Frame
  <2> HIDE DEF R
  <2>2. pipe' \in Seq(R)
    BY <1>5, <2>1 DEF Publish
  <2>3. QED
    BY <1>5, <2>2 DEF StreamInv, Publish, R
<1>6. CASE PublishElsewhere(n)
  BY <1>6 DEF StreamInv, PublishElsewhere
<1>7. CASE DieBeforePublish(n)
  BY <1>7 DEF StreamInv, DieBeforePublish
<1>8. QED
  BY <1>2, <1>3, <1>4, <1>5, <1>6, <1>7 DEF Emission

(* What the query returns: rows after the id, each once, oldest first.     *)
LEMMA BacklogRows ==
  ASSUME StreamTypeOK, ReadBacklog
  PROVE  \E rows \in SUBSET NewerThan(lastId) :
         /\ rows \subseteq Stored
         /\ cut' = cut \cup (NewerThan(lastId) \ rows)
         /\ backlog' \in Seq(Notif)
         /\ \A n \in rows : \E k \in DOMAIN backlog' : backlog'[k] = n
         /\ \A k \in DOMAIN backlog' : backlog'[k] \in rows
         /\ \A i, j \in DOMAIN backlog' :
              i < j => createdAt[backlog'[i]] <= createdAt[backlog'[j]]
<1>0. PICK rows \in Newest(NewerThan(lastId)) :
        /\ backlog' \in OldestFirst(rows)
        /\ cut' = cut \cup (NewerThan(lastId) \ rows)
  BY DEF ReadBacklog
<1>1. rows \subseteq NewerThan(lastId) /\ rows \subseteq Stored /\ Stored \subseteq Notif
  BY DEF Newest, NewerThan, Stored
<1>2. backlog' \in OldestFirst(rows)
  BY <1>0
<1>3. PICK w \in 0..Limit : backlog' \in [1..w -> rows]
  BY <1>2 DEF OldestFirst, Ascending
<1>4. backlog' \in Seq(Notif)
  <2>1. w \in Nat
    BY StreamAssumption
  <2>2. backlog' \in [1..w -> Notif]
    BY <1>1, <1>3
  <2>3. QED
    BY <2>1, <2>2
<1>5. \A i \in DOMAIN backlog' : backlog'[i] \in rows
  BY <1>3
<1>6. \A n \in rows : \E k \in DOMAIN backlog' : backlog'[k] = n
  BY <1>2 DEF OldestFirst, Ascending
<1>7. \A i, j \in DOMAIN backlog' :
        i < j => createdAt[backlog'[i]] <= createdAt[backlog'[j]]
  BY <1>2 DEF OldestFirst, Ascending
<1>8. QED
  BY <1>0, <1>1, <1>4, <1>5, <1>6, <1>7

LEMMA StreamTypes ==
  ASSUME StreamInv,
         \/ Connect \/ Refuse \/ ReadBacklog \/ Subscribe \/ Receive
         \/ End \/ Close \/ Break
  PROVE  StreamTypeOK'
<1> USE DEF emitVars, StreamState
<1>1. Stored' = Stored
  BY DEF Connect, Refuse, ReadBacklog, Subscribe, Receive,
         End, Close, Break, Stored
<1>2. CASE Connect \/ Refuse \/ End \/ Close
  BY <1>1, <1>2 DEF StreamInv, Connect, Refuse, End, Close, StreamTypeOK
<1>3. CASE ReadBacklog
  <2>1. backlog' \in Seq(Notif)
    BY <1>3, BacklogRows DEF StreamInv
  <2>2. cut' \subseteq Stored
    BY <1>3, BacklogRows DEF StreamInv, StreamTypeOK, NewerThan
  <2>3. QED
    BY <1>1, <1>3, <2>1, <2>2 DEF StreamInv, ReadBacklog, StreamTypeOK
<1>4. CASE Subscribe
  <2>1. backlog \in Seq(Notif) /\ createdAt \in [Notif -> Nat]
    BY DEF StreamInv, StreamTypeOK
  <2>2. \A k \in DOMAIN backlog :
          Frame(backlog[k], Ms(backlog[k])) \in [row : Notif, id : Nat]
    <3>1. \A m \in Notif : Ms(m) \in Nat
      BY <2>1, Times DEF Ms
    <3>2. QED
      BY <2>1, <3>1 DEF Frame
  <2>3. pipe' \in Seq([row : Notif, id : Nat])
    <3>1. Len(backlog) \in Nat /\ DOMAIN backlog = 1..Len(backlog)
      BY <2>1
    <3> DEFINE R == [row : Notif, id : Nat]
    <3>2. pipe' \in [1..Len(backlog) -> R]
      BY <1>4, <2>2, <3>1 DEF Subscribe
    <3> HIDE DEF R
    <3>3. pipe' \in Seq(R)
      BY <3>1, <3>2
    <3>4. QED
      BY <3>3 DEF R
  <2>4. <<>> \in Seq(Notif)
    OBVIOUS
  <2>5. QED
    BY <1>1, <1>4, <2>3, <2>4 DEF StreamInv, Subscribe, StreamTypeOK
<1>5. CASE Receive
  <2> DEFINE R == [row : Notif, id : Nat]
  <2>1. pipe \in Seq(R) /\ pipe # <<>>
    BY <1>5 DEF StreamInv, StreamTypeOK, Receive
  <2> HIDE DEF R
  <2>2. /\ Head(pipe) = pipe[1] /\ 1 \in DOMAIN pipe
        /\ Head(pipe) \in R
        /\ Tail(pipe) \in Seq(R)
    BY <2>1
  <2>3. Head(pipe).row \in Stored /\ Head(pipe).id \in Nat
    BY <2>2 DEF StreamInv, PipeInv, R
  <2>4. lastId' \in Nat /\ received' \subseteq Stored /\ pipe' \in Seq(R)
    BY <1>5, <2>2, <2>3 DEF StreamInv, Receive, StreamTypeOK
  <2>5. QED
    BY <1>1, <1>5, <2>4 DEF StreamInv, Receive, StreamTypeOK, R
<1>6. CASE Break
  <2>1. <<>> \in Seq(Notif) /\ <<>> \in Seq([row : Notif, id : Nat])
    OBVIOUS
  <2>2. QED
    BY <1>1, <1>6, <2>1 DEF StreamInv, Break, StreamTypeOK
<1>7. QED
  BY <1>2, <1>3, <1>4, <1>5, <1>6

LEMMA DatedStep ==
  ASSUME StreamInv, [StreamNext]_notifVars
  PROVE  Dated'
<1>1. /\ Dated /\ createdAt \in [Notif -> Nat] /\ clock \in Nat
      /\ emission \in [Notif -> Status]
  BY DEF StreamInv, StreamTypeOK
<1>2. ASSUME NEW n \in Notif, BeginEmission(n)
      PROVE  Dated'
  <2>1. PICK step \in 0..MaxGap : /\ clock' = clock + step
                                  /\ createdAt' = [createdAt EXCEPT ![n] = clock + step]
    BY <1>2 DEF BeginEmission
  <2>2. step \in Nat
    BY <2>1, StreamAssumption
  <2>3. emission' = [emission EXCEPT ![n] = "open"]
    BY <1>2 DEF BeginEmission
  <2>4. createdAt'[n] = clock' /\ clock' >= clock /\ clock > 0 /\ clock' \in Nat
    BY <1>1, <2>1, <2>2 DEF Dated
  <2>5. \A m \in Notif \ {n} : createdAt'[m] = createdAt[m] /\ emission'[m] = emission[m]
    BY <1>1, <2>1, <2>3
  <2>6. QED
    BY <1>1, <2>4, <2>5 DEF Dated
<1>3. ASSUME UNCHANGED <<createdAt, clock>>,
             \A m \in Notif : emission[m] = "idle" => emission'[m] = "idle"
      PROVE  Dated'
  BY <1>1, <1>3 DEF Dated
<1>4. ASSUME NEW n \in Notif, Emission(n)
      PROVE  Dated'
  <2>1. CASE BeginEmission(n)
    BY <1>2, <2>1
  <2>2. CASE ~BeginEmission(n)
    BY <1>1, <1>3, <1>4, <2>2
       DEF Emission, CommitEmission, AbortEmission, Publish,
           PublishElsewhere, DieBeforePublish
  <2>3. QED
    BY <2>1, <2>2
<1>5. ASSUME UNCHANGED emitVars
      PROVE  Dated'
  BY <1>3, <1>5 DEF emitVars
<1>6. QED
  BY <1>4, <1>5 DEF StreamNext, Emission, notifVars, Connect, Refuse, ReadBacklog,
     Subscribe, Receive, End, Close, Break

-----------------------------------------------------------------------------
(* What the client has.                                                    *)

LEMMA OwedTypes ==
  ASSUME StreamInv
  PROVE  /\ Stored \subseteq Notif /\ Owed \subseteq Stored
         /\ createdAt \in [Notif -> Nat]
         /\ \A n \in Stored : createdAt[n] \in Nat /\ createdAt[n] > 0
BY DEF StreamInv, StreamTypeOK, Dated, Owed, Stored

(* A step that neither stores a row nor takes one from the client.         *)
LEMMA StillGot ==
  ASSUME UNCHANGED <<createdAt, outOfOrder>>, Stored' = Stored,
         cut \subseteq cut', received \subseteq received'
  PROVE  \A t, S : Got(t, S) => GotNext(t, S)
BY DEF Got, GotNext, Owed, Tied, Ms

(* A step of an emission leaves what was got up to a row that was stored:  *)
(* the row it commits is later, out of order, or tied.                     *)
LEMMA EmissionStill ==
  ASSUME StreamInv, NEW n \in Notif, Emission(n)
  PROVE  /\ \A s \in Stored : s \in Stored' /\ createdAt'[s] = createdAt[s]
         /\ \A t \in Nat : \A S : Reached(t) /\ Got(t, S) => GotNext(t, S)
         /\ \A t : Reached(t) => ReachedNext(t)
         /\ UNCHANGED <<lastId, backlog, received>>
<1>1. /\ emission \in [Notif -> Status]
      /\ createdAt \in [Notif -> Nat]
  BY DEF StreamInv, StreamTypeOK
<1>2. UNCHANGED <<lastId, backlog, received, cut>>
  BY DEF Emission, BeginEmission, CommitEmission, AbortEmission, Publish,
         PublishElsewhere, DieBeforePublish, streamVars
<1>3. CASE CommitEmission(n)
  <2>1. /\ Stored' = Stored \cup {n} /\ n \notin Stored
        /\ UNCHANGED createdAt
    BY <1>1, <1>3 DEF CommitEmission, Stored
  <2>2. outOfOrder \subseteq outOfOrder' /\ Tied \subseteq Tied'
    <3>1. outOfOrder \subseteq outOfOrder'
      BY <1>3 DEF CommitEmission
    <3>2. QED
      BY <2>1, <3>1 DEF Tied, Ms
  <2>3. n \notin Owed' =>
          \A t \in Nat : \A S : Reached(t) /\ Got(t, S) => GotNext(t, S)
    BY <1>2, <2>1, <2>2 DEF Got, GotNext, Owed
  <2>4. ASSUME n \in Owed', NEW t \in Nat, Reached(t)
        PROVE  ~(createdAt[n] <= t)
    <3>1. PICK s \in Stored : t <= createdAt[s]
      BY <2>4 DEF Reached
    <3>2. ~(createdAt[s] > createdAt[n])
      BY <1>3, <2>4 DEF CommitEmission, Owed
    <3>3. createdAt[s] \in Nat /\ createdAt[n] \in Nat /\ s # n /\ s \in Stored'
      BY <1>1, <2>1 DEF Stored
    <3>4. SUFFICES ASSUME createdAt[n] <= t PROVE FALSE
      OBVIOUS
    <3>5. createdAt[s] = t /\ createdAt[n] = t
      BY <3>1, <3>2, <3>3, <3>4
    <3>6. createdAt'[n] = Millis(createdAt'[n]) * PerMs /\ createdAt'[s] = createdAt'[n]
      BY <2>1, <2>4, <3>5 DEF Reached
    <3>7. n \in Tied'
      BY <2>1, <3>3, <3>6 DEF Tied, Ms
    <3>8. QED
      BY <2>4, <3>7 DEF Owed
  <2>5. n \in Owed' => \A t \in Nat : \A S : Reached(t) /\ Got(t, S) => GotNext(t, S)
    BY <1>2, <2>1, <2>2, <2>4 DEF Got, GotNext, Owed
  <2>6. QED
    BY <1>2, <2>1, <2>3, <2>5 DEF Reached, ReachedNext
<1>4. CASE ~CommitEmission(n)
  <2>1. /\ Stored' = Stored /\ UNCHANGED outOfOrder
        /\ \A s \in Stored : createdAt'[s] = createdAt[s]
    BY <1>1, <1>4 DEF Emission, BeginEmission, AbortEmission, Publish,
       PublishElsewhere, DieBeforePublish, Stored
  <2>2. Tied' = Tied
    BY <2>1 DEF Tied, Ms
  <2>3. Owed' = Owed /\ Owed \subseteq Stored
    BY <2>1, <2>2, <1>2 DEF Owed
  <2>4. QED
    BY <1>2, <2>1, <2>3 DEF Got, GotNext, Reached, ReachedNext
<1>5. QED
  BY <1>3, <1>4

LEMMA EmissionCursor ==
  ASSUME StreamInv, NEW n \in Notif, Emission(n),
         StreamTypeOK', Dated'
  PROVE  CursorInv'
<1>1. lastId \in Nat /\ lastId * PerMs \in Nat
  BY Times DEF StreamInv, StreamTypeOK
<1>2. CASE lastId = 0
  <2>1. lastId' = 0 /\ lastId' * PerMs = 0
    BY <1>2, EmissionStill, Times
  <2>2. Got(0, {})'
    <3>1. (createdAt \in [Notif -> Nat])'
      BY DEF StreamTypeOK
    <3>2. \A m \in Stored' : createdAt'[m] > 0 /\ createdAt'[m] \in Nat
      BY <3>1 DEF Dated, Stored
    <3>3. QED
      BY <3>2 DEF Got, Owed
  <2>3. QED
    BY <2>1, <2>2 DEF CursorInv, Got
<1>3. CASE lastId # 0
  <2>1. Reached(lastId * PerMs) /\ Got(lastId * PerMs, {})
    BY <1>3 DEF StreamInv, CursorInv
  <2>2. GotNext(lastId * PerMs, {}) /\ lastId' = lastId
    BY <1>1, <2>1, EmissionStill
  <2>3. ReachedNext(lastId * PerMs)
    BY <2>1, EmissionStill
  <2>4. QED
    BY <2>2, <2>3 DEF CursorInv, Got, GotNext, Reached, ReachedNext
<1>4. QED
  BY <1>2, <1>3

LEMMA EmissionBacklog ==
  ASSUME StreamInv, NEW n \in Notif, Emission(n)
  PROVE  BacklogInv'
<1> SUFFICES ASSUME NEW k \in DOMAIN backlog
             PROVE  /\ backlog[k] \in Stored'
                    /\ GotNext(Ms(backlog[k])' * PerMs, {backlog[j] : j \in 1..k})
  BY EmissionStill DEF BacklogInv, Got, GotNext
<1>1. /\ backlog[k] \in Stored
      /\ Got(Ms(backlog[k]) * PerMs, {backlog[j] : j \in 1..k})
  BY DEF StreamInv, BacklogInv
<1>2. /\ createdAt[backlog[k]] \in Nat
      /\ Ms(backlog[k]) \in Nat /\ Ms(backlog[k]) * PerMs <= createdAt[backlog[k]]
  BY <1>1, OwedTypes, Times DEF Ms
<1>3. Reached(Ms(backlog[k]) * PerMs) /\ Ms(backlog[k]) * PerMs \in Nat
  BY <1>1, <1>2, Times DEF Reached
<1>4. Ms(backlog[k])' = Ms(backlog[k])
  BY <1>1, EmissionStill DEF Ms
<1>5. QED
  BY <1>1, <1>3, <1>4, EmissionStill

(* A published event carries no id and leaves those before it in place.    *)
LEMMA EmissionPipe ==
  ASSUME StreamInv, NEW n \in Notif, Emission(n)
  PROVE  PipeInv'
<1> DEFINE R == [row : Notif, id : Nat]
<1>1. pipe \in Seq(R) /\ Frame(n, 0) \in R
  BY DEF StreamInv, StreamTypeOK, Frame
<1>2. ASSUME NEW k \in DOMAIN pipe
      PROVE  /\ pipe[k].row \in Stored'
             /\ pipe[k].id # 0 =>
                  /\ ReachedNext(pipe[k].id * PerMs)
                  /\ GotNext(pipe[k].id * PerMs, {pipe[j].row : j \in 1..k})
  <2>1. /\ pipe[k].row \in Stored
        /\ pipe[k].id # 0 =>
             /\ Reached(pipe[k].id * PerMs)
             /\ Got(pipe[k].id * PerMs, {pipe[j].row : j \in 1..k})
    BY <1>2 DEF StreamInv, PipeInv
  <2>2. pipe[k] \in R
    <3> HIDE DEF R
    <3>1. QED
      BY <1>1, <1>2
  <2>3. pipe[k].id * PerMs \in Nat
    BY <2>2, Times
  <2>4. pipe[k].row \in Stored'
    BY <2>1, EmissionStill
  <2>5. ASSUME pipe[k].id # 0
        PROVE  GotNext(pipe[k].id * PerMs, {pipe[j].row : j \in 1..k})
    BY <2>1, <2>3, <2>5, EmissionStill
  <2>6. ASSUME pipe[k].id # 0
        PROVE  ReachedNext(pipe[k].id * PerMs)
    BY <2>1, <2>6, EmissionStill
  <2>7. QED
    BY <2>4, <2>5, <2>6
<1>3. CASE Publish(n) /\ stream = "live"
  <2>1. pipe' = Append(pipe, Frame(n, 0)) /\ n \in Stored'
    BY <1>3 DEF Publish, Stored, StreamInv, StreamTypeOK
  <2> DEFINE f == Frame(n, 0)
  <2>2. f.row = n /\ f.id = 0
    BY DEF Frame
  <2> HIDE DEF f, R
  <2>3. /\ Len(pipe) \in Nat /\ DOMAIN pipe = 1..Len(pipe)
        /\ DOMAIN pipe' = 1..(Len(pipe) + 1)
        /\ \A k \in DOMAIN pipe : pipe'[k] = pipe[k]
        /\ pipe'[Len(pipe) + 1] = f
    BY <1>1, <2>1 DEF f
  <2>4. ASSUME NEW k \in DOMAIN pipe
        PROVE  {pipe'[j].row : j \in 1..k} = {pipe[j].row : j \in 1..k}
    BY <2>3, <2>4
  <2>5. ASSUME NEW k \in DOMAIN pipe', pipe'[k].id # 0
        PROVE  k \in DOMAIN pipe
    BY <2>2, <2>3, <2>5
  <2>6. ASSUME NEW k \in DOMAIN pipe'
        PROVE  pipe'[k].row \in Stored'
    <3>1. CASE k \in DOMAIN pipe
      BY <1>2, <2>3, <3>1
    <3>2. CASE k = Len(pipe) + 1
      BY <2>1, <2>2, <2>3, <3>2
    <3>3. QED
      BY <2>3, <3>1, <3>2
  <2>7. ASSUME NEW k \in DOMAIN pipe', pipe'[k].id # 0
        PROVE  /\ ReachedNext(pipe'[k].id * PerMs)
               /\ GotNext(pipe'[k].id * PerMs, {pipe'[j].row : j \in 1..k})
    BY <1>2, <2>3, <2>4, <2>5, <2>7
  <2>8. QED
    BY <2>6, <2>7 DEF PipeInv, Reached, ReachedNext, Got, GotNext
<1>4. CASE ~(Publish(n) /\ stream = "live")
  <2>1. UNCHANGED pipe
    BY <1>4 DEF Emission, BeginEmission, CommitEmission, AbortEmission, Publish,
       PublishElsewhere, DieBeforePublish, streamVars
  <2>2. QED
    BY <1>2, <2>1 DEF PipeInv, Reached, ReachedNext, Got, GotNext
<1>5. QED
  BY <1>3, <1>4

-----------------------------------------------------------------------------
(* The steps of the connection.                                            *)

(* What was read and is not after the id is all there is up to its last.   *)
LEMMA ReadKeeps ==
  ASSUME StreamInv, ReadBacklog
  PROVE  CursorInv' /\ BacklogInv' /\ PipeInv'
<1>0. PICK rows \in SUBSET NewerThan(lastId) :
         /\ rows \subseteq Stored
         /\ cut' = cut \cup (NewerThan(lastId) \ rows)
         /\ backlog' \in Seq(Notif)
         /\ \A n \in rows : \E k \in DOMAIN backlog' : backlog'[k] = n
         /\ \A k \in DOMAIN backlog' : backlog'[k] \in rows
         /\ \A i, j \in DOMAIN backlog' :
              i < j => createdAt[backlog'[i]] <= createdAt[backlog'[j]]
  BY BacklogRows DEF StreamInv
<1>1. /\ Stored' = Stored
      /\ UNCHANGED <<createdAt, outOfOrder, lastId, pipe, received>>
      /\ cut \subseteq cut'
  BY <1>0 DEF ReadBacklog, emitVars, Stored
<1>2. \A t, S : Got(t, S) => GotNext(t, S)
  BY <1>1, StillGot
<1>3. CursorInv' /\ PipeInv'
  BY <1>1, <1>2 DEF StreamInv, CursorInv, PipeInv, Reached, Got, GotNext
<1>4. ASSUME NEW k \in DOMAIN backlog', NEW m \in Owed',
             createdAt[m] <= Ms(backlog'[k]) * PerMs
      PROVE  m \in received \cup {backlog'[j] : j \in 1..k}
  <2> DEFINE b == backlog'[k]
  <2>1. m \in Owed /\ m \notin Tied /\ m \notin NewerThan(lastId) \ rows
    BY <1>0, <1>1 DEF Owed, Tied, Ms
  <2>2. createdAt[m] \in Nat /\ m \in Stored /\ lastId * PerMs \in Nat
    BY <2>1, OwedTypes, Times DEF StreamInv, StreamTypeOK
  <2>3. CASE m \notin NewerThan(lastId)
    <3>1. createdAt[m] <= lastId * PerMs
      BY <2>2, <2>3 DEF NewerThan
    <3>2. QED
      BY <2>1, <3>1 DEF StreamInv, CursorInv, Got
  <2>4. CASE m \in rows
    <3>1. PICK i \in DOMAIN backlog' : backlog'[i] = m
      BY <1>0, <2>4
    <3>2. i \in Nat /\ k \in Nat /\ i >= 1
      BY <1>0
    <3>3. /\ b \in Stored /\ createdAt[b] \in Nat
          /\ Ms(b) \in Nat /\ Ms(b) * PerMs \in Nat /\ Ms(b) * PerMs <= createdAt[b]
      BY <1>0, OwedTypes, Times DEF Ms
    <3>4. CASE i <= k
      BY <3>1, <3>2, <3>4
    <3>5. CASE k < i /\ m # b
      <4>1. createdAt[b] <= createdAt[m]
        BY <1>0, <3>1, <3>5
      <4>2. createdAt[m] = createdAt[b] /\ createdAt[m] = Ms(b) * PerMs
        BY <1>4, <2>2, <3>3, <4>1
      <4>3. Ms(m) = Ms(b)
        BY <4>2 DEF Ms
      <4>4. m \in Tied
        BY <2>2, <3>3, <3>5, <4>2, <4>3 DEF Tied
      <4>5. QED
        BY <2>1, <4>4
    <3>6. CASE m = b
      BY <1>0, <3>2, <3>6
    <3>7. QED
      BY <3>2, <3>4, <3>5, <3>6
  <2>5. QED
    BY <2>1, <2>3, <2>4
<1>5. \A k \in DOMAIN backlog' : backlog'[k] \in Stored
  BY <1>0
<1>6. QED
  BY <1>1, <1>3, <1>4, <1>5 DEF BacklogInv, Got, Ms

(* The events of the backlog promise no more than its rows do: an id is    *)
(* not later than its row.                                                 *)
LEMMA SubscribeKeeps ==
  ASSUME StreamInv, Subscribe
  PROVE  CursorInv' /\ BacklogInv' /\ PipeInv'
<1>1. /\ Stored' = Stored
      /\ UNCHANGED <<createdAt, outOfOrder, lastId, received, cut>>
      /\ backlog' = <<>>
      /\ pipe' = [k \in DOMAIN backlog |-> Frame(backlog[k], Ms(backlog[k]))]
  BY DEF Subscribe, emitVars, Stored
<1>2. \A t, S : Got(t, S) => GotNext(t, S)
  BY <1>1, StillGot
<1>3. CursorInv' /\ BacklogInv'
  BY <1>1, <1>2 DEF StreamInv, CursorInv, BacklogInv, Reached, Got, GotNext
<1>4. ASSUME NEW k \in DOMAIN backlog
      PROVE  /\ pipe'[k].row \in Stored
             /\ Reached(pipe'[k].id * PerMs)
             /\ Got(pipe'[k].id * PerMs, {pipe'[j].row : j \in 1..k})
  <2>1. backlog[k] \in Stored /\ Got(Ms(backlog[k]) * PerMs, {backlog[j] : j \in 1..k})
    BY <1>4 DEF StreamInv, BacklogInv
  <2>2. \A j \in DOMAIN backlog : pipe'[j].row = backlog[j] /\ pipe'[j].id = Ms(backlog[j])
    BY <1>1 DEF Frame
  <2>3. createdAt[backlog[k]] \in Nat
    BY <2>1, OwedTypes
  <2>4. /\ pipe'[k].id * PerMs <= createdAt[backlog[k]]
        /\ Ms(backlog[k]) \in Nat
    BY <1>4, <2>2, <2>3, Times DEF Ms
  <2>5. \A j \in 1..k : j \in DOMAIN backlog
    BY <1>4 DEF StreamInv, StreamTypeOK
  <2>6. {pipe'[j].row : j \in 1..k} = {backlog[j] : j \in 1..k}
    BY <2>2, <2>5
  <2>7. QED
    BY <1>4, <2>1, <2>2, <2>4, <2>6, Times DEF Reached
<1>5. PipeInv'
  BY <1>1, <1>2, <1>4 DEF PipeInv, Reached, Got, GotNext
<1>6. QED
  BY <1>3, <1>5

(* The client gets the next event before it takes over its id.             *)
LEMMA ReceiveKeeps ==
  ASSUME StreamInv, Receive
  PROVE  CursorInv' /\ BacklogInv' /\ PipeInv'
<1> DEFINE R == [row : Notif, id : Nat]
<1>1. pipe \in Seq(R) /\ pipe # <<>>
  BY DEF StreamInv, StreamTypeOK, Receive
<1> HIDE DEF R
<1>2. /\ Stored' = Stored
      /\ UNCHANGED <<createdAt, outOfOrder, cut, backlog>>
      /\ received' = received \cup {pipe[1].row}
      /\ lastId' = IF pipe[1].id = 0 THEN lastId ELSE pipe[1].id
      /\ 1 \in DOMAIN pipe
  BY <1>1 DEF Receive, emitVars, Stored
<1>3. \A t, S : Got(t, S) => GotNext(t, S)
  BY <1>2, StillGot
<1>4. BacklogInv'
  BY <1>2, <1>3 DEF StreamInv, BacklogInv, Got, GotNext, Ms
<1>5. CursorInv'
  <2>1. CASE pipe[1].id = 0
    BY <1>2, <1>3, <2>1 DEF StreamInv, CursorInv, Reached, Got, GotNext
  <2>2. CASE pipe[1].id # 0
    <3>1. Reached(pipe[1].id * PerMs) /\ Got(pipe[1].id * PerMs, {pipe[j].row : j \in 1..1})
      BY <1>2, <2>2 DEF StreamInv, PipeInv
    <3>2. {pipe[j].row : j \in 1..1} = {pipe[1].row}
      OBVIOUS
    <3>3. QED
      BY <1>2, <2>2, <3>1, <3>2 DEF CursorInv, Reached, Got, Owed, Tied, Ms
  <2>3. QED
    BY <2>1, <2>2
<1>6. PipeInv'
  <2>1. /\ Len(pipe) \in Nat /\ DOMAIN pipe = 1..Len(pipe)
        /\ DOMAIN pipe' = 1..(Len(pipe) - 1)
        /\ \A k \in DOMAIN pipe' : k + 1 \in DOMAIN pipe /\ pipe'[k] = pipe[k + 1]
    BY <1>1 DEF Receive
  <2>2. ASSUME NEW k \in DOMAIN pipe'
        PROVE  {pipe[j].row : j \in 1..(k + 1)} \subseteq
                 {pipe[1].row} \cup {pipe'[j].row : j \in 1..k}
    <3>1. ASSUME NEW j \in 1..(k + 1), j # 1
          PROVE  pipe[j].row \in {pipe'[i].row : i \in 1..k}
      <4>1. k \in Nat /\ j - 1 \in 1..k /\ j - 1 \in DOMAIN pipe' /\ (j - 1) + 1 = j
        BY <2>1, <2>2, <3>1
      <4>2. pipe'[j - 1] = pipe[j]
        BY <2>1, <4>1
      <4>3. QED
        BY <4>1, <4>2
    <3>2. QED
      BY <3>1
  <2>3. ASSUME NEW k \in DOMAIN pipe'
        PROVE  /\ pipe'[k].row \in Stored
               /\ pipe'[k].id # 0 =>
                    /\ Reached(pipe'[k].id * PerMs)
                    /\ Got(pipe'[k].id * PerMs, {pipe[j].row : j \in 1..(k + 1)})
    BY <2>1, <2>3 DEF StreamInv, PipeInv
  <2>4. QED
    BY <1>2, <2>2, <2>3 DEF PipeInv, Reached, Got, Owed, Tied, Ms
<1>7. QED
  BY <1>4, <1>5, <1>6

LEMMA CoverStep ==
  ASSUME StreamInv, [StreamNext]_notifVars,
         StreamTypeOK', Dated'
  PROVE  CursorInv' /\ BacklogInv' /\ PipeInv'
<1>1. ASSUME NEW n \in Notif, Emission(n)
      PROVE  CursorInv' /\ BacklogInv' /\ PipeInv'
  BY <1>1, EmissionCursor, EmissionBacklog, EmissionPipe
<1>2. ASSUME UNCHANGED <<emitVars, lastId, received, outOfOrder, cut>>,
             backlog' \in {backlog, <<>>}, pipe' \in {pipe, <<>>}
      PROVE  CursorInv' /\ BacklogInv' /\ PipeInv'
  <2>1. Stored' = Stored /\ UNCHANGED <<createdAt, outOfOrder, cut, received>>
    BY <1>2 DEF emitVars, Stored
  <2>2. \A t, S : Got(t, S) => GotNext(t, S)
    BY <2>1, StillGot
  <2>3. CursorInv'
    BY <1>2, <2>1, <2>2 DEF StreamInv, CursorInv, Reached, Got, GotNext
  <2>4. BacklogInv'
    <3>1. CASE UNCHANGED backlog
      BY <2>1, <2>2, <3>1 DEF StreamInv, BacklogInv, Got, GotNext, Ms
    <3>2. CASE backlog' = <<>>
      BY <3>2 DEF BacklogInv
    <3>3. QED
      BY <1>2, <3>1, <3>2
  <2>5. PipeInv'
    <3>1. CASE UNCHANGED pipe
      BY <2>1, <2>2, <3>1 DEF StreamInv, PipeInv, Reached, Got, GotNext
    <3>2. CASE pipe' = <<>>
      BY <3>2 DEF PipeInv
    <3>3. QED
      BY <1>2, <3>1, <3>2
  <2>6. QED
    BY <2>3, <2>4, <2>5
<1>3. CASE Connect \/ Refuse \/ End \/ Close \/ Break
  BY <1>2, <1>3 DEF Connect, Refuse, End, Close, Break
<1>4. CASE UNCHANGED notifVars
  BY <1>2, <1>4 DEF notifVars, streamVars
<1>5. QED
  BY <1>1, <1>3, <1>4, ReadKeeps, SubscribeKeeps, ReceiveKeeps DEF StreamNext, Emission

LEMMA StreamInvInit ==
  ASSUME StreamInit
  PROVE  StreamInv
<1>1. PerMs \in Nat /\ PerMs > 0 /\ <<>> \in Seq(Notif) /\ <<>> \in Seq([row : Notif, id : Nat])
  BY TimestampsAssumption
<1>2. Stored = {}
  BY DEF StreamInit, Stored
<1>3. StreamTypeOK
  BY <1>1, <1>2 DEF StreamInit, StreamTypeOK, Status, StreamState
<1>4. QED
  BY <1>1, <1>2, <1>3 DEF StreamInit, StreamInv, Dated, CursorInv, BacklogInv, PipeInv, Got, Owed

THEOREM StreamInvariant == StreamSpec => []StreamInv
<1>1. StreamInv /\ [StreamNext]_notifVars => StreamInv'
  <2> SUFFICES ASSUME StreamInv, [StreamNext]_notifVars PROVE StreamInv'
    OBVIOUS
  <2>1. StreamTypeOK'
    <3>1. CASE UNCHANGED notifVars
      BY <3>1 DEF StreamInv, notifVars, emitVars, streamVars,
         StreamTypeOK, Stored
    <3>2. QED
      BY <3>1, EmissionTypes, StreamTypes DEF StreamNext, Emission
  <2>2. Dated'
    BY DatedStep
  <2>3. QED
    BY <2>1, <2>2, CoverStep DEF StreamInv
<1>2. QED
  BY StreamInvInit, <1>1, PTL DEF StreamSpec

(* TypeOK of NotificationStream: in particular the client is sent stored   *)
(* rows only.                                                              *)
THEOREM StreamTypeCorrect == StreamSpec => []StreamTypeOK
<1>1. StreamInv => StreamTypeOK
  BY DEF StreamInv
<1>2. QED
  BY <1>1, StreamInvariant, PTL

(* Wherever a connection breaks, the client's Last-Event-ID has passed no  *)
(* row it lacks, but for those out of order, beyond the limit, or sharing  *)
(* an exact millisecond with another row.                                  *)
THEOREM CursorCoversReceived == StreamSpec => []CursorCovers
<1>1. StreamInv => CursorCovers
  <2> SUFFICES ASSUME StreamInv, NEW m \in PastCursor PROVE m \in received
    BY DEF CursorCovers
  <2>1. m \in Owed /\ ~(createdAt[m] > lastId * PerMs)
    BY DEF PastCursor, NewerThan, Owed
  <2>2. createdAt[m] \in Nat /\ lastId * PerMs \in Nat
    BY <2>1, OwedTypes, Times DEF StreamInv, StreamTypeOK
  <2>3. QED
    BY <2>1, <2>2 DEF StreamInv, CursorInv, Got
<1>2. QED
  BY <1>1, StreamInvariant, PTL
=============================================================================
