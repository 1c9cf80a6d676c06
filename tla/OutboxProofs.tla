---------------------------- MODULE OutboxProofs ----------------------------
(***************************************************************************)
(* Safety of Outbox for any number of events, relay instances, faults and  *)
(* crashes: type correctness, exclusive row locks, no lost event, one      *)
(* forward per fault, causal order, deduplication, and the implementation  *)
(* of EventDelivery.                                                       *)
(***************************************************************************)
EXTENDS Outbox, FiniteSetTheorems, TLAPS

(* Rows whose forward no failed tick accounts for yet.                     *)
Accounted(e) ==
  \/ e \in published
  \/ \E i \in Instance : e \in batch[i] /\ pc[i] \in {"forwarded", "marked"}

(* Rows held by an open transaction are committed and not published, and   *)
(* what a transaction may publish on commit has been forwarded.            *)
HeldRows ==
  /\ \A i \in Instance : batch[i] \subseteq Committed \ published
  /\ \A o \in orphans : o.rows \subseteq Committed \ published
  /\ \A i \in Instance : pc[i] \in {"forwarded", "marked"} => batch[i] \subseteq Forwarded
  /\ \A o \in orphans : o.at = "marked" => o.rows \subseteq Forwarded

(* Every forward but the accounted one cost a fault.                       *)
ForwardBudget ==
  \A e \in Event : /\ forwards[e] <= 1 + faults + crashes
                   /\ ~Accounted(e) => forwards[e] <= faults + crashes

IInv ==
  /\ TypeOK
  /\ LocksDisjoint
  /\ HeldRows
  /\ PublishedWasForwarded
  /\ Forwarded \subseteq Committed
  /\ ForwardBudget

-----------------------------------------------------------------------------
(* The types of what addBulk writes.                                       *)
LEMMA AddBulkType ==
  ASSUME TypeOK, NEW B \in SUBSET Event, AddBulk(B)
  PROVE  /\ waiting' \in SUBSET Event
         /\ kept' \in Seq(Event)
         /\ created' \in [Event -> Nat]
         /\ forwards' \in [Event -> Nat]
BY DEF TypeOK, AddBulk

(* addBulk counts one forward for every event of the batch and no other.   *)
LEMMA AddBulkForwards ==
  ASSUME TypeOK, NEW B \in SUBSET Event, AddBulk(B)
  PROVE  \A e \in Event : forwards'[e] = IF e \in B THEN forwards[e] + 1 ELSE forwards[e]
BY DEF TypeOK, AddBulk

(* A failed or dying tick forwards its whole batch or nothing.             *)
LEMMA MaybeForwardedType ==
  ASSUME TypeOK, NEW i \in Instance, MaybeForwarded(i)
  PROVE  /\ waiting' \in SUBSET Event
         /\ kept' \in Seq(Event)
         /\ created' \in [Event -> Nat]
         /\ forwards' \in [Event -> Nat]
<1>1. CASE AddBulk(batch[i])
  BY <1>1, AddBulkType DEF TypeOK
<1>2. CASE UNCHANGED queueVars
  BY <1>2 DEF queueVars, TypeOK
<1>3. QED
  BY <1>1, <1>2 DEF MaybeForwarded

(* Completing a job keeps a sequence of events.                            *)
LEMMA CompleteType ==
  ASSUME TypeOK, NEW e \in Event, Complete(e)
  PROVE  kept' \in Seq(Event)
<1>1. CASE Len(kept) < KeepCompleted
  BY <1>1 DEF TypeOK, Complete
<1>2. CASE ~(Len(kept) < KeepCompleted)
  <2>1. kept # <<>>
    BY <1>2, OutboxAssumption DEF TypeOK
  <2>2. Tail(kept) \in Seq(Event)
    BY <2>1 DEF TypeOK
  <2>3. QED
    BY <1>2, <2>2 DEF Complete
<1>3. QED
  BY <1>1, <1>2

-----------------------------------------------------------------------------
(* The initial state is typed.                                             *)
LEMMA TypeInit == Init => TypeOK
BY OutboxAssumption DEF Init, TypeOK, UseCaseState, TickState, Orphan

(* Every step of use cases, relays and consumers keeps the types.          *)
LEMMA TypeStep == TypeOK /\ [Next]_vars => TypeOK'
<1> SUFFICES ASSUME TypeOK, [Next]_vars PROVE TypeOK'
  OBVIOUS
<1> USE DEF UseCaseState, TickState, emitVars, tickVars, queueVars
<1>1. ASSUME NEW e \in Event, Begin(e) PROVE TypeOK'
  BY <1>1 DEF TypeOK, Begin, Committed
<1>2. ASSUME NEW e \in Event, Emit(e) \/ Commit(e) \/ Abort(e) PROVE TypeOK'
  BY <1>2 DEF TypeOK, Emit, Commit, Abort
<1>3. ASSUME NEW e \in Event, Complete(e) PROVE TypeOK'
  BY <1>3, CompleteType DEF TypeOK, Complete
<1>4. ASSUME NEW i \in Instance, Fetch(i) PROVE TypeOK'
  <2>1. batch' \in [Instance -> SUBSET Event]
    BY <1>4 DEF TypeOK, Fetch, Available, Committed
  <2>2. QED
    BY <1>4, <2>1 DEF TypeOK, Fetch
<1>5. ASSUME NEW i \in Instance, Publish(i) PROVE TypeOK'
  <2>1. AddBulk(batch[i]) /\ batch[i] \in SUBSET Event
    BY <1>5 DEF Publish, TypeOK
  <2>2. QED
    BY <1>5, <2>1, AddBulkType DEF TypeOK, Publish
<1>6. ASSUME NEW i \in Instance, Mark(i) \/ CommitTick(i) PROVE TypeOK'
  BY <1>6 DEF TypeOK, Mark, CommitTick
<1>7. ASSUME NEW i \in Instance, TickFails(i) PROVE TypeOK'
  <2>1. MaybeForwarded(i)
    BY <1>7 DEF TickFails
  <2>2. QED
    BY <1>7, <2>1, MaybeForwardedType DEF TypeOK, TickFails
<1>8. ASSUME NEW i \in Instance, Crash(i) PROVE TypeOK'
  <2>1. MaybeForwarded(i)
    BY <1>8 DEF Crash
  <2>2. orphans' \in SUBSET Orphan
    BY <1>8 DEF Crash, TypeOK, Orphan
  <2>3. QED
    BY <1>8, <2>1, <2>2, MaybeForwardedType DEF TypeOK, Crash
<1>9. ASSUME NEW o \in orphans, EndOrphan(o) PROVE TypeOK'
  <2>1. o.rows \in SUBSET Event
    BY DEF TypeOK, Orphan
  <2>2. QED
    BY <1>9, <2>1 DEF TypeOK, EndOrphan
<1>10. CASE UNCHANGED vars
  BY <1>10 DEF TypeOK, vars
<1>11. QED
  BY <1>1, <1>2, <1>3, <1>4, <1>5, <1>6, <1>7, <1>8, <1>9, <1>10 DEF Next

(* Type correctness: every variable of the relay keeps its type.           *)
THEOREM TypeCorrect == Spec => []TypeOK
BY TypeInit, TypeStep, PTL DEF Spec

-----------------------------------------------------------------------------
(* Every step keeps the rows of open transactions apart.                   *)
LEMMA LocksStep == TypeOK /\ LocksDisjoint /\ [Next]_vars => LocksDisjoint'
<1> SUFFICES ASSUME TypeOK, LocksDisjoint, [Next]_vars PROVE LocksDisjoint'
  OBVIOUS
<1> USE DEF emitVars, tickVars, queueVars
<1>1. ASSUME UNCHANGED <<batch, orphans>> PROVE LocksDisjoint'
  BY <1>1 DEF LocksDisjoint
<1>2. ASSUME NEW i \in Instance, Fetch(i) PROVE LocksDisjoint'
  (* The rows taken are locked by no open transaction. *)
  <2>1. PICK B \in SUBSET Available : batch' = [batch EXCEPT ![i] = B]
    BY <1>2 DEF Fetch
  <2>2. \A j \in Instance : batch[j] \cap B = {}
    BY <2>1 DEF Available, Locked, Committed
  <2>3. \A o \in orphans : o.rows \cap B = {}
    BY <2>1 DEF Available, Locked, Committed
  <2>4. orphans' = orphans
    BY <1>2 DEF Fetch
  <2>5. \A j \in Instance : batch'[j] = IF j = i THEN B ELSE batch[j]
    BY <2>1 DEF TypeOK
  <2>6. QED
    BY <2>2, <2>3, <2>4, <2>5 DEF LocksDisjoint
<1>3. ASSUME NEW i \in Instance, CommitTick(i) \/ TickFails(i) PROVE LocksDisjoint'
  <2>1. batch' = [batch EXCEPT ![i] = {}] /\ orphans' = orphans
    BY <1>3 DEF CommitTick, TickFails
  <2>2. QED
    BY <2>1 DEF LocksDisjoint, TypeOK
<1>4. ASSUME NEW i \in Instance, Crash(i) PROVE LocksDisjoint'
  (* The rows move from the live instance to the orphan. *)
  <2>1. /\ batch' = [batch EXCEPT ![i] = {}]
        /\ orphans' = orphans \cup {[rows |-> batch[i], at |-> pc[i]]}
    BY <1>4 DEF Crash
  <2>2. QED
    BY <2>1 DEF LocksDisjoint, TypeOK
<1>5. ASSUME NEW o \in orphans, EndOrphan(o) PROVE LocksDisjoint'
  BY <1>5 DEF LocksDisjoint, EndOrphan
<1>6. CASE UNCHANGED vars
  BY <1>6, <1>1 DEF vars
<1>7. ASSUME NEW e \in Event, Begin(e) \/ Emit(e) \/ Commit(e) \/ Abort(e) \/ Complete(e)
      PROVE  LocksDisjoint'
  BY <1>1, <1>7 DEF Begin, Emit, Commit, Abort, Complete
<1>8. ASSUME NEW i \in Instance, Publish(i) \/ Mark(i) PROVE LocksDisjoint'
  BY <1>1, <1>8 DEF Publish, Mark
<1>9. QED
  BY <1>2, <1>3, <1>4, <1>5, <1>6, <1>7, <1>8 DEF Next

(* Use cases only add committed events, and nothing forgets a forward.     *)
LEMMA Monotone ==
  ASSUME TypeOK, Next
  PROVE  Committed \subseteq Committed' /\ Forwarded \subseteq Forwarded'
<1> USE DEF emitVars, tickVars, queueVars, Committed, Forwarded
<1>1. ASSUME NEW e \in Event, Begin(e) \/ Emit(e) \/ Commit(e) \/ Abort(e) \/ Complete(e)
      PROVE  Committed \subseteq Committed' /\ Forwarded \subseteq Forwarded'
  BY <1>1 DEF TypeOK, Begin, Emit, Commit, Abort, Complete
<1>2. ASSUME NEW i \in Instance, AddBulk(batch[i]), UNCHANGED useCase
      PROVE  Committed \subseteq Committed' /\ Forwarded \subseteq Forwarded'
  <2>0. batch[i] \in SUBSET Event
    BY DEF TypeOK
  <2>1. \A e \in Event : forwards'[e] = IF e \in batch[i] THEN forwards[e] + 1 ELSE forwards[e]
    BY <1>2, <2>0, AddBulkForwards
  <2>2. forwards \in [Event -> Nat]
    BY DEF TypeOK
  <2>3. QED
    BY <1>2, <2>1, <2>2
<1>3. ASSUME UNCHANGED <<useCase, forwards>>
      PROVE  Committed \subseteq Committed' /\ Forwarded \subseteq Forwarded'
  BY <1>3
<1>4. ASSUME NEW i \in Instance, TickFails(i) \/ Crash(i)
      PROVE  Committed \subseteq Committed' /\ Forwarded \subseteq Forwarded'
  BY <1>2, <1>3, <1>4 DEF TickFails, Crash, MaybeForwarded
<1>5. ASSUME NEW i \in Instance, Fetch(i) \/ Publish(i) \/ Mark(i) \/ CommitTick(i)
      PROVE  Committed \subseteq Committed' /\ Forwarded \subseteq Forwarded'
  BY <1>2, <1>3, <1>5 DEF Fetch, Publish, Mark, CommitTick
<1>6. ASSUME NEW o \in orphans, EndOrphan(o)
      PROVE  Committed \subseteq Committed' /\ Forwarded \subseteq Forwarded'
  BY <1>3, <1>6 DEF EndOrphan
<1>7. QED
  BY <1>1, <1>4, <1>5, <1>6 DEF Next

(* What a tick that fails or dies may have forwarded.                      *)
LEMMA MaybeForwardedCount ==
  ASSUME TypeOK, NEW i \in Instance, MaybeForwarded(i)
  PROVE  \/ /\ pc[i] = "fetched"
            /\ \A e \in Event :
                 forwards'[e] = IF e \in batch[i] THEN forwards[e] + 1 ELSE forwards[e]
         \/ forwards' = forwards
<1>1. batch[i] \in SUBSET Event
  BY DEF TypeOK
<1>2. QED
  BY <1>1, AddBulkForwards DEF MaybeForwarded, queueVars

(* A forward only concerns rows an instance has fetched.                   *)
LEMMA ForwardedStep ==
  ASSUME IInv, Next
  PROVE  Forwarded' \subseteq Committed'
<1> USE DEF emitVars, tickVars, queueVars
<1>1. Forwarded \subseteq Committed /\ Committed \subseteq Committed'
  BY Monotone DEF IInv
<1>2. ASSUME NEW i \in Instance, MaybeForwarded(i) \/ AddBulk(batch[i])
      PROVE  Forwarded' \subseteq Committed'
  <2>1. batch[i] \subseteq Committed /\ batch[i] \in SUBSET Event
    BY DEF IInv, HeldRows, TypeOK
  <2>2. Forwarded' \subseteq Forwarded \cup batch[i]
    BY <1>2, <2>1, AddBulkForwards, MaybeForwardedCount DEF IInv, Forwarded
  <2>3. QED
    BY <1>1, <2>1, <2>2
<1>3. ASSUME UNCHANGED forwards
      PROVE  Forwarded' \subseteq Committed'
  BY <1>1, <1>3 DEF Forwarded
<1>4. QED
  BY <1>2, <1>3 DEF Next, Begin, Emit, Commit, Abort, Complete, Fetch, Publish,
                    Mark, CommitTick, TickFails, Crash, EndOrphan

(* Every step keeps HeldRows: locked rows stay committed, unpublished, and *)
(* forwarded once past addBulk.                                            *)
LEMMA HeldStep ==
  ASSUME IInv, Next
  PROVE  HeldRows'
<1> USE DEF emitVars, tickVars, queueVars
<1>0. /\ TypeOK /\ LocksDisjoint /\ HeldRows
      /\ Committed \subseteq Committed' /\ Forwarded \subseteq Forwarded'
  BY Monotone DEF IInv
<1>1. ASSUME UNCHANGED <<pc, batch, orphans, published>> PROVE HeldRows'
  BY <1>0, <1>1 DEF HeldRows
<1>2. ASSUME NEW i \in Instance, Fetch(i) PROVE HeldRows'
  <2>1. PICK B \in SUBSET Available : batch' = [batch EXCEPT ![i] = B]
    BY <1>2 DEF Fetch
  <2>2. B \subseteq Committed \ published
    BY <2>1 DEF Available
  <2>3. /\ pc' = [pc EXCEPT ![i] = "fetched"]
        /\ UNCHANGED <<orphans, published>>
    BY <1>2 DEF Fetch
  <2>4. QED
    BY <1>0, <2>1, <2>2, <2>3 DEF HeldRows, TypeOK
<1>3. ASSUME NEW i \in Instance, Publish(i) PROVE HeldRows'
  <2>1. batch[i] \in SUBSET Event /\ AddBulk(batch[i])
    BY <1>0, <1>3 DEF TypeOK, Publish
  <2>2. batch[i] \subseteq Forwarded'
    <3>1. \A e \in Event : forwards'[e] = IF e \in batch[i] THEN forwards[e] + 1 ELSE forwards[e]
      BY <1>0, <2>1, AddBulkForwards
    <3>2. QED
      BY <1>0, <2>1, <3>1 DEF TypeOK, Forwarded
  <2>3. /\ pc' = [pc EXCEPT ![i] = "forwarded"]
        /\ UNCHANGED <<batch, orphans, published>>
    BY <1>3 DEF Publish
  <2>4. QED
    BY <1>0, <2>2, <2>3 DEF HeldRows, TypeOK
<1>4. ASSUME NEW i \in Instance, Mark(i) PROVE HeldRows'
  BY <1>0, <1>4 DEF HeldRows, TypeOK, Mark
<1>5. ASSUME NEW i \in Instance, CommitTick(i) PROVE HeldRows'
  (* The rows published are in no other open transaction. *)
  <2>1. /\ published' = published \cup batch[i]
        /\ pc' = [pc EXCEPT ![i] = "idle"]
        /\ batch' = [batch EXCEPT ![i] = {}]
        /\ UNCHANGED <<orphans>>
    BY <1>5 DEF CommitTick
  <2>2. \A j \in Instance : batch'[j] \cap batch[i] = {}
    BY <1>0, <2>1 DEF LocksDisjoint, TypeOK
  <2>3. \A o \in orphans : o.rows \cap batch[i] = {}
    BY <1>0 DEF LocksDisjoint
  <2>4. QED
    BY <1>0, <2>1, <2>2, <2>3 DEF HeldRows, TypeOK
<1>6. ASSUME NEW i \in Instance, TickFails(i) PROVE HeldRows'
  <2>1. /\ pc' = [pc EXCEPT ![i] = "idle"]
        /\ batch' = [batch EXCEPT ![i] = {}]
        /\ UNCHANGED <<orphans, published>>
    BY <1>6 DEF TickFails
  <2>2. QED
    BY <1>0, <2>1 DEF HeldRows, TypeOK
<1>7. ASSUME NEW i \in Instance, Crash(i) PROVE HeldRows'
  <2>1. /\ pc' = [pc EXCEPT ![i] = "idle"]
        /\ batch' = [batch EXCEPT ![i] = {}]
        /\ orphans' = orphans \cup {[rows |-> batch[i], at |-> pc[i]]}
        /\ UNCHANGED <<published>>
    BY <1>7 DEF Crash
  <2>2. QED
    BY <1>0, <2>1 DEF HeldRows, TypeOK
<1>8. ASSUME NEW o \in orphans, EndOrphan(o) PROVE HeldRows'
  <2>1. /\ published' \subseteq published \cup o.rows
        /\ orphans' = orphans \ {o}
        /\ UNCHANGED <<pc, batch>>
    BY <1>8 DEF EndOrphan
  <2>2. \A j \in Instance : batch[j] \cap o.rows = {}
    BY <1>0 DEF LocksDisjoint
  <2>3. \A q \in orphans' : q.rows \cap o.rows = {}
    BY <1>0, <2>1 DEF LocksDisjoint
  <2>4. QED
    BY <1>0, <2>1, <2>2, <2>3 DEF HeldRows
<1>9. ASSUME NEW e \in Event, Begin(e) \/ Emit(e) \/ Commit(e) \/ Abort(e) \/ Complete(e)
      PROVE  HeldRows'
  BY <1>1, <1>9 DEF Begin, Emit, Commit, Abort, Complete
<1>10. QED
  BY <1>2, <1>3, <1>4, <1>5, <1>6, <1>7, <1>8, <1>9 DEF Next

(* A commit stamps only rows that were forwarded.                          *)
LEMMA PublishedStep ==
  ASSUME IInv, Next
  PROVE  PublishedWasForwarded'
<1> USE DEF emitVars, tickVars, queueVars
<1>0. HeldRows /\ published \subseteq Forwarded /\ Forwarded \subseteq Forwarded'
  BY Monotone DEF IInv, PublishedWasForwarded
<1>1. ASSUME NEW i \in Instance, CommitTick(i) PROVE published' \subseteq Forwarded
  BY <1>0, <1>1 DEF CommitTick, HeldRows
<1>2. ASSUME NEW o \in orphans, EndOrphan(o) PROVE published' \subseteq Forwarded
  BY <1>0, <1>2 DEF EndOrphan, HeldRows
<1>3. ASSUME UNCHANGED published PROVE published' \subseteq Forwarded
  BY <1>0, <1>3
<1>4. published' \subseteq Forwarded
  BY <1>1, <1>2, <1>3 DEF Next, Begin, Emit, Commit, Abort, Complete, Fetch,
                          Publish, Mark, TickFails, Crash
<1>5. QED
  BY <1>0, <1>4 DEF PublishedWasForwarded

(* The budget: a forward is paid by the fault of the tick before it, or is *)
(* the accounted one.                                                      *)
LEMMA BudgetStep ==
  ASSUME IInv, Next
  PROVE  ForwardBudget'
<1> USE DEF emitVars, tickVars, queueVars
<1>0. /\ TypeOK /\ LocksDisjoint /\ HeldRows /\ ForwardBudget
      /\ forwards \in [Event -> Nat] /\ faults \in Nat /\ crashes \in Nat
      /\ pc \in [Instance -> TickState] /\ batch \in [Instance -> SUBSET Event]
  BY DEF IInv, TypeOK
<1>1. ASSUME UNCHANGED <<forwards, faults, crashes>>,
             \A e \in Event : Accounted(e) => Accounted(e)'
      PROVE  ForwardBudget'
  BY <1>0, <1>1 DEF ForwardBudget
<1>2. ASSUME NEW i \in Instance, Fetch(i) PROVE ForwardBudget'
  <2>1. /\ pc[i] = "idle" /\ pc' = [pc EXCEPT ![i] = "fetched"]
        /\ \A j \in Instance : j # i => batch'[j] = batch[j]
        /\ UNCHANGED <<published, forwards, faults, crashes>>
    BY <1>0, <1>2 DEF Fetch
  <2>2. QED
    BY <1>0, <1>1, <2>1 DEF Accounted
<1>3. ASSUME NEW i \in Instance, Publish(i) PROVE ForwardBudget'
  <2>1. /\ pc[i] = "fetched" /\ pc' = [pc EXCEPT ![i] = "forwarded"]
        /\ UNCHANGED <<batch, published, faults, crashes>>
        /\ batch[i] \in SUBSET Event /\ AddBulk(batch[i])
    BY <1>0, <1>3 DEF Publish
  <2>2. \A e \in Event : forwards'[e] = IF e \in batch[i] THEN forwards[e] + 1 ELSE forwards[e]
    BY <1>0, <2>1, AddBulkForwards
  <2>3. \A e \in batch[i] : ~Accounted(e) /\ Accounted(e)'
    BY <1>0, <2>1 DEF Accounted, HeldRows, LocksDisjoint
  <2>4. \A e \in Event : Accounted(e) => Accounted(e)'
    BY <1>0, <2>1 DEF Accounted
  <2>5. QED
    BY <1>0, <2>1, <2>2, <2>3, <2>4 DEF ForwardBudget
<1>4. ASSUME NEW i \in Instance, Mark(i) PROVE ForwardBudget'
  <2>1. /\ pc[i] = "forwarded" /\ pc' = [pc EXCEPT ![i] = "marked"]
        /\ UNCHANGED <<batch, published, forwards, faults, crashes>>
    BY <1>4 DEF Mark
  <2>2. QED
    BY <1>0, <1>1, <2>1 DEF Accounted
<1>5. ASSUME NEW i \in Instance, CommitTick(i) PROVE ForwardBudget'
  <2>1. /\ published' = published \cup batch[i]
        /\ pc' = [pc EXCEPT ![i] = "idle"] /\ batch' = [batch EXCEPT ![i] = {}]
        /\ UNCHANGED <<forwards, faults, crashes>>
    BY <1>5 DEF CommitTick
  <2>2. QED
    BY <1>0, <1>1, <2>1 DEF Accounted
<1>6. ASSUME NEW i \in Instance, TickFails(i) \/ Crash(i) PROVE ForwardBudget'
  <2>1. /\ faults' + crashes' = faults + crashes + 1
        /\ faults' \in Nat /\ crashes' \in Nat
        /\ MaybeForwarded(i)
        /\ pc' = [pc EXCEPT ![i] = "idle"] /\ batch' = [batch EXCEPT ![i] = {}]
        /\ UNCHANGED published
    BY <1>0, <1>6 DEF TickFails, Crash
  <2>. DEFINE spent == faults + crashes
  <2>0. /\ spent \in Nat /\ faults' + crashes' = spent + 1
        /\ \A e \in Event : forwards[e] \in Nat
        /\ \A e \in Event : forwards[e] <= 1 + spent
        /\ \A e \in Event : ~Accounted(e) => forwards[e] <= spent
    <3>0. faults \in Nat /\ crashes \in Nat /\ faults' + crashes' = faults + crashes + 1
      BY <1>0, <2>1
    <3>1. spent \in Nat /\ faults' + crashes' = spent + 1 /\ 1 + faults + crashes = 1 + spent
      BY <3>0
    <3>2. \A e \in Event : forwards[e] \in Nat
      BY <1>0
    <3>3. \A e \in Event : /\ forwards[e] <= 1 + faults + crashes
                           /\ ~Accounted(e) => forwards[e] <= faults + crashes
      BY <1>0 DEF ForwardBudget
    <3>4. QED
      BY <3>1, <3>2, <3>3
  <2>. HIDE DEF spent
  <2>2. CASE forwards' = forwards
    <3>1. \A e \in Event : forwards'[e] <= faults' + crashes'
      BY <2>0, <2>2
    <3>2. \A e \in Event : forwards'[e] \in Nat
      BY <2>0, <2>2
    <3>3. QED
      BY <2>1, <3>1, <3>2 DEF ForwardBudget
  <2>3. CASE /\ pc[i] = "fetched"
             /\ \A e \in Event :
                  forwards'[e] = IF e \in batch[i] THEN forwards[e] + 1 ELSE forwards[e]
    <3>1. \A e \in batch[i] : ~Accounted(e)
      BY <1>0, <2>3 DEF Accounted, HeldRows, LocksDisjoint
    <3>2. \A e \in Event : forwards'[e] <= faults' + crashes'
      BY <2>0, <2>3, <3>1
    <3>3. \A e \in Event : forwards'[e] \in Nat
      BY <1>0, <2>3
    <3>4. QED
      BY <2>1, <3>2, <3>3 DEF ForwardBudget
  <2>4. QED
    BY <1>0, <2>1, <2>2, <2>3, MaybeForwardedCount
<1>7. ASSUME NEW o \in orphans, EndOrphan(o) PROVE ForwardBudget'
  <2>1. published \subseteq published' /\ UNCHANGED <<pc, batch, forwards, faults, crashes>>
    BY <1>7 DEF EndOrphan
  <2>2. QED
    BY <1>1, <2>1 DEF Accounted
<1>8. ASSUME NEW e \in Event, Begin(e) \/ Emit(e) \/ Commit(e) \/ Abort(e) \/ Complete(e)
      PROVE  ForwardBudget'
  <2>1. UNCHANGED <<published, pc, batch, forwards, faults, crashes>>
    BY <1>8 DEF Begin, Emit, Commit, Abort, Complete
  <2>2. QED
    BY <1>1, <2>1 DEF Accounted
<1>9. QED
  BY <1>2, <1>3, <1>4, <1>5, <1>6, <1>7, <1>8 DEF Next

-----------------------------------------------------------------------------
(* The strengthened invariant holds initially.                             *)
LEMMA IInvInit == Init => IInv
<1> SUFFICES ASSUME Init PROVE IInv
  OBVIOUS
<1>1. TypeOK
  BY TypeInit
<1>2. LocksDisjoint /\ HeldRows /\ PublishedWasForwarded
  BY DEF Init, LocksDisjoint, HeldRows, PublishedWasForwarded
<1>3. Forwarded = {} /\ ForwardBudget
  BY DEF Init, Forwarded, ForwardBudget
<1>4. QED
  BY <1>1, <1>2, <1>3 DEF IInv

(* Every step preserves the strengthened invariant.                        *)
LEMMA IInvStep == IInv /\ [Next]_vars => IInv'
<1>1. ASSUME IInv, Next PROVE IInv'
  <2>1. TypeOK' /\ LocksDisjoint'
    BY <1>1, TypeStep, LocksStep DEF IInv
  <2>2. QED
    BY <1>1, <2>1, HeldStep, PublishedStep, ForwardedStep, BudgetStep DEF IInv
<1>2. ASSUME IInv, UNCHANGED vars PROVE IInv'
  BY <1>2 DEF IInv, vars, emitVars, tickVars, queueVars, TypeOK, LocksDisjoint,
              HeldRows, PublishedWasForwarded, ForwardBudget, Accounted,
              Forwarded, Committed
<1>3. QED
  BY <1>1, <1>2

(* The strengthened invariant is one, for every number of instances.       *)
THEOREM Inductive == Spec => []IInv
BY IInvInit, IInvStep, PTL DEF Spec

(* SKIP LOCKED keeps the open transactions' rows apart.                    *)
THEOREM RelayLocksDisjoint == Spec => []LocksDisjoint
<1>1. IInv => LocksDisjoint
  BY DEF IInv
<1>2. QED
  BY <1>1, Inductive, PTL

(* A published_at stamp is never put on an event that was not forwarded.   *)
THEOREM NoEventLost == Spec => []PublishedWasForwarded
<1>1. IInv => PublishedWasForwarded
  BY DEF IInv
<1>2. QED
  BY <1>1, Inductive, PTL

(* An event is forwarded once, and once more at most for every tick that   *)
(* failed and every instance that died.                                    *)
THEOREM ForwardBound == Spec => []ForwardedOncePerFault
<1>1. IInv => ForwardedOncePerFault
  BY DEF IInv, ForwardBudget, ForwardedOncePerFault
<1>2. QED
  BY <1>1, Inductive, PTL

(* A row is out of the relay's reach once published_at is committed.       *)
THEOREM NoForwardAfterPublished == Spec => PublishedNotForwardedAgain
<1>1. ASSUME IInv, Next, NEW e \in published PROVE forwards'[e] = forwards[e]
  <2>1. \A i \in Instance : e \notin batch[i]
    BY <1>1 DEF IInv, HeldRows
  <2>2. TypeOK /\ e \in Event
    BY <1>1 DEF IInv, TypeOK
  <2>3. ASSUME NEW i \in Instance, AddBulk(batch[i]) PROVE forwards'[e] = forwards[e]
    <3>1. batch[i] \in SUBSET Event
      BY <2>2 DEF TypeOK
    <3>2. QED
      BY <2>1, <2>2, <2>3, <3>1, AddBulkForwards
  <2>4. ASSUME UNCHANGED forwards PROVE forwards'[e] = forwards[e]
    BY <2>4
  <2>5. QED
    BY <1>1, <2>3, <2>4
       DEF Next, Begin, Emit, Commit, Abort, Complete, Fetch, Publish, Mark,
           CommitTick, TickFails, Crash, EndOrphan, MaybeForwarded, queueVars
<1>2. IInv /\ [Next]_vars => [\A e \in published : forwards'[e] = forwards[e]]_vars
  BY <1>1
<1>3. QED
  BY <1>2, Inductive, PTL DEF Spec, PublishedNotForwardedAgain

-----------------------------------------------------------------------------
(* Only a use case's own commit adds to the committed events.              *)
LEMMA CommittedStep ==
  ASSUME TypeOK, NEW e \in Event, Begin(e) \/ Emit(e) \/ Commit(e) \/ Abort(e)
  PROVE  \/ Committed' = Committed
         \/ e \notin Committed /\ Committed' = Committed \cup {e}
<1>1. CASE Commit(e)
  BY <1>1 DEF TypeOK, Commit, Committed
<1>2. CASE Begin(e) \/ Emit(e) \/ Abort(e)
  BY <1>2 DEF TypeOK, Begin, Emit, Abort, Committed
<1>3. QED
  BY <1>1, <1>2

(* One addBulk of fetched rows is one delivery of the abstract system.     *)
LEMMA DeliverStep ==
  ASSUME IInv, NEW i \in Instance, AddBulk(batch[i])
  PROVE  batch[i] \in SUBSET Event /\ batch[i] \subseteq Committed
         /\ Forwarded' = Forwarded \cup batch[i]
<1>1. batch[i] \in SUBSET Event /\ batch[i] \subseteq Committed
  BY DEF IInv, TypeOK, HeldRows
<1>2. \A e \in Event : forwards'[e] = IF e \in batch[i] THEN forwards[e] + 1 ELSE forwards[e]
  BY <1>1, AddBulkForwards DEF IInv
<1>3. \A e \in Event : forwards[e] \in Nat
  BY DEF IInv, TypeOK
<1>4. QED
  BY <1>1, <1>2, <1>3 DEF Forwarded

(* The relay implements at-least-once delivery: what it forwards has       *)
(* happened, and nothing that happened or was delivered is taken back.     *)
THEOREM ImplementsDelivery == Spec => DeliverySafety
<1>1. Init => Delivery!Init
  BY DEF Init, Delivery!Init, Committed, Forwarded
<1>2. ASSUME IInv, Next PROVE [Delivery!Next]_(Delivery!vars)
  <2>. USE DEF Delivery!vars, Delivery!Next, emitVars, tickVars, queueVars
  <2>0. TypeOK
    BY <1>2 DEF IInv
  <2>1. ASSUME UNCHANGED <<useCase, forwards>>
        PROVE  Committed' = Committed /\ Forwarded' = Forwarded
    BY <2>1 DEF Committed, Forwarded
  <2>2. ASSUME NEW e \in Event, Begin(e) \/ Emit(e) \/ Commit(e) \/ Abort(e)
        PROVE  [Delivery!Next]_(Delivery!vars)
    <3>1. forwards' = forwards
      BY <2>2 DEF Begin, Emit, Commit, Abort
    <3>2. Forwarded' = Forwarded
      BY <3>1 DEF Forwarded
    <3>3. QED
      BY <2>0, <2>2, <3>2, CommittedStep DEF Delivery!Happen
  <2>3. ASSUME NEW i \in Instance, AddBulk(batch[i]), UNCHANGED useCase
        PROVE  [Delivery!Next]_(Delivery!vars)
    <3>1. Committed' = Committed
      BY <2>3 DEF Committed
    <3>2. QED
      BY <1>2, <2>3, <3>1, DeliverStep DEF Delivery!Deliver
  <2>4. ASSUME UNCHANGED <<useCase, forwards>>
        PROVE  [Delivery!Next]_(Delivery!vars)
    BY <2>1, <2>4
  <2>5. ASSUME NEW e \in Event, Complete(e)
        PROVE  [Delivery!Next]_(Delivery!vars)
    BY <2>4, <2>5 DEF Complete
  <2>6. ASSUME NEW i \in Instance, TickFails(i) \/ Crash(i)
        PROVE  [Delivery!Next]_(Delivery!vars)
    BY <2>3, <2>4, <2>6 DEF TickFails, Crash, MaybeForwarded
  <2>7. ASSUME NEW i \in Instance, Fetch(i) \/ Publish(i) \/ Mark(i) \/ CommitTick(i)
        PROVE  [Delivery!Next]_(Delivery!vars)
    BY <2>3, <2>4, <2>7 DEF Fetch, Publish, Mark, CommitTick
  <2>8. ASSUME NEW o \in orphans, EndOrphan(o)
        PROVE  [Delivery!Next]_(Delivery!vars)
    BY <2>4, <2>8 DEF EndOrphan
  <2>9. QED
    BY <1>2, <2>2, <2>5, <2>6, <2>7, <2>8 DEF Next
<1>3. ASSUME UNCHANGED vars PROVE UNCHANGED Delivery!vars
  BY <1>3 DEF vars, emitVars, queueVars, Delivery!vars, Committed, Forwarded
<1>4. IInv /\ [Next]_vars => [Delivery!Next]_(Delivery!vars)
  BY <1>2, <1>3
<1>5. QED
  BY <1>1, <1>4, Inductive, PTL DEF Spec, DeliverySafety, Delivery!Safety

-----------------------------------------------------------------------------
(* Order.                                                                  *)

(* An event is later than those it has seen, and while nothing fails those *)
(* are forwarded, or locked by a tick that will forward them, no later     *)
(* than the event itself.                                                  *)
OrderInv ==
  /\ \A e \in Event : useCase[e] # "idle" => occurredAt[e] <= now
  /\ \A e \in Event : seen[e] \subseteq Committed
  /\ \A e \in Event : \A d \in seen[e] : occurredAt[d] < occurredAt[e]
  /\ \A i \in Instance : pc[i] = "idle" => batch[i] = {}
  /\ crashes = 0 => orphans = {}
  /\ faults = 0 /\ crashes = 0 =>
       \A e \in Forwarded \cup Locked : seen[e] \subseteq Forwarded \cup Locked

LEMMA OrderInit == Init => OrderInv
BY DEF Init, OrderInv, Forwarded, Locked

(* A step that neither begins a use case nor frees a row too early.        *)
LEMMA OrderKept ==
  ASSUME OrderInv, TypeOK, UNCHANGED <<now, occurredAt, seen>>,
         Committed \subseteq Committed',
         \A e \in Event : useCase'[e] # "idle" => useCase[e] # "idle",
         \A i \in Instance : pc'[i] = "idle" => batch'[i] = {},
         crashes' = 0 => crashes = 0 /\ orphans' \subseteq orphans,
         faults' = 0 => faults = 0,
         faults = 0 /\ crashes = 0 =>
           /\ Forwarded \cup Locked \subseteq (Forwarded \cup Locked)'
           /\ \A e \in (Forwarded \cup Locked)' \ (Forwarded \cup Locked) :
                seen[e] \subseteq (Forwarded \cup Locked)'
  PROVE  OrderInv'
<1>1. \A e \in Event : useCase'[e] # "idle" => occurredAt'[e] <= now'
  BY DEF OrderInv
<1>2. \A e \in Event : seen'[e] \subseteq Committed'
  BY DEF OrderInv
<1>3. \A e \in Event : \A d \in seen'[e] : occurredAt'[d] < occurredAt'[e]
  BY DEF OrderInv
<1>4. crashes' = 0 => orphans' = {}
  BY DEF OrderInv
<1>5. ASSUME faults' = 0, crashes' = 0
      PROVE  \A e \in (Forwarded \cup Locked)' : seen[e] \subseteq (Forwarded \cup Locked)'
  BY <1>5 DEF OrderInv
<1>6. QED
  BY <1>1, <1>2, <1>3, <1>4, <1>5 DEF OrderInv

(* The rows a tick fetches: what they have seen is forwarded, locked by    *)
(* another tick, or older and so fetched with them.                        *)
LEMMA FetchOrder ==
  ASSUME IInv, OrderInv, NEW i \in Instance, Fetch(i), faults = 0, crashes = 0
  PROVE  /\ Forwarded' = Forwarded
         /\ Locked \subseteq Locked'
         /\ \A e \in Locked' \ Locked : seen[e] \subseteq Forwarded \cup Locked'
<1>1. PICK B \in SUBSET Available : IsOldest(B, Available) /\ batch' = [batch EXCEPT ![i] = B]
  BY DEF Fetch
<1>2. /\ forwards' = forwards /\ orphans' = orphans /\ pc[i] = "idle" /\ published \subseteq Forwarded
      /\ TypeOK
  BY DEF Fetch, queueVars, IInv, PublishedWasForwarded
<1>3. \A j \in Instance : batch'[j] = IF j = i THEN B ELSE batch[j]
  BY <1>1, <1>2 DEF TypeOK
<1>4. orphans = {} /\ batch[i] = {}
  BY <1>2 DEF OrderInv
<1>5. Forwarded' = Forwarded
  BY <1>2 DEF Forwarded
<1>6. Locked' = Locked \cup B
  BY <1>1, <1>2, <1>3, <1>4 DEF Locked, Available, Committed
<1>7. ASSUME NEW e \in B, NEW d \in seen[e]
      PROVE  d \in Forwarded \cup Locked \cup B
  <2>1. d \in Committed /\ e \in Event /\ d \in Event /\ occurredAt[d] < occurredAt[e]
    BY <1>1 DEF OrderInv, Available, Committed
  <2>2. occurredAt[d] \in Nat /\ occurredAt[e] \in Nat
    BY <1>2, <2>1 DEF TypeOK
  <2>3. CASE d \in Available
    BY <1>1, <2>1, <2>2, <2>3 DEF IsOldest
  <2>4. CASE d \notin Available
    BY <1>2, <2>1, <2>4 DEF Available
  <2>5. QED
    BY <2>3, <2>4
<1>8. QED
  BY <1>5, <1>6, <1>7

LEMMA OrderStep ==
  ASSUME IInv, OrderInv, [Next]_vars
  PROVE  OrderInv'
<1>1. /\ TypeOK /\ HeldRows /\ Forwarded \subseteq Committed
      /\ Next => Committed \subseteq Committed' /\ Forwarded \subseteq Forwarded'
  BY Monotone DEF IInv
<1>2. crashes = 0 => orphans = {}
  BY DEF OrderInv
<1> USE DEF emitVars, tickVars, queueVars
<1>3. ASSUME NEW e \in Event, Begin(e) PROVE OrderInv'
  <2>1. /\ useCase[e] = "idle" /\ useCase' = [useCase EXCEPT ![e] = "open"] /\ now' = now + 1
        /\ occurredAt' = [occurredAt EXCEPT ![e] = now + 1]
        /\ seen' = [seen EXCEPT ![e] = Committed]
        /\ UNCHANGED <<pc, batch, orphans, forwards, faults, crashes>>
    BY <1>3 DEF Begin
  <2>2. /\ \A d \in Event : /\ seen'[d] = IF d = e THEN Committed ELSE seen[d]
                            /\ occurredAt'[d] = IF d = e THEN now + 1 ELSE occurredAt[d]
                            /\ useCase'[d] = IF d = e THEN "open" ELSE useCase[d]
        /\ \A d \in Event : occurredAt[d] \in Nat
        /\ now \in Nat
    BY <1>1, <2>1 DEF TypeOK
  <2>3. Forwarded' = Forwarded /\ Locked' = Locked
    BY <2>1 DEF Forwarded, Locked
  <2>4. e \notin Committed /\ Forwarded \cup Locked \subseteq Committed
    BY <1>1, <2>1 DEF HeldRows, Committed, Locked
  <2>5. Committed' = Committed
    BY <2>1, <2>2 DEF Committed
  <2>6. \A d \in Event : useCase'[d] # "idle" => occurredAt'[d] <= now'
    BY <2>1, <2>2 DEF OrderInv
  <2>7. \A d \in Event : seen'[d] \subseteq Committed'
    BY <2>2, <2>5 DEF OrderInv
  <2>8. \A d \in Event : \A c \in seen'[d] : occurredAt'[c] < occurredAt'[d]
    <3> TAKE d \in Event
    <3> TAKE c \in seen'[d]
    <3>1. c \in Committed /\ c \in Event /\ c # e
      BY <2>4, <2>5, <2>7 DEF Committed
    <3>2. occurredAt[c] <= now
      BY <3>1 DEF OrderInv, Committed
    <3>3. QED
      BY <2>2, <3>1, <3>2 DEF OrderInv
  <2>9. faults = 0 /\ crashes = 0 =>
          \A d \in Forwarded \cup Locked : seen'[d] \subseteq Forwarded \cup Locked
    BY <2>2, <2>4 DEF OrderInv, Committed
  <2>10. (\A i \in Instance : pc'[i] = "idle" => batch'[i] = {}) /\ (crashes' = 0 => orphans' = {})
    BY <2>1 DEF OrderInv
  <2>11. QED
    BY <2>1, <2>3, <2>6, <2>7, <2>8, <2>9, <2>10 DEF OrderInv
<1>4. ASSUME UNCHANGED <<now, occurredAt, seen, pc, batch, orphans, forwards, faults, crashes>>,
             Committed \subseteq Committed',
             \A e \in Event : useCase'[e] # "idle" => useCase[e] # "idle"
      PROVE  OrderInv'
  <2>1. Forwarded' = Forwarded /\ Locked' = Locked
    BY <1>4 DEF Forwarded, Locked
  <2>2. \A i \in Instance : pc'[i] = "idle" => batch'[i] = {}
    BY <1>4 DEF OrderInv
  <2>3. QED
    BY <1>1, <1>4, <2>1, <2>2, OrderKept
<1>5. ASSUME NEW e \in Event, Emit(e) \/ Commit(e) \/ Abort(e) \/ Complete(e) PROVE OrderInv'
  <2>1. \A d \in Event : useCase'[d] # "idle" => useCase[d] # "idle"
    BY <1>1, <1>5 DEF TypeOK, Emit, Commit, Abort, Complete
  <2>2. UNCHANGED <<now, occurredAt, seen, pc, batch, orphans, forwards, faults, crashes>>
    BY <1>5 DEF Emit, Commit, Abort, Complete
  <2>3. Committed \subseteq Committed'
    BY <1>1, <1>5 DEF Next
  <2>4. QED
    BY <1>4, <2>1, <2>2, <2>3
<1>6. ASSUME NEW i \in Instance, Fetch(i) PROVE OrderInv'
  <2>1. UNCHANGED <<useCase, now, occurredAt, seen, orphans, faults, crashes>>
    BY <1>6 DEF Fetch
  <2>2. \A j \in Instance : pc'[j] = "idle" => batch'[j] = {}
    BY <1>1, <1>6 DEF Fetch, OrderInv, TypeOK
  <2>3. Committed \subseteq Committed'
    BY <1>1, <1>6 DEF Next
  <2>4. faults = 0 /\ crashes = 0 =>
          /\ Forwarded \cup Locked \subseteq (Forwarded \cup Locked)'
          /\ \A e \in (Forwarded \cup Locked)' \ (Forwarded \cup Locked) :
               seen[e] \subseteq (Forwarded \cup Locked)'
    BY <1>6, FetchOrder
  <2>5. QED
    BY <1>1, <2>1, <2>2, <2>3, <2>4, OrderKept
<1>7. ASSUME NEW i \in Instance, Publish(i) \/ Mark(i) \/ CommitTick(i) PROVE OrderInv'
  <2>1. UNCHANGED <<useCase, now, occurredAt, seen, orphans, faults, crashes>>
    BY <1>7 DEF Publish, Mark, CommitTick
  <2>2. \A j \in Instance : pc'[j] = "idle" => batch'[j] = {}
    BY <1>1, <1>7 DEF Publish, Mark, CommitTick, OrderInv, TypeOK
  <2>3. Committed \subseteq Committed' /\ Forwarded \subseteq Forwarded'
    BY <1>1, <1>7 DEF Next
  <2>4. CASE Publish(i)
    <3>1. Locked' = Locked
      BY <2>4 DEF Publish, Locked
    <3>2. Forwarded' \subseteq Forwarded \cup Locked
      <4>1. batch[i] \in SUBSET Event /\ AddBulk(batch[i]) /\ batch[i] \subseteq Locked
        BY <1>1, <2>4 DEF TypeOK, Publish, Locked
      <4>2. \A e \in Event : forwards'[e] = IF e \in batch[i] THEN forwards[e] + 1 ELSE forwards[e]
        BY <1>1, <4>1, AddBulkForwards
      <4>3. QED
        BY <4>1, <4>2 DEF Forwarded
    <3>3. QED
      BY <1>1, <2>1, <2>2, <2>3, <3>1, <3>2, OrderKept
  <2>5. CASE Mark(i)
    <3>1. Locked' = Locked /\ Forwarded' = Forwarded
      BY <2>5 DEF Mark, Locked, Forwarded
    <3>2. QED
      BY <1>1, <2>1, <2>2, <2>3, <3>1, OrderKept
  <2>6. CASE CommitTick(i)
    <3>1. /\ pc[i] = "marked" /\ batch' = [batch EXCEPT ![i] = {}]
          /\ UNCHANGED <<orphans, forwards>>
      BY <2>6 DEF CommitTick
    <3>2. Forwarded' = Forwarded /\ Locked' \subseteq Locked /\ Locked \subseteq Locked' \cup batch[i]
      BY <1>1, <3>1 DEF Forwarded, Locked, TypeOK
    <3>3. batch[i] \subseteq Forwarded
      BY <1>1, <3>1 DEF HeldRows
    <3>4. QED
      BY <1>1, <2>1, <2>2, <2>3, <3>2, <3>3, OrderKept
  <2>7. QED
    BY <1>7, <2>4, <2>5, <2>6
(* A tick that fails or dies is a fault: from then on nothing is claimed.  *)
<1>8. ASSUME NEW i \in Instance, TickFails(i) \/ Crash(i) PROVE OrderInv'
  <2>1. /\ UNCHANGED <<useCase, now, occurredAt, seen>>
        /\ pc' = [pc EXCEPT ![i] = "idle"] /\ batch' = [batch EXCEPT ![i] = {}]
        /\ ~(faults' = 0 /\ crashes' = 0)
        /\ crashes' = 0 => crashes = 0 /\ orphans' = orphans
    BY <1>1, <1>8 DEF TickFails, Crash, TypeOK
  <2>2. \A j \in Instance : pc'[j] = "idle" => batch'[j] = {}
    BY <1>1, <2>1 DEF OrderInv, TypeOK
  <2>3. Committed' = Committed
    BY <2>1 DEF Committed
  <2>4. QED
    BY <2>1, <2>2, <2>3 DEF OrderInv
<1>9. ASSUME NEW o \in orphans, EndOrphan(o) PROVE OrderInv'
  <2>1. UNCHANGED <<useCase, now, occurredAt, seen, pc, batch, crashes>> /\ crashes # 0
    BY <1>2, <1>9 DEF EndOrphan
  <2>2. Committed' = Committed
    BY <2>1 DEF Committed
  <2>3. QED
    BY <2>1, <2>2 DEF OrderInv
<1>10. CASE UNCHANGED vars
  BY <1>4, <1>10 DEF vars, Committed
<1>11. QED
  BY <1>3, <1>5, <1>6, <1>7, <1>8, <1>9, <1>10 DEF Next

(* Without failures an event overtakes one it has seen only while another  *)
(* tick holds that one, for any number of events, instances and any batch. *)
THEOREM OrderBetweenTicks == Spec => []CausalOrder
<1>1. IInv /\ OrderInv => CausalOrder
  BY DEF OrderInv, CausalOrder
<1>2. QED
  BY <1>1, Inductive, OrderInit, OrderStep, PTL DEF Spec

-----------------------------------------------------------------------------
(* Deduplication.                                                          *)

Made == {d \in Event : created[d] > 0}

(* Redis knows the jobs it has, each once, and an event it has forgotten   *)
(* left KeepCompleted others behind.                                       *)
DedupInv ==
  /\ Len(kept) <= KeepCompleted
  /\ \A m, n \in DOMAIN kept : kept[m] = kept[n] => m = n
  /\ \A n \in DOMAIN kept : kept[n] \notin waiting
  /\ \A e \in Event : InRedis(e) => e \in Made
  /\ \A e \in Made : ~InRedis(e) \/ created[e] > 1 => Cardinality(Made \ {e}) >= KeepCompleted

LEMMA MadeGrows ==
  ASSUME IsFiniteSet(Event), NEW S \in SUBSET Event, NEW T \in SUBSET Event, S \subseteq T, NEW e,
         Cardinality(S \ {e}) >= KeepCompleted
  PROVE  Cardinality(T \ {e}) >= KeepCompleted
<1>1. IsFiniteSet(T \ {e}) /\ (S \ {e}) \in SUBSET (T \ {e})
  BY FS_Subset
<1>2. /\ Cardinality(S \ {e}) <= Cardinality(T \ {e})
      /\ Cardinality(T \ {e}) \in Nat
  BY <1>1, FS_Subset, FS_CardinalityType
<1>3. Cardinality(S \ {e}) \in Nat
  BY <1>1, FS_Subset, FS_CardinalityType
<1>4. QED
  BY <1>2, <1>3, OutboxAssumption

(* A queue of K different events other than e.                             *)
LEMMA QueueOfOthers ==
  ASSUME IsFiniteSet(Event), NEW S \in SUBSET Event, NEW e, NEW q \in Seq(S \ {e}),
         Len(q) = KeepCompleted, \A m, n \in DOMAIN q : q[m] = q[n] => m = n
  PROVE  Cardinality(S \ {e}) >= KeepCompleted
<1>1. IsFiniteSet(S \ {e})
  BY FS_Subset
<1>2. q \in Injection(1..KeepCompleted, S \ {e})
  BY DEF Injection, IsInjective
<1>3. Cardinality(1..KeepCompleted) <= Cardinality(S \ {e})
  BY <1>1, <1>2, FS_Injection
<1>4. Cardinality(1..KeepCompleted) = KeepCompleted /\ Cardinality(S \ {e}) \in Nat
  BY <1>1, FS_Interval, FS_CardinalityType, OutboxAssumption
<1>5. QED
  BY <1>3, <1>4, OutboxAssumption

LEMMA AddBulkDedup ==
  ASSUME IsFiniteSet(Event), TypeOK, DedupInv, NEW B \in SUBSET Event, AddBulk(B)
  PROVE  DedupInv'
<1> DEFINE new == {e \in B : ~InRedis(e)}
<1>1. /\ waiting' = waiting \cup new /\ kept' = kept
      /\ \A e \in Event : created'[e] = IF e \in new THEN created[e] + 1 ELSE created[e]
      /\ \A e \in Event : created[e] \in Nat
      /\ new \in SUBSET Event
  BY DEF AddBulk, TypeOK
<1>2. \A e \in Event : InRedis(e)' <=> InRedis(e) \/ e \in new
  BY <1>1 DEF InRedis
<1>3. Made' = Made \cup new /\ Made \in SUBSET Event /\ Made' \in SUBSET Event
  BY <1>1 DEF Made
<1>4. \A n \in DOMAIN kept' : kept'[n] \notin waiting'
  BY <1>1 DEF DedupInv, InRedis
<1>5. ASSUME NEW e \in Made', ~InRedis(e)' \/ created'[e] > 1
      PROVE  Cardinality(Made' \ {e}) >= KeepCompleted
  <2>1. e \in Made /\ (~InRedis(e) \/ created[e] > 1)
    BY <1>1, <1>2, <1>3, <1>5 DEF Made
  <2>2. Cardinality(Made \ {e}) >= KeepCompleted
    BY <2>1 DEF DedupInv
  <2>3. QED
    BY <1>3, <2>2, MadeGrows
<1>6. \A e \in Event : InRedis(e)' => e \in Made'
  BY <1>2, <1>3 DEF DedupInv
<1>7. QED
  BY <1>1, <1>4, <1>5, <1>6 DEF DedupInv

LEMMA CompleteDedup ==
  ASSUME IsFiniteSet(Event), TypeOK, DedupInv, NEW e \in Event, Complete(e)
  PROVE  DedupInv'
<1>1. /\ e \in waiting /\ waiting' = waiting \ {e} /\ created' = created
      /\ kept \in Seq(Event) /\ Len(kept) \in Nat /\ KeepCompleted \in Nat \ {0}
      /\ \A n \in DOMAIN kept : kept[n] \in Event /\ kept[n] # e
      /\ DOMAIN kept = 1..Len(kept)
  BY OutboxAssumption DEF Complete, TypeOK, DedupInv
<1>2. Made' = Made /\ Made \in SUBSET Event /\ e \in Made
  BY <1>1 DEF Made, DedupInv, InRedis
<1>3. CASE Len(kept) < KeepCompleted
  <2>1. kept' = Append(kept, e)
    BY <1>3 DEF Complete
  <2>2. /\ Len(kept') = Len(kept) + 1 /\ DOMAIN kept' = 1..(Len(kept) + 1)
        /\ \A n \in DOMAIN kept : kept'[n] = kept[n]
        /\ kept'[Len(kept) + 1] = e
    BY <1>1, <2>1
  <2>3. \A d \in Event : InRedis(d)' <=> InRedis(d)
    BY <1>1, <2>2 DEF InRedis
  <2>4. \A m, n \in DOMAIN kept' : kept'[m] = kept'[n] => m = n
    BY <1>1, <2>2 DEF DedupInv
  <2>5. \A n \in DOMAIN kept' : kept'[n] \notin waiting'
    BY <1>1, <2>2 DEF DedupInv
  <2>6. Len(kept') <= KeepCompleted
    BY <1>1, <1>3, <2>2
  <2>7. QED
    BY <1>1, <1>2, <2>3, <2>4, <2>5, <2>6 DEF DedupInv
<1>4. CASE ~(Len(kept) < KeepCompleted)
  <2>0. Len(kept) = KeepCompleted
    <3>1. Len(kept) <= KeepCompleted
      BY DEF DedupInv
    <3>2. Len(kept) \in Nat /\ KeepCompleted \in Nat
      BY <1>1
    <3>3. QED
      BY <1>4, <3>1, <3>2
  <2>1. kept' = Append(Tail(kept), e)
    BY <1>4 DEF Complete
  <2> DEFINE K == KeepCompleted
             x == kept[1]
  <2>2. /\ Tail(kept) \in Seq(Event) /\ Len(Tail(kept)) = K - 1
        /\ \A n \in 1..(K - 1) : Tail(kept)[n] = kept[n + 1]
    BY <1>1, <2>0
  <2>3. /\ Len(kept') = K /\ DOMAIN kept' = 1..K /\ kept' \in Seq(Event)
        /\ \A n \in 1..(K - 1) : kept'[n] = kept[n + 1]
        /\ kept'[K] = e
    <3> DEFINE t == Tail(kept)
    <3>1. t \in Seq(Event) /\ Len(t) = K - 1 /\ kept' = Append(t, e) /\ K \in Nat \ {0}
          /\ \A n \in 1..(K - 1) : t[n] = kept[n + 1]
      BY <1>1, <2>1, <2>2
    <3> HIDE DEF t, K
    <3>2. /\ Len(Append(t, e)) = K /\ Append(t, e) \in Seq(Event)
          /\ Append(t, e)[K] = e /\ DOMAIN Append(t, e) = 1..K
      BY <3>1
    <3>3. \A n \in 1..(K - 1) : Append(t, e)[n] = t[n]
      BY <3>1
    <3>4. QED
      BY <3>1, <3>2, <3>3
  <2>4. \A m, n \in DOMAIN kept' : kept'[m] = kept'[n] => m = n
    <3>1. \A m, n \in 1..(K - 1) : kept'[m] = kept'[n] => m = n
      BY <1>1, <2>0, <2>3 DEF DedupInv
    <3>2. \A m \in 1..(K - 1) : kept'[m] # e
      BY <1>1, <2>0, <2>3
    <3>3. QED
      BY <1>1, <2>3, <3>1, <3>2
  <2>5. x \in Event /\ x # e /\ x \notin waiting /\ x \in Made
    BY <1>1, <2>0 DEF DedupInv, InRedis
  <2>6. \A n \in DOMAIN kept' : kept'[n] # x /\ kept'[n] \in Made /\ kept'[n] \notin waiting'
    <3>1. \A n \in 1..(K - 1) : /\ kept[n + 1] # x /\ kept[n + 1] \in Made
                                /\ kept[n + 1] \notin waiting
      BY <1>1, <2>0 DEF DedupInv, InRedis
    <3>2. QED
      BY <1>1, <1>2, <2>3, <2>5, <3>1
  <2>7. Cardinality(Made \ {x}) >= K
    <3>1. kept' \in Seq(Made \ {x})
      BY <2>3, <2>6
    <3>2. QED
      BY <1>2, <2>3, <2>4, <3>1, QueueOfOthers
  <2>8. \A d \in Event \ {x} : InRedis(d)' <=> InRedis(d)
    <3>1. \A d \in Event \ {x, e} : (\E n \in DOMAIN kept' : kept'[n] = d)
                                      <=> \E n \in DOMAIN kept : kept[n] = d
      <4> TAKE d \in Event \ {x, e}
      <4>1. ASSUME NEW n \in DOMAIN kept', kept'[n] = d
            PROVE  \E m \in DOMAIN kept : kept[m] = d
        BY <1>1, <2>0, <2>3, <4>1
      <4>2. ASSUME NEW n \in DOMAIN kept, kept[n] = d
            PROVE  \E m \in DOMAIN kept' : kept'[m] = d
        <5>1. n \in 2..K /\ n - 1 \in 1..(K - 1) /\ (n - 1) + 1 = n
          BY <1>1, <2>0, <4>2
        <5>2. QED
          BY <2>3, <4>2, <5>1
      <4>3. QED
        BY <4>1, <4>2
    <3>2. InRedis(e)' /\ InRedis(e)
      BY <1>1, <2>3 DEF InRedis
    <3>3. QED
      BY <1>1, <3>1, <3>2 DEF InRedis
  <2>9. \A d \in Event : InRedis(d)' => d \in Made'
    BY <1>2, <2>5, <2>8 DEF DedupInv
  <2>10. \A d \in Made' : ~InRedis(d)' \/ created'[d] > 1 => Cardinality(Made' \ {d}) >= K
    BY <1>1, <1>2, <2>7, <2>8 DEF DedupInv
  <2>11. QED
    BY <1>1, <2>3, <2>4, <2>6, <2>9, <2>10 DEF DedupInv
<1>5. QED
  BY <1>3, <1>4

LEMMA DedupStep ==
  ASSUME IsFiniteSet(Event), TypeOK, DedupInv, [Next]_vars
  PROVE  DedupInv'
<1> USE DEF emitVars, tickVars, queueVars
<1>1. ASSUME UNCHANGED queueVars PROVE DedupInv'
  BY <1>1 DEF DedupInv, Made, InRedis
<1>2. ASSUME NEW i \in Instance, AddBulk(batch[i]) PROVE DedupInv'
  BY <1>2, AddBulkDedup DEF TypeOK
<1>3. ASSUME NEW e \in Event, Complete(e) PROVE DedupInv'
  BY <1>3, CompleteDedup
<1>4. QED
  BY <1>1, <1>2, <1>3 DEF Next, vars, Begin, Emit, Commit, Abort, Fetch, Publish, Mark, CommitTick,
     TickFails, Crash, EndOrphan, MaybeForwarded

(* A second job for an event comes after KeepCompleted others: the jobId   *)
(* of addBulk deduplicates for as long as removeOnComplete keeps the jobs. *)
THEOREM SecondJobComesLate ==
  ASSUME IsFiniteSet(Event)
  PROVE  Spec => []DedupedWhileKept
<1>1. Init => DedupInv
  BY OutboxAssumption DEF Init, DedupInv, Made, InRedis
<1>2. TypeOK /\ DedupInv => DedupedWhileKept
  <2> SUFFICES ASSUME TypeOK, DedupInv, NEW e \in Event, created[e] > 1
               PROVE  Cardinality({d \in Event \ {e} : created[d] > 0}) >= KeepCompleted
    BY DEF DedupedWhileKept
  <2>1. Made \ {e} = {d \in Event \ {e} : created[d] > 0}
    BY DEF Made
  <2>2. CASE e \in Made
    BY <2>1, <2>2 DEF DedupInv
  <2>3. CASE e \notin Made
    BY <2>3 DEF Made, TypeOK
  <2>4. QED
    BY <2>2, <2>3
<1>3. TypeOK /\ DedupInv /\ [Next]_vars => DedupInv'
  BY DedupStep
<1>4. QED
  BY <1>1, <1>2, <1>3, TypeCorrect, PTL DEF Spec
=============================================================================
