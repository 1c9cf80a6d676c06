------------------------- MODULE IdempotencyProofs -------------------------
(***************************************************************************)
(* Idempotency for any number of attempts and faults: type correctness,    *)
(* one effect per key and TTL, no overlapping handlers, real replays, and  *)
(* no claim that a live attempt leaves behind.                             *)
(***************************************************************************)
EXTENDS Idempotency, FiniteSetTheorems, TLAPS

(* Attempts that may still add an effect or delete the key.                *)
Busy == {a \in Attempt : pc[a] \in {"running", "releasing"}}

Taken == IF entry = Free THEN 0 ELSE 1

(* Each effect and each busy attempt is paid for: by the key being taken,  *)
(* by a TTL that ran out or by a fault.                                    *)
Paid ==
  /\ IsFiniteSet(effects)
  /\ IsFiniteSet(Busy)
  /\ Cardinality(effects) + Cardinality(Busy) <= Taken + expiries + faults

(* Only committed attempts store their response.                           *)
Stored ==
  /\ ReplayIsReal
  /\ \A a \in Attempt : pc[a] = "finishing" => a \in effects

IInv == TypeOK /\ Paid /\ Stored /\ ClaimHasOwner

-----------------------------------------------------------------------------
(* The three kinds of entry differ.                                        *)
LEMMA EntryKinds ==
  /\ Free # Pending
  /\ \A a \in Attempt : Response(a) # Free /\ Response(a) # Pending
BY DEF Free, Pending, Response

(* The initial state is typed.                                             *)
LEMMA TypeInit == Init => TypeOK
BY IdempotencyAssumption DEF Init, TypeOK, Entry, Phase

(* Every step keeps the types.                                             *)
LEMMA TypeStep == TypeOK /\ [Next]_vars => TypeOK'
<1> SUFFICES ASSUME TypeOK, [Next]_vars PROVE TypeOK'
  OBVIOUS
<1> USE DEF TypeOK, Phase, Goto, claim
<1>1. ASSUME NEW a \in Attempt, Intercept(a) PROVE TypeOK'
  <2>1. entry.kind = "response" => entry.of \in Attempt
    BY DEF Entry, Free, Pending, Response
  <2>2. QED
    BY <1>1, <2>1 DEF Intercept, GetAbsent, GetResponse, GetPending, Begin,
                      BeginConflict, StoreError, Entry
<1>2. ASSUME NEW a \in Attempt, Handle(a) PROVE TypeOK'
  BY <1>2 DEF Handle, Succeed, Fail, FailCommitted, Finish, Release, VoidError,
              Entry
<1>3. ASSUME NEW a \in Attempt, Resend(a) PROVE TypeOK'
  BY <1>3 DEF Resend, Entry
<1>4. ASSUME NEW a \in Attempt, Crash(a) PROVE TypeOK'
  BY <1>4 DEF Crash
<1>5. CASE Expire
  BY <1>5 DEF Expire, Entry
<1>6. CASE UNCHANGED vars
  BY <1>6 DEF vars
<1>7. QED
  BY <1>1, <1>2, <1>3, <1>4, <1>5, <1>6 DEF Next

-----------------------------------------------------------------------------
(* An attempt joins a finite set: the set grows by one at most.            *)
LEMMA OneMore ==
  ASSUME NEW S, IsFiniteSet(S), NEW T, NEW a, T \subseteq S \cup {a}
  PROVE  IsFiniteSet(T) /\ Cardinality(T) <= Cardinality(S) + 1
<1>1. IsFiniteSet(S \cup {a}) /\ Cardinality(S \cup {a}) \in Nat
  BY FS_AddElement, FS_CardinalityType
<1>2. Cardinality(S \cup {a}) <= Cardinality(S) + 1
  <2>1. Cardinality(S) \in Nat
    BY FS_CardinalityType
  <2>2. CASE a \in S
    <3>1. Cardinality(S \cup {a}) = Cardinality(S)
      BY <2>2, FS_AddElement
    <3>2. QED
      BY <2>1, <3>1
  <2>3. CASE a \notin S
    <3>1. Cardinality(S \cup {a}) = Cardinality(S) + 1
      BY <2>3, FS_AddElement
    <3>2. QED
      BY <2>1, <3>1
  <2>4. QED
    BY <2>2, <2>3
<1>3. IsFiniteSet(T) /\ Cardinality(T) <= Cardinality(S \cup {a})
  BY <1>1, FS_Subset
<1>4. QED
  BY <1>1, <1>2, <1>3, FS_CardinalityType

(* An attempt leaves a finite set: the set shrinks by one.                 *)
LEMMA OneLess ==
  ASSUME NEW S, IsFiniteSet(S), NEW T, NEW a \in S, T \subseteq S \ {a}
  PROVE  IsFiniteSet(T) /\ Cardinality(T) <= Cardinality(S) - 1
<1>1. IsFiniteSet(S \ {a}) /\ Cardinality(S \ {a}) = Cardinality(S) - 1
  BY FS_RemoveElement
<1>2. QED
  BY <1>1, FS_Subset

(* The cardinalities of the invariant are numbers.                         *)
LEMMA PaidNumbers ==
  ASSUME TypeOK, Paid
  PROVE  /\ Cardinality(effects) \in Nat
         /\ Cardinality(Busy) \in Nat
         /\ expiries \in Nat
         /\ faults \in Nat
         /\ Taken \in {0, 1}
BY FS_CardinalityType DEF TypeOK, Paid, Taken

-----------------------------------------------------------------------------
(* A step that makes no attempt busy, adds no effect and does not free the *)
(* key costs nothing.                                                      *)
LEMMA PaidQuiet ==
  ASSUME TypeOK, Paid, TypeOK',
         Busy' \subseteq Busy, effects' = effects,
         expiries' = expiries, faults' = faults,
         entry # Free => entry' # Free
  PROVE  Paid'
<1>1. IsFiniteSet(Busy') /\ Cardinality(Busy') <= Cardinality(Busy)
  BY FS_Subset DEF Paid
<1>2. Taken <= Taken' /\ Taken' \in {0, 1}
  BY DEF Taken
<1>3. Cardinality(Busy') \in Nat
  BY <1>1, FS_CardinalityType
<1>4. QED
  BY <1>1, <1>2, <1>3, PaidNumbers DEF Paid

(* A step that pays for what it does: a TTL or a fault covers a freed key  *)
(* or one more effect.                                                     *)
LEMMA PaidByStep ==
  ASSUME TypeOK, Paid, TypeOK', Busy' = Busy,
         expiries' + faults' = expiries + faults + 1,
         \/ effects' = effects
         \/ entry' = entry /\ \E a \in Attempt : effects' = effects \cup {a}
  PROVE  Paid'
<1> USE PaidNumbers
<1>1. Taken' \in {0, 1} /\ expiries' \in Nat /\ faults' \in Nat
  BY DEF Taken, TypeOK
<1>2. CASE effects' = effects
  BY <1>1, <1>2 DEF Paid
<1>3. CASE entry' = entry /\ \E a \in Attempt : effects' = effects \cup {a}
  <2>1. IsFiniteSet(effects') /\ Cardinality(effects') <= Cardinality(effects) + 1
    BY <1>3, OneMore DEF Paid
  <2>2. Taken' = Taken /\ Cardinality(effects') \in Nat
    BY <1>3, <2>1, FS_CardinalityType DEF Taken
  <2>3. QED
    BY <1>1, <2>1, <2>2 DEF Paid
<1>4. QED
  BY <1>2, <1>3

(* An attempt that stops being busy pays for its effect or for the freed   *)
(* key.                                                                    *)
LEMMA PaidByLeaving ==
  ASSUME TypeOK, Paid, TypeOK',
         NEW a \in Busy, Busy' \subseteq Busy \ {a},
         expiries' = expiries, faults' = faults,
         \/ effects' = effects
         \/ entry' = entry /\ effects' = effects \cup {a}
  PROVE  Paid'
<1> USE PaidNumbers
<1>1. IsFiniteSet(Busy') /\ Cardinality(Busy') <= Cardinality(Busy) - 1
  BY OneLess DEF Paid
<1>2. Cardinality(Busy') \in Nat /\ Taken' \in {0, 1}
  BY <1>1, FS_CardinalityType DEF Taken
<1>3. CASE effects' = effects
  BY <1>1, <1>2, <1>3 DEF Paid
<1>4. CASE entry' = entry /\ effects' = effects \cup {a}
  <2>1. IsFiniteSet(effects') /\ Cardinality(effects') <= Cardinality(effects) + 1
    BY <1>4, OneMore DEF Paid
  <2>2. Taken' = Taken /\ Cardinality(effects') \in Nat
    BY <1>4, <2>1, FS_CardinalityType DEF Taken
  <2>3. QED
    BY <1>1, <1>2, <2>1, <2>2 DEF Paid
<1>5. QED
  BY <1>3, <1>4

-----------------------------------------------------------------------------
(* Nothing is busy or committed at first.                                  *)
LEMMA IInvInit == Init => IInv
<1> SUFFICES ASSUME Init PROVE IInv
  OBVIOUS
<1>1. TypeOK
  BY TypeInit
<1>2. Busy = {} /\ effects = {}
  BY DEF Init, Busy
<1>3. Paid
  BY <1>2, FS_EmptySet DEF Init, Paid, Taken
<1>4. Stored
  BY DEF Init, Stored, ReplayIsReal, Free
<1>5. ClaimHasOwner
  BY DEF Init, ClaimHasOwner, Free, Pending
<1>6. QED
  BY <1>1, <1>3, <1>4, <1>5 DEF IInv

(* Looking up and claiming: a claim makes one attempt busy and takes the   *)
(* free key.                                                               *)
LEMMA PaidIntercept ==
  ASSUME TypeOK, Paid, TypeOK', NEW a \in Attempt, Intercept(a)
  PROVE  Paid'
<1>1. CASE Begin(a)
  <2>1. Busy' \subseteq Busy \cup {a}
    BY <1>1 DEF Begin, Goto, Busy, TypeOK
  <2>2. IsFiniteSet(Busy') /\ Cardinality(Busy') <= Cardinality(Busy) + 1
    BY <2>1, OneMore DEF Paid
  <2>3. Taken = 0 /\ Taken' = 1
    BY <1>1, EntryKinds DEF Begin, Taken
  <2>4. Cardinality(Busy') \in Nat
    BY <2>2, FS_CardinalityType
  <2>5. effects' = effects /\ expiries' = expiries /\ faults' = faults
    BY <1>1 DEF Begin
  <2>6. QED
    BY <2>2, <2>3, <2>4, <2>5, PaidNumbers DEF Paid
<1>2. CASE GetAbsent(a) \/ GetResponse(a) \/ GetPending(a) \/ BeginConflict(a)
             \/ StoreError(a)
  <2>1. Busy' \subseteq Busy
    BY <1>2 DEF GetAbsent, GetResponse, GetPending, BeginConflict, StoreError,
                Goto, Busy, TypeOK
  <2>2. UNCHANGED <<entry, effects, expiries, faults>>
    BY <1>2 DEF GetAbsent, GetResponse, GetPending, BeginConflict, StoreError
  <2>3. QED
    BY <2>1, <2>2, PaidQuiet
<1>3. QED
  BY <1>1, <1>2 DEF Intercept

(* The handler and its outcome: an attempt's busy time pays for its effect *)
(* or its release.                                                         *)
LEMMA PaidHandle ==
  ASSUME TypeOK, Paid, TypeOK', NEW a \in Attempt, Handle(a)
  PROVE  Paid'
<1>1. CASE Succeed(a)
  <2>1. a \in Busy /\ Busy' \subseteq Busy \ {a}
    BY <1>1 DEF Succeed, Goto, Busy, TypeOK
  <2>2. QED
    BY <1>1, <2>1, PaidByLeaving DEF Succeed
<1>2. CASE Fail(a)
  <2>1. Busy' \subseteq Busy
    BY <1>2 DEF Fail, Goto, Busy, TypeOK
  <2>2. QED
    BY <1>2, <2>1, PaidQuiet DEF Fail
<1>3. CASE FailCommitted(a)
  <2>1. Busy' = Busy
    BY <1>3 DEF FailCommitted, Goto, Busy, TypeOK
  <2>2. expiries' + faults' = expiries + faults + 1
    BY <1>3 DEF FailCommitted, TypeOK
  <2>3. entry' = entry /\ effects' = effects \cup {a}
    BY <1>3 DEF FailCommitted
  <2>4. QED
    BY <2>1, <2>2, <2>3, PaidByStep
<1>4. CASE Finish(a)
  <2>1. Busy' \subseteq Busy
    BY <1>4 DEF Finish, Goto, Busy, TypeOK
  <2>2. QED
    BY <1>4, <2>1, PaidQuiet, EntryKinds DEF Finish
<1>5. CASE Release(a)
  <2>1. a \in Busy /\ Busy' \subseteq Busy \ {a}
    BY <1>5 DEF Release, Goto, Busy, TypeOK
  <2>2. QED
    BY <1>5, <2>1, PaidByLeaving DEF Release
<1>6. CASE VoidError(a)
  <2>1. Busy' \subseteq Busy
    BY <1>6 DEF VoidError, Goto, Busy, TypeOK
  <2>2. QED
    BY <1>6, <2>1, PaidQuiet DEF VoidError
<1>7. QED
  BY <1>1, <1>2, <1>3, <1>4, <1>5, <1>6 DEF Handle

(* A command sent twice, a death or a TTL is paid for.                     *)
LEMMA PaidEnvironment ==
  ASSUME TypeOK, Paid, TypeOK',
         Expire \/ \E a \in Attempt : Resend(a) \/ Crash(a)
  PROVE  Paid'
<1>1. CASE Expire
  <2>1. Busy' = Busy
    BY <1>1 DEF Expire, Busy
  <2>2. expiries' + faults' = expiries + faults + 1
    BY <1>1 DEF Expire, TypeOK
  <2>3. QED
    BY <1>1, <2>1, <2>2, PaidByStep DEF Expire
<1>2. ASSUME NEW a \in Attempt, Resend(a) PROVE Paid'
  <2>1. Busy' = Busy
    BY <1>2 DEF Resend, Busy
  <2>2. expiries' + faults' = expiries + faults + 1
    BY <1>2 DEF Resend, TypeOK
  <2>3. QED
    BY <1>2, <2>1, <2>2, PaidByStep DEF Resend
<1>3. ASSUME NEW a \in Attempt, Crash(a) PROVE Paid'
  <2>1. Busy' \subseteq Busy \ {a}
    BY <1>3 DEF Crash, Busy, TypeOK
  <2>2. UNCHANGED <<entry, expiries, faults>>
    BY <1>3 DEF Crash
  <2>3. CASE effects' = effects
    BY <2>1, <2>2, <2>3, PaidQuiet
  <2>4. CASE pc[a] = "running" /\ effects' = effects \cup {a}
    <3>1. a \in Busy
      BY <2>4 DEF Busy
    <3>2. QED
      BY <2>1, <2>2, <2>4, <3>1, PaidByLeaving
  <2>5. QED
    BY <1>3, <2>3, <2>4 DEF Crash
<1>4. QED
  BY <1>1, <1>2, <1>3

(* Responses come from committed attempts at every step.                   *)
LEMMA StoredStep == TypeOK /\ Stored /\ [Next]_vars => Stored'
<1> SUFFICES ASSUME TypeOK, Stored, [Next]_vars PROVE Stored'
  OBVIOUS
<1> USE DEF Stored, ReplayIsReal, TypeOK, Goto, Free, Pending, Response
<1>1. ASSUME NEW a \in Attempt, Intercept(a) PROVE Stored'
  BY <1>1 DEF Intercept, GetAbsent, GetResponse, GetPending, Begin,
              BeginConflict, StoreError
<1>2. ASSUME NEW a \in Attempt, Handle(a) PROVE Stored'
  BY <1>2 DEF Handle, Succeed, Fail, FailCommitted, Finish, Release, VoidError
<1>3. ASSUME NEW a \in Attempt, Resend(a) PROVE Stored'
  BY <1>3 DEF Resend
<1>4. ASSUME NEW a \in Attempt, Crash(a) PROVE Stored'
  BY <1>4 DEF Crash
<1>5. CASE Expire
  BY <1>5 DEF Expire
<1>6. CASE UNCHANGED vars
  BY <1>6 DEF vars
<1>7. QED
  BY <1>1, <1>2, <1>3, <1>4, <1>5, <1>6 DEF Next

(* The claimant of a pending key stays in progress until it ends the claim *)
(* or is cut off from it.                                                  *)
LEMMA ClaimStep == TypeOK /\ ClaimHasOwner /\ [Next]_vars => ClaimHasOwner'
<1> SUFFICES ASSUME TypeOK, ClaimHasOwner, [Next]_vars PROVE ClaimHasOwner'
  OBVIOUS
<1> USE IdempotencyAssumption, EntryKinds
        DEF ClaimHasOwner, TypeOK, Goto, InProgress, claim
<1>1. ASSUME NEW a \in Attempt, Intercept(a) PROVE ClaimHasOwner'
  BY <1>1 DEF Intercept, GetAbsent, GetResponse, GetPending, Begin,
              BeginConflict, StoreError
<1>2. ASSUME NEW a \in Attempt, Handle(a) PROVE ClaimHasOwner'
  BY <1>2 DEF Handle, Succeed, Fail, FailCommitted, Finish, Release, VoidError
<1>3. ASSUME NEW a \in Attempt, Resend(a) PROVE ClaimHasOwner'
  BY <1>3 DEF Resend
<1>4. ASSUME NEW a \in Attempt, Crash(a) PROVE ClaimHasOwner'
  BY <1>4 DEF Crash
<1>5. CASE Expire
  BY <1>5 DEF Expire
<1>6. CASE UNCHANGED vars
  BY <1>6 DEF vars
<1>7. QED
  BY <1>1, <1>2, <1>3, <1>4, <1>5, <1>6 DEF Next

(* The strengthened invariant is inductive.                                *)
LEMMA IInvStep == IInv /\ [Next]_vars => IInv'
<1> SUFFICES ASSUME IInv, [Next]_vars PROVE IInv'
  OBVIOUS
<1>1. TypeOK'
  BY TypeStep DEF IInv
<1>2. Stored'
  BY StoredStep DEF IInv
<1>3. ClaimHasOwner'
  BY ClaimStep DEF IInv
<1>4. CASE UNCHANGED vars
  <2>1. Busy' = Busy
    BY <1>4 DEF vars, Busy
  <2>2. QED
    BY <1>1, <1>2, <1>3, <1>4, <2>1, PaidQuiet DEF vars, IInv
<1>5. CASE Next
  BY <1>1, <1>2, <1>3, <1>5, PaidIntercept, PaidHandle, PaidEnvironment DEF Next, IInv
<1>6. QED
  BY <1>4, <1>5

(* The invariant gives the two bounds.                                     *)
LEMMA IInvBounds == IInv => ExecutedOnce /\ NoOverlap
<1> SUFFICES ASSUME IInv PROVE ExecutedOnce /\ NoOverlap
  OBVIOUS
<1> USE PaidNumbers DEF IInv
<1>1. Running \subseteq Busy
  BY DEF Running, Busy
<1>2. Cardinality(Running) \in Nat /\ Cardinality(Running) <= Cardinality(Busy)
  BY <1>1, FS_Subset, FS_CardinalityType DEF Paid
<1>3. QED
  BY <1>2 DEF Paid, ExecutedOnce, NoOverlap

-----------------------------------------------------------------------------
(* Type correctness of the interceptor's model.                            *)
THEOREM TypeCorrect == Spec => []TypeOK
BY TypeInit, TypeStep, PTL DEF Spec

(* However many attempts share a key, each effect after the first takes an *)
(* expired key or a fault.                                                 *)
THEOREM OneEffect == Spec => []ExecutedOnce
BY IInvInit, IInvStep, IInvBounds, PTL DEF Spec

(* However many attempts share a key, overlapping handlers take expired    *)
(* keys or faults.                                                         *)
THEOREM HandlersExclusive == Spec => []NoOverlap
BY IInvInit, IInvStep, IInvBounds, PTL DEF Spec

(* Every replay is the response of an attempt that committed.              *)
THEOREM RealReplays == Spec => []ReplayIsReal
<1>1. IInv => ReplayIsReal
  BY DEF IInv, Stored
<1>2. QED
  BY <1>1, IInvInit, IInvStep, PTL DEF Spec

(* While a key is claimed its claimant is in progress, unless it was cut   *)
(* off: no attempt that ends as it should leaves the key claimed.          *)
THEOREM ClaimsHaveOwners == Spec => []ClaimHasOwner
<1>1. IInv => ClaimHasOwner
  BY DEF IInv
<1>2. QED
  BY <1>1, IInvInit, IInvStep, PTL DEF Spec
=============================================================================
