---------------------------- MODULE Idempotency ----------------------------
(***************************************************************************)
(* IdempotencyInterceptor (src/backend/src/common/idempotency): the writes *)
(* a client sends with one Idempotency-Key, over the Redis store that all  *)
(* API instances share.                                                    *)
(*                                                                         *)
(* An attempt is one HTTP request of the same scope, method, path and key: *)
(* a staff user is a scope, and all other callers share one, `anon`.  Each *)
(* looks the key up, claims it with SET NX EX 60, runs its handler, and    *)
(* then stores its response for a day or, if the handler failed, deletes   *)
(* the key; both are fire-and-forget (`void`), and neither asks whether    *)
(* the claim in Redis is still its own.  The connection                    *)
(* (maxRetriesPerRequest: null) sends a command again when a reply is lost.*)
(***************************************************************************)
EXTENDS Naturals, FiniteSets

CONSTANTS
  Attempt,          \* requests that carry the key
  None,             \* no attempt
  MaxFaults         \* bound: lost replies and commits of unknown outcome

ASSUME IdempotencyAssumption ==
  /\ None \notin Attempt
  /\ MaxFaults \in Nat

VARIABLES
  entry,            \* the key in Redis; `of` is whose response it stores
  pc,               \* next step of each attempt
  replayed,         \* whose stored response an attempt was answered with
  effects,          \* attempts whose handler's transaction committed
  claimant,         \* history: who made the last claim
  cut,              \* history: attempts cut off from their claim: they
                    \*   never learned of it, or died or lost the command
                    \*   that ends it
  expiries,         \* history: times the key's TTL ran out
  faults            \* lost replies and commits of unknown outcome so far

claim == <<claimant, cut>>
vars == <<entry, pc, replayed, effects, claim, expiries, faults>>

Phase == {"new", "begin", "running", "finishing", "releasing", "done"}

(* An attempt that has claimed the key and not given it up.                *)
InProgress == {"running", "finishing", "releasing"}

Free        == [kind |-> "none", of |-> None]
Pending     == [kind |-> "pending", of |-> None]
Response(a) == [kind |-> "response", of |-> a]

Entry == {Free, Pending} \cup {Response(a) : a \in Attempt}

Init ==
  /\ entry = Free
  /\ pc = [a \in Attempt |-> "new"]
  /\ replayed = [a \in Attempt |-> None]
  /\ effects = {}
  /\ claimant = None
  /\ cut = {}
  /\ expiries = 0
  /\ faults = 0

Goto(a, from, to) ==
  /\ pc[a] = from
  /\ pc' = [pc EXCEPT ![a] = to]

-----------------------------------------------------------------------------
(* intercept: the key is looked up.                                        *)

(* store.get found nothing: the claim is next.                             *)
GetAbsent(a) ==
  /\ Goto(a, "new", "begin")
  /\ entry = Free
  /\ UNCHANGED <<entry, replayed, effects, claim, expiries, faults>>

(* store.get found a response: it is the answer.                           *)
GetResponse(a) ==
  /\ Goto(a, "new", "done")
  /\ entry.kind = "response"
  /\ replayed' = [replayed EXCEPT ![a] = entry.of]
  /\ UNCHANGED <<entry, effects, claim, expiries, faults>>

(* store.get found a claim: 409.                                           *)
GetPending(a) ==
  /\ Goto(a, "new", "done")
  /\ entry = Pending
  /\ UNCHANGED <<entry, replayed, effects, claim, expiries, faults>>

(* Mutant: SET without NX.                                                 *)
BeginOverwrites(a) ==
  /\ Goto(a, "begin", "running")
  /\ entry' = Pending
  /\ claimant' = a
  /\ cut' = cut \ {a}
  /\ UNCHANGED <<replayed, effects, expiries, faults>>

(* store.begin claimed the key: the handler runs.                          *)
Begin(a) ==
  /\ Goto(a, "begin", "running")
  /\ entry = Free
  /\ entry' = Pending
  /\ claimant' = a
  /\ cut' = cut \ {a}
  /\ UNCHANGED <<replayed, effects, expiries, faults>>

(* store.begin found the key taken, by a response as much as by a claim:   *)
(* 409.                                                                    *)
BeginConflict(a) ==
  /\ Goto(a, "begin", "done")
  /\ entry # Free
  /\ UNCHANGED <<entry, replayed, effects, claim, expiries, faults>>

(* Redis answers GET or SET with an error: the request ends with a 500.    *)
StoreError(a) ==
  /\ Goto(a, "new", "done") \/ Goto(a, "begin", "done")
  /\ UNCHANGED <<entry, replayed, effects, claim, expiries, faults>>

-----------------------------------------------------------------------------
(* The handler and its outcome.                                            *)

(* The handler's transaction commits; its 2xx response goes out while      *)
(* store.finish is on its way.                                             *)
Succeed(a) ==
  /\ Goto(a, "running", "finishing")
  /\ effects' = effects \cup {a}
  /\ UNCHANGED <<entry, replayed, claim, expiries, faults>>

(* Mutant: the status of the response is not looked at.                    *)
FailStores(a) ==
  /\ Goto(a, "running", "finishing")
  /\ UNCHANGED <<entry, replayed, effects, claim, expiries, faults>>

(* Mutant: the key of a failed handler is not released.                    *)
FailKeepsClaim(a) ==
  /\ Goto(a, "running", "done")
  /\ UNCHANGED <<entry, replayed, effects, claim, expiries, faults>>

(* The handler throws or answers with another status.                      *)
Fail(a) ==
  /\ Goto(a, "running", "releasing")
  /\ UNCHANGED <<entry, replayed, effects, claim, expiries, faults>>

(* The connection breaks during COMMIT: the handler throws, and PostgreSQL *)
(* has committed.                                                          *)
FailCommitted(a) ==
  /\ faults < MaxFaults
  /\ Goto(a, "running", "releasing")
  /\ effects' = effects \cup {a}
  /\ faults' = faults + 1
  /\ UNCHANGED <<entry, replayed, claim, expiries>>

(* Mutant: the stored response has lost its body.                          *)
FinishEmpty(a) ==
  /\ Goto(a, "finishing", "done")
  /\ entry' = [kind |-> "response", of |-> None]
  /\ UNCHANGED <<replayed, effects, claim, expiries, faults>>

(* store.finish: SET EX, whatever the key holds by now.                    *)
Finish(a) ==
  /\ Goto(a, "finishing", "done")
  /\ entry' = Response(a)
  /\ UNCHANGED <<replayed, effects, claim, expiries, faults>>

(* store.release: DEL, whatever the key holds by now.                      *)
Release(a) ==
  /\ Goto(a, "releasing", "done")
  /\ entry' = Free
  /\ UNCHANGED <<replayed, effects, claim, expiries, faults>>

(* finish or release fails: nobody awaits it.                              *)
VoidError(a) ==
  /\ Goto(a, "finishing", "done") \/ Goto(a, "releasing", "done")
  /\ cut' = cut \cup {a}
  /\ UNCHANGED <<entry, replayed, effects, claimant, expiries, faults>>

-----------------------------------------------------------------------------
(* The environment.                                                        *)

(* Redis executes a command and the reply is lost: ioredis sends the       *)
(* command again, so the attempt stays where it is.                        *)
Resend(a) ==
  /\ faults < MaxFaults
  /\ faults' = faults + 1
  /\ \/ /\ pc[a] = "begin" /\ entry = Free /\ entry' = Pending
        /\ claimant' = a /\ cut' = cut \cup {a}
     \/ pc[a] = "finishing" /\ entry' = Response(a) /\ UNCHANGED claim
     \/ pc[a] = "releasing" /\ entry' = Free /\ UNCHANGED claim
  /\ UNCHANGED <<pc, replayed, effects, expiries>>

(* The instance dies; a COMMIT on the wire may still succeed.              *)
Crash(a) ==
  /\ pc[a] \notin {"new", "done"}
  /\ pc' = [pc EXCEPT ![a] = "done"]
  /\ \/ effects' = effects
     \/ pc[a] = "running" /\ effects' = effects \cup {a}
  /\ cut' = cut \cup {a}
  /\ UNCHANGED <<entry, replayed, claimant, expiries, faults>>

(* The key's TTL runs out: 60 seconds for a claim, which a slow handler    *)
(* may outlive, 24 hours for a response.                                   *)
Expire ==
  /\ entry # Free
  /\ entry' = Free
  /\ expiries' = expiries + 1
  /\ UNCHANGED <<pc, replayed, effects, claim, faults>>

-----------------------------------------------------------------------------
Intercept(a) ==
  \/ GetAbsent(a) \/ GetResponse(a) \/ GetPending(a)
  \/ Begin(a) \/ BeginConflict(a) \/ StoreError(a)

Handle(a) ==
  \/ Succeed(a) \/ Fail(a) \/ FailCommitted(a)
  \/ Finish(a) \/ Release(a) \/ VoidError(a)

Next ==
  \/ \E a \in Attempt : Intercept(a) \/ Handle(a) \/ Resend(a) \/ Crash(a)
  \/ Expire

Spec == Init /\ [][Next]_vars
-----------------------------------------------------------------------------
(* Types of the variables.                                                 *)
TypeOK ==
  /\ entry \in Entry
  /\ pc \in [Attempt -> Phase]
  /\ replayed \in [Attempt -> Attempt \cup {None}]
  /\ effects \in SUBSET Attempt
  /\ claimant \in Attempt \cup {None}
  /\ cut \in SUBSET Attempt
  /\ expiries \in Nat
  /\ faults \in Nat

Running == {a \in Attempt : pc[a] = "running"}

(* A repeated key takes effect once (idempotency.e2e-spec.ts:19); a second *)
(* effect takes an expired key, a lost reply or a commit of unknown        *)
(* outcome, and there is at most one for each of those.  Stray releases    *)
(* and stores of attempts whose claim had expired add none.                *)
ExecutedOnce == Cardinality(effects) <= 1 + expiries + faults

(* No two handlers run for one key at the same time, with the same         *)
(* allowance: a claim that outlives no TTL excludes every other attempt.   *)
NoOverlap == Cardinality(Running) <= 1 + expiries + faults

(* What a retry is answered with is the response of an attempt whose       *)
(* handler did commit, never that of a failed or unfinished one.           *)
ReplayIsReal ==
  /\ \A a \in Attempt : replayed[a] \in effects \cup {None}
  /\ entry.kind = "response" => entry.of \in effects

(* A claim, for which every retry is refused as "already in progress"      *)
(* (idempotency.interceptor.ts:61-63), is of an attempt in progress.  Only *)
(* one that died, whose finish or release failed, or that lost the answer  *)
(* to its SET leaves a claim behind, which then blocks the key until its   *)
(* TTL runs out; a late finish or release of an earlier claimant does not. *)
ClaimHasOwner ==
  entry = Pending =>
    claimant # None /\ (claimant \in cut \/ pc[claimant] \in InProgress)
=============================================================================
