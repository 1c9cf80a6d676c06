---------------------------- MODULE ReadCommitted ----------------------------
(***************************************************************************)
(* The database as the use cases see it: DatabaseService.runScoped wraps   *)
(* each of them in one PostgreSQL transaction at the default isolation     *)
(* level, READ COMMITTED.  A statement sees what was committed when it     *)
(* starts and its own transaction's writes; a write holds its row until    *)
(* the transaction ends; a second writer of the row waits and then works   *)
(* on the version the first one left.  A row that can be inserted is there *)
(* from the start with an "absent" value, under the identity its unique    *)
(* index gives it, so that inserting the same key twice also waits.        *)
(***************************************************************************)
CONSTANTS
  Row,              \* rows, present or not, of all the tables of a component
  Tx,               \* transactions: one per request being served
  NoTx              \* holder of a row nobody has written

VARIABLES
  db,               \* the committed version of each row
  holder,           \* the transaction with an uncommitted write of the row
  dirty             \* that write (the committed version when there is none)

dbVars == <<db, holder, dirty>>

InitDb(rows) ==
  /\ db = rows
  /\ holder = [r \in Row |-> NoTx]
  /\ dirty = rows

(* What a statement of t reads.                                            *)
View(t) == [r \in Row |-> IF holder[r] = t THEN dirty[r] ELSE db[r]]

(* No other transaction makes t wait for a row of S.                       *)
Unlocked(t, S) == \A r \in S : holder[r] \in {t, NoTx}

(* t writes new[r] to every row r of new's domain.                         *)
Write(t, new) ==
  /\ Unlocked(t, DOMAIN new)
  /\ holder' = [r \in Row |-> IF r \in DOMAIN new THEN t ELSE holder[r]]
  /\ dirty' = [r \in Row |-> IF r \in DOMAIN new THEN new[r] ELSE dirty[r]]
  /\ UNCHANGED db

Release(t) == holder' = [r \in Row |-> IF holder[r] = t THEN NoTx ELSE holder[r]]

(* The use case returned: all its writes become visible at once.           *)
CommitTx(t) ==
  /\ db' = View(t)
  /\ Release(t)
  /\ UNCHANGED dirty

(* Mutant: locks are released and the writes of the transaction stay.      *)
RollbackKeepsWrites(t) ==
  /\ Release(t)
  /\ UNCHANGED <<db, dirty>>

(* The use case threw, or its connection was lost: no write of it remains. *)
RollbackTx(t) ==
  /\ dirty' = [r \in Row |-> IF holder[r] = t THEN db[r] ELSE dirty[r]]
  /\ Release(t)
  /\ UNCHANGED db
=============================================================================
