---------------------------- MODULE SessionStore ----------------------------
(***************************************************************************)
(* What staff authentication (src/backend/src/auth) promises of an account *)
(* and its refresh tokens: every use case takes effect in one step.  When  *)
(* requests do not overlap (strict) an exchange consumes a live token, a   *)
(* session is opened with the account's password, and a reset ends every   *)
(* session; when they do overlap less is promised, and that is said here.  *)
(* Nothing is said of rows, statements and locks.                          *)
(***************************************************************************)
CONSTANTS
  Token,            \* refresh tokens
  None,             \* no token
  Password          \* what an account's password may be; 0 is none

VARIABLES
  strict,           \* whether requests are served one at a time
  password,         \* the account's, 0 before sign-up
  known,            \* the passwords it has had
  token,            \* "absent", "live" or "revoked"
  from,             \* the token each was exchanged for, None after a login
  grant             \* the password each token descends from

vars == <<strict, password, known, token, from, grant>>

Init ==
  /\ strict \in BOOLEAN
  /\ password = 0
  /\ known = {}
  /\ token = [t \in Token |-> "absent"]
  /\ from = [t \in Token |-> None]
  /\ grant = [t \in Token |-> 0]

Live == {t \in Token : token[t] = "live"}

(* Token t is issued; s, if there is one, is exchanged for it.             *)
Issue(t, p, s) ==
  /\ token[t] = "absent"
  /\ token' = [u \in Token |-> IF u = t THEN "live"
                               ELSE IF u = s THEN "revoked" ELSE token[u]]
  /\ from' = [from EXCEPT ![t] = s]
  /\ grant' = [grant EXCEPT ![t] = p]

(* Passwords are told apart by who chose them: p is a new one.             *)
SetPassword(p) ==
  /\ p \notin known \cup {0}
  /\ password' = p
  /\ known' = known \cup {p}

(* Only one sign-up of an account succeeds.                                *)
SignUp(t, p) ==
  /\ password = 0
  /\ SetPassword(p)
  /\ Issue(t, p, None)
  /\ UNCHANGED strict

(* A login that overlaps a reset still opens a session with the password   *)
(* that it verified, and its re-hash may bring that one back.              *)
Login(t, p) ==
  /\ p \in known
  /\ strict => p = password
  /\ password' \in {password, p}
  /\ Issue(t, p, None)
  /\ UNCHANGED <<strict, known>>

(* Exchanges of one token that overlap all succeed, and so does one that   *)
(* overlaps a logout or a reset.                                           *)
Exchange(s, t) ==
  /\ token[s] \in IF strict THEN {"live"} ELSE {"live", "revoked"}
  /\ Issue(t, grant[s], s)
  /\ UNCHANGED <<strict, password, known>>

Logout(s) ==
  /\ token[s] = "live"
  /\ token' = [token EXCEPT ![s] = "revoked"]
  /\ UNCHANGED <<strict, password, known, from, grant>>

(* A session opened by a request that overlaps the reset may survive it.   *)
Reset(p, R) ==
  /\ password # 0
  /\ SetPassword(p)
  /\ R \subseteq Live
  /\ strict => R = Live
  /\ token' = [t \in Token |-> IF t \in R THEN "revoked" ELSE token[t]]
  /\ UNCHANGED <<strict, from, grant>>

Next ==
  \/ \E t \in Token, p \in Password : SignUp(t, p) \/ Login(t, p)
  \/ \E s, t \in Token : Exchange(s, t)
  \/ \E s \in Token : Logout(s)
  \/ \E p \in Password, R \in SUBSET Token : Reset(p, R)

Spec == Init /\ [][Next]_vars
=============================================================================
