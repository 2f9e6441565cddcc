------------------------------- MODULE LoginLockout -------------------------------
(* The lockout of one account of auth-service (handler/auth.go, Login and       *)
(* registerFailedLogin). A login reads the row, computes an argon2 hash, which  *)
(* takes long, and writes its failure or its success later and without a lock;  *)
(* every UPDATE of the lockout is best-effort. What a successful login issues   *)
(* is AuthSessions.                                                             *)
EXTENDS Integers, FiniteSets

CONSTANTS Logins,          \* login requests being served
          MaxFailedLogins, \* maxFailedLogins
          MaxGuesses,      \* wrong passwords in one behaviour
          MaxMishaps       \* failed UPDATEs and crashes in one behaviour

ASSUME LockoutAssumption ==
    /\ IsFiniteSet(Logins) /\ MaxFailedLogins \in Nat \ {0}
    /\ {MaxGuesses, MaxMishaps} \subseteq Nat

VARIABLES fails,    \* users.failed_login_attempts
          lock,     \* users.locked_until: "none", "live" or "over"
          login,    \* what each request is doing
          guesses,  \* history: wrong passwords tried since the counter was reset
          tried,    \* wrong passwords in the whole behaviour
          mishaps

lockoutVars == <<fails, lock, login, guesses, tried, mishaps>>
NotInside == [step |-> "none"]

LockoutInit == /\ fails = 0 /\ lock = "none"
               /\ login = [r \in Logins |-> NotInside]
               /\ guesses = 0 /\ tried = 0 /\ mishaps = 0

Mishap == mishaps < MaxMishaps /\ mishaps' = mishaps + 1
Leave(r) == login' = [login EXCEPT ![r] = NotInside]

(* A live lock refuses before the password is looked at, an expired one is      *)
(* cleared first.                                                               *)
BeginLogin(r, right) ==
    /\ login[r] = NotInside /\ lock # "live"
    /\ login' = [login EXCEPT ![r] =
          [step |-> IF lock = "over" THEN "clear" ELSE "verify", right |-> right,
           fails |-> IF lock = "over" THEN 0 ELSE fails]]
    /\ UNCHANGED <<fails, lock, guesses, tried, mishaps>>

ResetCounter == \/ fails' = 0 /\ lock' = "none" /\ guesses' = 0 /\ UNCHANGED mishaps
                \/ Mishap /\ UNCHANGED <<fails, lock, guesses>>
ClearExpiredLock(r) ==
    /\ login[r].step = "clear"
    /\ ResetCounter
    /\ login' = [login EXCEPT ![r].step = "verify"]
    /\ UNCHANGED tried

(* The wrong password: the UPDATE itself increments the counter, and a second   *)
(* one locks the account.                                                       *)
Tries(r) == /\ login[r].step = "verify" /\ ~login[r].right /\ tried < MaxGuesses
            /\ tried' = tried + 1 /\ guesses' = guesses + 1
CountFailure(r, n) ==
    /\ fails' = n
    /\ login' = [login EXCEPT ![r] = IF n >= MaxFailedLogins THEN [step |-> "lock"]
                                                             ELSE NotInside]
    /\ UNCHANGED <<lock, mishaps>>
\* Mutant: the counter is written from the value read before the password was checked.
RegisterFailureFromRead(r) == Tries(r) /\ CountFailure(r, login[r].fails + 1)
RegisterFailedLogin(r) ==
    /\ Tries(r)
    /\ \/ CountFailure(r, fails + 1)
       \/ Mishap /\ Leave(r) /\ UNCHANGED <<fails, lock>>
LockAccount(r) ==
    /\ login[r].step = "lock"
    /\ \/ lock' = "live" /\ UNCHANGED mishaps
       \/ Mishap /\ UNCHANGED lock
    /\ Leave(r)
    /\ UNCHANGED <<fails, guesses, tried>>

(* The right one: the counter goes back to zero if the row showed failures. *)
PasswordIsRight(r) ==
    /\ login[r].step = "verify" /\ login[r].right
    /\ IF login[r].fails > 0 THEN ResetCounter ELSE UNCHANGED <<fails, lock, guesses, mishaps>>
    /\ Leave(r)
    /\ UNCHANGED tried

LockExpires == /\ lock = "live" /\ lock' = "over"
               /\ UNCHANGED <<fails, login, guesses, tried, mishaps>>
LoginDies(r) == /\ login[r] # NotInside
                /\ Mishap /\ Leave(r)
                /\ UNCHANGED <<fails, lock, guesses, tried>>

LockoutNext ==
    \/ \E r \in Logins : \/ \E right \in BOOLEAN : BeginLogin(r, right)
                         \/ ClearExpiredLock(r) \/ RegisterFailedLogin(r) \/ LockAccount(r)
                         \/ PasswordIsRight(r) \/ LoginDies(r)
    \/ LockExpires

LockoutSpec == LockoutInit /\ [][LockoutNext]_lockoutVars
-----------------------------------------------------------------------------
(* Every variable holds a value of its kind. *)
LockoutTypeOK ==
    /\ fails \in Nat /\ lock \in {"none", "live", "over"}
    /\ \A r \in Logins : login[r].step \in {"none", "clear", "verify", "lock"}
    /\ guesses \in 0..tried /\ tried \in 0..MaxGuesses /\ mishaps \in 0..MaxMishaps

(* Parallel guessing buys one guess per request already past the check of the   *)
(* lock and no more: since its counter was last reset, an account has never     *)
(* been tried with more wrong passwords than the limit, the requests in flight  *)
(* and the mishaps add up to.                                                   *)
GuessingIsBounded == guesses < MaxFailedLogins + Cardinality(Logins) + mishaps
=============================================================================
