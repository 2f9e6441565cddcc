------------------------------- MODULE AuthSessions -------------------------------
(* The sessions of one account of auth-service (handler/auth.go, mfa.go): login *)
(* with a second factor, rotation of refresh tokens, logout, password reset.    *)
(* Every handler reads a row outside of the transaction that acts on it, so     *)
(* each is a sequence of steps of the request that runs it.                     *)
EXTENDS Integers, Sequences

CONSTANTS Requests,    \* requests being served
          MaxSessions, \* refresh tokens in one behaviour
          MaxResets,   \* reset tokens
          MaxSecrets,  \* TOTP secrets
          MaxAuthCrashes   \* crashes in one behaviour

ASSUME AuthAssumption == {MaxSessions, MaxResets, MaxSecrets, MaxAuthCrashes} \subseteq Nat

VARIABLES account,  \* the row of users
          sessions, \* refresh_tokens, in the order of their INSERTs
          resets,   \* password_reset_tokens: used or not
          serving,     \* what each request is doing
          authCrashes

authVars == <<account, sessions, resets, serving, authCrashes>>

NoWork == [step |-> "none"]
Secrets == 1..MaxSecrets

AuthInit ==
    /\ account = [pw |-> 0, mfa |-> FALSE, secret |-> 0, pending |-> 0, issued |-> 0,
                  verified |-> FALSE]
    /\ sessions = << >> /\ resets = << >>
    /\ serving = [r \in Requests |-> NoWork]
    /\ authCrashes = 0

Turn(r, next) == serving' = [serving EXCEPT ![r] = next]
Finish(r) == Turn(r, NoWork)

(* Login, for whoever LoginLockout lets through: the hash read from the row is  *)
(* verified, and the tokens are issued, or a challenge when the row had a second *)
(* factor.                                                                      *)
Login(r) ==
    /\ serving[r] = NoWork
    /\ Turn(r, [step |-> IF account.mfa THEN "challenge" ELSE "enter", pw |-> account.pw])
    /\ UNCHANGED <<account, sessions, resets, authCrashes>>

(* issueTokens inserts a session. `late` is history: what the session was given *)
(* for (a password, a challenge, an older session) had been revoked meanwhile.  *)
NewSession(pw, late) == [live |-> TRUE, pw |-> pw, late |-> late]
IssueTokens(r) ==
    /\ serving[r].step = "enter" /\ Len(sessions) < MaxSessions
    /\ sessions' = Append(sessions, NewSession(serving[r].pw, serving[r].pw # account.pw))
    /\ Finish(r)
    /\ UNCHANGED <<account, resets, authCrashes>>

(* VerifyTOTP: a challenge and the code of the active secret. A wrong code      *)
(* leaves the challenge good for another try.                                   *)
VerifyTOTP(r, code) ==
    /\ serving[r].step = "challenge"
    /\ account.mfa /\ account.secret # 0
    /\ IF code = account.secret THEN Turn(r, [step |-> "enter", pw |-> serving[r].pw])
                                ELSE UNCHANGED serving
    /\ UNCHANGED <<account, sessions, resets, authCrashes>>

\* Mutant: a revoked token is refreshed as well.
BeginRefreshRevoked(r, s) ==
    /\ serving[r] = NoWork
    /\ Turn(r, [step |-> "rotate", session |-> s, pw |-> account.pw])
    /\ UNCHANGED <<account, sessions, resets, authCrashes>>
(* Refresh reads the token outside of the transaction that revokes it and       *)
(* inserts the next one, and does not look at how many rows it revoked. (pw is  *)
(* history: the password when the refresh began.)                               *)
BeginRefresh(r, s) ==
    /\ serving[r] = NoWork
    /\ sessions[s].live
    /\ Turn(r, [step |-> "rotate", session |-> s, pw |-> account.pw])
    /\ UNCHANGED <<account, sessions, resets, authCrashes>>
Rotate(r) ==
    /\ serving[r].step = "rotate" /\ Len(sessions) < MaxSessions
    /\ LET old == sessions[serving[r].session] IN
         sessions' = Append([sessions EXCEPT ![serving[r].session].live = FALSE],
                            NewSession(old.pw, old.late \/ serving[r].pw # account.pw))
    /\ Finish(r)
    /\ UNCHANGED <<account, resets, authCrashes>>

Logout(s) ==
    /\ sessions[s].live
    /\ sessions' = [sessions EXCEPT ![s].live = FALSE]
    /\ UNCHANGED <<account, resets, serving, authCrashes>>

(* ForgotPassword writes a token; ResetPassword reads it, hashes the new        *)
(* password, then writes the password, the use of the token and the revocation  *)
(* of every session in one transaction.                                         *)
ForgotPassword ==
    /\ Len(resets) < MaxResets
    /\ resets' = Append(resets, [used |-> FALSE])
    /\ UNCHANGED <<account, sessions, serving, authCrashes>>
BeginReset(r, k) ==
    /\ serving[r] = NoWork
    /\ ~resets[k].used
    /\ Turn(r, [step |-> "reset", token |-> k])
    /\ UNCHANGED <<account, sessions, resets, authCrashes>>
FinishReset(r) ==
    /\ serving[r].step = "reset"
    /\ account' = [account EXCEPT !.pw = @ + 1]
    /\ resets' = [resets EXCEPT ![serving[r].token].used = TRUE]
    /\ sessions' = [s \in DOMAIN sessions |-> [sessions[s] EXCEPT !.live = FALSE]]
    /\ Finish(r)
    /\ UNCHANGED authCrashes
VerifyEmail ==
    /\ ~account.verified
    /\ account' = [account EXCEPT !.verified = TRUE]
    /\ UNCHANGED <<sessions, resets, serving, authCrashes>>

(* EnrollMFA writes a pending secret. ConfirmMFA reads it, checks a code, and   *)
(* then activates whatever is pending by then, a missing secret included.       *)
EnrollMFA ==
    /\ account.issued < MaxSecrets
    /\ account' = [account EXCEPT !.pending = account.issued + 1, !.issued = @ + 1]
    /\ UNCHANGED <<sessions, resets, serving, authCrashes>>
BeginConfirmMFA(r, code) ==
    /\ serving[r] = NoWork /\ account.pending # 0
    /\ code = account.pending
    /\ Turn(r, [step |-> "activate", code |-> code])
    /\ UNCHANGED <<account, sessions, resets, authCrashes>>
ActivateMFA(r) ==
    /\ serving[r].step = "activate"
    /\ account' = [account EXCEPT !.secret = account.pending, !.pending = 0, !.mfa = TRUE]
    /\ Finish(r)
    /\ UNCHANGED <<sessions, resets, authCrashes>>

(* The process dies; the cleanup of expired rows touches no live one.           *)
RequestDies(r) == /\ serving[r] # NoWork
                  /\ authCrashes < MaxAuthCrashes /\ authCrashes' = authCrashes + 1
                  /\ Finish(r)
                  /\ UNCHANGED <<account, sessions, resets>>
SessionExpires(s) == /\ sessions[s].live
                     /\ sessions' = [sessions EXCEPT ![s].live = FALSE]
                     /\ UNCHANGED <<account, resets, serving, authCrashes>>

AuthNext ==
    \/ \E r \in Requests :
         \/ Login(r) \/ IssueTokens(r) \/ Rotate(r) \/ FinishReset(r)
         \/ ActivateMFA(r) \/ RequestDies(r)
         \/ \E code \in Secrets : VerifyTOTP(r, code) \/ BeginConfirmMFA(r, code)
         \/ \E s \in DOMAIN sessions : BeginRefresh(r, s)
         \/ \E k \in DOMAIN resets : BeginReset(r, k)
    \/ \E s \in DOMAIN sessions : Logout(s) \/ SessionExpires(s)
    \/ ForgotPassword \/ VerifyEmail \/ EnrollMFA

AuthSpec == AuthInit /\ [][AuthNext]_authVars
-----------------------------------------------------------------------------
(* Every variable holds a value of its kind. *)
AuthTypeOK ==
    /\ account.pw \in Nat /\ authCrashes \in 0..MaxAuthCrashes
    /\ account.secret \in 0..MaxSecrets /\ account.pending \in 0..MaxSecrets
    /\ \A s \in DOMAIN sessions : sessions[s].live \in BOOLEAN /\ sessions[s].pw <= account.pw
    /\ \A r \in Requests : serving[r].step \in {"none", "enter", "challenge", "rotate",
                                             "reset", "activate"}

(* "Revoga todas as sessões ativas": a session that still works under an older  *)
(* password descends from a login or a refresh that had begun when the password *)
(* was changed; whoever comes afterwards with an old token gets nothing.        *)
OnlyALateRequestOutlivesAReset ==
    \A s \in DOMAIN sessions :
        sessions[s].live /\ sessions[s].pw # account.pw => sessions[s].late
=============================================================================
