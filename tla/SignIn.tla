------------------------------- MODULE SignIn -------------------------------
(***************************************************************************)
(* Signing in: the handlers of internal/api/auth over the stores of        *)
(* internal/auth (sessions, record tokens, TOTP enrollments, MFA           *)
(* challenges, lockout, external links, passkeys), for one account of one  *)
(* auth collection.                                                        *)
(*                                                                         *)
(* A handler is a goroutine that runs several statements, each a           *)
(* transaction of its own; a statement is one action here and those of     *)
(* other requests may come between.  `req' holds what a handler keeps in   *)
(* local variables.  A request that is refused at its first statement      *)
(* changes nothing and is not an action; so is a token or a challenge that *)
(* expires, which is never presented again.                                *)
(*                                                                         *)
(* row.pw numbers the passwords the account has had.  `ends' numbers the   *)
(* occasions on which the code means to end the account's sessions:        *)
(* password reset or change, email change, "sign out everywhere else",     *)
(* SAML single logout.                                                     *)
(***************************************************************************)
EXTENDS Naturals, Sequences, FiniteSetsExt

CONSTANTS
    Req,           \* request goroutines
    Email,         \* addresses
    NoEmail,       \* no address: the account does not exist yet
    Threshold,     \* failures that lock (lockout.DefaultThreshold)
    Instances      \* the bounds to explore, see below

Op == {"signup", "password", "refresh", "logout", "change", "reset", "verify",
       "email", "otp", "mfa", "idp", "oauth", "passkey"}

(* An instance says whether the account exists and under which address     *)
(* (email), which operations clients call (ops), how many requests they    *)
(* make (calls) and how many statements or handlers may fail (mishaps).    *)
(* TLC explores the instances one after the other.                         *)
Instance == [email : Email \cup {NoEmail}, ops : SUBSET Op, calls : Nat, mishaps : Nat]

ASSUME SignInAssumption ==
    /\ IsFiniteSet(Req) /\ Req # {}
    /\ NoEmail \notin Email
    /\ Threshold \in Nat \ {0}
    /\ Instances \subseteq Instance

VARIABLES
    bound,        \* the instance being explored
    calls,        \* requests started so far
    mishaps,      \* failures so far
    row,          \* the account's row, its external link and its passkey
    proven,       \* addresses whose owner has been established
    ends,         \* the ends of all sessions, and how each went
    sessions,     \* _sessions
    tokens,       \* _record_tokens
    enrollment,   \* _totp_enrollments
    uses,         \* sign-ins made with the recovery code of each generation
    totpEnabled,  \* setting auth.totp.enabled
    challenges,   \* _mfa_challenges
    lock,         \* the lockout tracker's entry for the account
    req           \* req[r]: the handler running in r

account == <<row, proven, ends>>
factor == <<enrollment, uses, totpEnabled>>
vars == <<bound, calls, mishaps, account, sessions, tokens, factor, challenges, lock, req>>

Exists == row.email # NoEmail
Live == {s \in DOMAIN sessions : sessions[s].live}

\* What a handler keeps: the stage it is at, which flow it belongs to, the ends
\* begun when its evidence was established (asof) and those still open then
\* (open), the end it carries out itself, and the row it works on (on, seen).
Idle == [stage |-> "idle", flow |-> "none", asof |-> 0, open |-> {},
         end |-> 0, on |-> 0, seen |-> 0]

Begun(stage, flow, on, seen) ==
    [Idle EXCEPT !.stage = stage, !.flow = flow, !.on = on, !.seen = seen,
                 !.asof = Len(ends), !.open = {v \in DOMAIN ends : ends[v].st # "done"}]

\* A client calls op on a free goroutine.
Call(op, r) ==
    /\ op \in bound.ops /\ calls < bound.calls
    /\ calls' = calls + 1
    /\ req[r] = Idle

\* A request of one statement, made with the live session s.
Authed(op, s) ==
    /\ op \in bound.ops /\ calls < bound.calls
    /\ calls' = calls + 1
    /\ s \in Live

Goto(r, stage) == req' = [req EXCEPT ![r].stage = stage]
Done(r) == req' = [req EXCEPT ![r] = Idle]

----------------------------------------------------------------------------
(* Sessions.                                                               *)

\* asof: the ends before its evidence.  escaped: later ends whose statement it
\* was inserted too late for.  line: the sessions it was refreshed from.
NewSession(asof, escaped, line) ==
    [live |-> TRUE, asof |-> asof, escaped |-> escaped, line |-> line]

\* Sessions.Create, the last statement of every way to sign in.
CreateSession(r) ==
    /\ req[r].stage = "session"
    /\ sessions' = Append(sessions, NewSession(req[r].asof, (req[r].asof + 1) .. Len(ends), {}))
    /\ challenges' = IF req[r].flow = "totp"
                     THEN [challenges EXCEPT ![req[r].on].sessions = @ + 1]
                     ELSE challenges
    /\ Done(r)
    /\ UNCHANGED <<calls, mishaps, account, tokens, factor, lock>>

\* Refresh up to its commit: the old row is locked and revoked.  A second
\* Refresh of the row waits for the first and then finds it revoked.
RefreshBegin(r, s) ==
    /\ Call("refresh", r)
    /\ s \in Live
    /\ \A q \in Req : ~(req[q].stage = "refresh" /\ req[q].on = s)
    /\ req' = [req EXCEPT ![r] = Begun("refresh", "refresh", s, 0)]
    /\ UNCHANGED <<mishaps, account, sessions, tokens, factor, challenges, lock>>

\* The commit.  An UPDATE that ends the account's sessions meanwhile waits for
\* the old row, finds it revoked, and does not see the new one.
RefreshCommit(r) ==
    /\ req[r].stage = "refresh"
    /\ LET old == req[r].on
           missed == req[r].open \cup ((req[r].asof + 1) .. Len(ends))
       IN sessions' = Append([sessions EXCEPT ![old].live = FALSE],
                             NewSession(sessions[old].asof, sessions[old].escaped \cup missed,
                                        sessions[old].line \cup {old}))
    /\ Done(r)
    /\ UNCHANGED <<calls, mishaps, account, tokens, factor, challenges, lock>>

\* auth-logout, DELETE /auth/sessions/{id}, or the session's expiry.
EndSession(s) ==
    /\ Authed("logout", s)
    /\ sessions' = [sessions EXCEPT ![s].live = FALSE]
    /\ UNCHANGED <<mishaps, account, tokens, factor, challenges, lock, req>>

\* UPDATE _sessions SET revoked_at ... for the account, except one session.
Revoked(keep) ==
    [s \in DOMAIN sessions |->
        [sessions[s] EXCEPT !.live = @ /\ s \in keep]]

\* RevokeOthers for "sign out everywhere else"; RevokeAllFor for a SAML
\* LogoutRequest.
SignOut(keep) ==
    /\ "logout" \in bound.ops /\ calls < bound.calls
    /\ calls' = calls + 1
    /\ keep \subseteq Live
    /\ sessions' = Revoked(keep)
    /\ ends' = Append(ends, [st |-> "done", keep |-> keep])
    /\ UNCHANGED <<mishaps, row, proven, tokens, factor, challenges, lock, req>>

----------------------------------------------------------------------------
(* Lockout: Tracker.Record and Reset.                                      *)

\* late: wrong passwords recorded while the account was already locked.
Record(l) ==
    LET n == Min({l.fails + 1, Threshold})
    IN [fails |-> n, locked |-> n = Threshold, late |-> IF l.locked THEN l.late + 1 ELSE 0]

Unlocked == [fails |-> 0, locked |-> FALSE, late |-> 0]

\* lockedTill passes; failures leave the window, or Record's sweep drops the
\* entry.
LockAges ==
    /\ {"password", "idp"} \cap bound.ops # {} /\ lock # Unlocked
    /\ \/ lock' = [lock EXCEPT !.locked = FALSE, !.late = 0] /\ lock.locked
       \/ ~lock.locked /\ \E n \in 0 .. (lock.fails - 1) : lock' = [lock EXCEPT !.fails = n]
    /\ UNCHANGED <<calls, mishaps, account, sessions, tokens, factor, challenges, req>>

----------------------------------------------------------------------------
(* Sign-up and sign-in with a password.                                    *)

NewRow(email, verified) ==
    [email |-> email, verified |-> verified, pw |-> 1, link |-> FALSE, passkey |-> FALSE]

Signup(r, e) ==
    /\ Call("signup", r)
    /\ ~Exists
    /\ row' = NewRow(e, FALSE)
    /\ req' = [req EXCEPT ![r] = Begun("session", "signup", 0, 0)]
    /\ UNCHANGED <<mishaps, proven, ends, sessions, tokens, factor, challenges, lock>>

\* Mutant: the lock is not looked at.
SigninBeginUnchecked(r, p) ==
    /\ Call("password", r)
    /\ req' = [req EXCEPT ![r] = Begun("verify", "password", p, row.pw)]
    /\ UNCHANGED <<mishaps, account, sessions, tokens, factor, challenges, lock>>

\* auth-with-password, up to loading the row.  p is the password presented, 0
\* one that the account never had.
SigninBegin(r, p) ==
    /\ Call("password", r)
    /\ ~lock.locked
    /\ req' = [req EXCEPT ![r] = Begun("verify", "password", p, row.pw)]
    /\ UNCHANGED <<mishaps, account, sessions, tokens, factor, challenges, lock>>

\* password.Verify against the row that was loaded, and the tracker.
SigninVerify(r) ==
    /\ req[r].stage = "verify"
    /\ \/ /\ req[r].on = req[r].seen /\ req[r].on # 0
          /\ lock' = Unlocked
          /\ Goto(r, "factor")
       \/ /\ req[r].on # req[r].seen \/ req[r].on = 0
          /\ lock' = Record(lock)
          /\ Done(r)
    /\ UNCHANGED <<calls, mishaps, account, sessions, tokens, factor, challenges>>

Challenged == totpEnabled /\ enrollment.st = "active"

\* The MFA branch: a challenge instead of a session.  An enrollment that
\* cannot be read counts as none.
SigninFactor(r) ==
    /\ req[r].stage = "factor"
    /\ \/ /\ Challenged
          /\ challenges' = Append(challenges, [asof |-> req[r].asof, done |-> FALSE, sessions |-> 0])
          /\ Done(r)
          /\ UNCHANGED mishaps
       \/ /\ ~Challenged
          /\ Goto(r, "session")
          /\ UNCHANGED <<mishaps, challenges>>
       \/ /\ Challenged /\ mishaps < bound.mishaps
          /\ mishaps' = mishaps + 1
          /\ Goto(r, "session")
          /\ UNCHANGED challenges
    /\ UNCHANGED <<calls, account, sessions, tokens, factor, lock>>

----------------------------------------------------------------------------
(* Record tokens and the flows that redeem them.                           *)

\* Where it was mailed (to) and the new_email of its payload.
Token(purpose, to, new) ==
    [purpose |-> purpose, to |-> to, new |-> new, used |-> FALSE, redeemed |-> 0]

\* request-verification, request-otp: the token goes to the account's address.
RequestToken(purpose) ==
    /\ purpose \in {"verify", "otp"} \cap bound.ops /\ calls < bound.calls
    /\ Exists /\ (purpose = "verify" => ~row.verified)
    /\ calls' = calls + 1
    /\ tokens' = Append(tokens, Token(purpose, row.email, NoEmail))
    /\ UNCHANGED <<mishaps, account, sessions, factor, challenges, lock, req>>

\* request-password-reset: revoke the outstanding tokens, then issue one.
RequestReset(r) ==
    /\ Call("reset", r)
    /\ Exists
    /\ tokens' = [t \in DOMAIN tokens |->
                    [tokens[t] EXCEPT !.used = @ \/ tokens[t].purpose = "reset"]]
    /\ req' = [req EXCEPT ![r] = Begun("issue", "reset", 0, 0)]
    /\ UNCHANGED <<mishaps, account, sessions, factor, challenges, lock>>

IssueReset(r) ==
    /\ req[r].stage = "issue"
    /\ tokens' = Append(tokens, Token("reset", row.email, NoEmail))
    /\ Done(r)
    /\ UNCHANGED <<calls, mishaps, account, sessions, factor, challenges, lock>>

\* Mutant: the confirmation is mailed to the old address.
RequestEmailChangeToOld(s, e) ==
    /\ Authed("email", s)
    /\ tokens' = Append(tokens, Token("email", row.email, e))
    /\ UNCHANGED <<mishaps, account, sessions, factor, challenges, lock, req>>

\* request-email-change: the confirmation is mailed to the new address.
RequestEmailChange(s, e) ==
    /\ Authed("email", s)
    /\ tokens' = Append(tokens, Token("email", e, e))
    /\ UNCHANGED <<mishaps, account, sessions, factor, challenges, lock, req>>

\* What a flow does once its token is consumed.
After == [reset |-> "password", verify |-> "verified", email |-> "email", otp |-> "session"]

\* Consume: checked and marked in one transaction under a row lock.  The
\* caller has the mail, so the address it was sent to is the caller's.
Consume(r, t) ==
    /\ Call(tokens[t].purpose, r)
    /\ ~tokens[t].used
    /\ tokens' = [tokens EXCEPT ![t].used = TRUE, ![t].redeemed = @ + 1]
    /\ proven' = proven \cup {tokens[t].to}
    /\ req' = [req EXCEPT ![r] = Begun(After[tokens[t].purpose], tokens[t].purpose, t, 0)]
    /\ UNCHANGED <<mishaps, row, ends, sessions, factor, challenges, lock>>

\* confirm-verification: UPDATE ... SET verified = TRUE.
MarkVerified(r) ==
    /\ req[r].stage = "verified"
    /\ row' = [row EXCEPT !.verified = TRUE]
    /\ Goto(r, "session")
    /\ UNCHANGED <<calls, mishaps, proven, ends, sessions, tokens, factor, challenges, lock>>

\* auth-with-otp with the code: the latest unconsumed token is read and the
\* code verified against it.
OtpRead(r) ==
    LET unused == {t \in DOMAIN tokens : tokens[t].purpose = "otp" /\ ~tokens[t].used}
    IN /\ Call("otp", r)
       /\ unused # {}
       /\ req' = [req EXCEPT ![r] = Begun("code", "otp", Max(unused), 0)]
       /\ UNCHANGED <<mishaps, account, sessions, tokens, factor, challenges, lock>>

\* Mutant: the code is not marked.
OtpMarkForgotten(r) ==
    /\ req[r].stage = "code"
    /\ tokens' = [tokens EXCEPT ![req[r].on].redeemed = @ + 1]
    /\ Goto(r, "session")
    /\ UNCHANGED <<calls, mishaps, account, sessions, factor, challenges, lock>>

\* Then it is marked consumed, whether or not it already is.
OtpMark(r) ==
    /\ req[r].stage = "code"
    /\ tokens' = [tokens EXCEPT ![req[r].on].used = TRUE, ![req[r].on].redeemed = @ + 1]
    /\ Goto(r, "session")
    /\ UNCHANGED <<calls, mishaps, account, sessions, factor, challenges, lock>>

----------------------------------------------------------------------------
(* Changes of password and address.                                        *)

\* change-password: the row is loaded and the current password verified.
ChangeBegin(r, s) ==
    /\ Call("change", r)
    /\ s \in Live
    /\ req' = [req EXCEPT ![r] = Begun("password", "change", s, 0)]
    /\ UNCHANGED <<mishaps, account, sessions, tokens, factor, challenges, lock>>

\* The UPDATE of the row.  The sessions end in a statement of its own.
UpdateRow(r) ==
    /\ req[r].stage \in {"password", "email"}
    /\ row' = IF req[r].stage = "email"
              THEN [row EXCEPT !.email = tokens[req[r].on].new, !.verified = TRUE]
              ELSE [row EXCEPT !.pw = @ + 1]
    /\ ends' = Append(ends, [st |-> "pending",
                             keep |-> IF req[r].flow = "change" THEN {req[r].on} ELSE {}])
    /\ req' = [req EXCEPT ![r].stage = "revoke", ![r].end = Len(ends) + 1]
    /\ UNCHANGED <<calls, mishaps, proven, sessions, tokens, factor, challenges, lock>>

\* A reset goes on to sign the client in, on the evidence of the reset.
AfterRevoke(r) ==
    IF req[r].flow = "reset"
    THEN req' = [req EXCEPT ![r].stage = "session", ![r].asof = req[r].end]
    ELSE Done(r)

\* Mutant: the reset does not end the sessions.
RevokeSessionsSkipped(r) ==
    /\ req[r].stage = "revoke"
    /\ ends' = [ends EXCEPT ![req[r].end].st = "done"]
    /\ AfterRevoke(r)
    /\ UNCHANGED <<calls, mishaps, row, proven, sessions, tokens, factor, challenges, lock>>

\* revokeAllSessionsFor, RevokeOthers.  An error is only logged.
RevokeSessions(r) ==
    /\ req[r].stage = "revoke"
    /\ \/ /\ sessions' = Revoked(ends[req[r].end].keep)
          /\ ends' = [ends EXCEPT ![req[r].end].st = "done"]
          /\ UNCHANGED mishaps
       \/ /\ mishaps < bound.mishaps
          /\ mishaps' = mishaps + 1
          /\ ends' = [ends EXCEPT ![req[r].end].st = "failed"]
          /\ UNCHANGED sessions
    /\ AfterRevoke(r)
    /\ UNCHANGED <<calls, row, proven, tokens, factor, challenges, lock>>

\* A statement fails, or the process dies: nothing of the rest is done.
Abort(r) ==
    /\ req[r] # Idle
    /\ mishaps < bound.mishaps
    /\ mishaps' = mishaps + 1
    /\ ends' = IF req[r].stage = "revoke"
               THEN [ends EXCEPT ![req[r].end].st = "failed"] ELSE ends
    /\ Done(r)
    /\ UNCHANGED <<calls, row, proven, sessions, tokens, factor, challenges, lock>>

----------------------------------------------------------------------------
(* Second factor.                                                          *)

\* Pending: a new secret and a new generation of recovery codes, of which one
\* is followed.  An active enrollment is replaced too.
EnrollStart(s) ==
    /\ Authed("mfa", s)
    /\ totpEnabled
    /\ enrollment' = [st |-> "pending", used |-> FALSE, gen |-> Len(uses) + 1,
                      id |-> IF enrollment.st = "none" THEN Len(uses) + 1 ELSE enrollment.id]
    /\ uses' = Append(uses, 0)
    /\ UNCHANGED <<mishaps, account, sessions, tokens, totpEnabled, challenges, lock, req>>

\* enroll-confirm and disable read the enrollment and verify a code of it.
EnrollCheck(r, s, flow) ==
    /\ Call("mfa", r)
    /\ s \in Live
    /\ \/ flow = "confirm" /\ totpEnabled /\ enrollment.st = "pending"
       \/ flow = "disable" /\ enrollment.st # "none"
    /\ req' = [req EXCEPT ![r] = Begun(flow, flow, 0, 0)]
    /\ UNCHANGED <<mishaps, account, sessions, tokens, factor, challenges, lock>>

\* Confirm and Disable name the account, not the enrollment that was read.
EnrollFinish(r) ==
    /\ req[r].stage \in {"confirm", "disable"}
    /\ enrollment' = IF req[r].stage = "disable" THEN [enrollment EXCEPT !.st = "none"]
                     ELSE IF enrollment.st = "pending" THEN [enrollment EXCEPT !.st = "active"]
                     ELSE enrollment
    /\ Done(r)
    /\ UNCHANGED <<calls, mishaps, account, sessions, tokens, uses, totpEnabled, challenges, lock>>

\* RegenerateRecoveryCodes.
Regenerate(s) ==
    /\ Authed("mfa", s)
    /\ enrollment.st # "none"
    /\ enrollment' = [enrollment EXCEPT !.used = FALSE, !.gen = Len(uses) + 1]
    /\ uses' = Append(uses, 0)
    /\ UNCHANGED <<mishaps, account, sessions, tokens, totpEnabled, challenges, lock, req>>

\* An administrator turns the method on or off.
SwitchTotp ==
    /\ "mfa" \in bound.ops /\ calls < bound.calls
    /\ calls' = calls + 1
    /\ totpEnabled' = ~totpEnabled
    /\ UNCHANGED <<mishaps, account, sessions, tokens, enrollment, uses, challenges, lock, req>>

\* auth-with-totp: challenge and enrollment are read and the code, of the
\* authenticator or a recovery code not yet used, is verified.
TotpBegin(r, c, recovery) ==
    /\ Call("mfa", r)
    /\ totpEnabled /\ ~challenges[c].done /\ enrollment.st = "active"
    /\ recovery => ~enrollment.used
    /\ req' = [req EXCEPT ![r] =
                 [Begun(IF recovery THEN "mark" ELSE "solve", "totp", c, enrollment.gen)
                    EXCEPT !.asof = challenges[c].asof, !.end = enrollment.id]]
    /\ UNCHANGED <<mishaps, account, sessions, tokens, factor, challenges, lock>>

\* MarkRecoveryCodeUsed: by enrollment id and index; whether the code is
\* already used, or the codes are others by now, is not looked at.
MarkRecoveryCodeUsed(r) ==
    /\ req[r].stage = "mark"
    /\ IF enrollment.st # "none" /\ enrollment.id = req[r].end
       THEN /\ enrollment' = [enrollment EXCEPT !.used = TRUE]
            /\ uses' = [uses EXCEPT ![req[r].seen] = @ + 1]
            /\ Goto(r, "solve")
       ELSE Done(r) /\ UNCHANGED <<enrollment, uses>>
    /\ UNCHANGED <<calls, mishaps, account, sessions, tokens, totpEnabled, challenges, lock>>

\* Solve: under a row lock, and only while the challenge is not completed.
Solve(r) ==
    /\ req[r].stage = "solve"
    /\ IF challenges[req[r].on].done
       THEN Done(r) /\ UNCHANGED challenges
       ELSE /\ challenges' = [challenges EXCEPT ![req[r].on].done = TRUE]
            /\ Goto(r, "session")
    /\ UNCHANGED <<calls, mishaps, account, sessions, tokens, factor, lock>>

----------------------------------------------------------------------------
(* Identity providers and passkeys.                                        *)

\* auth-with-ldap up to the bind; it shares the lockout with passwords.
LdapBegin(r, ok) ==
    /\ Call("idp", r)
    /\ ~lock.locked
    /\ req' = [req EXCEPT ![r] = Begun("bind", "idp", IF ok THEN 1 ELSE 0, 0)]
    /\ UNCHANGED <<mishaps, account, sessions, tokens, factor, challenges, lock>>

LdapBind(r) ==
    /\ req[r].stage = "bind"
    /\ IF req[r].on = 1 THEN lock' = Unlocked /\ Goto(r, "provision")
                        ELSE lock' = Record(lock) /\ Done(r)
    /\ UNCHANGED <<calls, mishaps, account, sessions, tokens, factor, challenges>>

\* The SAML assertion consumer, once the assertion is validated.
SamlAcs(r) ==
    /\ Call("idp", r)
    /\ req' = [req EXCEPT ![r] = Begun("provision", "idp", 0, 0)]
    /\ UNCHANGED <<mishaps, account, sessions, tokens, factor, challenges, lock>>

\* loadOrCreateLDAPUser, loadOrCreateSAMLUser.  A lost race for the INSERT
\* reads the row again, so the two statements act as one.
Provision(r, e) ==
    /\ req[r].stage = "provision"
    /\ IF Exists
       THEN e = row.email /\ UNCHANGED <<row, proven>>
       ELSE row' = NewRow(e, TRUE) /\ proven' = proven \cup {e}
    /\ Goto(r, "session")
    /\ UNCHANGED <<calls, mishaps, ends, sessions, tokens, factor, challenges, lock>>

\* oauthCallbackHandler and provisionFromIdentity: by link, by an address the
\* provider vouches for, or with a new row; the link is a statement of its own.
\* An existing row whose address is not vouched for refuses the callback.
OauthBegin(r, e, vouched) ==
    /\ Call("oauth", r)
    /\ \/ /\ Exists /\ row.link
          /\ req' = [req EXCEPT ![r] = Begun("session", "oauth", 0, 0)]
          /\ UNCHANGED <<row, proven>>
       \/ /\ Exists /\ ~row.link /\ vouched /\ e = row.email
          /\ req' = [req EXCEPT ![r] = Begun("link", "oauth", 0, 0)]
          /\ UNCHANGED <<row, proven>>
       \/ /\ ~Exists
          /\ row' = NewRow(e, vouched)
          /\ proven' = proven \cup (IF vouched THEN {e} ELSE {})
          /\ req' = [req EXCEPT ![r] = Begun("link", "oauth", 0, 0)]
    /\ UNCHANGED <<mishaps, ends, sessions, tokens, factor, challenges, lock>>

OauthLink(r) ==
    /\ req[r].stage = "link"
    /\ row' = [row EXCEPT !.link = TRUE]
    /\ Goto(r, "session")
    /\ UNCHANGED <<calls, mishaps, proven, ends, sessions, tokens, factor, challenges, lock>>

\* register-finish and DELETE of a passkey, with a session.
SavePasskey(s) ==
    /\ Authed("passkey", s)
    /\ row' = [row EXCEPT !.passkey = ~@]
    /\ UNCHANGED <<mishaps, proven, ends, sessions, tokens, factor, challenges, lock, req>>

\* login-finish: the passkey alone signs in.
PasskeyLogin(r) ==
    /\ Call("passkey", r)
    /\ row.passkey
    /\ req' = [req EXCEPT ![r] = Begun("session", "passkey", 0, 0)]
    /\ UNCHANGED <<mishaps, account, sessions, tokens, factor, challenges, lock>>

----------------------------------------------------------------------------
Init ==
    /\ bound \in Instances
    /\ calls = 0 /\ mishaps = 0
    /\ row = [NewRow(bound.email, FALSE) EXCEPT !.pw = IF bound.email = NoEmail THEN 0 ELSE 1]
    /\ proven = {} /\ ends = <<>>
    /\ sessions = IF bound.email = NoEmail THEN <<>> ELSE <<NewSession(0, {}, {})>>
    /\ tokens = <<>>
    /\ enrollment = [st |-> "none", used |-> FALSE, gen |-> 0, id |-> 0]
    /\ uses = <<>> /\ totpEnabled = TRUE
    /\ challenges = <<>>
    /\ lock = Unlocked
    /\ req = [r \in Req |-> Idle]

Handler(r) ==
    \/ CreateSession(r) \/ RefreshCommit(r)
    \/ SigninVerify(r) \/ SigninFactor(r)
    \/ IssueReset(r) \/ MarkVerified(r) \/ OtpMark(r)
    \/ UpdateRow(r) \/ RevokeSessions(r)
    \/ EnrollFinish(r) \/ MarkRecoveryCodeUsed(r) \/ Solve(r)
    \/ LdapBind(r) \/ OauthLink(r)
    \/ \E e \in Email : Provision(r, e)
    \/ Abort(r)

Request(r) ==
    \/ \E e \in Email : Signup(r, e) \/ \E v \in BOOLEAN : OauthBegin(r, e, v)
    \/ \E p \in 0 .. row.pw : SigninBegin(r, p)
    \/ \E ok \in BOOLEAN : LdapBegin(r, ok)
    \/ SamlAcs(r) \/ PasskeyLogin(r) \/ RequestReset(r) \/ OtpRead(r)
    \/ \E s \in DOMAIN sessions :
         \/ RefreshBegin(r, s) \/ ChangeBegin(r, s)
         \/ \E flow \in {"confirm", "disable"} : EnrollCheck(r, s, flow)
    \/ \E t \in DOMAIN tokens : Consume(r, t)
    \/ \E c \in DOMAIN challenges, recovery \in BOOLEAN : TotpBegin(r, c, recovery)

Next ==
    /\ \/ \E r \in Req : Handler(r) \/ Request(r)
       \/ \E s \in DOMAIN sessions :
            \/ EndSession(s) \/ EnrollStart(s) \/ Regenerate(s) \/ SavePasskey(s)
            \/ \E e \in Email : RequestEmailChange(s, e)
            \/ SignOut({s})
       \/ SignOut({})
       \/ RequestToken("verify") \/ RequestToken("otp")
       \/ SwitchTotp \/ LockAges
    /\ UNCHANGED bound

Spec == Init /\ [][Next]_vars

----------------------------------------------------------------------------
(* Properties.                                                             *)

\* A live session has outlived an end of all sessions (a reset, a change of
\* password or address, a sign-out everywhere) only if that end kept it, was
\* cut short or failed, or if the session was inserted after the UPDATE on
\* evidence from before it: a sign-in or a challenge already begun, or a
\* refresh under way.
EndedStaysEnded ==
    \A s \in Live : \A v \in (sessions[s].asof + 1) .. Len(ends) :
        \/ v \in sessions[s].escaped
        \/ ({s} \cup sessions[s].line) \cap ends[v].keep # {}
        \/ ends[v].st # "done"

\* A mailed token signs in, verifies or resets once; a challenge yields one
\* session.  A typed one-time code and a recovery code are checked before they
\* are marked, and serve at most as many requests as run at the same time.
RedeemedOnce ==
    /\ \A t \in DOMAIN tokens :
         tokens[t].redeemed <= (IF tokens[t].purpose = "otp" THEN Cardinality(Req) ELSE 1)
    /\ \A c \in DOMAIN challenges : challenges[c].sessions <= 1
    /\ \A g \in DOMAIN uses : uses[g] <= Cardinality(Req)

\* An account marked verified has an address whose owner was established by
\* mail or by an identity provider, however the flows overlap.
VerifiedIsProven == row.verified => row.email \in proven

\* Once the tracker locks the account, only requests that had already passed
\* the check still have their password compared.
LockHolds == lock.late < Cardinality(Req)

============================================================================
