------------------------------ MODULE Sessions ------------------------------
(***************************************************************************)
(* The credentials of one user (src/src/modules/auth): the password and    *)
(* the verified flag of the users row, and the rows of refresh_tokens,     *)
(* password_reset_tokens and email_verification_tokens.  Every statement   *)
(* filters by token or by user, so the rows of two users never meet.       *)
(*                                                                         *)
(* A row is known by its place in the order of insertion; whatever expires *)
(* expires oldest first, so a clock is the number of rows past their term. *)
(* A password is told apart by how many resets came before it, and a login *)
(* that is modelled is one that typed the password it read.                *)
(*                                                                         *)
(* An UPDATE of many rows at the default isolation level (read committed)  *)
(* sees the rows committed when it starts, waits for the locks on them and *)
(* skips those that no longer match: it is modelled in two steps, the rows *)
(* it sees and the commit.  A conditional UPDATE of one row inside a       *)
(* transaction is decided where the transaction commits.                   *)
(***************************************************************************)
EXTENDS Integers, Sequences, FiniteSets, SequencesExt

CONSTANTS
  Requests,          \* request slots: bounds how many handlers run at once
  AutoVerify,        \* the setting mail.autoVerifyEmail
  MaxRefresh,        \* bounds on the rows ever inserted in each table
  MaxResets,
  MaxVerifications

ASSUME SessionsAssumption ==
  /\ AutoVerify \in BOOLEAN
  /\ MaxRefresh \in Nat /\ MaxResets \in Nat /\ MaxVerifications \in Nat

VARIABLES
  user,          \* users: password (number of resets so far) and emailVerifiedAt set or not
  refresh,       \* refresh_tokens: revokedAt set or not, replacedById (0 is null)
  reset,         \* password_reset_tokens: usedAt set or not
  verification,  \* email_verification_tokens: usedAt set or not
  clock,         \* how many rows of each table are past their term
  audit,         \* audit_logs: rows with event PASSWORD_RESET_ISSUED
  req,           \* the handler each request slot runs and its local variables
  origin,        \* history: of each refresh token, its first ancestor and the password typed
  spent,         \* history: the reset token that each password change consumed, in order
  issued         \* history: tokens the admin route issued

rows    == <<user, refresh, reset, verification, clock, audit>>
history == <<origin, spent, issued>>
vars    == <<rows, req, history>>

Clocks == {"refresh", "cooldown", "reset", "verification"}
Idle   == [at |-> "idle"]
Steps  == {"idle", "verify", "issue", "rotate", "reuse", "sweep", "revoke", "supersede",
           "reissue", "audit", "claim", "change", "mark", "resend"}

TypeOK ==
  /\ user \in [password : Nat, verified : BOOLEAN]
  /\ refresh \in Seq([revoked : BOOLEAN, next : Nat])
  /\ reset \in Seq([used : BOOLEAN]) /\ verification \in Seq([used : BOOLEAN])
  /\ Len(refresh) <= MaxRefresh /\ Len(reset) <= MaxResets
  /\ Len(verification) <= MaxVerifications
  /\ \A t \in DOMAIN refresh : refresh[t].next = 0 \/ refresh[t].next \in (t + 1)..Len(refresh)
  /\ clock \in [Clocks -> Nat] /\ audit \in Nat /\ issued \in Nat
  /\ DOMAIN req = Requests /\ \A r \in Requests : req[r].at \in Steps
  /\ Len(origin) = Len(refresh) /\ spent \in Seq(1..MaxResets)

(* A user just registered: verified, or with a verification token, or (the process stopped
   before it was issued) with neither. *)
Init ==
  /\ user \in [password : {0}, verified : BOOLEAN]
  /\ verification \in {s \in {<<>>, <<[used |-> FALSE]>>} : Len(s) <= MaxVerifications}
  /\ refresh = <<>> /\ reset = <<>>
  /\ clock = [c \in Clocks |-> 0]
  /\ audit = 0 /\ issued = 0
  /\ req = [r \in Requests |-> Idle]
  /\ origin = <<>> /\ spent = <<>>

-----------------------------------------------------------------------------
Live(t)   == ~refresh[t].revoked
LiveSet   == {t \in DOMAIN refresh : Live(t)}
Usable(t) == ~reset[t].used /\ t > clock["reset"]
Done(r)   == req' = [req EXCEPT ![r] = Idle]
Becomes(r, local) == req' = [req EXCEPT ![r] = local]

Revoke(tokens) ==
  [t \in DOMAIN refresh |-> IF t \in tokens THEN [refresh[t] EXCEPT !.revoked = TRUE]
                                            ELSE refresh[t]]

(* Mutant: login does not look at emailVerifiedAt. *)
LoginRead_AnyUser(r) ==
  /\ req[r] = Idle
  /\ Becomes(r, [at |-> "issue", password |-> user.password])
  /\ UNCHANGED <<rows, history>>

(* POST /auth/login: the user is read, the password matched, and an unverified address
   refused unless the setting verifies it... *)
LoginRead(r) ==
  /\ req[r] = Idle
  /\ user.verified \/ AutoVerify
  /\ Becomes(r, [at |-> IF user.verified THEN "issue" ELSE "verify", password |-> user.password])
  /\ UNCHANGED <<rows, history>>

LoginVerify(r) ==
  /\ req[r].at = "verify"
  /\ user' = [user EXCEPT !.verified = TRUE]
  /\ Becomes(r, [req[r] EXCEPT !.at = "issue"])
  /\ UNCHANGED <<refresh, reset, verification, clock, audit, history>>

(* ...and a refresh token is inserted. *)
LoginIssue(r) ==
  /\ req[r].at = "issue"
  /\ Len(refresh) < MaxRefresh
  /\ refresh' = Append(refresh, [revoked |-> FALSE, next |-> 0])
  /\ origin' = Append(origin, [login |-> Len(refresh) + 1, password |-> req[r].password])
  /\ Done(r)
  /\ UNCHANGED <<user, reset, verification, clock, audit, spent, issued>>

(* POST /auth/refresh: the token is read: a revoked one is a reuse, an expired one is
   revoked, any other is rotated... *)
RefreshRead(r, t) ==
  /\ req[r] = Idle
  /\ Becomes(r, [at |-> IF refresh[t].revoked THEN "reuse"
                        ELSE IF t <= clock["refresh"] THEN "revoke" ELSE "rotate",
                 token |-> t])
  /\ UNCHANGED <<rows, history>>

(* Mutant: the claim has no revokedAt condition. *)
Rotate_Unconditional(r) ==
  /\ req[r].at = "rotate"
  /\ Len(refresh) < MaxRefresh
  /\ LET t == req[r].token
     IN /\ refresh' = Append([Revoke({t}) EXCEPT ![t].next = Len(refresh) + 1],
                             [revoked |-> FALSE, next |-> 0])
        /\ origin' = Append(origin, origin[t])
  /\ Done(r)
  /\ UNCHANGED <<user, reset, verification, clock, audit, spent, issued>>

(* ...in one transaction: it is revoked where it is not yet, and its successor inserted; if
   another request revoked it meanwhile that too is a reuse... *)
Rotate(r) ==
  /\ req[r].at = "rotate"
  /\ LET t == req[r].token
     IN IF Live(t)
        THEN /\ Len(refresh) < MaxRefresh
             /\ refresh' = Append([Revoke({t}) EXCEPT ![t].next = Len(refresh) + 1],
                                  [revoked |-> FALSE, next |-> 0])
             /\ origin' = Append(origin, origin[t])
             /\ Done(r)
        ELSE /\ Becomes(r, [req[r] EXCEPT !.at = "reuse"])
             /\ UNCHANGED <<refresh, origin>>
  /\ UNCHANGED <<user, reset, verification, clock, audit, spent, issued>>

(* Mutant: only the reused token is revoked. *)
ReuseSees_OnlyReused(r) ==
  /\ req[r].at = "reuse"
  /\ Becomes(r, [at |-> "sweep", token |-> req[r].token, seen |-> {req[r].token}])
  /\ UNCHANGED <<rows, history>>

(* ...and a reuse revokes every token of the user that the statement sees. *)
ReuseSees(r) ==
  /\ req[r].at = "reuse"
  /\ Becomes(r, [at |-> "sweep", token |-> req[r].token, seen |-> LiveSet])
  /\ UNCHANGED <<rows, history>>

Sweep(r) ==
  /\ req[r].at = "sweep"
  /\ refresh' = Revoke(req[r].seen)
  /\ Done(r)
  /\ UNCHANGED <<user, reset, verification, clock, audit, history>>

(* POST /auth/logout: the token is read, and revoked unless it was. *)
LogoutRead(r, t) ==
  /\ req[r] = Idle
  /\ Live(t)
  /\ Becomes(r, [at |-> "revoke", token |-> t])
  /\ UNCHANGED <<rows, history>>

RevokeOne(r) ==
  /\ req[r].at = "revoke"
  /\ refresh' = Revoke({req[r].token})
  /\ Done(r)
  /\ UNCHANGED <<user, reset, verification, clock, audit, history>>

(* POST /auth/forgot-password: refused while the latest token is younger than the cooldown. *)
ForgotRead(r) ==
  /\ req[r] = Idle
  /\ Len(reset) <= clock["cooldown"]
  /\ Becomes(r, [at |-> "supersede", admin |-> FALSE])
  /\ UNCHANGED <<rows, history>>

(* Mutant: the trail is written before the token. *)
AdminRead_TrailFirst(r) ==
  /\ req[r] = Idle
  /\ audit' = audit + 1
  /\ Becomes(r, [at |-> "supersede", admin |-> FALSE])
  /\ UNCHANGED <<user, refresh, reset, verification, clock, history>>

(* The admin route issues a link for a user below the actor's role, with no cooldown... *)
AdminRead(r) ==
  /\ req[r] = Idle
  /\ Becomes(r, [at |-> "supersede", admin |-> TRUE])
  /\ UNCHANGED <<rows, history>>

(* Mutant: earlier tokens stay usable. *)
ResetSees_None(r) ==
  /\ req[r].at = "supersede"
  /\ Becomes(r, [at |-> "reissue", admin |-> req[r].admin, seen |-> {}])
  /\ UNCHANGED <<rows, history>>

(* ...both supersede, in one transaction, the usable tokens that the update sees... *)
ResetSees(r) ==
  /\ req[r].at = "supersede"
  /\ Becomes(r, [at |-> "reissue", admin |-> req[r].admin,
                 seen |-> {t \in DOMAIN reset : Usable(t)}])
  /\ UNCHANGED <<rows, history>>

(* ...and insert a new one; the admin route appends to the trail afterwards. *)
ResetIssue(r) ==
  /\ req[r].at = "reissue"
  /\ Len(reset) < MaxResets
  /\ reset' = Append([t \in DOMAIN reset |-> [used |-> reset[t].used \/ t \in req[r].seen]],
                     [used |-> FALSE])
  /\ IF req[r].admin
     THEN Becomes(r, [at |-> "audit"]) /\ issued' = issued + 1
     ELSE Done(r) /\ UNCHANGED issued
  /\ UNCHANGED <<user, refresh, verification, clock, audit, origin, spent>>

AdminAudit(r) ==
  /\ req[r].at = "audit"
  /\ audit' = audit + 1
  /\ Done(r)
  /\ UNCHANGED <<user, refresh, reset, verification, clock, history>>

(* POST /auth/reset-password: the token is read and must be usable... *)
ResetRead(r, t) ==
  /\ req[r] = Idle
  /\ Usable(t)
  /\ Becomes(r, [at |-> "claim", token |-> t, verify |-> ~user.verified])
  /\ UNCHANGED <<rows, history>>

(* Mutant: the sessions are left alone. *)
ResetSeesSessions_None(r) ==
  /\ req[r].at = "claim"
  /\ \A p \in Requests : req[p].at # "change"
  /\ Becomes(r, [at |-> "change", token |-> req[r].token, verify |-> req[r].verify, seen |-> {}])
  /\ UNCHANGED <<rows, history>>

(* ...then one transaction locks the user, sees the sessions to end... *)
ResetSeesSessions(r) ==
  /\ req[r].at = "claim"
  /\ \A p \in Requests : req[p].at # "change"
  /\ Becomes(r, [at |-> "change", token |-> req[r].token, verify |-> req[r].verify,
                 seen |-> LiveSet])
  /\ UNCHANGED <<rows, history>>

(* Mutant: the token is updated by id only. *)
ResetChange_ById(r) ==
  /\ req[r].at = "change"
  /\ reset' = [reset EXCEPT ![req[r].token].used = TRUE]
  /\ user' = [password |-> user.password + 1, verified |-> user.verified \/ req[r].verify]
  /\ refresh' = Revoke(req[r].seen)
  /\ spent' = Append(spent, req[r].token)
  /\ Done(r)
  /\ UNCHANGED <<verification, clock, audit, origin, issued>>

(* ...and commits, unless another request used or superseded the token: the token is used,
   the password changed, the address verified and those sessions revoked. *)
ResetChange(r) ==
  /\ req[r].at = "change"
  /\ LET t == req[r].token
     IN IF reset[t].used THEN UNCHANGED <<user, reset, refresh, spent>>
        ELSE /\ reset' = [reset EXCEPT ![t].used = TRUE]
             /\ user' = [password |-> user.password + 1,
                         verified |-> user.verified \/ req[r].verify]
             /\ refresh' = Revoke(req[r].seen)
             /\ spent' = Append(spent, t)
  /\ Done(r)
  /\ UNCHANGED <<verification, clock, audit, origin, issued>>

(* POST /auth/verify-email: the token is read and must be within its term and unused (a
   used one of a verified user changes nothing)... *)
VerifyRead(r, t) ==
  /\ req[r] = Idle
  /\ t > clock["verification"] /\ ~verification[t].used
  /\ Becomes(r, [at |-> "mark", token |-> t])
  /\ UNCHANGED <<rows, history>>

(* ...and the token is used and the address verified in one transaction. *)
VerifyMark(r) ==
  /\ req[r].at = "mark"
  /\ verification' = [verification EXCEPT ![req[r].token].used = TRUE]
  /\ user' = [user EXCEPT !.verified = TRUE]
  /\ Done(r)
  /\ UNCHANGED <<refresh, reset, clock, audit, history>>

(* POST /auth/resend-verification: another token for an unverified user. *)
ResendRead(r) ==
  /\ req[r] = Idle
  /\ ~user.verified
  /\ Becomes(r, [at |-> "resend"])
  /\ UNCHANGED <<rows, history>>

ResendIssue(r) ==
  /\ req[r].at = "resend"
  /\ Len(verification) < MaxVerifications
  /\ verification' = Append(verification, [used |-> FALSE])
  /\ Done(r)
  /\ UNCHANGED <<user, refresh, reset, clock, audit, history>>

(* Time passes: the oldest row still within a term leaves it.  The cooldown of a reset
   token is over before its term is. *)
Elapse(c) ==
  /\ clock[c] < CASE c = "refresh" -> Len(refresh)
                  [] c = "cooldown" -> Len(reset)
                  [] c = "reset" -> clock["cooldown"]
                  [] c = "verification" -> Len(verification)
  /\ clock' = [clock EXCEPT ![c] = @ + 1]
  /\ UNCHANGED <<user, refresh, reset, verification, audit, req, history>>

(* The process stops or the transaction is aborted: nothing uncommitted remains. *)
Abandon(r) ==
  /\ req[r] # Idle
  /\ Done(r)
  /\ UNCHANGED <<rows, history>>

Call(r) ==
  \/ LoginRead(r) \/ ForgotRead(r) \/ AdminRead(r) \/ ResendRead(r)
  \/ \E t \in DOMAIN refresh : RefreshRead(r, t) \/ LogoutRead(r, t)
  \/ \E t \in DOMAIN reset : ResetRead(r, t)
  \/ \E t \in DOMAIN verification : VerifyRead(r, t)

Step(r) ==
  \/ LoginVerify(r) \/ LoginIssue(r)
  \/ Rotate(r) \/ ReuseSees(r) \/ Sweep(r) \/ RevokeOne(r)
  \/ ResetSees(r) \/ ResetIssue(r) \/ AdminAudit(r)
  \/ ResetSeesSessions(r) \/ ResetChange(r)
  \/ VerifyMark(r) \/ ResendIssue(r)
  \/ Abandon(r)

Next == (\E r \in Requests : Call(r) \/ Step(r)) \/ (\E c \in Clocks : Elapse(c))

Spec == Init /\ [][Next]_vars
-----------------------------------------------------------------------------
(* A login has one live refresh token at most, however many refreshes of the same token
   run at once: only the one that revokes it inserts a successor. *)
OneLivePerLogin ==
  \A t, u \in LiveSet : origin[t].login = origin[u].login => t = u

(* Every password change uses up a reset link that was unused until then: two requests
   with the same link, or a link read before a newer one superseded it, change the password
   once or not at all. *)
SpendsUnusedLink ==
  [][spent' # spent => LET t == Last(spent') IN ~reset[t].used /\ reset'[t].used]_vars

(* No session exists of a user whose address was never verified. *)
SessionsAreVerified == refresh # <<>> => user.verified

(* A used verification token belongs to a verified user: the branch of verifyEmail that
   refuses a used token of an unverified one is never taken. *)
UsedMeansVerified == (\E t \in DOMAIN verification : verification[t].used) => user.verified

(* Verification holds everywhere: no session and no used token of an unverified address, by
   whichever of login, reset and verifyEmail, and wherever they stop (and all rows are of
   their types, the chain of a token going forward). *)
VerificationHolds == TypeOK /\ SessionsAreVerified /\ UsedMeansVerified

(* The trail never records a link that was not issued. *)
TrailIsTrue == audit <= issued

(* The three below are checked with one request at a time.  Two at once break each of them:
   a login under way during a reset, two requests for a link, a rotation during a sweep. *)

(* A reset leaves no session opened with an earlier password: "trocar a senha e deixar o
   refresh antigo vivo anula a troca". *)
NoSessionOutlivesReset == \A t \in LiveSet : origin[t].password = user.password

(* One reset link works at most: "dois links vivos ao mesmo tempo e o mesmo que nao ter
   expiracao". *)
OneUsableReset == \A t, u \in DOMAIN reset : Usable(t) /\ Usable(u) => t = u

(* A reuse ends the whole chain of the token reused: "reuso derruba a cadeia inteira". *)
ReuseDropsChain ==
  [][\A r \in Requests : Sweep(r) =>
       \A t \in DOMAIN refresh' :
         origin'[t].login = origin[req[r].token].login => refresh'[t].revoked]_vars
=============================================================================
