----------------------------- MODULE StaffSignIn -----------------------------
(***************************************************************************)
(* Signing in to the dashboard with a password and an authenticator:       *)
(* staff_access/mfa.py, the sign-in pages of views.py and middleware.py.   *)
(*                                                                         *)
(* An authenticator shows one code per period of thirty seconds; a code of *)
(* the period before, of this or of the next one is accepted.  Ten         *)
(* recovery codes, handed out on enrolment, stand in for it.  The device   *)
(* row is locked while a code is looked at; sessions are browsers, in any  *)
(* number per person.                                                      *)
(***************************************************************************)
EXTENDS Integers, FiniteSets

CONSTANTS
    People,         \* staff users
    Browsers,       \* sessions
    RecoveryCodes,  \* the recovery codes of an enrolment
    MaxPeriod,      \* bound: periods of thirty seconds
    MaxEnrolment    \* bound: secrets a person is given, one after the other

ASSUME SignInAssumption ==
    /\ MaxPeriod \in Nat /\ MaxEnrolment \in Nat
    /\ RecoveryCodes \cap (0 .. MaxPeriod) = {}

VARIABLES
    period,         \* the current period
    device,         \* device[u]: StaffMFADevice
    secret,         \* secret[u]: which enrolment the secret of u is from
    person,         \* person[u]: is_active and force_password_change
    session,        \* session[b]: what the session of the browser holds
    accepted        \* history: accepted[u][x], how often code x of the secret was taken

signInVars == <<period, device, secret, person, session, accepted>>

Nobody == "nobody"
Periods == 0 .. MaxPeriod
NoDevice  == [status |-> "none", last |-> -1, recovery |-> {}]
Pending   == [NoDevice EXCEPT !.status = "pending"]
Anonymous == [user |-> Nobody, preauth |-> Nobody, verified |-> FALSE, reauth |-> FALSE]

Unused == [x \in Periods \cup RecoveryCodes |-> 0]

Enabled(u) == device[u].status = "enabled"

\* request.user: a person who is not active is anonymous.
On(b) == session[b].user
SignedOn(b) == On(b) # Nobody /\ person[On(b)].active

\* The middleware signs a session out that has not verified an enabled device, and
\* sends the others to the password page while a new password is forced.
Verified(b) == SignedOn(b) /\ (Enabled(On(b)) => session[b].verified)
Admitted(b) == Verified(b) /\ ~person[On(b)].force

-----------------------------------------------------------------------------
(* Codes *)

\* _matching_counter: the period of a code that would be accepted now.
Matching == {n \in Periods : n \in period - 1 .. period + 1}

\* verify_mfa_code: a code of a period after the last one, or an unused recovery code.
Acceptable(u) ==
    {n \in Matching : n > device[u].last} \cup device[u].recovery

\* The device once it has taken the code x.
Struck(d, x) ==
    IF x \in Periods THEN [d EXCEPT !.last = x] ELSE [d EXCEPT !.recovery = @ \ {x}]

Spent(u, x) == device' = [device EXCEPT ![u] = Struck(@, x)]

Counted(u, x) == accepted' = [accepted EXCEPT ![u][x] = @ + 1]

\* Slip: the code that enables the device may be given again at the next sign-in.
EnabledWithoutPeriod(n) == [status |-> "enabled", last |-> -1, recovery |-> RecoveryCodes]

\* The device after enable_mfa with the code of period n.
EnabledAt(n) == [status |-> "enabled", last |-> n, recovery |-> RecoveryCodes]

-----------------------------------------------------------------------------
(* The pages *)

\* login(): the session of somebody else is emptied first.
Renewed(b) == IF On(b) = Nobody THEN session[b] ELSE Anonymous

\* login_view: with an enabled device the password opens the challenge only.
SignIn(b, u) ==
    /\ ~SignedOn(b)
    /\ person[u].active
    /\ session' = [session EXCEPT ![b] = IF Enabled(u) THEN [@ EXCEPT !.preauth = u]
                                         ELSE [Renewed(b) EXCEPT !.user = u]]
    /\ UNCHANGED <<period, device, secret, person, accepted>>

\* mfa_challenge; the keys of the first half are cleared before login().
Challenge(b, x) ==
    LET u == session[b].preauth IN
    /\ ~SignedOn(b)
    /\ u # Nobody /\ person[u].active /\ Enabled(u)
    /\ x \in Acceptable(u)
    /\ Spent(u, x) /\ Counted(u, x)
    /\ session' = [session EXCEPT ![b] = [Anonymous EXCEPT !.user = u, !.verified = TRUE]]
    /\ UNCHANGED <<period, secret, person>>

\* STAFF_MFA_PREAUTH_TTL passes, or the person or the device is gone: _mfa_preauth_user.
ForgetPreauth(b) ==
    /\ session[b].preauth # Nobody
    /\ session' = [session EXCEPT ![b].preauth = Nobody]
    /\ UNCHANGED <<period, device, secret, person, accepted>>

\* mfa_setup, "reauth": the password again, and a device with a new secret if none;
\* the page opened again within its time does the same.
Reauthenticate(b) ==
    LET u == On(b) IN
    /\ Admitted(b) /\ ~Enabled(u)
    /\ device[u] = NoDevice => secret[u] < MaxEnrolment
    /\ device' = [device EXCEPT ![u] = Pending]
    /\ secret' = [secret EXCEPT ![u] = IF device[u] = NoDevice THEN @ + 1 ELSE @]
    /\ accepted' = [accepted EXCEPT ![u] = IF device[u] = NoDevice THEN Unused ELSE @]
    /\ session' = [session EXCEPT ![b].reauth = TRUE]
    /\ UNCHANGED <<period, person>>

\* Three hundred seconds later.
ForgetReauth(b) ==
    /\ session[b].reauth
    /\ session' = [session EXCEPT ![b].reauth = FALSE]
    /\ UNCHANGED <<period, device, secret, person, accepted>>

\* mfa_setup, "enable".
Enable(b, n) ==
    LET u == On(b) IN
    /\ Admitted(b)
    /\ session[b].reauth
    /\ device[u] = Pending
    /\ n \in Matching
    /\ device' = [device EXCEPT ![u] = EnabledAt(n)]
    /\ Counted(u, n)
    /\ session' = [session EXCEPT ![b].reauth = FALSE, ![b].verified = TRUE]
    /\ UNCHANGED <<period, secret, person>>

\* The next request of a session that has not verified the device, an idle one, the
\* logout page.
SignOut(b) ==
    /\ On(b) # Nobody
    /\ session' = [session EXCEPT ![b] = Anonymous]
    /\ UNCHANGED <<period, device, secret, person, accepted>>

\* password_change
ChangePassword(b) ==
    /\ Verified(b)
    /\ person' = [person EXCEPT ![On(b)].force = FALSE]
    /\ session' = [c \in Browsers |->
                      IF c # b /\ On(c) = On(b) THEN Anonymous ELSE session[c]]
    /\ UNCHANGED <<period, device, secret, accepted>>

-----------------------------------------------------------------------------
(* What others do to a person *)

\* The user form with a new password, or a password reset by mail, which forces nothing.
SetPassword(u, force) ==
    /\ person' = [person EXCEPT ![u].force = @ \/ force]
    /\ session' = [b \in Browsers |-> IF On(b) = u THEN Anonymous ELSE session[b]]
    /\ UNCHANGED <<period, device, secret, accepted>>

Toggle(u) ==
    /\ person' = [person EXCEPT ![u].active = ~@]
    /\ UNCHANGED <<period, device, secret, session, accepted>>

\* user_mfa_reset: the device and its codes are deleted, the sessions stay.
ResetMFA(u) ==
    /\ device[u] # NoDevice
    /\ device' = [device EXCEPT ![u] = NoDevice]
    /\ UNCHANGED <<period, secret, person, session, accepted>>

Tick ==
    /\ period < MaxPeriod
    /\ period' = period + 1
    /\ UNCHANGED <<device, secret, person, session, accepted>>

-----------------------------------------------------------------------------

SignInInit ==
    /\ period = 0
    /\ device = [u \in People |-> NoDevice]
    /\ secret = [u \in People |-> 0]
    /\ person = [u \in People |-> [active |-> TRUE, force |-> FALSE]]
    /\ session = [b \in Browsers |-> Anonymous]
    /\ accepted = [u \in People |-> Unused]

SignInPages ==
    \E b \in Browsers :
        \/ \E u \in People : SignIn(b, u)
        \/ \E x \in Periods \cup RecoveryCodes : Challenge(b, x)
        \/ ForgetPreauth(b) \/ Reauthenticate(b) \/ ForgetReauth(b)
        \/ \E n \in Periods : Enable(b, n)
        \/ SignOut(b) \/ ChangePassword(b)

StaffPages ==
    \E u \in People :
        \/ \E force \in BOOLEAN : SetPassword(u, force)
        \/ Toggle(u) \/ ResetMFA(u)

SignInNext == SignInPages \/ StaffPages \/ Tick

SignInSpec == SignInInit /\ [][SignInNext]_signInVars

-----------------------------------------------------------------------------
(* Properties *)

\* "TOTP replay is blocked, recovery codes are one-time"
\* (SECURITY_GO_LIVE_REVIEW.md:22): in whichever browser and order they are given,
\* no code of a secret is taken twice, the one that enabled the device included.
CodesTakenOnce ==
    \A u \in People : \A x \in DOMAIN accepted[u] : accepted[u][x] <= 1
=============================================================================
