------------------------------- MODULE SignIn -------------------------------
(***************************************************************************)
(* Signing in to one account from several browsers: password, forced       *)
(* change, second factor or enrolment, as app/routers/auth.py and          *)
(* app/security/deps.py lead a browser from page to page, while sessions   *)
(* expire and others reset, disable and delete.                            *)
(*                                                                         *)
(* The person knows the password and has the devices.  A GET and the POST  *)
(* that follows it are one step where nothing depends on what the GET      *)
(* showed.  A session that no cookie leads to any more is left out.        *)
(*                                                                         *)
(* WebAuthn challenges pile up in their table, and the newest one of the   *)
(* account and kind is used, which is deleted if it fits.  One that fits   *)
(* nobody stays and hides all before it; these are left out.               *)
(***************************************************************************)
EXTENDS Naturals, Sequences, SequencesExt

CONSTANTS
    Browsers,   \* where the person signs in
    MaxDeeds    \* bound on expiries, resets and the like (for model checking)

VARIABLES
    prod,       \* VCM_MODE is not "dev"
    user,       \* the account's row, and whether it has a passkey
    session,    \* session[b]: the row that b's cookie leads to
    at,         \* at[b]: the page b is at or on its way to
    shown,      \* shown[b]: b shows the account's TOTP secret
    asked,      \* asked[k]: whose challenges of kind k may still be met, oldest first
    deeds       \* the number of expiries, resets and the like

vars == <<prod, user, session, at, shown, asked, deeds>>

NoSession == [there |-> FALSE, ok |-> FALSE, expired |-> FALSE]
-----------------------------------------------------------------------------
HasMfa == user.confirmed \/ user.key

\* get_session finds a row.
Alive(b) == session[b].there /\ ~session[b].expired

\* _partial_session: a session with or without its second factor; the account
\* may be disabled.
Partial(b) == Alive(b) /\ user.there

Goto(b, page) == at' = [at EXCEPT ![b] = page]

\* mark_mfa_ok.
MarkOk(b) == session' = [session EXCEPT ![b].ok = TRUE]

\* Where somebody is sent whose password was right.
AfterPassword ==
    CASE user.must -> "first"
      [] ~user.must /\ HasMfa -> "mfa"
      [] ~user.must /\ ~HasMfa /\ prod -> "enroll"
      [] OTHER -> "page"

Login(b) ==
    /\ at[b] = "login"
    /\ user.there /\ ~user.disabled
    /\ session' = [session EXCEPT ![b] = [there |-> TRUE, ok |-> ~HasMfa, expired |-> FALSE]]
    /\ Goto(b, AfterPassword)
    /\ UNCHANGED <<prod, user, shown, asked, deeds>>

\* Nothing but an audit row comes of it.
LoginFails(b) ==
    /\ at[b] = "login" /\ (~user.there \/ user.disabled)
    /\ UNCHANGED vars

\* current_user: where a request for a page ends.
Gate(b) ==
    LET admitted == Partial(b) /\ ~user.disabled IN
    CASE ~admitted -> "login"
      [] admitted /\ user.must -> "first"
      [] admitted /\ ~user.must /\ HasMfa /\ ~session[b].ok -> "mfa"
      [] admitted /\ ~user.must /\ ~HasMfa /\ prod -> "enroll"
      [] OTHER -> "in"

\* A redirect is an exception, and get_db takes back the deletion of an expired
\* session.
Visit(b) ==
    /\ at[b] = "page"
    /\ Goto(b, Gate(b))
    /\ UNCHANGED <<prod, user, session, shown, asked, deeds>>

\* Any page that needs a session finds none; an expired one is deleted.
SentAway(b) ==
    /\ at[b] \in {"first", "mfa", "enroll"} /\ ~Partial(b)
    /\ session' = [session EXCEPT ![b] = IF @.expired THEN NoSession ELSE @]
    /\ Goto(b, "login")
    /\ UNCHANGED <<prod, user, shown, asked, deeds>>

\* first_password_form redirects if there is nothing to change.
FirstPassword(b) ==
    /\ at[b] = "first" /\ Partial(b)
    /\ user' = [user EXCEPT !.must = FALSE]
    /\ Goto(b, "page")
    /\ UNCHANGED <<prod, session, shown, asked, deeds>>

\* mfa_gate lets pass whoever has shown a factor, and links to the enrolment if
\* there is none.
MfaGate(b) ==
    /\ at[b] = "mfa" /\ Partial(b)
    /\ \/ session[b].ok /\ Goto(b, "page")
       \/ ~session[b].ok /\ ~HasMfa /\ Goto(b, "enroll")
    /\ UNCHANGED <<prod, user, session, shown, asked, deeds>>

\* The page has a field for the code only if the secret is confirmed.
MfaTotp(b) ==
    /\ at[b] = "mfa" /\ Partial(b) /\ ~session[b].ok /\ user.confirmed
    /\ MarkOk(b)
    /\ Goto(b, "page")
    /\ UNCHANGED <<prod, user, shown, asked, deeds>>

\* Mistake: the oldest challenge is looked up.
CurrentOldest(k) == Head(asked[k])

\* Whose challenge of a kind is looked up now.
Current(k) == Last(asked[k])

\* A new challenge for b: its former one, and those before it, are never met.
Ask(k, b) ==
    asked' = [asked EXCEPT ![k] =
        Append(SubSeq(@, 1 + SelectInSeq(@, LAMBDA c : c = b), Len(@)), b)]

Meets(k, b) == asked[k] # <<>> /\ Current(k) = b
Spend(k) == asked' = [asked EXCEPT ![k] = Front(@)]

\* passkey_auth_options.
AskAssertion(b) ==
    /\ at[b] = "mfa" /\ Partial(b) /\ ~session[b].ok /\ user.key
    /\ Ask("auth", b)
    /\ Goto(b, "asserting")
    /\ UNCHANGED <<prod, user, session, shown, deeds>>

\* passkey_auth_verify.
VerifyAssertion(b) ==
    /\ at[b] = "asserting" /\ Partial(b) /\ user.key /\ Meets("auth", b)
    /\ Spend("auth")
    /\ MarkOk(b)
    /\ Goto(b, "page")
    /\ UNCHANGED <<prod, user, shown, deeds>>

\* No session, no such credential, no challenge, or somebody else's.
AssertionFails(b) ==
    /\ at[b] = "asserting" /\ ~(Partial(b) /\ user.key /\ Meets("auth", b))
    /\ Goto(b, "mfa")
    /\ UNCHANGED <<prod, user, session, shown, asked, deeds>>

\* enroll_form makes a secret if there is none.
EnrollForm(b) ==
    /\ at[b] = "enroll" /\ Partial(b)
    /\ user' = [user EXCEPT !.secret = TRUE]
    /\ shown' = [shown EXCEPT ![b] = TRUE]
    /\ UNCHANGED <<prod, session, at, asked, deeds>>

\* enroll_totp_confirm, for a code of the secret shown.
EnrollTotp(b) ==
    /\ at[b] = "enroll" /\ Partial(b) /\ shown[b]
    /\ user' = [user EXCEPT !.confirmed = TRUE]
    /\ MarkOk(b)
    /\ shown' = [shown EXCEPT ![b] = FALSE]
    /\ Goto(b, "page")
    /\ UNCHANGED <<prod, asked, deeds>>

\* enroll_passkey_options, _verify and its failures.
AskRegistration(b) ==
    /\ at[b] = "enroll" /\ Partial(b)
    /\ Ask("register", b)
    /\ Goto(b, "registering")
    /\ UNCHANGED <<prod, user, session, shown, deeds>>

VerifyRegistration(b) ==
    /\ at[b] = "registering" /\ Partial(b) /\ Meets("register", b)
    /\ Spend("register")
    /\ user' = [user EXCEPT !.key = TRUE]
    /\ MarkOk(b)
    /\ Goto(b, "page")
    /\ UNCHANGED <<prod, shown, deeds>>

RegistrationFails(b) ==
    /\ at[b] = "registering" /\ ~(Partial(b) /\ Meets("register", b))
    /\ Goto(b, "enroll")
    /\ UNCHANGED <<prod, user, session, shown, asked, deeds>>
-----------------------------------------------------------------------------
\* What else may happen to the account and its sessions.
Deed == deeds < MaxDeeds /\ deeds' = deeds + 1 /\ UNCHANGED <<prod, asked>>

Expire(b) ==
    /\ Deed /\ Alive(b)
    /\ session' = [session EXCEPT ![b].expired = TRUE]
    /\ UNCHANGED <<user, at, shown>>

\* A secret that was shown and is gone opens nothing any more.
WithoutTotp == [user EXCEPT !.secret = FALSE, !.confirmed = FALSE]
NothingShown == shown' = [b \in Browsers |-> FALSE]

\* toggle_user, reset_mfa and delete_user of an admin.
Toggle == /\ Deed /\ user.there
          /\ user' = [user EXCEPT !.disabled = ~@]
          /\ UNCHANGED <<session, at, shown>>

ResetMfa == /\ Deed /\ user.there
            /\ user' = [WithoutTotp EXCEPT !.key = FALSE]
            /\ NothingShown
            /\ UNCHANGED <<session, at>>

DeleteUser == /\ Deed /\ user.there
              /\ user' = [user EXCEPT !.there = FALSE]
              /\ UNCHANGED <<session, at, shown>>

\* What the person does once in: reset_totp, delete_passkey, revoke_others.
ResetTotp(b) ==
    /\ Deed /\ at[b] = "in" /\ Gate(b) = "in" /\ user.key
    /\ user' = WithoutTotp
    /\ NothingShown
    /\ UNCHANGED <<session, at>>

DeletePasskey(b) ==
    /\ Deed /\ at[b] = "in" /\ Gate(b) = "in" /\ user.key /\ user.confirmed
    /\ user' = [user EXCEPT !.key = FALSE]
    /\ UNCHANGED <<session, at, shown>>

RevokeOthers(b) ==
    /\ Deed /\ at[b] = "in" /\ Gate(b) = "in"
    /\ session' = [c \in Browsers |-> IF c = b THEN session[c] ELSE NoSession]
    /\ UNCHANGED <<user, at, shown>>

Logout(b) ==
    /\ Deed /\ at[b] # "login"
    /\ session' = [session EXCEPT ![b] = NoSession]
    /\ Goto(b, "login")
    /\ UNCHANGED <<user, shown>>

\* The next page is asked for.
Browse(b) ==
    /\ at[b] = "in"
    /\ Goto(b, "page")
    /\ UNCHANGED <<prod, user, session, shown, asked, deeds>>
-----------------------------------------------------------------------------
Init ==
    /\ prod \in BOOLEAN
    /\ user \in [there : {TRUE}, disabled : {FALSE}, must : BOOLEAN,
                 secret : BOOLEAN, confirmed : BOOLEAN, key : BOOLEAN]
    /\ user.confirmed => user.secret
    /\ session = [b \in Browsers |-> NoSession]
    /\ at = [b \in Browsers |-> "page"]
    /\ shown = [b \in Browsers |-> FALSE]
    /\ asked = [k \in {"auth", "register"} |-> <<>>]
    /\ deeds = 0

\* The person goes on from the page the browser is at.
Proceed(b) ==
    \/ Login(b) \/ Visit(b) \/ SentAway(b) \/ FirstPassword(b)
    \/ MfaGate(b) \/ MfaTotp(b)
    \/ AskAssertion(b) \/ VerifyAssertion(b) \/ AssertionFails(b)
    \/ EnrollForm(b) \/ EnrollTotp(b)
    \/ AskRegistration(b) \/ VerifyRegistration(b) \/ RegistrationFails(b)

Next ==
    \/ \E b \in Browsers :
          \/ Proceed(b) \/ LoginFails(b) \/ Browse(b) \/ Logout(b) \/ Expire(b)
          \/ ResetTotp(b) \/ DeletePasskey(b) \/ RevokeOthers(b)
    \/ Toggle \/ ResetMfa \/ DeleteUser

Spec == Init /\ [][Next]_vars /\ \A b \in Browsers : WF_vars(Proceed(b))
-----------------------------------------------------------------------------
MayEnter == user.there /\ ~user.disabled

\* Another browser's challenge becomes the newest while b's is being signed.
Overtaken(b) ==
    /\ at[b] \in {"asserting", "registering"} /\ at'[b] = at[b]
    /\ \E k \in DOMAIN asked : Meets(k, b) /\ ~Meets(k, b)'

\* The redirects lead somewhere: whoever starts at any page, at any moment of
\* resets, expiries and enrolments elsewhere, ends up signed in, unless the
\* account is disabled or gone or browsers overtake each other's challenge for
\* ever.
SignInEnds ==
    \A b \in Browsers :
        \/ []<><<Overtaken(b)>>_vars
        \/ at[b] # "in" ~> (at[b] = "in" \/ ~MayEnter)
=============================================================================
