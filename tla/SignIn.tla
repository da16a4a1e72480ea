------------------------------- MODULE SignIn -------------------------------
(***************************************************************************)
(* Signing in to the dashboard: one account, several browsers.             *)
(* dashboard/views.py (sign_in, verify, enrol, sign_out_view), auth.py and *)
(* throttle.py, over the account's profile row, the browsers' sessions and *)
(* the throttle's keys in Redis.                                           *)
(*                                                                         *)
(* A browser has one request in flight.  Its session changes when the      *)
(* response is sent, in the request's last step.  A Redis call that fails  *)
(* is skipped (the throttle fails open), and a worker may die in any       *)
(* request; both are bounded by MaxFaults.                                 *)
(*                                                                         *)
(* A tick is a TOTP step of 30 seconds.  Time is relative: a key holds the *)
(* ticks it has left and a code its distance from the current step, so a   *)
(* behaviour may tick for ever.  A key expires at the start of its last    *)
(* tick, the earliest moment it can.                                       *)
(***************************************************************************)
EXTENDS Integers, FiniteSets

CONSTANTS
    Browsers,
    Spellings,        \* the ways one code can be typed that compare equal
    AsShown,          \* the one in which the phone shows it
    FREE_ATTEMPTS,
    BASE_LOCKOUT,     \* the lockouts, the window and the replay guard in ticks
    MAX_LOCKOUT,
    ATTEMPT_WINDOW,
    CODE_REPLAY,
    MaxSecrets,       \* bound: secrets generated
    MaxFaults,        \* bound: Redis calls that fail, requests that die, spare secrets
    MaxCodes,         \* bound: codes the replay guard holds at one time
    MaxCounters,      \* bound: failure counters at one time
    None

ASSUME SignInAssumption ==
    /\ IsFiniteSet(Browsers) /\ AsShown \in Spellings
    /\ {FREE_ATTEMPTS, BASE_LOCKOUT, MAX_LOCKOUT, ATTEMPT_WINDOW, CODE_REPLAY, MaxSecrets}
         \subseteq Nat \ {0}
    /\ {MaxFaults, MaxCodes, MaxCounters} \subseteq Nat
    /\ BASE_LOCKOUT <= MAX_LOCKOUT /\ MAX_LOCKOUT < ATTEMPT_WINDOW
    /\ None \notin Nat

Scopes == {"sign-in", "second-factor"}

\* Secrets are numbered in the order random_base32 makes them.
Secrets == 1..MaxSecrets

\* The distance of a code's step from the current one.  verify accepts -1 to
\* 1 (valid_window=1); a phone that runs fast also shows the code at 2.
Offsets == -1..2

\* A code as it was typed.  verify compares the NFKC forms, so the same six
\* digits may be typed in several ways (in fullwidth digits, say).
Codes == Secrets \X Offsets \X Spellings

\* Counts above this differ in nothing the code does.
CountCap == FREE_ATTEMPTS + Cardinality(Browsers) + MaxFaults + 1

NewProfile == [totp_secret |-> None, confirmed |-> FALSE]
NoKey == [count |-> 0, ttl |-> None]
NoSession == [user |-> FALSE, factor |-> FALSE]

Idle == [at |-> "idle", scope |-> None, copy |-> NewProfile, failures |-> 0]

VARIABLES
    profile,    \* the account's row
    session,    \* each browser's session
    request,    \* each browser's request in flight and the row it read
    counter,    \* Redis: the failure counter of each scope
    burned,     \* Redis: ticks left for the replay guard of each typed code, 0 if none
    secrets,    \* how many secrets have been generated
    faults,
    accepted,   \* history: acceptances of each typed code that the guard let through
    proved,     \* history: the secret each session's code was checked against
    overtaken   \* history: an enrolment was saved over a row it had not read

vars == <<profile, session, request, counter, burned, secrets, faults,
          accepted, proved, overtaken>>

Init ==
    /\ profile = NewProfile
    /\ session = [b \in Browsers |-> NoSession]
    /\ request = [b \in Browsers |-> Idle]
    /\ counter = [s \in Scopes |-> NoKey]
    /\ burned = [c \in Codes |-> 0]
    /\ secrets = 0
    /\ faults = 0
    /\ accepted = [c \in Codes |-> 0]
    /\ proved = [b \in Browsers |-> None]
    /\ overtaken = FALSE

-----------------------------------------------------------------------------
(* The profile and the throttle's decisions.                               *)

Has_second_factor(p) == p.totp_secret # None /\ p.confirmed

\* Mutant: one free attempt too many.
lockout_seconds_one_more(s) ==
    IF counter[s].count <= FREE_ATTEMPTS + 1 \/ counter[s].ttl = None THEN 0 ELSE counter[s].ttl

\* A key without a TTL answers -1, which locks nobody out.
lockout_seconds(s) ==
    IF counter[s].count <= FREE_ATTEMPTS \/ counter[s].ttl = None THEN 0 ELSE counter[s].ttl

\* The TTL record_failure sets after counting the n-th failure.
wait_after(n) ==
    IF n <= FREE_ATTEMPTS THEN ATTEMPT_WINDOW
    ELSE LET wait == BASE_LOCKOUT * 2^(n - FREE_ATTEMPTS - 1)
         IN IF wait < MAX_LOCKOUT THEN wait ELSE MAX_LOCKOUT

\* A code is as good as its step is near, however it is spelled: pyotp's
\* verify with valid_window=1.
InStep(c) == c[2] \in -1..1

\* Mutant: the guard forgets a code a step early.
burned_by_a_shorter_guard(c) ==
    IF burned[c] = 0 THEN [burned EXCEPT ![c] = CODE_REPLAY - 1] ELSE burned

\* consume_code: SET NX EX.  It burns the text that was typed, as it was
\* typed, right or wrong; another spelling of the code has a key of its own.
burned_by(c) == IF burned[c] = 0 THEN [burned EXCEPT ![c] = CODE_REPLAY] ELSE burned

\* The secret begin_enrolment shows: the row's own while it is unconfirmed,
\* a fresh one otherwise.
secret_for(p) == IF p.totp_secret # None THEN p.totp_secret ELSE secrets + 1

\* Mutant: an attempt refused with 429 counts as a failure.
after_lockout_counting(b, s) == [request EXCEPT ![b] = [Idle EXCEPT !.at = "failed", !.scope = s]]

\* Where a browser refused with 429 goes: nothing is counted.
after_lockout(b, s) == [request EXCEPT ![b] = Idle]

\* Mutant: the flag of the last sign-in survives the new one.
session_started_keeping_factor(b) == [user |-> TRUE, factor |-> session[b].factor]

\* start_session clears the flag that the views check.
session_started(b) == [user |-> TRUE, factor |-> FALSE]

\* The bounds on what happens in one behaviour.  The two scopes share no key,
\* and a second secret comes only from enrolments that race, before any code
\* is typed.  A code is typed in another spelling only after it was typed as
\* shown; a fault fewer is left while the guard holds both.
Held == {c \in Codes : burned[c] > 0 \/ accepted[c] > 0}
Shown(c) == <<c[1], c[2], AsShown>>
Respelled == Cardinality({c \in Held : c[3] # AsShown})
Spare == IF secrets = 0 THEN 0 ELSE secrets - 1
Counting(scopes) == Cardinality({s \in scopes : counter[s] # NoKey})
MayMiss(s) == Counting(Scopes \ {s}) + Spare < MaxCounters
MayRace == secrets = 0 \/ (faults + Spare < MaxFaults /\ Counting(Scopes) + Spare < MaxCounters)
MayBurn(c) ==
    /\ Cardinality({Shown(d) : d \in Held} \ {Shown(c)}) + Spare < MaxCodes
    /\ c \in Held \/ c[3] = AsShown \/ (Shown(c) \in Held /\ faults + Respelled < MaxFaults)

\* A fault is available: a Redis call may raise, and the caller goes on.
Fails == faults + Spare + Respelled < MaxFaults /\ faults' = faults + 1
Works == UNCHANGED faults

\* The lockout check passes, or cannot be made.
LetThrough(s) == IF lockout_seconds(s) = 0 THEN Works ELSE Fails

\* A failed attempt is only a scope to count in.
Failed(b) == [request EXCEPT ![b] = [Idle EXCEPT !.at = "failed", !.scope = request[b].scope]]

At(b, place) == request[b].at = place
Done(b) == request' = [request EXCEPT ![b] = Idle]

-----------------------------------------------------------------------------
(* sign_in: the lockout check, the password, the counter.                  *)

PostSignIn(b) ==
    /\ At(b, "idle")
    /\ \/ /\ lockout_seconds("sign-in") > 0 /\ Works
          /\ request' = after_lockout(b, "sign-in")
       \/ /\ LetThrough("sign-in")
          /\ request' = [request EXCEPT ![b].at = "password", ![b].scope = "sign-in"]
    /\ UNCHANGED <<profile, session, counter, burned, secrets, accepted, proved, overtaken>>

CheckPassword(b) ==
    /\ At(b, "password")
    /\ \/ request' = [request EXCEPT ![b].at = "clearing"]
       \/ MayMiss("sign-in") /\ request' = Failed(b)
    /\ UNCHANGED <<profile, session, counter, burned, secrets, faults, accepted, proved, overtaken>>

(* verify: the row is read and the lockout checked, then the code.         *)

PostCode(b) ==
    /\ At(b, "idle") /\ session[b].user /\ Has_second_factor(profile)
    /\ \/ /\ lockout_seconds("second-factor") > 0 /\ Works
          /\ request' = after_lockout(b, "second-factor")
       \/ /\ LetThrough("second-factor")
          /\ request' = [request EXCEPT ![b] =
                           [at |-> "code", scope |-> "second-factor", copy |-> profile, failures |-> 0]]
    /\ UNCHANGED <<profile, session, counter, burned, secrets, accepted, proved, overtaken>>

\* consume_code, then verify_second_factor with the secret that was read.  A
\* guard that cannot be reached accepts the code.
CheckCode(b) ==
    /\ At(b, "code")
    /\ MayMiss("second-factor")
    /\ \/ \E c \in {d \in Codes : d[1] = request[b].copy.totp_secret /\ MayBurn(d)} :
            LET after(fresh) == IF fresh /\ InStep(c) THEN [request EXCEPT ![b].at = "clearing"] ELSE Failed(b)
            IN \/ /\ Works
                  /\ burned' = burned_by(c)
                  /\ request' = after(burned[c] = 0)
                  /\ accepted' = [accepted EXCEPT ![c] = IF burned[c] = 0 /\ InStep(c) THEN @ + 1 ELSE @]
               \/ /\ Fails
                  /\ request' = after(TRUE)
                  /\ UNCHANGED <<burned, accepted>>
       \/ /\ request' = Failed(b)      \* any other digits
          /\ UNCHANGED <<burned, accepted, faults>>
    /\ UNCHANGED <<profile, session, counter, secrets, proved, overtaken>>

(* What both endings share: record_failure in two calls, or clear.         *)

Incr(b) ==
    /\ At(b, "failed")
    /\ LET s == request[b].scope
           n == IF counter[s].count < CountCap THEN counter[s].count + 1 ELSE CountCap
       IN \/ /\ Works
             /\ counter' = [counter EXCEPT ![s].count = n]
             /\ request' = [request EXCEPT ![b].at = "counted", ![b].failures = n]
          \/ Fails /\ Done(b) /\ UNCHANGED counter
    /\ UNCHANGED <<profile, session, burned, secrets, accepted, proved, overtaken>>

\* EXPIRE does nothing to a key that is gone.
Expire(b) ==
    /\ At(b, "counted")
    /\ LET s == request[b].scope
       IN \/ /\ Works
             /\ counter' = IF counter[s].count = 0 THEN counter
                           ELSE [counter EXCEPT ![s].ttl = wait_after(request[b].failures)]
          \/ Fails /\ UNCHANGED counter
    /\ Done(b)
    /\ UNCHANGED <<profile, session, burned, secrets, accepted, proved, overtaken>>

Clear(b) ==
    /\ At(b, "clearing")
    /\ LET s == request[b].scope
       IN /\ \/ Works /\ counter' = [counter EXCEPT ![s] = NoKey]
             \/ Fails /\ UNCHANGED counter
          /\ IF s = "sign-in"
             THEN /\ session' = [session EXCEPT ![b] = session_started(b)]
                  /\ proved' = [proved EXCEPT ![b] = None]
             ELSE /\ session' = [session EXCEPT ![b].factor = TRUE]
                  /\ proved' = [proved EXCEPT ![b] = request[b].copy.totp_secret]
    /\ Done(b)
    /\ UNCHANGED <<profile, burned, secrets, accepted, overtaken>>

(* enrol: the page, which a mismatched code renders again, and the code.   *)

\* current_profile, then begin_enrolment: it saves only a secret that the
\* row it read does not have.
EnrolPage(b) ==
    /\ At(b, "idle") /\ session[b].user /\ ~Has_second_factor(profile)
    /\ secret_for(profile) # profile.totp_secret
    /\ secrets < MaxSecrets /\ MayRace
    /\ secrets' = secrets + 1
    /\ request' = [request EXCEPT ![b] =
                     [at |-> "enrolling", scope |-> None, failures |-> 0,
                      copy |-> [totp_secret |-> secret_for(profile), confirmed |-> FALSE]]]
    /\ UNCHANGED <<profile, session, counter, burned, faults, accepted, proved, overtaken>>

SaveSecret(b) ==
    /\ At(b, "enrolling")
    /\ profile' = request[b].copy
    /\ overtaken' = (overtaken \/ profile.totp_secret # None \/ profile.confirmed)
    /\ Done(b)
    /\ UNCHANGED <<session, counter, burned, secrets, faults, accepted, proved>>

\* confirm_enrolment on a matching code: neither throttled nor burned.
PostEnrolment(b) ==
    /\ At(b, "idle") /\ session[b].user /\ ~Has_second_factor(profile)
    /\ profile.totp_secret # None
    /\ request' = [request EXCEPT ![b].at = "confirming", ![b].copy = profile]
    /\ UNCHANGED <<profile, session, counter, burned, secrets, faults, accepted, proved, overtaken>>

\* Saves totp_confirmed_at alone, then marks the session.
SaveConfirmed(b) ==
    /\ At(b, "confirming")
    /\ profile' = [profile EXCEPT !.confirmed = TRUE]
    /\ session' = [session EXCEPT ![b].factor = TRUE]
    /\ proved' = [proved EXCEPT ![b] = request[b].copy.totp_secret]
    /\ Done(b)
    /\ UNCHANGED <<counter, burned, secrets, faults, accepted, overtaken>>

sign_out(b) ==
    /\ At(b, "idle") /\ session[b].user
    /\ session' = [session EXCEPT ![b] = NoSession]
    /\ proved' = [proved EXCEPT ![b] = None]
    /\ UNCHANGED <<profile, request, counter, burned, secrets, faults, accepted, overtaken>>

\* The worker dies: the browser sees an error and keeps its session.
Die(b) ==
    /\ ~At(b, "idle") /\ Fails /\ Done(b)
    /\ UNCHANGED <<profile, session, counter, burned, secrets, accepted, proved, overtaken>>

\* Thirty seconds: Redis expires keys and every code moves one step back.
Aged(key) == IF key.ttl = None THEN key
             ELSE IF key.ttl = 1 THEN NoKey ELSE [key EXCEPT !.ttl = @ - 1]

Tick ==
    /\ counter' = [s \in Scopes |-> Aged(counter[s])]
    /\ burned' = [c \in Codes |-> IF c[2] = 2 THEN 0
                                  ELSE LET left == burned[<<c[1], c[2] + 1, c[3]>>]
                                       IN IF left = 0 THEN 0 ELSE left - 1]
    /\ accepted' = [c \in Codes |-> IF c[2] = 2 THEN 0 ELSE accepted[<<c[1], c[2] + 1, c[3]>>]]
    /\ UNCHANGED <<profile, session, request, secrets, faults, proved, overtaken>>

Step(b) ==
    \/ PostSignIn(b) \/ CheckPassword(b) \/ PostCode(b) \/ CheckCode(b)
    \/ Incr(b) \/ Expire(b) \/ Clear(b)
    \/ EnrolPage(b) \/ SaveSecret(b) \/ PostEnrolment(b) \/ SaveConfirmed(b)
    \/ sign_out(b) \/ Die(b)

Next == Tick \/ \E b \in Browsers : Step(b)

\* Time passes; nobody has to answer.
Spec == Init /\ [][Next]_vars /\ WF_vars(Tick)

-----------------------------------------------------------------------------
(* What the sign-in promises.                                              *)

\* The guard of every dashboard view (signed_in).
MaySee(b) == session[b].user /\ Has_second_factor(profile) /\ session[b].factor

\* verify accepts a typed text once while the replay guard can be reached: the
\* guard lasts as long as the code does, from the first step that accepts it
\* (throttle.py: "Each accepted code is burned for the length of its
\* validity").  It is a promise about the text: the guard keeps what was typed
\* and verify compares what it stands for, so the same code in another
\* spelling is accepted once more.
CodeOnce == \A c \in Codes : accepted[c] <= 1

\* The failures counted in one period: a lockout check may let a request in
\* flight through beside the last free one, and a fault one more, but no
\* number of attempts gets further.
FailuresBounded ==
    \A s \in Scopes : counter[s].count <= FREE_ATTEMPTS + Cardinality(Browsers) + faults

\* A session that may see a page has proved the factor the account now has,
\* since its last password, whatever enrolments ran beside each other: except
\* after begin_enrolment has saved over a row it had not read.
FactorProved ==
    ~overtaken => \A b \in Browsers : MaySee(b) => proved[b] = profile.totp_secret

\* Nobody stays locked out, however often they try while they are: a refused
\* attempt extends nothing.
LockoutEnds == \A s \in Scopes : lockout_seconds(s) > 0 ~> lockout_seconds(s) = 0
=============================================================================
