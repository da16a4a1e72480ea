---------------------------- MODULE SignInProofs ----------------------------
(***************************************************************************)
(* What the dashboard's sign-in promises, for any number of browsers and   *)
(* faults, any free attempts, and lockouts of any length.                  *)
(*                                                                         *)
(* Throttle: a counter above its free attempts that lets somebody in has   *)
(* no TTL yet, so everyone who counted is still between INCR and EXPIRE,   *)
(* or met a fault there.  Replay guard: it outlives the steps in which a   *)
(* code is accepted.  Factor: a secret, once in the row, stays until an    *)
(* enrolment overtakes it.                                                 *)
(***************************************************************************)
EXTENDS SignIn, FiniteSetTheorems, TLAPS

Profiles == [totp_secret : Secrets \cup {None}, confirmed : BOOLEAN]

Requests ==
    [ at : {"idle", "password", "code", "failed", "counted", "clearing", "enrolling", "confirming"},
      scope : Scopes \cup {None}, copy : Profiles, failures : Nat ]

Redis == [count : Nat, ttl : Int \cup {None}]

TypeInv ==
    /\ profile \in Profiles
    /\ session \in [Browsers -> [user : BOOLEAN, factor : BOOLEAN]]
    /\ request \in [Browsers -> Requests]
    /\ counter \in [Scopes -> Redis]
    /\ burned \in [Codes -> Nat]
    /\ secrets \in 0..MaxSecrets
    /\ faults \in Nat
    /\ accepted \in [Codes -> Nat]
    /\ proved \in [Browsers -> Secrets \cup {None}]
    /\ overtaken \in BOOLEAN

\* Whoever attempts, counts or clears does it in one of the two scopes.
Scoped ==
    \A b \in Browsers :
        /\ request[b].at \in {"password", "code", "failed", "counted", "clearing"} =>
              request[b].scope \in Scopes
        /\ request[b].at = "password" => request[b].scope = "sign-in"

IInv == TypeInv /\ Scoped

LEMMA IdleIsRequest == Idle \in Requests /\ NewProfile \in Profiles /\ Idle.at = "idle"
  BY DEF Idle, Requests, NewProfile, Profiles

LEMMA InitIInv == Init => IInv
  <1> SUFFICES ASSUME Init PROVE IInv
    OBVIOUS
  <1>1. NoKey \in Redis /\ NoSession \in [user : BOOLEAN, factor : BOOLEAN]
    BY DEF NoKey, Redis, NoSession
  <1>2. TypeInv
    <2>1. 0 \in 0..MaxSecrets
      BY SignInAssumption
    <2>2. profile \in Profiles /\ request \in [Browsers -> Requests]
      BY IdleIsRequest DEF Init
    <2> QED BY <1>1, <2>1, <2>2 DEF Init, TypeInv
  <1>3. Scoped
    BY IdleIsRequest DEF Init, Scoped
  <1> QED BY <1>2, <1>3 DEF IInv

\* wait_after is a number of ticks, and a positive one.
LEMMA WaitIsNumber ==
  ASSUME NEW n \in Nat
  PROVE  wait_after(n) \in Int
  BY SignInAssumption DEF wait_after

LEMMA CountCapIsNumber == CountCap \in Nat
  <1>1. Cardinality(Browsers) \in Nat
    BY SignInAssumption, FS_CardinalityType
  <1>2. FREE_ATTEMPTS \in Nat /\ MaxFaults \in Nat
    BY SignInAssumption
  <1> QED BY <1>1, <1>2 DEF CountCap

\* 2^k counts the subsets of 1 .. k, of which there is at least one.
LEMMA PowersOfTwo ==
  ASSUME NEW k \in Nat
  PROVE  2^k \in Nat \ {0}
  <1>1. IsFiniteSet(1 .. k) /\ Cardinality(1 .. k) = k
    BY FS_Interval
  <1>2. IsFiniteSet(SUBSET (1 .. k)) /\ Cardinality(SUBSET (1 .. k)) = 2^k
    BY <1>1, FS_SUBSET
  <1>3. SUBSET (1 .. k) # {}
    OBVIOUS
  <1> QED BY <1>2, <1>3, FS_CardinalityType, FS_EmptySet

LEMMA WaitIsPositive ==
  ASSUME NEW n \in Nat
  PROVE  wait_after(n) \in Nat \ {0}
  <1>0. {FREE_ATTEMPTS, BASE_LOCKOUT, MAX_LOCKOUT, ATTEMPT_WINDOW} \subseteq Nat \ {0}
    BY SignInAssumption
  <1>1. CASE n <= FREE_ATTEMPTS
    BY <1>0, <1>1 DEF wait_after
  <1>2. CASE ~(n <= FREE_ATTEMPTS)
    <2>1. n - FREE_ATTEMPTS - 1 \in Nat
      BY <1>0, <1>2
    <2>2. PICK t \in Nat \ {0} : t = 2^(n - FREE_ATTEMPTS - 1)
      BY <2>1, PowersOfTwo
    <2>3. BASE_LOCKOUT * t \in Nat \ {0}
      BY <1>0, <2>2
    <2> QED BY <1>0, <1>2, <2>2, <2>3 DEF wait_after
  <1> QED BY <1>1, <1>2

\* The browser that steps is left with a request, the others with theirs.
LEMMA RequestStep ==
  ASSUME NEW b \in Browsers, IInv, Step(b)
  PROVE  /\ request' \in [Browsers -> Requests]
         /\ \A v \in Browsers \ {b} : request'[v] = request[v]
         /\ Scoped'
  <1>0. request \in [Browsers -> Requests] /\ request[b] \in Requests /\ profile \in Profiles
    BY DEF IInv, TypeInv
  <1> SUFFICES /\ request' \in [Browsers -> Requests]
               /\ \A v \in Browsers \ {b} : request'[v] = request[v]
               /\ request'[b].at \in {"password", "code", "failed", "counted", "clearing"} =>
                    request'[b].scope \in Scopes
               /\ request'[b].at = "password" => request'[b].scope = "sign-in"
    BY DEF IInv, Scoped
  <1>1. CASE Done(b)
    BY <1>0, <1>1, IdleIsRequest DEF Done
  <1>2. CASE request' = Failed(b) /\ request[b].at \in {"password", "code"}
    <2>1. request[b].scope \in Scopes
      BY <1>2 DEF IInv, Scoped
    <2>2. [Idle EXCEPT !.at = "failed", !.scope = request[b].scope] \in Requests
      BY <2>1, IdleIsRequest DEF Requests
    <2>3. /\ [Idle EXCEPT !.at = "failed", !.scope = request[b].scope].scope = request[b].scope
          /\ [Idle EXCEPT !.at = "failed", !.scope = request[b].scope].at = "failed"
      BY DEF Idle
    <2> QED BY <1>0, <1>2, <2>1, <2>2, <2>3 DEF Failed
  <1>3. CASE request' = [request EXCEPT ![b].at = "clearing"] /\ request[b].at \in {"password", "code"}
    BY <1>0, <1>3 DEF IInv, Scoped, Requests
  <1>4. CASE request' = request
    BY <1>0, <1>4 DEF IInv, Scoped
  <1>5. CASE PostSignIn(b)
    BY <1>0, <1>1, <1>5 DEF PostSignIn, after_lockout, Done, Requests, Scopes
  <1>6. CASE CheckPassword(b)
    BY <1>2, <1>3, <1>6 DEF CheckPassword, At
  <1>7. CASE PostCode(b)
    BY <1>0, <1>1, <1>7 DEF PostCode, after_lockout, Done, Requests, Scopes
  <1>8. CASE CheckCode(b)
    BY <1>2, <1>3, <1>8 DEF CheckCode, At
  <1>9. CASE Incr(b)
    <2>1. request[b].scope \in Scopes
      BY <1>9 DEF Incr, At, IInv, Scoped
    <2>2. counter[request[b].scope].count \in Nat
      BY <2>1 DEF IInv, TypeInv, Redis
    <2> QED BY <1>0, <1>1, <1>9, <2>1, <2>2, CountCapIsNumber DEF Incr, Requests
  <1>10. CASE Expire(b) \/ Clear(b) \/ SaveSecret(b) \/ SaveConfirmed(b) \/ Die(b)
    BY <1>1, <1>10 DEF Expire, Clear, SaveSecret, SaveConfirmed, Die
  <1>11. CASE EnrolPage(b)
    <2>1. [totp_secret |-> secret_for(profile), confirmed |-> FALSE] \in Profiles
      BY <1>0, <1>11, SignInAssumption DEF EnrolPage, secret_for, Profiles, IInv, TypeInv, Secrets
    <2> QED BY <1>0, <1>11, <2>1 DEF EnrolPage, Requests
  <1>12. CASE PostEnrolment(b)
    BY <1>0, <1>12 DEF PostEnrolment, Requests
  <1>13. CASE sign_out(b)
    BY <1>4, <1>13 DEF sign_out
  <1> QED BY <1>5, <1>6, <1>7, <1>8, <1>9, <1>10, <1>11, <1>12, <1>13 DEF Step
\* The keys in Redis: INCR and EXPIRE, DEL, and what time does to them.
LEMMA CounterStep ==
  ASSUME NEW b \in Browsers, IInv, Step(b)
  PROVE  counter' \in [Scopes -> Redis] /\ faults' \in Nat /\ faults <= faults'
  <1>0. counter \in [Scopes -> Redis] /\ faults \in Nat /\ NoKey \in Redis
    BY DEF IInv, TypeInv, NoKey, Redis
  <1>f. Fails => faults' \in Nat /\ faults <= faults'
    BY <1>0 DEF Fails
  <1>w. Works => faults' \in Nat /\ faults <= faults'
    BY <1>0 DEF Works
  <1>1. CASE Incr(b)
    <2>1. request[b].scope \in Scopes
      BY <1>1 DEF Incr, At, IInv, Scoped
    <2>2. counter[request[b].scope].count \in Nat
      BY <1>0, <2>1 DEF Redis
    <2> QED BY <1>0, <1>f, <1>w, <1>1, <2>1, <2>2, CountCapIsNumber DEF Incr, Redis
  <1>2. CASE Expire(b)
    <2>1. request[b].failures \in Nat
      BY DEF IInv, TypeInv, Requests
    <2>2. wait_after(request[b].failures) \in Int
      BY <2>1, WaitIsNumber
    <2> QED BY <1>0, <1>f, <1>w, <1>2, <2>2 DEF Expire, Redis
  <1>3. CASE Clear(b)
    BY <1>0, <1>f, <1>w, <1>3 DEF Clear
  <1>4. CASE PostSignIn(b) \/ PostCode(b) \/ CheckCode(b) \/ Die(b)
    <2>1. counter' = counter
      BY <1>4 DEF PostSignIn, PostCode, CheckCode, Die
    <2>2. Works \/ Fails
      BY <1>4 DEF PostSignIn, PostCode, CheckCode, Die, LetThrough, Works
    <2> QED BY <1>0, <1>f, <1>w, <2>1, <2>2
  <1>5. CASE CheckPassword(b) \/ EnrolPage(b) \/ SaveSecret(b) \/ PostEnrolment(b)
               \/ SaveConfirmed(b) \/ sign_out(b)
    BY <1>0, <1>5 DEF CheckPassword, EnrolPage, SaveSecret, PostEnrolment, SaveConfirmed, sign_out
  <1> QED BY <1>1, <1>2, <1>3, <1>4, <1>5 DEF Step

\* The codes: what the guard burns, and what it lets through.
LEMMA CodeStep ==
  ASSUME NEW b \in Browsers, IInv, Step(b)
  PROVE  burned' \in [Codes -> Nat] /\ accepted' \in [Codes -> Nat]
  <1>0. burned \in [Codes -> Nat] /\ accepted \in [Codes -> Nat] /\ CODE_REPLAY \in Nat
    BY SignInAssumption DEF IInv, TypeInv
  <1>1. CASE CheckCode(b)
    <2>1. CASE UNCHANGED <<burned, accepted>>
      BY <1>0, <2>1
    <2>2. ASSUME NEW c, burned' = burned_by(c),
                 accepted' = [accepted EXCEPT ![c] = IF burned[c] = 0 /\ InStep(c) THEN @ + 1 ELSE @]
          PROVE  burned' \in [Codes -> Nat] /\ accepted' \in [Codes -> Nat]
      <3>1. burned' \in [Codes -> Nat]
        BY <1>0, <2>2 DEF burned_by
      <3>2. CASE burned[c] = 0 /\ InStep(c)
        <4>1. accepted' = [accepted EXCEPT ![c] = accepted[c] + 1]
          BY <2>2, <3>2
        <4>2. \A x \in Codes : accepted'[x] \in Nat
          BY <1>0, <4>1
        <4> QED BY <1>0, <3>1, <4>1, <4>2
      <3>3. CASE ~(burned[c] = 0 /\ InStep(c))
        BY <1>0, <2>2, <3>1, <3>3
      <3> QED BY <3>2, <3>3
    <2> QED BY <1>1, <2>1, <2>2 DEF CheckCode
  <1>2. CASE UNCHANGED <<burned, accepted>>
    BY <1>0, <1>2
  <1> QED
    BY <1>1, <1>2 DEF Step, PostSignIn, CheckPassword, PostCode, Incr, Expire, Clear, EnrolPage,
                      SaveSecret, PostEnrolment, SaveConfirmed, sign_out, Die

\* The row, the sessions, and what they say about each other.
LEMMA AccountStep ==
  ASSUME NEW b \in Browsers, IInv, Step(b)
  PROVE  /\ profile' \in Profiles /\ overtaken' \in BOOLEAN /\ secrets' \in 0..MaxSecrets
         /\ session' \in [Browsers -> [user : BOOLEAN, factor : BOOLEAN]]
         /\ proved' \in [Browsers -> Secrets \cup {None}]
  <1>0. /\ profile \in Profiles /\ overtaken \in BOOLEAN /\ secrets \in 0..MaxSecrets
        /\ session \in [Browsers -> [user : BOOLEAN, factor : BOOLEAN]]
        /\ proved \in [Browsers -> Secrets \cup {None}] /\ request[b].copy \in Profiles
        /\ request[b].copy.totp_secret \in Secrets \cup {None}
    BY DEF IInv, TypeInv, Requests, Profiles
  <1>1. CASE Clear(b)
    <2>1. session_started(b) \in [user : BOOLEAN, factor : BOOLEAN]
      BY DEF session_started
    <2>2. session' \in [Browsers -> [user : BOOLEAN, factor : BOOLEAN]]
      <3>1. CASE session' = [session EXCEPT ![b] = session_started(b)]
        BY <1>0, <2>1, <3>1
      <3>2. CASE session' = [session EXCEPT ![b].factor = TRUE]
        BY <1>0, <3>2
      <3> QED BY <1>1, <3>1, <3>2 DEF Clear
    <2>3. proved' \in [Browsers -> Secrets \cup {None}]
      BY <1>0, <1>1 DEF Clear
    <2> QED BY <1>0, <1>1, <2>2, <2>3 DEF Clear
  <1>2. CASE EnrolPage(b)
    BY <1>0, <1>2, SignInAssumption DEF EnrolPage
  <1>3. CASE SaveSecret(b)
    BY <1>0, <1>3 DEF SaveSecret
  <1>4. CASE SaveConfirmed(b)
    <2>1. profile' \in Profiles
      BY <1>0, <1>4 DEF SaveConfirmed, Profiles
    <2>2. session' \in [Browsers -> [user : BOOLEAN, factor : BOOLEAN]]
      BY <1>0, <1>4 DEF SaveConfirmed
    <2>3. proved' \in [Browsers -> Secrets \cup {None}]
      BY <1>0, <1>4 DEF SaveConfirmed
    <2> QED BY <1>0, <1>4, <2>1, <2>2, <2>3 DEF SaveConfirmed
  <1>5. CASE sign_out(b)
    BY <1>0, <1>5 DEF sign_out, NoSession
  <1>6. CASE UNCHANGED <<profile, session, proved, overtaken, secrets>>
    BY <1>0, <1>6
  <1> QED
    BY <1>1, <1>2, <1>3, <1>4, <1>5, <1>6
       DEF Step, PostSignIn, CheckPassword, PostCode, CheckCode, Incr, Expire, PostEnrolment, Die

LEMMA TickKeepsTypes ==
  ASSUME IInv, Tick
  PROVE  IInv'
  <1>0. /\ counter \in [Scopes -> Redis] /\ burned \in [Codes -> Nat] /\ accepted \in [Codes -> Nat]
    BY DEF IInv, TypeInv
  <1>1. \A k \in Redis : Aged(k) \in Redis
    BY DEF Aged, Redis, NoKey
  <1>2. counter' \in [Scopes -> Redis]
    BY <1>0, <1>1 DEF Tick
  <1>3. \A c \in Codes : c[2] # 2 => <<c[1], c[2] + 1, c[3]>> \in Codes
    BY DEF Codes, Offsets
  <1>4. burned' \in [Codes -> Nat] /\ accepted' \in [Codes -> Nat]
    BY <1>0, <1>3 DEF Tick
  <1> QED BY <1>2, <1>4 DEF Tick, IInv, TypeInv, Scoped

LEMMA NextIInv == IInv /\ [Next]_vars => IInv'
  <1> SUFFICES ASSUME IInv, [Next]_vars PROVE IInv'
    OBVIOUS
  <1>1. CASE UNCHANGED vars
    BY <1>1 DEF vars, IInv, TypeInv, Scoped
  <1>2. CASE Tick
    BY <1>2, TickKeepsTypes
  <1>3. ASSUME NEW b \in Browsers, Step(b) PROVE IInv'
    BY <1>3, RequestStep, CounterStep, CodeStep, AccountStep DEF IInv, TypeInv
  <1> QED BY <1>1, <1>2, <1>3 DEF Next
-----------------------------------------------------------------------------
(* The throttle.                                                           *)

\* Who was let through and may still count, and who has counted and not yet
\* set the TTL.
Trying(s)  == {b \in Browsers : request[b].scope = s /\ request[b].at \in {"password", "code", "failed"}}
Pending(s) == {b \in Browsers : request[b].scope = s /\ request[b].at = "counted"}

Bounded(s) ==
    /\ counter[s].count + Cardinality(Trying(s)) <= FREE_ATTEMPTS + Cardinality(Browsers) + faults
    /\ counter[s].ttl = None => counter[s].count <= Cardinality(Pending(s)) + faults
    /\ counter[s].ttl \in (Nat \ {0}) \cup {None}

BoundInv == \A s \in Scopes : Bounded(s)

LEMMA DisjointInBrowsers ==
  ASSUME NEW S, NEW T, S \subseteq Browsers, T \subseteq Browsers, S \cap T = {}
  PROVE  /\ Cardinality(S) \in Nat /\ Cardinality(T) \in Nat /\ Cardinality(Browsers) \in Nat
         /\ IsFiniteSet(S) /\ IsFiniteSet(T)
         /\ Cardinality(S) + Cardinality(T) <= Cardinality(Browsers)
  <1>1. IsFiniteSet(Browsers) /\ IsFiniteSet(S) /\ IsFiniteSet(T) /\ IsFiniteSet(S \cup T)
    BY SignInAssumption, FS_Subset
  <1>2. Cardinality(S \cup T) = Cardinality(S) + Cardinality(T) - Cardinality({})
    BY <1>1, FS_Union
  <1>3. Cardinality(S \cup T) <= Cardinality(Browsers)
    BY <1>1, FS_Subset
  <1> QED BY <1>1, <1>2, <1>3, FS_EmptySet, FS_CardinalityType

LEMMA TryingOrPending ==
  /\ \A s : Trying(s) \subseteq Browsers /\ Pending(s) \subseteq Browsers /\ Trying(s) \cap Pending(s) = {}
  /\ \A s : Trying(s)' \subseteq Browsers /\ Pending(s)' \subseteq Browsers /\ Trying(s)' \cap Pending(s)' = {}
  BY DEF Trying, Pending

\* A step that leaves the key alone: nobody new is let through, and whoever
\* leaves without setting the TTL has met a fault.
LEMMA LeftAlone ==
  ASSUME NEW s \in Scopes, NEW b \in Browsers, IInv, Bounded(s), counter'[s] = counter[s],
         faults' \in Nat, faults <= faults',
         Trying(s)' \subseteq Trying(s),
         \/ Pending(s) \subseteq Pending(s)'
         \/ Pending(s) \ {b} \subseteq Pending(s)' /\ faults' = faults + 1
  PROVE  Bounded(s)'
  <1>0. /\ counter[s].count \in Nat /\ faults \in Nat /\ FREE_ATTEMPTS \in Nat
        /\ IsFiniteSet(Trying(s)) /\ IsFiniteSet(Trying(s)') /\ IsFiniteSet(Pending(s))
        /\ IsFiniteSet(Pending(s)')
        /\ Cardinality(Trying(s)) \in Nat /\ Cardinality(Trying(s)') \in Nat
        /\ Cardinality(Pending(s)) \in Nat /\ Cardinality(Pending(s)') \in Nat
        /\ Cardinality(Browsers) \in Nat
    BY SignInAssumption, TryingOrPending, DisjointInBrowsers DEF IInv, TypeInv, Redis
  <1>1. Cardinality(Trying(s)') <= Cardinality(Trying(s))
    BY <1>0, FS_Subset
  <1>2. Cardinality(Pending(s)) + faults <= Cardinality(Pending(s)') + faults'
    <2>1. CASE Pending(s) \subseteq Pending(s)'
      BY <1>0, <2>1, FS_Subset
    <2>2. CASE Pending(s) \ {b} \subseteq Pending(s)' /\ faults' = faults + 1
      <3>1. /\ IsFiniteSet(Pending(s) \ {b})
            /\ Cardinality(Pending(s) \ {b}) = IF b \in Pending(s) THEN Cardinality(Pending(s)) - 1
                                                ELSE Cardinality(Pending(s))
        BY <1>0, FS_RemoveElement
      <3>2. Cardinality(Pending(s) \ {b}) <= Cardinality(Pending(s)')
        BY <1>0, <2>2, FS_Subset
      <3>3. Cardinality(Pending(s) \ {b}) \in Nat
        BY <3>1, FS_CardinalityType
      <3> QED BY <1>0, <2>2, <3>1, <3>2, <3>3
    <2> QED BY <2>1, <2>2
  <1> QED BY <1>0, <1>1, <1>2 DEF Bounded

\* Somebody is let through: the attempts are free, or nobody has set the TTL,
\* or the check could not be made.
LEMMA LetThroughBounded ==
  ASSUME NEW s \in Scopes, NEW b \in Browsers, IInv, Bounded(s), counter' = counter, LetThrough(s),
         b \notin Trying(s), Trying(s)' = Trying(s) \cup {b}, Pending(s)' = Pending(s)
  PROVE  Bounded(s)'
  <1>0. /\ counter[s].count \in Nat /\ counter[s].ttl \in (Nat \ {0}) \cup {None}
        /\ faults \in Nat /\ FREE_ATTEMPTS \in Nat
        /\ IsFiniteSet(Trying(s)) /\ Cardinality(Trying(s)) \in Nat /\ Cardinality(Trying(s)') \in Nat
        /\ Cardinality(Pending(s)) \in Nat /\ Cardinality(Browsers) \in Nat
        /\ Cardinality(Trying(s)') + Cardinality(Pending(s)') <= Cardinality(Browsers)
    BY SignInAssumption, TryingOrPending, DisjointInBrowsers DEF IInv, TypeInv, Redis, Bounded
  <1>1. Cardinality(Trying(s)') = Cardinality(Trying(s)) + 1
    BY <1>0, FS_AddElement
  <1>2. CASE lockout_seconds(s) = 0
    <2>1. faults' = faults
      BY <1>2 DEF LetThrough, Works
    <2>2. counter[s].count <= FREE_ATTEMPTS \/ counter[s].ttl = None
      BY <1>0, <1>2, SignInAssumption DEF lockout_seconds
    <2> QED BY <1>0, <1>1, <2>1, <2>2 DEF Bounded
  <1>3. CASE lockout_seconds(s) # 0
    <2>1. faults' = faults + 1
      BY <1>3 DEF LetThrough, Fails
    <2> QED BY <1>0, <1>1, <2>1 DEF Bounded
  <1> QED BY <1>2, <1>3

LEMMA IncrBounded ==
  ASSUME NEW s \in Scopes, NEW b \in Browsers, IInv, Bounded(s), faults' = faults,
         counter'[s].ttl = counter[s].ttl, counter'[s].count \in Nat,
         counter'[s].count <= counter[s].count + 1,
         b \in Trying(s), Trying(s)' = Trying(s) \ {b}, Pending(s)' = Pending(s) \cup {b}
  PROVE  Bounded(s)'
  <1>0. /\ counter[s].count \in Nat /\ faults \in Nat /\ FREE_ATTEMPTS \in Nat
        /\ IsFiniteSet(Trying(s)) /\ Cardinality(Trying(s)) \in Nat /\ IsFiniteSet(Pending(s))
        /\ Cardinality(Pending(s)) \in Nat /\ Cardinality(Browsers) \in Nat
        /\ b \notin Pending(s)
    BY SignInAssumption, TryingOrPending, DisjointInBrowsers DEF IInv, TypeInv, Redis
  <1>1. Cardinality(Trying(s)') = Cardinality(Trying(s)) - 1
    <2>1. Cardinality(Trying(s) \ {b}) = Cardinality(Trying(s)) - 1
      <3> HIDE DEF Trying
      <3> QED BY <1>0, FS_RemoveElement
    <2> QED BY <2>1
  <1>2. Cardinality(Pending(s)') = Cardinality(Pending(s)) + 1
    BY <1>0, FS_AddElement
  <1> QED BY <1>0, <1>1, <1>2 DEF Bounded

\* A key that is gone bounds nothing but the browsers.
LEMMA GoneIsBounded ==
  ASSUME NEW s \in Scopes, counter'[s] = NoKey, faults' \in Nat
  PROVE  Bounded(s)'
  <1>1. /\ FREE_ATTEMPTS \in Nat /\ Cardinality(Trying(s)') \in Nat /\ Cardinality(Pending(s)') \in Nat
        /\ Cardinality(Browsers) \in Nat
        /\ Cardinality(Trying(s)') + Cardinality(Pending(s)') <= Cardinality(Browsers)
    BY SignInAssumption, TryingOrPending, DisjointInBrowsers
  <1>2. NoKey.count = 0 /\ NoKey.ttl = None
    BY DEF NoKey
  <1> QED BY <1>1, <1>2 DEF Bounded
\* What a step of one browser makes of who is trying and who is pending.
LEMMA MembersStep ==
  ASSUME NEW s \in Scopes, NEW b \in Browsers, IInv, Step(b)
  PROVE  /\ Trying(s)' = IF request'[b].scope = s /\ request'[b].at \in {"password", "code", "failed"}
                         THEN Trying(s) \cup {b} ELSE Trying(s) \ {b}
         /\ Pending(s)' = IF request'[b].scope = s /\ request'[b].at = "counted"
                          THEN Pending(s) \cup {b} ELSE Pending(s) \ {b}
  BY RequestStep DEF Trying, Pending

LEMMA StepBounded ==
  ASSUME NEW b \in Browsers, IInv, BoundInv, Step(b)
  PROVE  BoundInv'
  <1> SUFFICES ASSUME NEW s \in Scopes PROVE Bounded(s)'
    BY DEF BoundInv
  <1>0. /\ Bounded(s) /\ request[b] \in Requests /\ request \in [Browsers -> Requests]
        /\ counter \in [Scopes -> Redis] /\ faults \in Nat /\ faults' \in Nat /\ faults <= faults'
    BY CounterStep DEF BoundInv, IInv, TypeInv
  <1>i. Idle.at = "idle"
    BY DEF Idle
  \* A browser that ends, or that was not counted, leaves the sets as it finds them.
  <1>1. CASE counter'[s] = counter[s] /\ request'[b].at \in {"idle", "clearing", "enrolling", "confirming"}
               /\ (b \in Pending(s) => faults' = faults + 1)
    BY <1>0, <1>1, MembersStep, LeftAlone
  <1>2. CASE counter'[s] = counter[s] /\ request'[b].scope = request[b].scope
               /\ request[b].at \in {"password", "code"} /\ request'[b].at = "failed"
    <2>1. Trying(s)' \subseteq Trying(s) /\ Pending(s) \subseteq Pending(s)'
      BY <1>2, MembersStep DEF Trying, Pending
    <2> QED BY <1>0, <1>2, <2>1, LeftAlone
  <1>3. ASSUME NEW t \in Scopes, request[b].at = "idle", LetThrough(t), counter' = counter,
               request'[b].scope = t, request'[b].at \in {"password", "code"}
        PROVE  Bounded(s)'
    <2>1. b \notin Trying(s) /\ b \notin Pending(s)
      BY <1>3 DEF Trying, Pending
    <2>2. CASE s = t
      <3>1. Trying(s)' = Trying(s) \cup {b} /\ Pending(s)' = Pending(s)
        BY <1>3, <2>1, <2>2, MembersStep
      <3> QED BY <1>0, <1>3, <2>1, <2>2, <3>1, LetThroughBounded
    <2>3. CASE s # t
      <3>1. Trying(s)' \subseteq Trying(s) /\ Pending(s) \subseteq Pending(s)'
        BY <1>3, <2>1, <2>3, MembersStep
      <3> QED BY <1>0, <1>3, <3>1, LeftAlone
    <2> QED BY <2>2, <2>3
  <1>4. CASE PostSignIn(b) \/ PostCode(b)
    <2>1. counter' = counter /\ request[b].at = "idle" /\ b \notin Pending(s)
      BY <1>4 DEF PostSignIn, PostCode, At, Pending
    <2>2. CASE request' = [request EXCEPT ![b] = Idle]
      BY <1>0, <1>i, <1>1, <2>1, <2>2
    <2>3. ASSUME NEW t \in Scopes, LetThrough(t),
                 \/ request' = [request EXCEPT ![b].at = "password", ![b].scope = t]
                 \/ request' = [request EXCEPT ![b] =
                                  [at |-> "code", scope |-> t, copy |-> profile, failures |-> 0]]
          PROVE  Bounded(s)'
      <3>1. request'[b].scope = t /\ request'[b].at \in {"password", "code"}
        BY <1>0, <2>3 DEF Requests
      <3> QED BY <1>3, <2>1, <2>3, <3>1
    <2> QED BY <1>4, <2>2, <2>3 DEF PostSignIn, PostCode, after_lockout, Scopes
  <1>5. CASE CheckPassword(b) \/ CheckCode(b)
    <2>1. counter' = counter /\ request[b].at \in {"password", "code"} /\ b \notin Pending(s)
      BY <1>5 DEF CheckPassword, CheckCode, At, Pending
    <2>2. CASE request' = [request EXCEPT ![b].at = "clearing"]
      <3>1. request'[b].at = "clearing"
        BY <1>0, <2>2 DEF Requests
      <3> QED BY <1>1, <2>1, <3>1
    <2>3. CASE request' = Failed(b)
      <3>1. request'[b].at = "failed" /\ request'[b].scope = request[b].scope
        BY <1>0, <2>3 DEF Failed, Idle
      <3> QED BY <1>2, <2>1, <3>1
    <2> QED BY <1>5, <2>2, <2>3 DEF CheckPassword, CheckCode
  <1>6. CASE Incr(b)
    <2>1. request[b].at = "failed" /\ request[b].scope \in Scopes /\ b \notin Pending(s)
      BY <1>6 DEF Incr, At, IInv, Scoped, Pending
    <2>2. PICK t \in Scopes : t = request[b].scope
      BY <2>1
    <2>3. CASE Fails /\ Done(b) /\ counter' = counter
      <3>1. request'[b].at = "idle"
        BY <1>0, <1>i, <2>3 DEF Done
      <3> QED BY <1>1, <2>1, <2>3, <3>1
    <2>4. CASE ~(Fails /\ Done(b) /\ counter' = counter)
      <3>0. CountCap \in Nat /\ counter[t].count \in Nat
        BY <1>0, CountCapIsNumber DEF Redis
      <3>1. PICK n \in Nat : /\ n = IF counter[t].count < CountCap THEN counter[t].count + 1 ELSE CountCap
                             /\ counter' = [counter EXCEPT ![t].count = n] /\ faults' = faults
                             /\ request' = [request EXCEPT ![b].at = "counted", ![b].failures = n]
        <4>1. (IF counter[t].count < CountCap THEN counter[t].count + 1 ELSE CountCap) \in Nat
          BY <3>0
        <4> QED BY <1>6, <2>2, <2>4, <4>1 DEF Incr, Works
      <3>2. request'[b].at = "counted" /\ request'[b].scope = t
        BY <1>0, <2>2, <3>1 DEF Requests
      <3>3. CASE s = t
        <4>1. b \in Trying(s) /\ Trying(s)' = Trying(s) \ {b} /\ Pending(s)' = Pending(s) \cup {b}
          BY <2>1, <2>2, <3>2, <3>3, MembersStep DEF Trying
        <4>2. /\ counter'[s].ttl = counter[s].ttl /\ counter'[s].count = n
              /\ n <= counter[s].count + 1
          BY <1>0, <3>0, <3>1, <3>3 DEF Redis
        <4> QED BY <1>0, <3>1, <4>1, <4>2, IncrBounded
      <3>4. CASE s # t
        <4>1. counter'[s] = counter[s]
          BY <1>0, <3>1, <3>4
        <4>2. Trying(s)' \subseteq Trying(s) /\ Pending(s) \subseteq Pending(s)'
          BY <2>1, <3>2, <3>4, MembersStep
        <4> QED BY <1>0, <4>1, <4>2, LeftAlone
      <3> QED BY <3>3, <3>4
    <2> QED BY <2>3, <2>4
  <1>7. CASE Expire(b)
    <2>1. request'[b].at = "idle" /\ request[b].at = "counted" /\ request[b].scope \in Scopes
      BY <1>0, <1>i, <1>7 DEF Expire, Done, At, IInv, Scoped
    <2>2. CASE request[b].scope # s
      <3>1. counter'[s] = counter[s] /\ b \notin Pending(s)
        BY <1>0, <1>7, <2>2 DEF Expire, Pending
      <3> QED BY <1>1, <2>1, <3>1
    <2>3. CASE request[b].scope = s /\ Fails /\ counter' = counter
      BY <1>1, <2>1, <2>3 DEF Fails
    <2>4. CASE request[b].scope = s /\ Works /\
               counter' = IF counter[s].count = 0 THEN counter
                          ELSE [counter EXCEPT ![s].ttl = wait_after(request[b].failures)]
      <3>1. Trying(s)' \subseteq Trying(s)
        BY <2>1, MembersStep
      <3>2. /\ IsFiniteSet(Trying(s)) /\ Cardinality(Trying(s)') \in Nat /\ Cardinality(Trying(s)) \in Nat
            /\ Cardinality(Pending(s)') \in Nat /\ Cardinality(Browsers) \in Nat /\ FREE_ATTEMPTS \in Nat
        BY SignInAssumption, TryingOrPending, DisjointInBrowsers
      <3>3. Cardinality(Trying(s)') <= Cardinality(Trying(s))
        BY <3>1, <3>2, FS_Subset
      <3>4. faults' = faults /\ counter[s].count \in Nat
        BY <1>0, <2>4 DEF Works, Redis
      <3>5. CASE counter[s].count = 0
        BY <2>4, <3>2, <3>3, <3>4, <3>5, <1>0 DEF Bounded
      <3>6. CASE counter[s].count # 0
        <4>1. request[b].failures \in Nat
          BY <1>0 DEF Requests
        <4>2. wait_after(request[b].failures) \in Nat \ {0} /\ wait_after(request[b].failures) # None
          BY <4>1, WaitIsPositive, SignInAssumption
        <4>3. /\ counter'[s].count = counter[s].count /\ counter'[s].ttl # None
              /\ counter'[s].ttl \in Nat \ {0}
          BY <1>0, <2>4, <3>6, <4>2 DEF Redis
        <4> QED BY <1>0, <3>2, <3>3, <3>4, <4>3 DEF Bounded
      <3> QED BY <3>5, <3>6
    <2> QED BY <1>7, <2>2, <2>3, <2>4 DEF Expire
  <1>8. CASE Clear(b)
    <2>1. request'[b].at = "idle" /\ b \notin Pending(s)
      BY <1>0, <1>i, <1>8 DEF Clear, Done, At, Pending
    <2>2. CASE counter'[s] = counter[s]
      BY <1>1, <2>1, <2>2
    <2>3. CASE counter'[s] # counter[s]
      <3>1. counter'[s] = NoKey
        BY <1>0, <1>8, <2>3 DEF Clear
      <3> QED BY <1>0, <3>1, GoneIsBounded
    <2> QED BY <2>2, <2>3
  <1>9. CASE EnrolPage(b) \/ SaveSecret(b) \/ PostEnrolment(b) \/ SaveConfirmed(b) \/ sign_out(b)
    <2>1. counter' = counter /\ b \notin Pending(s)
      BY <1>9 DEF EnrolPage, SaveSecret, PostEnrolment, SaveConfirmed, sign_out, At, Pending
    <2>2. request'[b].at \in {"idle", "enrolling", "confirming"}
      BY <1>0, <1>i, <1>9 DEF EnrolPage, SaveSecret, PostEnrolment, SaveConfirmed, sign_out, At, Done, Requests
    <2> QED BY <1>1, <2>1, <2>2
  <1>10. CASE Die(b)
    <2>1. request'[b].at = "idle" /\ counter' = counter /\ faults' = faults + 1
      BY <1>0, <1>i, <1>10 DEF Die, Done, Fails
    <2> QED BY <1>1, <2>1
  <1> QED BY <1>4, <1>5, <1>6, <1>7, <1>8, <1>9, <1>10 DEF Step

LEMMA TickBounded ==
  ASSUME IInv, BoundInv, Tick
  PROVE  BoundInv'
  <1> SUFFICES ASSUME NEW s \in Scopes PROVE Bounded(s)'
    BY DEF BoundInv
  <1>0. faults' = faults /\ request' = request /\ counter'[s] = Aged(counter[s]) /\ faults \in Nat
        /\ counter[s] \in Redis /\ Bounded(s)
    BY DEF Tick, IInv, TypeInv, BoundInv
  <1>1. Trying(s)' = Trying(s) /\ Pending(s)' = Pending(s)
    BY <1>0 DEF Trying, Pending
  <1>2. CASE counter'[s] = NoKey
    BY <1>0, <1>2, GoneIsBounded
  <1>3. CASE counter'[s] # NoKey
    <2>1. /\ counter'[s].count = counter[s].count /\ (counter'[s].ttl = None => counter[s].ttl = None)
          /\ counter'[s].ttl \in (Nat \ {0}) \cup {None}
      BY <1>0, <1>3, SignInAssumption DEF Aged, Redis, Bounded
    <2> QED BY <1>0, <1>1, <2>1 DEF Bounded
  <1> QED BY <1>2, <1>3

\* record_failure and lockout_seconds: however many browsers try at once, the
\* failures counted in one period are at most the free ones, one per browser
\* that was in flight, and one per fault.
THEOREM FailuresStayBounded == Spec => []FailuresBounded
  <1>1. Init => BoundInv
    <2>1. ASSUME Init, NEW s \in Scopes PROVE Bounded(s)
      <3>1. Trying(s) \subseteq Browsers /\ Pending(s) \subseteq Browsers /\ Trying(s) \cap Pending(s) = {}
        BY TryingOrPending
      <3>2. /\ FREE_ATTEMPTS \in Nat /\ Cardinality(Trying(s)) \in Nat /\ Cardinality(Pending(s)) \in Nat
            /\ Cardinality(Browsers) \in Nat
            /\ Cardinality(Trying(s)) + Cardinality(Pending(s)) <= Cardinality(Browsers)
        BY <3>1, SignInAssumption, DisjointInBrowsers
      <3>3. counter[s].count = 0 /\ counter[s].ttl = None /\ faults = 0
        BY <2>1 DEF Init, NoKey
      <3> QED BY <3>2, <3>3 DEF Bounded
    <2> QED BY <2>1 DEF BoundInv
  <1>2. IInv /\ BoundInv /\ [Next]_vars => BoundInv'
    <2>1. CASE UNCHANGED vars
      BY <2>1 DEF vars, BoundInv, Bounded, Trying, Pending
    <2> QED BY <2>1, StepBounded, TickBounded DEF Next
  <1>3. IInv /\ BoundInv => FailuresBounded
    <2> SUFFICES ASSUME IInv, BoundInv, NEW s \in Scopes
                 PROVE  counter[s].count <= FREE_ATTEMPTS + Cardinality(Browsers) + faults
      BY DEF FailuresBounded
    <2>1. /\ Cardinality(Trying(s)) \in Nat /\ Cardinality(Browsers) \in Nat /\ FREE_ATTEMPTS \in Nat
          /\ counter[s].count \in Nat /\ faults \in Nat
      BY SignInAssumption, TryingOrPending, DisjointInBrowsers DEF IInv, TypeInv, Redis
    <2> QED BY <2>1 DEF BoundInv, Bounded
  <1>4. IInv /\ [Next]_vars => IInv'
    BY NextIInv
  <1> QED BY <1>1, <1>2, <1>3, <1>4, InitIInv, PTL DEF Spec
-----------------------------------------------------------------------------
(* The replay guard.                                                       *)

\* A text that was accepted stays burned as long as a step accepts it.
GuardInv ==
    \A c \in Codes : /\ accepted[c] <= 1
                     /\ accepted[c] = 1 => c[2] < 2 /\ burned[c] >= c[2] + 2

LEMMA CheckGuarded ==
  ASSUME NEW c, IInv, GuardInv, CODE_REPLAY >= 3, burned' = burned_by(c),
         accepted' = [accepted EXCEPT ![c] = IF burned[c] = 0 /\ InStep(c) THEN @ + 1 ELSE @]
  PROVE  GuardInv'
  <1>0. burned \in [Codes -> Nat] /\ accepted \in [Codes -> Nat] /\ CODE_REPLAY \in Nat
    BY SignInAssumption DEF IInv, TypeInv
  <1> SUFFICES ASSUME NEW d \in Codes
               PROVE  accepted'[d] <= 1 /\ (accepted'[d] = 1 => d[2] < 2 /\ burned'[d] >= d[2] + 2)
    BY DEF GuardInv
  <1>1. accepted[d] \in Nat /\ burned[d] \in Nat /\ d[2] \in -1..2
    BY <1>0 DEF Codes, Offsets
  <1>2. CASE d # c
    <2>1. accepted'[d] = accepted[d] /\ burned'[d] = burned[d]
      BY <1>0, <1>2 DEF burned_by
    <2> QED BY <2>1 DEF GuardInv
  <1>3. CASE d = c /\ burned[d] # 0
    <2>1. accepted'[d] = accepted[d] /\ burned'[d] = burned[d]
      BY <1>0, <1>3 DEF burned_by
    <2> QED BY <2>1 DEF GuardInv
  <1>4. CASE d = c /\ burned[d] = 0
    <2>1. accepted[d] = 0
      BY <1>1, <1>4 DEF GuardInv
    <2>2. burned'[d] = CODE_REPLAY
      BY <1>0, <1>4 DEF burned_by
    <2>3. CASE InStep(d)
      <3>1. accepted'[d] = 1 /\ d[2] \in -1..1
        BY <1>0, <1>4, <2>1, <2>3 DEF InStep
      <3> QED BY <1>0, <2>2, <3>1
    <2>4. CASE ~InStep(d)
      <3>1. accepted'[d] = 0
        BY <1>0, <1>4, <2>1, <2>4
      <3> QED BY <3>1
    <2> QED BY <2>3, <2>4
  <1> QED BY <1>2, <1>3, <1>4

LEMMA TickGuarded ==
  ASSUME IInv, GuardInv, Tick
  PROVE  GuardInv'
  <1>0. burned \in [Codes -> Nat] /\ accepted \in [Codes -> Nat]
    BY DEF IInv, TypeInv
  <1> SUFFICES ASSUME NEW d \in Codes
               PROVE  accepted'[d] <= 1 /\ (accepted'[d] = 1 => d[2] < 2 /\ burned'[d] >= d[2] + 2)
    BY DEF GuardInv
  <1>1. CASE d[2] = 2
    BY <1>0, <1>1 DEF Tick
  <1>2. CASE d[2] # 2
    <2>0. <<d[1], d[2] + 1, d[3]>> \in Codes
      BY <1>2 DEF Codes, Offsets
    <2>1. PICK e \in Codes : e = <<d[1], d[2] + 1, d[3]>>
      BY <2>0
    <2>2. e[2] = d[2] + 1 /\ d[2] \in -1..1 /\ burned[e] \in Nat /\ accepted[e] \in Nat
      BY <1>0, <1>2, <2>1 DEF Codes, Offsets
    <2>3. /\ accepted'[d] = accepted[e]
          /\ burned'[d] = IF burned[e] = 0 THEN 0 ELSE burned[e] - 1
      BY <1>0, <1>2, <2>1 DEF Tick
    <2>4. accepted[e] <= 1 /\ (accepted[e] = 1 => burned[e] >= e[2] + 2)
      BY DEF GuardInv
    <2> QED BY <2>2, <2>3, <2>4
  <1> QED BY <1>1, <1>2

\* consume_code: the guard lasts the three steps in which verify takes a code,
\* so a typed text is accepted once as long as the guard can be reached.  The
\* guard keeps texts and verify compares NFKC forms: nothing here says that a
\* code is accepted in one spelling only, and it is not.
THEOREM CodesAreBurned ==
  ASSUME CODE_REPLAY >= 3
  PROVE  Spec => []CodeOnce
  <1>1. Init => GuardInv
    BY DEF Init, GuardInv
  <1>2. IInv /\ GuardInv /\ [Next]_vars => GuardInv'
    <2> SUFFICES ASSUME IInv, GuardInv, [Next]_vars PROVE GuardInv'
      OBVIOUS
    <2>1. CASE UNCHANGED <<burned, accepted>>
      BY <2>1 DEF GuardInv
    <2>2. ASSUME NEW b \in Browsers, CheckCode(b) PROVE GuardInv'
      <3>1. ASSUME NEW c, burned' = burned_by(c),
                   accepted' = [accepted EXCEPT ![c] = IF burned[c] = 0 /\ InStep(c) THEN @ + 1 ELSE @]
            PROVE  GuardInv'
        BY <3>1, CheckGuarded
      <3> QED BY <2>1, <2>2, <3>1 DEF CheckCode
    <2>3. CASE Tick
      BY <2>3, TickGuarded
    <2> QED
      BY <2>1, <2>2, <2>3 DEF Next, vars, Step, PostSignIn, CheckPassword, PostCode, Incr, Expire,
             Clear, EnrolPage, SaveSecret, PostEnrolment, SaveConfirmed, sign_out, Die
  <1>3. GuardInv => CodeOnce
    BY DEF GuardInv, CodeOnce
  <1> QED BY <1>1, <1>2, <1>3, InitIInv, NextIInv, PTL DEF Spec

-----------------------------------------------------------------------------
(* The second factor.                                                      *)

\* Who is about to give a session its factor.
Relying(b) ==
    \/ request[b].at \in {"code", "confirming"}
    \/ request[b].at = "clearing" /\ request[b].scope # "sign-in"

\* A session that has its factor, and a request that relies on a copy, go by
\* the secret in the row.
Faithful(b) ==
    /\ session[b].factor = TRUE => profile.totp_secret # None /\ proved[b] = profile.totp_secret
    /\ Relying(b) => profile.totp_secret # None /\ request[b].copy.totp_secret = profile.totp_secret

FactorInv == overtaken = FALSE => \A b \in Browsers : Faithful(b)

\* A step of one browser that keeps the secret in the row.
LEMMA OthersFaithful ==
  ASSUME NEW b \in Browsers, FactorInv, IInv, Step(b), overtaken' = FALSE => overtaken = FALSE,
         profile'.totp_secret = profile.totp_secret,
         \A v \in Browsers \ {b} : session'[v] = session[v] /\ proved'[v] = proved[v],
         overtaken = FALSE => Faithful(b)'
  PROVE  FactorInv'
  <1>1. \A v \in Browsers \ {b} : request'[v] = request[v]
    BY RequestStep
  <1>2. overtaken \in BOOLEAN /\ overtaken' \in BOOLEAN
    BY AccountStep DEF IInv, TypeInv
  <1> QED BY <1>1, <1>2 DEF FactorInv, Faithful, Relying

LEMMA StepFaithful ==
  ASSUME NEW b \in Browsers, IInv, FactorInv, Step(b)
  PROVE  FactorInv'
  <1>0. /\ request[b] \in Requests /\ request \in [Browsers -> Requests] /\ profile \in Profiles
        /\ session \in [Browsers -> [user : BOOLEAN, factor : BOOLEAN]]
        /\ proved \in [Browsers -> Secrets \cup {None}] /\ overtaken \in BOOLEAN
    BY DEF IInv, TypeInv
  <1>i. Idle.at = "idle"
    BY DEF Idle
  \* The steps that only move a request.
  <1>1. CASE \/ PostSignIn(b) \/ CheckPassword(b) \/ PostCode(b) \/ CheckCode(b) \/ Incr(b)
             \/ Expire(b) \/ EnrolPage(b) \/ PostEnrolment(b) \/ Die(b)
    <2>0. UNCHANGED <<profile, session, proved, overtaken>>
      BY <1>1 DEF PostSignIn, CheckPassword, PostCode, CheckCode, Incr, Expire, EnrolPage,
                  PostEnrolment, Die
    <2> SUFFICES ASSUME overtaken = FALSE, Relying(b)'
                 PROVE  profile.totp_secret # None /\ request'[b].copy.totp_secret = profile.totp_secret
      BY <2>0, OthersFaithful DEF Faithful, FactorInv
    <2>1. CASE PostCode(b)
      <3>1. CASE request' = [request EXCEPT ![b] = Idle]
        BY <1>0, <1>i, <3>1 DEF Relying
      <3>2. CASE request' = [request EXCEPT ![b] =
                  [at |-> "code", scope |-> "second-factor", copy |-> profile, failures |-> 0]]
        BY <1>0, <2>1, <3>2 DEF PostCode, Has_second_factor
      <3> QED BY <2>1, <3>1, <3>2 DEF PostCode, after_lockout
    <2>2. CASE PostEnrolment(b)
      BY <1>0, <2>2 DEF PostEnrolment, Requests
    <2>3. CASE request' = [request EXCEPT ![b].at = "clearing"] /\ request[b].at = "code"
      <3>1. request'[b].copy = request[b].copy /\ Relying(b)
        BY <1>0, <2>3 DEF Requests, Relying
      <3> QED BY <3>1 DEF FactorInv, Faithful
    <2>4. CASE request' = Failed(b)
      BY <1>0, <2>4 DEF Failed, Idle, Relying
    <2>5. CASE CheckCode(b)
      BY <2>3, <2>4, <2>5 DEF CheckCode, At
    <2>6. CASE CheckPassword(b)
      <3>1. request[b].scope = "sign-in"
        BY <2>6 DEF CheckPassword, At, IInv, Scoped
      <3>2. request' # [request EXCEPT ![b].at = "clearing"]
        BY <1>0, <3>1 DEF Relying, Requests
      <3> QED BY <2>4, <2>6, <3>2 DEF CheckPassword
    <2>7. CASE Done(b)
      BY <1>0, <1>i, <2>7 DEF Done, Relying
    <2>8. CASE PostSignIn(b) \/ Incr(b) \/ Expire(b) \/ EnrolPage(b) \/ Die(b)
      BY <1>0, <2>7, <2>8 DEF PostSignIn, after_lockout, Incr, Expire, EnrolPage, Die, Done, Relying, Requests
    <2> QED BY <1>1, <2>1, <2>2, <2>5, <2>6, <2>8
  <1>2. CASE Clear(b)
    <2>0. request'[b].at = "idle" /\ profile' = profile /\ overtaken' = overtaken
      BY <1>0, <1>i, <1>2 DEF Clear, Done
    <2>1. \A v \in Browsers \ {b} : session'[v] = session[v] /\ proved'[v] = proved[v]
      BY <1>0, <1>2 DEF Clear
    <2>2. CASE request[b].scope = "sign-in"
      <3>1. session'[b].factor = FALSE
        BY <1>0, <1>2, <2>2 DEF Clear, session_started
      <3> QED BY <2>0, <2>1, <3>1, OthersFaithful DEF Faithful, Relying
    <2>3. CASE request[b].scope # "sign-in"
      <3>1. proved'[b] = request[b].copy.totp_secret
        BY <1>0, <1>2, <2>3 DEF Clear
      <3>2. Relying(b)
        BY <1>2, <2>3 DEF Clear, At, Relying
      <3>3. overtaken = FALSE => Faithful(b)'
        BY <2>0, <3>1, <3>2 DEF FactorInv, Faithful, Relying
      <3> QED BY <2>0, <2>1, <3>3, OthersFaithful
    <2> QED BY <2>2, <2>3
  <1>3. CASE SaveConfirmed(b)
    <2>0. /\ request'[b].at = "idle" /\ profile'.totp_secret = profile.totp_secret
          /\ overtaken' = overtaken
      BY <1>0, <1>i, <1>3 DEF SaveConfirmed, Done, Profiles
    <2>1. \A v \in Browsers \ {b} : session'[v] = session[v] /\ proved'[v] = proved[v]
      BY <1>0, <1>3 DEF SaveConfirmed
    <2>2. proved'[b] = request[b].copy.totp_secret /\ Relying(b)
      BY <1>0, <1>3 DEF SaveConfirmed, At, Relying
    <2>3. overtaken = FALSE => Faithful(b)'
      BY <2>0, <2>2 DEF FactorInv, Faithful, Relying
    <2> QED BY <2>0, <2>1, <2>3, OthersFaithful
  <1>4. CASE sign_out(b)
    <2>1. /\ request' = request /\ profile' = profile /\ overtaken' = overtaken
          /\ \A v \in Browsers \ {b} : session'[v] = session[v] /\ proved'[v] = proved[v]
          /\ session'[b].factor = FALSE /\ request[b].at = "idle"
      BY <1>0, <1>4 DEF sign_out, NoSession, At
    <2> QED BY <2>1, OthersFaithful DEF Faithful, Relying
  \* The first secret of the account: nobody has proved anything yet.
  <1>5. CASE SaveSecret(b)
    <2>1. CASE overtaken' = FALSE
      <3>1. overtaken = FALSE /\ profile.totp_secret = None
        BY <1>0, <1>5, <2>1 DEF SaveSecret
      <3>2. \A v \in Browsers : session[v].factor # TRUE /\ ~Relying(v)
        BY <3>1 DEF FactorInv, Faithful
      <3>3. \A v \in Browsers : session'[v].factor # TRUE /\ ~Relying(v)'
        <4>1. request'[b].at = "idle" /\ \A v \in Browsers \ {b} : request'[v] = request[v]
          BY <1>0, <1>i, <1>5 DEF SaveSecret, Done
        <4>2. session' = session
          BY <1>5 DEF SaveSecret
        <4> QED BY <3>2, <4>1, <4>2 DEF Relying
      <3> QED BY <3>3 DEF FactorInv, Faithful
    <2>2. CASE overtaken' # FALSE
      BY <2>2 DEF FactorInv
    <2> QED BY <2>1, <2>2
  <1> QED BY <1>1, <1>2, <1>3, <1>4, <1>5 DEF Step

\* start_session, verify and enrol: whoever may see a page has proved the
\* factor the account now has, since the last password, whatever enrolments
\* ran beside each other, as long as none was saved over a row it had not read.
THEOREM FactorIsProved == Spec => []FactorProved
  <1>1. Init => FactorInv
    BY DEF Init, FactorInv, Faithful, Relying, NoSession, Idle
  <1>2. IInv /\ FactorInv /\ [Next]_vars => FactorInv'
    <2> SUFFICES ASSUME IInv, FactorInv, [Next]_vars PROVE FactorInv'
      OBVIOUS
    <2>1. CASE UNCHANGED <<profile, session, request, proved, overtaken>>
      BY <2>1 DEF FactorInv, Faithful, Relying
    <2>2. ASSUME NEW b \in Browsers, Step(b) PROVE FactorInv'
      BY <2>2, StepFaithful
    <2> QED BY <2>1, <2>2 DEF Next, Tick, vars
  <1>3. IInv /\ FactorInv => FactorProved
    <2> SUFFICES ASSUME IInv, FactorInv, ~overtaken, NEW b \in Browsers, MaySee(b)
                 PROVE  proved[b] = profile.totp_secret
      BY DEF FactorProved
    <2>1. overtaken = FALSE /\ session[b].factor = TRUE
      BY DEF IInv, TypeInv, MaySee
    <2> QED BY <2>1 DEF FactorInv, Faithful
  <1> QED BY <1>1, <1>2, <1>3, InitIInv, NextIInv, PTL DEF Spec
=============================================================================
