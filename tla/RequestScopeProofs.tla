------------------------- MODULE RequestScopeProofs -------------------------
(***************************************************************************)
(* What holds around every management view, for any keys, tenants,         *)
(* decisions and workers, and trails of any length.                        *)
(*                                                                         *)
(* Shape: what a single request looks like at each place it can be in.     *)
(* Scopes nest two deep and the inner one found the tenant of the outer    *)
(* one, which is what its end restores.  Issuing: a key that is about to   *)
(* be issued is nobody's yet and may do no more than its issuer, whose row *)
(* cannot lose or gain a role meanwhile.                                   *)
(***************************************************************************)
EXTENDS RequestScope, TLAPS

KeyRows == {NoKey} \cup [tenant : Tenants, role : Roles, state : {"live", "revoked"}]

IssueEvents  == [op : {"issue"}, subject : KeyIds, value : Roles]
RevokeEvents == [op : {"revoke"}, subject : KeyIds, value : {None}]
ReviewEvents == [op : {"review"}, subject : Decisions, value : Statuses]
Events == IssueEvents \cup RevokeEvents \cup ReviewEvents

Scopes == [by : {"middleware", "view"}, tenant : Tenants, previous : Tenants \cup {None}]

Requests ==
    [ at : {"idle", "resolved", "accepted", "open", "loaded", "saved"},
      key : KeyIds \cup {None}, genuine : BOOLEAN, arrived : {None, "live"},
      scopes : Seq(Scopes), setting : Tenants \cup {None}, aborted : BOOLEAN,
      event : Events \cup {NoEvent}, written : BOOLEAN, recorded : BOOLEAN ]

\* Scopes nest two deep, the inner one inside a view that has done nothing,
\* and statements run with the tenant of the innermost.
WellNested(r) ==
    /\ Len(r.scopes) \in 0..2
    /\ r.at \in {"idle", "resolved", "accepted"} <=> Len(r.scopes) = 0
    /\ Len(r.scopes) = 2 => r.event = NoEvent /\ r.scopes[2].previous = r.scopes[1].tenant
    /\ Len(r.scopes) # 0 /\ r.aborted = FALSE => r.setting = r.scopes[Len(r.scopes)].tenant

\* Whoever is served presented a genuine key that was live.
WellKeyed(r) ==
    /\ r.at = "idle" => r = Idle
    /\ r.at \in {"resolved", "accepted"} => r.key # None
    /\ r.key # None => r.arrived = "live"
    /\ r.key # None /\ r.at # "resolved" => r.genuine = TRUE
    /\ r.event # NoEvent => r.key # None

\* A record goes with a row that was written for the same event.
WellPaired(r) ==
    /\ r.at \in {"loaded", "saved"} => r.event # NoEvent
    /\ r.at = "saved" => r.written = TRUE
    /\ r.written = TRUE => r.event # NoEvent
    /\ r.recorded = TRUE => r.written = TRUE

Shaped(r) == r \in Requests /\ WellNested(r) /\ WellKeyed(r) /\ WellPaired(r)

ShapeInv ==
    /\ keys \in [KeyIds -> KeyRows]
    /\ request \in [Workers -> Requests]
    /\ \A w \in Workers : Shaped(request[w])
    /\ verified \in [Workers -> SUBSET (KeyIds \X {TRUE})]

\* The row of a key that was presented stays.
Held == \A w \in Workers : request[w].key # None => keys[request[w].key] # NoKey

-----------------------------------------------------------------------------
(* Single requests.                                                        *)

LEMMA IdleShaped == Shaped(Idle)
  BY DEF Shaped, Requests, Idle, WellNested, WellKeyed, WellPaired

\* A step of one worker leaves the requests of the others as they were.
LEMMA SetShaped ==
  ASSUME NEW w \in Workers, NEW r, Shaped(r), Set(w, r),
         request \in [Workers -> Requests], \A v \in Workers : Shaped(request[v])
  PROVE  request' \in [Workers -> Requests] /\ \A v \in Workers : Shaped(request'[v])
  BY DEF Set, Shaped

\* No event is mistaken for another, or for none.
LEMMA EventsDistinct ==
  /\ \A e \in Events : e # NoEvent /\ e.subject # None
  /\ \A e \in RevokeEvents \cup ReviewEvents : e \notin IssueEvents
  BY ScopeAssumption DEF Events, IssueEvents, RevokeEvents, ReviewEvents, NoEvent

LEMMA ResolveShaped ==
  ASSUME NEW w \in Workers, NEW k \in KeyIds, NEW g \in BOOLEAN, ShapeInv, Resolve(w, k, g)
  PROVE  ShapeInv'
  <1> DEFINE r == [Idle EXCEPT !.at = "resolved", !.key = k, !.genuine = g,
                               !.arrived = keys[k].state]
  <1>1. Shaped(r)
    <2>0. /\ r.at = "resolved" /\ r.key = k /\ r.arrived = "live"
          /\ r.scopes = <<>> /\ r.event = NoEvent /\ r.written = FALSE /\ r.recorded = FALSE
      BY DEF Resolve, Admitted, Idle
    <2>1. r \in Requests
      <3>1. Idle \in Requests /\ keys[k].state = "live"
        BY IdleShaped DEF Shaped, Resolve, Admitted
      <3> QED BY <3>1 DEF Requests
    <2>2. WellNested(r)
      BY <2>0 DEF WellNested
    <2>3. WellKeyed(r)
      BY <2>0, ScopeAssumption DEF WellKeyed
    <2>4. WellPaired(r)
      BY <2>0 DEF WellPaired
    <2> QED BY <2>1, <2>2, <2>3, <2>4 DEF Shaped
  <1>2. Set(w, r)
    BY DEF Resolve
  <1>3. QED
    BY <1>1, <1>2, SetShaped DEF ShapeInv, Resolve

LEMMA VerifyShaped ==
  ASSUME NEW w \in Workers, ShapeInv, Verify(w)
  PROVE  ShapeInv'
  <1> DEFINE r == request[w]
             s == [r EXCEPT !.at = "accepted"]
  <1>0. Shaped(r) /\ r.at = "resolved" /\ r.genuine \in BOOLEAN /\ r.key \in KeyIds \cup {None}
    BY DEF ShapeInv, Verify, Shaped, Requests
  <1>1. CASE <<r.key, r.genuine>> \in verified[w] \/ r.genuine
    <2>1. r.genuine = TRUE
      <3>1. CASE <<r.key, r.genuine>> \in verified[w]
        <4>1. <<r.key, r.genuine>> \in KeyIds \X {TRUE}
          BY <3>1 DEF ShapeInv
        <4> QED BY <4>1
      <3>2. CASE r.genuine
        BY <1>0, <3>2
      <3> QED BY <1>1, <3>1, <3>2
    <2>2. Shaped(s)
      BY <1>0, <2>1 DEF Shaped, Requests, WellNested, WellKeyed, WellPaired
    <2>3. Set(w, s) /\ verified' = [verified EXCEPT ![w] = @ \cup {<<r.key, r.genuine>>}]
      BY <1>1 DEF Verify
    <2>4. r.key \in KeyIds
      BY <1>0 DEF Shaped, WellKeyed
    <2>5. <<r.key, r.genuine>> \in KeyIds \X {TRUE}
      BY <2>1, <2>4
    <2>6. verified' \in [Workers -> SUBSET (KeyIds \X {TRUE})]
      BY <2>3, <2>5 DEF ShapeInv
    <2> QED
      BY <2>2, <2>3, <2>6, SetShaped DEF ShapeInv, Verify
  <1>2. CASE ~(<<r.key, r.genuine>> \in verified[w] \/ r.genuine)
    BY <1>2, IdleShaped, SetShaped DEF Verify, ShapeInv
  <1> QED BY <1>1, <1>2

LEMMA EnterShaped ==
  ASSUME NEW r, Shaped(r), NEW t \in Tenants, NEW by \in {"middleware", "view"},
         \/ r.at \in {"idle", "accepted"}
         \/ r.at = "open" /\ Len(r.scopes) = 1 /\ r.aborted = FALSE /\ r.event = NoEvent,
         r.at = "idle" => r = Idle
  PROVE  Shaped(enter(r, by, t))
  <1> DEFINE scope == [by |-> by, tenant |-> t, previous |-> r.setting]
             s == enter(r, by, t)
  <1>1. r \in Requests /\ scope \in Scopes /\ r.scopes \in Seq(Scopes)
    BY DEF Shaped, Requests, Scopes
  <1>2. s \in Requests
    <2>1. Append(r.scopes, scope) \in Seq(Scopes)
      BY <1>1
    <2> QED BY <1>1, <2>1 DEF Requests, enter
  <1>3. /\ s.at = "open" /\ s.setting = t /\ s.scopes = Append(r.scopes, scope)
        /\ s.key = r.key /\ s.genuine = r.genuine /\ s.arrived = r.arrived
        /\ s.aborted = r.aborted /\ s.event = r.event /\ s.written = r.written
        /\ s.recorded = r.recorded
    BY <1>1 DEF Requests, enter
  <1>4. WellNested(s)
    <2> HIDE DEF s
    <2> QED BY <1>1, <1>3 DEF Shaped, WellNested
  <1>5. WellKeyed(s)
    <2> HIDE DEF s
    <2> QED BY <1>1, <1>3 DEF Shaped, WellKeyed, Idle
  <1>6. WellPaired(s)
    <2> HIDE DEF s
    <2> QED BY <1>1, <1>3 DEF Shaped, WellPaired
  <1> QED BY <1>2, <1>4, <1>5, <1>6 DEF Shaped

LEMMA ScopeOpenedShaped ==
  ASSUME NEW w \in Workers, ShapeInv, Held,
         ApiRequest(w) \/ \E t \in Tenants : DashboardPage(w, t)
  PROVE  ShapeInv'
  <1>0. Shaped(request[w]) /\ (request[w].at = "idle" => request[w] = Idle)
    BY DEF ShapeInv, Shaped, WellKeyed
  <1>1. CASE ApiRequest(w)
    <2>1. keys[request[w].key].tenant \in Tenants
      BY <1>0, <1>1 DEF ApiRequest, Shaped, WellKeyed, Requests, Held, ShapeInv, KeyRows
    <2> QED BY <1>0, <1>1, <2>1, EnterShaped, SetShaped DEF ApiRequest, ShapeInv
  <1>2. ASSUME NEW t \in Tenants, DashboardPage(w, t) PROVE ShapeInv'
    <2>0. request[w].aborted \in BOOLEAN
      BY <1>0 DEF Shaped, Requests
    <2>1. CASE request[w] = Idle
      BY <1>0, <1>2, <2>1, EnterShaped, SetShaped DEF DashboardPage, ShapeInv, Idle
    <2>2. CASE request[w] # Idle
      BY <1>0, <1>2, <2>0, <2>2, EnterShaped, SetShaped DEF DashboardPage, ShapeInv
    <2> QED BY <2>1, <2>2
  <1> QED BY <1>1, <1>2

\* Begin starts any of the three views.
LEMMA BeginShaped ==
  ASSUME NEW w \in Workers, ShapeInv, NEW e \in Events, Begin(w, e)
  PROVE  ShapeInv'
  <1> DEFINE r == request[w]
             s == [r EXCEPT !.at = "loaded", !.event = e]
  <1>0. Shaped(r) /\ r.at = "open" /\ r.key # None /\ Len(r.scopes) = 1
    BY DEF ShapeInv, Begin
  <1>1. s \in Requests /\ e # NoEvent
    BY <1>0, EventsDistinct DEF Shaped, Requests
  <1>2. Shaped(s)
    <2>1. WellNested(s)
      <3>1. /\ s.at = "loaded" /\ s.scopes = r.scopes /\ s.aborted = r.aborted
            /\ s.setting = r.setting
        BY <1>0 DEF Shaped, Requests
      <3>2. r.aborted = FALSE => r.setting = r.scopes[1].tenant
        BY <1>0 DEF Shaped, WellNested
      <3>3. /\ Len(s.scopes) = 1 /\ s.aborted = r.aborted /\ s.setting = r.setting
            /\ s.scopes[1] = r.scopes[1]
        <4> HIDE DEF s
        <4> QED BY <1>0, <3>1
      <3> HIDE DEF r, s
      <3>4. /\ Len(s.scopes) \in 0..2 /\ ~ (Len(s.scopes) = 2) /\ ~ (Len(s.scopes) = 0)
            /\ ~ (s.at \in {"idle", "resolved", "accepted"})
        BY <3>1, <3>3
      <3>5. s.aborted = FALSE => s.setting = s.scopes[Len(s.scopes)].tenant
        BY <3>2, <3>3
      <3> QED BY <3>4, <3>5 DEF WellNested
    <2>2. WellKeyed(s)
      BY <1>0, <1>1 DEF Shaped, Requests, WellKeyed
    <2>3. WellPaired(s)
      BY <1>0, <1>1 DEF Shaped, Requests, WellPaired
    <2> QED BY <1>1, <2>1, <2>2, <2>3 DEF Shaped
  <1> QED BY <1>2, SetShaped DEF Begin, ShapeInv

LEMMA ViewsShaped ==
  ASSUME NEW w \in Workers, ShapeInv,
         \/ \E k \in KeyIds : revoke(w, k) \/ \E role \in Asked : create(w, k, role)
         \/ \E d \in Decisions, status \in Statuses : review_decision(w, d, status)
  PROVE  ShapeInv' /\ \E e \in Events : Begin(w, e)
  <1>1. ASSUME NEW k \in KeyIds, revoke(w, k) PROVE \E e \in Events : Begin(w, e)
    BY <1>1 DEF revoke, Events, RevokeEvents
  <1>2. ASSUME NEW k \in KeyIds, NEW role \in Asked, create(w, k, role)
        PROVE \E e \in Events : Begin(w, e)
    BY <1>2, ScopeAssumption DEF create, Events, IssueEvents
  <1>3. ASSUME NEW d \in Decisions, NEW status \in Statuses, review_decision(w, d, status)
        PROVE \E e \in Events : Begin(w, e)
    BY <1>3 DEF review_decision, Events, ReviewEvents
  <1> QED BY <1>1, <1>2, <1>3, BeginShaped

LEMMA SaveShaped ==
  ASSUME NEW w \in Workers, ShapeInv, Save(w)
  PROVE  ShapeInv'
  <1> DEFINE r == request[w]
             s == [r EXCEPT !.at = "saved", !.written = TRUE]
  <1>0. Shaped(r) /\ r.at = "loaded"
    BY DEF ShapeInv, Save
  <1>1. Shaped(s)
    BY <1>0 DEF Shaped, Requests, WellNested, WellKeyed, WellPaired
  <1> QED BY <1>1, SetShaped DEF Save, ShapeInv

LEMMA AuditAppendShaped ==
  ASSUME NEW w \in Workers, ShapeInv, AuditAppend(w)
  PROVE  ShapeInv'
  <1> DEFINE r == request[w]
  <1>0. Shaped(r) /\ r.at = "saved"
    BY DEF ShapeInv, AuditAppend
  <1>1. ASSUME NEW ok \in BOOLEAN PROVE Shaped([r EXCEPT !.at = "open", !.recorded = ok])
    BY <1>0 DEF Shaped, Requests, WellNested, WellKeyed, WellPaired
  <1> QED BY <1>1, SetShaped DEF AuditAppend, ShapeInv

LEMMA DatabaseErrorShaped ==
  ASSUME NEW w \in Workers, ShapeInv, DatabaseError(w)
  PROVE  ShapeInv'
  <1> DEFINE r == request[w]
             s == [r EXCEPT !.at = "open", !.aborted = TRUE]
  <1>0. Shaped(r) /\ r.scopes # <<>> /\ r.scopes \in Seq(Scopes)
    BY DEF ShapeInv, DatabaseError, Shaped, Requests
  <1>1. Len(r.scopes) # 0
    BY <1>0
  <1>2. Shaped(s)
    BY <1>0, <1>1 DEF Shaped, Requests, WellNested, WellKeyed, WellPaired
  <1> QED BY <1>2, SetShaped DEF DatabaseError, ShapeInv

LEMMA CloseInnerShaped ==
  ASSUME NEW w \in Workers, ShapeInv, CloseInner(w)
  PROVE  ShapeInv'
  <1> DEFINE r == request[w]
  <1>0. Shaped(r) /\ r.at = "open" /\ Len(r.scopes) = 2 /\ r.scopes \in Seq(Scopes)
    BY DEF ShapeInv, CloseInner, Shaped, Requests
  <1>1. /\ Front(r.scopes) \in Seq(Scopes) /\ Len(Front(r.scopes)) = 1
        /\ Front(r.scopes)[1] = r.scopes[1] /\ Last(r.scopes).previous = r.scopes[1].tenant
        /\ r.scopes[1].tenant \in Tenants
    <2>1. Front(r.scopes) = SubSeq(r.scopes, 1, 1)
      BY <1>0 DEF Front
    <2>2. r.scopes[1] \in Scopes
      BY <1>0
    <2> QED BY <1>0, <2>1, <2>2 DEF Last, Shaped, WellNested, Scopes
  <1>2. ASSUME NEW a \in BOOLEAN
        PROVE  Shaped([r EXCEPT !.scopes = Front(@), !.aborted = a, !.setting = Last(r.scopes).previous])
    <2> DEFINE s == [r EXCEPT !.scopes = Front(@), !.aborted = a, !.setting = Last(r.scopes).previous]
    <2>1. s \in Requests
      BY <1>0, <1>1 DEF Shaped, Requests
    <2>2. WellNested(s)
      BY <1>0, <1>1 DEF Shaped, Requests, WellNested
    <2>3. WellKeyed(s)
      BY <1>0, <1>1 DEF Shaped, Requests, WellKeyed
    <2>4. WellPaired(s)
      BY <1>0, <1>1 DEF Shaped, Requests, WellPaired
    <2> QED BY <2>1, <2>2, <2>3, <2>4 DEF Shaped
  <1>3. CASE r.aborted = FALSE /\ Set(w, [r EXCEPT !.scopes = Front(@), !.setting = setting_on_exit(r)])
    <2>1. [r EXCEPT !.scopes = Front(@), !.setting = setting_on_exit(r)]
            = [r EXCEPT !.scopes = Front(@), !.aborted = FALSE, !.setting = Last(r.scopes).previous]
      BY <1>0, <1>3 DEF Shaped, Requests, setting_on_exit
    <2> QED BY <1>2, <1>3, <2>1, SetShaped DEF CloseInner, ShapeInv
  <1>4. CASE Set(w, [r EXCEPT !.scopes = Front(@), !.aborted = FALSE,
                              !.setting = Last(r.scopes).previous])
    BY <1>2, <1>4, SetShaped DEF CloseInner, ShapeInv
  <1>5. r.aborted \in BOOLEAN
    BY <1>0 DEF Shaped, Requests
  <1> QED BY <1>3, <1>4, <1>5 DEF CloseInner

\* What a committed event does to the key table: an issue fills a row that was
\* free, a revocation keeps tenant and role, and no row is taken away.
LEMMA KeysAfterIssue ==
  ASSUME NEW e \in IssueEvents, NEW t \in Tenants, keys \in [KeyIds -> KeyRows]
  PROVE  /\ KeysAfter(e, t) = [keys EXCEPT ![e.subject] =
                                  [tenant |-> t, role |-> e.value, state |-> "live"]]
         /\ KeysAfter(e, t) \in [KeyIds -> KeyRows]
  BY DEF KeysAfter, IssueEvents, KeyRows

LEMMA KeysAfterRevoke ==
  ASSUME NEW e \in RevokeEvents, NEW t, keys \in [KeyIds -> KeyRows], keys[e.subject] # NoKey
  PROVE  /\ KeysAfter(e, t) = [keys EXCEPT ![e.subject].state = "revoked"]
         /\ KeysAfter(e, t) \in [KeyIds -> KeyRows]
         /\ KeysAfter(e, t)[e.subject].role = keys[e.subject].role
         /\ KeysAfter(e, t)[e.subject].tenant = keys[e.subject].tenant
         /\ KeysAfter(e, t)[e.subject].state = "revoked"
  BY DEF KeysAfter, RevokeEvents, KeyRows

LEMMA KeysAfterReview ==
  ASSUME NEW e \in ReviewEvents, NEW t
  PROVE  KeysAfter(e, t) = keys
  BY DEF KeysAfter, ReviewEvents

\* A live or revoked row is no NoKey.
LEMMA RowsAreRows ==
  ASSUME NEW k \in KeyRows, k # NoKey
  PROVE  k.tenant \in Tenants /\ k.role \in Roles /\ k.state \in {"live", "revoked"}
  BY DEF KeyRows

LEMMA RowsAreNotFree == \A k \in KeyRows : k.state \in {"live", "revoked"} => k # NoKey
  BY DEF KeyRows, NoKey

-----------------------------------------------------------------------------
(* Issuing.                                                                *)

\* What an event in flight needs of the key table at its commit.
Ready(w) ==
    LET e == request[w].event
    IN /\ e \in IssueEvents =>
            /\ keys[e.subject] = NoKey
            /\ PERMISSIONS[e.value] \subseteq PERMISSIONS[keys[request[w].key].role]
       /\ e \in RevokeEvents => keys[e.subject] # NoKey

\* generate_key draws a prefix that nobody else is about to use.
OneIssuer ==
    \A v, w \in Workers : v # w /\ request[w].event \in IssueEvents =>
        request[v].event.subject # request[w].event.subject

KeyInv == Held /\ OneIssuer /\ (\A w \in Workers : Ready(w)) /\ NoEscalation

IInv == ShapeInv /\ KeyInv

\* A step that neither commits, nor begins a view, nor reads a key.
LEMMA QuietKeyed ==
  ASSUME NEW w \in Workers, KeyInv, keys' = keys, \A v \in Workers \ {w} : request'[v] = request[v],
         request'[w].key = request[w].key \/ request'[w].key = None,
         \/ request'[w].event = request[w].event /\ request'[w].key = request[w].key
         \/ request'[w].event = NoEvent
  PROVE  KeyInv'
  <1>1. Held'
    BY DEF KeyInv, Held
  <1>2. NoEvent \notin IssueEvents /\ NoEvent \notin RevokeEvents /\ NoEvent.subject = None
    BY EventsDistinct DEF Events, NoEvent
  <1>3. \A v \in Workers : Ready(v)'
    BY <1>2 DEF KeyInv, Ready
  <1>4. OneIssuer'
    BY <1>2, EventsDistinct DEF KeyInv, OneIssuer, Events
  <1>5. NoEscalation'
    BY DEF KeyInv, NoEscalation
  <1> QED BY <1>1, <1>3, <1>4, <1>5 DEF KeyInv

LEMMA BeginKeyed ==
  ASSUME NEW w \in Workers, IInv, NEW e \in Events, Begin(w, e),
         e \in IssueEvents =>
            /\ keys[e.subject] = NoKey
            /\ PERMISSIONS[e.value] \subseteq PERMISSIONS[RoleOf(w)]
            /\ \A v \in Workers : request[v].event.subject # e.subject,
         e \in RevokeEvents => keys[e.subject] # NoKey
  PROVE  KeyInv'
  <1>1. /\ keys' = keys /\ \A v \in Workers \ {w} : request'[v] = request[v]
        /\ request'[w].key = request[w].key /\ request'[w].event = e
    BY DEF Begin, Set, IInv, ShapeInv, Requests
  <1>2. Held'
    BY <1>1 DEF IInv, KeyInv, Held
  <1>3. \A v \in Workers : Ready(v)'
    BY <1>1 DEF IInv, KeyInv, Ready, RoleOf
  <1>4. OneIssuer'
    <2> SUFFICES ASSUME NEW u \in Workers, NEW v \in Workers, u # v, request'[v].event \in IssueEvents
                 PROVE  request'[u].event.subject # request'[v].event.subject
      BY DEF OneIssuer
    <2>1. CASE v = w
      BY <1>1, <2>1
    <2>2. CASE u = w
      <3>1. request[v].event \in IssueEvents /\ request'[v].event = request[v].event
        BY <1>1, <2>2
      <3>2. keys[request[v].event.subject] = NoKey
        BY <3>1 DEF IInv, KeyInv, Ready
      <3>3. CASE e \in IssueEvents
        BY <1>1, <2>2, <3>1, <3>3
      <3>4. CASE e \in RevokeEvents
        BY <1>1, <2>2, <3>1, <3>2, <3>4
      <3>5. CASE e \in ReviewEvents
        BY <1>1, <2>2, <3>1, <3>5, ScopeAssumption DEF ReviewEvents, IssueEvents
      <3> QED BY <3>3, <3>4, <3>5 DEF Events
    <2>3. CASE u # w /\ v # w
      BY <1>1, <2>3 DEF IInv, KeyInv, OneIssuer
    <2> QED BY <2>1, <2>2, <2>3
  <1>5. NoEscalation'
    BY <1>1 DEF IInv, KeyInv, NoEscalation
  <1> QED BY <1>2, <1>3, <1>4, <1>5 DEF KeyInv

\* Each view begins with what its event needs.
LEMMA ViewsKeyed ==
  ASSUME NEW w \in Workers, IInv,
         \/ \E k \in KeyIds : revoke(w, k) \/ \E role \in Asked : create(w, k, role)
         \/ \E d \in Decisions, status \in Statuses : review_decision(w, d, status)
  PROVE  KeyInv'
  <1>1. ASSUME NEW k \in KeyIds, revoke(w, k) PROVE KeyInv'
    <2> DEFINE e == [op |-> "revoke", subject |-> k, value |-> None]
    <2>1. e \in RevokeEvents /\ e \in Events /\ e \notin IssueEvents
      BY DEF Events, RevokeEvents, IssueEvents
    <2>2. keys[k] # NoKey /\ Begin(w, e) /\ e.subject = k
      BY <1>1 DEF revoke, NoKey
    <2> HIDE DEF e
    <2> QED BY <2>1, <2>2, BeginKeyed
  <1>2. ASSUME NEW k \in KeyIds, NEW role \in Asked, create(w, k, role) PROVE KeyInv'
    <2> DEFINE e == [op |-> "issue", subject |-> k, value |-> role]
    <2>1. e \in IssueEvents /\ e \in Events /\ e \notin RevokeEvents
      BY ScopeAssumption DEF Events, RevokeEvents, IssueEvents
    <2>2. /\ Begin(w, e) /\ e.subject = k /\ e.value = role /\ keys[k] = NoKey
          /\ PERMISSIONS[role] \subseteq PERMISSIONS[RoleOf(w)]
          /\ \A v \in Workers : request[v].event.subject # k
      BY <1>2 DEF create, may_issue
    <2> HIDE DEF e
    <2> QED BY <2>1, <2>2, BeginKeyed
  <1>3. ASSUME NEW d \in Decisions, NEW status \in Statuses, review_decision(w, d, status)
        PROVE  KeyInv'
    <2> DEFINE e == [op |-> "review", subject |-> d, value |-> status]
    <2>1. e \in Events /\ e \notin IssueEvents /\ e \notin RevokeEvents
      BY DEF Events, RevokeEvents, IssueEvents, ReviewEvents
    <2>2. Begin(w, e)
      BY <1>3 DEF review_decision
    <2> HIDE DEF e
    <2> QED BY <2>1, <2>2, BeginKeyed
  <1> QED BY <1>1, <1>2, <1>3

LEMMA ResolveKeyed ==
  ASSUME NEW w \in Workers, NEW k \in KeyIds, NEW g \in BOOLEAN, IInv, Resolve(w, k, g)
  PROVE  KeyInv'
  <1>1. /\ keys' = keys /\ \A v \in Workers \ {w} : request'[v] = request[v]
        /\ request'[w].key = k /\ request'[w].event = NoEvent
    BY DEF Resolve, Set, IInv, ShapeInv, Idle
  <1>2. keys[k] # NoKey
    BY DEF Resolve, Admitted, NoKey
  <1>3. Held'
    BY <1>1, <1>2 DEF IInv, KeyInv, Held
  <1>4. NoEvent \notin IssueEvents /\ NoEvent \notin RevokeEvents /\ NoEvent.subject = None
    BY EventsDistinct DEF Events, NoEvent
  <1>5. \A v \in Workers : Ready(v)'
    BY <1>1, <1>4 DEF IInv, KeyInv, Ready
  <1>6. OneIssuer'
    BY <1>1, <1>4, EventsDistinct DEF IInv, KeyInv, OneIssuer, Events
  <1>7. NoEscalation'
    BY <1>1 DEF IInv, KeyInv, NoEscalation
  <1> QED BY <1>3, <1>5, <1>6, <1>7 DEF KeyInv

\* A COMMIT that wrote a row has its event, its key and the key's tenant.
LEMMA WrittenHasKey ==
  ASSUME NEW w \in Workers, IInv, request[w].written = TRUE
  PROVE  /\ request[w].event \in Events
         /\ request[w].key \in KeyIds /\ keys[request[w].key] # NoKey
         /\ keys[request[w].key].tenant \in Tenants
  BY RowsAreRows DEF IInv, ShapeInv, Shaped, Requests, WellPaired, WellKeyed, KeyInv, Held

LEMMA CommitKeyed ==
  ASSUME NEW w \in Workers, IInv, Commit(w)
  PROVE  KeyInv' /\ keys' \in [KeyIds -> KeyRows]
  <1> DEFINE r == request[w]
             e == r.event
             t == keys[r.key].tenant
  <1>0. /\ \A v \in Workers \ {w} : request'[v] = request[v]
        /\ request'[w].key = None /\ request'[w].event = NoEvent
    BY DEF Commit, Set, IInv, ShapeInv, Idle
  <1>1. NoEvent \notin IssueEvents /\ NoEvent \notin RevokeEvents /\ NoEvent.subject = None
    BY EventsDistinct DEF Events, NoEvent
  <1>2. OneIssuer'
    BY <1>0, <1>1, EventsDistinct DEF IInv, KeyInv, OneIssuer, Events
  <1>3. r.written \in BOOLEAN /\ keys \in [KeyIds -> KeyRows]
    BY DEF IInv, ShapeInv, Requests
  <1>4. CASE keys' = keys
    BY <1>0, <1>3, <1>4, QuietKeyed DEF IInv
  <1>5. CASE r.written = TRUE /\ e \in IssueEvents
    <2>1. r.key \in KeyIds /\ keys[r.key] # NoKey /\ t \in Tenants
      BY <1>5, WrittenHasKey
    <2>2. keys' = [keys EXCEPT ![e.subject] = [tenant |-> t, role |-> e.value, state |-> "live"]]
      BY <1>3, <1>5, <2>1, KeysAfterIssue DEF Commit
    <2>3. keys' \in [KeyIds -> KeyRows]
      BY <1>3, <1>5, <2>1, KeysAfterIssue DEF Commit
    <2>4. /\ e.subject \in KeyIds /\ e.value \in Roles /\ keys[e.subject] = NoKey
          /\ PERMISSIONS[e.value] \subseteq PERMISSIONS[keys[r.key].role]
      BY <1>5 DEF IssueEvents, IInv, KeyInv, Ready
    <2>5. /\ keys'[e.subject].tenant = t /\ keys'[e.subject].role = e.value
          /\ keys'[e.subject] # NoKey
          /\ \A k \in KeyIds \ {e.subject} : keys'[k] = keys[k]
      BY <1>3, <2>2, <2>4 DEF NoKey
    <2>6. Held'
      <3> SUFFICES ASSUME NEW v \in Workers, request'[v].key # None PROVE keys'[request'[v].key] # NoKey
        BY DEF Held
      <3>1. v # w /\ request'[v] = request[v]
        BY <1>0
      <3>2. request[v].key \in KeyIds /\ keys[request[v].key] # NoKey
        BY <3>1 DEF IInv, KeyInv, Held, ShapeInv, Requests
      <3> QED BY <2>4, <2>5, <3>1, <3>2
    <2>7. \A v \in Workers : Ready(v)'
      <3> SUFFICES ASSUME NEW v \in Workers, v # w PROVE Ready(v)'
        BY <1>0, <1>1 DEF Ready
      <3>0. request'[v] = request[v]
        BY <1>0
      <3>1. ASSUME request[v].event \in IssueEvents
            PROVE  /\ keys'[request[v].event.subject] = NoKey
                   /\ keys'[request[v].key] = keys[request[v].key]
        <4>1. request[v].event.subject # e.subject
          BY <1>5, <3>1 DEF IInv, KeyInv, OneIssuer
        <4>2. request[v].event.subject \in KeyIds /\ keys[request[v].event.subject] = NoKey
          BY <3>1 DEF IInv, KeyInv, Ready, IssueEvents
        <4>3. request[v].key \in KeyIds /\ keys[request[v].key] # NoKey
          BY <3>1, EventsDistinct DEF IInv, ShapeInv, Shaped, WellKeyed, Requests, KeyInv, Held, Events
        <4> QED BY <2>4, <2>5, <4>1, <4>2, <4>3
      <3>2. ASSUME request[v].event \in RevokeEvents
            PROVE  keys'[request[v].event.subject] # NoKey
        BY <2>5, <3>2 DEF RevokeEvents, IInv, KeyInv, Ready
      <3> QED BY <3>0, <3>1, <3>2 DEF Ready, IInv, KeyInv
    <2>8. NoEscalation'
      <3>1. PICK b \in Bootstrap : /\ BootKey[b].tenant = t
                                  /\ PERMISSIONS[keys[r.key].role] \subseteq PERMISSIONS[BootKey[b].role]
        BY <2>1 DEF IInv, KeyInv, NoEscalation
      <3>2. PERMISSIONS[keys'[e.subject].role] \subseteq PERMISSIONS[BootKey[b].role]
        BY <2>4, <2>5, <3>1
      <3>3. ASSUME NEW k \in KeyIds, keys'[k] # NoKey, k # e.subject
            PROVE  \E c \in Bootstrap : /\ BootKey[c].tenant = keys'[k].tenant
                                       /\ PERMISSIONS[keys'[k].role] \subseteq PERMISSIONS[BootKey[c].role]
        <4>1. keys'[k] = keys[k]
          BY <2>5, <3>3
        <4> QED BY <3>3, <4>1 DEF IInv, KeyInv, NoEscalation
      <3>4. BootKey[b].tenant = keys'[e.subject].tenant
        BY <2>5, <3>1
      <3> QED BY <3>2, <3>3, <3>4 DEF NoEscalation
    <2> QED BY <1>2, <2>3, <2>6, <2>7, <2>8 DEF KeyInv
  <1>6. CASE r.written = TRUE /\ e \in RevokeEvents
    <2>1. e.subject \in KeyIds /\ keys[e.subject] # NoKey
      BY <1>6 DEF RevokeEvents, IInv, KeyInv, Ready
    <2>2. /\ keys' = [keys EXCEPT ![e.subject].state = "revoked"]
          /\ keys' \in [KeyIds -> KeyRows]
          /\ keys'[e.subject].role = keys[e.subject].role
          /\ keys'[e.subject].tenant = keys[e.subject].tenant
          /\ keys'[e.subject].state = "revoked"
      BY <1>3, <1>6, <2>1, KeysAfterRevoke DEF Commit
    <2>3. /\ \A k \in KeyIds : keys'[k] # NoKey <=> keys[k] # NoKey
          /\ \A k \in KeyIds : keys'[k].role = keys[k].role /\ keys'[k].tenant = keys[k].tenant
      <3>1. keys'[e.subject] # NoKey
        BY <2>2 DEF NoKey
      <3>2. \A k \in KeyIds : k # e.subject => keys'[k] = keys[k]
        BY <1>3, <2>1, <2>2
      <3> QED BY <2>1, <2>2, <3>1, <3>2
    <2>4. Held'
      BY <1>0, <2>3 DEF IInv, KeyInv, Held, ShapeInv, Requests
    <2>5. \A v \in Workers : Ready(v)'
      <3> SUFFICES ASSUME NEW v \in Workers, v # w PROVE Ready(v)'
        BY <1>0, <1>1 DEF Ready
      <3>0. request'[v] = request[v]
        BY <1>0
      <3>1. ASSUME request[v].event \in IssueEvents
            PROVE  /\ keys'[request[v].event.subject] = NoKey
                   /\ keys'[request[v].key].role = keys[request[v].key].role
        <4>1. request[v].event.subject \in KeyIds /\ keys[request[v].event.subject] = NoKey
          BY <3>1 DEF IInv, KeyInv, Ready, IssueEvents
        <4>2. request[v].key \in KeyIds
          BY <3>1, EventsDistinct DEF IInv, ShapeInv, Shaped, WellKeyed, Requests, Events
        <4> QED BY <2>3, <4>1, <4>2
      <3>2. ASSUME request[v].event \in RevokeEvents
            PROVE  keys'[request[v].event.subject] # NoKey
        BY <2>3, <3>2 DEF RevokeEvents, IInv, KeyInv, Ready
      <3> QED BY <3>0, <3>1, <3>2 DEF Ready, IInv, KeyInv
    <2>6. NoEscalation'
      BY <2>3 DEF IInv, KeyInv, NoEscalation
    <2> QED BY <1>2, <2>2, <2>4, <2>5, <2>6 DEF KeyInv
  <1>7. CASE r.written = TRUE /\ e \in ReviewEvents
    BY <1>4, <1>7, KeysAfterReview DEF Commit
  <1>8. CASE r.written = FALSE
    BY <1>4, <1>8 DEF Commit
  <1> QED BY <1>3, <1>5, <1>6, <1>7, <1>8, WrittenHasKey DEF Events
-----------------------------------------------------------------------------
(* Every step.                                                             *)

\* The steps that neither read a key, nor begin a view, nor commit.
Quiet(w) ==
    \/ Verify(w) \/ Forget(w) \/ ApiRequest(w) \/ \E t \in Tenants : DashboardPage(w, t)
    \/ Save(w) \/ AuditAppend(w) \/ DatabaseError(w) \/ CloseInner(w) \/ Rollback(w) \/ Crash(w)

LEMMA QuietSteps ==
  ASSUME NEW w \in Workers, IInv, Quiet(w)
  PROVE  /\ keys' = keys /\ \A v \in Workers \ {w} : request'[v] = request[v]
         /\ \/ request'[w].event = request[w].event /\ request'[w].key = request[w].key
            \/ request'[w].event = NoEvent /\ request'[w].key = None
  <1>0. request \in [Workers -> Requests] /\ request[w] \in Requests
    BY DEF IInv, ShapeInv
  <1>i. Idle.event = NoEvent /\ Idle.key = None
    BY DEF Idle
  <1>1. CASE Verify(w)
    BY <1>0, <1>i, <1>1 DEF Verify, Set, Requests
  <1>2. CASE Forget(w)
    BY <1>0, <1>2 DEF Forget
  <1>s. ASSUME NEW r, Set(w, r)
        PROVE  request'[w] = r /\ \A v \in Workers \ {w} : request'[v] = request[v]
    BY <1>0, <1>s DEF Set
  <1>3. CASE ApiRequest(w) \/ \E t \in Tenants : DashboardPage(w, t)
    <2>1. ASSUME NEW by, NEW t
          PROVE  enter(request[w], by, t).event = request[w].event
                 /\ enter(request[w], by, t).key = request[w].key
      BY <1>0 DEF enter, Requests
    <2> QED BY <1>s, <1>3, <2>1 DEF ApiRequest, DashboardPage
  <1>4. CASE Save(w) \/ AuditAppend(w) \/ DatabaseError(w)
    <2>1. ASSUME NEW at
          PROVE  /\ [request[w] EXCEPT !.at = at, !.written = TRUE].event = request[w].event
                 /\ [request[w] EXCEPT !.at = at, !.written = TRUE].key = request[w].key
      BY <1>0 DEF Requests
    <2>2. ASSUME NEW at, NEW ok \in BOOLEAN
          PROVE  /\ [request[w] EXCEPT !.at = at, !.recorded = ok].event = request[w].event
                 /\ [request[w] EXCEPT !.at = at, !.recorded = ok].key = request[w].key
      BY <1>0 DEF Requests
    <2>3. ASSUME NEW at
          PROVE  /\ [request[w] EXCEPT !.at = at, !.aborted = TRUE].event = request[w].event
                 /\ [request[w] EXCEPT !.at = at, !.aborted = TRUE].key = request[w].key
      BY <1>0 DEF Requests
    <2>4. CASE Save(w)
      <3>1. Set(w, [request[w] EXCEPT !.at = "saved", !.written = TRUE]) /\ keys' = keys
        BY <2>4 DEF Save
      <3> QED BY <1>s, <2>1, <3>1
    <2>5. CASE AuditAppend(w)
      <3>1. PICK ok \in BOOLEAN : Set(w, [request[w] EXCEPT !.at = "open", !.recorded = ok])
        BY <2>5 DEF AuditAppend
      <3>2. keys' = keys
        BY <2>5 DEF AuditAppend
      <3>3. /\ request'[w] = [request[w] EXCEPT !.at = "open", !.recorded = ok]
            /\ \A v \in Workers \ {w} : request'[v] = request[v]
        BY <1>s, <3>1
      <3> QED BY <2>2, <3>2, <3>3
    <2>6. CASE DatabaseError(w)
      <3>1. Set(w, [request[w] EXCEPT !.at = "open", !.aborted = TRUE]) /\ keys' = keys
        BY <2>6 DEF DatabaseError
      <3> QED BY <1>s, <2>3, <3>1
    <2> QED BY <1>4, <2>4, <2>5, <2>6
  <1>5. CASE CloseInner(w)
    <2>0. keys' = keys
      BY <1>5 DEF CloseInner
    <2>1. ASSUME NEW a, NEW b
          PROVE  /\ [request[w] EXCEPT !.scopes = a, !.setting = b].event = request[w].event
                 /\ [request[w] EXCEPT !.scopes = a, !.setting = b].key = request[w].key
      BY <1>0 DEF Requests
    <2>2. ASSUME NEW a, NEW b
          PROVE  /\ [request[w] EXCEPT !.scopes = a, !.aborted = FALSE, !.setting = b].event = request[w].event
                 /\ [request[w] EXCEPT !.scopes = a, !.aborted = FALSE, !.setting = b].key = request[w].key
      BY <1>0 DEF Requests
    <2>3. CASE Set(w, [request[w] EXCEPT !.scopes = Front(@), !.setting = setting_on_exit(request[w])])
      <3>1. /\ request'[w] = [request[w] EXCEPT !.scopes = Front(@), !.setting = setting_on_exit(request[w])]
            /\ \A v \in Workers \ {w} : request'[v] = request[v]
        BY <1>0, <2>3 DEF Set
      <3> QED BY <2>0, <2>1, <3>1
    <2>4. CASE Set(w, [request[w] EXCEPT !.scopes = Front(@), !.aborted = FALSE,
                                         !.setting = Last(request[w].scopes).previous])
      <3>1. /\ request'[w] = [request[w] EXCEPT !.scopes = Front(@), !.aborted = FALSE,
                                                !.setting = Last(request[w].scopes).previous]
            /\ \A v \in Workers \ {w} : request'[v] = request[v]
        BY <1>0, <2>4 DEF Set
      <3> QED BY <2>0, <2>2, <3>1
    <2> QED BY <1>5, <2>3, <2>4 DEF CloseInner
  <1>6. CASE Rollback(w) \/ Crash(w)
    BY <1>0, <1>i, <1>6 DEF Rollback, Crash, Set
  <1> QED BY <1>1, <1>2, <1>3, <1>4, <1>5, <1>6 DEF Quiet

\* The steps that end a request, one way or the other.
LEMMA EndShaped ==
  ASSUME NEW w \in Workers, IInv, Commit(w) \/ Rollback(w) \/ Crash(w)
  PROVE  ShapeInv'
  <1>1. Set(w, Idle)
    BY DEF Commit, Rollback, Crash
  <1>2. request' \in [Workers -> Requests] /\ \A v \in Workers : Shaped(request'[v])
    BY <1>1, IdleShaped, SetShaped DEF IInv, ShapeInv
  <1>3. CASE Commit(w)
    BY <1>2, <1>3, CommitKeyed DEF Commit, IInv, ShapeInv
  <1>4. CASE Rollback(w)
    BY <1>2, <1>4 DEF Rollback, IInv, ShapeInv
  <1>5. CASE Crash(w)
    BY <1>2, <1>5 DEF Crash, IInv, ShapeInv
  <1> QED BY <1>3, <1>4, <1>5

LEMMA InitIInv == Init => IInv
  <1> SUFFICES ASSUME Init PROVE IInv
    OBVIOUS
  <1>1. keys \in [KeyIds -> KeyRows]
    BY ScopeAssumption DEF Init, KeyRows
  <1>2. \A w \in Workers : request[w] = Idle
    BY DEF Init
  <1>3. ShapeInv
    BY <1>1, <1>2, IdleShaped DEF Init, ShapeInv, Shaped
  <1>4. Idle.key = None /\ Idle.event = NoEvent
    BY DEF Idle
  <1>5. NoEvent \notin IssueEvents /\ NoEvent \notin RevokeEvents
    BY EventsDistinct DEF Events
  <1>6. Held /\ OneIssuer /\ \A w \in Workers : Ready(w)
    BY <1>2, <1>4, <1>5 DEF Held, OneIssuer, Ready
  <1>7. NoEscalation
    <2> SUFFICES ASSUME NEW k \in KeyIds, keys[k] # NoKey
                 PROVE  \E b \in Bootstrap :
                            /\ BootKey[b].tenant = keys[k].tenant
                            /\ PERMISSIONS[keys[k].role] \subseteq PERMISSIONS[BootKey[b].role]
      BY DEF NoEscalation
    <2>1. k \in Bootstrap /\ keys[k].tenant = BootKey[k].tenant /\ keys[k].role = BootKey[k].role
      BY DEF Init
    <2> QED BY <2>1
  <1> QED BY <1>3, <1>6, <1>7 DEF IInv, KeyInv

LEMMA NextIInv == IInv /\ [Next]_vars => IInv'
  <1> SUFFICES ASSUME IInv, [Next]_vars PROVE IInv'
    OBVIOUS
  <1>0. ShapeInv /\ KeyInv /\ Held
    BY DEF IInv, KeyInv
  <1>1. CASE UNCHANGED vars
    <2>1. keys' = keys /\ request' = request /\ verified' = verified
      BY <1>1 DEF vars
    <2>2. ShapeInv'
      BY <1>0, <2>1 DEF ShapeInv
    <2>3. KeyInv'
      BY <1>0, <2>1 DEF KeyInv, Held, OneIssuer, Ready, NoEscalation
    <2> QED BY <2>2, <2>3 DEF IInv
  <1>2. ASSUME NEW w \in Workers, NEW k \in KeyIds, NEW g \in BOOLEAN, Resolve(w, k, g)
        PROVE  IInv'
    BY <1>0, <1>2, ResolveShaped, ResolveKeyed DEF IInv
  <1>3. ASSUME NEW w \in Workers,
               \/ \E k \in KeyIds : revoke(w, k) \/ \E role \in Asked : create(w, k, role)
               \/ \E d \in Decisions, status \in Statuses : review_decision(w, d, status)
        PROVE  IInv'
    BY <1>0, <1>3, ViewsShaped, ViewsKeyed DEF IInv
  <1>4. ASSUME NEW w \in Workers, Commit(w) PROVE IInv'
    BY <1>4, EndShaped, CommitKeyed DEF IInv
  <1>5. ASSUME NEW w \in Workers, Quiet(w) PROVE IInv'
    <2>1. KeyInv'
      BY <1>0, <1>5, QuietSteps, QuietKeyed
    <2>2. CASE Verify(w)
      BY <1>0, <2>1, <2>2, VerifyShaped DEF IInv
    <2>3. CASE Forget(w)
      <3>1. ShapeInv'
        BY <1>0, <2>3 DEF Forget, ShapeInv
      <3> QED BY <2>1, <3>1 DEF IInv
    <2>4. CASE ApiRequest(w) \/ \E t \in Tenants : DashboardPage(w, t)
      BY <1>0, <2>1, <2>4, ScopeOpenedShaped DEF IInv
    <2>5. CASE Save(w)
      BY <1>0, <2>1, <2>5, SaveShaped DEF IInv
    <2>6. CASE AuditAppend(w)
      BY <1>0, <2>1, <2>6, AuditAppendShaped DEF IInv
    <2>7. CASE DatabaseError(w)
      BY <1>0, <2>1, <2>7, DatabaseErrorShaped DEF IInv
    <2>8. CASE CloseInner(w)
      BY <1>0, <2>1, <2>8, CloseInnerShaped DEF IInv
    <2>9. CASE Rollback(w) \/ Crash(w)
      BY <2>1, <2>9, EndShaped DEF IInv
    <2> QED BY <1>5, <2>2, <2>3, <2>4, <2>5, <2>6, <2>7, <2>8, <2>9 DEF Quiet
  <1> QED BY <1>1, <1>2, <1>3, <1>4, <1>5 DEF Next, Quiet

\* In every reachable state each request has a shape the code gives it, and
\* every key in use or about to be issued is accounted for.
THEOREM Invariance == Spec => []IInv
  BY InitIInv, NextIInv, PTL DEF Spec

\* tenant_scope: whatever was opened, closed, rolled back or aborted before, a
\* statement runs with the tenant of the innermost scope it is in.
THEOREM ScopesHold == Spec => []QueryScoped
  <1>1. IInv => QueryScoped
    <2> SUFFICES ASSUME IInv, NEW w \in Workers, request[w].scopes # <<>>, ~request[w].aborted
                 PROVE  request[w].setting = Last(request[w].scopes).tenant
      BY DEF QueryScoped
    <2>1. /\ request[w].scopes \in Seq(Scopes) /\ request[w].aborted = FALSE
          /\ WellNested(request[w])
      BY DEF IInv, ShapeInv, Shaped, Requests
    <2>2. Len(request[w].scopes) # 0
      BY <2>1
    <2> QED BY <2>1, <2>2 DEF WellNested, Last
  <1> QED BY <1>1, Invariance, PTL

\* authenticate: whatever any worker remembers, a request that is served
\* presented the whole secret of a key that was live when it arrived.
THEOREM ServedIsGenuine == Spec => []AcceptedIsLive
  <1>1. IInv => AcceptedIsLive
    BY DEF IInv, ShapeInv, Shaped, WellKeyed, AcceptedIsLive
  <1> QED BY <1>1, Invariance, PTL

\* ApiKeyViewSet.create: no chain of issued keys, interleaved with
\* revocations, rollbacks and crashes in any way, gains a permission.
THEOREM PermissionsOnlyShrink == Spec => []NoEscalation
  <1>1. IInv => NoEscalation
    BY DEF IInv, KeyInv
  <1> QED BY <1>1, Invariance, PTL

-----------------------------------------------------------------------------
(* The audit trail.                                                        *)

AuditInv ==
    /\ trail \in Seq(Events)
    /\ review \in [Decisions -> Statuses \cup {None}]
    /\ ChangesAudited

\* A new record is the last one of its subject and of no other.
LEMMA LastOfAppend ==
  ASSUME trail \in Seq(Events), NEW e \in Events, trail' = Append(trail, e)
  PROVE  /\ trail' \in Seq(Events)
         /\ LastOf(e.subject)' = {Len(trail) + 1} /\ trail'[Len(trail) + 1] = e
         /\ \A s : s # e.subject => LastOf(s)' = LastOf(s) /\ \A i \in LastOf(s) : trail'[i] = trail[i]
  <1>1. /\ trail' \in Seq(Events) /\ DOMAIN trail = 1..Len(trail)
        /\ DOMAIN trail' = 1..(Len(trail) + 1) /\ Len(trail) \in Nat
        /\ trail'[Len(trail) + 1] = e /\ \A i \in 1..Len(trail) : trail'[i] = trail[i]
    OBVIOUS
  <1>2. LastOf(e.subject)' = {Len(trail) + 1}
    BY <1>1 DEF LastOf
  <1>3. ASSUME NEW s, s # e.subject PROVE LastOf(s)' = LastOf(s)
    BY <1>1, <1>3 DEF LastOf
  <1> QED BY <1>1, <1>2, <1>3 DEF LastOf

LEMMA InitAudit == Init => AuditInv
  BY DEF Init, AuditInv, ChangesAudited, LastOf

LEMMA CommitAudited ==
  ASSUME NEW w \in Workers, IInv, AuditInv, Commit(w)
  PROVE  AuditInv'
  <1> DEFINE r == request[w]
             t == keys[r.key].tenant
  <1>e. PICK e : e = r.event
    OBVIOUS
  <1>0. /\ r.written \in BOOLEAN /\ r.recorded \in BOOLEAN /\ keys \in [KeyIds -> KeyRows]
        /\ r.recorded = TRUE => r.written = TRUE
    BY DEF IInv, ShapeInv, Shaped, Requests, WellPaired
  <1>1. CASE r.written = FALSE
    <2>1. keys' = keys /\ review' = review /\ trail' = trail /\ unaudited' = unaudited
      BY <1>0, <1>1 DEF Commit
    <2> QED BY <2>1 DEF AuditInv, ChangesAudited, LastOf
  <1>2. CASE r.written = TRUE
    <2>1. e \in Events /\ r.key \in KeyIds /\ t \in Tenants
      BY <1>e, <1>2, WrittenHasKey
    <2>2. keys' = KeysAfter(e, t)
      BY <1>e, <1>2 DEF Commit
    \* The row of the event, and no other.
    <2>3. /\ \A k \in KeyIds : k # e.subject => keys'[k] = keys[k]
          /\ e \in IssueEvents => keys'[e.subject].state = "live" /\ keys'[e.subject].role = e.value
          /\ e \in RevokeEvents => keys'[e.subject].state = "revoked"
      <3>1. CASE e \in IssueEvents
        <4>1. e.subject \in KeyIds /\ e \notin RevokeEvents
          BY <3>1 DEF IssueEvents, RevokeEvents
        <4>2. keys' = [keys EXCEPT ![e.subject] = [tenant |-> t, role |-> e.value, state |-> "live"]]
          BY <1>0, <2>1, <2>2, <3>1, KeysAfterIssue
        <4> QED BY <1>0, <4>1, <4>2
      <3>2. CASE e \in RevokeEvents
        <4>1. e.subject \in KeyIds /\ e \notin IssueEvents /\ keys[e.subject] # NoKey
          BY <1>e, <3>2 DEF RevokeEvents, IssueEvents, IInv, KeyInv, Ready
        <4>2. keys' = [keys EXCEPT ![e.subject].state = "revoked"] /\ keys'[e.subject].state = "revoked"
          BY <1>0, <2>2, <3>2, <4>1, KeysAfterRevoke
        <4> QED BY <1>0, <4>1, <4>2
      <3>3. CASE e \in ReviewEvents
        <4>1. keys' = keys /\ e \notin IssueEvents /\ e \notin RevokeEvents
          BY <2>2, <3>3, KeysAfterReview DEF ReviewEvents, IssueEvents, RevokeEvents
        <4> QED BY <4>1
      <3> QED BY <2>1, <3>1, <3>2, <3>3 DEF Events
    <2>4. /\ review' \in [Decisions -> Statuses \cup {None}]
          /\ \A d \in Decisions : d # e.subject => review'[d] = review[d]
          /\ e \in ReviewEvents => review'[e.subject] = e.value
      BY <1>e, <1>2, <2>1 DEF Commit, AuditInv, Events, IssueEvents, RevokeEvents, ReviewEvents
    <2>5. /\ e.subject \in KeyIds => e.subject \notin Decisions
          /\ e.subject \in KeyIds => e \in IssueEvents \cup RevokeEvents
          /\ e.subject \in Decisions => e \in ReviewEvents
      BY <2>1, ScopeAssumption DEF Events, IssueEvents, RevokeEvents, ReviewEvents
    <2>6. CASE r.recorded = TRUE
      <3>1. trail' = Append(trail, e) /\ unaudited' = unaudited \ {e.subject}
        BY <1>e, <1>2, <2>6 DEF Commit
      <3>2. /\ trail' \in Seq(Events)
            /\ LastOf(e.subject)' = {Len(trail) + 1} /\ trail'[Len(trail) + 1] = e
            /\ \A s : s # e.subject => LastOf(s)' = LastOf(s) /\ \A i \in LastOf(s) : trail'[i] = trail[i]
        BY <2>1, <3>1, LastOfAppend DEF AuditInv
      <3>3. ASSUME NEW k \in KeyIds \ unaudited'
            PROVE  /\ LastOf(k)' = {} => IF k \in Bootstrap THEN keys'[k].state = "live" ELSE keys'[k] = NoKey
                   /\ \A i \in LastOf(k)' :
                        \/ trail'[i].op = "revoke" /\ keys'[k].state = "revoked"
                        \/ trail'[i].op = "issue" /\ keys'[k].state = "live" /\ keys'[k].role = trail'[i].value
        <4>1. CASE k = e.subject
          BY <2>3, <2>5, <3>2, <4>1 DEF IssueEvents, RevokeEvents
        <4>2. CASE k # e.subject
          <5>1. /\ k \in KeyIds \ unaudited /\ keys'[k] = keys[k] /\ LastOf(k)' = LastOf(k)
                /\ \A i \in LastOf(k) : trail'[i] = trail[i]
            BY <2>3, <3>1, <3>2, <4>2
          <5> QED BY <5>1 DEF AuditInv, ChangesAudited
        <4> QED BY <4>1, <4>2
      <3>4. ASSUME NEW d \in Decisions \ unaudited'
            PROVE  /\ LastOf(d)' = {} => review'[d] = None
                   /\ \A i \in LastOf(d)' : review'[d] = trail'[i].value
        <4>1. CASE d = e.subject
          BY <2>4, <2>5, <3>2, <4>1
        <4>2. CASE d # e.subject
          <5>1. /\ d \in Decisions \ unaudited /\ review'[d] = review[d] /\ LastOf(d)' = LastOf(d)
                /\ \A i \in LastOf(d) : trail'[i] = trail[i]
            BY <2>4, <3>1, <3>2, <4>2
          <5> QED BY <5>1 DEF AuditInv, ChangesAudited
        <4> QED BY <4>1, <4>2
      <3> QED BY <2>4, <3>2, <3>3, <3>4 DEF AuditInv, ChangesAudited
    <2>7. CASE r.recorded = FALSE
      <3>1. trail' = trail /\ unaudited' = unaudited \cup {e.subject}
        BY <1>e, <1>2, <2>7 DEF Commit
      <3>2. \A s : LastOf(s)' = LastOf(s)
        BY <3>1 DEF LastOf
      <3>3. /\ \A k \in KeyIds \ unaudited' : k \notin unaudited /\ keys'[k] = keys[k]
            /\ \A d \in Decisions \ unaudited' : d \notin unaudited /\ review'[d] = review[d]
        BY <2>3, <2>4, <3>1
      <3> QED BY <2>4, <3>1, <3>2, <3>3 DEF AuditInv, ChangesAudited
    <2> QED BY <1>0, <2>6, <2>7
  <1> QED BY <1>0, <1>1, <1>2

\* Nothing but a COMMIT touches the tables or the trail.
LEMMA OthersAudited ==
  ASSUME AuditInv, keys' = keys, review' = review, trail' = trail, unaudited' = unaudited
  PROVE  AuditInv'
  BY DEF AuditInv, ChangesAudited, LastOf

LEMMA NextAudit == IInv /\ AuditInv /\ [Next]_vars => AuditInv'
  <1> SUFFICES ASSUME IInv, AuditInv, [Next]_vars PROVE AuditInv'
    OBVIOUS
  <1>1. CASE UNCHANGED vars
    BY <1>1, OthersAudited DEF vars
  <1>2. ASSUME NEW w \in Workers, Commit(w) PROVE AuditInv'
    BY <1>2, CommitAudited
  <1>3. ASSUME NEW w \in Workers, AuditAppend(w) PROVE AuditInv'
    <2>1. trail' = trail
      BY <1>3 DEF AuditAppend, durable_on_append, AuditInv
    <2> QED BY <1>3, <2>1, OthersAudited DEF AuditAppend
  <1>4. ASSUME NEW w \in Workers, NEW e, Begin(w, e) PROVE AuditInv'
    BY <1>4, OthersAudited DEF Begin
  <1>5. ASSUME NEW w \in Workers, Quiet(w), ~AuditAppend(w) PROVE AuditInv'
    <2>1. keys' = keys /\ review' = review /\ trail' = trail /\ unaudited' = unaudited
      BY <1>5 DEF Quiet, Verify, Forget, ApiRequest, DashboardPage, Save, DatabaseError,
                  CloseInner, Rollback, Crash
    <2> QED BY <2>1, OthersAudited
  <1>6. ASSUME NEW w \in Workers, NEW k \in KeyIds, NEW g \in BOOLEAN, Resolve(w, k, g)
        PROVE  AuditInv'
    BY <1>6, OthersAudited DEF Resolve
  <1> QED BY <1>1, <1>2, <1>3, <1>4, <1>5, <1>6 DEF Next, Quiet, revoke, create, review_decision

\* audit.append inside the view's transaction: the last record of a key or a
\* decision says what its row says, except where append failed and the change
\* was committed without it, whatever rolled back or crashed in between.
THEOREM TrailMatchesTables == Spec => []ChangesAudited
  <1>1. IInv /\ AuditInv => ChangesAudited
    BY DEF AuditInv
  <1>2. Spec => [](IInv /\ AuditInv)
    BY InitIInv, NextIInv, InitAudit, NextAudit, PTL DEF Spec
  <1> QED BY <1>1, <1>2, PTL
=============================================================================
