---------------------------- MODULE RequestScope ----------------------------
(***************************************************************************)
(* What a management request does around its view: the API key is resolved *)
(* and verified (api/auth.py), tenant_scope opens a transaction and sets   *)
(* the tenant that the row level security policies compare (tenancy/       *)
(* scope.py, migrations 0005, 0008 and 0009), the view reads, writes and   *)
(* appends to the audit trail, and the scope closes.  The views are those  *)
(* that issue and revoke keys and review decisions, and the dashboard's    *)
(* pages, whose own scope nests in the middleware's when a browser also    *)
(* sends a key.                                                            *)
(*                                                                         *)
(* A worker serves one request at a time and remembers verified keys.      *)
(* PostgreSQL (external): what set_config sets locally is unset outside    *)
(* the transaction, a rollback to a savepoint restores it, a released      *)
(* savepoint keeps it.                                                     *)
(*                                                                         *)
(* Django turns an exception of a view into a response before it reaches   *)
(* the middleware: the middleware's scope closes as if nothing happened    *)
(* and commits, while a scope the view itself opened rolls back.           *)
(***************************************************************************)
EXTENDS Naturals, Sequences, FiniteSets

CONSTANTS
    Tenants,
    KeyIds,
    Bootstrap,    \* the keys a deployment starts with
    BootKey,      \* their tenant and role
    Asked,        \* the roles that keys are asked for
    Decisions,
    DecisionOf,   \* the tenant of each decision
    Statuses,     \* what a reviewer may answer
    Workers,
    MaxTrail,     \* bound: changes begun, recorded or not
    None

(* tenancy/roles.py *)

Everyone == {"backtest"}
Drafting == Everyone \cup {"create_draft", "edit_draft", "shadow", "request_approval"}
Controlling == Drafting \cup {"approve", "activate", "archive", "revert",
                              "review_decision", "manage_keys"}

PERMISSIONS ==
    [ compliance_analyst |-> Drafting,
      compliance_officer |-> Controlling,
      risk_manager       |-> Controlling \cup {"emergency_override"},
      engineer           |-> Everyone \cup {"manage_keys"},
      auditor            |-> Everyone ]

Roles == DOMAIN PERMISSIONS

may(role, action) == action \in PERMISSIONS[role]

\* Mutant: whoever manages keys may issue any of them.
may_issue_unchecked(role, target) == may(role, "manage_keys")

may_issue(role, target) == PERMISSIONS[target] \subseteq PERMISSIONS[role]

ASSUME ScopeAssumption ==
    /\ Bootstrap \subseteq KeyIds
    /\ BootKey \in [Bootstrap -> [tenant : Tenants, role : Roles]]
    /\ Asked \subseteq Roles
    /\ DecisionOf \in [Decisions -> Tenants]
    /\ None \notin Tenants \cup KeyIds \cup Decisions \cup Statuses
    /\ KeyIds \cap Decisions = {}
    /\ MaxTrail \in Nat

-----------------------------------------------------------------------------
NoKey == [tenant |-> None, role |-> None, state |-> "absent"]

\* An event is what an operation does to a key or to a decision.
NoEvent == [op |-> None, subject |-> None, value |-> None]

\* `scopes` are the tenant_scopes a request is in, each with who opened it, its
\* tenant and the setting it found.  `event` is what the view is doing; it has
\* `written` the row and `recorded` the change, neither of them committed.
\* `arrived` is a history field: the state of the key when the request came.
Idle == [at |-> "idle", key |-> None, genuine |-> FALSE, arrived |-> None,
         scopes |-> <<>>, setting |-> None, aborted |-> FALSE,
         event |-> NoEvent, written |-> FALSE, recorded |-> FALSE]

VARIABLES
    keys,       \* the ApiKey table
    review,     \* review_status of each decision
    trail,      \* the audit records of all tenants, in the order of their commits
    request,    \* what each worker is serving
    verified,   \* each worker's _verified: digests of presented keys
    unaudited   \* history: subjects whose last change committed without a record

vars == <<keys, review, trail, request, verified, unaudited>>

Init ==
    /\ keys = [k \in KeyIds |-> IF k \in Bootstrap
                                THEN [tenant |-> BootKey[k].tenant, role |-> BootKey[k].role,
                                      state |-> "live"]
                                ELSE NoKey]
    /\ review = [d \in Decisions |-> None]
    /\ trail = <<>>
    /\ request = [w \in Workers |-> Idle]
    /\ verified = [w \in Workers |-> {}]
    /\ unaudited = {}

Last(s) == s[Len(s)]
Front(s) == SubSeq(s, 1, Len(s) - 1)

Set(w, r) == request' = [request EXCEPT ![w] = r]

-----------------------------------------------------------------------------
(* api/auth.py: authenticate.                                              *)

\* Mutant: a remembered key is admitted without reading its row.
Admitted_from_memory(w, k) == <<k, TRUE>> \in verified[w] \/ keys[k].state = "live"

\* The row is read on every request and a revoked one refused.
Admitted(w, k) == keys[k].state = "live"

\* complylayer_resolve_api_key: the one read that no tenant scopes.
Resolve(w, k, genuine) ==
    /\ request[w] = Idle
    /\ Admitted(w, k)
    /\ Set(w, [Idle EXCEPT !.at = "resolved", !.key = k, !.genuine = genuine,
                         !.arrived = keys[k].state])
    /\ UNCHANGED <<keys, review, trail, verified, unaudited>>

\* A digest of the whole presented key is remembered; otherwise Argon2.
Verify(w) ==
    LET r == request[w]
        digest == <<r.key, r.genuine>>
    IN /\ r.at = "resolved"
       /\ IF digest \in verified[w] \/ r.genuine
          THEN /\ Set(w, [r EXCEPT !.at = "accepted"])
               /\ verified' = [verified EXCEPT ![w] = @ \cup {digest}]
          ELSE Set(w, Idle) /\ UNCHANGED verified
       /\ UNCHANGED <<keys, review, trail, unaudited>>

\* KEY_CACHE_TTL_SECONDS have passed.
Forget(w) ==
    /\ verified[w] # {}
    /\ verified' = [verified EXCEPT ![w] = {}]
    /\ UNCHANGED <<keys, review, trail, request, unaudited>>

-----------------------------------------------------------------------------
(* tenancy/scope.py: tenant_scope.                                         *)

\* current_tenant(), then BEGIN or SAVEPOINT, then set_config(..., true).
enter(r, by, t) ==
    [r EXCEPT !.at = "open", !.setting = t,
              !.scopes = Append(@, [by |-> by, tenant |-> t, previous |-> r.setting])]

ApiRequest(w) ==
    /\ request[w].at = "accepted"
    /\ Set(w, enter(request[w], "middleware", keys[request[w].key].tenant))
    /\ UNCHANGED <<keys, review, trail, verified, unaudited>>

\* signed_in around a dashboard page, alone or inside the middleware's scope.
DashboardPage(w, t) ==
    /\ \/ request[w] = Idle
       \/ /\ request[w].at = "open" /\ Len(request[w].scopes) = 1
          /\ ~request[w].aborted /\ request[w].event = NoEvent
    /\ Set(w, enter(request[w], "view", t))
    /\ UNCHANGED <<keys, review, trail, verified, unaudited>>

\* Mutant: the setting is left to the end of the transaction.
setting_on_exit_unchanged(r) == r.setting

\* The finally of tenant_scope.
setting_on_exit(r) == Last(r.scopes).previous

-----------------------------------------------------------------------------
(* The views.  What they read passes the tenant policy and their own       *)
(* filter on the key's tenant.                                             *)

Visible(w, t) == t = request[w].setting /\ t = keys[request[w].key].tenant

RoomFor == Len(trail) + Cardinality(unaudited) < MaxTrail

Begin(w, event) ==
    /\ RoomFor
    /\ request[w].at = "open" /\ ~request[w].aborted
    /\ request[w].key # None /\ Len(request[w].scopes) = 1 /\ request[w].event = NoEvent
    /\ Set(w, [request[w] EXCEPT !.at = "loaded", !.event = event])
    /\ UNCHANGED <<keys, review, trail, verified, unaudited>>

RoleOf(w) == keys[request[w].key].role

\* ApiKeyViewSet.create: generate_key draws a prefix nobody has.
create(w, k, role) ==
    /\ request[w].key # None
    /\ may(RoleOf(w), "manage_keys") /\ may_issue(RoleOf(w), role)
    /\ keys[k] = NoKey /\ \A v \in Workers : request[v].event.subject # k
    /\ Begin(w, [op |-> "issue", subject |-> k, value |-> role])

revoke(w, k) ==
    /\ request[w].key # None
    /\ may(RoleOf(w), "manage_keys")
    /\ Visible(w, keys[k].tenant) /\ keys[k].state = "live"
    /\ Begin(w, [op |-> "revoke", subject |-> k, value |-> None])

\* DecisionViewSet.review
review_decision(w, d, status) ==
    /\ request[w].key # None
    /\ may(RoleOf(w), "review_decision")
    /\ Visible(w, DecisionOf[d])
    /\ Begin(w, [op |-> "review", subject |-> d, value |-> status])

\* The UPDATE waits for a transaction that has written the same row.
RowFree(w) ==
    \A v \in Workers \ {w} : request[v].written => request[v].event.subject # request[w].event.subject

\* save(), and for a revocation revoke_from_cache in this worker.
Save(w) ==
    /\ request[w].at = "loaded" /\ ~request[w].aborted /\ RowFree(w)
    /\ Set(w, [request[w] EXCEPT !.at = "saved", !.written = TRUE])
    /\ verified' = IF request[w].event.op = "revoke"
                   THEN [verified EXCEPT ![w] = {v \in @ : v[1] # request[w].event.subject}]
                   ELSE verified
    /\ UNCHANGED <<keys, review, trail, unaudited>>

\* Mutant: the record goes through a connection of its own.
durable_on_append_at_once(event) == <<event>>

\* What audit.append makes durable by itself: nothing.
durable_on_append(event) == <<>>

\* audit.append has a savepoint of its own: when it fails, the row it was to
\* explain is still written.
AuditAppend(w) ==
    /\ request[w].at = "saved" /\ ~request[w].aborted
    /\ \E ok \in BOOLEAN : Set(w, [request[w] EXCEPT !.at = "open", !.recorded = ok])
    /\ trail' = trail \o durable_on_append(request[w].event)
    /\ UNCHANGED <<keys, review, verified, unaudited>>

\* Any other statement may fail and abort the transaction.
DatabaseError(w) ==
    /\ request[w].scopes # <<>> /\ ~request[w].aborted
    /\ Set(w, [request[w] EXCEPT !.at = "open", !.aborted = TRUE])
    /\ UNCHANGED <<keys, review, trail, verified, unaudited>>

-----------------------------------------------------------------------------
(* Leaving a scope.                                                        *)

\* An inner scope: released, or rolled back to its savepoint.
CloseInner(w) ==
    LET r == request[w]
    IN /\ r.at = "open" /\ Len(r.scopes) = 2
       /\ \/ ~r.aborted /\ Set(w, [r EXCEPT !.scopes = Front(@), !.setting = setting_on_exit(r)])
          \/ Set(w, [r EXCEPT !.scopes = Front(@), !.aborted = FALSE,
                              !.setting = Last(r.scopes).previous])
       /\ UNCHANGED <<keys, review, trail, verified, unaudited>>

KeysAfter(e, t) ==
    CASE e.op = "issue"  -> [keys EXCEPT ![e.subject] =
                               [tenant |-> t, role |-> e.value, state |-> "live"]]
      [] e.op = "revoke" -> [keys EXCEPT ![e.subject].state = "revoked"]
      [] OTHER           -> keys

\* COMMIT of the outermost scope.
Commit(w) ==
    LET r == request[w]
        e == r.event
    IN /\ r.at = "open" /\ Len(r.scopes) = 1 /\ ~r.aborted
       /\ keys' = IF r.written THEN KeysAfter(e, keys[r.key].tenant) ELSE keys
       /\ review' = IF r.written /\ e.op = "review" THEN [review EXCEPT ![e.subject] = e.value]
                    ELSE review
       /\ trail' = IF r.recorded THEN Append(trail, e) ELSE trail
       /\ unaudited' = IF ~r.written THEN unaudited
                       ELSE IF r.recorded THEN unaudited \ {e.subject}
                       ELSE unaudited \cup {e.subject}
       /\ Set(w, Idle)
       /\ UNCHANGED verified

\* ROLLBACK: _set in an aborted transaction raises, an exception leaves a
\* scope that the view opened, or the worker's connection goes.
Rollback(w) ==
    /\ request[w].at # "idle"
    /\ \/ request[w].aborted /\ Len(request[w].scopes) = 1
       \/ request[w].scopes # <<>> /\ Len(request[w].scopes) = 1
            /\ Last(request[w].scopes).by = "view"
    /\ Set(w, Idle)
    /\ UNCHANGED <<keys, review, trail, verified, unaudited>>

\* The worker dies, and what it remembered with it.
Crash(w) ==
    /\ request[w].at # "idle"
    /\ Set(w, Idle)
    /\ verified' = [verified EXCEPT ![w] = {}]
    /\ UNCHANGED <<keys, review, trail, unaudited>>

Next ==
    \E w \in Workers :
        \/ \E k \in KeyIds, genuine \in BOOLEAN : Resolve(w, k, genuine)
        \/ Verify(w) \/ Forget(w) \/ ApiRequest(w)
        \/ \E t \in Tenants : DashboardPage(w, t)
        \/ \E k \in KeyIds : revoke(w, k) \/ \E role \in Asked : create(w, k, role)
        \/ \E d \in Decisions, status \in Statuses : review_decision(w, d, status)
        \/ Save(w) \/ AuditAppend(w) \/ DatabaseError(w)
        \/ CloseInner(w) \/ Commit(w) \/ Rollback(w) \/ Crash(w)

Spec == Init /\ [][Next]_vars

-----------------------------------------------------------------------------
(* What holds around every view.                                           *)

\* Whatever was opened, closed, rolled back or aborted before: a statement of
\* a request runs with the tenant of the innermost scope it is in.
QueryScoped ==
    \A w \in Workers : request[w].scopes # <<>> /\ ~request[w].aborted =>
        request[w].setting = Last(request[w].scopes).tenant

\* A request that is served presented the whole secret of a key that was not
\* revoked when it arrived, whatever any worker remembers.
AcceptedIsLive ==
    \A w \in Workers : request[w].key # None /\ request[w].at # "resolved" =>
        request[w].genuine /\ request[w].arrived = "live"

\* No chain of issued keys gains a permission: what a key may do, a key the
\* deployment started with in that tenant may do.
NoEscalation ==
    \A k \in KeyIds : keys[k] # NoKey =>
        \E b \in Bootstrap : /\ BootKey[b].tenant = keys[k].tenant
                             /\ PERMISSIONS[keys[k].role] \subseteq PERMISSIONS[BootKey[b].role]

\* Where the last record of a subject is, if it has any.
LastOf(s) ==
    {i \in DOMAIN trail : trail[i].subject = s /\ \A j \in DOMAIN trail : trail[j].subject = s => j <= i}

\* The trail and the tables tell the same story: the last record of a key or
\* a decision says what its row says, except where append failed and the
\* change was committed without it.
ChangesAudited ==
    /\ \A k \in KeyIds \ unaudited :
        /\ LastOf(k) = {} => IF k \in Bootstrap THEN keys[k].state = "live" ELSE keys[k] = NoKey
        /\ \A i \in LastOf(k) :
             \/ trail[i].op = "revoke" /\ keys[k].state = "revoked"
             \/ trail[i].op = "issue" /\ keys[k].state = "live" /\ keys[k].role = trail[i].value
    /\ \A d \in Decisions \ unaudited :
        /\ LastOf(d) = {} => review[d] = None
        /\ \A i \in LastOf(d) : review[d] = trail[i].value
=============================================================================
