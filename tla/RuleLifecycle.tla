--------------------------- MODULE RuleLifecycle ---------------------------
(***************************************************************************)
(* The rule lifecycle of complylayer/rules/lifecycle.py as the management  *)
(* API drives it: drafts, edits, approvals, shadowing, activation,         *)
(* archiving, reverts and named lists, for one tenant.                     *)
(*                                                                         *)
(* A request is one database transaction at READ COMMITTED (ApiKey-        *)
(* Middleware opens it, tenancy/scope.py).  It first SELECTs the row into  *)
(* memory (get_object) and runs every guard on that copy; later it writes  *)
(* and commits.  Nothing locks the row or compares its version in between, *)
(* so the copy may be stale when it is used: loading and committing are    *)
(* separate steps here.  The four operations that publish a RuleSetVersion *)
(* have a third step, between reading the latest version number together   *)
(* with the snapshot and inserting the new row, because the unique         *)
(* constraint on (tenant, version) is what arbitrates between publishers.  *)
(*                                                                         *)
(* audit.append runs in a savepoint of its own and may fail there.  A      *)
(* view's exception is answered with a 500 before the middleware's scope   *)
(* sees it, so the scope commits what the handler had written: the change  *)
(* without its record.  Only activate and archive put both in one atomic   *)
(* block.  How the records are chained is the business of AuditChain.      *)
(***************************************************************************)
EXTENDS Naturals, Sequences, FiniteSets

CONSTANTS
    RuleIds,       \* primary keys of the Rule table
    Users,         \* actor ids
    RoleOf,        \* the role of each actor
    Expressions,   \* what a rule may say; every member passes validate_source
    ListNames,     \* names of NamedList rows
    ListValues,    \* what a list may hold
    Slots,         \* requests that may be in flight at once
    None,          \* Python's "" and None
    MaxChanges,    \* bound: changes committed in a behaviour
    MaxUnrecorded  \* bound: those among them whose audit record failed

ASSUME NoneIsNoValue ==
    /\ None \notin RuleIds \cup Users \cup Expressions \cup ListNames \cup ListValues
    /\ {MaxChanges, MaxUnrecorded} \subseteq Nat

(***************************************************************************)
(* tenancy/roles.py.  Backtest, review_decision and manage_keys are not    *)
(* lifecycle actions and are left out of the table.                        *)
(***************************************************************************)
DraftActions == {"create_draft", "edit_draft", "shadow", "request_approval"}

ControlActions == {"approve", "activate", "archive", "revert"}

PERMISSIONS ==
    [ compliance_analyst |-> DraftActions,
      compliance_officer |-> DraftActions \cup ControlActions,
      risk_manager       |-> DraftActions \cup ControlActions \cup {"emergency_override"},
      engineer           |-> {},
      auditor            |-> {} ]

may(actor, action) == action \in PERMISSIONS[RoleOf[actor]]

ASSUME RolesAreRoles == RoleOf \in [Users -> DOMAIN PERMISSIONS]

-----------------------------------------------------------------------------
States == {"absent", "draft", "shadow", "active", "archived"}

Rows == [ state       : States,
          expression  : Expressions \cup {None},
          version     : Nat,
          created_by  : Users \cup {None},
          approved_by : Users \cup {None} ]

NoRow == [state |-> "absent", expression |-> None, version |-> 0,
          created_by |-> None, approved_by |-> None]

\* One entry of RuleSetVersion.rules_snapshot.
Entries == [id : RuleIds, state : {"shadow", "active"}, expression : Expressions \cup {None}]

ListTables == [ListNames -> ListValues \cup {None}]

RuleSets == [version : Nat, rules : SUBSET Entries, lists : ListTables,
             published_by : Users]

Ops == {"idle", "update", "request_approval", "approve", "shadow", "activate",
        "archive", "revert", "create_list", "update_list", "delete_list"}

PublishingOps == {"activate", "archive", "revert", "create_list", "update_list"}

\* What a request handler holds in memory: the actor, the subject, the row as
\* it was when it was selected, and the body of the request.
Requests == [ op         : Ops,
              actor      : Users \cup {None},
              subject    : RuleIds \cup ListNames \cup {None},
              row        : Rows,
              expression : Expressions \cup {None},
              value      : ListValues \cup {None},
              emergency  : BOOLEAN,
              to_version : Nat ]

Idle == [op |-> "idle", actor |-> None, subject |-> None, row |-> NoRow,
         expression |-> None, value |-> None, emergency |-> FALSE, to_version |-> 0]

\* What publish_version has computed before its INSERT; next = 0 when a request
\* has not got that far.
Stagings == [next : Nat, rules : SUBSET Entries, lists : ListTables]

Events == {"rule.created", "rule.edited", "rule.approval_requested", "rule.approved",
           "rule.shadowed", "rule.activated", "rule.emergency_activated", "rule.archived",
           "list.created", "list.updated", "ruleset.reverted"}

\* A committed change and the audit record written with it.  `row` is the
\* in-memory rule the record's payload is taken from.  Two fields are history:
\* `recorded`, the record was written (what auditors read are those changes
\* only); `fresh`, the copy the handler had read was still the row in the table
\* when the handler committed.
Records == [ event : Events, actor : Users, subject : RuleIds \cup ListNames \cup {None},
             row : Rows, ruleset_version : Nat, fresh : BOOLEAN, recorded : BOOLEAN ]

VARIABLES
    rules,      \* the Rule table
    lists,      \* the NamedList table
    rulesets,   \* the RuleSetVersion table, in insertion order
    changes,    \* the tenant's changes in commit order, with their audit records
    requests,   \* the request each slot is serving
    staged      \* what each slot is about to publish

vars == <<rules, lists, rulesets, changes, requests, staged>>

NotStaged == [next |-> 0, rules |-> {}, lists |-> [n \in ListNames |-> None]]

TypeOK ==
    /\ rules \in [RuleIds -> Rows]
    /\ lists \in ListTables
    /\ rulesets \in Seq(RuleSets)
    /\ changes \in Seq(Records)
    /\ requests \in [Slots -> Requests]
    /\ staged \in [Slots -> Stagings]

Init ==
    /\ rules = [r \in RuleIds |-> NoRow]
    /\ lists = [n \in ListNames |-> None]
    /\ rulesets = <<>>
    /\ changes = <<>>
    /\ requests = [q \in Slots |-> Idle]
    /\ staged = [q \in Slots |-> NotStaged]

-----------------------------------------------------------------------------
\* The bound on a behaviour: a request starts only while there is room for its
\* change beside those of the requests in flight.
RoomForOneMore ==
    Len(changes) + Cardinality({q \in Slots : requests[q] # Idle}) < MaxChanges

\* Mutant: activate and archive have no atomic block of their own.
AllOrNothing_without_blocks == {"rule.approval_requested"}

\* What a failing append undoes with it: the atomic blocks of activate and
\* archive; request_approval writes nothing else.
AllOrNothing ==
    {"rule.approval_requested", "rule.activated", "rule.emergency_activated", "rule.archived"}

\* Mutant: the version's record is written by a task after the commit.
audit_append_apart(event, actor, subject, row, v, fresh) ==
    changes' = Append(changes, [event |-> event, actor |-> actor, subject |-> subject, row |-> row,
                                ruleset_version |-> v, fresh |-> fresh, recorded |-> v = 0])

\* The record, or an exception and what the handler wrote without it.
audit_append(event, actor, subject, row, v, fresh) ==
    \E recorded \in BOOLEAN :
        /\ recorded \/ ( /\ event \notin AllOrNothing
                         /\ Cardinality({i \in DOMAIN changes : ~ changes[i].recorded}) < MaxUnrecorded )
        /\ changes' = Append(changes,
              [event |-> event, actor |-> actor, subject |-> subject, row |-> row,
               ruleset_version |-> v, fresh |-> fresh, recorded |-> recorded])

\* The SELECT of get_object and the guards the handler runs on what it read.
\* A request whose guard fails answers 403, 404 or 409 and writes nothing.
Begin(q, req) ==
    /\ RoomForOneMore
    /\ requests[q] = Idle
    /\ requests' = [requests EXCEPT ![q] = req]
    /\ UNCHANGED <<rules, lists, rulesets, changes, staged>>

Finish(q) ==
    /\ requests' = [requests EXCEPT ![q] = Idle]
    /\ staged' = [staged EXCEPT ![q] = NotStaged]

\* create_draft reads nothing before it inserts: one step.
create_draft(a, r, e) ==
    /\ RoomForOneMore
    /\ may(a, "create_draft")
    /\ rules[r] = NoRow
    /\ LET row == [state |-> "draft", expression |-> e, version |-> 1,
                   created_by |-> a, approved_by |-> None]
       IN /\ rules' = [rules EXCEPT ![r] = row]
          /\ audit_append("rule.created", a, r, row, 0, TRUE)
    /\ UNCHANGED <<lists, rulesets, requests, staged>>

\* The two states edit_draft and request_approval accept.
Editable == {"draft", "shadow"}

Fresh(req) == req.subject \in RuleIds => rules[req.subject] = req.row

OfRule(op, a, r) == [Idle EXCEPT !.op = op, !.actor = a, !.subject = r, !.row = rules[r]]

load_edit(q, a, r, e) ==
    /\ rules[r] # NoRow
    /\ may(a, "edit_draft")
    /\ rules[r].state \in Editable
    /\ rules[r].expression # e          \* no change: returns without a record
    /\ Begin(q, [OfRule("update", a, r) EXCEPT !.expression = e])

load_request_approval(q, a, r) ==
    /\ rules[r] # NoRow
    /\ may(a, "request_approval")
    /\ rules[r].state \in Editable
    /\ Begin(q, OfRule("request_approval", a, r))

load_approve(q, a, r) ==
    /\ rules[r] # NoRow
    /\ may(a, "approve")
    /\ a # rules[r].created_by          \* require_not_author
    /\ Begin(q, OfRule("approve", a, r))

load_shadow(q, a, r) ==
    /\ rules[r] # NoRow
    /\ may(a, "shadow")
    /\ Begin(q, OfRule("shadow", a, r))

\* Mutant: anyone who gives an emergency reason may skip the approval.
may_activate_on_a_reason_alone(a, row, emergency) ==
    may(a, "activate") /\ (row.approved_by # None \/ emergency)

may_activate(a, row, emergency) ==
    /\ may(a, "activate")
    /\ \/ row.approved_by # None
       \/ emergency /\ may(a, "emergency_override")

load_activate(q, a, r, emergency) ==
    /\ rules[r] # NoRow
    /\ may_activate(a, rules[r], emergency)
    /\ Begin(q, [OfRule("activate", a, r) EXCEPT !.emergency = emergency])

\* `archive` and `destroy` (DELETE /v1/rules/{id}) are the same transition.
load_archive(q, a, r) ==
    /\ rules[r] # NoRow
    /\ may(a, "archive")
    /\ Begin(q, OfRule("archive", a, r))

\* Mutant: the table has no unique constraint on (tenant, version).
VersionTaken_unconstrained(v) == v # v

\* unique_together = [("tenant", "version")]: what the constraint refuses, and
\* what revert's lookup of its source finds.
VersionTaken(v) == \E i \in DOMAIN rulesets : rulesets[i].version = v

load_revert(q, a, v) ==
    /\ may(a, "revert")
    /\ VersionTaken(v)
    /\ Begin(q, [Idle EXCEPT !.op = "revert", !.actor = a, !.to_version = v])

\* NamedListViewSet asks no permission beyond a valid key.
load_create_list(q, a, n, val) ==
    Begin(q, [Idle EXCEPT !.op = "create_list", !.actor = a, !.subject = n, !.value = val])

load_update_list(q, a, n, val) ==
    /\ lists[n] # None
    /\ Begin(q, [Idle EXCEPT !.op = "update_list", !.actor = a, !.subject = n, !.value = val])

load_delete_list(q, a, n) ==
    /\ lists[n] # None
    /\ Begin(q, [Idle EXCEPT !.op = "delete_list", !.actor = a, !.subject = n])

-----------------------------------------------------------------------------
\* The UPDATE of a row that another transaction has written and not committed
\* waits for that transaction.  Only the publishing operations hold their row
\* over a step of this module.
RowFree(q) ==
    \A p \in Slots \ {q} :
        ~ (staged[p].next # 0 /\ requests[p].subject # None
                              /\ requests[p].subject = requests[q].subject)

\* Mutant: the approval survives the edit.
edited_keeping_approval(row, e) == [row EXCEPT !.expression = e, !.version = @ + 1]

\* The copy after setattr: an approval it carried is reset.
edited(row, e) ==
    [row EXCEPT !.expression = e,
                !.approved_by = IF row.approved_by # None THEN None ELSE @,
                !.version = @ + 1]

\* rule.save() with no update_fields: every column of the copy is written back.
edit_draft(q) ==
    LET req == requests[q]
        row == edited(req.row, req.expression)
    IN /\ req.op = "update"
       /\ RowFree(q)
       /\ rules' = [rules EXCEPT ![req.subject] = row]
       /\ audit_append("rule.edited", req.actor, req.subject, row, 0, Fresh(req))
       /\ Finish(q)
       /\ UNCHANGED <<lists, rulesets>>

request_approval(q) ==
    LET req == requests[q]
    IN /\ req.op = "request_approval"
       /\ audit_append("rule.approval_requested", req.actor, req.subject, req.row, 0, Fresh(req))
       /\ Finish(q)
       /\ UNCHANGED <<rules, lists, rulesets>>

\* save(update_fields=["approved_by", "approved_at"]): the other columns keep
\* whatever another request has committed since the copy was read.
approve(q) ==
    LET req == requests[q]
    IN /\ req.op = "approve"
       /\ RowFree(q)
       /\ rules' = [rules EXCEPT ![req.subject].approved_by = req.actor]
       /\ audit_append("rule.approved", req.actor, req.subject,
                       [req.row EXCEPT !.approved_by = req.actor], 0, Fresh(req))
       /\ Finish(q)
       /\ UNCHANGED <<lists, rulesets>>

\* save(update_fields=["state"]), and no new version.
move_to_shadow(q) ==
    LET req == requests[q]
    IN /\ req.op = "shadow"
       /\ RowFree(q)
       /\ rules' = [rules EXCEPT ![req.subject].state = "shadow"]
       /\ audit_append("rule.shadowed", req.actor, req.subject,
                       [req.row EXCEPT !.state = "shadow"], 0, Fresh(req))
       /\ Finish(q)
       /\ UNCHANGED <<lists, rulesets>>

\* ModelViewSet's own destroy: the row goes, with no version and no record.
delete_list(q) ==
    LET req == requests[q]
    IN /\ req.op = "delete_list"
       /\ RowFree(q)
       /\ lists' = [lists EXCEPT ![req.subject] = None]
       /\ Finish(q)
       /\ UNCHANGED <<rules, rulesets, changes>>

-----------------------------------------------------------------------------
\* Mutant: the number comes from a sequence that other transactions draw from
\* before they commit.
latest_drawn ==
    Cardinality({q \in Slots : staged[q].next # 0}) + Len(rulesets)

\* publish_version: the number after the latest, and every active and shadow
\* rule and every list as this transaction sees them.
latest ==
    IF rulesets = <<>> THEN 0
    ELSE LET i == CHOOSE i \in DOMAIN rulesets :
                     \A j \in DOMAIN rulesets : rulesets[j].version <= rulesets[i].version
         IN rulesets[i].version

\* Mutant: whatever is not archived is published.
snapshot_with_drafts(table) ==
    { [id |-> r, state |-> table[r].state, expression |-> table[r].expression] :
        r \in {x \in RuleIds : table[x].state \notin {"absent", "archived"}} }

snapshot(table) ==
    { [id |-> r, state |-> table[r].state, expression |-> table[r].expression] :
        r \in {x \in RuleIds : table[x].state \in {"active", "shadow"}} }

\* The write a publishing transaction has made and not committed yet.
RulesAsSeenBy(q) ==
    LET req == requests[q]
    IN CASE req.op = "activate" -> [rules EXCEPT ![req.subject].state = "active"]
         [] req.op = "archive"  -> [rules EXCEPT ![req.subject].state = "archived"]
         [] OTHER               -> rules

ListsAsSeenBy(q) ==
    LET req == requests[q]
    IN IF req.op \in {"create_list", "update_list"} THEN [lists EXCEPT ![req.subject] = req.value] ELSE lists

\* The first source row numbered to_version; revert copies its content.
revert_source(v) == rulesets[CHOOSE i \in DOMAIN rulesets : rulesets[i].version = v]

\* The unique constraint on (tenant, name), met by the INSERT of a new list.
NameTaken(req) == req.op = "create_list" /\ lists[req.subject] # None

publish_version(q) ==
    LET req == requests[q]
    IN /\ req.op \in PublishingOps
       /\ staged[q].next = 0
       /\ RowFree(q)
       /\ ~ NameTaken(req)
       /\ staged' = [staged EXCEPT ![q] =
             IF req.op = "revert"
             THEN [next  |-> latest + 1,
                   rules |-> revert_source(req.to_version).rules,
                   lists |-> revert_source(req.to_version).lists]
             ELSE [next  |-> latest + 1,
                   rules |-> snapshot(RulesAsSeenBy(q)),
                   lists |-> ListsAsSeenBy(q)]]
       /\ UNCHANGED <<rules, lists, rulesets, changes, requests>>

PublishEvent(req) ==
    CASE req.op = "activate" ->
            IF req.emergency THEN "rule.emergency_activated" ELSE "rule.activated"
      [] req.op = "archive"  -> "rule.archived"
      [] req.op = "create_list" -> "list.created"
      [] req.op = "update_list" -> "list.updated"
      [] req.op = "revert"      -> "ruleset.reverted"

\* activate and archive set the state of their copy before they save it.
PublishRow(req) ==
    CASE req.op = "activate" -> [req.row EXCEPT !.state = "active"]
      [] req.op = "archive"  -> [req.row EXCEPT !.state = "archived"]
      [] OTHER               -> NoRow

\* The INSERT succeeds: the row write and the version commit together, with the
\* audit record or, where audit_append allows it, without.
commit_publish(q) ==
    LET req == requests[q]
    IN /\ staged[q].next # 0
       /\ ~ VersionTaken(staged[q].next)
       /\ rulesets' = Append(rulesets, [version |-> staged[q].next,
                                        rules |-> staged[q].rules,
                                        lists |-> staged[q].lists,
                                        published_by |-> req.actor])
       /\ rules' = RulesAsSeenBy(q)
       /\ lists' = ListsAsSeenBy(q)
       /\ audit_append(PublishEvent(req), req.actor, req.subject, PublishRow(req),
                       staged[q].next, Fresh(req))
       /\ Finish(q)

\* The INSERT raises IntegrityError: the transaction rolls back, answer 500.
publish_conflict(q) ==
    /\ \/ staged[q].next # 0 /\ VersionTaken(staged[q].next)
       \/ requests[q].op \in PublishingOps /\ RowFree(q) /\ NameTaken(requests[q])
    /\ Finish(q)
    /\ UNCHANGED <<rules, lists, rulesets, changes>>

\* The worker or its connection dies and Postgres rolls the transaction back; or
\* append fails in one of the operations that AllOrNothing names.
crash(q) ==
    /\ requests[q] # Idle
    /\ Finish(q)
    /\ UNCHANGED <<rules, lists, rulesets, changes>>

-----------------------------------------------------------------------------
Load(q) ==
    \E a \in Users :
        \/ \E r \in RuleIds :
            \/ \E e \in Expressions : load_edit(q, a, r, e)
            \/ load_request_approval(q, a, r)
            \/ load_approve(q, a, r)
            \/ load_shadow(q, a, r)
            \/ \E emergency \in BOOLEAN : load_activate(q, a, r, emergency)
            \/ load_archive(q, a, r)
        \/ \E v \in 1 .. Len(rulesets) : load_revert(q, a, v)
        \/ \E n \in ListNames :
            \/ \E val \in ListValues : load_create_list(q, a, n, val)
            \/ \E val \in ListValues : load_update_list(q, a, n, val)
            \/ load_delete_list(q, a, n)

Serve(q) ==
    \/ edit_draft(q)
    \/ request_approval(q)
    \/ approve(q)
    \/ move_to_shadow(q)
    \/ delete_list(q)
    \/ publish_version(q)
    \/ commit_publish(q)
    \/ publish_conflict(q)
    \/ crash(q)

Next ==
    \/ \E a \in Users, r \in RuleIds, e \in Expressions : create_draft(a, r, e)
    \/ \E q \in Slots : Load(q) \/ Serve(q)

Spec == Init /\ [][Next]_vars

-----------------------------------------------------------------------------
(* Safety *)

Activations == {"rule.activated", "rule.emergency_activated"}

\* The i-th version ever published is numbered i.
VersionsContiguous ==
    \A i \in DOMAIN rulesets : rulesets[i].version = i

\* Two publishers that read the same latest version never both insert, and the
\* versions can be read off the trail: every record names a version that is
\* there, in the order of the versions, by the actor who published it.  A version
\* has its one record, unless it is a revert's or a list change's whose record
\* failed (revert, NamedListViewSet._publish).
VersionsAudited ==
    LET Publishes == {j \in DOMAIN changes : changes[j].ruleset_version # 0}
        names(j, v) == /\ changes[j].ruleset_version = v
                       /\ changes[j].actor = rulesets[v].published_by
    IN /\ VersionsContiguous
       /\ \A v \in DOMAIN rulesets : \E j \in Publishes :
            /\ names(j, v)
            /\ changes[j].recorded
                 \/ changes[j].event \in {"ruleset.reverted", "list.created", "list.updated"}
       /\ \A j \in Publishes : changes[j].ruleset_version \in DOMAIN rulesets
       /\ \A i, j \in Publishes : i < j => changes[i].ruleset_version < changes[j].ruleset_version

\* lifecycle.py: "evidence of which controls were in force at a given time".
\* Whatever records fail and whoever publishes next, reverts included: no version
\* has a rule in force without an activation of that rule on record, made with
\* that version or an earlier one.
ForceOnRecord ==
    \A v \in DOMAIN rulesets : \A e \in rulesets[v].rules : e.state = "active" =>
        \E j \in DOMAIN changes :
            /\ changes[j].recorded
            /\ changes[j].event \in Activations /\ changes[j].subject = e.id
            /\ changes[j].ruleset_version <= v

\* However stale the copies: an activation is preceded by the approval it
\* claims, given by somebody other than the rule's author, or it is an
\* emergency activation by a role that may override.  (The approval was given;
\* approve's own record may have failed.)
ActivationApproved ==
    \A j \in DOMAIN changes : changes[j].event \in Activations =>
        \/ \E i \in 1 .. j - 1 : /\ changes[i].event = "rule.approved"
                                 /\ changes[i].subject = changes[j].subject
                                 /\ changes[i].actor = changes[j].row.approved_by
                                 /\ changes[i].actor # rules[changes[j].subject].created_by
        \/ /\ changes[j].event = "rule.emergency_activated"
           /\ may(changes[j].actor, "emergency_override")

\* Racing publishers lose no activation: what version v put in force is still
\* in force in the next version, unless that one is a revert or somebody has
\* archived, shadowed or edited the rule in between.
NoActivationLost ==
    \A i, k \in DOMAIN changes :
        ( /\ i < k
          /\ changes[i].event \in Activations
          /\ changes[k].ruleset_version = changes[i].ruleset_version + 1
          /\ changes[k].event # "ruleset.reverted" ) =>
        \/ \E e \in rulesets[changes[k].ruleset_version].rules :
              e.id = changes[i].subject /\ e.state = "active"
        \/ \E m \in i + 1 .. k : /\ changes[m].subject = changes[i].subject
                                 /\ changes[m].event \in {"rule.archived", "rule.shadowed",
                                                        "rule.edited"}

\* The content of a rule in force was put in front of somebody: every active
\* entry of every published version was approved, or activated in an
\* emergency, with the expression the version carries.
ActiveContentReviewed ==
    \A v \in DOMAIN rulesets : \A e \in rulesets[v].rules : e.state = "active" =>
        \E i \in DOMAIN changes :
            /\ changes[i].event \in {"rule.approved", "rule.emergency_activated"}
            /\ changes[i].subject = e.id
            /\ changes[i].row.expression = e.expression

\* ... which the code guarantees as long as no handler commits from a copy that
\* somebody else's commit has overtaken.
ReviewedUnlessStale ==
    (\A i \in DOMAIN changes : changes[i].fresh) => ActiveContentReviewed

\* What is in force is what the tables say: the latest version differs from
\* them only where a shadowing or an edit, which publish nothing, came after
\* the version before, where a list was deleted, or if it is a revert, which
\* leaves the tables as they are.
TablesExplained ==
    LET v == Len(rulesets)
        record(w) == CHOOSE j \in DOMAIN changes : changes[j].ruleset_version = w
        since == IF v = 1 THEN 1 ELSE record(v - 1) + 1
        published(r) == {<<e.state, e.expression>> : e \in {x \in rulesets[v].rules : x.id = r}}
        current(r) == IF rules[r].state \in {"active", "shadow"}
                      THEN {<<rules[r].state, rules[r].expression>>} ELSE {}
    IN (v > 0 /\ changes[record(v)].event # "ruleset.reverted") =>
       /\ \A r \in RuleIds : published(r) # current(r) =>
             \E m \in since .. Len(changes) : /\ changes[m].subject = r
                                              /\ changes[m].event \in {"rule.shadowed", "rule.edited"}
       /\ \A n \in ListNames : lists[n] \in {rulesets[v].lists[n], None}
=============================================================================
