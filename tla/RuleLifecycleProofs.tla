------------------------ MODULE RuleLifecycleProofs ------------------------
(***************************************************************************)
(* The rule lifecycle for any number of rules, users, lists and requests   *)
(* in flight, and histories of any length.                                 *)
(*                                                                         *)
(* A request in flight works on a copy that may be stale.  The proofs keep *)
(* track of what a copy is still good for: its author never changes, the   *)
(* approval it shows was given, and a row is held from the moment a        *)
(* publisher has written it until the publisher commits.                   *)
(***************************************************************************)
EXTENDS RuleLifecycle, TLAPS

RuleOps == {"update", "request_approval", "approve", "shadow", "activate", "archive"}
ListOps == {"create_list", "update_list", "delete_list"}

\* What the guards have established of a request in flight.
Guarded(req) ==
    /\ req.op # "idle" => req.actor \in Users
    /\ req.op \in RuleOps => req.subject \in RuleIds
    /\ req.op \in ListOps => req.subject \in ListNames
    /\ req.op \in {"create_list", "update_list"} => req.value \in ListValues
    /\ req.op = "update" => req.expression \in Expressions /\ req.row.state \in Editable
    /\ req.op = "approve" => req.actor # req.row.created_by
    /\ req.op = "activate" => may_activate(req.actor, req.row, req.emergency)
    /\ req.op = "revert" => VersionTaken(req.to_version) /\ req.subject = None

\* Who is about to publish has read some latest version, perhaps an old one.
Numbered(q) ==
    /\ staged[q].next \in 0 .. Len(rulesets) + 1
    /\ staged[q].next # 0 => requests[q].op \in PublishingOps

IInv ==
    /\ TypeOK
    /\ \A q \in Slots : Guarded(requests[q]) /\ Numbered(q)
    /\ VersionsContiguous

LEMMA IdleIsRequest ==
  /\ Idle \in Requests /\ Idle.op = "idle" /\ NoRow \in Rows /\ NotStaged \in Stagings
  /\ NotStaged.next = 0 /\ Guarded(Idle)
  <1>1. Idle \in Requests /\ Idle.op = "idle" /\ NoRow \in Rows
    BY DEF Idle, Requests, Ops, NoRow, Rows, States
  <1>2. NotStaged \in Stagings /\ NotStaged.next = 0
    BY DEF NotStaged, Stagings, ListTables
  <1>3. Guarded(Idle)
    BY <1>1 DEF Guarded, RuleOps, ListOps
  <1> QED BY <1>1, <1>2, <1>3

LEMMA InitIInv == Init => IInv
  <1> SUFFICES ASSUME Init PROVE IInv
    OBVIOUS
  <1>1. TypeOK
    BY IdleIsRequest DEF Init, TypeOK, ListTables
  <1>2. \A q \in Slots : requests[q] = Idle /\ staged[q] = NotStaged
    BY DEF Init
  <1>3. \A q \in Slots : Guarded(requests[q]) /\ Numbered(q)
    BY <1>2, IdleIsRequest DEF Numbered, Init
  <1>4. VersionsContiguous
    BY DEF Init, VersionsContiguous
  <1> QED BY <1>1, <1>3, <1>4 DEF IInv

-----------------------------------------------------------------------------
(* Loading.                                                                *)

\* A request on a rule: its copy is the row, as it is now.
RuleRequest(req, op, a, r) ==
    req \in Requests /\ req.op = op /\ req.actor = a /\ req.subject = r /\ req.row = rules[r]

LEMMA OfRuleIsRequest ==
  ASSUME NEW op \in RuleOps, NEW a \in Users, NEW r \in RuleIds, TypeOK
  PROVE  RuleRequest(OfRule(op, a, r), op, a, r)
  <1>1. rules[r] \in Rows /\ op \in Ops
    BY DEF TypeOK, RuleOps, Ops
  <1> QED BY <1>1, IdleIsRequest DEF RuleRequest, OfRule, Requests

\* What a load leaves in its slot.
Loads(q, req) ==
    /\ Begin(q, req) /\ req \in Requests /\ req.op # "idle" /\ Guarded(req)
    /\ req.op \in RuleOps => req.row = rules[req.subject] /\ req.row # NoRow

LEMMA RuleLoads ==
  ASSUME NEW q \in Slots, NEW a \in Users, NEW r \in RuleIds, NEW op \in RuleOps, NEW req,
         RuleRequest(req, op, a, r), Begin(q, req), rules[r] # NoRow,
         op = "update" => req.expression \in Expressions /\ rules[r].state \in Editable,
         op = "approve" => a # rules[r].created_by,
         op = "activate" => may_activate(a, rules[r], req.emergency)
  PROVE  Loads(q, req)
  BY DEF RuleRequest, Loads, Guarded, RuleOps, ListOps

LEMMA RulesLoad ==
  ASSUME NEW q \in Slots, NEW a \in Users, NEW r \in RuleIds, TypeOK,
         \/ \E e \in Expressions : load_edit(q, a, r, e)
         \/ load_request_approval(q, a, r)
         \/ load_approve(q, a, r)
         \/ load_shadow(q, a, r)
         \/ \E emergency \in BOOLEAN : load_activate(q, a, r, emergency)
         \/ load_archive(q, a, r)
  PROVE  \E req : Loads(q, req)
  <1>1. ASSUME NEW e \in Expressions, load_edit(q, a, r, e) PROVE \E req : Loads(q, req)
    <2>1. PICK req : req = [OfRule("update", a, r) EXCEPT !.expression = e]
      OBVIOUS
    <2>2. RuleRequest(OfRule("update", a, r), "update", a, r)
      BY OfRuleIsRequest DEF RuleOps
    <2>3. RuleRequest(req, "update", a, r) /\ req.expression = e
      BY <2>1, <2>2 DEF RuleRequest, Requests
    <2> QED BY <1>1, <2>1, <2>3, RuleLoads DEF load_edit, RuleOps
  <1>2. ASSUME NEW emergency \in BOOLEAN, load_activate(q, a, r, emergency) PROVE \E req : Loads(q, req)
    <2>1. PICK req : req = [OfRule("activate", a, r) EXCEPT !.emergency = emergency]
      OBVIOUS
    <2>2. RuleRequest(OfRule("activate", a, r), "activate", a, r)
      BY OfRuleIsRequest DEF RuleOps
    <2>3. RuleRequest(req, "activate", a, r) /\ req.emergency = emergency
      BY <2>1, <2>2 DEF RuleRequest, Requests
    <2> QED BY <1>2, <2>1, <2>3, RuleLoads DEF load_activate, RuleOps
  <1>3. ASSUME NEW op \in {"request_approval", "approve", "shadow", "archive"}, rules[r] # NoRow,
               op = "approve" => a # rules[r].created_by, Begin(q, OfRule(op, a, r))
        PROVE  \E req : Loads(q, req)
    <2>1. RuleRequest(OfRule(op, a, r), op, a, r)
      BY OfRuleIsRequest DEF RuleOps
    <2> QED BY <1>3, <2>1, RuleLoads DEF RuleOps
  <1>4. ASSUME load_request_approval(q, a, r) PROVE \E req : Loads(q, req)
    <2>1. rules[r] # NoRow /\ Begin(q, OfRule("request_approval", a, r))
      BY <1>4 DEF load_request_approval
    <2> QED BY <1>3, <2>1
  <1>5. ASSUME load_approve(q, a, r) PROVE \E req : Loads(q, req)
    <2>1. rules[r] # NoRow /\ a # rules[r].created_by /\ Begin(q, OfRule("approve", a, r))
      BY <1>5 DEF load_approve
    <2> QED BY <1>3, <2>1
  <1>6. ASSUME load_shadow(q, a, r) PROVE \E req : Loads(q, req)
    <2>1. rules[r] # NoRow /\ Begin(q, OfRule("shadow", a, r))
      BY <1>6 DEF load_shadow
    <2> QED BY <1>3, <2>1
  <1>7. ASSUME load_archive(q, a, r) PROVE \E req : Loads(q, req)
    <2>1. rules[r] # NoRow /\ Begin(q, OfRule("archive", a, r))
      BY <1>7 DEF load_archive
    <2> QED BY <1>3, <2>1
  <1> QED BY <1>1, <1>2, <1>4, <1>5, <1>6, <1>7

LEMMA OthersLoad ==
  ASSUME NEW q \in Slots, NEW a \in Users, TypeOK,
         \/ \E v \in 1 .. Len(rulesets) : load_revert(q, a, v)
         \/ \E n \in ListNames :
              \/ \E val \in ListValues : load_create_list(q, a, n, val)
              \/ \E val \in ListValues : load_update_list(q, a, n, val)
              \/ load_delete_list(q, a, n)
  PROVE  \E req : Loads(q, req)
  <1>1. ASSUME NEW v \in 1 .. Len(rulesets), load_revert(q, a, v) PROVE \E req : Loads(q, req)
    <2>1. PICK req : req = [Idle EXCEPT !.op = "revert", !.actor = a, !.to_version = v]
      OBVIOUS
    <2>2. /\ req \in Requests /\ req.op = "revert" /\ req.actor = a /\ req.to_version = v
          /\ req.subject = None
      <3>1. v \in Nat /\ Idle.subject = None
        BY DEF TypeOK, Idle
      <3> QED BY <2>1, <3>1, IdleIsRequest DEF Requests, Ops
    <2>3. Begin(q, req) /\ VersionTaken(v)
      BY <1>1, <2>1 DEF load_revert
    <2>4. Guarded(req)
      BY <2>2, <2>3 DEF Guarded, RuleOps, ListOps
    <2> QED BY <2>2, <2>3, <2>4 DEF Loads, RuleOps
  <1>2. ASSUME NEW n \in ListNames, NEW val \in ListValues, NEW op \in {"create_list", "update_list"},
               Begin(q, [Idle EXCEPT !.op = op, !.actor = a, !.subject = n, !.value = val])
        PROVE  \E req : Loads(q, req)
    <2>1. PICK req : req = [Idle EXCEPT !.op = op, !.actor = a, !.subject = n, !.value = val]
      OBVIOUS
    <2>2. req \in Requests /\ req.op = op /\ req.actor = a /\ req.subject = n /\ req.value = val
      BY <2>1, IdleIsRequest DEF Requests, Ops
    <2> QED BY <1>2, <2>1, <2>2 DEF Loads, Guarded, RuleOps, ListOps
  <1>3. ASSUME NEW n \in ListNames, load_delete_list(q, a, n) PROVE \E req : Loads(q, req)
    <2>1. PICK req : req = [Idle EXCEPT !.op = "delete_list", !.actor = a, !.subject = n]
      OBVIOUS
    <2>2. req \in Requests /\ req.op = "delete_list" /\ req.actor = a /\ req.subject = n
      BY <2>1, IdleIsRequest DEF Requests, Ops
    <2> QED BY <1>3, <2>1, <2>2 DEF load_delete_list, Loads, Guarded, RuleOps, ListOps
  <1> QED BY <1>1, <1>2, <1>3 DEF load_create_list, load_update_list

LEMMA LoadIsLoads ==
  ASSUME NEW q \in Slots, TypeOK, Load(q)
  PROVE  \E req : Loads(q, req)
  BY RulesLoad, OthersLoad DEF Load
-----------------------------------------------------------------------------
(* What each of the other steps does to the tables, field by field.        *)

\* The slot q is idle again and the other slots are as they were.
Finished(q) ==
    /\ requests' \in [Slots -> Requests] /\ staged' \in [Slots -> Stagings]
    /\ requests'[q] = Idle /\ staged'[q].next = 0
    /\ \A p \in Slots \ {q} : requests'[p] = requests[p] /\ staged'[p] = staged[p]

LEMMA FinishFinishes ==
  ASSUME TypeOK, NEW q \in Slots, Finish(q)
  PROVE  Finished(q)
  BY IdleIsRequest DEF TypeOK, Finish, Finished

\* One row is written, and these are its fields.
RowWrite(s, state, expression, created_by, approved_by) ==
    /\ rules' \in [RuleIds -> Rows]
    /\ \A r \in RuleIds \ {s} : rules'[r] = rules[r]
    /\ rules'[s].state = state
    /\ rules'[s].expression = expression
    /\ rules'[s].created_by = created_by
    /\ rules'[s].approved_by = approved_by

\* One change is added, with its audit record or, where append may fail alone,
\* without.
Logs(rec, event, actor, subject, v) ==
    /\ rec \in Records /\ rec.event = event /\ rec.actor = actor
    /\ rec.subject = subject /\ rec.ruleset_version = v
    /\ rec.recorded = TRUE \/ event \notin AllOrNothing
    /\ changes' \in Seq(Records) /\ Len(changes') = Len(changes) + 1
    /\ \A i \in 1 .. Len(changes) : changes'[i] = changes[i]
    /\ changes'[Len(changes) + 1] = rec

LEMMA AppendLogs ==
  ASSUME TypeOK, NEW event \in Events, NEW actor \in Users,
         NEW subject \in RuleIds \cup ListNames \cup {None},
         NEW row \in Rows, NEW v \in Nat, NEW fresh \in BOOLEAN,
         audit_append(event, actor, subject, row, v, fresh)
  PROVE  \E rec : Logs(rec, event, actor, subject, v) /\ rec.row = row /\ rec.fresh = fresh
  <1>0. PICK recorded \in BOOLEAN :
           /\ recorded \/ event \notin AllOrNothing
           /\ changes' = Append(changes, [event |-> event, actor |-> actor, subject |-> subject, row |-> row,
                                          ruleset_version |-> v, fresh |-> fresh, recorded |-> recorded])
    BY DEF audit_append
  <1>1. PICK rec : rec = [event |-> event, actor |-> actor, subject |-> subject, row |-> row,
                          ruleset_version |-> v, fresh |-> fresh, recorded |-> recorded]
    OBVIOUS
  <1>2. /\ rec \in Records /\ rec.event = event /\ rec.actor = actor /\ rec.subject = subject
        /\ rec.ruleset_version = v /\ rec.row = row /\ rec.fresh = fresh
        /\ rec.recorded = TRUE \/ event \notin AllOrNothing
    BY <1>0, <1>1 DEF Records
  <1>3. changes' = Append(changes, rec) /\ changes \in Seq(Records)
    BY <1>0, <1>1 DEF TypeOK
  <1>4. /\ changes' \in Seq(Records) /\ Len(changes') = Len(changes) + 1
        /\ \A i \in 1 .. Len(changes) : changes'[i] = changes[i]
        /\ changes'[Len(changes) + 1] = rec
    BY <1>2, <1>3
  <1> QED BY <1>2, <1>4 DEF Logs

Creates(a, r, e, rec) ==
    /\ a \in Users /\ r \in RuleIds /\ e \in Expressions /\ rules[r] = NoRow
    /\ RowWrite(r, "draft", e, a, None)
    /\ Logs(rec, "rule.created", a, r, 0)
    /\ UNCHANGED <<lists, rulesets, requests, staged>>

LEMMA CreateStep ==
  ASSUME TypeOK, NEW a \in Users, NEW r \in RuleIds, NEW e \in Expressions, create_draft(a, r, e)
  PROVE  \E rec : Creates(a, r, e, rec)
  <1>1. PICK row : row = [state |-> "draft", expression |-> e, version |-> 1,
                          created_by |-> a, approved_by |-> None]
    OBVIOUS
  <1>2. /\ row \in Rows /\ row.state = "draft" /\ row.expression = e
        /\ row.created_by = a /\ row.approved_by = None
    BY <1>1 DEF Rows, States
  <1>3. rules' = [rules EXCEPT ![r] = row] /\ audit_append("rule.created", a, r, row, 0, TRUE)
    BY <1>1 DEF create_draft
  <1>4. RowWrite(r, "draft", e, a, None)
    BY <1>2, <1>3 DEF RowWrite, TypeOK
  <1>5. \E rec : Logs(rec, "rule.created", a, r, 0)
    <2>1. "rule.created" \in Events /\ 0 \in Nat /\ r \in RuleIds \cup ListNames \cup {None}
      BY DEF Events
    <2> QED BY <1>2, <1>3, <2>1, AppendLogs
  <1> QED BY <1>4, <1>5 DEF Creates, create_draft

\* The handler of slot q, which holds req, ends with a record of req's rule.
Records0(q, req, event, rec) ==
    /\ req = requests[q] /\ Finished(q)
    /\ Logs(rec, event, req.actor, req.subject, 0)
    /\ rec.fresh = TRUE => rules[req.subject] = req.row
    /\ UNCHANGED <<lists, rulesets>>

LEMMA RuleRecord ==
  ASSUME IInv, NEW q \in Slots, NEW req, req = requests[q], req.op \in RuleOps,
         NEW event \in Events, NEW row \in Rows,
         audit_append(event, req.actor, req.subject, row, 0, Fresh(req)), Finish(q),
         UNCHANGED <<lists, rulesets>>
  PROVE  \E rec : Records0(q, req, event, rec) /\ rec.row = row
  <1>1. req.actor \in Users /\ req.subject \in RuleIds
    BY DEF IInv, Guarded, RuleOps
  <1>2. TypeOK /\ Fresh(req) \in BOOLEAN /\ 0 \in Nat /\ req.subject \in RuleIds \cup ListNames \cup {None}
    BY <1>1 DEF IInv, Fresh
  <1>3. PICK rec : /\ Logs(rec, event, req.actor, req.subject, 0) /\ rec.row = row
                   /\ rec.fresh = Fresh(req)
    BY <1>1, <1>2, AppendLogs
  <1>4. rec.fresh = TRUE => rules[req.subject] = req.row
    BY <1>1, <1>3 DEF Fresh
  <1> QED BY <1>2, <1>3, <1>4, FinishFinishes DEF Records0

Edits(q, req, rec) ==
    /\ Records0(q, req, "rule.edited", rec) /\ req.op = "update" /\ RowFree(q)
    /\ RowWrite(req.subject, req.row.state, req.expression, req.row.created_by, None)

LEMMA EditStep ==
  ASSUME IInv, NEW q \in Slots, edit_draft(q)
  PROVE  \E req, rec : Edits(q, req, rec)
  <1>1. PICK req : req = requests[q]
    OBVIOUS
  <1>2. PICK row : row = edited(req.row, req.expression)
    OBVIOUS
  <1>3. /\ req.op = "update" /\ RowFree(q) /\ Finish(q) /\ UNCHANGED <<lists, rulesets>>
        /\ rules' = [rules EXCEPT ![req.subject] = row]
        /\ audit_append("rule.edited", req.actor, req.subject, row, 0, Fresh(req))
    BY <1>1, <1>2 DEF edit_draft
  <1>4. req \in Requests /\ Guarded(req) /\ rules \in [RuleIds -> Rows]
    BY <1>1 DEF IInv, TypeOK
  <1>5. /\ req.subject \in RuleIds /\ req.expression \in Expressions /\ req.row \in Rows
        /\ req.op \in RuleOps
    BY <1>3, <1>4 DEF Guarded, RuleOps, Requests
  <1>6. /\ row \in Rows /\ row.state = req.row.state /\ row.expression = req.expression
        /\ row.created_by = req.row.created_by /\ row.approved_by = None
    <2>1. row = [req.row EXCEPT !.expression = req.expression, !.approved_by = None,
                                !.version = req.row.version + 1]
      BY <1>2, <1>5 DEF edited, Rows
    <2>2. req.row.version + 1 \in Nat
      BY <1>5 DEF Rows
    <2> QED BY <1>5, <2>1, <2>2 DEF Rows
  <1>7. RowWrite(req.subject, req.row.state, req.expression, req.row.created_by, None)
    BY <1>3, <1>4, <1>5, <1>6 DEF RowWrite
  <1>8. \E rec : Records0(q, req, "rule.edited", rec) /\ rec.row = row
    <2>1. "rule.edited" \in Events
      BY DEF Events
    <2> QED BY <1>1, <1>3, <1>5, <1>6, <2>1, RuleRecord
  <1> QED BY <1>3, <1>7, <1>8 DEF Edits

Requested(q, req, rec) ==
    Records0(q, req, "rule.approval_requested", rec) /\ rules' = rules

LEMMA RequestStep ==
  ASSUME IInv, NEW q \in Slots, request_approval(q)
  PROVE  \E req, rec : Requested(q, req, rec)
  <1>1. PICK req : req = requests[q]
    OBVIOUS
  <1>2. req.op \in RuleOps /\ req.row \in Rows /\ "rule.approval_requested" \in Events
    BY <1>1 DEF IInv, TypeOK, request_approval, RuleOps, Requests, Events
  <1>3. /\ Finish(q) /\ UNCHANGED <<rules, lists, rulesets>>
        /\ audit_append("rule.approval_requested", req.actor, req.subject, req.row, 0, Fresh(req))
    BY <1>1 DEF request_approval
  <1>4. \E rec : Records0(q, req, "rule.approval_requested", rec) /\ rec.row = req.row
    BY <1>1, <1>2, <1>3, RuleRecord
  <1> QED BY <1>3, <1>4 DEF Requested
Approves(q, req, rec) ==
    /\ Records0(q, req, "rule.approved", rec) /\ req.op = "approve"
    /\ rec.row.expression = req.row.expression
    /\ RowWrite(req.subject, rules[req.subject].state, rules[req.subject].expression,
                rules[req.subject].created_by, req.actor)

LEMMA ApproveStep ==
  ASSUME IInv, NEW q \in Slots, approve(q)
  PROVE  \E req, rec : Approves(q, req, rec)
  <1>1. PICK req : req = requests[q]
    OBVIOUS
  <1>2. PICK row : row = [req.row EXCEPT !.approved_by = req.actor]
    OBVIOUS
  <1>3. /\ req.op = "approve" /\ Finish(q) /\ UNCHANGED <<lists, rulesets>>
        /\ rules' = [rules EXCEPT ![req.subject].approved_by = req.actor]
        /\ audit_append("rule.approved", req.actor, req.subject, row, 0, Fresh(req))
    BY <1>1, <1>2 DEF approve
  <1>4. req \in Requests /\ Guarded(req) /\ rules \in [RuleIds -> Rows]
    BY <1>1 DEF IInv, TypeOK
  <1>5. req.subject \in RuleIds /\ req.actor \in Users /\ req.row \in Rows /\ req.op \in RuleOps
    BY <1>3, <1>4 DEF Guarded, RuleOps, Requests
  <1>6. row \in Rows /\ row.expression = req.row.expression /\ "rule.approved" \in Events
    BY <1>2, <1>5 DEF Rows, Events
  <1>7. RowWrite(req.subject, rules[req.subject].state, rules[req.subject].expression,
                 rules[req.subject].created_by, req.actor)
    BY <1>3, <1>4, <1>5 DEF RowWrite, Rows
  <1>8. \E rec : Records0(q, req, "rule.approved", rec) /\ rec.row = row
    BY <1>1, <1>3, <1>5, <1>6, RuleRecord
  <1> QED BY <1>3, <1>6, <1>7, <1>8 DEF Approves

Shadows(q, req, rec) ==
    /\ Records0(q, req, "rule.shadowed", rec) /\ req.op = "shadow"
    /\ RowWrite(req.subject, "shadow", rules[req.subject].expression,
                rules[req.subject].created_by, rules[req.subject].approved_by)

LEMMA ShadowStep ==
  ASSUME IInv, NEW q \in Slots, move_to_shadow(q)
  PROVE  \E req, rec : Shadows(q, req, rec)
  <1>1. PICK req : req = requests[q]
    OBVIOUS
  <1>2. PICK row : row = [req.row EXCEPT !.state = "shadow"]
    OBVIOUS
  <1>3. /\ req.op = "shadow" /\ Finish(q) /\ UNCHANGED <<lists, rulesets>>
        /\ rules' = [rules EXCEPT ![req.subject].state = "shadow"]
        /\ audit_append("rule.shadowed", req.actor, req.subject, row, 0, Fresh(req))
    BY <1>1, <1>2 DEF move_to_shadow
  <1>4. req \in Requests /\ Guarded(req) /\ rules \in [RuleIds -> Rows]
    BY <1>1 DEF IInv, TypeOK
  <1>5. req.subject \in RuleIds /\ req.row \in Rows /\ req.op \in RuleOps
    BY <1>3, <1>4 DEF Guarded, RuleOps, Requests
  <1>6. row \in Rows /\ "rule.shadowed" \in Events
    BY <1>2, <1>5 DEF Rows, States, Events
  <1>7. RowWrite(req.subject, "shadow", rules[req.subject].expression,
                 rules[req.subject].created_by, rules[req.subject].approved_by)
    BY <1>3, <1>4, <1>5 DEF RowWrite, Rows, States
  <1>8. \E rec : Records0(q, req, "rule.shadowed", rec) /\ rec.row = row
    BY <1>1, <1>3, <1>5, <1>6, RuleRecord
  <1> QED BY <1>3, <1>7, <1>8 DEF Shadows

Deletes(q) ==
    /\ Finished(q) /\ UNCHANGED <<rules, rulesets, changes>>
    /\ lists' \in ListTables /\ \A n \in ListNames : lists'[n] \in {lists[n], None}

LEMMA DeleteStep ==
  ASSUME IInv, NEW q \in Slots, delete_list(q)
  PROVE  Deletes(q)
  <1>1. Finished(q)
    BY FinishFinishes DEF delete_list, IInv
  <1>2. lists' = [lists EXCEPT ![requests[q].subject] = None] /\ lists \in ListTables
    BY DEF delete_list, IInv, TypeOK
  <1>3. lists' \in ListTables /\ \A n \in ListNames : lists'[n] \in {lists[n], None}
    BY <1>2 DEF ListTables
  <1> QED BY <1>1, <1>3 DEF Deletes, delete_list

\* The tables stay; the request ends in a conflict or a crash.
Drops(q) == Finished(q) /\ UNCHANGED <<rules, lists, rulesets, changes>>

LEMMA DropStep ==
  ASSUME IInv, NEW q \in Slots, publish_conflict(q) \/ crash(q)
  PROVE  Drops(q)
  BY FinishFinishes DEF IInv, publish_conflict, crash, Drops

-----------------------------------------------------------------------------
(* Publishing.                                                             *)

\* The number publish_version reads is that of the last row, because the rows
\* are numbered in the order of their insertion.
LEMMA LatestIsLast ==
  ASSUME IInv
  PROVE  latest = Len(rulesets)
  <1>1. rulesets \in Seq(RuleSets) /\ \A i \in DOMAIN rulesets : rulesets[i].version = i
    BY DEF IInv, TypeOK, VersionsContiguous
  <1>2. CASE rulesets = <<>>
    BY <1>2 DEF latest
  <1>3. CASE rulesets # <<>>
    <2>1. Len(rulesets) \in DOMAIN rulesets /\ DOMAIN rulesets = 1 .. Len(rulesets) /\ Len(rulesets) \in Nat
      BY <1>1, <1>3
    <2>2. PICK n : n = CHOOSE i \in DOMAIN rulesets :
                         \A j \in DOMAIN rulesets : rulesets[j].version <= rulesets[i].version
      OBVIOUS
    <2>3. \A j \in DOMAIN rulesets : rulesets[j].version <= rulesets[Len(rulesets)].version
      BY <1>1, <2>1
    <2>4. n \in DOMAIN rulesets /\ \A j \in DOMAIN rulesets : rulesets[j].version <= rulesets[n].version
      BY <2>1, <2>2, <2>3
    <2>5. n = Len(rulesets)
      BY <1>1, <2>1, <2>4
    <2> QED BY <1>1, <1>3, <2>2, <2>4, <2>5 DEF latest
  <1> QED BY <1>2, <1>3

\* The state of rule r, and what list n holds, as slot q's transaction sees it.
SeenState(q, r) ==
    IF requests[q].op = "activate" /\ requests[q].subject = r THEN "active"
    ELSE IF requests[q].op = "archive" /\ requests[q].subject = r THEN "archived"
    ELSE rules[r].state

SeenList(q, n) ==
    IF requests[q].op \in {"create_list", "update_list"} /\ requests[q].subject = n
    THEN requests[q].value ELSE lists[n]

WithState(table, s, state) == [table EXCEPT ![s].state = state]

LEMMA StateWritten ==
  ASSUME NEW table \in [RuleIds -> Rows], NEW s, NEW state \in States, NEW t,
         t = WithState(table, s, state)
  PROVE  /\ t \in [RuleIds -> Rows]
         /\ \A r \in RuleIds : /\ t[r].state = IF s = r THEN state ELSE table[r].state
                               /\ t[r].expression = table[r].expression
                               /\ t[r].created_by = table[r].created_by
                               /\ t[r].approved_by = table[r].approved_by
                               /\ s # r => t[r] = table[r]
  <1>0. t = [table EXCEPT ![s].state = state]
    BY DEF WithState
  <1>1. ASSUME NEW r \in RuleIds, s # r PROVE t[r] = table[r]
    BY <1>0, <1>1
  <1>2. ASSUME s \in RuleIds PROVE t[s] = [table[s] EXCEPT !.state = state] /\ table[s] \in Rows
    BY <1>0, <1>2
  <1>3. ASSUME s \in RuleIds
        PROVE  /\ t[s] \in Rows /\ t[s].state = state /\ t[s].expression = table[s].expression
               /\ t[s].created_by = table[s].created_by /\ t[s].approved_by = table[s].approved_by
    BY <1>2, <1>3 DEF Rows
  <1>4. t \in [RuleIds -> Rows]
    BY <1>0, <1>1, <1>3
  <1> QED BY <1>1, <1>3, <1>4

LEMMA SeenRules ==
  ASSUME IInv, NEW q \in Slots
  PROVE  /\ RulesAsSeenBy(q) \in [RuleIds -> Rows]
         /\ \A r \in RuleIds : /\ RulesAsSeenBy(q)[r].state = SeenState(q, r)
                               /\ RulesAsSeenBy(q)[r].expression = rules[r].expression
                               /\ RulesAsSeenBy(q)[r].created_by = rules[r].created_by
                               /\ RulesAsSeenBy(q)[r].approved_by = rules[r].approved_by
                               /\ requests[q].subject # r => RulesAsSeenBy(q)[r] = rules[r]
         /\ requests[q].op \notin {"activate", "archive"} => RulesAsSeenBy(q) = rules
  <1>1. rules \in [RuleIds -> Rows]
    BY DEF IInv, TypeOK
  <1>2. CASE requests[q].op = "activate"
    <2>0. "active" \in States
      BY DEF States
    <2>1. RulesAsSeenBy(q) = [rules EXCEPT ![requests[q].subject].state = "active"]
      BY <1>2 DEF RulesAsSeenBy
    <2>2. PICK t, s : t = RulesAsSeenBy(q) /\ s = requests[q].subject
      OBVIOUS
    <2>4. t = WithState(rules, s, "active")
      BY <2>1, <2>2 DEF WithState
    <2>3. /\ t \in [RuleIds -> Rows]
          /\ \A r \in RuleIds : /\ t[r].state = IF s = r THEN "active" ELSE rules[r].state
                                /\ t[r].expression = rules[r].expression
                                /\ t[r].created_by = rules[r].created_by
                                /\ t[r].approved_by = rules[r].approved_by
                                /\ s # r => t[r] = rules[r]
      BY <1>1, <2>0, <2>4, StateWritten
    <2> QED BY <1>2, <2>2, <2>3 DEF SeenState
  <1>3. CASE requests[q].op = "archive"
    <2>0. "archived" \in States
      BY DEF States
    <2>1. RulesAsSeenBy(q) = [rules EXCEPT ![requests[q].subject].state = "archived"]
      BY <1>3 DEF RulesAsSeenBy
    <2>2. PICK t, s : t = RulesAsSeenBy(q) /\ s = requests[q].subject
      OBVIOUS
    <2>4. t = WithState(rules, s, "archived")
      BY <2>1, <2>2 DEF WithState
    <2>3. /\ t \in [RuleIds -> Rows]
          /\ \A r \in RuleIds : /\ t[r].state = IF s = r THEN "archived" ELSE rules[r].state
                                /\ t[r].expression = rules[r].expression
                                /\ t[r].created_by = rules[r].created_by
                                /\ t[r].approved_by = rules[r].approved_by
                                /\ s # r => t[r] = rules[r]
      BY <1>1, <2>0, <2>4, StateWritten
    <2> QED BY <1>3, <2>2, <2>3 DEF SeenState
  <1>4. CASE requests[q].op \notin {"activate", "archive"}
    <2>1. RulesAsSeenBy(q) = rules
      BY <1>4 DEF RulesAsSeenBy
    <2> QED BY <1>1, <1>4, <2>1 DEF SeenState
  <1> QED BY <1>2, <1>3, <1>4

LEMMA SeenLists ==
  ASSUME IInv, NEW q \in Slots
  PROVE  /\ ListsAsSeenBy(q) \in ListTables
         /\ \A n \in ListNames : ListsAsSeenBy(q)[n] = SeenList(q, n)
  <1>1. lists \in ListTables /\ Guarded(requests[q])
    BY DEF IInv, TypeOK
  <1>2. CASE requests[q].op \in {"create_list", "update_list"}
    <2>1. ListsAsSeenBy(q) = [lists EXCEPT ![requests[q].subject] = requests[q].value]
      BY <1>2 DEF ListsAsSeenBy
    <2>2. requests[q].value \in ListValues
      BY <1>1, <1>2 DEF Guarded
    <2> QED BY <1>1, <1>2, <2>1, <2>2 DEF SeenList, ListTables
  <1>3. CASE requests[q].op \notin {"create_list", "update_list"}
    BY <1>1, <1>3 DEF SeenList, ListsAsSeenBy
  <1> QED BY <1>2, <1>3
\* The snapshot is the active and shadow rules as slot q's transaction sees
\* them, each with the expression of its row.
SnapshotOf(S, q) ==
    /\ S \subseteq Entries
    /\ \A e \in Entries :
        e \in S <=> e.state = SeenState(q, e.id) /\ e.expression = rules[e.id].expression

LEMMA SnapshotIsSnapshot ==
  ASSUME IInv, NEW q \in Slots
  PROVE  SnapshotOf(snapshot(RulesAsSeenBy(q)), q)
  <1>1. PICK t : t = RulesAsSeenBy(q)
    OBVIOUS
  <1>2. /\ t \in [RuleIds -> Rows]
        /\ \A r \in RuleIds : t[r].state = SeenState(q, r) /\ t[r].expression = rules[r].expression
    BY <1>1, SeenRules
  <1>3. PICK S : S = snapshot(t)
    OBVIOUS
  <1>4. S = {[id |-> r, state |-> t[r].state, expression |-> t[r].expression] :
                r \in {x \in RuleIds : t[x].state \in {"active", "shadow"}}}
    BY <1>3 DEF snapshot
  <1>5. ASSUME NEW e \in S
        PROVE  e \in Entries /\ e.state = t[e.id].state /\ e.expression = t[e.id].expression
    <2>1. PICK r \in RuleIds : /\ t[r].state \in {"active", "shadow"}
                               /\ e = [id |-> r, state |-> t[r].state, expression |-> t[r].expression]
      BY <1>4, <1>5
    <2>2. t[r].expression \in Expressions \cup {None}
      BY <1>2 DEF Rows
    <2> QED BY <2>1, <2>2 DEF Entries
  <1>6. ASSUME NEW e \in Entries, e.state = t[e.id].state, e.expression = t[e.id].expression
        PROVE  e \in S
    <2>1. e.id \in RuleIds /\ e.state \in {"active", "shadow"}
      BY DEF Entries
    <2>2. e = [id |-> e.id, state |-> t[e.id].state, expression |-> t[e.id].expression]
      BY <1>6 DEF Entries
    <2> QED BY <1>4, <1>6, <2>1, <2>2
  <1>7. \A e \in Entries : e.id \in RuleIds
    BY DEF Entries
  <1>8. SnapshotOf(S, q)
    BY <1>2, <1>5, <1>6, <1>7 DEF SnapshotOf
  <1> QED BY <1>1, <1>3, <1>8

Stages(q, req) ==
    /\ req = requests[q] /\ req.op \in PublishingOps
    /\ UNCHANGED <<rules, lists, rulesets, changes, requests>>
    /\ staged' \in [Slots -> Stagings] /\ staged'[q].next = Len(rulesets) + 1
    /\ \A p \in Slots \ {q} : staged'[p] = staged[p]
    /\ req.op = "revert" => \E i \in DOMAIN rulesets : staged'[q].rules = rulesets[i].rules
    /\ req.op # "revert" => /\ SnapshotOf(staged'[q].rules, q)
                            /\ \A n \in ListNames : staged'[q].lists[n] = SeenList(q, n)

LEMMA PublishStep ==
  ASSUME IInv, NEW q \in Slots, publish_version(q)
  PROVE  \E req : Stages(q, req)
  <1>1. PICK req : req = requests[q]
    OBVIOUS
  <1>2. req.op \in PublishingOps /\ UNCHANGED <<rules, lists, rulesets, changes, requests>>
    BY <1>1 DEF publish_version
  <1>3. latest + 1 = Len(rulesets) + 1 /\ latest + 1 \in Nat
    BY LatestIsLast DEF IInv, TypeOK
  <1>4. staged \in [Slots -> Stagings] /\ rulesets \in Seq(RuleSets) /\ Guarded(req)
    BY <1>1 DEF IInv, TypeOK
  <1>5. CASE req.op = "revert"
    <2>1. VersionTaken(req.to_version)
      BY <1>4, <1>5 DEF Guarded
    <2>2. PICK i : i = CHOOSE n \in DOMAIN rulesets : rulesets[n].version = req.to_version
      OBVIOUS
    <2>3. i \in DOMAIN rulesets /\ rulesets[i] = revert_source(req.to_version)
      BY <2>1, <2>2 DEF VersionTaken, revert_source
    <2>4. rulesets[i].rules \subseteq Entries /\ rulesets[i].lists \in ListTables
      <3>1. rulesets[i] \in RuleSets
        BY <1>4, <2>3
      <3> QED BY <3>1 DEF RuleSets
    <2>5. PICK st : st = [next |-> latest + 1, rules |-> rulesets[i].rules, lists |-> rulesets[i].lists]
      OBVIOUS
    <2>6. st \in Stagings /\ st.next = Len(rulesets) + 1 /\ st.rules = rulesets[i].rules
      BY <1>3, <2>4, <2>5 DEF Stagings
    <2>7. staged' = [staged EXCEPT ![q] = st]
      BY <1>1, <1>5, <2>3, <2>5 DEF publish_version
    <2>8. /\ staged' \in [Slots -> Stagings] /\ staged'[q] = st
          /\ \A p \in Slots \ {q} : staged'[p] = staged[p]
      BY <1>4, <2>6, <2>7
    <2> QED BY <1>1, <1>2, <1>5, <2>3, <2>6, <2>8 DEF Stages
  <1>6. CASE req.op # "revert"
    <2>1. PICK S, L : S = snapshot(RulesAsSeenBy(q)) /\ L = ListsAsSeenBy(q)
      OBVIOUS
    <2>2. SnapshotOf(S, q) /\ L \in ListTables /\ \A n \in ListNames : L[n] = SeenList(q, n)
      BY <2>1, SnapshotIsSnapshot, SeenLists
    <2>3. PICK st : st = [next |-> latest + 1, rules |-> S, lists |-> L]
      OBVIOUS
    <2>4. S \subseteq Entries
      BY <2>2 DEF SnapshotOf
    <2>5. st \in Stagings /\ st.next = Len(rulesets) + 1 /\ st.rules = S /\ st.lists = L
      BY <1>3, <2>2, <2>3, <2>4 DEF Stagings
    <2>6. staged' = [staged EXCEPT ![q] = st]
      BY <1>1, <1>6, <2>1, <2>3 DEF publish_version
    <2>7. /\ staged' \in [Slots -> Stagings] /\ staged'[q] = st
          /\ \A p \in Slots \ {q} : staged'[p] = staged[p]
      BY <1>4, <2>5, <2>6
    <2> QED BY <1>1, <1>2, <1>6, <2>2, <2>5, <2>7 DEF Stages
  <1> QED BY <1>5, <1>6

Commits(q, req, rec) ==
    /\ req = requests[q] /\ req.op \in PublishingOps /\ Finished(q)
    /\ staged[q].next = Len(rulesets) + 1
    /\ Logs(rec, PublishEvent(req), req.actor, req.subject, Len(rulesets) + 1)
    /\ (rec.fresh = TRUE /\ req.op \in RuleOps) => rules[req.subject] = req.row
    /\ req.op = "activate" => /\ rec.row.expression = req.row.expression
                              /\ rec.row.approved_by = req.row.approved_by
    /\ rulesets' \in Seq(RuleSets) /\ Len(rulesets') = Len(rulesets) + 1
    /\ \A i \in 1 .. Len(rulesets) : rulesets'[i] = rulesets[i]
    /\ rulesets'[Len(rulesets) + 1].version = Len(rulesets) + 1
    /\ rulesets'[Len(rulesets) + 1].rules = staged[q].rules
    /\ rulesets'[Len(rulesets) + 1].lists = staged[q].lists
    /\ rulesets'[Len(rulesets) + 1].published_by = req.actor
    /\ rules' \in [RuleIds -> Rows]
    /\ \A r \in RuleIds : /\ rules'[r].state = SeenState(q, r)
                          /\ rules'[r].expression = rules[r].expression
                          /\ rules'[r].created_by = rules[r].created_by
                          /\ rules'[r].approved_by = rules[r].approved_by
                          /\ req.subject # r => rules'[r] = rules[r]
    /\ req.op \notin {"activate", "archive"} => rules' = rules
    /\ lists' \in ListTables /\ \A n \in ListNames : lists'[n] = SeenList(q, n)

LEMMA CommitStep ==
  ASSUME IInv, NEW q \in Slots, commit_publish(q)
  PROVE  \E req, rec : Commits(q, req, rec)
  <1>1. PICK req, st : req = requests[q] /\ st = staged[q]
    OBVIOUS
  <1>2. TypeOK /\ Guarded(req) /\ req \in Requests /\ st \in Stagings /\ rulesets \in Seq(RuleSets)
    BY <1>1 DEF IInv, TypeOK
  <1>3. st.next = Len(rulesets) + 1 /\ req.op \in PublishingOps
    <2>1. st.next # 0 /\ ~ VersionTaken(st.next)
      BY <1>1 DEF commit_publish
    <2>2. st.next \in 0 .. Len(rulesets) + 1 /\ req.op \in PublishingOps
      BY <1>1, <2>1 DEF IInv, Numbered
    <2>3. \A i \in 1 .. Len(rulesets) : VersionTaken(i)
      BY <1>2 DEF IInv, VersionsContiguous, VersionTaken
    <2> QED BY <1>2, <2>1, <2>2, <2>3
  <1>4. req.actor \in Users /\ req.subject \in RuleIds \cup ListNames \cup {None} /\ req.row \in Rows
    BY <1>2, <1>3 DEF Guarded, PublishingOps, Requests
  <1>5. PublishEvent(req) \in Events
    BY <1>3 DEF PublishEvent, PublishingOps, Events
  <1>6. PICK row : row = PublishRow(req)
    OBVIOUS
  <1>7. row \in Rows /\ (req.op = "activate" => /\ row.expression = req.row.expression
                                                /\ row.approved_by = req.row.approved_by)
    <2>1. CASE req.op = "activate"
      <3>1. row = [req.row EXCEPT !.state = "active"]
        BY <1>6, <2>1 DEF PublishRow
      <3> QED BY <1>4, <3>1 DEF Rows, States
    <2>2. CASE req.op = "archive"
      <3>1. row = [req.row EXCEPT !.state = "archived"]
        BY <1>6, <2>2 DEF PublishRow
      <3> QED BY <1>4, <2>2, <3>1 DEF Rows, States
    <2>3. CASE req.op \notin {"activate", "archive"}
      <3>1. row = NoRow
        BY <1>6, <2>3 DEF PublishRow
      <3> QED BY <2>3, <3>1, IdleIsRequest
    <2> QED BY <2>1, <2>2, <2>3
  <1>8. PICK rec : /\ Logs(rec, PublishEvent(req), req.actor, req.subject, Len(rulesets) + 1)
                   /\ rec.row = row /\ rec.fresh = Fresh(req)
    <2>1. audit_append(PublishEvent(req), req.actor, req.subject, row, st.next, Fresh(req))
      BY <1>1, <1>6 DEF commit_publish
    <2>2. Fresh(req) \in BOOLEAN /\ st.next \in Nat
      BY <1>2 DEF Fresh, Stagings
    <2> QED BY <1>2, <1>3, <1>4, <1>5, <1>7, <2>1, <2>2, AppendLogs
  <1>9. (rec.fresh = TRUE /\ req.op \in RuleOps) => rules[req.subject] = req.row
    BY <1>2, <1>8 DEF Fresh, Guarded
  <1>10. Finished(q)
    BY <1>2, FinishFinishes DEF commit_publish
  <1>11. PICK new : new = [version |-> st.next, rules |-> st.rules, lists |-> st.lists,
                           published_by |-> req.actor]
    OBVIOUS
  <1>12. /\ new \in RuleSets /\ new.version = Len(rulesets) + 1 /\ new.rules = st.rules
         /\ new.lists = st.lists /\ new.published_by = req.actor
    BY <1>2, <1>3, <1>4, <1>11 DEF RuleSets, Stagings
  <1>13. rulesets' = Append(rulesets, new)
    BY <1>1, <1>11 DEF commit_publish
  <1>14. /\ rulesets' \in Seq(RuleSets) /\ Len(rulesets') = Len(rulesets) + 1
         /\ \A i \in 1 .. Len(rulesets) : rulesets'[i] = rulesets[i]
         /\ rulesets'[Len(rulesets) + 1] = new
    BY <1>2, <1>12, <1>13
  <1>15. rules' = RulesAsSeenBy(q) /\ lists' = ListsAsSeenBy(q)
    BY DEF commit_publish
  <1>16. /\ rules' \in [RuleIds -> Rows]
         /\ \A r \in RuleIds : /\ rules'[r].state = SeenState(q, r)
                               /\ rules'[r].expression = rules[r].expression
                               /\ rules'[r].created_by = rules[r].created_by
                               /\ rules'[r].approved_by = rules[r].approved_by
                               /\ req.subject # r => rules'[r] = rules[r]
         /\ req.op \notin {"activate", "archive"} => rules' = rules
    BY <1>1, <1>15, SeenRules
  <1>17. lists' \in ListTables /\ \A n \in ListNames : lists'[n] = SeenList(q, n)
    BY <1>15, SeenLists
  <1>18. rulesets'[Len(rulesets) + 1].rules = staged[q].rules /\ rulesets'[Len(rulesets) + 1].lists = staged[q].lists
    BY <1>1, <1>12, <1>14
  <1> QED BY <1>1, <1>3, <1>7, <1>8, <1>9, <1>10, <1>12, <1>14, <1>16, <1>17, <1>18 DEF Commits
-----------------------------------------------------------------------------
(* The steps, and the invariant they all preserve.                         *)

LEMMA Steps ==
  ASSUME IInv, Next
  PROVE  \/ \E a, r, e, rec : Creates(a, r, e, rec)
         \/ \E q \in Slots : \/ \E req : Loads(q, req)
                             \/ \E req, rec : Edits(q, req, rec)
                             \/ \E req, rec : Requested(q, req, rec)
                             \/ \E req, rec : Approves(q, req, rec)
                             \/ \E req, rec : Shadows(q, req, rec)
                             \/ Deletes(q)
                             \/ \E req : Stages(q, req)
                             \/ \E req, rec : Commits(q, req, rec)
                             \/ Drops(q)
  <1>1. CASE \E a \in Users, r \in RuleIds, e \in Expressions : create_draft(a, r, e)
    BY <1>1, CreateStep DEF IInv
  <1>2. ASSUME NEW q \in Slots, Load(q) PROVE \E req : Loads(q, req)
    BY <1>2, LoadIsLoads DEF IInv
  <1>3. ASSUME NEW q \in Slots, Serve(q)
        PROVE  \/ \E req, rec : Edits(q, req, rec)
               \/ \E req, rec : Requested(q, req, rec)
               \/ \E req, rec : Approves(q, req, rec)
               \/ \E req, rec : Shadows(q, req, rec)
               \/ Deletes(q)
               \/ \E req : Stages(q, req)
               \/ \E req, rec : Commits(q, req, rec)
               \/ Drops(q)
    BY <1>3, EditStep, RequestStep, ApproveStep, ShadowStep, DeleteStep, PublishStep, CommitStep,
       DropStep DEF Serve
  <1> QED BY <1>1, <1>2, <1>3 DEF Next

LEMMA GuardedPersists ==
  ASSUME NEW req, Guarded(req), VersionTaken(req.to_version) => VersionTaken(req.to_version)'
  PROVE  Guarded(req)'
  BY DEF Guarded

\* A request keeps what its guards established, since no version is ever
\* removed.
LEMMA SlotsKept ==
  ASSUME IInv, NEW p \in Slots, requests'[p] = requests[p], staged'[p] = staged[p],
         rulesets' \in Seq(RuleSets), Len(rulesets') >= Len(rulesets),
         \A i \in 1 .. Len(rulesets) : rulesets'[i] = rulesets[i]
  PROVE  Guarded(requests[p])' /\ Numbered(p)'
  <1>1. rulesets \in Seq(RuleSets)
    BY DEF IInv, TypeOK
  <1>2. ASSUME NEW v, VersionTaken(v) PROVE VersionTaken(v)'
    BY <1>1, <1>2 DEF VersionTaken
  <1>3. PICK req : req = requests[p]
    OBVIOUS
  <1>4. Guarded(req)'
    BY <1>2, <1>3, GuardedPersists DEF IInv
  <1>5. Guarded(requests[p])'
    BY <1>3, <1>4
  <1>6. Numbered(p)'
    BY <1>1 DEF IInv, Numbered
  <1> QED BY <1>5, <1>6

LEMMA IdleSlot ==
  ASSUME IInv, NEW q \in Slots, Finished(q)
  PROVE  Guarded(requests[q])' /\ (rulesets' \in Seq(RuleSets) => Numbered(q)')
  <1>1. requests'[q].op = "idle" /\ staged'[q].next = 0
    BY IdleIsRequest DEF Finished
  <1>2. Guarded(requests[q])'
    BY <1>1 DEF Guarded, RuleOps, ListOps
  <1>3. rulesets' \in Seq(RuleSets) => Numbered(q)'
    BY <1>1 DEF Numbered
  <1> QED BY <1>2, <1>3

LEMMA IInvFinished ==
  ASSUME IInv, NEW q \in Slots, Finished(q), UNCHANGED rulesets,
         rules' \in [RuleIds -> Rows], lists' \in ListTables, changes' \in Seq(Records)
  PROVE  IInv'
  <1>1. TypeOK'
    BY DEF IInv, TypeOK, Finished
  <1>2. rulesets \in Seq(RuleSets)
    BY DEF IInv, TypeOK
  <1>3. ASSUME NEW p \in Slots PROVE Guarded(requests[p])' /\ Numbered(p)'
    <2>1. CASE p = q
      BY <1>2, <2>1, IdleSlot
    <2>2. CASE p # q
      BY <1>2, <2>2, SlotsKept DEF Finished
    <2> QED BY <2>1, <2>2
  <1>4. VersionsContiguous'
    BY DEF IInv, VersionsContiguous
  <1> QED BY <1>1, <1>3, <1>4 DEF IInv

LEMMA NextIInv ==
  ASSUME IInv, [Next]_vars
  PROVE  IInv'
  <1>1. TypeOK /\ VersionsContiguous /\ rulesets \in Seq(RuleSets)
    BY DEF IInv, TypeOK
  <1>2. CASE UNCHANGED vars
    BY <1>2 DEF vars, IInv, TypeOK, Guarded, VersionTaken, Numbered, VersionsContiguous
  <1>3. ASSUME NEW a, NEW r, NEW e, NEW rec, Creates(a, r, e, rec) PROVE IInv'
    <2>1. TypeOK'
      BY <1>1, <1>3 DEF Creates, RowWrite, Logs, TypeOK
    <2>2. \A p \in Slots : Guarded(requests[p])' /\ Numbered(p)'
      BY <1>1, <1>3, SlotsKept DEF Creates
    <2>3. VersionsContiguous'
      BY <1>1, <1>3 DEF Creates, VersionsContiguous
    <2> QED BY <2>1, <2>2, <2>3 DEF IInv
  <1>4. ASSUME NEW q \in Slots, NEW req, Loads(q, req) PROVE IInv'
    <2>1. /\ requests' = [requests EXCEPT ![q] = req] /\ requests[q] = Idle /\ req \in Requests
          /\ UNCHANGED <<rules, lists, rulesets, changes, staged>> /\ Guarded(req)
      BY <1>4 DEF Loads, Begin
    <2>2. TypeOK'
      BY <1>1, <2>1 DEF TypeOK
    <2>3. ASSUME NEW p \in Slots \ {q} PROVE Guarded(requests[p])' /\ Numbered(p)'
      <3>1. requests'[p] = requests[p] /\ staged'[p] = staged[p]
        BY <1>1, <2>1 DEF TypeOK
      <3> QED BY <1>1, <2>1, <3>1, SlotsKept
    <2>4. requests'[q] = req
      BY <1>1, <2>1 DEF TypeOK
    <2>5. Guarded(requests[q])'
      <3>1. Guarded(req)'
        BY <2>1, GuardedPersists DEF VersionTaken
      <3> QED BY <2>4, <3>1
    <2>6. Numbered(q)'
      BY <2>1, IdleIsRequest DEF IInv, Numbered, PublishingOps
    <2>7. VersionsContiguous'
      BY <1>1, <2>1 DEF VersionsContiguous
    <2> QED BY <2>2, <2>3, <2>5, <2>6, <2>7 DEF IInv
  <1>5. ASSUME NEW q \in Slots, NEW req, NEW rec, Edits(q, req, rec) PROVE IInv'
    BY <1>1, <1>5, IInvFinished DEF Edits, Records0, RowWrite, Logs, TypeOK
  <1>6. ASSUME NEW q \in Slots, NEW req, NEW rec, Requested(q, req, rec) PROVE IInv'
    BY <1>1, <1>6, IInvFinished DEF Requested, Records0, Logs, TypeOK
  <1>7. ASSUME NEW q \in Slots, NEW req, NEW rec, Approves(q, req, rec) PROVE IInv'
    BY <1>1, <1>7, IInvFinished DEF Approves, Records0, RowWrite, Logs, TypeOK
  <1>8. ASSUME NEW q \in Slots, NEW req, NEW rec, Shadows(q, req, rec) PROVE IInv'
    BY <1>1, <1>8, IInvFinished DEF Shadows, Records0, RowWrite, Logs, TypeOK
  <1>9. ASSUME NEW q \in Slots, Deletes(q) \/ Drops(q) PROVE IInv'
    BY <1>1, <1>9, IInvFinished DEF Deletes, Drops, TypeOK
  <1>10. ASSUME NEW q \in Slots, NEW req, Stages(q, req) PROVE IInv'
    <2>1. TypeOK'
      BY <1>1, <1>10 DEF Stages, TypeOK
    <2>2. ASSUME NEW p \in Slots \ {q} PROVE Guarded(requests[p])' /\ Numbered(p)'
      BY <1>1, <1>10, SlotsKept DEF Stages
    <2>3. Guarded(requests[q])'
      <3>1. Guarded(req)
        BY <1>10 DEF Stages, IInv
      <3>2. Guarded(req)'
        BY <1>10, <3>1, GuardedPersists DEF Stages, VersionTaken
      <3> QED BY <1>10, <3>2 DEF Stages
    <2>4. Numbered(q)'
      BY <1>1, <1>10 DEF Stages, Numbered
    <2>5. VersionsContiguous'
      BY <1>1, <1>10 DEF Stages, VersionsContiguous
    <2> QED BY <2>1, <2>2, <2>3, <2>4, <2>5 DEF IInv
  <1>11. ASSUME NEW q \in Slots, NEW req, NEW rec, Commits(q, req, rec) PROVE IInv'
    <2>1. /\ Finished(q) /\ rulesets' \in Seq(RuleSets) /\ Len(rulesets') = Len(rulesets) + 1
          /\ \A i \in 1 .. Len(rulesets) : rulesets'[i] = rulesets[i]
          /\ rulesets'[Len(rulesets) + 1].version = Len(rulesets) + 1
          /\ Len(rulesets') >= Len(rulesets)
      BY <1>1, <1>11 DEF Commits
    <2>2. TypeOK'
      BY <1>11, <2>1 DEF Commits, Finished, Logs, TypeOK
    <2>3. ASSUME NEW p \in Slots PROVE Guarded(requests[p])' /\ Numbered(p)'
      <3>1. CASE p = q
        BY <2>1, <3>1, IdleSlot
      <3>2. CASE p # q
        BY <2>1, <3>2, SlotsKept DEF Finished
      <3> QED BY <3>1, <3>2
    <2>4. VersionsContiguous'
      BY <1>1, <2>1 DEF VersionsContiguous
    <2> QED BY <2>2, <2>3, <2>4 DEF IInv
  <1> QED BY <1>2, <1>3, <1>4, <1>5, <1>6, <1>7, <1>8, <1>9, <1>10, <1>11, Steps

LEMMA Inductive == Spec => []IInv
  BY InitIInv, NextIInv, PTL DEF Spec

\* Whatever copies the handlers worked from, the tables, the history and the
\* staged versions hold well-formed rows, entries and records: a save from a
\* stale copy, a conflict or a crash leaves no half-written row.
THEOREM TypeCorrect == Spec => []TypeOK
  BY Inductive, PTL DEF IInv
-----------------------------------------------------------------------------
(* Versions and the records that explain them.                             *)

LEMMA TrailSteps ==
  ASSUME IInv, [Next]_vars
  PROVE  \/ UNCHANGED <<changes, rulesets>>
         \/ \E rec : Logs(rec, rec.event, rec.actor, rec.subject, 0) /\ UNCHANGED rulesets
         \/ \E q \in Slots : \E req, rec : Commits(q, req, rec)
  <1>1. CASE UNCHANGED vars
    BY <1>1 DEF vars
  <1>2. ASSUME NEW a, NEW r, NEW e, NEW rec, Creates(a, r, e, rec)
        PROVE  Logs(rec, rec.event, rec.actor, rec.subject, 0) /\ UNCHANGED rulesets
    BY <1>2 DEF Creates, Logs
  <1>3. ASSUME NEW q, NEW req, NEW rec, NEW event, Records0(q, req, event, rec)
        PROVE  Logs(rec, rec.event, rec.actor, rec.subject, 0) /\ UNCHANGED rulesets
    BY <1>3 DEF Records0, Logs
  <1>4. ASSUME NEW q, NEW req, NEW rec,
               Edits(q, req, rec) \/ Requested(q, req, rec) \/ Approves(q, req, rec) \/ Shadows(q, req, rec)
        PROVE  Logs(rec, rec.event, rec.actor, rec.subject, 0) /\ UNCHANGED rulesets
    BY <1>3, <1>4 DEF Edits, Requested, Approves, Shadows
  <1>5. ASSUME NEW q, NEW req, Loads(q, req) \/ Stages(q, req) \/ Deletes(q) \/ Drops(q)
        PROVE  UNCHANGED <<changes, rulesets>>
    BY <1>5 DEF Loads, Begin, Stages, Deletes, Drops
  <1> QED BY <1>1, <1>2, <1>4, <1>5, Steps

\* The changes whose record may fail alone although they publish.
Unblocked == {"ruleset.reverted", "list.created", "list.updated"}

\* The parts of VersionsAudited, for the sequences as they are.
Explained ==
    \A v \in 1 .. Len(rulesets) :
        \E j \in 1 .. Len(changes) : /\ changes[j].ruleset_version = v
                                     /\ changes[j].actor = rulesets[v].published_by
                                     /\ changes[j].recorded = TRUE \/ changes[j].event \in Unblocked

Ordered ==
    /\ \A j \in 1 .. Len(changes) : changes[j].ruleset_version \in 0 .. Len(rulesets)
    /\ \A i, j \in 1 .. Len(changes) :
        (i < j /\ changes[i].ruleset_version # 0 /\ changes[j].ruleset_version # 0)
            => changes[i].ruleset_version < changes[j].ruleset_version

LEMMA ExplainedStep ==
  ASSUME IInv, Explained, Ordered, [Next]_vars
  PROVE  Explained' /\ Ordered'
  <1>1. changes \in Seq(Records) /\ rulesets \in Seq(RuleSets)
    BY DEF IInv, TypeOK
  <1>2. CASE UNCHANGED <<changes, rulesets>>
    BY <1>2 DEF Explained, Ordered
  <1>3. ASSUME NEW rec, Logs(rec, rec.event, rec.actor, rec.subject, 0), UNCHANGED rulesets
        PROVE  Explained' /\ Ordered'
    <2>1. Explained'
      <3>1. \A i \in 1 .. Len(changes) : i \in 1 .. Len(changes') /\ changes'[i] = changes[i]
        BY <1>1, <1>3 DEF Logs
      <3>2. ASSUME NEW v \in 1 .. Len(rulesets)
            PROVE  \E j \in 1 .. Len(changes') :
                      /\ changes'[j].ruleset_version = v
                      /\ changes'[j].actor = rulesets[v].published_by
                      /\ changes'[j].recorded = TRUE \/ changes'[j].event \in Unblocked
        <4>1. PICK j \in 1 .. Len(changes) :
                 /\ changes[j].ruleset_version = v
                 /\ changes[j].actor = rulesets[v].published_by
                 /\ changes[j].recorded = TRUE \/ changes[j].event \in Unblocked
          BY DEF Explained
        <4>2. j \in 1 .. Len(changes') /\ changes'[j] = changes[j]
          BY <3>1
        <4> QED BY <4>1, <4>2
      <3> QED BY <1>3, <3>2 DEF Explained, Unblocked
    <2>2. Ordered'
      <3>1. /\ Len(changes') = Len(changes) + 1 /\ Len(changes) \in Nat /\ Len(rulesets) \in Nat
            /\ \A i \in 1 .. Len(changes) : changes'[i] = changes[i]
            /\ changes'[Len(changes) + 1].ruleset_version = 0
        BY <1>1, <1>3 DEF Logs
      <3>2. \A j \in 1 .. Len(changes') : j \in 1 .. Len(changes) \/ j = Len(changes) + 1
        BY <3>1
      <3>3. \A j \in 1 .. Len(changes') : changes'[j].ruleset_version \in 0 .. Len(rulesets)
        BY <3>1, <3>2 DEF Ordered
      <3> QED BY <1>3, <3>1, <3>2, <3>3 DEF Ordered
    <2> QED BY <2>1, <2>2
  <1>4. ASSUME NEW q \in Slots, NEW req, NEW rec, Commits(q, req, rec)
        PROVE  Explained' /\ Ordered'
    <2>1. /\ Len(changes') = Len(changes) + 1 /\ Len(rulesets') = Len(rulesets) + 1
          /\ \A i \in 1 .. Len(changes) : changes'[i] = changes[i]
          /\ \A i \in 1 .. Len(rulesets) : rulesets'[i] = rulesets[i]
          /\ changes'[Len(changes) + 1].ruleset_version = Len(rulesets) + 1
          /\ changes'[Len(changes) + 1].actor = rulesets'[Len(rulesets) + 1].published_by
          /\ \/ changes'[Len(changes) + 1].recorded = TRUE
             \/ changes'[Len(changes) + 1].event \notin AllOrNothing
          /\ changes'[Len(changes) + 1].event = PublishEvent(req) /\ req.op \in PublishingOps
      BY <1>4 DEF Commits, Logs
    <2>6. PublishEvent(req) \in AllOrNothing \cup Unblocked
      BY <2>1 DEF PublishEvent, PublishingOps, AllOrNothing, Unblocked
    <2>2. Len(changes) \in Nat /\ Len(rulesets) \in Nat
      BY <1>1
    <2>3. /\ \A j \in 1 .. Len(changes') : j \in 1 .. Len(changes) \/ j = Len(changes) + 1
          /\ \A v \in 1 .. Len(rulesets') : v \in 1 .. Len(rulesets) \/ v = Len(rulesets) + 1
          /\ \A j \in 1 .. Len(changes) : j \in 1 .. Len(changes') /\ j < Len(changes) + 1
          /\ Len(changes) + 1 \in 1 .. Len(changes') /\ Len(rulesets) + 1 # 0
          /\ \A n \in 0 .. Len(rulesets) : n < Len(rulesets) + 1 /\ n \in 0 .. Len(rulesets')
          /\ Len(rulesets) + 1 \in 0 .. Len(rulesets')
      BY <2>1, <2>2
    <2>5. Explained'
      <3>1. ASSUME NEW v \in 1 .. Len(rulesets)
            PROVE  \E j \in 1 .. Len(changes') :
                      /\ changes'[j].ruleset_version = v
                      /\ changes'[j].actor = rulesets'[v].published_by
                      /\ changes'[j].recorded = TRUE \/ changes'[j].event \in Unblocked
        <4>1. PICK j \in 1 .. Len(changes) :
                 /\ changes[j].ruleset_version = v
                 /\ changes[j].actor = rulesets[v].published_by
                 /\ changes[j].recorded = TRUE \/ changes[j].event \in Unblocked
          BY DEF Explained
        <4>2. j \in 1 .. Len(changes') /\ changes'[j] = changes[j] /\ rulesets'[v] = rulesets[v]
          BY <2>1, <2>3
        <4> QED BY <4>1, <4>2
      <3>2. \E j \in 1 .. Len(changes') :
               /\ changes'[j].ruleset_version = Len(rulesets) + 1
               /\ changes'[j].actor = rulesets'[Len(rulesets) + 1].published_by
               /\ changes'[j].recorded = TRUE \/ changes'[j].event \in Unblocked
        BY <2>1, <2>3, <2>6
      <3> QED BY <2>3, <3>1, <3>2 DEF Explained
    <2>4. Ordered'
      <3>1. \A j \in 1 .. Len(changes') : changes'[j].ruleset_version \in 0 .. Len(rulesets')
        BY <2>1, <2>3 DEF Ordered
      <3>2. ASSUME NEW i \in 1 .. Len(changes'), NEW j \in 1 .. Len(changes'), i < j,
                   changes'[i].ruleset_version # 0, changes'[j].ruleset_version # 0
            PROVE  changes'[i].ruleset_version < changes'[j].ruleset_version
        <4>1. i \in 1 .. Len(changes)
          BY <2>1, <2>2, <3>2
        <4>2. CASE j \in 1 .. Len(changes)
          BY <2>1, <3>2, <4>1, <4>2 DEF Ordered
        <4>3. CASE j = Len(changes) + 1
          BY <2>1, <2>3, <4>1, <4>3 DEF Ordered
        <4> QED BY <2>3, <4>2, <4>3
      <3> QED BY <3>1, <3>2 DEF Ordered
    <2> QED BY <2>4, <2>5
  <1> QED BY <1>2, <1>3, <1>4, TrailSteps

LEMMA ExplainedInductive == Spec => [](Explained /\ Ordered)
  <1>1. Init => Explained /\ Ordered
    BY DEF Init, Explained, Ordered
  <1> QED BY <1>1, ExplainedStep, Inductive, PTL DEF Spec

\* Any number of publishers may have read the same latest version: the unique
\* constraint lets one of them insert it.  Whatever appends fail, no record
\* names a version that is not there or one that another record names, the
\* records come in the order of the versions, and a version without its record
\* is a revert's or a list change's: activate and archive roll back with it.
THEOREM VersionsExplained == Spec => []VersionsAudited
  <1>1. IInv /\ Explained /\ Ordered => VersionsAudited
    <2> SUFFICES ASSUME IInv, Explained, Ordered PROVE VersionsAudited
      OBVIOUS
    <2>1. DOMAIN changes = 1 .. Len(changes) /\ DOMAIN rulesets = 1 .. Len(rulesets)
          /\ Len(rulesets) \in Nat
      BY DEF IInv, TypeOK
    <2>2. ASSUME NEW v \in DOMAIN rulesets
          PROVE  \E j \in {j \in DOMAIN changes : changes[j].ruleset_version # 0} :
                    /\ changes[j].ruleset_version = v /\ changes[j].actor = rulesets[v].published_by
                    /\ changes[j].recorded \/ changes[j].event \in Unblocked
      BY <2>1, <2>2 DEF Explained
    <2>3. \A j \in {j \in DOMAIN changes : changes[j].ruleset_version # 0} :
             changes[j].ruleset_version \in DOMAIN rulesets
      BY <2>1 DEF Ordered
    <2>4. \A i, j \in {j \in DOMAIN changes : changes[j].ruleset_version # 0} :
             i < j => changes[i].ruleset_version < changes[j].ruleset_version
      BY <2>1 DEF Ordered
    <2> QED BY <2>2, <2>3, <2>4 DEF VersionsAudited, Unblocked, IInv
  <1> QED BY <1>1, Inductive, ExplainedInductive, PTL
-----------------------------------------------------------------------------
(* Approvals.  A copy may be stale, but the approval it shows was given    *)
(* once, and its author is still the author.                               *)

ApprovedBefore(n, r, u) ==
    \E i \in 1 .. n : /\ changes[i].event = "rule.approved"
                      /\ changes[i].subject = r /\ changes[i].actor = u

\* u, who is not the author of r, has approved r.
Approved(r, u) == ApprovedBefore(Len(changes), r, u) /\ u # rules[r].created_by

Authored(r) ==
    /\ rules[r] # NoRow => rules[r].created_by # None
    /\ rules[r].approved_by # None => rules[r].created_by # None /\ Approved(r, rules[r].approved_by)

CopyApproved(req) ==
    req.op \in RuleOps =>
        /\ req.row.created_by = rules[req.subject].created_by
        /\ req.row.created_by # None
        /\ req.row.approved_by # None => Approved(req.subject, req.row.approved_by)

Claim(j) ==
    changes[j].event \in Activations =>
        /\ changes[j].subject \in RuleIds /\ rules[changes[j].subject].created_by # None
        /\ \/ /\ ApprovedBefore(j - 1, changes[j].subject, changes[j].row.approved_by)
              /\ changes[j].row.approved_by # rules[changes[j].subject].created_by
           \/ /\ changes[j].event = "rule.emergency_activated"
              /\ may(changes[j].actor, "emergency_override")

ApprovalInv ==
    /\ \A r \in RuleIds : Authored(r)
    /\ \A q \in Slots : CopyApproved(requests[q])
    /\ \A j \in 1 .. Len(changes) : Claim(j)

\* A step that forgets no record and changes no author.
Remembers ==
    /\ changes' \in Seq(Records) /\ Len(changes') >= Len(changes)
    /\ \A i \in 1 .. Len(changes) : changes'[i] = changes[i]
    /\ \A r \in RuleIds : rules[r].created_by # None => rules'[r].created_by = rules[r].created_by

LEMMA ApprovalsKept ==
  ASSUME IInv, ApprovalInv, Remembers
  PROVE  /\ \A r \in RuleIds : \A u : rules[r].created_by # None /\ Approved(r, u) => Approved(r, u)'
         /\ \A j \in 1 .. Len(changes) : Claim(j)'
         /\ \A req : req \in Requests /\ Guarded(req) /\ CopyApproved(req) => CopyApproved(req)'
  <1>1. changes \in Seq(Records) /\ Len(changes) \in Nat /\ Len(changes') \in Nat
    BY DEF IInv, TypeOK, Remembers
  <1>2. ASSUME NEW n \in 0 .. Len(changes), NEW r, NEW u, ApprovedBefore(n, r, u),
               NEW m \in Nat, n <= m
        PROVE  ApprovedBefore(m, r, u)'
    BY <1>1, <1>2 DEF ApprovedBefore, Remembers
  <1>3. ASSUME NEW r \in RuleIds, NEW u, rules[r].created_by # None, Approved(r, u)
        PROVE  Approved(r, u)'
    <2>1. ApprovedBefore(Len(changes), r, u) /\ u # rules[r].created_by
      BY <1>3 DEF Approved
    <2>2. ApprovedBefore(Len(changes), r, u)'
      <3>1. PICK m : m = Len(changes')
        OBVIOUS
      <3>2. Len(changes) <= m /\ m \in Nat /\ Len(changes) \in 0 .. Len(changes)
        BY <1>1, <3>1 DEF Remembers
      <3>3. ApprovedBefore(m, r, u)'
        BY <1>2, <2>1, <3>2
      <3> QED BY <3>1, <3>3
    <2>3. u # rules'[r].created_by
      BY <1>3, <2>1 DEF Remembers
    <2> QED BY <2>2, <2>3 DEF Approved
  <1>4. ASSUME NEW j \in 1 .. Len(changes) PROVE Claim(j)'
    <2>1. changes'[j] = changes[j] /\ j - 1 \in 0 .. Len(changes)
      BY <1>1 DEF Remembers
    <2>2. SUFFICES ASSUME changes[j].event \in Activations PROVE Claim(j)'
      BY <2>1 DEF Claim
    <2>3. PICK s, u : s = changes[j].subject /\ u = changes[j].row.approved_by
      OBVIOUS
    <2>4. /\ s \in RuleIds /\ rules[s].created_by # None
          /\ \/ ApprovedBefore(j - 1, s, u) /\ u # rules[s].created_by
             \/ /\ changes[j].event = "rule.emergency_activated"
                /\ may(changes[j].actor, "emergency_override")
      BY <2>2, <2>3 DEF ApprovalInv, Claim
    <2>5. rules'[s].created_by = rules[s].created_by
      BY <2>4 DEF Remembers
    <2>6. \/ ApprovedBefore(j - 1, s, u)' /\ u # rules'[s].created_by
          \/ /\ changes'[j].event = "rule.emergency_activated"
             /\ may(changes'[j].actor, "emergency_override")
      BY <1>1, <1>2, <2>1, <2>4, <2>5
    <2>7. s = changes'[j].subject /\ u = changes'[j].row.approved_by
      BY <2>1, <2>3
    <2> QED BY <2>4, <2>5, <2>6, <2>7 DEF Claim, ApprovedBefore, may
  <1>5. ASSUME NEW req \in Requests, Guarded(req), CopyApproved(req) PROVE CopyApproved(req)'
    <2>1. SUFFICES ASSUME req.op \in RuleOps PROVE CopyApproved(req)'
      BY DEF CopyApproved
    <2>2. PICK s, u : s = req.subject /\ u = req.row.approved_by
      OBVIOUS
    <2>3. s \in RuleIds
      BY <1>5, <2>1, <2>2 DEF Guarded
    <2>4. /\ req.row.created_by = rules[s].created_by /\ req.row.created_by # None
          /\ u # None => Approved(s, u)
      BY <1>5, <2>1, <2>2 DEF CopyApproved
    <2>5. rules'[s].created_by = rules[s].created_by
      BY <2>3, <2>4 DEF Remembers
    <2>6. u # None => Approved(s, u)'
      BY <1>3, <2>3, <2>4
    <2> QED BY <2>2, <2>4, <2>5, <2>6 DEF CopyApproved
  <1> QED BY <1>3, <1>4, <1>5
LEMMA RowApproved ==
  ASSUME IInv, ApprovalInv, Remembers, NEW r \in RuleIds, Authored(r),
         rules'[r].created_by = rules[r].created_by, rules'[r].approved_by = rules[r].approved_by,
         rules[r] # NoRow \/ rules'[r] = rules[r]
  PROVE  Authored(r)'
  <1>1. PICK u : u = rules[r].approved_by
    OBVIOUS
  <1>2. u # None => Approved(r, u)'
    BY <1>1, ApprovalsKept DEF Authored
  <1> QED BY <1>1, <1>2 DEF Authored

LEMMA CopiesApproved ==
  ASSUME IInv, ApprovalInv, Remembers, NEW p \in Slots, requests'[p] = requests[p]
  PROVE  CopyApproved(requests[p])'
  <1>1. PICK req : req = requests[p]
    OBVIOUS
  <1>2. req \in Requests /\ Guarded(req) /\ CopyApproved(req)
    BY <1>1 DEF IInv, TypeOK, ApprovalInv
  <1>3. CopyApproved(req)'
    BY <1>2, ApprovalsKept
  <1> QED BY <1>1, <1>3

LEMMA FinishedApproved ==
  ASSUME IInv, ApprovalInv, Remembers, NEW q \in Slots, Finished(q),
         \A r \in RuleIds : Authored(r)',
         \A j \in Len(changes) + 1 .. Len(changes') : Claim(j)'
  PROVE  ApprovalInv'
  <1>1. ASSUME NEW p \in Slots PROVE CopyApproved(requests[p])'
    <2>1. CASE p = q
      BY <2>1, IdleIsRequest DEF Finished, CopyApproved, RuleOps
    <2>2. CASE p # q
      BY <2>2, CopiesApproved DEF Finished
    <2> QED BY <2>1, <2>2
  <1>2. ASSUME NEW j \in 1 .. Len(changes') PROVE Claim(j)'
    <2>1. j \in 1 .. Len(changes) \/ j \in Len(changes) + 1 .. Len(changes')
      BY DEF IInv, TypeOK, Remembers
    <2> QED BY <2>1, ApprovalsKept
  <1> QED BY <1>1, <1>2 DEF ApprovalInv

LEMMA NoClaim ==
  ASSUME IInv, NEW rec, NEW event, NEW a, NEW s, NEW v, Logs(rec, event, a, s, v),
         event \notin Activations
  PROVE  \A j \in Len(changes) + 1 .. Len(changes') : Claim(j)'
  <1>1. /\ Len(changes') = Len(changes) + 1 /\ Len(changes) \in Nat
        /\ changes'[Len(changes) + 1].event \notin Activations
    BY DEF Logs, IInv, TypeOK
  <1>2. ASSUME NEW j \in Len(changes) + 1 .. Len(changes') PROVE changes'[j].event \notin Activations
    BY <1>1
  <1> QED BY <1>2 DEF Claim

LEMMA ApprovalRecorded ==
  ASSUME IInv, ApprovalInv, NEW q \in Slots, NEW req, NEW rec,
         Edits(q, req, rec) \/ Approves(q, req, rec) \/ Shadows(q, req, rec)
  PROVE  ApprovalInv'
  <1>1. req = requests[q] /\ req.op \in RuleOps /\ Guarded(req) /\ req \in Requests
    BY DEF Edits, Approves, Shadows, Records0, RuleOps, IInv, TypeOK
  <1>2. PICK s : s = req.subject
    OBVIOUS
  <1>3. /\ s \in RuleIds /\ req.actor \in Users /\ req.row.created_by = rules[s].created_by
        /\ rules[s].created_by # None /\ rules[s] # NoRow
    <2>1. CopyApproved(req)
      BY <1>1 DEF ApprovalInv
    <2>2. NoRow.created_by = None
      BY DEF NoRow
    <2> QED BY <1>1, <1>2, <2>1, <2>2 DEF CopyApproved, Guarded, RuleOps
  <1>4. PICK event, state, expression, approved_by :
           /\ Records0(q, req, event, rec)
           /\ RowWrite(s, state, expression, rules[s].created_by, approved_by)
           /\ event \notin Activations
           /\ \/ approved_by = None
              \/ approved_by = rules[s].approved_by
              \/ event = "rule.approved" /\ req.op = "approve" /\ approved_by = req.actor
    <2>1. ASSUME Edits(q, req, rec)
          PROVE  /\ Records0(q, req, "rule.edited", rec)
                 /\ RowWrite(s, req.row.state, req.expression, rules[s].created_by, None)
      BY <1>2, <1>3, <2>1 DEF Edits
    <2>2. ASSUME Approves(q, req, rec)
          PROVE  /\ Records0(q, req, "rule.approved", rec) /\ req.op = "approve"
                 /\ RowWrite(s, rules[s].state, rules[s].expression, rules[s].created_by, req.actor)
      BY <1>2, <2>2 DEF Approves
    <2>3. ASSUME Shadows(q, req, rec)
          PROVE  /\ Records0(q, req, "rule.shadowed", rec)
                 /\ RowWrite(s, "shadow", rules[s].expression, rules[s].created_by, rules[s].approved_by)
      BY <1>2, <2>3 DEF Shadows
    <2> QED BY <2>1, <2>2, <2>3 DEF Activations
  <1>5. Remembers
    <2>1. \A r \in RuleIds : rules'[r].created_by = rules[r].created_by
      BY <1>4 DEF RowWrite
    <2>2. /\ changes' \in Seq(Records) /\ Len(changes') >= Len(changes)
          /\ \A i \in 1 .. Len(changes) : changes'[i] = changes[i]
      BY <1>4 DEF Records0, Logs, IInv, TypeOK
    <2> QED BY <2>1, <2>2 DEF Remembers
  <1>6. Finished(q) /\ Logs(rec, event, req.actor, s, 0)
    BY <1>2, <1>4 DEF Records0
  <1>7. ASSUME NEW r \in RuleIds PROVE Authored(r)'
    <2>1. CASE r # s
      BY <1>4, <1>5, <2>1, RowApproved DEF RowWrite, ApprovalInv
    <2>2. CASE r = s /\ approved_by = None
      BY <1>3, <1>4, <2>2 DEF RowWrite, Authored
    <2>3. CASE r = s /\ approved_by = rules[s].approved_by
      BY <1>3, <1>4, <1>5, <2>3, RowApproved DEF RowWrite, ApprovalInv
    <2>4. CASE r = s /\ event = "rule.approved" /\ req.op = "approve" /\ approved_by = req.actor
      <3>1. PICK u : u = req.actor
        OBVIOUS
      <3>2. /\ changes'[Len(changes) + 1].event = "rule.approved" /\ changes'[Len(changes) + 1].subject = s
            /\ changes'[Len(changes) + 1].actor = u /\ Len(changes) + 1 \in 1 .. Len(changes')
        BY <1>6, <2>4, <3>1 DEF Logs, IInv, TypeOK
      <3>3. u # rules'[s].created_by /\ rules'[s].approved_by = u /\ rules'[s].created_by # None
        BY <1>1, <1>3, <1>4, <2>4, <3>1 DEF RowWrite, Guarded
      <3>4. Approved(s, u)'
        BY <3>2, <3>3 DEF Approved, ApprovedBefore
      <3> QED BY <2>4, <3>3, <3>4 DEF Authored
    <2> QED BY <1>4, <2>1, <2>2, <2>3, <2>4
  <1>8. \A j \in Len(changes) + 1 .. Len(changes') : Claim(j)'
    BY <1>4, <1>6, NoClaim
  <1> QED BY <1>5, <1>6, <1>7, <1>8, FinishedApproved

LEMMA ApprovalUnwritten ==
  ASSUME IInv, ApprovalInv, NEW q \in Slots, Finished(q), UNCHANGED rules,
         changes' = changes \/ \E req, rec : Requested(q, req, rec)
  PROVE  ApprovalInv'
  <1>0. changes \in Seq(Records)
    BY DEF IInv, TypeOK
  <1>1. Remembers
    <2>1. CASE changes' = changes
      BY <1>0, <2>1 DEF Remembers
    <2>2. ASSUME NEW req, NEW rec, Requested(q, req, rec) PROVE Remembers
      BY <1>0, <2>2 DEF Requested, Records0, Logs, Remembers
    <2> QED BY <2>1, <2>2
  <1>2. \A r \in RuleIds : Authored(r)'
    BY <1>1, RowApproved DEF ApprovalInv
  <1>3. CASE changes' = changes
    <2>1. ~ \E j : j \in Len(changes) + 1 .. Len(changes')
      BY <1>3 DEF IInv, TypeOK
    <2> QED BY <1>1, <1>2, <2>1, FinishedApproved
  <1>4. ASSUME NEW req, NEW rec, Requested(q, req, rec) PROVE ApprovalInv'
    <2>1. Logs(rec, "rule.approval_requested", req.actor, req.subject, 0)
      BY <1>4 DEF Requested, Records0
    <2>2. \A j \in Len(changes) + 1 .. Len(changes') : Claim(j)'
      BY <2>1, NoClaim DEF Activations
    <2> QED BY <1>1, <1>2, <2>2, FinishedApproved
  <1> QED BY <1>3, <1>4
LEMMA ApprovalCommitted ==
  ASSUME IInv, ApprovalInv, NEW q \in Slots, NEW req, NEW rec, Commits(q, req, rec)
  PROVE  ApprovalInv'
  <1>1. req = requests[q] /\ Guarded(req) /\ CopyApproved(req) /\ req.op \in PublishingOps /\ Finished(q)
    BY DEF Commits, IInv, ApprovalInv
  <1>2. PICK s, n : s = req.subject /\ n = Len(changes)
    OBVIOUS
  <1>3. /\ n \in Nat /\ Len(changes') = n + 1 /\ changes' \in Seq(Records)
        /\ \A i \in 1 .. n : changes'[i] = changes[i]
        /\ changes'[n + 1] = rec /\ rec.event = PublishEvent(req) /\ rec.actor = req.actor /\ rec.subject = s
    BY <1>2 DEF Commits, Logs, IInv, TypeOK
  <1>4. \A r \in RuleIds : /\ rules'[r].created_by = rules[r].created_by
                           /\ rules'[r].approved_by = rules[r].approved_by
    BY DEF Commits
  <1>5. Remembers
    BY <1>2, <1>3, <1>4 DEF Remembers
  <1>6. ASSUME NEW r \in RuleIds PROVE Authored(r)'
    <2>1. rules[r] # NoRow \/ rules'[r] = rules[r]
      <3>1. CASE req.op \in {"activate", "archive"} /\ r = s
        <4>1. rules[s].created_by # None
          BY <1>1, <1>2, <3>1 DEF CopyApproved, RuleOps
        <4> QED BY <3>1, <4>1 DEF NoRow
      <3>2. CASE req.op \notin {"activate", "archive"} \/ r # s
        BY <1>2, <3>2 DEF Commits
      <3> QED BY <3>1, <3>2
    <2> QED BY <1>4, <1>5, <2>1, RowApproved DEF ApprovalInv
  <1>7. Claim(n + 1)'
    <2>1. CASE req.op # "activate"
      <3>1. rec.event \notin Activations
        BY <1>1, <1>3, <2>1 DEF PublishEvent, PublishingOps, Activations
      <3> QED BY <1>3, <3>1 DEF Claim
    <2>2. CASE req.op = "activate"
      <3>1. PICK u : u = req.row.approved_by
        OBVIOUS
      <3>2. /\ s \in RuleIds /\ rules[s].created_by # None
            /\ u # None => Approved(s, u)
            /\ may_activate(req.actor, req.row, req.emergency)
        BY <1>1, <1>2, <2>2, <3>1 DEF CopyApproved, Guarded, RuleOps
      <3>3. rec.row.approved_by = u
        BY <2>2, <3>1 DEF Commits
      <3>4. CASE u # None
        <4>1. ApprovedBefore(n, s, u) /\ u # rules'[s].created_by
          BY <1>2, <1>4, <3>2, <3>4 DEF Approved
        <4>2. ApprovedBefore(n, s, u)'
          BY <1>3, <4>1 DEF ApprovedBefore
        <4>3. n + 1 - 1 = n
          BY <1>3
        <4> QED BY <1>3, <1>4, <3>2, <3>3, <4>1, <4>2, <4>3 DEF Claim
      <3>5. CASE u = None
        <4>1. req.emergency /\ may(req.actor, "emergency_override")
          BY <3>1, <3>2, <3>5 DEF may_activate
        <4>2. rec.event = "rule.emergency_activated"
          BY <1>3, <2>2, <4>1 DEF PublishEvent
        <4> QED BY <1>3, <1>4, <3>2, <4>1, <4>2 DEF Claim, may
      <3> QED BY <3>4, <3>5
    <2> QED BY <2>1, <2>2
  <1>8. \A j \in Len(changes) + 1 .. Len(changes') : Claim(j)'
    BY <1>2, <1>3, <1>7
  <1> QED BY <1>1, <1>5, <1>6, <1>8, FinishedApproved

LEMMA ApprovalStep ==
  ASSUME IInv, ApprovalInv, [Next]_vars
  PROVE  ApprovalInv'
  <1>0. changes \in Seq(Records)
    BY DEF IInv, TypeOK
  <1>1. CASE UNCHANGED vars
    BY <1>1 DEF vars, ApprovalInv, Authored, CopyApproved, Claim, Approved, ApprovedBefore
  <1>2. ASSUME NEW a, NEW r, NEW e, NEW rec, Creates(a, r, e, rec) PROVE ApprovalInv'
    <2>1. Remembers
      BY <1>0, <1>2 DEF Creates, RowWrite, Logs, Remembers, NoRow
    <2>2. ASSUME NEW x \in RuleIds PROVE Authored(x)'
      <3>1. CASE x = r
        BY <1>2, <3>1, NoneIsNoValue DEF Creates, RowWrite, Authored
      <3>2. CASE x # r
        BY <1>2, <2>1, <3>2, RowApproved DEF Creates, RowWrite, ApprovalInv
      <3> QED BY <3>1, <3>2
    <2>3. \A p \in Slots : CopyApproved(requests[p])'
      BY <1>2, <2>1, CopiesApproved DEF Creates
    <2>4. \A j \in 1 .. Len(changes') : j \in 1 .. Len(changes) \/ j \in Len(changes) + 1 .. Len(changes')
      BY <1>0, <2>1 DEF Remembers
    <2>5. \A j \in Len(changes) + 1 .. Len(changes') : Claim(j)'
      BY <1>2, NoClaim DEF Creates, Activations
    <2>6. \A j \in 1 .. Len(changes') : Claim(j)'
      BY <2>1, <2>4, <2>5, ApprovalsKept
    <2> QED BY <2>2, <2>3, <2>6 DEF ApprovalInv
  <1>3. ASSUME NEW q \in Slots, NEW req, Loads(q, req) PROVE ApprovalInv'
    <2>1. /\ requests' = [requests EXCEPT ![q] = req] /\ UNCHANGED <<rules, changes>>
          /\ requests \in [Slots -> Requests]
          /\ req.op \in RuleOps => /\ req.row = rules[req.subject] /\ req.row # NoRow
                                   /\ req.subject \in RuleIds
      BY <1>3 DEF Loads, Begin, Guarded, IInv, TypeOK
    <2>2. Remembers
      BY <1>0, <2>1 DEF Remembers
    <2>3. CopyApproved(req)
      BY <2>1 DEF ApprovalInv, Authored, CopyApproved
    <2>4. CopyApproved(req)'
      BY <2>1, <2>3 DEF CopyApproved, Approved, ApprovedBefore
    <2>5. ASSUME NEW p \in Slots PROVE CopyApproved(requests[p])'
      <3>1. CASE p = q
        <4>1. requests'[p] = req
          BY <2>1, <3>1
        <4> QED BY <2>4, <4>1
      <3>2. CASE p # q
        BY <2>1, <2>2, <3>2, CopiesApproved
      <3> QED BY <3>1, <3>2
    <2>6. (\A r \in RuleIds : Authored(r)') /\ \A j \in 1 .. Len(changes') : Claim(j)'
      BY <2>1 DEF ApprovalInv, Authored, Claim, Approved, ApprovedBefore
    <2> QED BY <2>5, <2>6 DEF ApprovalInv
  <1>4. ASSUME NEW q \in Slots, NEW req, Stages(q, req) PROVE ApprovalInv'
    BY <1>4 DEF Stages, ApprovalInv, Authored, CopyApproved, Claim, Approved, ApprovedBefore
  <1>5. ASSUME NEW q \in Slots, NEW req, NEW rec,
               Edits(q, req, rec) \/ Approves(q, req, rec) \/ Shadows(q, req, rec)
        PROVE  ApprovalInv'
    BY <1>5, ApprovalRecorded
  <1>6. ASSUME NEW q \in Slots, NEW req, NEW rec, Requested(q, req, rec) PROVE ApprovalInv'
    BY <1>6, ApprovalUnwritten DEF Requested, Records0
  <1>7. ASSUME NEW q \in Slots, Deletes(q) \/ Drops(q) PROVE ApprovalInv'
    BY <1>7, ApprovalUnwritten DEF Deletes, Drops
  <1>8. ASSUME NEW q \in Slots, NEW req, NEW rec, Commits(q, req, rec) PROVE ApprovalInv'
    BY <1>8, ApprovalCommitted
  <1> QED BY <1>1, <1>2, <1>3, <1>4, <1>5, <1>6, <1>7, <1>8, Steps

LEMMA ApprovalInductive == Spec => []ApprovalInv
  <1>1. Init => ApprovalInv
    BY DEF Init, ApprovalInv, Authored, CopyApproved, NoRow, Idle, RuleOps
  <1> QED BY <1>1, ApprovalStep, Inductive, PTL DEF Spec

\* The four-eyes rule holds whatever copies the handlers worked from: an
\* activation follows the approval it claims, by somebody other than the
\* rule's author, or it is an emergency activation by a role that may override.
THEOREM FourEyes == Spec => []ActivationApproved
  <1>1. IInv /\ ApprovalInv => ActivationApproved
    <2> SUFFICES ASSUME IInv, ApprovalInv, NEW j \in DOMAIN changes, changes[j].event \in Activations
                 PROVE  \/ \E i \in 1 .. j - 1 : /\ changes[i].event = "rule.approved"
                                                 /\ changes[i].subject = changes[j].subject
                                                 /\ changes[i].actor = changes[j].row.approved_by
                                                 /\ changes[i].actor # rules[changes[j].subject].created_by
                        \/ /\ changes[j].event = "rule.emergency_activated"
                           /\ may(changes[j].actor, "emergency_override")
      BY DEF ActivationApproved
    <2>1. DOMAIN changes = 1 .. Len(changes)
      BY DEF IInv, TypeOK
    <2>2. Claim(j)
      BY <2>1 DEF ApprovalInv
    <2> QED BY <2>2 DEF Claim, ApprovedBefore
  <1> QED BY <1>1, Inductive, ApprovalInductive, PTL
-----------------------------------------------------------------------------
(* What a step that publishes nothing may do to the table.                 *)

\* The record just written says that r was edited or shadowed.
TouchedNow(r) ==
    /\ Len(changes') = Len(changes) + 1
    /\ changes'[Len(changes) + 1].subject = r
    /\ changes'[Len(changes) + 1].event \in {"rule.shadowed", "rule.edited"}

Extends0 ==
    /\ changes' \in Seq(Records) /\ Len(changes') >= Len(changes)
    /\ \A i \in 1 .. Len(changes) : changes'[i] = changes[i]
    /\ \A i \in Len(changes) + 1 .. Len(changes') :
          changes'[i].ruleset_version = 0 /\ changes'[i].event \notin Activations

\* A row changes what it says only together with a record of it, or from
\* absent to draft.
TableQuiet ==
    \A r \in RuleIds :
        \/ rules'[r].state = rules[r].state /\ rules'[r].expression = rules[r].expression
        \/ TouchedNow(r) /\ rules'[r].state \in Editable
        \/ rules[r] = NoRow /\ rules'[r].state = "draft"

Quiet ==
    /\ Extends0 /\ TableQuiet /\ UNCHANGED rulesets
    /\ \A n \in ListNames : lists'[n] \in {lists[n], None}
    /\ \A p \in Slots : \/ requests'[p] = requests[p] /\ staged'[p] = staged[p]
                        \/ staged'[p].next = 0

LEMMA LogExtends ==
  ASSUME IInv, NEW rec, NEW event, NEW a, NEW s, Logs(rec, event, a, s, 0), event \notin Activations
  PROVE  /\ Extends0
         /\ event \in {"rule.shadowed", "rule.edited"} => TouchedNow(s)
  <1>1. Len(changes) \in Nat
    BY DEF IInv, TypeOK
  <1>2. \A i \in Len(changes) + 1 .. Len(changes') : i = Len(changes) + 1
    BY <1>1 DEF Logs
  <1> QED BY <1>1, <1>2 DEF Logs, Extends0, TouchedNow

LEMMA SameTrailExtends ==
  ASSUME IInv, changes' = changes
  PROVE  Extends0
  BY DEF IInv, TypeOK, Extends0

LEMMA QuietSteps ==
  ASSUME IInv, [Next]_vars
  PROVE  \/ Quiet
         \/ \E q \in Slots : \E req : Stages(q, req)
         \/ \E q \in Slots : \E req, rec : Commits(q, req, rec)
  <1>1. CASE UNCHANGED vars
    BY <1>1, SameTrailExtends DEF vars, Quiet, TableQuiet
  <1>2. ASSUME NEW a, NEW r, NEW e, NEW rec, Creates(a, r, e, rec) PROVE Quiet
    <2>1. Extends0
      BY <1>2, LogExtends DEF Creates, Activations
    <2>2. TableQuiet
      BY <1>2 DEF Creates, RowWrite, TableQuiet
    <2> QED BY <1>2, <2>1, <2>2 DEF Creates, Quiet
  <1>3. ASSUME NEW q \in Slots, NEW req, Loads(q, req) PROVE Quiet
    <2>1. /\ requests' = [requests EXCEPT ![q] = req] /\ requests[q] = Idle
          /\ UNCHANGED <<rules, lists, rulesets, changes, staged>>
      BY <1>3 DEF Loads, Begin
    <2>2. staged[q].next = 0
      BY <2>1, IdleIsRequest DEF IInv, Numbered, PublishingOps
    <2>3. \A p \in Slots : (requests'[p] = requests[p] /\ staged'[p] = staged[p]) \/ staged'[p].next = 0
      BY <2>1, <2>2 DEF IInv, TypeOK
    <2> QED BY <2>1, <2>3, SameTrailExtends DEF Quiet, TableQuiet
  <1>4. ASSUME NEW q \in Slots, Finished(q)
        PROVE  \A p \in Slots : (requests'[p] = requests[p] /\ staged'[p] = staged[p]) \/ staged'[p].next = 0
    BY <1>4 DEF Finished
  <1>5. ASSUME NEW q \in Slots, NEW req, NEW rec, Edits(q, req, rec) PROVE Quiet
    <2>1. Extends0 /\ TouchedNow(req.subject)
      BY <1>5, LogExtends DEF Edits, Records0, Activations
    <2>3. req.row.state \in Editable
      BY <1>5 DEF Edits, Records0, IInv, Guarded
    <2>2. TableQuiet
      BY <1>5, <2>1, <2>3 DEF Edits, RowWrite, TableQuiet
    <2> QED BY <1>4, <1>5, <2>1, <2>2 DEF Edits, Records0, Quiet
  <1>6. ASSUME NEW q \in Slots, NEW req, NEW rec, Requested(q, req, rec) PROVE Quiet
    <2>1. Extends0
      BY <1>6, LogExtends DEF Requested, Records0, Activations
    <2> QED BY <1>4, <1>6, <2>1 DEF Requested, Records0, Quiet, TableQuiet
  <1>7. ASSUME NEW q \in Slots, NEW req, NEW rec, Approves(q, req, rec) PROVE Quiet
    <2>1. Extends0
      BY <1>7, LogExtends DEF Approves, Records0, Activations
    <2>2. TableQuiet
      BY <1>7 DEF Approves, RowWrite, TableQuiet
    <2> QED BY <1>4, <1>7, <2>1, <2>2 DEF Approves, Records0, Quiet
  <1>8. ASSUME NEW q \in Slots, NEW req, NEW rec, Shadows(q, req, rec) PROVE Quiet
    <2>1. Extends0 /\ TouchedNow(req.subject)
      BY <1>8, LogExtends DEF Shadows, Records0, Activations
    <2>2. TableQuiet
      BY <1>8, <2>1 DEF Shadows, RowWrite, TableQuiet, Editable
    <2> QED BY <1>4, <1>8, <2>1, <2>2 DEF Shadows, Records0, Quiet
  <1>9. ASSUME NEW q \in Slots, Deletes(q) \/ Drops(q) PROVE Quiet
    BY <1>4, <1>9, SameTrailExtends DEF Deletes, Drops, Quiet, TableQuiet
  <1> QED BY <1>1, <1>2, <1>3, <1>5, <1>6, <1>7, <1>8, <1>9, Steps

-----------------------------------------------------------------------------
(* Activations survive the race between publishers.                        *)

Undone(s, i) ==
    \E m \in i + 1 .. Len(changes) : /\ changes[m].subject = s
                                     /\ changes[m].event \in {"rule.archived", "rule.shadowed", "rule.edited"}

\* Record i activated rule s in the latest version.
Newest(i, s) ==
    /\ changes[i].event \in Activations /\ changes[i].subject = s
    /\ changes[i].ruleset_version = Len(rulesets)

InForce ==
    \A i \in 1 .. Len(changes) : \A s \in RuleIds :
        Newest(i, s) => rules[s].state = "active" \/ Undone(s, i)

\* Who is about to publish the next version carries that activation along.
Carries(q) ==
    (staged[q].next = Len(rulesets) + 1 /\ requests[q].op # "revert") =>
        \A i \in 1 .. Len(changes) : \A s \in RuleIds : Newest(i, s) =>
            \/ \E e \in staged[q].rules : e.id = s /\ e.state = "active"
            \/ Undone(s, i)
            \/ requests[q].op = "archive" /\ requests[q].subject = s

KeptInNext(i, k) ==
    ( /\ i < k
      /\ changes[i].event \in Activations
      /\ changes[k].ruleset_version = changes[i].ruleset_version + 1
      /\ changes[k].event # "ruleset.reverted" ) =>
    \/ \E e \in rulesets[changes[k].ruleset_version].rules :
          e.id = changes[i].subject /\ e.state = "active"
    \/ \E m \in i + 1 .. k : /\ changes[m].subject = changes[i].subject
                             /\ changes[m].event \in {"rule.archived", "rule.shadowed",
                                                    "rule.edited"}

RaceInv ==
    /\ InForce
    /\ \A q \in Slots : Carries(q)
    /\ \A i, k \in 1 .. Len(changes) : KeptInNext(i, k)

\* Nothing published and nothing activated: the newest activations are the same
\* and what was undone stays undone.
LEMMA NewestKept ==
  ASSUME IInv, Extends0, UNCHANGED rulesets, NEW i \in 1 .. Len(changes'), NEW s, Newest(i, s)'
  PROVE  /\ i \in 1 .. Len(changes) /\ Newest(i, s)
         /\ Undone(s, i) \/ TouchedNow(s) => Undone(s, i)'
  <1>1. Len(changes) \in Nat /\ Len(changes') \in Nat /\ Len(changes') >= Len(changes)
    BY DEF IInv, TypeOK, Extends0
  <1>2. i \in 1 .. Len(changes)
    BY <1>1 DEF Newest, Extends0
  <1>3. Newest(i, s)
    BY <1>2 DEF Newest, Extends0
  <1>4. Undone(s, i) => Undone(s, i)'
    BY <1>1, <1>2 DEF Undone, Extends0
  <1>5. TouchedNow(s) => Undone(s, i)'
    <2>1. TouchedNow(s) => Len(changes) + 1 \in i + 1 .. Len(changes')
      BY <1>1, <1>2 DEF TouchedNow
    <2> QED BY <2>1 DEF TouchedNow, Undone
  <1> QED BY <1>2, <1>3, <1>4, <1>5

LEMMA RaceQuiet ==
  ASSUME IInv, Ordered, RaceInv, Quiet
  PROVE  RaceInv'
  <1>1. Extends0 /\ UNCHANGED rulesets /\ Len(changes) \in Nat /\ Len(rulesets) \in Nat
    BY DEF Quiet, IInv, TypeOK
  <1>2. InForce'
    <2> SUFFICES ASSUME NEW i \in 1 .. Len(changes'), NEW s \in RuleIds, Newest(i, s)'
                 PROVE  rules'[s].state = "active" \/ Undone(s, i)'
      BY DEF InForce
    <2>1. /\ i \in 1 .. Len(changes) /\ Newest(i, s)
          /\ Undone(s, i) \/ TouchedNow(s) => Undone(s, i)'
      BY <1>1, NewestKept
    <2>2. rules[s].state = "active" \/ Undone(s, i)
      BY <2>1 DEF RaceInv, InForce
    <2>3. rules[s].state = "active" => rules'[s].state = "active" \/ TouchedNow(s)
      BY DEF Quiet, TableQuiet, NoRow
    <2> QED BY <2>1, <2>2, <2>3
  <1>3. ASSUME NEW q \in Slots PROVE Carries(q)'
    <2>1. CASE staged'[q].next = 0
      BY <1>1, <2>1 DEF Carries
    <2>2. CASE requests'[q] = requests[q] /\ staged'[q] = staged[q]
      <3> SUFFICES ASSUME staged[q].next = Len(rulesets) + 1, requests[q].op # "revert",
                          NEW i \in 1 .. Len(changes'), NEW s \in RuleIds, Newest(i, s)'
                   PROVE  \/ \E e \in staged[q].rules : e.id = s /\ e.state = "active"
                          \/ Undone(s, i)'
                          \/ requests[q].op = "archive" /\ requests[q].subject = s
        BY <1>1, <2>2 DEF Carries
      <3>1. /\ i \in 1 .. Len(changes) /\ Newest(i, s)
            /\ Undone(s, i) => Undone(s, i)'
        BY <1>1, NewestKept
      <3> QED BY <3>1 DEF RaceInv, Carries
    <2> QED BY <2>1, <2>2 DEF Quiet
  <1>4. ASSUME NEW i \in 1 .. Len(changes'), NEW k \in 1 .. Len(changes') PROVE KeptInNext(i, k)'
    <2>1. CASE k \in 1 .. Len(changes) /\ i < k
      <3>1. i \in 1 .. Len(changes) /\ KeptInNext(i, k)
        BY <1>1, <2>1 DEF RaceInv
      <3>2. /\ changes'[i] = changes[i] /\ changes'[k] = changes[k]
            /\ \A m \in i + 1 .. k : changes'[m] = changes[m]
        BY <1>1, <2>1, <3>1 DEF Extends0
      <3> QED BY <1>1, <3>1, <3>2 DEF KeptInNext
    <2>2. CASE k \notin 1 .. Len(changes) /\ i < k
      <3>1. i \in 1 .. Len(changes) \/ changes'[i].event \notin Activations
        BY <1>1, <2>2 DEF Extends0
      <3>2. changes'[k].ruleset_version = 0
        BY <1>1, <2>2 DEF Extends0
      <3>3. i \in 1 .. Len(changes) => changes'[i].ruleset_version + 1 # 0
        BY <1>1 DEF Extends0, Ordered
      <3> QED BY <3>1, <3>2, <3>3 DEF KeptInNext
    <2>3. CASE ~ (i < k)
      BY <2>3 DEF KeptInNext
    <2> QED BY <2>1, <2>2, <2>3
  <1> QED BY <1>2, <1>3, <1>4 DEF RaceInv
LEMMA RaceStaged ==
  ASSUME IInv, RaceInv, NEW q \in Slots, NEW req, Stages(q, req)
  PROVE  RaceInv'
  <1>1. UNCHANGED <<rules, rulesets, changes, requests>> /\ req = requests[q]
    BY DEF Stages
  <1>2. InForce' /\ \A i, k \in 1 .. Len(changes') : KeptInNext(i, k)'
    BY <1>1 DEF RaceInv, InForce, Newest, Undone, KeptInNext
  <1>3. ASSUME NEW p \in Slots \ {q} PROVE Carries(p)'
    <2>1. staged'[p] = staged[p]
      BY DEF Stages
    <2>2. \A i, s : (Newest(i, s)' <=> Newest(i, s)) /\ (Undone(s, i)' <=> Undone(s, i))
      BY <1>1 DEF Newest, Undone
    <2>3. Carries(p)
      BY DEF RaceInv
    <2> QED BY <1>1, <2>1, <2>2, <2>3 DEF Carries
  <1>4. Carries(q)'
    <2> SUFFICES ASSUME req.op # "revert", NEW i \in 1 .. Len(changes), NEW s \in RuleIds, Newest(i, s)
                 PROVE  \/ \E e \in staged'[q].rules : e.id = s /\ e.state = "active"
                        \/ Undone(s, i)
                        \/ req.op = "archive" /\ req.subject = s
      BY <1>1 DEF Carries, Newest, Undone
    <2>1. SnapshotOf(staged'[q].rules, q)
      BY DEF Stages
    <2>2. rules[s].state = "active" \/ Undone(s, i)
      BY DEF RaceInv, InForce
    <2>3. ASSUME rules[s].state = "active", ~ (req.op = "archive" /\ req.subject = s)
          PROVE  \E e \in staged'[q].rules : e.id = s /\ e.state = "active"
      <3>1. SeenState(q, s) = "active"
        BY <1>1, <2>3 DEF SeenState
      <3>2. PICK e : e = [id |-> s, state |-> "active", expression |-> rules[s].expression]
        OBVIOUS
      <3>3. rules[s].expression \in Expressions \cup {None}
        BY DEF IInv, TypeOK, Rows
      <3>4. e \in Entries /\ e.id = s /\ e.state = "active" /\ e.expression = rules[s].expression
        BY <3>2, <3>3 DEF Entries
      <3> QED BY <2>1, <3>1, <3>4 DEF SnapshotOf
    <2> QED BY <2>2, <2>3
  <1> QED BY <1>2, <1>3, <1>4 DEF RaceInv

LEMMA RaceCommitted ==
  ASSUME IInv, Ordered, ApprovalInv, RaceInv, NEW q \in Slots, NEW req, NEW rec, Commits(q, req, rec)
  PROVE  RaceInv'
  <1>1. PICK n, v : n = Len(changes) /\ v = Len(rulesets)
    OBVIOUS
  <1>2. n \in Nat /\ v \in Nat
    BY <1>1 DEF IInv, TypeOK
  <1>3. /\ Len(changes') = n + 1 /\ changes'[n + 1] = rec /\ \A i \in 1 .. n : changes'[i] = changes[i]
        /\ rec.event = PublishEvent(req) /\ rec.subject = req.subject /\ rec.ruleset_version = v + 1
    BY <1>1 DEF Commits, Logs
  <1>4. /\ Len(rulesets') = v + 1 /\ \A i \in 1 .. v : rulesets'[i] = rulesets[i]
        /\ rulesets'[v + 1].rules = staged[q].rules
        /\ req = requests[q] /\ req.op \in PublishingOps /\ staged[q].next = v + 1 /\ Finished(q)
        /\ \A r \in RuleIds : rules'[r].state = SeenState(q, r)
    BY <1>1 DEF Commits
  <1>5. \A i \in 1 .. n : changes[i].ruleset_version \in 0 .. v
    BY <1>1 DEF Ordered
  <1>6. InForce'
    <2> SUFFICES ASSUME NEW i \in 1 .. n + 1, NEW s \in RuleIds, Newest(i, s)'
                 PROVE  rules'[s].state = "active"
      BY <1>3 DEF InForce
    <2>1. i = n + 1
      BY <1>2, <1>3, <1>4, <1>5 DEF Newest
    <2>2. PublishEvent(req) \in Activations /\ req.subject = s
      BY <1>3, <2>1 DEF Newest
    <2>3. req.op = "activate"
      BY <1>4, <2>2 DEF PublishEvent, PublishingOps, Activations
    <2> QED BY <1>4, <2>2, <2>3 DEF SeenState
  <1>7. ASSUME NEW p \in Slots PROVE Carries(p)'
    <2>1. staged'[p].next = 0 \/ staged'[p].next = staged[p].next
      BY <1>4 DEF Finished
    <2>2. staged[p].next \in 0 .. v + 1
      BY <1>1 DEF IInv, Numbered
    <2>3. staged'[p].next # Len(rulesets') + 1
      BY <1>2, <1>4, <2>1, <2>2
    <2> QED BY <2>3 DEF Carries
  <1>8. ASSUME NEW i \in 1 .. n + 1, NEW k \in 1 .. n + 1, i < k, changes'[i].event \in Activations,
               changes'[k].ruleset_version = changes'[i].ruleset_version + 1,
               changes'[k].event # "ruleset.reverted"
        PROVE  \/ \E e \in rulesets'[changes'[k].ruleset_version].rules :
                     e.id = changes'[i].subject /\ e.state = "active"
               \/ \E m \in i + 1 .. k : /\ changes'[m].subject = changes'[i].subject
                                        /\ changes'[m].event \in {"rule.archived", "rule.shadowed",
                                                                "rule.edited"}
    <2>1. i \in 1 .. n /\ changes'[i] = changes[i] /\ changes[i].ruleset_version \in 0 .. v
      BY <1>2, <1>3, <1>5, <1>8
    <2>2. CASE k \in 1 .. n
      <3>1. /\ changes'[k] = changes[k] /\ KeptInNext(i, k) /\ \A m \in i + 1 .. k : changes'[m] = changes[m]
        BY <1>1, <1>2, <1>3, <2>1, <2>2 DEF RaceInv
      <3>2. changes[k].ruleset_version \in 1 .. v
        BY <1>2, <1>5, <1>8, <2>1, <2>2, <3>1
      <3>3. rulesets'[changes[k].ruleset_version] = rulesets[changes[k].ruleset_version]
        BY <1>4, <3>2
      <3> QED BY <1>8, <2>1, <3>1, <3>3 DEF KeptInNext
    <2>3. CASE k = n + 1
      <3>1. changes[i].ruleset_version = v /\ rec.event # "ruleset.reverted"
        BY <1>2, <1>3, <1>8, <2>1, <2>3
      <3>2. PICK s : s = changes[i].subject
        OBVIOUS
      <3>3. s \in RuleIds
        BY <1>1, <1>8, <2>1, <3>2 DEF ApprovalInv, Claim
      <3>4. Newest(i, s)
        BY <1>1, <1>8, <2>1, <3>1, <3>2 DEF Newest
      <3>5. requests[q].op # "revert"
        BY <1>3, <1>4, <3>1 DEF PublishEvent
      <3>6. \/ \E e \in staged[q].rules : e.id = s /\ e.state = "active"
            \/ Undone(s, i)
            \/ req.op = "archive" /\ req.subject = s
        BY <1>1, <1>4, <2>1, <3>3, <3>4, <3>5 DEF RaceInv, Carries
      <3>7. ASSUME Undone(s, i)
            PROVE  \E m \in i + 1 .. k : /\ changes'[m].subject = s
                                         /\ changes'[m].event \in {"rule.archived", "rule.shadowed",
                                                                 "rule.edited"}
        BY <1>1, <1>2, <1>3, <2>1, <2>3, <3>7 DEF Undone
      <3>8. ASSUME req.op = "archive", req.subject = s
            PROVE  \E m \in i + 1 .. k : /\ changes'[m].subject = s
                                         /\ changes'[m].event \in {"rule.archived", "rule.shadowed",
                                                                 "rule.edited"}
        <4>1. rec.event = "rule.archived" /\ k \in i + 1 .. k
          BY <1>2, <1>3, <2>1, <2>3, <3>8 DEF PublishEvent
        <4> QED BY <1>3, <2>3, <3>8, <4>1
      <3>9. changes'[k].ruleset_version = v + 1
        BY <1>3, <2>3
      <3> QED BY <1>4, <2>1, <3>2, <3>6, <3>7, <3>8, <3>9
    <2> QED BY <1>2, <2>2, <2>3
  <1>9. \A i, k \in 1 .. Len(changes') : KeptInNext(i, k)'
    BY <1>3, <1>8 DEF KeptInNext
  <1> QED BY <1>6, <1>7, <1>9 DEF RaceInv

LEMMA RaceInductive == Spec => []RaceInv
  <1>1. Init => RaceInv
    BY DEF Init, RaceInv, InForce, Carries
  <1>2. IInv /\ Ordered /\ ApprovalInv /\ RaceInv /\ [Next]_vars => RaceInv'
    BY QuietSteps, RaceQuiet, RaceStaged, RaceCommitted
  <1> QED BY <1>1, <1>2, Inductive, ExplainedInductive, ApprovalInductive, PTL DEF Spec

\* However many publishers race: what one version puts in force is still in
\* force in the next, unless that one is a revert or somebody has archived,
\* shadowed or edited the rule in between.
THEOREM ActivationsSurvive == Spec => []NoActivationLost
  <1>1. IInv /\ RaceInv => NoActivationLost
    <2> SUFFICES ASSUME IInv, RaceInv PROVE NoActivationLost
      OBVIOUS
    <2>1. DOMAIN changes = 1 .. Len(changes)
      BY DEF IInv, TypeOK
    <2>2. \A i, k \in DOMAIN changes : KeptInNext(i, k)
      BY <2>1 DEF RaceInv
    <2> QED BY <2>2 DEF NoActivationLost, KeptInNext
  <1> QED BY <1>1, Inductive, RaceInductive, PTL
-----------------------------------------------------------------------------
(* What is in force was reviewed, as long as nobody commits from a copy    *)
(* that has been overtaken.                                                *)

AllFresh == \A i \in 1 .. Len(changes) : changes[i].fresh = TRUE

\* Somebody approved rule r, or activated it in an emergency, saying x.
Reviewed(r, x) ==
    \E i \in 1 .. Len(changes) : /\ changes[i].event \in {"rule.approved", "rule.emergency_activated"}
                                 /\ changes[i].subject = r /\ changes[i].row.expression = x

RowReviewed(r) ==
    (rules[r].state = "active" \/ rules[r].approved_by # None) => Reviewed(r, rules[r].expression)

\* What is about to be published was reviewed, but for the rule this very
\* request activates: its row is held, so it still says what it said.
StagedReviewed(q) ==
    staged[q].next # 0 =>
        \A e \in staged[q].rules : e.state = "active" =>
            \/ Reviewed(e.id, e.expression)
            \/ /\ requests[q].op = "activate" /\ requests[q].subject = e.id
               /\ e.expression = rules[e.id].expression

PublishedReviewed(v) ==
    \A e \in rulesets[v].rules : e.state = "active" => Reviewed(e.id, e.expression)

ReviewInv ==
    AllFresh => /\ \A r \in RuleIds : RowReviewed(r)
                /\ \A q \in Slots : StagedReviewed(q)
                /\ \A v \in 1 .. Len(rulesets) : PublishedReviewed(v)

\* The history grows, so what was reviewed stays reviewed and what was stale
\* stays stale.
TrailKept ==
    /\ changes' \in Seq(Records) /\ Len(changes') >= Len(changes)
    /\ \A i \in 1 .. Len(changes) : changes'[i] = changes[i]

LEMMA ReviewedKept ==
  ASSUME IInv, TrailKept
  PROVE  /\ AllFresh' => AllFresh
         /\ \A r, x : Reviewed(r, x) => Reviewed(r, x)'
  <1>1. Len(changes) \in Nat /\ Len(changes') \in Nat
    BY DEF IInv, TypeOK, TrailKept
  <1>2. \A i \in 1 .. Len(changes) : i \in 1 .. Len(changes') /\ changes'[i] = changes[i]
    BY <1>1 DEF TrailKept
  <1> QED BY <1>2 DEF AllFresh, Reviewed

\* A step that publishes nothing: it is enough that the rows it writes are
\* reviewed and that it writes no row a publisher holds.
LEMMA ReviewUnpublished ==
  ASSUME IInv, ReviewInv, TrailKept, UNCHANGED rulesets,
         AllFresh' => \A r \in RuleIds : RowReviewed(r)',
         \A p \in Slots :
            \/ staged'[p].next = 0
            \/ /\ staged'[p] = staged[p] /\ requests'[p] = requests[p]
               /\ \A r \in RuleIds : (requests[p].op = "activate" /\ requests[p].subject = r)
                                        => rules'[r].expression = rules[r].expression
  PROVE  ReviewInv'
  <1> SUFFICES ASSUME AllFresh'
               PROVE  /\ \A q \in Slots : StagedReviewed(q)'
                      /\ \A v \in 1 .. Len(rulesets) : PublishedReviewed(v)'
    BY DEF ReviewInv
  <1>1. AllFresh /\ \A r, x : Reviewed(r, x) => Reviewed(r, x)'
    BY ReviewedKept
  <1>2. ASSUME NEW v \in 1 .. Len(rulesets), NEW e \in rulesets[v].rules, e.state = "active"
        PROVE  Reviewed(e.id, e.expression)'
    BY <1>1, <1>2 DEF ReviewInv, PublishedReviewed
  <1>3. ASSUME NEW q \in Slots PROVE StagedReviewed(q)'
    <2>1. CASE staged'[q].next = 0
      BY <2>1 DEF StagedReviewed
    <2>2. CASE staged'[q].next # 0
      <3>1. /\ staged'[q] = staged[q] /\ requests'[q] = requests[q]
            /\ \A r \in RuleIds : (requests[q].op = "activate" /\ requests[q].subject = r)
                                     => rules'[r].expression = rules[r].expression
        BY <2>2
      <3>2. ASSUME NEW e \in staged[q].rules, e.state = "active"
            PROVE  \/ Reviewed(e.id, e.expression)'
                   \/ /\ requests[q].op = "activate" /\ requests[q].subject = e.id
                      /\ e.expression = rules'[e.id].expression
        <4>1. e.id \in RuleIds
          BY DEF IInv, TypeOK, Stagings, Entries
        <4>2. \/ Reviewed(e.id, e.expression)
              \/ /\ requests[q].op = "activate" /\ requests[q].subject = e.id
                 /\ e.expression = rules[e.id].expression
          BY <1>1, <2>2, <3>1, <3>2 DEF ReviewInv, StagedReviewed
        <4> QED BY <1>1, <3>1, <4>1, <4>2
      <3> QED BY <3>1, <3>2 DEF StagedReviewed
    <2> QED BY <2>1, <2>2
  <1>4. \A v \in 1 .. Len(rulesets) : PublishedReviewed(v)'
    BY <1>2 DEF PublishedReviewed
  <1> QED BY <1>3, <1>4

LEMMA ReviewCreated ==
  ASSUME IInv, ApprovalInv, ReviewInv, NEW a, NEW r, NEW e, NEW rec, Creates(a, r, e, rec)
  PROVE  ReviewInv'
  <1>1. TrailKept
    <2>1. Len(changes) \in Nat
      BY DEF IInv, TypeOK
    <2>2. Logs(rec, "rule.created", a, r, 0)
      BY DEF Creates
    <2> QED BY <2>1, <2>2 DEF Logs, TrailKept
  <1>2. ASSUME AllFresh', NEW x \in RuleIds PROVE RowReviewed(x)'
    <2>1. AllFresh /\ \A y : Reviewed(x, y) => Reviewed(x, y)'
      BY <1>1, <1>2, ReviewedKept
    <2>2. CASE x = r
      BY <2>2 DEF Creates, RowWrite, RowReviewed
    <2>3. CASE x # r
      <3>1. PICK row : row = rules[x]
        OBVIOUS
      <3>2. rules'[x] = row
        BY <2>3, <3>1 DEF Creates, RowWrite
      <3>3. (row.state = "active" \/ row.approved_by # None) => Reviewed(x, row.expression)'
        BY <2>1, <3>1 DEF ReviewInv, RowReviewed
      <3> QED BY <3>2, <3>3 DEF RowReviewed
    <2> QED BY <2>2, <2>3
  <1>3. ASSUME NEW p \in Slots, NEW x \in RuleIds, requests[p].op = "activate", requests[p].subject = x
        PROVE  rules'[x].expression = rules[x].expression
    <2>1. rules[x].created_by # None
      BY <1>3 DEF ApprovalInv, CopyApproved, RuleOps
    <2>2. x # r
      BY <2>1 DEF Creates, NoRow
    <2> QED BY <2>2 DEF Creates, RowWrite
  <1> QED BY <1>1, <1>2, <1>3, ReviewUnpublished DEF Creates

\* The row is written by its slot: what the guards of approve and shadow leave
\* of the expression, and what an edit may overwrite.
LEMMA ReviewWritten ==
  ASSUME IInv, ReviewInv, NEW q \in Slots, NEW req, NEW rec,
         Edits(q, req, rec) \/ Approves(q, req, rec) \/ Shadows(q, req, rec)
  PROVE  ReviewInv'
  <1>1. PICK event : Records0(q, req, event, rec)
    BY DEF Edits, Approves, Shadows
  <1>2. PICK s : s = req.subject
    OBVIOUS
  <1>3. req = requests[q] /\ req.op \in RuleOps /\ Guarded(req) /\ s \in RuleIds /\ Finished(q)
    <2>1. req.op \in RuleOps
      BY DEF Edits, Approves, Shadows, RuleOps
    <2>2. req = requests[q] /\ Finished(q)
      BY <1>1 DEF Records0
    <2> QED BY <1>2, <2>1, <2>2 DEF IInv, Guarded
  <1>4. TrailKept /\ Len(changes') = Len(changes) + 1 /\ changes'[Len(changes) + 1] = rec /\ Len(changes) \in Nat
    BY <1>1 DEF Records0, Logs, TrailKept, IInv, TypeOK
  <1>5. \A x \in RuleIds \ {s} : rules'[x] = rules[x]
    BY <1>2 DEF Edits, Approves, Shadows, RowWrite
  <1>6. ASSUME AllFresh', NEW x \in RuleIds PROVE RowReviewed(x)'
    <2>1. AllFresh /\ \A y : Reviewed(x, y) => Reviewed(x, y)'
      BY <1>4, <1>6, ReviewedKept
    <2>2. rec.fresh = TRUE
      BY <1>4, <1>6 DEF AllFresh
    <2>3. rules[s] = req.row
      BY <1>1, <1>2, <2>2 DEF Records0
    <2>4. PICK row : row = rules[x]
      OBVIOUS
    <2>5. (row.state = "active" \/ row.approved_by # None) => Reviewed(x, row.expression)'
      BY <2>1, <2>4 DEF ReviewInv, RowReviewed
    <2>6. CASE x # s
      BY <1>5, <2>4, <2>5, <2>6 DEF RowReviewed
    <2>7. CASE x = s /\ Edits(q, req, rec)
      <3>1. /\ rules'[s].state = req.row.state /\ rules'[s].approved_by = None
            /\ req.row.state \in Editable
        BY <1>2, <1>3, <2>7 DEF Edits, RowWrite, Guarded
      <3> QED BY <2>7, <3>1 DEF RowReviewed, Editable
    <2>8. CASE x = s /\ Approves(q, req, rec)
      <3>1. rules'[s].expression = row.expression
        BY <1>2, <2>4, <2>8 DEF Approves, RowWrite
      <3>2. /\ rec.event = "rule.approved" /\ rec.subject = s /\ rec.row.expression = row.expression
        BY <1>2, <2>3, <2>4, <2>8 DEF Approves, Records0, Logs
      <3>3. Reviewed(s, row.expression)'
        <4>1. Len(changes) + 1 \in 1 .. Len(changes')
          BY <1>4
        <4> QED BY <1>4, <3>2, <4>1 DEF Reviewed
      <3> QED BY <2>8, <3>1, <3>3 DEF RowReviewed
    <2>9. CASE x = s /\ Shadows(q, req, rec)
      <3>1. /\ rules'[s].expression = row.expression /\ rules'[s].state = "shadow"
            /\ rules'[s].approved_by = row.approved_by
        BY <1>2, <2>4, <2>9 DEF Shadows, RowWrite
      <3> QED BY <2>5, <2>9, <3>1 DEF RowReviewed
    <2> QED BY <2>6, <2>7, <2>8, <2>9
  <1>7. ASSUME NEW p \in Slots
        PROVE  \/ staged'[p].next = 0
               \/ /\ staged'[p] = staged[p] /\ requests'[p] = requests[p]
                  /\ \A r \in RuleIds : (requests[p].op = "activate" /\ requests[p].subject = r)
                                           => rules'[r].expression = rules[r].expression
    <2>1. CASE p = q \/ staged[p].next = 0
      BY <1>3, <2>1 DEF Finished
    <2>2. CASE p # q /\ staged[p].next # 0
      <3>1. staged'[p] = staged[p] /\ requests'[p] = requests[p]
        BY <1>3, <2>2 DEF Finished
      <3>2. ASSUME NEW r \in RuleIds, requests[p].subject = r
            PROVE  rules'[r].expression = rules[r].expression
        <4>1. CASE r # s
          BY <1>5, <4>1
        <4>2. CASE r = s /\ Edits(q, req, rec)
          BY <1>2, <1>3, <2>2, <3>2, <4>2, NoneIsNoValue DEF Edits, RowFree
        <4>3. CASE r = s /\ (Approves(q, req, rec) \/ Shadows(q, req, rec))
          BY <1>2, <4>3 DEF Approves, Shadows, RowWrite
        <4> QED BY <4>1, <4>2, <4>3
      <3> QED BY <3>1, <3>2
    <2> QED BY <2>1, <2>2
  <1>8. UNCHANGED rulesets
    BY <1>1 DEF Records0
  <1> QED BY <1>4, <1>6, <1>7, <1>8, ReviewUnpublished
LEMMA ReviewSameRules ==
  ASSUME IInv, ReviewInv, TrailKept, UNCHANGED <<rules, rulesets>>,
         \A p \in Slots : staged'[p].next = 0 \/ (staged'[p] = staged[p] /\ requests'[p] = requests[p])
  PROVE  ReviewInv'
  <1>1. ASSUME AllFresh', NEW r \in RuleIds PROVE RowReviewed(r)'
    <2>1. PICK row : row = rules[r]
      OBVIOUS
    <2>2. (row.state = "active" \/ row.approved_by # None) => Reviewed(r, row.expression)'
      BY <1>1, <2>1, ReviewedKept DEF ReviewInv, RowReviewed
    <2> QED BY <2>1, <2>2 DEF RowReviewed
  <1> QED BY <1>1, ReviewUnpublished

LEMMA ReviewStaged ==
  ASSUME IInv, ReviewInv, NEW q \in Slots, NEW req, Stages(q, req)
  PROVE  ReviewInv'
  <1>1. UNCHANGED <<rules, rulesets, changes, requests>> /\ req = requests[q]
    BY DEF Stages
  <1> SUFFICES ASSUME AllFresh PROVE \A p \in Slots : StagedReviewed(p)'
    <2>1. AllFresh' => AllFresh
      BY <1>1 DEF AllFresh
    <2>2. \A r \in RuleIds : RowReviewed(r) => RowReviewed(r)'
      BY <1>1 DEF RowReviewed, Reviewed
    <2>3. \A v \in 1 .. Len(rulesets) : PublishedReviewed(v) => PublishedReviewed(v)'
      BY <1>1 DEF PublishedReviewed, Reviewed
    <2> QED BY <1>1, <2>1, <2>2, <2>3 DEF ReviewInv
  <1>2. /\ \A r \in RuleIds : RowReviewed(r)
        /\ \A p \in Slots : StagedReviewed(p)
        /\ \A v \in 1 .. Len(rulesets) : PublishedReviewed(v)
    BY DEF ReviewInv
  <1>3. ASSUME NEW p \in Slots \ {q} PROVE StagedReviewed(p)'
    <2>1. staged'[p] = staged[p]
      BY DEF Stages
    <2> QED BY <1>1, <1>2, <2>1 DEF StagedReviewed, Reviewed
  <1>4. ASSUME NEW e \in staged'[q].rules, e.state = "active"
        PROVE  \/ Reviewed(e.id, e.expression)
               \/ /\ req.op = "activate" /\ req.subject = e.id
                  /\ e.expression = rules[e.id].expression
    <2>1. CASE req.op = "revert"
      <3>1. PICK i \in DOMAIN rulesets : staged'[q].rules = rulesets[i].rules
        BY <2>1 DEF Stages
      <3>2. i \in 1 .. Len(rulesets)
        BY DEF IInv, TypeOK
      <3> QED BY <1>2, <1>4, <3>1, <3>2 DEF PublishedReviewed
    <2>2. CASE req.op # "revert"
      <3>1. SnapshotOf(staged'[q].rules, q)
        BY <2>2 DEF Stages
      <3>2. e \in Entries /\ SeenState(q, e.id) = "active" /\ e.expression = rules[e.id].expression
        BY <1>4, <3>1 DEF SnapshotOf
      <3>3. e.id \in RuleIds
        BY <3>2 DEF Entries
      <3>4. (req.op = "activate" /\ req.subject = e.id) \/ rules[e.id].state = "active"
        BY <1>1, <3>2 DEF SeenState
      <3> QED BY <1>2, <3>2, <3>3, <3>4 DEF RowReviewed
    <2> QED BY <2>1, <2>2
  <1>5. StagedReviewed(q)'
    BY <1>1, <1>4 DEF StagedReviewed, Reviewed
  <1> QED BY <1>3, <1>5

LEMMA ReviewCommitted ==
  ASSUME IInv, ReviewInv, NEW q \in Slots, NEW req, NEW rec, Commits(q, req, rec)
  PROVE  ReviewInv'
  <1> SUFFICES ASSUME AllFresh'
               PROVE  /\ \A r \in RuleIds : RowReviewed(r)'
                      /\ \A p \in Slots : StagedReviewed(p)'
                      /\ \A v \in 1 .. Len(rulesets') : PublishedReviewed(v)'
    BY DEF ReviewInv
  <1>1. PICK s, v, n : s = req.subject /\ v = Len(rulesets) /\ n = Len(changes)
    OBVIOUS
  <1>2. /\ req = requests[q] /\ req.op \in PublishingOps /\ Finished(q) /\ staged[q].next = v + 1
        /\ Len(rulesets') = v + 1 /\ rulesets'[v + 1].rules = staged[q].rules
        /\ \A i \in 1 .. v : rulesets'[i] = rulesets[i]
        /\ \A r \in RuleIds : /\ rules'[r].state = SeenState(q, r)
                              /\ rules'[r].expression = rules[r].expression
                              /\ rules'[r].approved_by = rules[r].approved_by
    BY <1>1 DEF Commits
  <1>3. /\ n \in Nat /\ v \in Nat /\ TrailKept /\ Len(changes') = n + 1 /\ changes'[n + 1] = rec
        /\ rec.event = PublishEvent(req) /\ rec.subject = s
    BY <1>1 DEF Commits, Logs, TrailKept, IInv, TypeOK
  <1>4. AllFresh /\ \A r, x : Reviewed(r, x) => Reviewed(r, x)'
    BY <1>3, ReviewedKept
  <1>5. /\ \A r \in RuleIds : RowReviewed(r)
        /\ \A p \in Slots : StagedReviewed(p)
        /\ \A i \in 1 .. Len(rulesets) : PublishedReviewed(i)
    BY <1>4 DEF ReviewInv
  <1>6. ASSUME req.op = "activate" PROVE s \in RuleIds /\ Reviewed(s, rules[s].expression)'
    <2>1. Guarded(req)
      BY <1>2 DEF IInv
    <2>2. s \in RuleIds /\ may_activate(req.actor, req.row, req.emergency)
      BY <1>1, <1>6, <2>1 DEF Guarded, RuleOps
    <2>3. rec.fresh = TRUE
      BY <1>3 DEF AllFresh
    <2>4. rules[s] = req.row /\ rec.row.expression = rules[s].expression
      BY <1>1, <1>6, <2>3 DEF Commits, RuleOps
    <2>5. PICK x : x = rules[s].expression
      OBVIOUS
    <2>8. rules'[s].expression = x
      BY <1>2, <2>2, <2>5
    <2>6. CASE req.row.approved_by # None
      <3>1. Reviewed(s, x)
        BY <1>5, <2>2, <2>4, <2>5, <2>6 DEF RowReviewed
      <3>2. Reviewed(s, x)'
        BY <1>4, <3>1
      <3> QED BY <2>2, <2>8, <3>2
    <2>7. CASE req.row.approved_by = None
      <3>1. rec.event = "rule.emergency_activated"
        BY <1>3, <1>6, <2>2, <2>7 DEF may_activate, PublishEvent
      <3>2. n + 1 \in 1 .. Len(changes')
        BY <1>3
      <3>3. Reviewed(s, x)'
        BY <1>3, <2>4, <2>5, <3>1, <3>2 DEF Reviewed
      <3> QED BY <2>2, <2>8, <3>3
    <2> QED BY <2>2, <2>6, <2>7
  <1>7. ASSUME NEW r \in RuleIds PROVE RowReviewed(r)'
    <2>1. PICK x : x = rules[r].expression
      OBVIOUS
    <2>2. rules'[r].expression = x
      BY <1>2, <2>1
    <2>3. CASE req.op = "activate" /\ s = r
      BY <1>6, <2>3 DEF RowReviewed
    <2>4. CASE ~ (req.op = "activate" /\ s = r)
      <3>1. rules'[r].state = "active" => rules[r].state = "active"
        BY <1>1, <1>2, <2>4 DEF SeenState
      <3>2. (rules[r].state = "active" \/ rules[r].approved_by # None) => Reviewed(r, x)'
        BY <1>4, <1>5, <2>1 DEF RowReviewed
      <3> QED BY <1>2, <2>2, <3>1, <3>2 DEF RowReviewed
    <2> QED BY <2>3, <2>4
  <1>8. ASSUME NEW p \in Slots PROVE StagedReviewed(p)'
    <2>1. CASE p = q
      BY <1>2, <2>1 DEF Finished, StagedReviewed
    <2>2. CASE p # q
      <3>1. staged'[p] = staged[p] /\ requests'[p] = requests[p]
        BY <1>2, <2>2 DEF Finished
      <3>2. ASSUME staged[p].next # 0, NEW e \in staged[p].rules, e.state = "active"
            PROVE  \/ Reviewed(e.id, e.expression)'
                   \/ /\ requests[p].op = "activate" /\ requests[p].subject = e.id
                      /\ e.expression = rules'[e.id].expression
        <4>1. e.id \in RuleIds
          BY DEF IInv, TypeOK, Stagings, Entries
        <4> QED BY <1>2, <1>4, <1>5, <3>2, <4>1 DEF StagedReviewed
      <3> QED BY <3>1, <3>2 DEF StagedReviewed
    <2> QED BY <2>1, <2>2
  <1>9. ASSUME NEW i \in 1 .. Len(rulesets') PROVE PublishedReviewed(i)'
    <2>1. CASE i \in 1 .. v
      <3>1. rulesets'[i] = rulesets[i] /\ PublishedReviewed(i)
        BY <1>1, <1>2, <1>5, <2>1
      <3> QED BY <1>4, <3>1 DEF PublishedReviewed
    <2>2. CASE i = v + 1
      <3>1. ASSUME NEW e \in staged[q].rules, e.state = "active" PROVE Reviewed(e.id, e.expression)'
        <4>1. \/ Reviewed(e.id, e.expression)
              \/ /\ req.op = "activate" /\ s = e.id
                 /\ e.expression = rules[e.id].expression
          BY <1>1, <1>2, <1>3, <1>5, <3>1 DEF StagedReviewed
        <4>2. s \in RuleIds => rules'[s].expression = rules[s].expression
          BY <1>2
        <4> QED BY <1>4, <1>6, <4>1, <4>2
      <3> QED BY <1>2, <2>2, <3>1 DEF PublishedReviewed
    <2> QED BY <1>2, <1>3, <2>1, <2>2
  <1> QED BY <1>7, <1>8, <1>9

LEMMA ReviewStep ==
  ASSUME IInv, ApprovalInv, ReviewInv, [Next]_vars
  PROVE  ReviewInv'
  <1>0. changes \in Seq(Records)
    BY DEF IInv, TypeOK
  <1>1. CASE UNCHANGED vars
    BY <1>0, <1>1, ReviewSameRules DEF vars, TrailKept
  <1>2. ASSUME NEW q \in Slots, NEW req, Loads(q, req) PROVE ReviewInv'
    <2>1. /\ requests' = [requests EXCEPT ![q] = req] /\ requests[q] = Idle
          /\ UNCHANGED <<rules, rulesets, changes, staged>>
      BY <1>2 DEF Loads, Begin
    <2>2. staged[q].next = 0
      BY <2>1, IdleIsRequest DEF IInv, Numbered, PublishingOps
    <2>3. \A p \in Slots : staged'[p].next = 0 \/ (staged'[p] = staged[p] /\ requests'[p] = requests[p])
      BY <2>1, <2>2 DEF IInv, TypeOK
    <2> QED BY <1>0, <2>1, <2>3, ReviewSameRules DEF TrailKept
  <1>3. ASSUME NEW q \in Slots, Finished(q), TrailKept, UNCHANGED <<rules, rulesets>> PROVE ReviewInv'
    BY <1>3, ReviewSameRules DEF Finished
  <1>4. ASSUME NEW q \in Slots, Deletes(q) \/ Drops(q) PROVE ReviewInv'
    BY <1>0, <1>3, <1>4 DEF Deletes, Drops, TrailKept
  <1>5. ASSUME NEW q \in Slots, NEW req, NEW rec, Requested(q, req, rec) PROVE ReviewInv'
    BY <1>0, <1>3, <1>5 DEF Requested, Records0, Logs, TrailKept
  <1> QED BY <1>1, <1>2, <1>4, <1>5, ReviewCreated, ReviewWritten, ReviewStaged, ReviewCommitted, Steps

LEMMA ReviewInductive == Spec => []ReviewInv
  <1>1. Init => ReviewInv
    BY DEF Init, ReviewInv, RowReviewed, StagedReviewed, NoRow, NotStaged
  <1> QED BY <1>1, ReviewStep, Inductive, ApprovalInductive, PTL DEF Spec

\* As long as no handler commits from an overtaken copy, every rule any
\* published version has in force was approved, or activated in an emergency,
\* with the expression that version carries: the reset of an approval by an
\* edit, and the row a publisher holds, leave no gap.
THEOREM ForceIsReviewed == Spec => []ReviewedUnlessStale
  <1>1. IInv /\ ReviewInv => ReviewedUnlessStale
    <2> SUFFICES ASSUME IInv, ReviewInv, \A i \in DOMAIN changes : changes[i].fresh
                 PROVE  ActiveContentReviewed
      BY DEF ReviewedUnlessStale
    <2>1. DOMAIN changes = 1 .. Len(changes) /\ DOMAIN rulesets = 1 .. Len(rulesets)
      BY DEF IInv, TypeOK
    <2>2. \A i \in 1 .. Len(changes) : changes[i] \in Records
      BY DEF IInv, TypeOK
    <2>5. \A i \in 1 .. Len(changes) : changes[i].fresh \in BOOLEAN
      BY <2>2 DEF Records
    <2>3. AllFresh
      BY <2>1, <2>5 DEF AllFresh
    <2>4. \A v \in 1 .. Len(rulesets) : PublishedReviewed(v)
      BY <2>3 DEF ReviewInv
    <2> QED BY <2>1, <2>4 DEF ActiveContentReviewed, PublishedReviewed, Reviewed
  <1> QED BY <1>1, Inductive, ReviewInductive, PTL
-----------------------------------------------------------------------------
(* What is in force has its activation on record.                          *)

\* The activation of r is on record, with version v or an earlier one.
OnRecord(r, v) ==
    \E j \in 1 .. Len(changes) :
        /\ changes[j].recorded = TRUE /\ changes[j].event \in Activations
        /\ changes[j].subject = r /\ changes[j].ruleset_version <= v

\* For the rows, for what is about to be published, but for the rule this very
\* request activates, and for what was published.
StagedOnRecord(q) ==
    staged[q].next # 0 =>
        \A e \in staged[q].rules : e.state = "active" =>
            \/ OnRecord(e.id, staged[q].next)
            \/ requests[q].op = "activate" /\ requests[q].subject = e.id

PublishedOnRecord(v) ==
    \A e \in rulesets[v].rules : e.state = "active" => OnRecord(e.id, v)

ForceInv ==
    /\ \A r \in RuleIds : rules[r].state = "active" => OnRecord(r, Len(rulesets))
    /\ \A q \in Slots : StagedOnRecord(q)
    /\ \A v \in 1 .. Len(rulesets) : PublishedOnRecord(v)

LEMMA OnRecordKept ==
  ASSUME IInv, TrailKept, NEW r, NEW v \in Nat, NEW w \in Nat, v <= w, OnRecord(r, v)
  PROVE  OnRecord(r, w)'
  <1>1. changes \in Seq(Records) /\ Len(changes) \in Nat /\ Len(changes') \in Nat
    BY DEF IInv, TypeOK, TrailKept
  <1>2. PICK j \in 1 .. Len(changes) :
           /\ changes[j].recorded = TRUE /\ changes[j].event \in Activations
           /\ changes[j].subject = r /\ changes[j].ruleset_version <= v
    BY DEF OnRecord
  <1>3. changes[j].ruleset_version \in Nat
    <2>1. changes[j] \in Records
      BY <1>1
    <2> QED BY <2>1 DEF Records
  <1>4. j \in 1 .. Len(changes') /\ changes'[j] = changes[j] /\ changes[j].ruleset_version <= w
    BY <1>1, <1>2, <1>3 DEF TrailKept
  <1> QED BY <1>2, <1>4 DEF OnRecord

\* Nothing is published: no row becomes active.
LEMMA ForceQuiet ==
  ASSUME IInv, ForceInv, Quiet
  PROVE  ForceInv'
  <1>1. TrailKept /\ UNCHANGED rulesets /\ Len(rulesets) \in Nat
    BY DEF Quiet, Extends0, TrailKept, IInv, TypeOK
  <1>2. ASSUME NEW r \in RuleIds, rules'[r].state = "active" PROVE OnRecord(r, Len(rulesets))'
    <2>1. rules[r].state = "active"
      BY <1>2 DEF Quiet, TableQuiet, Editable
    <2>2. OnRecord(r, Len(rulesets))
      BY <2>1 DEF ForceInv
    <2>3. PICK v \in Nat : v = Len(rulesets)
      BY <1>1
    <2>4. OnRecord(r, v)'
      BY <1>1, <2>2, <2>3, OnRecordKept
    <2> QED BY <1>1, <2>3, <2>4 DEF OnRecord
  <1>3. ASSUME NEW q \in Slots PROVE StagedOnRecord(q)'
    <2>1. CASE staged'[q].next = 0
      BY <2>1 DEF StagedOnRecord
    <2>2. CASE requests'[q] = requests[q] /\ staged'[q] = staged[q]
      <3>1. PICK n \in Nat : n = staged[q].next
        BY DEF IInv, TypeOK, Stagings
      <3>2. ASSUME NEW e \in staged[q].rules, e.state = "active", n # 0
            PROVE  OnRecord(e.id, n)' \/ (requests[q].op = "activate" /\ requests[q].subject = e.id)
        <4>1. n <= n /\ (OnRecord(e.id, n) \/ (requests[q].op = "activate" /\ requests[q].subject = e.id))
          BY <3>1, <3>2 DEF ForceInv, StagedOnRecord
        <4> QED BY <1>1, <4>1, OnRecordKept
      <3>4. \A r : OnRecord(r, n)' => OnRecord(r, staged[q].next)'
        BY <2>2, <3>1 DEF OnRecord
      <3> QED BY <2>2, <3>1, <3>2, <3>4 DEF StagedOnRecord
    <2> QED BY <2>1, <2>2 DEF Quiet
  <1>4. ASSUME NEW v \in 1 .. Len(rulesets) PROVE PublishedOnRecord(v)'
    BY <1>1, OnRecordKept DEF ForceInv, PublishedOnRecord
  <1> QED BY <1>1, <1>2, <1>3, <1>4 DEF ForceInv

LEMMA ForceStaged ==
  ASSUME IInv, ForceInv, NEW q \in Slots, NEW req, Stages(q, req)
  PROVE  ForceInv'
  <1>1. UNCHANGED <<rules, rulesets, changes, requests>> /\ req = requests[q]
    BY DEF Stages
  <1>2. TrailKept /\ Len(rulesets) \in Nat
    BY <1>1 DEF TrailKept, IInv, TypeOK
  <1>3. ASSUME NEW p \in Slots \ {q} PROVE StagedOnRecord(p)'
    <2>1. staged'[p] = staged[p]
      BY DEF Stages
    <2> QED BY <1>1, <2>1 DEF ForceInv, StagedOnRecord, OnRecord
  <1>4. PICK n \in Nat : n = Len(rulesets) + 1
    BY <1>2
  <1>5. ASSUME NEW e \in staged'[q].rules, e.state = "active"
        PROVE  \/ OnRecord(e.id, n)'
               \/ req.op = "activate" /\ req.subject = e.id
    <2>1. CASE req.op = "revert"
      <3>1. PICK i \in 1 .. Len(rulesets) : staged'[q].rules = rulesets[i].rules
        BY <2>1 DEF Stages, IInv, TypeOK
      <3>2. OnRecord(e.id, i) /\ i \in Nat /\ i <= n
        BY <1>2, <1>4, <1>5, <3>1 DEF ForceInv, PublishedOnRecord
      <3> QED BY <1>2, <3>2, OnRecordKept
    <2>2. CASE req.op # "revert"
      <3>1. SnapshotOf(staged'[q].rules, q)
        BY <2>2 DEF Stages
      <3>2. e \in Entries /\ SeenState(q, e.id) = "active"
        BY <1>5, <3>1 DEF SnapshotOf
      <3>3. e.id \in RuleIds
        BY <3>2 DEF Entries
      <3>4. (req.op = "activate" /\ req.subject = e.id) \/ rules[e.id].state = "active"
        BY <1>1, <3>2 DEF SeenState
      <3>5. PICK v \in Nat : v = Len(rulesets) /\ v <= n
        BY <1>2, <1>4
      <3> QED BY <1>2, <3>3, <3>4, <3>5, OnRecordKept DEF ForceInv
    <2> QED BY <2>1, <2>2
  <1>6. StagedOnRecord(q)'
    <2>1. staged'[q].next = n /\ requests'[q] = req
      BY <1>1, <1>4 DEF Stages
    <2>2. \A r : OnRecord(r, n)' => OnRecord(r, staged[q].next)'
      BY <2>1 DEF OnRecord
    <2> QED BY <1>5, <2>1, <2>2 DEF StagedOnRecord
  <1>7. \A r \in RuleIds : rules'[r].state = "active" => OnRecord(r, Len(rulesets))'
    BY <1>1 DEF ForceInv, OnRecord
  <1>8. \A v \in 1 .. Len(rulesets') : PublishedOnRecord(v)'
    BY <1>1 DEF ForceInv, PublishedOnRecord, OnRecord
  <1> QED BY <1>3, <1>6, <1>7, <1>8 DEF ForceInv

\* An activation commits with its record or not at all.
LEMMA ForceCommitted ==
  ASSUME IInv, ForceInv, NEW q \in Slots, NEW req, NEW rec, Commits(q, req, rec)
  PROVE  ForceInv'
  <1>1. PICK s, v, n : s = req.subject /\ v = Len(rulesets) /\ n = Len(changes)
    OBVIOUS
  <1>2. /\ req = requests[q] /\ Finished(q) /\ staged[q].next = v + 1
        /\ Len(rulesets') = v + 1 /\ rulesets'[v + 1].rules = staged[q].rules
        /\ \A i \in 1 .. v : rulesets'[i] = rulesets[i]
        /\ \A r \in RuleIds : rules'[r].state = SeenState(q, r)
    BY <1>1 DEF Commits
  <1>3. /\ n \in Nat /\ v \in Nat /\ v + 1 \in Nat /\ v <= v + 1 /\ TrailKept /\ Len(changes') = n + 1
        /\ changes'[n + 1] = rec /\ rec.event = PublishEvent(req) /\ rec.subject = s
        /\ rec.ruleset_version = v + 1 /\ (rec.recorded = TRUE \/ rec.event \notin AllOrNothing)
    BY <1>1 DEF Commits, Logs, TrailKept, IInv, TypeOK
  <1>4. ASSUME req.op = "activate" PROVE OnRecord(s, v + 1)'
    <2>1. rec.event \in Activations /\ rec.recorded = TRUE
      BY <1>3, <1>4 DEF PublishEvent, Activations, AllOrNothing
    <2>2. n + 1 \in 1 .. Len(changes')
      BY <1>3
    <2> QED BY <1>3, <2>1, <2>2 DEF OnRecord
  <1>5. ASSUME NEW r \in RuleIds, rules'[r].state = "active" PROVE OnRecord(r, v + 1)'
    <2>1. (req.op = "activate" /\ s = r) \/ rules[r].state = "active"
      BY <1>1, <1>2, <1>5 DEF SeenState
    <2>2. rules[r].state = "active" => OnRecord(r, v)
      BY <1>1 DEF ForceInv
    <2> QED BY <1>3, <1>4, <2>1, <2>2, OnRecordKept
  <1>6. ASSUME NEW p \in Slots PROVE StagedOnRecord(p)'
    <2>1. CASE p = q
      BY <1>2, <2>1 DEF Finished, StagedOnRecord
    <2>2. CASE p # q
      <3>1. staged'[p] = staged[p] /\ requests'[p] = requests[p]
        BY <1>2, <2>2 DEF Finished
      <3>2. PICK m \in Nat : m = staged[p].next
        BY DEF IInv, TypeOK, Stagings
      <3>3. ASSUME NEW e \in staged[p].rules, e.state = "active", m # 0
            PROVE  OnRecord(e.id, m)' \/ (requests[p].op = "activate" /\ requests[p].subject = e.id)
        <4>1. m <= m /\ (OnRecord(e.id, m) \/ (requests[p].op = "activate" /\ requests[p].subject = e.id))
          BY <3>2, <3>3 DEF ForceInv, StagedOnRecord
        <4> QED BY <1>3, <4>1, OnRecordKept
      <3>4. \A r : OnRecord(r, m)' => OnRecord(r, staged[p].next)'
        BY <3>1, <3>2 DEF OnRecord
      <3> QED BY <3>1, <3>2, <3>3, <3>4 DEF StagedOnRecord
    <2> QED BY <2>1, <2>2
  <1>7. ASSUME NEW i \in 1 .. v + 1, NEW e \in rulesets'[i].rules, e.state = "active"
        PROVE  OnRecord(e.id, i)'
    <2>1. CASE i \in 1 .. v
      <3>1. OnRecord(e.id, i) /\ i \in Nat /\ i <= i
        BY <1>1, <1>2, <1>3, <1>7, <2>1 DEF ForceInv, PublishedOnRecord
      <3> QED BY <1>3, <3>1, OnRecordKept
    <2>2. CASE i = v + 1
      <3>1. OnRecord(e.id, v + 1) \/ (req.op = "activate" /\ s = e.id)
        BY <1>1, <1>2, <1>3, <1>7, <2>2 DEF ForceInv, StagedOnRecord
      <3>2. OnRecord(e.id, v + 1)'
        BY <1>3, <1>4, <3>1, OnRecordKept
      <3> QED BY <2>2, <3>2
    <2> QED BY <1>3, <2>1, <2>2
  <1>8. \A r \in RuleIds : rules'[r].state = "active" => OnRecord(r, Len(rulesets))'
    BY <1>2, <1>5 DEF OnRecord
  <1>9. \A i \in 1 .. Len(rulesets') : PublishedOnRecord(i)'
    BY <1>2, <1>7 DEF PublishedOnRecord
  <1> QED BY <1>6, <1>8, <1>9 DEF ForceInv

LEMMA ForceInductive == Spec => []ForceInv
  <1>1. Init => ForceInv
    BY DEF Init, ForceInv, StagedOnRecord, NoRow, NotStaged
  <1>2. IInv /\ ForceInv /\ [Next]_vars => ForceInv'
    BY QuietSteps, ForceQuiet, ForceStaged, ForceCommitted
  <1> QED BY <1>1, <1>2, Inductive, PTL DEF Spec

\* Although reverts and list changes may commit without their record, and later
\* versions copy what is in force from the tables or from an old version: no
\* version ever published has a rule in force whose activation is not on record.
THEOREM ForceIsOnRecord == Spec => []ForceOnRecord
  <1>1. IInv /\ ForceInv => ForceOnRecord
    <2> SUFFICES ASSUME IInv, ForceInv PROVE ForceOnRecord
      OBVIOUS
    <2>1. DOMAIN changes = 1 .. Len(changes) /\ DOMAIN rulesets = 1 .. Len(rulesets)
      BY DEF IInv, TypeOK
    <2> QED BY <2>1 DEF ForceInv, PublishedOnRecord, OnRecord, ForceOnRecord
  <1> QED BY <1>1, Inductive, ForceInductive, PTL
-----------------------------------------------------------------------------
(* The latest version and the tables differ only where a record says so.   *)

\* S says of rule r what a row with this state and expression says.
Matches(S, r, state, expression) ==
    \A e \in Entries : e.id = r => (e \in S <=> e.state = state /\ e.expression = expression)

\* r was edited or shadowed after version w was published.
Touched(r, w) ==
    \E m \in 1 .. Len(changes) :
        /\ changes[m].subject = r /\ changes[m].event \in {"rule.shadowed", "rule.edited"}
        /\ \A j \in 1 .. Len(changes) : (w # 0 /\ changes[j].ruleset_version = w) => j < m

TablesAgree ==
    \A j \in 1 .. Len(changes) :
        ( /\ changes[j].ruleset_version = Len(rulesets) /\ Len(rulesets) # 0
          /\ changes[j].event # "ruleset.reverted" ) =>
        /\ \A r \in RuleIds :
              \/ Matches(rulesets[Len(rulesets)].rules, r, rules[r].state, rules[r].expression)
              \/ Touched(r, Len(rulesets) - 1)
        /\ \A n \in ListNames : lists[n] \in {rulesets[Len(rulesets)].lists[n], None}

StagedAgrees(q) ==
    (staged[q].next = Len(rulesets) + 1 /\ requests[q].op # "revert") =>
        /\ \A r \in RuleIds : \/ Matches(staged[q].rules, r, SeenState(q, r), rules[r].expression)
                              \/ Touched(r, Len(rulesets))
        /\ \A n \in ListNames : SeenList(q, n) \in {staged[q].lists[n], None}

AgreeInv == TablesAgree /\ \A q \in Slots : StagedAgrees(q)

LEMMA TouchedKept ==
  ASSUME IInv, Extends0, NEW r, NEW w \in Nat
  PROVE  /\ Touched(r, w) => Touched(r, w)'
         /\ TouchedNow(r) => Touched(r, w)'
  <1>1. Len(changes) \in Nat /\ Len(changes') \in Nat /\ Len(changes') >= Len(changes)
    BY DEF IInv, TypeOK, Extends0
  <1>2. \A j \in 1 .. Len(changes') : \/ j \in 1 .. Len(changes) /\ changes'[j] = changes[j]
                                    \/ changes'[j].ruleset_version = 0
    BY <1>1 DEF Extends0
  <1>3. ASSUME Touched(r, w) PROVE Touched(r, w)'
    <2>1. PICK m \in 1 .. Len(changes) :
             /\ changes[m].subject = r /\ changes[m].event \in {"rule.shadowed", "rule.edited"}
             /\ \A j \in 1 .. Len(changes) : (w # 0 /\ changes[j].ruleset_version = w) => j < m
      BY <1>3 DEF Touched
    <2>2. m \in 1 .. Len(changes') /\ changes'[m] = changes[m]
      BY <1>1 DEF Extends0
    <2> QED BY <1>2, <2>1, <2>2 DEF Touched
  <1>4. ASSUME TouchedNow(r) PROVE Touched(r, w)'
    <2>1. \A j \in 1 .. Len(changes') : (w # 0 /\ changes'[j].ruleset_version = w) => j < Len(changes) + 1
      BY <1>1, <1>2
    <2>2. Len(changes) + 1 \in 1 .. Len(changes')
      BY <1>1, <1>4 DEF TouchedNow
    <2> QED BY <1>4, <2>1, <2>2 DEF Touched, TouchedNow
  <1> QED BY <1>3, <1>4

\* A row that was absent and is a draft was and is in no snapshot.
LEMMA MatchesKept ==
  ASSUME NEW S, NEW r \in RuleIds, NEW x, NEW y, Matches(S, r, "absent", x)
  PROVE  Matches(S, r, "draft", y)
  BY DEF Matches, Entries

LEMMA AgreeQuiet ==
  ASSUME IInv, Ordered, ApprovalInv, AgreeInv, Quiet
  PROVE  AgreeInv'
  <1>1. /\ Extends0 /\ UNCHANGED rulesets /\ Len(changes) \in Nat /\ Len(changes') \in Nat
        /\ Len(rulesets) \in Nat
    BY DEF Quiet, IInv, TypeOK, Extends0
  <1>2. ASSUME NEW j \in 1 .. Len(changes'), changes'[j].ruleset_version = Len(rulesets),
               Len(rulesets) # 0, changes'[j].event # "ruleset.reverted"
        PROVE  /\ \A r \in RuleIds :
                     \/ Matches(rulesets[Len(rulesets)].rules, r, rules'[r].state, rules'[r].expression)
                     \/ Touched(r, Len(rulesets) - 1)'
               /\ \A n \in ListNames : lists'[n] \in {rulesets[Len(rulesets)].lists[n], None}
    <2>1. j \in 1 .. Len(changes) /\ changes'[j] = changes[j]
      BY <1>1, <1>2 DEF Extends0
    <2>2. /\ \A r \in RuleIds :
                \/ Matches(rulesets[Len(rulesets)].rules, r, rules[r].state, rules[r].expression)
                \/ Touched(r, Len(rulesets) - 1)
          /\ \A n \in ListNames : lists[n] \in {rulesets[Len(rulesets)].lists[n], None}
      BY <1>2, <2>1 DEF AgreeInv, TablesAgree
    <2>3. PICK w \in Nat : w = Len(rulesets) - 1
      BY <1>1, <1>2
    <2>4. ASSUME NEW r \in RuleIds
          PROVE  \/ Matches(rulesets[Len(rulesets)].rules, r, rules'[r].state, rules'[r].expression)
                 \/ Touched(r, w)'
      <3>1. CASE rules'[r].state = rules[r].state /\ rules'[r].expression = rules[r].expression
        BY <1>1, <2>2, <2>3, <3>1, TouchedKept
      <3>2. CASE TouchedNow(r)
        BY <1>1, <3>2, TouchedKept
      <3>3. CASE rules[r] = NoRow /\ rules'[r].state = "draft"
        <4>1. rules[r].state = "absent"
          BY <3>3 DEF NoRow
        <4> QED BY <1>1, <2>2, <2>3, <3>3, <4>1, TouchedKept, MatchesKept
      <3> QED BY <3>1, <3>2, <3>3 DEF Quiet, TableQuiet
    <2>5. \A n \in ListNames : lists'[n] \in {lists[n], None}
      BY DEF Quiet
    <2> QED BY <1>1, <2>2, <2>3, <2>4, <2>5
  <1>3. TablesAgree'
    BY <1>1, <1>2 DEF TablesAgree
  <1>4. ASSUME NEW p \in Slots PROVE StagedAgrees(p)'
    <2>1. CASE staged'[p].next = 0
      BY <1>1, <2>1 DEF StagedAgrees
    <2>2. CASE requests'[p] = requests[p] /\ staged'[p] = staged[p]
      <3> SUFFICES ASSUME staged[p].next = Len(rulesets) + 1, requests[p].op # "revert"
                   PROVE  /\ \A r \in RuleIds :
                                \/ Matches(staged[p].rules, r, SeenState(p, r)', rules'[r].expression)
                                \/ Touched(r, Len(rulesets))'
                          /\ \A n \in ListNames : SeenList(p, n)' \in {staged[p].lists[n], None}
        BY <1>1, <2>2 DEF StagedAgrees
      <3>1. /\ \A r \in RuleIds : \/ Matches(staged[p].rules, r, SeenState(p, r), rules[r].expression)
                                  \/ Touched(r, Len(rulesets))
            /\ \A n \in ListNames : SeenList(p, n) \in {staged[p].lists[n], None}
        BY DEF AgreeInv, StagedAgrees
      <3>2. PICK w \in Nat : w = Len(rulesets)
        BY <1>1
      <3>3. ASSUME NEW r \in RuleIds
            PROVE  \/ Matches(staged[p].rules, r, SeenState(p, r)', rules'[r].expression)
                   \/ Touched(r, w)'
        <4>1. CASE rules'[r].state = rules[r].state /\ rules'[r].expression = rules[r].expression
          <5>1. SeenState(p, r)' = SeenState(p, r)
            BY <2>2, <4>1 DEF SeenState
          <5> QED BY <1>1, <3>1, <3>2, <4>1, <5>1, TouchedKept
        <4>2. CASE TouchedNow(r)
          BY <1>1, <4>2, TouchedKept
        <4>3. CASE rules[r] = NoRow /\ rules'[r].state = "draft"
          <5>1. ~ (requests[p].op \in {"activate", "archive"} /\ requests[p].subject = r)
            BY <4>3 DEF ApprovalInv, CopyApproved, RuleOps, NoRow
          <5>2. SeenState(p, r) = "absent" /\ SeenState(p, r)' = "draft"
            BY <2>2, <4>3, <5>1 DEF SeenState, NoRow
          <5> QED BY <1>1, <3>1, <3>2, <5>2, TouchedKept, MatchesKept
        <4> QED BY <4>1, <4>2, <4>3 DEF Quiet, TableQuiet
      <3>4. \A n \in ListNames : SeenList(p, n)' \in {SeenList(p, n), None}
        BY <2>2 DEF Quiet, SeenList
      <3> QED BY <1>1, <3>1, <3>2, <3>3, <3>4
    <2> QED BY <2>1, <2>2 DEF Quiet
  <1> QED BY <1>3, <1>4 DEF AgreeInv

LEMMA AgreeStaged ==
  ASSUME IInv, AgreeInv, NEW q \in Slots, NEW req, Stages(q, req)
  PROVE  AgreeInv'
  <1>1. UNCHANGED <<rules, lists, rulesets, changes, requests>> /\ req = requests[q]
    BY DEF Stages
  <1>2. TablesAgree'
    BY <1>1 DEF AgreeInv, TablesAgree, Touched
  <1>3. ASSUME NEW p \in Slots \ {q} PROVE StagedAgrees(p)'
    <2>1. staged'[p] = staged[p]
      BY DEF Stages
    <2> QED BY <1>1, <2>1 DEF AgreeInv, StagedAgrees, Touched, SeenState, SeenList
  <1>4. ASSUME req.op # "revert"
        PROVE  /\ \A r \in RuleIds : Matches(staged'[q].rules, r, SeenState(q, r), rules[r].expression)
               /\ \A n \in ListNames : SeenList(q, n) = staged'[q].lists[n]
    BY <1>4 DEF Stages, SnapshotOf, Matches
  <1>5. StagedAgrees(q)'
    BY <1>1, <1>4 DEF StagedAgrees, SeenState, SeenList
  <1> QED BY <1>2, <1>3, <1>5 DEF AgreeInv

LEMMA AgreeCommitted ==
  ASSUME IInv, Ordered, AgreeInv, NEW q \in Slots, NEW req, NEW rec, Commits(q, req, rec)
  PROVE  AgreeInv'
  <1>1. PICK n, v : n = Len(changes) /\ v = Len(rulesets)
    OBVIOUS
  <1>2. n \in Nat /\ v \in Nat
    BY <1>1 DEF IInv, TypeOK
  <1>3. /\ Len(changes') = n + 1 /\ changes'[n + 1] = rec /\ \A i \in 1 .. n : changes'[i] = changes[i]
        /\ rec.event = PublishEvent(req) /\ rec.ruleset_version = v + 1
    BY <1>1 DEF Commits, Logs
  <1>4. /\ Len(rulesets') = v + 1 /\ rulesets'[v + 1].rules = staged[q].rules
        /\ rulesets'[v + 1].lists = staged[q].lists
        /\ req = requests[q] /\ staged[q].next = v + 1 /\ Finished(q)
        /\ \A r \in RuleIds : rules'[r].state = SeenState(q, r) /\ rules'[r].expression = rules[r].expression
        /\ \A m \in ListNames : lists'[m] = SeenList(q, m)
    BY <1>1 DEF Commits
  <1>5. \A j \in 1 .. n : changes[j].ruleset_version \in 0 .. v
    BY <1>1 DEF Ordered
  <1>6. ASSUME NEW r, Touched(r, v) PROVE Touched(r, v)'
    <2>1. PICK m \in 1 .. n :
             /\ changes[m].subject = r /\ changes[m].event \in {"rule.shadowed", "rule.edited"}
             /\ \A j \in 1 .. n : (v # 0 /\ changes[j].ruleset_version = v) => j < m
      BY <1>1, <1>6 DEF Touched
    <2>2. m \in 1 .. n + 1 /\ changes'[m] = changes[m]
      BY <1>2, <1>3
    <2>3. \A j \in 1 .. n + 1 : (v # 0 /\ changes'[j].ruleset_version = v) => j < m
      BY <1>2, <1>3, <2>1
    <2> QED BY <1>3, <2>1, <2>2, <2>3 DEF Touched
  <1>7. ASSUME NEW j \in 1 .. n + 1, changes'[j].ruleset_version = v + 1, changes'[j].event # "ruleset.reverted"
        PROVE  /\ \A r \in RuleIds :
                     \/ Matches(rulesets'[v + 1].rules, r, rules'[r].state, rules'[r].expression)
                     \/ Touched(r, v)'
               /\ \A m \in ListNames : lists'[m] \in {rulesets'[v + 1].lists[m], None}
    <2>1. j = n + 1
      BY <1>2, <1>3, <1>5, <1>7
    <2>2. requests[q].op # "revert"
      BY <1>3, <1>4, <1>7, <2>1 DEF PublishEvent
    <2>3. /\ \A r \in RuleIds : \/ Matches(staged[q].rules, r, SeenState(q, r), rules[r].expression)
                                \/ Touched(r, v)
          /\ \A m \in ListNames : SeenList(q, m) \in {staged[q].lists[m], None}
      BY <1>1, <1>4, <2>2 DEF AgreeInv, StagedAgrees
    <2> QED BY <1>4, <1>6, <2>3
  <1>8. TablesAgree'
    <2>1. Len(rulesets') - 1 = v
      BY <1>2, <1>4
    <2>2. ASSUME NEW r, Touched(r, v)' PROVE Touched(r, Len(rulesets) - 1)'
      BY <2>1, <2>2
    <2> QED BY <1>3, <1>4, <1>7, <2>2 DEF TablesAgree
  <1>9. ASSUME NEW p \in Slots PROVE StagedAgrees(p)'
    <2>1. staged'[p].next = 0 \/ staged'[p].next = staged[p].next
      BY <1>4 DEF Finished
    <2>2. staged[p].next \in 0 .. v + 1
      BY <1>1 DEF IInv, Numbered
    <2>3. staged'[p].next # Len(rulesets') + 1
      BY <1>2, <1>4, <2>1, <2>2
    <2> QED BY <2>3 DEF StagedAgrees
  <1> QED BY <1>8, <1>9 DEF AgreeInv

LEMMA AgreeInductive == Spec => []AgreeInv
  <1>1. Init => AgreeInv
    BY DEF Init, AgreeInv, TablesAgree, StagedAgrees, NotStaged
  <1>2. IInv /\ Ordered /\ ApprovalInv /\ AgreeInv /\ [Next]_vars => AgreeInv'
    BY QuietSteps, AgreeQuiet, AgreeStaged, AgreeCommitted
  <1> QED BY <1>1, <1>2, Inductive, ExplainedInductive, ApprovalInductive, PTL DEF Spec
PublishedOf(S, r) == {<<e.state, e.expression>> : e \in {x \in S : x.id = r}}

CurrentOf(state, expression) ==
    IF state \in {"active", "shadow"} THEN {<<state, expression>>} ELSE {}

LEMMA MatchesPublished ==
  ASSUME NEW S \in SUBSET Entries, NEW r \in RuleIds, NEW state, NEW expression \in Expressions \cup {None},
         Matches(S, r, state, expression)
  PROVE  PublishedOf(S, r) = CurrentOf(state, expression)
  <1>1. ASSUME NEW e \in S, e.id = r
        PROVE  e.state = state /\ e.expression = expression /\ state \in {"active", "shadow"}
    BY <1>1 DEF Matches, Entries
  <1>2. CASE state \in {"active", "shadow"}
    <2>1. PICK e : e = [id |-> r, state |-> state, expression |-> expression]
      OBVIOUS
    <2>2. e \in Entries /\ e.id = r /\ e.state = state /\ e.expression = expression
      BY <1>2, <2>1 DEF Entries
    <2>3. e \in S
      BY <2>2 DEF Matches
    <2> QED BY <1>1, <1>2, <2>2, <2>3 DEF PublishedOf, CurrentOf
  <1>3. CASE state \notin {"active", "shadow"}
    BY <1>1, <1>3 DEF PublishedOf, CurrentOf
  <1> QED BY <1>2, <1>3

\* The version a decision is taken from is what the tables say: they differ
\* only where a shadowing or an edit, which publish nothing, came after the
\* version before, where a list was deleted, or after a revert; in particular
\* no publisher that lost a race leaves a row no version accounts for.
THEOREM ForceIsExplained == Spec => []TablesExplained
  <1>1. IInv /\ Explained /\ Ordered /\ AgreeInv => TablesExplained
    <2> SUFFICES ASSUME IInv, Explained, Ordered, AgreeInv PROVE TablesExplained
      OBVIOUS
    <2> DEFINE v == Len(rulesets)
               record(w) == CHOOSE j \in DOMAIN changes : changes[j].ruleset_version = w
               since == IF v = 1 THEN 1 ELSE record(v - 1) + 1
               published(r) == {<<e.state, e.expression>> : e \in {x \in rulesets[v].rules : x.id = r}}
               current(r) == IF rules[r].state \in {"active", "shadow"}
                             THEN {<<rules[r].state, rules[r].expression>>} ELSE {}
    <2>1. /\ DOMAIN changes = 1 .. Len(changes) /\ Len(changes) \in Nat /\ v \in Nat
          /\ rulesets \in Seq(RuleSets) /\ rules \in [RuleIds -> Rows]
      BY DEF IInv, TypeOK
    <2>2. \A w \in 1 .. v : record(w) \in 1 .. Len(changes) /\ changes[record(w)].ruleset_version = w
      BY <2>1 DEF Explained
    <2>3. ASSUME v > 0, changes[record(v)].event # "ruleset.reverted"
          PROVE  /\ \A r \in RuleIds : published(r) # current(r) =>
                       \E m \in since .. Len(changes) : /\ changes[m].subject = r
                                                        /\ changes[m].event \in {"rule.shadowed", "rule.edited"}
                 /\ \A n \in ListNames : lists[n] \in {rulesets[v].lists[n], None}
      <3>1. /\ \A r \in RuleIds : \/ Matches(rulesets[v].rules, r, rules[r].state, rules[r].expression)
                                  \/ Touched(r, v - 1)
            /\ \A n \in ListNames : lists[n] \in {rulesets[v].lists[n], None}
        <4>1. v \in 1 .. v /\ v # 0
          BY <2>1, <2>3
        <4>2. record(v) \in 1 .. Len(changes) /\ changes[record(v)].ruleset_version = v
          BY <2>2, <4>1
        <4> HIDE DEF record
        <4> QED BY <2>3, <4>1, <4>2 DEF AgreeInv, TablesAgree
      <3>2. ASSUME NEW r \in RuleIds, published(r) # current(r)
            PROVE  \E m \in since .. Len(changes) : /\ changes[m].subject = r
                                                    /\ changes[m].event \in {"rule.shadowed", "rule.edited"}
        <4>1. rulesets[v] \in RuleSets
          BY <2>1, <2>3
        <4>2. rulesets[v].rules \in SUBSET Entries /\ rules[r].expression \in Expressions \cup {None}
          BY <2>1, <4>1 DEF RuleSets, Rows
        <4>3. ~ Matches(rulesets[v].rules, r, rules[r].state, rules[r].expression)
          <5>1. /\ published(r) = PublishedOf(rulesets[v].rules, r)
                /\ current(r) = CurrentOf(rules[r].state, rules[r].expression)
            BY DEF PublishedOf, CurrentOf
          <5> HIDE DEF published, current
          <5> QED BY <3>2, <4>2, <5>1, MatchesPublished
        <4>4. PICK m \in 1 .. Len(changes) :
                 /\ changes[m].subject = r /\ changes[m].event \in {"rule.shadowed", "rule.edited"}
                 /\ \A j \in 1 .. Len(changes) : (v - 1 # 0 /\ changes[j].ruleset_version = v - 1) => j < m
          BY <3>1, <4>3 DEF Touched
        <4>5. m \in since .. Len(changes)
          <5>1. CASE v = 1
            BY <5>1
          <5>2. CASE v # 1
            <6>0. v - 1 \in 1 .. v /\ v - 1 # 0
              <7> HIDE DEF record, v
              <7> QED BY <2>1, <2>3, <5>2
            <6>1. PICK w \in 1 .. v : w = v - 1 /\ w # 0
              BY <6>0
            <6>2. PICK i \in 1 .. Len(changes) : i = record(w) /\ changes[i].ruleset_version = w
              BY <2>2
            <6>3. since = i + 1
              BY <5>2, <6>1, <6>2
            <6>4. i < m
              BY <4>4, <6>1, <6>2
            <6> HIDE DEF since
            <6> QED BY <2>1, <6>3, <6>4
          <5> QED BY <5>1, <5>2
        <4> QED BY <4>4, <4>5
      <3> QED BY <3>1, <3>2
    <2> QED BY <2>3 DEF TablesExplained
  <1> QED BY <1>1, Inductive, ExplainedInductive, AgreeInductive, PTL
=============================================================================
