-------------------------- MODULE GroupsWorkspace --------------------------
(***************************************************************************)
(* The groups page of the web admin (groups-workspace.tsx) over the groups *)
(* service: what the page keeps of a group while the server, other admins' *)
(* requests and learners who scan a group's QR link move on.  A request is *)
(* sent, served and answered in three steps; `saving` disables the buttons *)
(* but neither the list of groups, nor the inputs, whose blur saves, nor   *)
(* the status of an assignment.                                            *)
(***************************************************************************)
EXTENDS Naturals, FiniteSets, TLC

CONSTANTS
    Group,      \* identifiers of groups, created or not
    Person,     \* active users
    Plan,       \* identifiers of assignments
    Name,       \* names of groups
    Call,       \* requests that may be under way at once
    Blank,      \* the empty name
    MaxClicks   \* bound: what the administrator does

VARIABLES
    row,        \* the groups table: name and status, or NoRow
    roster,     \* memberships of each group
    plan,       \* assignments: group, status, targets, whether they start later
    link,       \* whether a group has a live QR link
    desk,       \* the state of the component
    calls,      \* requests of the page
    clicks      \* clicks and inputs so far

groupsVars == <<row, roster, plan, link, desk, calls, clicks>>
groupTables == <<row, roster, plan, link>>

\* "closed" stands for draft, completed and cancelled, which nothing tells apart.
PlanStatus == {"scheduled", "active", "closed"}
Row == [name : Name, status : {"active", "archived"}]
NoRow == [none |-> TRUE]
PlanRow == [of : Group, status : PlanStatus, targets : SUBSET Person, later : BOOLEAN]
NoPlan == [none |-> TRUE]
NoCall == [kind |-> "none"]
NoEdit == [none |-> TRUE]

Created(g) == row[g] # NoRow
PlansOf(g) == {p \in Plan : plan[p] # NoPlan /\ plan[p].of = g}
Sheet(p) == [id |-> p, status |-> plan[p].status, targets |-> plan[p].targets]

-----------------------------------------------------------------------------
(* The service.  A refused request answers nothing the page keeps.          *)

Taken(name, g) == \E h \in Group \ {g} : Created(h) /\ row[h].name = name

\* get_group_assignment_by_id
PlanOfGroup(g, p) == plan[p] # NoPlan /\ plan[p].of = g

Reply(i, answer) ==
    /\ calls' = [calls EXCEPT ![i] = [stage |-> "answered", answer |-> answer] @@ @]
    /\ UNCHANGED <<desk, clicks>>

CreateGroup(i) ==
    \E g \in Group :
        /\ ~Created(g) /\ ~Taken(calls[i].name, g)
        /\ row' = [row EXCEPT ![g] = [name |-> calls[i].name, status |-> "active"]]
        /\ Reply(i, [group |-> g, row |-> row'[g]])
        /\ UNCHANGED <<roster, plan, link>>

\* update_group, archive_group and restore_group
ChangeGroup(i) ==
    LET c == calls[i]
    IN  /\ Created(c.group)
        /\ \/ /\ c.kind = "rename" /\ ~Taken(c.name, c.group)
              /\ row' = [row EXCEPT ![c.group].name = c.name]
           \/ /\ c.kind = "archive"
              /\ row' = [row EXCEPT ![c.group].status = c.status]
        /\ Reply(i, [group |-> c.group, row |-> row'[c.group]])
        /\ UNCHANGED <<roster, plan, link>>

ReplaceMembers(i) ==
    /\ Created(calls[i].group)
    /\ roster' = [roster EXCEPT ![calls[i].group] = calls[i].marked]
    /\ Reply(i, calls[i].marked)
    /\ UNCHANGED <<row, plan, link>>

CreateAssignment(i) ==
    LET c == calls[i]
    IN  /\ Created(c.group) /\ row[c.group].status = "active"
        /\ \E p \in Plan :
            /\ plan[p] = NoPlan
            /\ plan' = [plan EXCEPT ![p] = [of |-> c.group, status |-> c.status,
                                            targets |-> c.targets, later |-> c.later]]
            /\ Reply(i, [id |-> p, status |-> c.status, targets |-> c.targets])
        /\ UNCHANGED <<row, roster, link>>

\* The dates are written as the payload has them, and the page sends none.
UpdateAssignment(i) ==
    LET c == calls[i]
        old == plan[c.plan]
        status == IF c.kind = "status" THEN c.status ELSE old.status
        targets == IF c.kind = "targets" THEN c.targets ELSE old.targets
    IN  /\ PlanOfGroup(c.group, c.plan)
        /\ plan' = [plan EXCEPT ![c.plan] = [of |-> old.of, status |-> status,
                                             targets |-> targets, later |-> FALSE]]
        /\ Reply(i, [id |-> c.plan, status |-> status, targets |-> targets])
        /\ UNCHANGED <<row, roster, link>>

\* create_group_qr_link: the links issued before are deleted.
IssueLink(i) ==
    /\ Created(calls[i].group) /\ row[calls[i].group].status = "active"
    /\ link' = [link EXCEPT ![calls[i].group] = TRUE]
    /\ Reply(i, NoRow)
    /\ UNCHANGED <<row, roster, plan>>

Serve(i) ==
    /\ calls[i] # NoCall /\ calls[i].stage = "sent"
    /\ \/ calls[i].kind = "create" /\ CreateGroup(i)
       \/ calls[i].kind \in {"rename", "archive"} /\ ChangeGroup(i)
       \/ calls[i].kind = "roster" /\ ReplaceMembers(i)
       \/ calls[i].kind = "assign" /\ CreateAssignment(i)
       \/ calls[i].kind \in {"status", "targets"} /\ UpdateAssignment(i)
       \/ calls[i].kind = "link" /\ IssueLink(i)

\* resolve_group_qr_link: a learner opens the one assignment that is open to
\* them, and becomes a member.
OpenTo(p, u) ==
    /\ plan[p].status \in {"active", "scheduled"} /\ ~plan[p].later
    /\ plan[p].targets # {} => u \in plan[p].targets

JoinByLink(g, u) ==
    /\ link[g] /\ row[g].status = "active"
    /\ Cardinality({p \in PlansOf(g) : OpenTo(p, u)}) = 1
    /\ roster' = [roster EXCEPT ![g] = @ \cup {u}]
    /\ UNCHANGED <<row, plan, link, desk, calls, clicks>>

LinkExpires(g) ==
    /\ link[g]
    /\ link' = [link EXCEPT ![g] = FALSE]
    /\ UNCHANGED <<row, roster, plan, desk, calls, clicks>>

-----------------------------------------------------------------------------
(* The page *)

Click == clicks < MaxClicks /\ clicks' = clicks + 1

\* The component is mounted: what the server component read initialises it.
\* `shown` names the group whose members and assignments were read.
Opened(g) ==
    [selected |-> g, shown |-> g, rows |-> row, name |-> row[g].name,
     members |-> roster[g], marked |-> roster[g], plans |-> {Sheet(p) : p \in PlansOf(g)},
     edit |-> NoEdit, saving |-> FALSE]

\* Requests of the page before go on, and nobody waits for their answers.
Mount(g) ==
    /\ Created(g)
    /\ desk' = Opened(g)
    /\ calls' = [i \in Call |-> IF calls[i] # NoCall /\ calls[i].stage = "sent"
                                THEN [calls[i] EXCEPT !.heard = FALSE] ELSE NoCall]
    /\ Click /\ UNCHANGED groupTables

\* pickGroup, of rows that may lack the group: the URL changes and the server
\* component renders again, but the mounted component keeps its states.
Picked(g, rows) ==
    [desk EXCEPT !.selected = g, !.name = IF rows[g] = NoRow THEN Blank ELSE rows[g].name]

PickGroup(g) ==
    /\ desk.rows[g] # NoRow /\ g # desk.selected /\ desk.edit = NoEdit
    /\ desk' = Picked(g, desk.rows)
    /\ Click /\ UNCHANGED <<groupTables, calls>>

TypeName(name) ==
    /\ name # desk.name
    /\ desk' = [desk EXCEPT !.name = name]
    /\ Click /\ UNCHANGED <<groupTables, calls>>

Flip(set, u) == IF u \in set THEN set \ {u} ELSE set \cup {u}

\* A tick in the list of users, or in the modal of an assignment's targets.
Mark(u) ==
    /\ desk' = IF desk.edit = NoEdit THEN [desk EXCEPT !.marked = Flip(@, u)]
               ELSE [desk EXCEPT !.edit.targets = Flip(@, u)]
    /\ Click /\ UNCHANGED <<groupTables, calls>>

EditTargets(s) ==
    /\ desk.edit = NoEdit /\ ~desk.saving
    /\ desk' = [desk EXCEPT !.edit = [plan |-> s.id, targets |-> s.targets]]
    /\ Click /\ UNCHANGED <<groupTables, calls>>
CancelTargets ==
    /\ desk.edit # NoEdit
    /\ desk' = [desk EXCEPT !.edit = NoEdit]
    /\ Click /\ UNCHANGED <<groupTables, calls>>

Send(call) ==
    /\ NoCall \in {calls[i] : i \in Call}
    /\ LET i == CHOOSE i \in Call : calls[i] = NoCall
       IN  calls' = [calls EXCEPT ![i] = [stage |-> "sent", heard |-> TRUE] @@ call]
    /\ desk' = [desk EXCEPT !.saving = TRUE]
    /\ Click /\ UNCHANGED groupTables

HandleCreateGroup(name) ==
    ~desk.saving /\ name # Blank /\ Send([kind |-> "create", name |-> name])

SendName == Send([kind |-> "rename", group |-> desk.selected, name |-> desk.name])
HandleUpdateGroup == ~desk.saving /\ desk.name # Blank /\ SendName
HandleAutoSaveGroup ==
    desk.name \notin {Blank, desk.rows[desk.selected].name} /\ SendName

HandleToggleArchive ==
    /\ ~desk.saving
    /\ Send([kind |-> "archive", group |-> desk.selected,
             status |-> IF desk.rows[desk.selected].status = "archived" THEN "active"
                        ELSE "archived"])

HandleSaveMembers ==
    /\ ~desk.saving
    /\ Send([kind |-> "roster", group |-> desk.selected, marked |-> desk.marked,
             from |-> desk.shown])

HandleCreateAssignment(targets, status, later) ==
    /\ ~desk.saving
    /\ Send([kind |-> "assign", group |-> desk.selected, targets |-> targets,
             status |-> status, later |-> later])

\* The status of an assignment is a <select> that is never disabled.
HandleAssignmentStatusChange(s, status) ==
    /\ status # s.status /\ desk.edit = NoEdit
    /\ Send([kind |-> "status", group |-> desk.selected, plan |-> s.id, status |-> status])

HandleSaveAssignmentTargets ==
    /\ desk.edit # NoEdit /\ ~desk.saving
    /\ Send([kind |-> "targets", group |-> desk.selected, plan |-> desk.edit.plan,
             targets |-> desk.edit.targets])

HandleGenerateGroupQr ==
    /\ ~desk.saving /\ desk.rows[desk.selected].status = "active"
    /\ Send([kind |-> "link", group |-> desk.selected])

\* What follows the await of each handler.
WithRow(a) == [desk.rows EXCEPT ![a.group] = a.row]
WithSheet(s) == {IF t.id = s.id THEN s ELSE t : t \in desk.plans}

After(c) ==
    CASE c.kind = "create" -> [Picked(c.answer.group, desk.rows) EXCEPT !.rows = WithRow(c.answer)]
      [] c.kind \in {"rename", "archive"} -> [desk EXCEPT !.rows = WithRow(c.answer)]
      [] c.kind = "roster" -> [desk EXCEPT !.members = c.answer, !.shown = c.group]
      [] c.kind = "assign" -> [desk EXCEPT !.plans = @ \cup {c.answer}]
      [] c.kind = "status" -> [desk EXCEPT !.plans = WithSheet(c.answer)]
      [] c.kind = "targets" -> [desk EXCEPT !.plans = WithSheet(c.answer), !.edit = NoEdit]
      [] c.kind = "link" -> desk

Answered(i) ==
    /\ calls[i] # NoCall /\ calls[i].stage = "answered"
    /\ desk' = IF calls[i].heard THEN [After(calls[i]) EXCEPT !.saving = FALSE] ELSE desk
    /\ calls' = [calls EXCEPT ![i] = NoCall]
    /\ UNCHANGED <<groupTables, clicks>>

\* Refused, lost on its way, or its answer lost.
CallFails(i) ==
    /\ calls[i] # NoCall
    /\ desk' = IF calls[i].heard THEN [desk EXCEPT !.saving = FALSE] ELSE desk
    /\ calls' = [calls EXCEPT ![i] = NoCall]
    /\ UNCHANGED <<groupTables, clicks>>

-----------------------------------------------------------------------------
GroupsInit ==
    \E g \in Group, name \in Name :
        /\ row = [h \in Group |-> IF h = g THEN [name |-> name, status |-> "active"] ELSE NoRow]
        /\ roster = [h \in Group |-> {}] /\ plan = [p \in Plan |-> NoPlan]
        /\ link = [h \in Group |-> FALSE] /\ calls = [i \in Call |-> NoCall]
        /\ desk = Opened(g) /\ clicks = 0

GroupsNext ==
    \/ \E i \in Call : Serve(i) \/ Answered(i) \/ CallFails(i)
    \/ \E g \in Group :
        \/ Mount(g) \/ PickGroup(g) \/ LinkExpires(g)
        \/ \E u \in Person : JoinByLink(g, u)
    \/ \E name \in Name \cup {Blank} : TypeName(name) \/ HandleCreateGroup(name)
    \/ \E u \in Person : Mark(u)
    \/ \E s \in desk.plans :
        EditTargets(s) \/ \E status \in PlanStatus : HandleAssignmentStatusChange(s, status)
    \/ \E targets \in SUBSET Person, status \in {"scheduled", "active"}, later \in BOOLEAN :
        HandleCreateAssignment(targets, status, later)
    \/ HandleUpdateGroup \/ HandleAutoSaveGroup \/ HandleToggleArchive
    \/ HandleSaveMembers \/ HandleSaveAssignmentTargets \/ HandleGenerateGroupQr
    \/ CancelTargets

GroupsSpec == GroupsInit /\ [][GroupsNext]_groupsVars

-----------------------------------------------------------------------------
(* Properties *)

GroupsTypeOK ==
    /\ row \in [Group -> Row \cup {NoRow}]
    /\ \E g \in Group : Created(g)
    /\ roster \in [Group -> SUBSET Person]
    /\ plan \in [Plan -> PlanRow \cup {NoPlan}]
    /\ link \in [Group -> BOOLEAN]
    /\ desk.selected \in Group /\ desk.shown \in Group
    /\ desk.marked \subseteq Person /\ desk.members \subseteq Person
    /\ desk.rows[desk.selected] # NoRow

\* The page may show the assignments of one group under the name of another,
\* and yet a status or target list saved there changes no other group's
\* assignment: the service looks the assignment up within the group.
PlansStayPut ==
    [][\A p \in Plan : plan[p] # NoPlan /\ plan'[p] # plan[p] =>
        \E i \in Call : /\ calls[i] # NoCall /\ calls[i].kind \in {"status", "targets"}
                        /\ calls[i].plan = p /\ calls[i].group = plan[p].of]_groupsVars

\* "After selecting a group, the full workflow will appear here: details,
\* members, and assignments": the roster saved for a group was ticked off in
\* that group's list of members.
RosterSavedForItsGroup ==
    \A i \in Call : calls[i] # NoCall /\ calls[i].kind = "roster" =>
        calls[i].from = calls[i].group
=============================================================================
