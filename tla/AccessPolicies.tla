--------------------------- MODULE AccessPolicies ---------------------------
(***************************************************************************)
(* Who may do what: the rules of the table rbac_policy_rules, the check of *)
(* every request (require_policy), and the table of the web admin that     *)
(* edits them (rbac-policy-table.tsx).  Saving sends every cell as a       *)
(* request of its own, all at once, each a transaction that first asks     *)
(* whether its sender may manage access at that moment.                    *)
(***************************************************************************)
EXTENDS FiniteSets, Naturals

CONSTANTS
    Policy,         \* keys of the policies
    Manage,         \* the one that lets a role edit them (rbac.manage)
    Role,           \* roles of the accounts
    EditorRole,     \* the one that edits (administrator)
    Grants,         \* roles of a policy in POLICY_ROLE_MAP, for those it knows
    Editor,         \* open tables
    MaxToggles      \* bound: cells switched and rules deleted

ASSUME PolicyConstants ==
    /\ Manage \in Policy /\ EditorRole \in Role
    /\ Grants \in [Policy -> SUBSET Role] /\ Grants[Manage] = {}

VARIABLES
    rules,          \* (policy, role) -> on, off or missing
    grid,           \* the table of an editor: cells that are on
    asked,          \* requests of a save that are not answered
    refusals,       \* whether one of them was refused
    phase,          \* open, saving, reading or saved: where an editor stands
    crossing,       \* another editor wrote while this one saved
    toggles         \* cells switched so far

policyVars == <<rules, grid, asked, refusals, phase, crossing, toggles>>

Cell == Policy \X Role
OnIn(table) == {c \in Cell : table[c] = "on"}

\* require_policy: the roles of enabled rules, else those of the default map.
AllowedRoles(policy) ==
    LET stored == {r \in Role : rules[<<policy, r>>] = "on"}
    IN  IF stored # {} THEN stored ELSE Grants[policy]

MayManage == EditorRole \in AllowedRoles(Manage)

\* buildMatrix: a rule that is missing is off.
BuildMatrix == OnIn(rules)

-----------------------------------------------------------------------------
\* The rules at first: those of the migrations, which let one role manage them.
PolicyInit ==
    /\ rules = [c \in Cell |->
                  IF c = <<Manage, EditorRole>> \/ c[2] \in Grants[c[1]] THEN "on" ELSE "missing"]
    /\ grid = [e \in Editor |-> {}] /\ asked = [e \in Editor |-> {}]
    /\ refusals = [e \in Editor |-> FALSE] /\ phase = [e \in Editor |-> "closed"]
    /\ crossing = [e \in Editor |-> FALSE] /\ toggles = 0

\* RbacPage loads the rules and opens the table.
OpenTable(e) ==
    /\ phase[e] = "closed" /\ MayManage
    /\ grid' = [grid EXCEPT ![e] = BuildMatrix]
    /\ phase' = [phase EXCEPT ![e] = "open"]
    /\ UNCHANGED <<rules, asked, refusals, crossing, toggles>>

HandleToggle(e, c) ==
    /\ phase[e] \in {"open", "saved"} /\ toggles < MaxToggles
    /\ grid' = [grid EXCEPT ![e] = IF c \in @ THEN @ \ {c} ELSE @ \cup {c}]
    /\ phase' = [phase EXCEPT ![e] = "open"]
    /\ toggles' = toggles + 1
    /\ UNCHANGED <<rules, asked, refusals, crossing>>

\* handleSave: every cell, on or off, is sent.
HandleSave(e) ==
    /\ phase[e] \in {"open", "saved"}
    /\ phase' = [phase EXCEPT ![e] = "saving"]
    /\ asked' = [asked EXCEPT ![e] = Cell]
    /\ refusals' = [refusals EXCEPT ![e] = FALSE]
    /\ crossing' = [crossing EXCEPT ![e] = FALSE]
    /\ UNCHANGED <<rules, grid, toggles>>

Crossed(e) == [d \in Editor |-> IF d = e THEN crossing[d] ELSE crossing[d] \/ phase[d] # "closed"]

\* toggle_policy_rule: the policy is asked, then the rule is written.
ServeCell(e, c) ==
    /\ c \in asked[e]
    /\ asked' = [asked EXCEPT ![e] = @ \ {c}]
    /\ \/ /\ MayManage
          /\ rules' = [rules EXCEPT ![c] = IF c \in grid[e] THEN "on" ELSE "off"]
          /\ crossing' = Crossed(e)
          /\ UNCHANGED refusals
       \/ /\ ~MayManage
          /\ refusals' = [refusals EXCEPT ![e] = TRUE]
          /\ UNCHANGED <<rules, crossing>>
    /\ UNCHANGED <<grid, phase, toggles>>

\* A request fails on its way, its rule unwritten.
LoseCell(e, c) ==
    /\ c \in asked[e]
    /\ asked' = [asked EXCEPT ![e] = @ \ {c}]
    /\ refusals' = [refusals EXCEPT ![e] = TRUE]
    /\ UNCHANGED <<rules, grid, phase, crossing, toggles>>

\* Slip: the answers are not looked at.
SomeRefusedNever(e) == FALSE

SomeRefused(e) == refusals[e]

\* All requests are settled: a refusal ends the save, else the rules are read again.
Settle(e) ==
    /\ phase[e] = "saving" /\ asked[e] = {}
    /\ phase' = [phase EXCEPT ![e] = IF SomeRefused(e) THEN "open" ELSE "reading"]
    /\ UNCHANGED <<rules, grid, asked, refusals, crossing, toggles>>

RulesRead(e) ==
    /\ phase[e] = "reading" /\ MayManage
    /\ grid' = [grid EXCEPT ![e] = BuildMatrix]
    /\ phase' = [phase EXCEPT ![e] = "saved"]
    /\ UNCHANGED <<rules, asked, refusals, crossing, toggles>>

\* The token of the page has expired, or its role may no longer read the rules.
RulesUnread(e) ==
    /\ phase[e] = "reading"
    /\ phase' = [phase EXCEPT ![e] = "open"]
    /\ UNCHANGED <<rules, grid, asked, refusals, crossing, toggles>>

\* delete_policy_rule, which no screen calls yet.
DeletePolicyRule(c) ==
    /\ rules[c] # "missing" /\ MayManage /\ toggles < MaxToggles
    /\ rules' = [rules EXCEPT ![c] = "missing"]
    /\ crossing' = [d \in Editor |-> TRUE]
    /\ toggles' = toggles + 1
    /\ UNCHANGED <<grid, asked, refusals, phase>>

PolicyNext ==
    \/ \E e \in Editor :
          OpenTable(e) \/ HandleSave(e) \/ Settle(e) \/ RulesRead(e) \/ RulesUnread(e)
    \/ \E e \in Editor, c \in Cell : HandleToggle(e, c) \/ ServeCell(e, c) \/ LoseCell(e, c)
    \/ \E c \in Cell : DeletePolicyRule(c)

PolicySpec == PolicyInit /\ [][PolicyNext]_policyVars

-----------------------------------------------------------------------------
(* Properties *)

SaveReported(e) == phase[e] = "reading" /\ phase'[e] = "saved" /\ ~crossing[e]

\* A save that is reported, and that no other editor crossed, stored the table as
\* it stood, and each policy that some role keeps is open to just the roles shown.
SavedIsStored ==
    [][\A e \in Editor : SaveReported(e) =>
        /\ grid'[e] = grid[e]
        /\ \A p \in Policy : LET shown == {r \in Role : <<p, r>> \in grid[e]}
                             IN  shown # {} => AllowedRoles(p) = shown]_policyVars

\* After a save that is reported, a role has access exactly where its cell is on.
\* The code falls back to its default map for a policy that no role keeps.
SavedIsEnforced ==
    [][\A e \in Editor : SaveReported(e) =>
        \A p \in Policy : AllowedRoles(p) = {r \in Role : <<p, r>> \in grid[e]}]_policyVars
=============================================================================
