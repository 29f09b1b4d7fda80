------------------------------- MODULE MCAdmin -------------------------------
(***************************************************************************)
(* The pages of the web admin and the screens behind them.  They share no  *)
(* state, so a behaviour is about one of them, its focus, while the others *)
(* stay at one of their initial states.                                    *)
(***************************************************************************)
EXTENDS GroupsWorkspace, UsersAdmin, AccessPolicies, AdminPages

CONSTANTS manage, view, admin, staff

VARIABLE focus

adminVars == <<focus, groupsVars, usersVars, policyVars, pageVars>>

\* What the migrations give: everybody may view, nobody manages by default.
RolesByDefault == [p \in Policy |-> IF p = manage THEN {} ELSE {admin, staff}]

FirstGroup == CHOOSE g \in Group : TRUE
FirstName == CHOOSE n \in Name : TRUE
FirstAccounts ==
    [u \in Account |-> IF u = Self
                       THEN CHOOSE r \in UserRow : r.status = "active"
                       ELSE NoAccount]

AdminInit ==
    /\ focus \in {"groups", "users", "policies", "pages"}
    /\ GroupsInit
    /\ focus = "groups" \/ (desk.selected = FirstGroup /\ desk.name = FirstName)
    /\ UsersInit /\ (focus = "users" \/ account = FirstAccounts)
    /\ PolicyInit
    /\ PageInit
    /\ focus = "pages" \/ (granted = Right /\ staffed /\ token = "none" /\ renewable)

AdminNext ==
    \/ focus = "groups" /\ GroupsNext /\ UNCHANGED <<focus, usersVars, policyVars, pageVars>>
    \/ focus = "users" /\ UsersNext /\ UNCHANGED <<focus, groupsVars, policyVars, pageVars>>
    \/ focus = "policies" /\ PolicyNext /\ UNCHANGED <<focus, groupsVars, usersVars, pageVars>>
    \/ focus = "pages" /\ PageNext /\ UNCHANGED <<focus, groupsVars, usersVars, policyVars>>

Browser(step) == focus = "pages" /\ step /\ UNCHANGED <<focus, groupsVars, usersVars, policyVars>>

\* A browser follows its redirects and a server renders what it is asked for.
AdminSpec ==
    /\ AdminInit /\ [][AdminNext]_adminVars
    /\ WF_adminVars(Browser(ToRefresh \/ Render))
    /\ WF_adminVars(Browser(RefreshRoute))
==============================================================================
