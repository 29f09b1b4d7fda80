----------------------------- MODULE UsersAdmin -----------------------------
(***************************************************************************)
(* The users screen of the web admin (users-admin-table.tsx) over the      *)
(* users service and its audit log: the table, the form that edits a row   *)
(* copied when it opens, the form that creates a user, and the block or    *)
(* unblock action of a row, whose requests may overlap.                    *)
(***************************************************************************)
EXTENDS Naturals, Sequences, SequencesExt

CONSTANTS
    Account,    \* identifiers of users, created or not
    Self,       \* the administrator at the screen, one of them
    FullName,   \* display names
    UserRole,   \* roles
    Nameless,   \* no display name
    Request,    \* requests under way at once
    MaxInputs   \* bound: clicks and inputs

ASSUME UsersAssumption == Self \in Account /\ "absent" \notin UserRole

VARIABLES
    account,    \* users table: name, role and status, or NoAccount
    audit,      \* audit log of the accounts, oldest entry first: the fields it
                \* tells and their values, of no meaning for the other fields
    began,      \* history: the rows as they were found or created
    table,      \* rows, pendingId and the two forms of the component
    requests,   \* requests of the component
    inputs      \* clicks and inputs so far

usersVars == <<account, audit, began, table, requests, inputs>>

UserRow == [name : FullName \cup {Nameless}, role : UserRole, status : {"active", "blocked"}]
NoAccount == [none |-> TRUE]
NoRequest == [none |-> TRUE]
NoForm == [none |-> TRUE]
Field == {"name", "role", "status"}
Users == {u \in Account : account[u] # NoAccount}

-----------------------------------------------------------------------------
(* The service.  A request carries the fields it has; "absent" is not sent. *)

\* Slip: every column is written as the request read it.
WrittenWhole(row, old, new) == new

\* The UPDATE sets the columns that differ from what the request read.
Written(row, old, new) ==
    [name |-> IF new.name = old.name THEN row.name ELSE new.name,
     role |-> IF new.role = old.role THEN row.role ELSE new.role,
     status |-> IF new.status = old.status THEN row.status ELSE new.status]

\* The entry tells the fields that changed from what was read, if any did.
Entry(u, old, new) ==
    LET told == {f \in Field : new[f] # old[f]}
    IN  IF told = {} THEN <<>> ELSE <<[user |-> u, told |-> told, from |-> old, to |-> new]>>

\* An absent role or status is kept, an absent name is not.
Applied(old, sent) ==
    [name |-> IF sent.name = "absent" THEN Nameless ELSE sent.name,
     role |-> IF sent.role = "absent" THEN old.role ELSE sent.role,
     status |-> IF sent.status = "absent" THEN old.status ELSE sent.status]

\* update_user reads the row without a lock; nobody changes the own role or status.
FindUser(r) ==
    LET old == account[requests[r].user]
        new == Applied(old, requests[r].sent)
    IN  /\ requests[r].kind = "patch" /\ requests[r].stage = "sent"
        /\ requests[r].user = Self => new.role = old.role /\ new.status = old.status
        /\ requests' = [requests EXCEPT ![r] = [@ EXCEPT !.stage = "read", !.row = old]]
        /\ UNCHANGED <<account, audit, began>>

\* It compares with that row, writes and commits the row and the entry together.
UpdateUser(r) ==
    LET u == requests[r].user
        old == requests[r].row
        new == Applied(old, requests[r].sent)
    IN  /\ requests[r].kind = "patch" /\ requests[r].stage = "read"
        /\ account' = [account EXCEPT ![u] = Written(account[u], old, new)]
        /\ audit' = audit \o Entry(u, old, new)
        /\ requests' = [requests EXCEPT ![r] = [@ EXCEPT !.stage = "answered", !.sent = new]]
        /\ UNCHANGED began

\* create_user: the login, and not the name, must be new.  Its entry tells no name.
CreateUser(r) ==
    /\ requests[r].kind = "create" /\ requests[r].stage = "sent"
    /\ \E u \in Account :
        /\ account[u] = NoAccount
        /\ account' = [account EXCEPT ![u] = requests[r].sent]
        /\ began' = [began EXCEPT ![u] = requests[r].sent]
        /\ audit' = Append(audit, [user |-> u, told |-> {"role", "status"},
                                   from |-> NoAccount, to |-> requests[r].sent])
        /\ requests' = [requests EXCEPT ![r] = [@ EXCEPT !.stage = "answered", !.user = u]]

ServeUser(r) ==
    /\ requests[r] # NoRequest
    /\ FindUser(r) \/ UpdateUser(r) \/ CreateUser(r)
    /\ UNCHANGED <<table, inputs>>

-----------------------------------------------------------------------------
(* The screen *)

Input == inputs < MaxInputs /\ inputs' = inputs + 1

Ask(request) ==
    /\ Input
    /\ \E r \in Request : requests[r] = NoRequest
    /\ LET r == CHOOSE r \in Request : requests[r] = NoRequest
       IN  requests' = [requests EXCEPT ![r] = request]
    /\ UNCHANGED <<account, audit, began>>

Patch(u, form, sent) ==
    Ask([stage |-> "sent", kind |-> "patch", user |-> u, form |-> form, sent |-> sent,
         row |-> NoAccount])

\* The row's action sends the status alone.
ToggleStatus(u) ==
    /\ table.rows[u] # NoAccount /\ table.form = NoForm
    /\ table.pending # u /\ u # Self
    /\ Patch(u, FALSE, [name |-> "absent", role |-> "absent",
                        status |-> IF table.rows[u].status = "active" THEN "blocked" ELSE "active"])
    /\ table' = [table EXCEPT !.pending = u]

\* handleOpenEditUser: never disabled, it copies the row as it is shown; the
\* login, if there is one, stands for a missing name.
OpenEditUser(u) ==
    /\ Input
    /\ table.rows[u] # NoAccount /\ table.form = NoForm
    /\ \E name \in IF table.rows[u].name = Nameless THEN FullName \cup {Nameless} ELSE {table.rows[u].name} :
        table' = [table EXCEPT !.form = [user |-> u, row |-> [table.rows[u] EXCEPT !.name = name]]]
    /\ UNCHANGED <<account, audit, began, requests>>

OpenCreateUser ==
    /\ Input
    /\ table.form = NoForm
    /\ \E row \in UserRow : table' = [table EXCEPT !.form = [user |-> "new", row |-> row]]
    /\ UNCHANGED <<account, audit, began, requests>>

Fill(row) ==
    /\ Input
    /\ table.form # NoForm /\ table.form.user # "new" /\ row # table.form.row
    /\ table' = [table EXCEPT !.form.row = row]
    /\ UNCHANGED <<account, audit, began, requests>>

CloseForm ==
    /\ Input
    /\ table.form # NoForm
    /\ table' = [table EXCEPT !.form = NoForm]
    /\ UNCHANGED <<account, audit, began, requests>>

HandleEditUser ==
    /\ table.form # NoForm /\ table.form.user # "new" /\ ~table.editing
    /\ Patch(table.form.user, TRUE, table.form.row)
    /\ table' = [table EXCEPT !.pending = table.form.user, !.editing = TRUE]

HandleCreateUser ==
    /\ table.form # NoForm /\ table.form.user = "new" /\ ~table.creating
    /\ Ask([stage |-> "sent", kind |-> "create", user |-> "new", form |-> TRUE, sent |-> table.form.row,
            row |-> NoAccount])
    /\ table' = [table EXCEPT !.creating = TRUE]

\* After a patch the row is the answer, if there is one.  The edit form closes
\* whatever the outcome, and it may be another row's by then.
Patched(q, rows) ==
    [table EXCEPT !.rows = rows, !.pending = NoAccount,
                  !.editing = IF q.form THEN FALSE ELSE @,
                  !.form = IF q.form /\ @ # NoForm /\ @.user # "new" THEN NoForm ELSE @]

\* A user that was created is listed, and the form that created it closes.
Listed(q, ok) ==
    [table EXCEPT !.rows = IF ok THEN [@ EXCEPT ![q.user] = q.sent] ELSE @,
                  !.creating = FALSE,
                  !.form = IF ok /\ @ # NoForm /\ @.user = "new" THEN NoForm ELSE @]

UserAnswered(r) ==
    /\ requests[r] # NoRequest /\ requests[r].stage = "answered"
    /\ LET q == requests[r]
       IN  table' = IF q.kind = "patch" THEN Patched(q, [table.rows EXCEPT ![q.user] = q.sent])
                    ELSE Listed(q, TRUE)
    /\ requests' = [requests EXCEPT ![r] = NoRequest]
    /\ UNCHANGED <<account, audit, began, inputs>>

\* Refused, or lost on either way.
UserFails(r) ==
    /\ requests[r] # NoRequest
    /\ table' = IF requests[r].kind = "patch" THEN Patched(requests[r], table.rows)
                ELSE Listed(requests[r], FALSE)
    /\ requests' = [requests EXCEPT ![r] = NoRequest]
    /\ UNCHANGED <<account, audit, began, inputs>>

-----------------------------------------------------------------------------
UsersInit ==
    /\ \E row \in [Account -> UserRow \cup {NoAccount}] :
        /\ row[Self] # NoAccount /\ row[Self].status = "active"
        /\ account = row
    /\ audit = <<>> /\ began = account
    /\ table = [rows |-> account, pending |-> NoAccount, form |-> NoForm,
                editing |-> FALSE, creating |-> FALSE]
    /\ requests = [r \in Request |-> NoRequest]
    /\ inputs = 0

UsersNext ==
    \/ \E u \in Account : ToggleStatus(u) \/ OpenEditUser(u)
    \/ \E row \in UserRow : Fill(row)
    \/ OpenCreateUser \/ CloseForm \/ HandleEditUser \/ HandleCreateUser
    \/ \E r \in Request : ServeUser(r) \/ UserAnswered(r) \/ UserFails(r)

UsersSpec == UsersInit /\ [][UsersNext]_usersVars

-----------------------------------------------------------------------------
(* Properties *)

UsersTypeOK ==
    /\ account \in [Account -> UserRow \cup {NoAccount}]
    /\ \A k \in DOMAIN audit : audit[k].user \in Account /\ audit[k].to \in UserRow
    /\ began \in [Account -> UserRow \cup {NoAccount}]
    /\ table.rows \in [Account -> UserRow \cup {NoAccount}]
    /\ table.form # NoForm => table.form.user \in Account \cup {"new"} /\ table.form.row \in UserRow

\* The entries that tell a field of a user.
ToldOf(u, f) == {k \in DOMAIN audit : audit[k].user = u /\ f \in audit[k].told}

\* The log explains the accounts: the last entry that tells a field of a user
\* tells its value, and a field that no entry tells never changed, whatever
\* requests read the same row and wrote one after the other (update_user).
LogExplains ==
    \A u \in Users, f \in Field :
        /\ ToldOf(u, f) = {} => account[u][f] = began[u][f]
        /\ \A k \in ToldOf(u, f) : (\A m \in ToldOf(u, f) : m <= k) => account[u][f] = audit[k].to[f]
=============================================================================
