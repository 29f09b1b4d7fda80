--------------------------- MODULE SimulationMedia ---------------------------
(***************************************************************************)
(* The application media of the simulation editor: the panel that lists    *)
(* the versions of applications and the screenshots of each, and the       *)
(* dialog that adds or edits one (SimulationEditor.tsx, AppMediaTab.tsx),  *)
(* over the requests of api/client.ts, which join a read that is already   *)
(* under way, and over the media service.  A binding is an application and *)
(* one of its versions; a picture is bound to one.                         *)
(***************************************************************************)
EXTENDS Naturals, FiniteSets

CONSTANTS
    Title,      \* applications
    Version,    \* store, version range and release date together
    Picture,    \* identifiers of screenshots, uploaded or not
    Write,      \* changes that may be under way at once
    Unset,      \* no binding: the application has no name yet
    MaxTouches  \* bound: what the administrator does

ASSUME MediaAssumption == Unset \notin Title \X Version /\ IsFiniteSet(Picture) /\ MaxTouches \in Nat

VARIABLES
    stored,     \* media assets: the binding of each picture, or Unset
    caption,    \* media assets: the file name, or "none" before the upload
    panel,      \* applications, loadedVersionScreens, appScreens, targetApp
    dialog,     \* the states of the dialog
    reads,      \* the GET of the pictures of each binding that is under way
    listing,    \* the GET of the bindings that is under way
    writes,     \* uploads, submits, renamings and deletions under way
    touches     \* clicks and inputs so far

mediaTables == <<stored, caption>>
mediaVars == <<mediaTables, panel, dialog, reads, listing, writes, touches>>

Binding == Title \X Version
NoEntry == [none |-> TRUE]
NoRead == [none |-> TRUE]
NoWrite == [none |-> TRUE]
Fresh == [open |-> FALSE, busy |-> FALSE, shown |-> {}, count |-> 0]

At(b) == {p \in Picture : stored[p] = b}

-----------------------------------------------------------------------------
(* Reads.  getJson: a caller joins the request under way for the same path. *)

\* The effect that loads the list; a later run takes over from an earlier one.
ListAgain == listing' = IF listing = NoRead THEN [served |-> FALSE] ELSE listing

\* The request that `who` waits for: a new one, or the one that is under way.
WithEar(q, who) ==
    IF q = NoRead THEN [served |-> FALSE, ears |-> {who}] ELSE [q EXCEPT !.ears = @ \cup {who}]

\* fetchSimulationMediaAssetsRemote of b, for a dialog or a version of the list.
Joined(rs, b, who) == [rs EXCEPT ![b] = WithEar(rs[b], who)]

\* Slip: the effect has no clean-up.
Heard(rs) == rs

\* What the clean-up of the dialog's effect leaves: nobody listens for it.
Unheard(rs) == [b \in Binding |-> IF rs[b] = NoRead THEN NoRead
                                  ELSE [rs[b] EXCEPT !.ears = @ \ {"dialog"}]]

\* effectiveModalMediaBinding.
Effective(d) == IF d.mode = "edit" /\ d.source # Unset THEN d.source ELSE d.at

\* The dialog with the pictures S, read for b.  History: `came` is the binding a
\* picture was read or uploaded for, `late` has the pictures an upload brought
\* into the dialog of another version, `failed` tells of the last read.
Filled(d, S, b) ==
    [d EXCEPT !.shown = S, !.came = [p \in Picture |-> IF p \in S THEN b ELSE Unset],
              !.late = {}, !.failed = FALSE]
Cleared(d) == Filled(d, {}, Unset)

\* The effect that loads the dialog's pictures, if the dialog's change runs it.
Settle(d, rs) ==
    IF /\ d.open = dialog.open /\ Effective(d) = Effective(dialog)
       /\ (d.at = Unset) = (dialog.at = Unset)
    THEN dialog' = d /\ reads' = rs
    ELSE IF ~d.open THEN dialog' = d /\ reads' = Unheard(rs)
    ELSE IF d.at = Unset
    THEN dialog' = Cleared(d) /\ reads' = Unheard(rs)
    ELSE /\ dialog' = [d EXCEPT !.busy = TRUE, !.failed = FALSE]
         /\ reads' = Joined(Unheard(rs), Effective(d), "dialog")

ServeRead(b) ==
    /\ reads[b] # NoRead /\ ~reads[b].served
    /\ reads' = [reads EXCEPT ![b] = [served |-> TRUE, ears |-> @.ears, found |-> At(b)]]
    /\ UNCHANGED <<mediaTables, panel, dialog, listing, writes, touches>>

\* A version of the list after its read.
Refreshed(entry, b, ok) ==
    IF entry = NoEntry THEN NoEntry
    ELSE [entry EXCEPT !.busy = FALSE, !.shown = IF ok THEN reads[b].found ELSE @]

\* loadVersionScreens and loadModalMedia after their await, or after a failure.
Shown(b, ok, ears) ==
    /\ panel' = IF "version" \notin ears THEN panel
                ELSE [panel EXCEPT
                        !.list[b] = Refreshed(@, b, ok),
                        !.loaded = IF ok THEN @ \cup {b} ELSE @,
                        !.screens = IF ok THEN reads[b].found ELSE @]
    /\ dialog' = IF "dialog" \notin ears THEN dialog
                 ELSE IF ok THEN Filled([dialog EXCEPT !.busy = FALSE], reads[b].found, b)
                 ELSE [dialog EXCEPT !.busy = FALSE, !.failed = TRUE]
    /\ reads' = [reads EXCEPT ![b] = NoRead]
    /\ UNCHANGED <<mediaTables, listing, writes, touches>>

ReadAnswered(b) == reads[b] # NoRead /\ reads[b].served /\ Shown(b, TRUE, reads[b].ears)
ReadFails(b) == reads[b] # NoRead /\ Shown(b, FALSE, reads[b].ears)

\* list_media_app_bindings: the bindings that have pictures, with how many.
ServeList ==
    /\ listing # NoRead /\ ~listing.served
    /\ listing' = [served |-> TRUE, found |-> [b \in Binding |-> Cardinality(At(b))]]
    /\ UNCHANGED <<mediaTables, panel, dialog, reads, writes, touches>>

\* A version that was listed before keeps what it showed.
Counted(entry, n) ==
    IF n = 0 THEN NoEntry
    ELSE [(IF entry = NoEntry THEN Fresh ELSE entry) EXCEPT !.count = n]

ListAnswered ==
    /\ listing # NoRead /\ listing.served
    /\ panel' = [panel EXCEPT !.list = [b \in Binding |-> Counted(panel.list[b], listing.found[b])]]
    /\ listing' = NoRead
    /\ UNCHANGED <<mediaTables, dialog, reads, writes, touches>>
ListFails ==
    /\ listing # NoRead
    /\ listing' = NoRead
    /\ UNCHANGED <<mediaTables, panel, dialog, reads, writes, touches>>

-----------------------------------------------------------------------------
(* The panel *)

Touch == touches < MaxTouches /\ touches' = touches + 1

ToggleVersion(b) ==
    /\ panel.list[b] # NoEntry /\ ~dialog.open
    /\ LET opens == ~panel.list[b].open
           fetch == opens /\ b \notin panel.loaded
       IN  /\ panel' = [panel EXCEPT
                !.list[b] = [panel.list[b] EXCEPT !.open = opens, !.busy = @ \/ fetch],
                !.target = IF opens THEN b ELSE @,
                !.screens = IF opens /\ ~fetch THEN panel.list[b].shown ELSE @]
           /\ reads' = IF fetch THEN Joined(reads, b, "version") ELSE reads
    /\ Touch /\ UNCHANGED <<mediaTables, dialog, listing, writes>>

OpenCreate ==
    /\ ~dialog.open
    /\ Settle([Cleared(dialog) EXCEPT !.open = TRUE, !.mode = "create", !.at = Unset,
                                      !.source = Unset], reads)
    /\ Touch /\ UNCHANGED <<mediaTables, panel, listing, writes>>

\* The version edited is one that is open, if the application has such a one.
OpenEdit(b) ==
    /\ panel.list[b] # NoEntry /\ ~dialog.open
    /\ panel.list[b].open \/ ~ \E v \in Version : /\ panel.list[<<b[1], v>>] # NoEntry
                                                   /\ panel.list[<<b[1], v>>].open
    /\ LET fetch == b \notin panel.loaded
       IN  /\ panel' = IF fetch THEN [panel EXCEPT !.list[b].busy = TRUE]
                       ELSE [panel EXCEPT !.screens = panel.list[b].shown]
           /\ Settle([Filled(dialog, panel.list[b].shown, b) EXCEPT
                        !.open = TRUE, !.mode = "edit", !.at = b, !.source = b],
                     IF fetch THEN Joined(reads, b, "version") ELSE reads)
    /\ Touch /\ UNCHANGED <<mediaTables, listing, writes>>

CloseDialog ==
    /\ dialog.open
    /\ Settle([dialog EXCEPT !.open = FALSE, !.source = Unset], reads)
    /\ Touch /\ UNCHANGED <<mediaTables, panel, listing, writes>>

-----------------------------------------------------------------------------
(* The dialog *)

\* Any field: the store's answer to "fetch data" fills in the name and package.
ChangeBinding(b) ==
    /\ dialog.open /\ b # dialog.at
    /\ Settle([dialog EXCEPT !.at = b], reads)
    /\ Touch /\ UNCHANGED <<mediaTables, panel, listing, writes>>

Under(kind) == {w \in Write : writes[w] # NoWrite /\ writes[w].kind = kind}

\* `alone` tells a submit that no other one overlaps.
Start(write) ==
    /\ \E w \in Write : writes[w] = NoWrite
    /\ LET free == CHOOSE w \in Write : writes[w] = NoWrite
       IN  writes' = [w \in Write |-> IF w = free THEN write
                        ELSE IF write.kind = "submit" /\ w \in Under("submit")
                        THEN [writes[w] EXCEPT !.alone = FALSE] ELSE writes[w]]
    /\ Touch /\ UNCHANGED <<mediaTables, panel, dialog, reads, listing>>

HandleModalUploadMedia(p) ==
    /\ dialog.open /\ dialog.at # Unset /\ Under("upload") = {}
    /\ caption[p] = "none"
    /\ Start([kind |-> "upload", what |-> {p}, to |-> Effective(dialog), done |-> FALSE])

\* The button is not disabled while a submit is under way.
HandleSubmitAddMediaModal ==
    /\ dialog.open /\ dialog.at # Unset
    /\ LET moved == IF dialog.mode = "edit" /\ dialog.source \notin {Unset, dialog.at}
                    THEN dialog.shown ELSE {}
       IN  Start([kind |-> "submit", what |-> moved, left |-> moved, to |-> dialog.at,
                  heard |-> TRUE, alone |-> Under("submit") = {}])

HandleModalScreenRename(p) ==
    /\ dialog.open /\ dialog.at # Unset /\ ~dialog.busy /\ p \in dialog.shown
    /\ \A w \in Under("rename") \cup Under("delete") : writes[w].what # {p}
    /\ Start([kind |-> "rename", what |-> {p}, to |-> Unset, done |-> FALSE])

HandleModalScreenDelete(p) ==
    /\ dialog.open /\ dialog.at # Unset /\ ~dialog.busy /\ p \in dialog.shown
    /\ \A w \in Under("rename") \cup Under("delete") : writes[w].what # {p}
    /\ Start([kind |-> "delete", what |-> {p}, to |-> Unset, done |-> FALSE])

\* handleDeleteEditingApplication, confirmed; `to` is the binding of the dialog.
HandleDeleteApplication ==
    /\ dialog.open /\ dialog.mode = "edit" /\ dialog.at # Unset
    /\ Start([kind |-> "drop", what |-> {}, to |-> dialog.at, done |-> FALSE,
              clears |-> panel.target # Unset /\ panel.target[1] = dialog.at[1]])

-----------------------------------------------------------------------------
(* The service.  A request that is not served is one that was refused.      *)

\* update_media_asset: the router always passes `released_at`, so every change
\* is taken for one of the binding, and a binding must be complete.
Accepted(binding, released) == (binding = "absent" /\ released = "absent") \/ binding = "complete"

ServeWrite(w) ==
    /\ writes[w] # NoWrite /\ writes[w].kind # "submit" /\ ~writes[w].done
    /\ LET c == writes[w]
       IN  \/ /\ c.kind = "upload" /\ \A p \in c.what : stored[p] = Unset
              /\ stored' = [p \in Picture |-> IF p \in c.what THEN c.to ELSE stored[p]]
              /\ caption' = [p \in Picture |-> IF p \in c.what THEN "first" ELSE caption[p]]
              /\ writes' = [writes EXCEPT ![w].done = TRUE]
           \/ /\ c.kind = "rename" /\ \A p \in c.what : stored[p] # Unset
              /\ IF Accepted("absent", "null")
                 THEN /\ caption' = [p \in Picture |-> IF p \in c.what THEN "second" ELSE caption[p]]
                      /\ writes' = [writes EXCEPT ![w].done = TRUE]
                 ELSE writes' = [writes EXCEPT ![w] = NoWrite] /\ UNCHANGED caption
              /\ UNCHANGED stored
           \/ /\ c.kind = "delete" /\ \A p \in c.what : stored[p] # Unset
              /\ stored' = [p \in Picture |-> IF p \in c.what THEN Unset ELSE stored[p]]
              /\ writes' = [writes EXCEPT ![w].done = TRUE]
              /\ UNCHANGED caption
           \/ /\ c.kind = "drop"
              /\ stored' = [p \in Picture |-> IF stored[p] # Unset /\ stored[p][1] = c.to[1]
                                              THEN Unset ELSE stored[p]]
              /\ writes' = [writes EXCEPT ![w].done = TRUE]
              /\ UNCHANGED caption
    /\ UNCHANGED <<panel, dialog, reads, listing, touches>>

\* One of the rebinding requests of a submit, all sent together; a picture
\* deleted meanwhile is not found, and Promise.all rejects.
ServeRebind(w, p) ==
    /\ writes[w] # NoWrite /\ writes[w].kind = "submit" /\ p \in writes[w].left
    /\ stored' = [stored EXCEPT ![p] = IF @ = Unset THEN Unset ELSE writes[w].to]
    /\ writes' = [writes EXCEPT ![w].left = @ \ {p}, ![w].heard = @ /\ stored[p] # Unset]
    /\ UNCHANGED <<caption, panel, dialog, reads, listing, touches>>

\* Slip: the submit does not wait for the rebinding requests.
Finished(c) == c.heard

\* All of the rebinding requests are answered, and none failed.
AllMoved(c) == c.heard /\ c.left = {}

\* A request, or one of the rebinding requests, fails or is lost.
WriteFails(w) ==
    /\ writes[w] # NoWrite
    /\ writes' = IF writes[w].kind = "submit" /\ writes[w].left # {}
                 THEN [writes EXCEPT ![w].left = @ \ {CHOOSE p \in @ : TRUE}, ![w].heard = FALSE]
                 ELSE [writes EXCEPT ![w] = NoWrite]
    /\ UNCHANGED <<mediaTables, panel, dialog, reads, listing, touches>>

-----------------------------------------------------------------------------
(* What follows the await of each handler *)

\* The picture is put before what the panel and the dialog show by now, whatever
\* version the dialog is open for.
Uploaded(w, p, b) ==
    LET was == IF panel.list[b] = NoEntry THEN Fresh ELSE panel.list[b]
    IN  /\ panel' = [panel EXCEPT
            !.list[b] = [was EXCEPT !.open = TRUE, !.shown = @ \cup {p}, !.count = @ + 1],
            !.loaded = @ \cup {b},
            !.screens = @ \cup {p}]
        /\ dialog' = [dialog EXCEPT !.shown = @ \cup {p}, !.came[p] = b,
                                    !.late = IF b = Effective(dialog) THEN @ ELSE @ \cup {p}]
        /\ ListAgain /\ UNCHANGED reads

Submitted(b) ==
    /\ panel' = [panel EXCEPT !.target = b]
    /\ Settle([dialog EXCEPT !.open = FALSE, !.at = b, !.source = Unset], reads)
    /\ ListAgain

\* A version left without pictures is not listed.
Without(entry, p) ==
    IF entry = NoEntry THEN NoEntry
    ELSE LET count == IF p \in entry.shown /\ entry.count > 0 THEN entry.count - 1 ELSE entry.count
             left == [entry EXCEPT !.shown = @ \ {p}, !.count = count]
         IN  IF count = 0 /\ left.shown = {} THEN NoEntry ELSE left

\* handleModalScreenDelete.
Removed(p) ==
    /\ panel' = [panel EXCEPT
            !.list = [b \in Binding |-> Without(panel.list[b], p)],
            !.screens = @ \ {p}]
    /\ dialog' = [dialog EXCEPT !.shown = @ \ {p}, !.came[p] = Unset, !.late = @ \ {p}]
    /\ ListAgain /\ UNCHANGED reads

\* handleDeleteApplication: the flags of what is loaded stay, for their keys are
\* joined with "|" and looked for with "::".
Dropped(b, clears) ==
    /\ panel' = [panel EXCEPT
            !.list = [c \in Binding |-> IF c[1] = b[1] THEN NoEntry ELSE panel.list[c]],
            !.target = IF clears THEN Unset ELSE @,
            !.screens = {}]
    /\ Settle([Cleared(dialog) EXCEPT !.at = IF @ # Unset /\ @[1] = b[1] THEN Unset ELSE @,
                                      !.open = FALSE], reads)
    /\ ListAgain

\* No renaming is answered well: the service accepts none.
WriteAnswered(w) ==
    /\ writes[w] # NoWrite
    /\ LET c == writes[w]
       IN  \/ c.kind = "upload" /\ c.done /\ \E p \in c.what : Uploaded(w, p, c.to)
           \/ c.kind = "submit" /\ AllMoved(c) /\ Submitted(c.to)
           \/ c.kind = "delete" /\ c.done /\ \E p \in c.what : Removed(p)
           \/ c.kind = "drop" /\ c.done /\ Dropped(c.to, c.clears)
    /\ writes' = [writes EXCEPT ![w] = NoWrite]
    /\ UNCHANGED <<mediaTables, touches>>

-----------------------------------------------------------------------------
MediaInit ==
    /\ stored \in [Picture -> Binding \cup {Unset}]
    /\ caption = [p \in Picture |-> IF stored[p] = Unset THEN "none" ELSE "first"]
    /\ panel = [list |-> [b \in Binding |-> NoEntry], loaded |-> {}, screens |-> {},
                target |-> Unset]
    /\ dialog = [open |-> FALSE, mode |-> "create", at |-> Unset, source |-> Unset,
                 shown |-> {}, busy |-> FALSE, came |-> [p \in Picture |-> Unset], late |-> {},
                 failed |-> FALSE]
    /\ reads = [b \in Binding |-> NoRead]
    /\ listing = [served |-> FALSE]
    /\ writes = [w \in Write |-> NoWrite]
    /\ touches = 0

MediaNext ==
    \/ \E b \in Binding :
        \/ ServeRead(b) \/ ReadAnswered(b) \/ ReadFails(b)
        \/ ToggleVersion(b) \/ OpenEdit(b) \/ ChangeBinding(b)
    \/ ServeList \/ ListAnswered \/ ListFails \/ OpenCreate \/ CloseDialog
    \/ ChangeBinding(Unset)
    \/ \E p \in Picture :
        \/ HandleModalUploadMedia(p) \/ HandleModalScreenRename(p) \/ HandleModalScreenDelete(p)
        \/ \E w \in Write : ServeRebind(w, p)
    \/ HandleSubmitAddMediaModal \/ HandleDeleteApplication
    \/ \E w \in Write : ServeWrite(w) \/ WriteAnswered(w) \/ WriteFails(w)

MediaSpec == MediaInit /\ [][MediaNext]_mediaVars
-----------------------------------------------------------------------------
(* Properties *)

MediaTypeOK ==
    /\ stored \in [Picture -> Binding \cup {Unset}]
    /\ \A b \in Binding : panel.list[b] # NoEntry => panel.list[b].shown \subseteq Picture
    /\ panel.loaded \subseteq Binding /\ panel.screens \subseteq Picture
    /\ dialog.shown \subseteq Picture
    /\ dialog.at \in Binding \cup {Unset} /\ dialog.source \in Binding \cup {Unset}

\* The pictures in the dialog, which an edit will move, are those read or uploaded
\* for the version it is open for, however slow the reads of the versions and
\* dialogs before were.  While a new application is entered, that takes a read that
\* did not fail; and an upload begun for another version leaves its picture.
DialogShowsItsVersion ==
    dialog.open /\ (dialog.mode = "edit" \/ ~(dialog.busy \/ dialog.failed)) =>
        \A p \in dialog.shown \ dialog.late : dialog.came[p] = Effective(dialog)

\* An edit that ends well has moved every picture of the dialog that still
\* exists, unless a second submit overlapped.
SubmitMovesTogether ==
    [][\A w \in Write :
        /\ writes[w] # NoWrite /\ writes[w].kind = "submit" /\ writes[w].alone
        /\ WriteAnswered(w)
        => \A p \in writes[w].what : stored[p] \in {writes[w].to, Unset}]_mediaVars

\* "At least one update field is required", says the proxy of the web admin: a
\* file name alone is one, and the renaming of a stored picture takes.
RenamingTakes ==
    [][\A w \in Under("rename") :
        /\ \A p \in writes[w].what : stored[p] # Unset
        /\ ServeWrite(w)
        => \A p \in writes[w].what : caption'[p] = "second"]_mediaVars
=============================================================================
