----------------------------- MODULE GuestPanel -----------------------------
(***************************************************************************)
(* pages/admin/guests/GuestIntelligence.jsx: a list of guests, filtered by *)
(* the server, and a panel that slides in over it with one guest's         *)
(* profile, bookings and notes.  Every answer is put where it belongs if   *)
(* nothing happened since the call left: a profile into the panel,         *)
(* whoever was chosen meanwhile; the result of a change into prev, the     *)
(* guest selected by then.  Closing the panel forgets the guest 300 ms     *)
(* later.                                                                  *)
(***************************************************************************)
EXTENDS Naturals, FiniteSets

CONSTANTS Guests, None,
          MaxClicks,   \* bound: clicks, and changes by somebody else
          MaxWaiting   \* bound: with so many calls in flight the user waits

GuestPanelAssumption == None \notin Guests /\ MaxClicks \in Nat /\ MaxWaiting \in Nat

VARIABLES
    record, remarks,      \* server: each guest's flags; the notes about each
    segmentFilter, guests,       \* the segment filter; the rows of the list
    overview,             \* the figures of the overview: the VIP guests it counts
    open, chosen,         \* the panel is open; history: the guest clicked last
    sel, notes, timeline, \* selectedGuest; the notes and the bookings shown
    panelTab, spinner,    \* the panel's tab; loadingPanel
    adding,               \* loadingNoteAdd
    closing,              \* timeouts of closePanel that have not fired
    apiError,             \* the banner with the retry button is shown
    calls, sent,          \* calls in flight; how many have been sent
    doubt,                \* history: guests whose flags the panel may show wrongly
    panelClicks

guestVars == <<record, remarks, segmentFilter, guests, overview, open, chosen, sel, notes,
               timeline, panelTab, spinner, adding, closing, apiError, calls, sent, doubt, panelClicks>>

Segments == {"casual", "vip"}
Flags == [vip : BOOLEAN, banned : BOOLEAN, segment : Segments]
NewGuest == [vip |-> FALSE, banned |-> FALSE, segment |-> "casual"]
Blank == [of |-> None, got |-> {}]

(* selectedGuest: the flags of guest id; id is None for the object that a
   change makes of `prev` when nobody is selected.                       *)
Selected(g) == [id |-> g, flags |-> record[g]]
Matching(f) == {g \in Guests : f = None \/ record[g].segment = f}

(* A handler keeps the filter of the render it was made in. *)
Call(n, kind, g, arg, f) == [no |-> sent + n, kind |-> kind, id |-> g, arg |-> arg,
                             filter |-> f, done |-> FALSE, note |-> 0, rows |-> {}, ids |-> {}]
Send(kind, g, arg) ==
    /\ calls' = calls \cup {Call(1, kind, g, arg, segmentFilter)}
    /\ sent' = sent + 1
Changes == {"vip", "ban", "segment"}      \* of the panel
QuickChanges == {"quickVip", "quickBan"}  \* of the list's buttons
About(g) == {c \in calls : c.id = g /\ c.kind \in Changes \cup QuickChanges \cup {"profile"}}

Patient == panelClicks < MaxClicks /\ Cardinality(calls) < MaxWaiting

(* A click that sends a call about guest g, or about none. *)
Click(g) ==
    /\ Patient /\ panelClicks' = panelClicks + 1
    /\ doubt' = IF About(g) # {} THEN doubt \cup ({g} \ {None}) ELSE doubt

GuestInit ==
    /\ record = [g \in Guests |-> NewGuest] /\ remarks = [g \in Guests |-> {0}]
    /\ segmentFilter = None /\ guests = {} /\ overview = None
    /\ open = FALSE /\ chosen = None /\ sel = None /\ notes = Blank /\ timeline = None
    /\ panelTab = "profile" /\ spinner = FALSE /\ adding = FALSE /\ closing = 0
    /\ apiError = FALSE /\ calls = {} /\ sent = 0 /\ doubt = {} /\ panelClicks = 0

(* Mount: the figures, and the list, which both effects read. *)
GuestMount ==
    /\ sent = 0
    /\ calls' = {Call(1, "overview", None, None, None), Call(2, "list", None, None, None)}
    /\ sent' = 2
    /\ UNCHANGED <<apiError, record, remarks, segmentFilter, guests, overview, open, chosen, sel, notes,
                   timeline, panelTab, spinner, adding, closing, doubt, panelClicks>>

-----------------------------------------------------------------------------
(* The user.  The open panel's backdrop covers the list. *)

(* "Retry" under the banner. *)
Retry ==
    /\ apiError /\ ~open /\ Click(None)
    /\ apiError' = FALSE
    /\ calls' = calls \cup {Call(1, "overview", None, None, None), Call(2, "list", None, None, segmentFilter)}
    /\ sent' = sent + 2
    /\ UNCHANGED <<record, remarks, segmentFilter, guests, overview, open, chosen, sel, notes,
                   timeline, panelTab, spinner, adding, closing>>

SetFilter(f) ==
    /\ sent # 0 /\ ~open /\ f # segmentFilter /\ Click(None)
    /\ segmentFilter' = f
    /\ calls' = calls \cup {Call(1, "list", None, None, f)} /\ sent' = sent + 1
    /\ UNCHANGED <<apiError, record, remarks, guests, overview, open, chosen, sel, notes, timeline,
                   panelTab, spinner, adding, closing>>

(* A row, its eye, or "View" of the overview's lists. *)
SelectGuest(g) ==
    /\ ~open /\ \E row \in guests : row.id = g
    /\ Patient /\ panelClicks' = panelClicks + 1
    /\ doubt' = IF About(g) # {} THEN doubt \cup {g} ELSE doubt \ {g}
    /\ open' = TRUE /\ spinner' = TRUE /\ panelTab' = "profile" /\ chosen' = g
    /\ Send("profile", g, None)
    /\ UNCHANGED <<apiError, record, remarks, segmentFilter, guests, overview, sel, notes, timeline, adding,
                   closing>>

Panel == open /\ ~spinner /\ sel # None     \* its contents are rendered

PanelTabChange(t) ==
    /\ Panel /\ t # panelTab /\ Click(None)
    /\ panelTab' = t
    /\ IF t = "profile" THEN UNCHANGED <<calls, sent>> ELSE Send(t, sel.id, None)
    /\ UNCHANGED <<apiError, record, remarks, segmentFilter, guests, overview, open, chosen, sel, notes,
                   timeline, spinner, adding, closing>>

AddNote ==
    /\ Panel /\ panelTab = "notes" /\ ~adding /\ Click(None)
    /\ adding' = TRUE
    /\ Send("addNote", sel.id, None)
    /\ UNCHANGED <<apiError, record, remarks, segmentFilter, guests, overview, open, chosen, sel, notes,
                   timeline, panelTab, spinner, closing>>

DeleteNote(n) ==
    /\ Panel /\ panelTab = "notes" /\ n \in notes.got /\ Click(None)
    /\ calls' = calls \cup {[Call(1, "deleteNote", sel.id, None, segmentFilter) EXCEPT !.note = n]}
    /\ sent' = sent + 1
    /\ UNCHANGED <<apiError, record, remarks, segmentFilter, guests, overview, open, chosen, sel, notes,
                   timeline, panelTab, spinner, adding, closing>>

(* handleToggleVip, handleToggleBlacklist, handleUpdateSegment. *)
Change(kind) ==
    /\ Panel /\ panelTab = "profile" /\ Click(sel.id)
    /\ \E s \in Segments \ {sel.flags.segment} :
          Send(kind, sel.id, [sel.flags EXCEPT !.banned = ~@, !.segment = s])
    /\ UNCHANGED <<apiError, record, remarks, segmentFilter, guests, overview, open, chosen, sel, notes,
                   timeline, panelTab, spinner, adding, closing>>

(* handleQuickVip, handleQuickBan. *)
QuickChange(kind, row) ==
    /\ ~open /\ row \in guests /\ Click(row.id)
    /\ Send(kind, row.id, [row.flags EXCEPT !.banned = ~@])
    /\ UNCHANGED <<apiError, record, remarks, segmentFilter, guests, overview, open, chosen, sel, notes,
                   timeline, panelTab, spinner, adding, closing>>

ClosePanel ==
    /\ open
    /\ open' = FALSE /\ closing' = closing + 1
    /\ UNCHANGED <<apiError, record, remarks, segmentFilter, guests, overview, chosen, sel, notes, timeline,
                   panelTab, spinner, adding, calls, sent, doubt, panelClicks>>

(* The 300 ms pass, whether or not the panel has been opened again. *)
Forget ==
    /\ closing > 0
    /\ closing' = closing - 1 /\ sel' = None
    /\ UNCHANGED <<apiError, record, remarks, segmentFilter, guests, overview, open, chosen, notes, timeline,
                   panelTab, spinner, adding, calls, sent, doubt, panelClicks>>

-----------------------------------------------------------------------------
(* The server; a guest without a number is refused. *)

Flagged(r, c) ==
    CASE c.kind \in {"vip", "quickVip"} -> [r EXCEPT !.vip = ~@]
      [] c.kind \in {"ban", "quickBan"} -> [r EXCEPT !.banned = c.arg.banned]
      [] c.kind = "segment"             -> [r EXCEPT !.segment = c.arg.segment]
      [] OTHER                          -> r
Rows(c) == CASE c.kind = "list"    -> {Selected(g) : g \in Matching(c.filter)}
             [] c.kind = "profile" -> {Selected(c.id)}
             [] OTHER              -> {}
Ids(c) == CASE c.kind = "overview"                    -> {g \in Guests : record[g].vip}
            [] c.kind \in {"profile", "notes", "added"} -> remarks[c.id]
            [] OTHER                                  -> {}
Serve(c) ==
    /\ ~c.done
    /\ c.kind \in {"list", "overview"} \/ c.id # None
    /\ calls' = (calls \ {c}) \cup {[c EXCEPT !.done = TRUE, !.rows = Rows(c), !.ids = Ids(c)]}
    /\ record' = IF c.id = None THEN record ELSE [record EXCEPT ![c.id] = Flagged(@, c)]
    /\ remarks' = CASE c.kind = "addNote"    -> [remarks EXCEPT ![c.id] = @ \cup {c.no}]
                    [] c.kind = "deleteNote" -> [remarks EXCEPT ![c.id] = @ \ {c.note}]
                    [] OTHER                 -> remarks
    /\ UNCHANGED <<apiError, segmentFilter, guests, overview, open, chosen, sel, notes, timeline, panelTab,
                   spinner, adding, closing, sent, doubt, panelClicks>>

(* Somebody else, or the guest, changes the record. *)
ChangedElsewhere(g) ==
    /\ sent # 0 /\ panelClicks < MaxClicks /\ panelClicks' = panelClicks + 1
    /\ record' = [record EXCEPT ![g].vip = ~@]
    /\ doubt' = doubt \cup {g}
    /\ UNCHANGED <<apiError, remarks, segmentFilter, guests, overview, open, chosen, sel, notes, timeline,
                   panelTab, spinner, adding, closing, calls, sent>>

-----------------------------------------------------------------------------
(* The answers. *)

PatchForgotten(c) == sel    \* Mistake for Patched: the panel is not told

(* setSelectedGuest(prev => ...): VIP turns over prev's own flag. *)
Patched(c) ==
    LET prev == IF sel = None THEN [id |-> None, flags |-> NewGuest] ELSE sel
    IN  [prev EXCEPT !.flags = Flagged(@, c)]

Answer(c) ==
    /\ c.done
    /\ calls' = (calls \ {c}) \cup
         (CASE c.kind \in Changes \cup QuickChanges -> {Call(1, "list", None, None, c.filter)}
            [] c.kind = "addNote" -> {Call(1, "added", c.id, None, c.filter)}
            [] OTHER -> {})
    /\ sent' = IF c.kind \in Changes \cup QuickChanges \cup {"addNote"} THEN sent + 1 ELSE sent
    /\ guests' = IF c.kind = "list" THEN c.rows ELSE guests
    /\ overview' = IF c.kind = "overview" THEN c.ids ELSE overview
    /\ sel' = CASE c.kind = "profile" -> CHOOSE row \in c.rows : TRUE
                [] c.kind \in Changes -> Patched(c)
                [] OTHER              -> sel
    /\ notes' = CASE c.kind \in {"profile", "notes", "added"} -> [of |-> c.id, got |-> c.ids]
                  [] c.kind = "deleteNote" -> [notes EXCEPT !.got = @ \ {c.note}]
                  [] OTHER                 -> notes
    /\ timeline' = IF c.kind = "timeline" THEN c.id ELSE timeline
    /\ spinner' = (spinner /\ c.kind # "profile")
    /\ adding' = (adding /\ c.kind # "added")
    /\ apiError' = (apiError /\ c.kind # "overview")
    /\ doubt' = IF sel = None THEN doubt
                ELSE doubt \cup {g \in {sel.id} \ {None} : c.kind \in (IF g = c.id THEN QuickChanges ELSE Changes)}
    /\ UNCHANGED <<record, remarks, segmentFilter, open, chosen, panelTab, closing, panelClicks>>

(* An error or the timeout, also after the server has acted. *)
Fail(c) ==
    /\ calls' = calls \ {c}
    /\ spinner' = (spinner /\ c.kind # "profile")
    /\ adding' = (adding /\ c.kind \notin {"addNote", "added"})
    /\ apiError' = (apiError \/ c.kind \in {"overview", "list"})
    /\ doubt' = IF c.kind = "profile" \/ (c.done /\ c.kind \in Changes \cup QuickChanges)
              THEN doubt \cup {c.id} ELSE doubt
    /\ UNCHANGED <<record, remarks, segmentFilter, guests, overview, open, chosen, sel, notes,
                   timeline, panelTab, closing, sent, panelClicks>>

GuestNext ==
    \/ GuestMount \/ Retry \/ AddNote \/ ClosePanel \/ Forget
    \/ \E f \in {None, "vip"} : SetFilter(f)
    \/ \E g \in Guests : SelectGuest(g) \/ ChangedElsewhere(g)
    \/ \E t \in {"profile", "timeline", "notes"} : PanelTabChange(t)
    \/ \E n \in notes.got : DeleteNote(n)
    \/ \E kind \in Changes : Change(kind)
    \/ \E kind \in QuickChanges, row \in guests : QuickChange(kind, row)
    \/ \E c \in calls : Serve(c) \/ Answer(c) \/ Fail(c)

-----------------------------------------------------------------------------
(* What the panel shows is not the guest clicked last, or is another's notes
   or bookings, no call being out that asks for the right ones.          *)
Asked(kind) == \E c \in calls : c.kind = kind /\ c.id = sel.id
WrongGuest == Panel /\ sel.id # chosen
WrongNotes == Panel /\ panelTab = "notes" /\ notes.of # sel.id /\ ~Asked("notes")
WrongBookings ==
    Panel /\ panelTab = "timeline" /\ timeline \notin {None, sel.id} /\ ~Asked("timeline")

Ended == {c \in calls : ~\E d \in calls' : d.no = c.no}
(* Sent about a guest chosen earlier, or not the one that is shown. *)
Late(c) == c.id # chosen \/ (sel # None /\ c.id # sel.id)
(* A change that is answered into an emptied panel makes a guest of it who
   has no number.                                                        *)
Nobodys(c) == c.kind \in Changes /\ sel = None

(* The panel comes to show something wrong only so: another guest when a call
   about a guest chosen earlier ends, or when the profile just asked for
   could not be read; another guest's notes or bookings when an answer
   about a guest chosen earlier arrives, when they could not be read on
   opening their tab, or (the bookings) when the profile fills the panel
   that a timeout had emptied under an open tab; and all three when a change
   is answered into a panel so emptied.
   A 300 ms timeout that finds the panel open again empties it but never
   shows another guest.  And the flags shown are the server's when no call
   about the guest is out, unless two had overlapped, one failed that the
   server had carried out, one about another guest was answered into this
   one's panel (GuestIntelligence.jsx:333, 344, 355), a button of the list
   or somebody else changed them, since the profile was last read alone. *)
PanelShowsChosen ==
    [][/\ WrongGuest' /\ ~WrongGuest =>
            \E c \in Ended : Nobodys(c) \/ (c.kind = "profile" /\ (Late(c) \/ sel' = sel))
       /\ WrongNotes' /\ ~WrongNotes =>
            \E c \in Ended : Nobodys(c) \/ Late(c) \/ (c.kind = "notes" /\ notes' = notes)
       /\ WrongBookings' /\ ~WrongBookings =>
            \E c \in Ended : \/ Nobodys(c) \/ Late(c)
                             \/ c.kind = "timeline" /\ timeline' = timeline
                             \/ c.kind = "profile" /\ sel = None
       /\ (Panel /\ sel.id \notin doubt \cup {None} /\ About(sel.id) = {}
             => sel.flags = record[sel.id])']_guestVars
=============================================================================
