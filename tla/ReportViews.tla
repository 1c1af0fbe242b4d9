---------------------------- MODULE ReportViews ----------------------------
(***************************************************************************)
(* The pages that only show what they read: reports over a period, the     *)
(* dashboards, the calendar, the health, the lists of staff and of rooms.    *)
(* Each is a row of a table: what it reads at which choice of the user, what *)
(* a failed reading leaves, what the spinner covers.  A load is one or more *)
(* calls awaited together; no load asks whether the choice it was made for  *)
(* is still the one above the figures.                                      *)
(***************************************************************************)
EXTENDS Naturals, FiniteSets

CONSTANTS None,
          Views,      \* the views a run visits
          MaxLoads,   \* bound: loads sent
          MaxClock    \* bound: times the figures change at the server

ReportViewsAssumption ==
    /\ Views \subseteq {"OccupancyReport", "RevenueReport", "GuestAnalytics", "SystemHealth",
                        "DashboardReports", "DashboardLists", "BookingCalendar", "AssignedBookings",
                        "DailySummary", "PaymentHistory", "GuestDashboard", "Rooms"}
    /\ None \notin Views /\ MaxLoads \in Nat /\ MaxClock \in Nat

VARIABLES
    onView,      \* the mounted view
    choice,    \* the period or the tab chosen
    figures,   \* for each part: the choice and the time of the data shown
    loadingFigures, auto,
    file,      \* the last export: the choice in its name and that of its rows
    clock,     \* server: how often the figures have changed
    loads, loaded

reportVars == <<onView, choice, figures, loadingFigures, auto, file, clock, loads, loaded>>

(* parts: the calls of one load.  together: Promise.all, one failed call
   loses them all.  clears: a failure empties the view; else it keeps what
   it showed.  open: parts the spinner does not cover.  A view may also
   have a refresh button, an interval, an export, samples to start with. *)
View(choices, parts, together, clears, open, extras) ==
    [choices |-> choices, parts |-> parts, together |-> together, clears |-> clears,
     open |-> open, extras |-> extras]
Periods == {"30d", "90d"}
Once == {"now"}
Report == View(Periods, {"report"}, TRUE, TRUE, {}, {"refresh", "export"})

OccupancyReport == Report
RevenueReport == Report
GuestAnalytics == Report
SystemHealth == View(Once, {"checks"}, TRUE, TRUE, {"checks"}, {"refresh", "auto"})
DashboardReports == View(Periods, {"occupancy", "revenue"}, FALSE, FALSE, {"revenue"}, {})
DashboardLists == View(Once, {"bookings", "users"}, FALSE, FALSE, {}, {})
BookingCalendar == View(Once, {"bookings"}, TRUE, TRUE, {}, {})
AssignedBookings == View({"all", "confirmed"}, {"bookings"}, TRUE, FALSE, {}, {})
DailySummary == View(Once, {"summary", "bookings"}, TRUE, FALSE, {}, {})
PaymentHistory == View(Once, {"payments"}, TRUE, FALSE, {}, {})
GuestDashboard == View(Once, {"profile", "bookings"}, TRUE, FALSE, {}, {})
Rooms == View({"every", "hotel"}, {"rooms"}, TRUE, FALSE, {}, {"samples"})

Table(v) ==
    CASE v = "OccupancyReport"  -> OccupancyReport
      [] v = "RevenueReport"    -> RevenueReport
      [] v = "GuestAnalytics"   -> GuestAnalytics
      [] v = "SystemHealth"     -> SystemHealth
      [] v = "DashboardReports" -> DashboardReports
      [] v = "DashboardLists"   -> DashboardLists
      [] v = "BookingCalendar"  -> BookingCalendar
      [] v = "AssignedBookings" -> AssignedBookings
      [] v = "DailySummary"     -> DailySummary
      [] v = "PaymentHistory"   -> PaymentHistory
      [] v = "GuestDashboard"   -> GuestDashboard
      [] v = "Rooms"            -> Rooms
T == Table(onView)

Empty(parts) == [p \in parts |-> [of |-> None, at |-> 0]]
Samples(parts) == [p \in parts |-> [of |-> "samples", at |-> 0]]   \* ROOMS, made up
LoadOfBefore(v, c) ==    \* Mistake for Load: asks for the choice of the last render
    [no |-> loaded + 1, of |-> choice, over |-> loads # {},
     got |-> [p \in Table(v).parts |-> "waiting"], at |-> [p \in Table(v).parts |-> 0]]
Load(v, c) == [no |-> loaded + 1, of |-> c, over |-> loads # {},   \* over: history
               got |-> [p \in Table(v).parts |-> "waiting"], at |-> [p \in Table(v).parts |-> 0]]
Ask(v, c) ==
    /\ loaded < MaxLoads /\ loaded' = loaded + 1
    /\ loads' = loads \cup {Load(v, c)} /\ loadingFigures' = TRUE

ReportInit ==
    /\ onView = None /\ choice = None /\ figures = <<>> /\ loadingFigures = FALSE /\ auto = FALSE
    /\ file = None /\ clock = 1 /\ loads = {} /\ loaded = 0
ReportMount(v) ==
    /\ onView = None
    /\ onView' = v
    /\ choice' \in CASE v = "AssignedBookings" -> {"confirmed"}
                     [] v = "Rooms" -> Rooms.choices     \* with or without ?hotel_id=
                     [] Table(v).choices = Periods -> {"30d"}
                     [] Table(v).choices = Once -> Once
    /\ figures' = IF "samples" \in Table(v).extras THEN Samples(Table(v).parts)
                  ELSE Empty(Table(v).parts)
    /\ Ask(v, choice')
    /\ UNCHANGED <<auto, file, clock>>

-----------------------------------------------------------------------------
(* setDays, setPeriod, setTab, selectHotel: the effect loads again. *)
Choose(c) ==
    /\ onView # None /\ c \in T.choices \ {choice}
    /\ choice' = c
    /\ Ask(onView, c)
    /\ UNCHANGED <<onView, figures, auto, file, clock>>
(* The refresh button, or the 15 s interval. *)
Refresh ==
    /\ onView # None
    /\ "refresh" \in T.extras \/ auto
    /\ Ask(onView, choice)
    /\ UNCHANGED <<onView, choice, figures, auto, file, clock>>
ToggleAuto ==
    /\ onView # None /\ "auto" \in T.extras
    /\ auto' = ~auto
    /\ UNCHANGED <<onView, choice, figures, loadingFigures, file, clock, loads, loaded>>
(* The button stands above the spinner. *)
Export ==
    /\ onView # None /\ "export" \in T.extras /\ figures["report"].of # None
    /\ file' = [name |-> choice, rows |-> figures["report"].of]
    /\ UNCHANGED <<onView, choice, figures, loadingFigures, auto, clock, loads, loaded>>

Tick ==
    /\ onView # None /\ clock < MaxClock /\ clock' = clock + 1
    /\ UNCHANGED <<onView, choice, figures, loadingFigures, auto, file, loads, loaded>>
Serve(l, p) ==
    /\ l.got[p] = "waiting"
    /\ \E outcome \in {"ok", "failed"} \cup IF "samples" \in T.extras THEN {"none"} ELSE {} :
         loads' = (loads \ {l}) \cup {[l EXCEPT !.got[p] = outcome, !.at[p] = clock]}
    /\ UNCHANGED <<onView, choice, figures, loadingFigures, auto, file, clock, loaded>>

Failed(l) == {p \in T.parts : l.got[p] = "failed"}
Settled(l) == \/ \A p \in T.parts : l.got[p] # "waiting"
              \/ T.together /\ Failed(l) # {}
NoRooms(l) == l.of = "every" /\ \E p \in T.parts : l.got[p] = "none"
Arrive(l) ==
    /\ Settled(l)
    /\ figures' =
         IF T.together /\ Failed(l) # {}
         THEN IF T.clears THEN Empty(T.parts) ELSE figures
         ELSE [p \in T.parts |-> IF p \in Failed(l) THEN figures[p]
                                 ELSE [of |-> IF NoRooms(l) THEN "samples" ELSE l.of,
                                       at |-> l.at[p]]]
    /\ loadingFigures' = FALSE
    /\ loads' = loads \ {l}
    /\ UNCHANGED <<onView, choice, auto, file, clock, loaded>>

ReportNext ==
    \/ \E v \in Views : ReportMount(v)
    \/ \E c \in {"30d", "90d", "all", "confirmed", "every", "hotel"} : Choose(c)
    \/ Refresh \/ ToggleAuto \/ Export \/ Tick
    \/ \E l \in loads : Arrive(l) \/ \E p \in T.parts : Serve(l, p)

-----------------------------------------------------------------------------
(* Figures that can be seen and are not of the choice above them. *)
Visible(p) == onView # None /\ (~loadingFigures \/ p \in T.open) /\ figures[p].of # None
Mislabelled == onView # None /\ \E p \in T.parts : Visible(p) /\ figures[p].of # choice

Ended == {l \in loads : \A m \in loads' : m.no # l.no}
Overtaken == \E l \in Ended : l.no < loaded     \* a later load has been sent
Keeps == \E l \in Ended : Failed(l) # {} /\ ~T.clears

(* Figures come to stand under a choice they are not of in four ways only: a
   load for an earlier choice ends after a later one was sent; a load fails
   on a page that keeps what it showed; the revenue chart of the dashboard
   (Dashboard.jsx:237-292) is not covered while the new figures are read,
   as its occupancy is (Dashboard.jsx:208-217); or there is no room at all,
   and the page of rooms shows made-up ones (Rooms.jsx:110-122).  An exported file is named
   for a period its rows are not of only if it was made under such figures
   or under the spinner.  A reading is replaced by an older one only when
   loads overtook each other.  A page that awaits its calls together never
   shows one without the others.                                         *)
ReportExplained ==
    [][/\ Mislabelled' /\ ~Mislabelled =>
            \/ Overtaken \/ Keeps
            \/ loadingFigures' /\ \E p \in T.open : figures'[p].of # choice'
            \/ \E l \in Ended : NoRooms(l)
       /\ file' # file /\ file'.name # file'.rows => loadingFigures \/ Mislabelled
       /\ onView # None => \A p \in T.parts :
            figures'[p].of # None /\ figures'[p].at < figures[p].at =>
                Overtaken \/ \E l \in Ended : l.over
       /\ onView' # None /\ T'.together =>
            \A p, q \in T'.parts : figures'[p].of = figures'[q].of]_reportVars
=============================================================================
