------------------------------- MODULE Router -------------------------------
(***************************************************************************)
(* The pages under the one router (App.jsx, AppRoutes): it mounts one page *)
(* at a time, and a page keeps its state to itself and loses it when it is *)
(* left.  A behaviour is a visit of one of them: the guest panel, the      *)
(* activity log, a page of figures, the search for a room, the way from a  *)
(* room to a paid booking or the profile.  (Pages of rows: RowPages.)      *)
(***************************************************************************)
EXTENDS Integers, Sequences, FiniteSets

CONSTANTS None,
          Guests, MaxClicks, MaxWaiting,                       \* GuestPanel
          MaxLog, Logins, PageSize, MaxFeedClicks, MaxPolls,   \* ActivityFeed
          Views, MaxLoads, MaxClock,                           \* ReportViews
          Places, Hotels, LastPage, MaxSteps,                  \* HotelSearch
          LastDay, MaxRooms, MaxActs, MaxAttempts,             \* Checkout
          MaxSends, MaxOut                                     \* ProfilePhoto

VARIABLES
    mounted,    \* the page, by its module
    record, remarks, segmentFilter, guests, overview, open, chosen, sel, notes, timeline,
    panelTab, spinner, adding, closing, apiError, calls, sent, doubt, panelClicks,
    written, filters, pageNo, logs, total, loadingLogs, live, pending, latest, feedTab,
    stats, bookmarks, queries, asked, feedClicks, polls,
    onView, choice, figures, loadingFigures, auto, file, clock, loads, loaded,
    site, destination, debounced, suggestions, showSuggestions, location, listed,
    listLoading, listError, hasMore, listPage, hotelsState, tries, secondPage, mode,
    selectedHotel, rooms, roomsLoading, roomsError, hotelId, seen, linked, requests,
    requested, steps,
    place, isAuthenticated, east, checkIn, checkOut, pickingEnd, picked, counter,
    roomCount, step, named, cardOk, loading, error, visit, attempts, quoted, bookings,
    rate, confirmation, tried, acts,
    account, files, cachedProfile, served, sends, desk, person, reading, saving,
    uploading, header, halfway, why

P == INSTANCE GuestPanel
F == INSTANCE ActivityFeed
R == INSTANCE ReportViews
S == INSTANCE HotelSearch
C == INSTANCE Checkout
H == INSTANCE ProfilePhoto

ASSUME RouterAssumption ==
    /\ P!GuestPanelAssumption /\ F!ActivityFeedAssumption /\ R!ReportViewsAssumption
    /\ S!HotelSearchAssumption /\ C!CheckoutAssumption
    /\ H!ProfilePhotoAssumption

guestVars == <<record, remarks, segmentFilter, guests, overview, open, chosen, sel, notes,
               timeline, panelTab, spinner, adding, closing, apiError, calls, sent, doubt,
               panelClicks>>
feedVars == <<written, filters, pageNo, logs, total, loadingLogs, live, pending, latest,
              feedTab, stats, bookmarks, queries, asked, feedClicks, polls>>
reportVars == <<onView, choice, figures, loadingFigures, auto, file, clock, loads, loaded>>
searchVars == <<site, destination, debounced, suggestions, showSuggestions, location,
                listed, listLoading, listError, hasMore, listPage, hotelsState, tries,
                secondPage, mode, selectedHotel, rooms, roomsLoading, roomsError, hotelId,
                seen, linked, requests, requested, steps>>
checkoutVars == <<place, isAuthenticated, east, checkIn, checkOut, pickingEnd,
                  picked, counter, roomCount, step, named, cardOk, loading, error,
                  visit, attempts, quoted, bookings, rate, confirmation, tried, acts>>
photoVars == <<account, files, cachedProfile, served, sends, desk, person, reading,
               saving, uploading, header, halfway, why>>
vars == <<mounted, guestVars, feedVars, reportVars, searchVars, checkoutVars, photoVars>>

(* What a page that is not mounted would start with is fixed.  A visitor
   who has to sign in, a clock that loses days and a price that has changed
   are looked at one at a time, and a guest starts out with a photo, the desk without. *)
Init ==
    /\ mounted \in {"guests", "feed", "report", "search", "checkout", "profile"}
    /\ P!GuestInit /\ F!FeedInit /\ R!ReportInit /\ S!SearchInit /\ C!CheckoutInit /\ H!ProfileInit
    /\ mounted # "search" => hotelId = None
    /\ IF mounted = "checkout" THEN (east \/ rate # 1 => isAuthenticated) /\ ~(east /\ rate # 1)
       ELSE ~isAuthenticated /\ ~east /\ rate = 1
    /\ IF mounted = "profile" THEN account.photo = IF desk THEN None ELSE 1
       ELSE ~desk /\ account.photo = None

Next ==
    \/ mounted = "guests" /\ P!GuestNext
       /\ UNCHANGED <<mounted, feedVars, reportVars, searchVars, checkoutVars, photoVars>>
    \/ mounted = "feed" /\ F!FeedNext
       /\ UNCHANGED <<mounted, guestVars, reportVars, searchVars, checkoutVars, photoVars>>
    \/ mounted = "report" /\ R!ReportNext
       /\ UNCHANGED <<mounted, guestVars, feedVars, searchVars, checkoutVars, photoVars>>
    \/ mounted = "search" /\ S!SearchNext
       /\ UNCHANGED <<mounted, guestVars, feedVars, reportVars, checkoutVars, photoVars>>
    \/ mounted = "checkout" /\ C!CheckoutNext
       /\ UNCHANGED <<mounted, guestVars, feedVars, reportVars, searchVars, photoVars>>
    \/ mounted = "profile" /\ H!ProfileNext
       /\ UNCHANGED <<mounted, guestVars, feedVars, reportVars, searchVars, checkoutVars>>

Spec == Init /\ [][Next]_vars

-----------------------------------------------------------------------------
(* The guest panel comes to show another guest, another's notes or bookings,
   or flags the server does not hold, in the listed ways only: stated in
   GuestPanel, of GuestIntelligence.jsx:263-385.                         *)
PanelShowsChosen == P!PanelShowsChosen

(* The activity feed doubles, mixes or loses entries in the listed ways only:
   stated in ActivityFeed, of ActivityLogs.jsx:369-430.                  *)
FeedExplained == F!FeedExplained

(* Figures stand under a period they are not of, or a file under a name it
   does not deserve, in the listed ways only: stated in ReportViews, of
   the pages in its table.                                               *)
ReportExplained == R!ReportExplained

(* Suggestions, results and rooms stand under a heading that is not theirs in
   the listed ways only: stated in HotelSearch, of BookingSearchBar.jsx,
   SearchResults.jsx and Hotels.jsx.                                      *)
ListsExplained == S!ListsExplained

(* The stay on the page is the one clicked, with the days the calendar loses
   east of Greenwich: stated in Checkout, of DateRangePicker.jsx:79-92.   *)
StayExplained == C!StayExplained

(* Bookings nobody will pay, charges and the confirmation: stated in
   Checkout, of Booking.jsx:92-126.                                       *)
HoldsExplained == C!HoldsExplained

(* The photo, the row, the cache and the page disagree in the listed ways
   only: stated in ProfilePhoto, of profile.py:100-128 and
   ProfileManagement.jsx:155-203.                                         *)
ProfileExplained == H!ProfileExplained
=============================================================================
