---------------------------- MODULE HotelSearch ----------------------------
(***************************************************************************)
(* The way to a room: the search bar with its suggestions                  *)
(* (components/public/BookingSearchBar.jsx), the list it leads to          *)
(* (pages/public/SearchResults.jsx) and the hotels with their rooms        *)
(* (pages/public/Hotels.jsx, which the bar stands on).  An answer is not   *)
(* asked what it is the answer to: a list is known here by the text, the   *)
(* hotel or the location and page it was read for.                         *)
(***************************************************************************)
EXTENDS Naturals, Sequences, FiniteSets

CONSTANTS Places, Hotels, None,
          LastPage,    \* pages the server has for every location
          MaxSteps     \* bound: what the visitor does

HotelSearchAssumption ==
    None \notin Places \cup Hotels /\ LastPage \in Nat \ {0} /\ MaxSteps \in Nat

VARIABLES
    site,                                \* "hotels" or "results"
    destination, debounced,              \* the text; the text a timer waits to look up
    suggestions, showSuggestions,        \* the text the suggestions are for
    location, listed,                    \* initLocation; the pages in the list
    listLoading, listError, hasMore, listPage,
    hotelsState, tries,                  \* "loading", "error" or "ok"
    secondPage,                          \* the second page of the hotels is appended
    mode, selectedHotel, rooms,          \* rooms: the hotel they are of
    roomsLoading, roomsError, hotelId, seen,  \* ?hotel_id=, and those in the history
    linked,                              \* history: opened at ?hotel_id= and not left since
    requests, requested, steps

barVars == <<destination, debounced, suggestions, showSuggestions>>
listVars == <<location, listed, listLoading, listError, hasMore, listPage>>
hotelVars == <<hotelsState, tries, secondPage>>
roomVars == <<mode, selectedHotel, rooms, roomsLoading, roomsError, hotelId, seen, linked>>
searchVars == <<site, barVars, listVars, hotelVars, roomVars, requests, requested, steps>>

Request(n, kind, of, pg) ==    \* over: sent while the list was already being read
    [no |-> requested + n, kind |-> kind, of |-> of, page |-> pg,
     over |-> \E q \in requests : q.kind \in {"list", "more"}]
Ask(kind, of, pg) ==
    /\ requests' = requests \cup {Request(1, kind, of, pg)}
    /\ requested' = requested + 1
Stay == UNCHANGED <<requests, requested>>
Step == steps < MaxSteps /\ steps' = steps + 1

(* Hotels.jsx opened at its plain address or at that of a hotel.  With a
   hotel the page starts in the mode of rooms, so that the effect that would
   enter it never does.                                                   *)
SearchInit ==
    /\ site = "hotels" /\ destination = None /\ debounced = {} /\ suggestions = None
    /\ showSuggestions = FALSE
    /\ location = None /\ listed = <<>> /\ listLoading = FALSE /\ listError = FALSE
    /\ hasMore = FALSE /\ listPage = 1
    /\ hotelsState = "loading" /\ tries = 0 /\ secondPage = FALSE
    /\ hotelId \in Hotels \cup {None}
    /\ linked = (hotelId # None) /\ mode = IF linked THEN "rooms" ELSE "hotels"
    /\ selectedHotel = None /\ rooms = None /\ roomsLoading = FALSE /\ roomsError = FALSE
    /\ seen = {hotelId}
    /\ requests = {[no |-> 1, kind |-> "hotels", of |-> None, page |-> 1, over |-> FALSE]}
    /\ requested = 1 /\ steps = 0

-----------------------------------------------------------------------------
(* BookingSearchBar *)

Type(p) ==
    /\ site = "hotels" /\ p # destination /\ Step
    /\ destination' = p /\ debounced' = {p}
    /\ UNCHANGED <<site, suggestions, showSuggestions, listVars, hotelVars, roomVars>> /\ Stay

(* The timer: an empty text closes the list without a call. *)
LookUp ==
    /\ debounced # {} /\ site = "hotels"
    /\ debounced' = {}
    /\ IF None \in debounced
       THEN suggestions' = None /\ showSuggestions' = FALSE /\ Stay
       ELSE /\ \E p \in debounced : Ask("suggest", p, 1)
            /\ UNCHANGED <<suggestions, showSuggestions>>
    /\ UNCHANGED <<site, destination, listVars, hotelVars, roomVars, steps>>

(* A click on a suggestion, or Enter: the timer and the calls go on. *)
SelectSuggestion ==
    /\ site = "hotels" /\ showSuggestions /\ suggestions # None /\ Step
    /\ destination' = suggestions /\ suggestions' = None /\ showSuggestions' = FALSE
    /\ UNCHANGED <<site, debounced, listVars, hotelVars, roomVars>> /\ Stay

(* Escape or a click outside; the focus opens the list again. *)
ToggleSuggestions ==
    /\ site = "hotels" /\ Step
    /\ showSuggestions \/ destination # None
    /\ showSuggestions' = ~showSuggestions
    /\ UNCHANGED <<site, destination, debounced, suggestions, listVars, hotelVars, roomVars>>
    /\ Stay

(* handleSearch leaves the page: its calls end in nothing. *)
SubmitSearch ==
    /\ site = "hotels" /\ Step
    /\ site' = "results" /\ location' = destination
    /\ destination' = None /\ debounced' = {} /\ suggestions' = None /\ showSuggestions' = FALSE
    /\ listed' = <<>> /\ listLoading' = TRUE /\ listError' = FALSE
    /\ hasMore' = FALSE /\ listPage' = 1
    /\ requests' = {Request(1, "list", destination, 1)} /\ requested' = requested + 1
    /\ UNCHANGED <<hotelVars, roomVars>>

-----------------------------------------------------------------------------
(* SearchResults *)

FetchHotels(p, pg) ==
    /\ listLoading' = TRUE /\ listError' = FALSE
    /\ Ask(IF pg = 1 THEN "list" ELSE "more", p, pg)

(* The form changes the address; the effect follows the location alone. *)
ChangeSearch(p) ==
    /\ site = "results" /\ p # location /\ Step
    /\ location' = p
    /\ FetchHotels(p, 1)
    /\ UNCHANGED <<site, barVars, listed, hasMore, listPage, hotelVars, roomVars>>

LoadMore ==
    /\ site = "results" /\ listed # <<>> /\ hasMore /\ ~listLoading /\ Step
    /\ FetchHotels(location, listPage + 1)
    /\ UNCHANGED <<site, barVars, location, listed, hasMore, listPage, hotelVars, roomVars>>

TryAgain ==
    /\ site = "results" /\ listError /\ Step
    /\ FetchHotels(location, 1)
    /\ UNCHANGED <<site, barVars, location, listed, hasMore, listPage, hotelVars, roomVars>>

-----------------------------------------------------------------------------
(* Hotels *)

FetchAgain ==
    /\ site = "hotels" /\ hotelsState = "error" /\ Step
    /\ hotelsState' = "loading" /\ tries' = 0
    /\ Ask("hotels", None, 1)
    /\ UNCHANGED <<site, barVars, listVars, secondPage, roomVars>>

EnterRoomModeLater(h) ==    \* Mistake for EnterRoomMode: the rooms before stay meanwhile
    /\ mode' = "rooms" /\ selectedHotel' = h /\ UNCHANGED <<rooms, roomsLoading>>
    /\ roomsError' = FALSE
    /\ hotelId' = h /\ seen' = seen \cup {h}
    /\ Ask("rooms", h, 1)

EnterRoomMode(h) ==
    /\ mode' = "rooms" /\ selectedHotel' = h /\ rooms' = None
    /\ roomsLoading' = TRUE /\ roomsError' = FALSE
    /\ hotelId' = h /\ seen' = seen \cup {h}
    /\ Ask("rooms", h, 1)

ViewRooms(h) ==
    /\ site = "hotels" /\ mode = "hotels" /\ hotelsState = "ok" /\ Step
    /\ EnterRoomMode(h)
    /\ UNCHANGED <<site, barVars, listVars, hotelVars, linked>>

BackToHotels ==
    /\ site = "hotels" /\ mode = "rooms" /\ Step
    /\ mode' = "hotels" /\ selectedHotel' = None /\ rooms' = None
    /\ hotelId' = None /\ linked' = FALSE
    /\ UNCHANGED <<site, barVars, listVars, hotelVars, roomsLoading, roomsError, seen>> /\ Stay

(* The browser's back or forward button: the effect enters the hotel of the
   address, unless the page shows rooms already.                          *)
PopAddress(u) ==
    /\ site = "hotels" /\ u \in seen \cup {None} /\ u # hotelId /\ Step
    /\ IF u # None /\ mode = "hotels" /\ hotelsState = "ok"
       THEN EnterRoomMode(u)
       ELSE /\ hotelId' = u
            /\ UNCHANGED <<mode, selectedHotel, rooms, roomsLoading, roomsError, seen>> /\ Stay
    /\ UNCHANGED <<site, barVars, listVars, hotelVars, linked>>

RetryRooms ==
    /\ site = "hotels" /\ mode = "rooms" /\ roomsError /\ ~roomsLoading /\ selectedHotel # None /\ Step
    /\ roomsLoading' = TRUE /\ roomsError' = FALSE
    /\ Ask("rooms", selectedHotel, 1)
    /\ UNCHANGED <<site, barVars, listVars, hotelVars, mode, selectedHotel, rooms, hotelId, seen, linked>>

-----------------------------------------------------------------------------
(* The answers. *)

Suggested(q) ==
    /\ q.kind = "suggest"
    /\ requests' = requests \ {q}
    /\ \/ suggestions' = q.of /\ showSuggestions' = TRUE
       \/ suggestions' = None /\ UNCHANGED showSuggestions      \* failed
    /\ UNCHANGED <<site, destination, debounced, listVars, hotelVars, roomVars, requested, steps>>

ListArrives(q) ==
    /\ q.kind \in {"list", "more"}
    /\ requests' = requests \ {q}
    /\ LET page == <<q.of, q.page>>
       IN listed' = IF q.kind = "more" THEN Append(listed, page) ELSE <<page>>
    /\ hasMore' = (q.page < LastPage) /\ listPage' = q.page /\ listLoading' = FALSE
    /\ UNCHANGED <<site, barVars, location, listError, hotelVars, roomVars, requested, steps>>
ListFails(q) ==
    /\ q.kind \in {"list", "more"}
    /\ requests' = requests \ {q}
    /\ listError' = TRUE /\ listLoading' = FALSE
    /\ UNCHANGED <<site, barVars, location, listed, hasMore, listPage, hotelVars, roomVars, requested, steps>>

(* The first page, and then the second; the list sets off the effect that
   enters the hotel of the address.                                       *)
HotelsArrive(q) ==
    /\ q.kind = "hotels"
    /\ hotelsState' = "ok"
    /\ LET second == Request(1, "second", None, 2)
           rest == requests \ {q}
       IN  IF hotelId # None /\ mode = "hotels"
           THEN /\ mode' = "rooms" /\ selectedHotel' = hotelId /\ rooms' = None
                /\ roomsLoading' = TRUE /\ roomsError' = FALSE
                /\ requests' = rest \cup {second, Request(2, "rooms", hotelId, 1)}
                /\ requested' = requested + 2
           ELSE /\ requests' = rest \cup {second} /\ requested' = requested + 1
                /\ UNCHANGED <<mode, selectedHotel, rooms, roomsLoading, roomsError>>
    /\ UNCHANGED <<site, barVars, listVars, tries, secondPage, hotelId, seen, linked, steps>>
(* Three tries in all, 1.5 s and 3 s apart. *)
HotelsFail(q) ==
    /\ q.kind = "hotels"
    /\ tries' = tries + 1
    /\ IF tries + 1 < 3
       THEN requests' = (requests \ {q}) \cup {Request(1, "hotels", None, 1)}
            /\ requested' = requested + 1 /\ UNCHANGED hotelsState
       ELSE requests' = requests \ {q} /\ UNCHANGED requested /\ hotelsState' = "error"
    /\ UNCHANGED <<site, barVars, listVars, secondPage, roomVars, steps>>
SecondPage(q) ==
    /\ q.kind = "second"
    /\ requests' = requests \ {q}
    /\ secondPage' \in {TRUE, secondPage}      \* a failure is ignored
    /\ UNCHANGED <<site, barVars, listVars, hotelsState, tries, roomVars, requested, steps>>

RoomsArrive(q) ==
    /\ q.kind = "rooms"
    /\ requests' = requests \ {q}
    /\ rooms' = q.of /\ roomsLoading' = FALSE
    /\ UNCHANGED <<site, barVars, listVars, hotelVars, mode, selectedHotel, roomsError, hotelId, seen,
                   linked, requested, steps>>
RoomsFail(q) ==
    /\ q.kind = "rooms"
    /\ requests' = requests \ {q}
    /\ roomsError' = TRUE /\ roomsLoading' = FALSE
    /\ UNCHANGED <<site, barVars, listVars, hotelVars, mode, selectedHotel, rooms, hotelId, seen,
                   linked, requested, steps>>

SearchNext ==
    \/ LookUp \/ SelectSuggestion \/ ToggleSuggestions \/ SubmitSearch
    \/ LoadMore \/ TryAgain \/ FetchAgain \/ BackToHotels \/ RetryRooms
    \/ \E p \in Places \cup {None} : Type(p) \/ ChangeSearch(p)
    \/ \E h \in Hotels : ViewRooms(h)
    \/ \E u \in Hotels \cup {None} : PopAddress(u)
    \/ \E q \in requests :
         \/ Suggested(q) \/ ListArrives(q) \/ ListFails(q) \/ HotelsArrive(q) \/ HotelsFail(q)
         \/ SecondPage(q) \/ RoomsArrive(q) \/ RoomsFail(q)

-----------------------------------------------------------------------------
(* Suggestions for another text than the one typed, which no timer or call
   will put right; a list that is not pages 1, 2, .. of the location above
   it; rooms that are not those of the hotel above them.                 *)
WrongSuggestions ==
    /\ suggestions \notin {None, destination} /\ destination \notin debounced
    /\ \A q \in requests : ~(q.kind = "suggest" /\ q.of = destination)
WrongList ==
    /\ site = "results"
    /\ listed # [n \in 1..Len(listed) |-> <<location, n>>]
WrongRooms ==
    mode = "rooms" /\ ~roomsLoading /\ rooms # selectedHotel

Ended == {q \in requests : ~\E r \in requests' : r.no = q.no}
Late(q) == CASE q.kind = "suggest"         -> q.of # destination
             [] q.kind = "list"            -> q.of # location
             [] q.kind = "more"            -> q.of # location \/ q.no < requested \/ q.over
             [] q.kind = "rooms"           -> q.of # selectedHotel
             [] OTHER                      -> FALSE

(* A list comes to stand under a heading that is not its own in these ways
   only: an answer arrives, or a failure, that the visitor no longer waits
   for (BookingSearchBar.jsx:64, SearchResults.jsx:93, Hotels.jsx:283 do not
   ask); the location changes, whose results replace those before when they
   are read, and do not if that fails (SearchResults.jsx:97), or a page is
   asked for twice, a late answer having put out the spinner (99); the rooms
   asked for could not be read.  Rooms without a hotel are shown only where
   the page was opened at a hotel's address, which never reads them
   (Hotels.jsx:228).                                                      *)
ListsExplained ==
    [][/\ WrongSuggestions' /\ ~WrongSuggestions => \E q \in Ended : Late(q)
       /\ WrongList' /\ ~WrongList =>
            location' # location \/ \E q \in Ended : Late(q)
       /\ WrongRooms' /\ ~WrongRooms =>
            \E q \in Ended : q.kind = "rooms" /\ (Late(q) \/ roomsError')
       /\ (mode = "rooms" /\ selectedHotel = None => linked)']_searchVars
=============================================================================
