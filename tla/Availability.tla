--------------------------- MODULE Availability ---------------------------
(***************************************************************************)
(* The availability queries of services/availability.py, as operators on   *)
(* the rows they read.  The hotel is fixed: every query is scoped to one   *)
(* hotel_id, so bookings and blackout dates of two hotels never meet.      *)
(*                                                                         *)
(* A stay is the half-open interval of nights [check_in, check_out); dates *)
(* are natural numbers.  A blackout date closes one room, or every room of *)
(* the hotel when its room_id is NULL (written AllRooms).                  *)
(***************************************************************************)
EXTENDS Naturals

CONSTANTS
    Rooms,    \* the rooms of the hotel
    AllRooms  \* the room_id of a hotel-wide blackout

ASSUME AllRoomsAssumption == AllRooms \notin Rooms

Stay == {s \in [check_in : Nat, check_out : Nat] : s.check_in < s.check_out}

Blackout == [room : Rooms \cup {AllRooms}, date : Nat]

(* The SQL filter ~(b.check_out <= check_in | b.check_in >= check_out). *)
Overlaps(s, t) == ~ (s.check_out <= t.check_in \/ s.check_in >= t.check_out)

(* The SQL filter date >= check_in, date < check_out. *)
FallsIn(date, s) == s.check_in <= date /\ date < s.check_out

HotelWide(blackouts) == {x \in blackouts : x.room = AllRooms}

RoomScoped(blackouts) == blackouts \ HotelWide(blackouts)

(* First query: is the whole hotel closed on a night of the stay? *)
HotelClosed(blackouts, s) == \E x \in HotelWide(blackouts) : FallsIn(x.date, s)

(* Mistakes the checks must notice are written as operators next to the     *)
(* definition they alter; nothing else uses them.  A booking that has not  *)
(* been paid yet does not hold its room:                                   *)
PaidRoomIds(rows, s) ==
    {b.room : b \in {c \in rows : c.status = "confirmed" /\ Overlaps(c.stay, s)}}

(* First subquery of the second query: rooms held by a booking that is not *)
(* cancelled and overlaps the stay.                                        *)
OverlappingRoomIds(rows, s) ==
    {b.room : b \in {c \in rows : c.status # "cancelled" /\ Overlaps(c.stay, s)}}

(* Mistake: the night of arrival is not looked at. *)
BlackoutAfterArrival(blackouts, s) ==
    {x.room : x \in {y \in RoomScoped(blackouts) :
        s.check_in < y.date /\ y.date < s.check_out}}

(* Second subquery: rooms blacked out on a night of the stay. *)
BlackoutRoomIds(blackouts, s) ==
    {x.room : x \in {y \in RoomScoped(blackouts) : FallsIn(y.date, s)}}

(* The second query as a whole. *)
FreeRooms(rows, blackouts, activeRooms, s) ==
    activeRooms \ (OverlappingRoomIds(rows, s) \cup BlackoutRoomIds(blackouts, s))

(* get_available_rooms when nothing is committed between its two queries. *)
AvailableRooms(rows, blackouts, activeRooms, s) ==
    IF HotelClosed(blackouts, s) THEN {}
    ELSE FreeRooms(rows, blackouts, activeRooms, s)
=============================================================================
