----------------------------- MODULE MCBookings -----------------------------
(***************************************************************************)
(* Small instances of Bookings for TLC: stays that overlap on one room,    *)
(* and a blackout date of the room.                                        *)
(***************************************************************************)
EXTENDS Bookings, TLC

CONSTANT r1

S(ci, co) == [check_in |-> ci, check_out |-> co]
X(r, d) == [room |-> r, date |-> d]

OneStay == {S(1, 3)}
OverlappingStays == {S(1, 3), S(2, 4)}
NoClosures == {}
RoomClosure == {X(r1, 2)}
BackToPending == {"pending"}
NoOverrides == {}

Interchangeable == Permutations(Workers) \cup Permutations(BookingIds)
                       \cup Permutations(PaymentIds)
=============================================================================
