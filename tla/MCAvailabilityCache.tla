------------------------ MODULE MCAvailabilityCache ------------------------
(***************************************************************************)
(* A small instance of AvailabilityCache: one room, nights 1 to 3, and a   *)
(* key that is one night of the booked stay.                               *)
(***************************************************************************)
EXTENDS AvailabilityCache

CONSTANT r1

S(ci, co) == [check_in |-> ci, check_out |-> co]

LongStay == {S(1, 3)}
Nights == {S(2, 3)}
HotelClosure == {[room |-> AllRooms, date |-> 2]}
=============================================================================
