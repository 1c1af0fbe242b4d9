--------------------------- MODULE MCHotelCatalog ---------------------------
(***************************************************************************)
(* Small instances of HotelCatalog: one hotel, with the list and its       *)
(* detail key read, or neither.                                            *)
(***************************************************************************)
EXTENDS HotelCatalog

CONSTANT h1

BothKeys == {AllHotels, h1}
NoKeys == {}
=============================================================================
