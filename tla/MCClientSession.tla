--------------------------- MODULE MCClientSession ---------------------------
(* A guest and an administrator share a browser with one tab or two. *)
EXTENDS ClientSession

CONSTANTS guest, admin

MCUsers == {guest, admin}
MCRoleOf == [u \in MCUsers |-> IF u = guest THEN "guest" ELSE "hotel_admin"]
=============================================================================
