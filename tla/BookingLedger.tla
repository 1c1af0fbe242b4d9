--------------------------- MODULE BookingLedger ---------------------------
(***************************************************************************)
(* What the booking and payment code promises about one booking, with the  *)
(* requests, sessions and crashes that carry it out left out: a booking is *)
(* placed once and never disappears; a payment is captured once, for one   *)
(* booking, and confirms that booking at most once (its request may die    *)
(* first); nothing else confirms a booking, and only a booking that has    *)
(* been confirmed is completed; nothing becomes pending again.  Staff may  *)
(* set any status by hand, and a booking they touched is marked for good.  *)
(***************************************************************************)
CONSTANTS BookingIds, PaymentIds

VARIABLES
    status,     \* status[b], "none" while b has not been placed
    captured,   \* the pairs <<p, b>> of a captured payment and its booking
    due,        \* the captured payments that have yet to confirm it
    confirmed,  \* the bookings that have been confirmed at some time
    overridden  \* the bookings whose status staff have set by hand

vars == <<status, captured, due, confirmed, overridden>>

BookingStatus == {"pending", "confirmed", "cancelled", "completed"}

Placed(b) == status[b] # "none"

Captured(p) == \E b \in BookingIds : <<p, b>> \in captured

TypeOK ==
    /\ status \in [BookingIds -> BookingStatus \cup {"none"}]
    /\ captured \subseteq PaymentIds \X BookingIds
    /\ due \subseteq PaymentIds
    /\ confirmed \subseteq BookingIds
    /\ overridden \subseteq BookingIds

Init ==
    /\ status = [b \in BookingIds |-> "none"]
    /\ captured = {}
    /\ due = {}
    /\ confirmed = {}
    /\ overridden = {}

SetStatus(b, s) == status' = [status EXCEPT ![b] = s]

Place(b) ==
    /\ ~ Placed(b)
    /\ SetStatus(b, "pending")
    /\ UNCHANGED <<captured, due, confirmed, overridden>>

Capture(p, b) ==
    /\ Placed(b)
    /\ ~ Captured(p)
    /\ captured' = captured \cup {<<p, b>>}
    /\ due' = due \cup {p}
    /\ UNCHANGED <<status, confirmed, overridden>>

(* Whatever the status is by now: the guest may have cancelled meanwhile.  *)
Confirm(p, b) ==
    /\ Placed(b)
    /\ <<p, b>> \in captured
    /\ p \in due
    /\ SetStatus(b, "confirmed")
    /\ due' = due \ {p}
    /\ confirmed' = confirmed \cup {b}
    /\ UNCHANGED <<captured, overridden>>

(* The request dies between the capture and the confirmation. *)
Lapse(p) ==
    /\ p \in due
    /\ due' = due \ {p}
    /\ UNCHANGED <<status, captured, confirmed, overridden>>

Complete(b) ==
    /\ b \in confirmed
    /\ SetStatus(b, "completed")
    /\ UNCHANGED <<captured, due, confirmed, overridden>>

Cancel(b) ==
    /\ Placed(b)
    /\ SetStatus(b, "cancelled")
    /\ UNCHANGED <<captured, due, confirmed, overridden>>

Override(b, s) ==
    /\ Placed(b)
    /\ SetStatus(b, s)
    /\ confirmed' = IF s = "confirmed" THEN confirmed \cup {b} ELSE confirmed
    /\ overridden' = overridden \cup {b}
    /\ UNCHANGED <<captured, due>>

Next ==
    \/ \E b \in BookingIds :
           \/ Place(b)
           \/ Complete(b)
           \/ Cancel(b)
           \/ \E s \in BookingStatus : Override(b, s)
           \/ \E p \in PaymentIds : Capture(p, b) \/ Confirm(p, b)
    \/ \E p \in PaymentIds : Lapse(p)

Spec == Init /\ [][Next]_vars
=============================================================================
