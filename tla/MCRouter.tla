------------------------------ MODULE MCRouter ------------------------------
(* Every page with two of what it shows; the values of different pages never
   meet, so that one pair serves all.                                     *)
EXTENDS Router, TLC

CONSTANTS a, b
Two == {a, b}
Symmetry == Permutations(Two)
SomeLogins == {1, 3}
AllViews == {"OccupancyReport", "RevenueReport", "GuestAnalytics", "SystemHealth",
             "DashboardReports", "DashboardLists", "BookingCalendar", "AssignedBookings",
             "DailySummary", "PaymentHistory", "GuestDashboard", "Rooms"}
=============================================================================
