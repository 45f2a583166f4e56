------------------------------ MODULE SlotBoard ------------------------------
(***************************************************************************)
(* What one sport's master table promises the readers of the search API:   *)
(* a board that says which court slots can be booked.  A crawl posts a     *)
(* list of slots, some of them open; the board then shows, for every venue *)
(* and every date the list mentions, exactly the open slots of the list,   *)
(* and leaves everything else alone.  SlotStore implements this board with *)
(* database rows.                                                          *)
(***************************************************************************)
EXTENDS Integers

CONSTANTS
  Slots,         \* records with a venue and a date
  ReloadVenues,  \* venues whose whole listing is replaced (Tower Hamlets)
  LastDay        \* bound on the calendar

VARIABLES
  bookable,      \* the slots a reader is offered
  today

boardVars == <<bookable, today>>

VenuesOf(slots) == {s.venue : s \in slots}
DatesOf(slots)  == {s.date  : s \in slots}

\* What a list of upserted slots speaks for: each of its venues on each of its
\* dates, whether or not that pair was itself listed.
Covered(listed) ==
  {s \in Slots : s.venue \in VenuesOf(listed) /\ s.date \in DatesOf(listed)}

Init ==
  /\ bookable = {}
  /\ today = 0

\* A crawl of the upserting providers lists some slots, of which some are open.
Refresh(listed, open) ==
  /\ bookable' = (bookable \ Covered(listed)) \cup open
  /\ UNCHANGED today

\* A crawl of the reloading provider replaces the venues it lists, all dates.
Replace(listed, open) ==
  /\ bookable' = {s \in bookable : s.venue \notin VenuesOf(listed)} \cup open
  /\ UNCHANGED today

\* Housekeeping drops the dates that have passed.
Expire ==
  /\ bookable' = {s \in bookable : s.date >= today}
  /\ UNCHANGED today

NextDay ==
  /\ today < LastDay
  /\ today' = today + 1
  /\ UNCHANGED bookable

UpsertSlots == {s \in Slots : s.venue \notin ReloadVenues}
ReloadSlots == {s \in Slots : s.venue \in ReloadVenues}

Next ==
  \/ \E listed \in SUBSET UpsertSlots : \E open \in SUBSET listed : Refresh(listed, open)
  \/ \E listed \in SUBSET ReloadSlots : \E open \in SUBSET listed : Replace(listed, open)
  \/ Expire
  \/ NextDay

Spec == Init /\ [][Next]_boardVars
=============================================================================
