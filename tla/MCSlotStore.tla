----------------------------- MODULE MCSlotStore -----------------------------
(***************************************************************************)
(* SlotStore on two upserted venues and one reloaded venue over two days.  *)
(***************************************************************************)
EXTENDS SlotStore, TLC

CONSTANTS v1, v2, th, s1, s2

MCCompositeKeys == {v1, v2, th}
MCReloadVenues  == {th}
UuidSymmetry    == Permutations(Uuids)

Listed(venue, date, session, spaces, request) ==
  [slot |-> [venue |-> venue, date |-> date, session |-> session],
   spaces |-> spaces, request |-> request]

MCSessions == {s1, s2}

\* v1 lists its first session open or full, its second one, and the next day;
\* v2 lists one slot; th lists both days.
MCEntries ==
  {Listed(v1, 0, s1, n, 1) : n \in {0, 1}}
    \cup {Listed(v1, 0, s2, 2, 1), Listed(v1, 1, s1, 1, 1), Listed(v2, 0, s1, 1, 1)}
    \cup {Listed(th, d, s1, 1, 1) : d \in 0..1}
=============================================================================
