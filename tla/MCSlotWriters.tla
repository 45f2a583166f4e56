---------------------------- MODULE MCSlotWriters ----------------------------
(***************************************************************************)
(* SlotWriters on one upserted and one reloaded venue.                     *)
(***************************************************************************)
EXTENDS SlotWriters, TLC

CONSTANTS v1, th, s1, s2

MCCompositeKeys == {v1, th}
MCReloadVenues  == {th}
RunSymmetry     == Permutations(Runs)
Symmetry        == Permutations(Uuids) \cup Permutations(Runs)
MCSessions      == {s1, s2}

Listed(venue, date, session, spaces) ==
  [slot |-> [venue |-> venue, date |-> date, session |-> session],
   spaces |-> spaces, request |-> 1]

\* Two slots of one day that may be listed open or full, or dropped.
UpsertedEntries == {Listed(v1, 0, s, n) : s \in {s1, s2}, n \in 0..1}

\* With the next day and the reloaded venue.
MixedEntries ==
  {Listed(v1, 0, s1, n) : n \in 0..1}
    \cup {Listed(v1, 0, s2, 1), Listed(v1, 1, s1, 1), Listed(th, 0, s1, 1), Listed(th, 0, s2, 0)}

\* Both writers of the badminton table, one day.
BothEntries ==
  {Listed(v1, 0, s1, n) : n \in 0..1} \cup {Listed(v1, 0, s2, 1), Listed(th, 0, s1, 1)}

ReloadedEntries == {Listed(th, 0, s1, 1), Listed(th, 0, s2, 1)}
=============================================================================
