---------------------------- MODULE MCVenueSearch ----------------------------
(***************************************************************************)
(* VenueSearch with two processes, a venue of courts and one of games, of  *)
(* which the older venue sheet knows only the first.  A payload lacks at   *)
(* most one field: of several, the one that is used first fails the        *)
(* search.  The processes are interchangeable.                             *)
(***************************************************************************)
EXTENDS VenueSearch, TLC

CONSTANTS courts, games

MCMappings == {{courts}, {courts, games}}

MCOmissions == {{}, {"postcode"}, {"radius"}, {"analytics"}, {"timeRange"}}

MCSymmetry == Permutations(Workers)
=============================================================================
