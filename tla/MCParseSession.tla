--------------------------- MODULE MCParseSession ---------------------------
(***************************************************************************)
(* ParseSession with events of one byte, several of which go into a batch, *)
(* or of three, each of which fills one.  A request may ask for no cap, a  *)
(* lower one than the server's, or a higher one.                           *)
(***************************************************************************)
EXTENDS ParseSession

MCEventSizes == {1, 3}
MCRequestedCaps == {0, 1, 9}
MCLowAndHighCaps == {1, 9}
MCChunkSizes == {0, 1, 2}
=============================================================================
