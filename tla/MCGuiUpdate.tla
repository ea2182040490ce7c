---------------------------- MODULE MCGuiUpdate ----------------------------
(* Memlocs of two bytes: one may meet another, cut it from the front or be  *)
(* rejected inside it, also after it has erased a third.  Blocks end after  *)
(* three bytes or with their segment; the second segment is one line.  For  *)
(* the lines of later segments, the second has room for a memloc.           *)
EXTENDS GuiUpdate

MCSegLen == <<4, 1>>
MCOneSegment == <<4>>
MCTwoSegments == <<4, 2>>
=============================================================================
