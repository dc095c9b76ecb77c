------------------------- MODULE MCKnowledgeBaseTest -------------------------
(***************************************************************************)
(* Two sources, the first of which already has its store on the server;    *)
(* two documents per source, so one file can fail while another succeeds; *)
(* two polls per wait, so the deadline and a poll after a pending one are  *)
(* both reached.                                                           *)
(***************************************************************************)
EXTENDS KnowledgeBaseTest

CONSTANTS S1, S2

MCSources == <<S1, S2>>
MCExisting == {S1}
=============================================================================
