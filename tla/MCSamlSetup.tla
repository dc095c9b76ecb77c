------------------------------ MODULE MCSamlSetup ------------------------------
(* Two teams stand for the six of the script: one whose run can stop      *)
(* between its creation and its mapping, and one after it.  Two runs.     *)
EXTENDS SamlSetup
CONSTANTS T1, T2
MCTeamOrder == <<T1, T2>>
=============================================================================
