--------------------------- MODULE MCSamlBrowserTest ---------------------------
(* Two test users stand for TEST_USERS' four, two teams for the six.      *)
EXTENDS SamlBrowserTest
CONSTANTS T1, T2, U1, U2
MCTeamOrder == <<T1, T2>>
MCUsers == <<U1, U2>>
=============================================================================
