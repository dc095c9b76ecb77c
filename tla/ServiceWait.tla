------------------------------ MODULE ServiceWait ------------------------------
(***************************************************************************)
(* What the two service waits of deploy/test-saml-browser.py promise their *)
(* callers, run_tests and run_export_cookies: waiting ends, exactly once,  *)
(* with the services ready, the gateway down, Authentik down, or an        *)
(* exception, and the outcome never changes afterwards.                   *)
(***************************************************************************)
VARIABLE waitResult

WaitOutcomes == {"ready", "gateway_down", "authentik_down", "raised"}

ServiceWaitInit == waitResult = "waiting"

\* wait_for_gateway(config), then wait_for_authentik(config) if it was True.
WaitEnd ==
    /\ waitResult = "waiting"
    /\ waitResult' \in WaitOutcomes

ServiceWaitSpec ==
    ServiceWaitInit /\ [][WaitEnd]_waitResult /\ WF_waitResult(WaitEnd)
=============================================================================
