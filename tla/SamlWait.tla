------------------------------- MODULE SamlWait -------------------------------
(***************************************************************************)
(* wait_for_gateway and wait_for_authentik of deploy/test-saml-browser.py, *)
(* run one after the other as run_tests and run_export_cookies do.        *)
(*                                                                         *)
(* Time is whole seconds since the running wait function took its          *)
(* `start = time.time()`.  One loop iteration is one step: the deadline    *)
(* check at the loop head, one urlopen that takes d seconds, and the      *)
(* time.sleep(2) of the iterations that go on.  urlopen's timeout=5 bounds *)
(* each socket operation (connect, each read), not the request: a server   *)
(* that answers slowly keeps a request going past 5 s without raising, so  *)
(* d ranges up to MaxRequest, a bound of the model, not of the code.       *)
(* A request ends in one of:                                               *)
(*   answered   status 200 (and, for the metadata, an EntityDescriptor);   *)
(*   failed     URLError or HTTPError (refused, connect timeout, 4xx/5xx), *)
(*              or a 200 without EntityDescriptor: caught, the loop sleeps;*)
(*   stalled    the server accepted the connection but the response or     *)
(*              read failed (TimeoutError, RemoteDisconnected,             *)
(*              ConnectionResetError): urllib raises these unwrapped from  *)
(*              getresponse() and read(), and `except (URLError,           *)
(*              HTTPError)` does not catch them.                           *)
(***************************************************************************)
EXTENDS Naturals

CONSTANTS
    GatewayWait,      \* wait_for_gateway(timeout=60)
    AuthentikWait,    \* wait_for_authentik(timeout=120)
    MaxRequest,       \* the longest request the model lets urlopen take
    PollSleep         \* time.sleep(2)

VARIABLES
    stage,        \* the loop running, or how the waits ended
    elapsed,      \* time.time() - start of the running wait function
    akHealthy,    \* Authentik's /-/health/ready/ answered 200 at some point
    metaAsked     \* the metadata loop made a request

waitVars == <<stage, elapsed, akHealthy, metaAsked>>

Waiting == {"gateway", "health", "metadata"}
Ended == {"ready", "gateway_down", "authentik_down", "raised"}

WaitInit ==
    /\ stage = "gateway"
    /\ elapsed = 0
    /\ akHealthy = FALSE
    /\ metaAsked = FALSE

\* Mutant: `start = time.time()` taken inside the loop.
RetryFromLastAttempt(d) ==
    /\ elapsed' = d + PollSleep
    /\ UNCHANGED <<stage, akHealthy>>

\* An iteration that goes on: the request failed, then time.sleep(2).
Retry(d) ==
    /\ elapsed' = elapsed + d + PollSleep
    /\ UNCHANGED <<stage, akHealthy>>

\* The request raised an exception the except clause does not name.
Stall ==
    /\ stage' = "raised"
    /\ UNCHANGED <<elapsed, akHealthy>>

\* One iteration of wait_for_gateway's loop.  On 200 the function returns
\* True and wait_for_authentik takes its own start.
PollGateway ==
    /\ stage = "gateway" /\ elapsed < GatewayWait
    /\ \E d \in 0..MaxRequest :
          \/ /\ stage' = "health" /\ elapsed' = 0
             /\ UNCHANGED akHealthy
          \/ Retry(d)
          \/ Stall
    /\ UNCHANGED metaAsked

\* Mutant: the outcome is recorded under a name callers do not test for.
GatewayGiveUpMisnamed ==
    /\ stage = "gateway" /\ elapsed >= GatewayWait
    /\ stage' = "gateway_timeout"
    /\ UNCHANGED <<elapsed, akHealthy, metaAsked>>

\* The loop condition fails: wait_for_gateway returns False.
GatewayGiveUp ==
    /\ stage = "gateway" /\ elapsed >= GatewayWait
    /\ stage' = "gateway_down"
    /\ UNCHANGED <<elapsed, akHealthy, metaAsked>>

\* One iteration of the health loop; on 200 it breaks without sleeping and
\* the metadata loop starts with the same `start`.
PollHealth ==
    /\ stage = "health" /\ elapsed < AuthentikWait
    /\ \E d \in 0..MaxRequest :
          \/ /\ stage' = "metadata" /\ elapsed' = elapsed + d
             /\ akHealthy' = TRUE
          \/ Retry(d)
          \/ Stall
    /\ UNCHANGED metaAsked

\* One iteration of the metadata loop: 200 with an EntityDescriptor returns
\* True.
PollMetadata ==
    /\ stage = "metadata" /\ elapsed < AuthentikWait
    /\ metaAsked' = TRUE
    /\ \E d \in 0..MaxRequest :
          \/ /\ stage' = "ready" /\ elapsed' = elapsed + d
             /\ UNCHANGED akHealthy
          \/ Retry(d)
          \/ Stall

\* Either loop's condition fails (the while-else of the health loop, or the
\* fall-through after the metadata loop): wait_for_authentik returns False.
AuthentikGiveUp ==
    /\ stage \in {"health", "metadata"} /\ elapsed >= AuthentikWait
    /\ stage' = "authentik_down"
    /\ UNCHANGED <<elapsed, akHealthy, metaAsked>>

WaitNext ==
    \/ PollGateway \/ GatewayGiveUp
    \/ PollHealth \/ PollMetadata \/ AuthentikGiveUp

\* The script is one thread and every urlopen has a timeout.
WaitSpec == WaitInit /\ [][WaitNext]_waitVars /\ WF_waitVars(WaitNext)

-----------------------------------------------------------------------------
WaitTypeOK ==
    /\ stage \in Waiting \cup Ended
    /\ elapsed \in Nat
    /\ akHealthy \in BOOLEAN
    /\ metaAsked \in BOOLEAN

\* The loops as the promise of ServiceWait: still waiting, or how they ended.
Promised == INSTANCE ServiceWait
    WITH waitResult <- IF stage \in Waiting THEN "waiting" ELSE stage

(***************************************************************************)
(* The loops implement ServiceWait: the waits end, once, and the outcome   *)
(* stays.  Ending rests on every iteration measuring time.time() against  *)
(* the one `start` taken on entry, and on every request and sleep taking  *)
(* time; a loop that took its start afresh would poll forever.            *)
(***************************************************************************)
WaitImplementsServiceWait == Promised!ServiceWaitSpec

(***************************************************************************)
(* wait_for_authentik waits "for Authentik to be healthy and SAML provider *)
(* to be configured": when it gives up after the health check passed, it  *)
(* has asked for the provider's metadata at least once.  The metadata loop *)
(* measures against the health loop's `start`, so a health answer that     *)
(* comes near the 120 s leaves it no iteration at all; the callers then    *)
(* log "Authentik did not become healthy in time".                        *)
(***************************************************************************)
MetadataCheckedBeforeGivingUp ==
    stage = "authentik_down" /\ akHealthy => metaAsked
=============================================================================
