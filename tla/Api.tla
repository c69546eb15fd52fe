---------------------------------- MODULE Api ----------------------------------
(***************************************************************************)
(* The two endpoints that read the verifier while it works, /readyz and    *)
(* the agreement endpoint, with the worker, Core and restarts between any  *)
(* two of their reads.  A request only reads, and none can affect another, *)
(* so one request at a time shows what any number of them can see.         *)
(***************************************************************************)
EXTENDS Agreement, Readiness

apiVars == <<vars, request, probeVars>>

ApiInit ==
    /\ Init
    /\ request = NoRequest
    /\ probe = NoProbe
    /\ seen = {}

Requests ==
    /\ probe = NoProbe
    /\ RequestNext
    /\ UNCHANGED probeVars

Probes ==
    /\ request = NoRequest
    /\ ProbeNext
    /\ UNCHANGED request

Works ==
    /\ CoreNext \/ WorkerNext \/ FaultNext
    /\ seen' = IF probe.pc = "state" THEN seen \cup {core'} ELSE seen
    /\ UNCHANGED <<request, probe>>

\* A restart drops the requests.
RestartServer ==
    /\ Restart
    /\ request' = NoRequest
    /\ probe' = NoProbe
    /\ seen' = {}

ApiNext == Requests \/ Probes \/ Works \/ RestartServer

ApiSpec == ApiInit /\ [][ApiNext]_apiVars
===============================================================================
