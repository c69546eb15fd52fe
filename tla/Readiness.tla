------------------------------- MODULE Readiness -------------------------------
(***************************************************************************)
(* GET /readyz (api.rs, readiness) beside the ingestion worker.  A probe   *)
(* queries PostgreSQL, Core's status, the stored state and the worker's    *)
(* health one after the other, notes every failure and answers at the end. *)
(*                                                                         *)
(* A stored state with a tip is Active or FailedInit; the latter is noted  *)
(* as a failure, as an unreadable state is.                                *)
(***************************************************************************)
EXTENDS Ingest

VARIABLES
    probe,   \* the one probe in progress: [pc, failed, blocks, stored, ready]
    seen     \* history: Core's chains from the status read to the state read

probeVars == <<probe, seen>>

NoProbe == [pc |-> "none", failed |-> FALSE, blocks |-> 0, stored |-> <<>>, ready |-> FALSE]

\* The probe's next read is label; fails notes a failure.
Proceed(label, fails) == [probe EXCEPT !.pc = label, !.failed = @ \/ fails]

-----------------------------------------------------------------------------
\* SELECT 1 reads nothing of the model's state, and may fail.
Probe ==
    /\ probe = NoProbe
    /\ \E fails \in BOOLEAN : probe' = Proceed("status", fails)
    /\ UNCHANGED <<vars, seen>>

\* Core answers and is ready, or not.
QueryCore ==
    /\ probe.pc = "status"
    /\ \/ probe' = [Proceed("state", FALSE) EXCEPT !.blocks = Len(core)]
       \/ probe' = Proceed("state", TRUE)
    /\ seen' = {core}
    /\ UNCHANGED vars

\* A stored state without a tip is AwaitingInit, which is a failure.  So are a
\* FailedInit state and a query that fails.
LoadState ==
    /\ probe.pc = "state"
    /\ \/ probe' = [Proceed("worker", protocol_state = <<>>) EXCEPT !.stored = protocol_state]
       \/ probe' = Proceed("worker", TRUE)
    /\ UNCHANGED <<vars, seen>>

\* Fault: only a tip above Core's height is a failure.
AtMostCoreHeight(st, blocks) == TipHeight(st) <= blocks

\* stored_state.tip_height = Some(core_status.blocks)
AtCoreHeight(st, blocks) == TipHeight(st) = blocks

\* The worker's health is the last read; the heights are those read before.
AnswerProbe ==
    /\ probe.pc = "worker"
    /\ probe' = [probe EXCEPT
        !.pc = "answered",
        !.ready = /\ ~probe.failed
                  /\ ~health.catching_up
                  /\ ~health.last_error
                  /\ AtCoreHeight(probe.stored, probe.blocks)]
    /\ UNCHANGED <<vars, seen>>

EndProbe ==
    /\ probe.pc = "answered"
    /\ probe' = NoProbe
    /\ seen' = {}
    /\ UNCHANGED vars

ProbeNext == Probe \/ QueryCore \/ LoadState \/ AnswerProbe \/ EndProbe

-----------------------------------------------------------------------------
(* Properties. *)

SaidReady == probe.pc = "answered" /\ probe.ready

\* The height comparison stands for a comparison of chains: where Core's height
\* never goes down, a probe that answers ready read a stored state that holds,
\* from INIT up to Core's height, exactly a chain that was Core's between the
\* two reads.  It holds through reorganizations, lost answers and restarts,
\* also for the default health of a worker that has not run yet.
ReadyMeansHeld ==
    SaidReady =>
        \E c \in seen :
            /\ probe.blocks <= Len(c)
            /\ Hashes(probe.stored) = CanonicalHashes(BlockHash(c, probe.blocks))
===============================================================================
