-------------------------------- MODULE Wakeup ---------------------------------
(***************************************************************************)
(* The ingestion worker woken by ZMQ (wakeup.rs, build_wakeup in main.rs): *)
(* between two passes it waits for a rawblock message, not for a timer.    *)
(* Core publishes a message when its tip moves to a new block.  Messages   *)
(* queue while a pass runs, and can be lost.  The worker is Ingest's, but  *)
(* for WakeUp; blocks that an operator invalidates are left to Ingest.     *)
(***************************************************************************)
EXTENDS Ingest

VARIABLES
    notices,   \* rawblock messages in the subscription's queue
    missed     \* history: since the last wakeup a message was lost or a call
               \* failed

zmqVars == <<vars, notices, missed>>

ZmqInit == Init /\ notices = 0 /\ missed = FALSE

Publish ==
    /\ MineBlock \/ Reorganize
    /\ notices' = notices + 1
    /\ UNCHANGED missed

LoseNotice ==
    /\ notices > 0
    /\ budget.faults < MaxFaults
    /\ Spend("faults")
    /\ notices' = notices - 1
    /\ missed' = TRUE
    /\ UNCHANGED <<core, calm, pc, state, passVars, health, storeVars>>

\* Fault: the worker sleeps on until a second message is there.
ReceiveTwoNotices ==
    /\ notices > 1
    /\ WakeUp
    /\ notices' = notices - 2
    /\ missed' = FALSE

\* ZmqWakeup::wait: recv returns a message, whose bytes are discarded.
ReceiveNotice ==
    /\ notices > 0
    /\ WakeUp
    /\ notices' = notices - 1
    /\ missed' = FALSE

\* recv fails: run sleeps for a second and makes a pass.
ReceiveFails ==
    /\ pc = "wait"
    /\ Fault("call")
    /\ Goto("run")
    /\ missed' = FALSE
    /\ UNCHANGED <<core, calm, state, passVars, health, storeVars, notices>>

\* Fault: the queue is emptied when a pass ends.
PassStepDrains ==
    /\ pc # "wait"
    /\ WorkerNext
    /\ notices' = IF pc' = "wait" THEN 0 ELSE notices
    /\ UNCHANGED missed

\* Every other step of the worker.
PassStep ==
    /\ pc # "wait"
    /\ WorkerNext
    /\ UNCHANGED <<notices, missed>>

PassFault ==
    /\ FaultNext
    /\ missed' = TRUE
    /\ UNCHANGED notices

\* main subscribes before it spawns the worker, whose first pass does not wait.
RestartSubscribed ==
    /\ Restart
    /\ notices' = 0
    /\ missed' = FALSE

ZmqWorkerNext == ReceiveNotice \/ PassStep

ZmqNext ==
    \/ Publish \/ LoseNotice
    \/ ZmqWorkerNext \/ ReceiveFails \/ PassFault \/ RestartSubscribed

ZmqSpec == ZmqInit /\ [][ZmqNext]_zmqVars

\* A queued message is received and every call returns.  Core need not publish.
ZmqFairSpec == ZmqSpec /\ WF_zmqVars(ZmqWorkerNext)

-----------------------------------------------------------------------------
(* Properties. *)

\* No wakeup is lost inside the verifier: a worker that waits with an empty
\* queue has stored Core's chain, unless something outside it went wrong since
\* it was last woken; the next message repairs that too.
AsleepMeansSynced == pc = "wait" /\ notices = 0 /\ ~missed => Synced

\* Messages alone, without a timer, bring the database to Core's chain when
\* nothing goes wrong after the last one.
NoticesSuffice == <>[](missed \/ Synced)
================================================================================
