------------------------------- MODULE MCSync -------------------------------
(* Each behaviour exercises one of the primitives, from its initial state: *)
(* none of them uses another but through the parking lot.                  *)
EXTENDS Monitor, Semaphore, Signals, Parker

CONSTANTS t1, t2, t3, k1, k2, k3, k4, k5

VARIABLE exercised

syncVars == <<vars, monitorVars, semaphoreVars, signalVars, parkerVars, exercised>>

SyncInit ==
  /\ MonitorInit /\ SemaphoreInit /\ SignalsInit /\ ParkerInit
  /\ exercised \in {"monitor", "semaphore", "signals", "parker"}
  /\ exercised # "parker" => onWindows = FALSE

SyncNext ==
  /\ UNCHANGED exercised
  /\ \/ /\ exercised = "monitor" /\ MonitorNext
        /\ UNCHANGED <<semaphoreVars, signalVars, parkerVars>>
     \/ /\ exercised = "semaphore" /\ SemaphoreNext
        /\ UNCHANGED <<monitorVars, signalVars, parkerVars>>
     \/ /\ exercised = "signals" /\ SignalsNext
        /\ UNCHANGED <<monitorVars, semaphoreVars, parkerVars>>
     \/ /\ exercised = "parker" /\ ParkerNext
        /\ UNCHANGED <<vars, monitorVars, semaphoreVars, signalVars>>

\* What a primitive that is not exercised is to do in the end, it does not begin.
SyncSpec ==
  /\ SyncInit /\ [][SyncNext]_syncVars
  /\ MonitorFairness /\ SemaphoreFairness /\ SignalsFairness /\ ParkerFairness
=============================================================================
