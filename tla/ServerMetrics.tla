---------------------------- MODULE ServerMetrics ----------------------------
(***************************************************************************)
(* The lifecycle manager with the resource metrics it samples: status() is *)
(* polled and starts a reading of the process (powershell or ps, up to     *)
(* 1.5 seconds), whose answer is stored whenever it comes, also after the  *)
(* process was replaced.                                                   *)
(*                                                                         *)
(* Source: node-local-runtime.mjs, refreshProcessMetrics and the readers.  *)
(* A metric is abstracted to the process it was measured on; the interval  *)
(* between samples may have passed or not.                                 *)
(***************************************************************************)
EXTENDS ServerLifecycle

CONSTANT MaxReadings   (* bound: readings of one process in flight *)

ASSUME MetricsAssumption == MaxReadings \in Nat \ {0}

VARIABLES
  lastMetrics,             (* the process it was measured on, or NoProcess  *)
  metricsSampleInFlight,   (* a sample is waited for, as far as polls see   *)
  readings                 (* [ProcessIds -> readings in flight]            *)

metricsVars == <<lastMetrics, metricsSampleInFlight, readings>>
allVars == <<vars, metricsVars>>

MetricsInit ==
  /\ Init
  /\ lastMetrics = NoProcess
  /\ metricsSampleInFlight = FALSE
  /\ readings = [p \in ProcessIds |-> 0]

sampled(p) ==
  /\ metricsSampleInFlight' = TRUE
  /\ readings' = [readings EXCEPT ![p] = @ + 1]

\* start() forgets the old metrics and forces a sample of the new process, whatever
\* is still in flight.
launched(p) ==
  /\ launchSucceeds(p)
  /\ lastMetrics' = NoProcess
  /\ sampled(p)

\* onExit and onError, and the end of stop(): there is nothing to measure.
ended ==
  /\ \E p \in ProcessIds : spawnError(p) \/ \E code \in {0, 1} : exit(p, code)
  /\ lastMetrics' = NoProcess
  /\ UNCHANGED <<metricsSampleInFlight, readings>>

signalled ==
  /\ killTimer
  /\ lastMetrics' = IF processRef' = NoProcess THEN NoProcess ELSE lastMetrics
  /\ UNCHANGED <<metricsSampleInFlight, readings>>

\* Every other step of the manager and its processes.
unmeasured ==
  /\ \/ start \/ launchFails \/ stop \/ restart \/ sendCommand \/ writeDone \/ hardTimer
     \/ \E p \in ProcessIds :
          \/ die(p)
          \/ \E line \in Lines : print(p, line) \/ logLine(p, line) \/ partialLine(p, line)
  /\ UNCHANGED metricsVars

\* status() when the interval has passed and no sample is thought to be in flight.
status ==
  /\ \/ /\ ~hasProcess
        /\ lastMetrics # NoProcess
        /\ lastMetrics' = NoProcess
        /\ UNCHANGED <<metricsSampleInFlight, readings>>
     \/ /\ hasProcess
        /\ ~metricsSampleInFlight
        /\ readings[processRef] < MaxReadings
        /\ sampled(processRef)
        /\ UNCHANGED lastMetrics
  /\ UNCHANGED vars

\* Fault: the flag outlives the sample.
settledFault(p) ==
  /\ readings' = [readings EXCEPT ![p] = @ - 1]
  /\ UNCHANGED metricsSampleInFlight

\* finally: the flag is cleared, although it may be that of another sample.
settled(p) ==
  /\ readings' = [readings EXCEPT ![p] = @ - 1]
  /\ metricsSampleInFlight' = FALSE

\* storeProcessMetrics
storeProcessMetrics(p) ==
  /\ readings[p] > 0
  /\ settled(p)
  /\ lastMetrics' = p
  /\ UNCHANGED vars

\* emitMetricsUnavailable: the last metrics stay.
emitMetricsUnavailable(p) ==
  /\ readings[p] > 0
  /\ settled(p)
  /\ UNCHANGED <<vars, lastMetrics>>

MetricsNext ==
  \/ ended \/ signalled \/ unmeasured \/ status
  \/ \E p \in ProcessIds : launched(p) \/ storeProcessMetrics(p) \/ emitMetricsUnavailable(p)

\* The desktop keeps polling, a reading ends within its timeout, and one that can
\* succeed again and again does at last.
MetricsFairness ==
  /\ WF_allVars((launchFails /\ UNCHANGED metricsVars) \/ (\E p \in ProcessIds : launched(p)))
  /\ WF_allVars(writeDone /\ UNCHANGED metricsVars)
  /\ WF_allVars(signalled)
  /\ WF_allVars(hardTimer /\ UNCHANGED metricsVars)
  /\ WF_allVars(status)
  /\ \A p \in ProcessIds :
       /\ WF_allVars(storeProcessMetrics(p) \/ emitMetricsUnavailable(p))
       /\ SF_allVars(storeProcessMetrics(p))

MetricsSpec == MetricsInit /\ [][MetricsNext]_allVars /\ MetricsFairness

-----------------------------------------------------------------------------
\* What status() reports are the metrics of another process.
stale == hasProcess /\ lastMetrics \notin {NoProcess, processRef}

\* A reading of the old process that ends after a restart is reported as the new
\* server's, and clears the flag of the new server's sample; polling puts that
\* right, however the readings are ordered.
StaleMetricsPass == stale ~> ~stale
=============================================================================
