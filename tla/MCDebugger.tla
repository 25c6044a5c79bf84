---------------------------- MODULE MCDebugger ----------------------------
(* The debugger and the panel on a bounded machine with one goroutine. *)
EXTENDS Debugger

\* The state without the history of requests, which no action reads (the bound on
\* `accepted` apart) and no property of the debugger mentions.
DebugView == <<cpuVars, running, stopRequested, ready, readyCallback, cycleVars,
               pendingInterrupt, at, callVars, reason, accepted, dbgVars>>
===========================================================================
