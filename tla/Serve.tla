-------------------------------- MODULE Serve --------------------------------
(***************************************************************************)
(* The life of the process (cmdServe): start, two servers and the worker   *)
(* loop, a signal or a server's error, and the orderly end.                *)
(*                                                                         *)
(* The context of the signal is the parent of the worker's: both of them   *)
(* end the loop.  A drain or a shutdown that takes too long is given up.   *)
(***************************************************************************)
EXTENDS Naturals, FiniteSets

CONSTANTS
    RunModes,       \* values of --mode
    Work            \* jobs and requests that may be in flight

ASSUME ServeAssumption == RunModes \subseteq {"api", "worker", "all"}

VARIABLES
    mode,
    main,       \* where cmdServe is
    server,     \* each server: off, listening, stopped (not yet reported), ended
    loop,       \* Scheduler.Run: off, running, draining, returned
    jobs,       \* jobs in flight
    requests,   \* requests in flight
    signal,     \* a signal has been received
    canceled,   \* cancelWorker has been called
    errCh,      \* the errors in errCh
    failure,    \* cmdServe returns an error
    late,       \* history: drain and shutdown that were given up
    pool        \* open or closed

serveVars ==
    <<mode, main, server, loop, jobs, requests, signal, canceled, errCh, failure, late, pool>>

\* The capacity of errCh: one result for each server.
ErrCap == 2

Servers == {"metrics", "api"}

RunAPI == mode \in {"api", "all"}
RunWorker == mode \in {"worker", "all"}

\* buildApp, migrations and seed; a failure ends the process with the pool closed.
StartUp ==
    /\ main = "start"
    /\ \/ /\ main' = "wait"
          /\ server' = [s \in Servers |-> IF s = "metrics" \/ RunAPI THEN "listening" ELSE "off"]
          /\ loop' = IF RunWorker THEN "running" ELSE "off"
          /\ UNCHANGED failure
       \/ main' = "defer" /\ failure' = TRUE /\ UNCHANGED <<server, loop>>
    /\ UNCHANGED <<mode, jobs, requests, signal, canceled, errCh, late, pool>>

Signal ==
    /\ main # "exit" /\ ~signal
    /\ signal' = TRUE
    /\ UNCHANGED <<mode, main, server, loop, jobs, requests, canceled, errCh, failure, late, pool>>

\* ListenAndServe fails: the address is taken, or accepting fails.
ServerFails(s) ==
    /\ main # "exit" /\ server[s] = "listening"
    /\ server' = [server EXCEPT ![s] = "stopped"]
    /\ UNCHANGED <<mode, main, loop, jobs, requests, signal, canceled, errCh, failure, late, pool>>

\* The server's goroutine sends the result, which blocks while errCh is full.
Report(s) ==
    /\ main # "exit" /\ server[s] = "stopped" /\ Cardinality(errCh) < ErrCap
    /\ server' = [server EXCEPT ![s] = "ended"] /\ errCh' = errCh \cup {s}
    /\ UNCHANGED <<mode, main, loop, jobs, requests, signal, canceled, failure, late, pool>>

\* Jobs of the loop and requests of the API begin and end.
WorkBegins ==
    /\ main # "exit"
    /\ \E w \in Work \ (jobs \cup requests) :
         \/ loop = "running" /\ jobs' = jobs \cup {w} /\ UNCHANGED requests
         \/ server["api"] = "listening" /\ requests' = requests \cup {w} /\ UNCHANGED jobs
    /\ UNCHANGED <<mode, main, server, loop, signal, canceled, errCh, failure, late, pool>>

WorkEnds ==
    /\ main # "exit" /\ jobs \cup requests # {}
    /\ \E w \in jobs \cup requests : jobs' = jobs \ {w} /\ requests' = requests \ {w}
    /\ UNCHANGED <<mode, main, server, loop, signal, canceled, errCh, failure, late, pool>>

\* Scheduler.Run sees its context end, drains the jobs and returns; after DrainTimeout it
\* returns with jobs in flight.
LoopEnds ==
    /\ main # "exit"
    /\ \/ loop = "running" /\ (signal \/ canceled) /\ loop' = "draining" /\ UNCHANGED late
       \/ loop = "draining" /\ loop' = "returned"
          /\ late' = IF jobs = {} THEN late ELSE late \cup {"jobs"}
    /\ UNCHANGED <<mode, main, server, jobs, requests, signal, canceled, errCh, failure, pool>>

\* The select.
Select ==
    /\ main = "wait"
    /\ \/ signal /\ main' = "shutdown" /\ UNCHANGED <<errCh, failure>>
       \/ \E s \in errCh : main' = "defer" /\ failure' = TRUE /\ errCh' = errCh \ {s}
    /\ UNCHANGED <<mode, server, loop, jobs, requests, signal, canceled, late, pool>>

\* apiSrv.Shutdown waits for the requests, up to ShutdownTimeout.
ShutdownAPI ==
    /\ main = "shutdown"
    /\ \/ server["api"] = "listening" /\ server' = [server EXCEPT !["api"] = "stopped"]
          /\ UNCHANGED <<main, late>>
       \/ server["api"] # "listening" /\ main' = "stop" /\ UNCHANGED server
          /\ late' = IF requests = {} THEN late ELSE late \cup {"requests"}
    /\ UNCHANGED <<mode, loop, jobs, requests, signal, canceled, errCh, failure, pool>>

\* Mutant of StopWorker: without waiting for workerDone.
StopWorkerUnwaited ==
    /\ main = "stop"
    /\ canceled' = TRUE /\ main' = "close"
    /\ UNCHANGED <<mode, server, loop, jobs, requests, signal, errCh, failure, late, pool>>

\* cancelWorker and <-workerDone.
StopWorker ==
    /\ main = "stop"
    /\ \/ RunWorker /\ ~canceled /\ canceled' = TRUE /\ UNCHANGED main
       \/ (RunWorker => canceled /\ loop = "returned") /\ main' = "close" /\ UNCHANGED canceled
    /\ UNCHANGED <<mode, server, loop, jobs, requests, signal, errCh, failure, late, pool>>

\* metricsSrv.Shutdown.
ShutdownMetrics ==
    /\ main = "close"
    /\ main' = "defer"
    /\ server' = [server EXCEPT !["metrics"] = IF @ = "listening" THEN "stopped" ELSE @]
    /\ UNCHANGED <<mode, loop, jobs, requests, signal, canceled, errCh, failure, late, pool>>

\* The deferred calls: cancelWorker, then close; then the process ends.
Return ==
    /\ \/ main = "defer" /\ ~canceled /\ canceled' = TRUE /\ UNCHANGED <<main, pool>>
       \/ main = "defer" /\ canceled /\ pool = "open" /\ pool' = "closed" /\ UNCHANGED <<main, canceled>>
       \/ main = "defer" /\ pool = "closed" /\ main' = "exit" /\ UNCHANGED <<canceled, pool>>
    /\ UNCHANGED <<mode, server, loop, jobs, requests, signal, errCh, failure, late>>

ServeInit ==
    /\ mode \in RunModes /\ main = "start"
    /\ server = [s \in Servers |-> "off"] /\ loop = "off"
    /\ jobs = {} /\ requests = {} /\ signal = FALSE /\ canceled = FALSE /\ errCh = {}
    /\ failure = FALSE /\ late = {} /\ pool = "open"

ServeNext ==
    \/ StartUp \/ Signal \/ \E s \in Servers : ServerFails(s) \/ Report(s)
    \/ WorkBegins \/ WorkEnds \/ LoopEnds
    \/ Select \/ ShutdownAPI \/ StopWorker \/ ShutdownMetrics \/ Return

ServeSpec == ServeInit /\ [][ServeNext]_serveVars

-----------------------------------------------------------------------------
\* Every variable has its type.
ServeTypeOK ==
    /\ main \in {"start", "wait", "shutdown", "stop", "close", "defer", "exit"}
    /\ \A s \in Servers : server[s] \in {"off", "listening", "stopped", "ended"}
    /\ loop \in {"off", "running", "draining", "returned"}
    /\ pool \in {"open", "closed"} /\ jobs \cap requests = {} /\ jobs \cup requests \subseteq Work

\* When the process ends after a signal, the pool is closed only after the loop has
\* returned, with no job in flight unless the drain was given up, and no request unless
\* the shutdown was; a server's error returns at once and promises nothing.
PoolClosesLast ==
    pool = "closed" /\ ~failure =>
        /\ loop \in {"off", "returned"}
        /\ jobs # {} => "jobs" \in late
        /\ requests # {} => "requests" \in late

\* A server's goroutine never blocks on errCh, even if nobody reads it after the select:
\* there is room for a server that has stopped and not reported.
ReportsHaveRoom ==
    \A s \in Servers : server[s] = "stopped" => Cardinality(errCh) < ErrCap

\* The process ends in order: nothing loses the pool under it, and nothing is left
\* blocked on the error channel.
EndIsOrderly == PoolClosesLast /\ ReportsHaveRoom
=============================================================================
